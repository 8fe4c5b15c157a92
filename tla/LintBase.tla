------------------------------ MODULE LintBase ------------------------------
(***************************************************************************)
(* What the lint rules read and what they return (lints/registry.go and    *)
(* the policy switch that most rules of lints/ repeat).                    *)
(*                                                                         *)
(* A package is a record: its category and name, its ebuilds, Manifest,    *)
(* metadata.xml and files.  An ebuild is a record of what the rules tell   *)
(* apart: its version, whether g2 and the shell parser accept it, the      *)
(* values of its variables as sets of tokens, and its code as a sequence   *)
(* of calls.  A call has a command, its words and the constructs that      *)
(* enclose it; a word is the sequence of its path components, the first    *)
(* being "/" in an absolute path, and what a variable expands to is left   *)
(* out of it, as the rules do.                                             *)
(*                                                                         *)
(* The repository is a record of the files under profiles/, metadata/ and  *)
(* eclass/ that rules look at.  A rule maps both to a set of results; the  *)
(* text of the message is left out, so two results of one rule about the   *)
(* same version and with the same severity are one.                        *)
(***************************************************************************)
EXTENDS Integers, Sequences, FiniteSets, SequencesExt

LiveVersion == 9999
WholePackage == 0       \* the version of a result that names none

Severities == {"Error", "Warning", "Notice"}

\* Policies that some rule asks for but whose names do not begin with "PG".
OwnNames == {"CharacterSet", "EbuildHeader", "IndentingWhitespace", "PythonSingleR1UseDep",
             "Md5CacheMissing", "Md5CacheInvalid", "GLEP67", "GLEP68"}

\* metadata/qa-policy.conf, a partial function from policies to what is to be done, of which
\* only the numbered ones are kept.
ParseQAPolicy(repo) == [p \in DOMAIN repo.qaPolicy \ OwnNames |-> repo.qaPolicy[p]]

\* Bug variant: a policy that is set silences the rule, whatever its value.
IgnoredIfSet(repo, policy) == policy \in DOMAIN ParseQAPolicy(repo)

Ignored(repo, policy) ==
    LET qa == ParseQAPolicy(repo) IN policy \in DOMAIN qa /\ qa[policy] = "ignore"

\* A value that is none of the known ones leaves the default.
SeverityUnder(repo, policy, default) ==
    LET qa == ParseQAPolicy(repo)
        named == [error |-> "Error", warning |-> "Warning", notice |-> "Notice"]
    IN  IF policy \in DOMAIN qa /\ qa[policy] \in DOMAIN named THEN named[qa[policy]] ELSE default

Result(rule, severity, versions) == {[rule |-> rule, severity |-> severity, version |-> v] : v \in versions}

Unless(repo, policy, results) == IF Ignored(repo, policy) THEN {} ELSE results

\* The results of a rule whose severity a policy decides, one for each version found.
Report(repo, rule, policy, default, versions) ==
    Unless(repo, policy, Result(rule, SeverityUnder(repo, policy, default), versions))

\* The ebuilds that g2 reads, and those of them that the shell parser reads too.
Ebuilds(pkg) == {e \in pkg.ebuilds : e.parses}
Scripts(pkg) == {e \in Ebuilds(pkg) : e.shell}

\* The versions of the ebuilds that have a property.
Which(ebuilds, Has(_)) == {e.version : e \in {x \in ebuilds : Has(x)}}

Calls(e, commands) == {c \in ToSet(e.code) : c.cmd \in commands}
Under(c, constructs) == c.in \cap constructs # {}

IsAbs(word) == word # <<>> /\ Head(word) = "/"
Below(word, prefix) == IsPrefix(prefix, word)
=============================================================================
