------------------------------ MODULE ReposConf -----------------------------
(***************************************************************************)
(* repos.conf, a file or a directory of files, and the commands of         *)
(* "g2 repos-conf" that edit it: set, unset, disable, enable and move      *)
(* (repos_conf.go and cmd/g2/repos_conf.go).  A section is disabled by     *)
(* commenting out its header and all its lines.                            *)
(*                                                                         *)
(* A line has a number of "#" signs before it, and is the header of a      *)
(* section, a key with a value, or text.  Blank lines and white space are  *)
(* left out.  A file is written by truncating it first, and a write that   *)
(* fails, or a process that is killed in it, leaves it empty.              *)
(***************************************************************************)
EXTENDS Naturals, Sequences, FiniteSets, SequencesExt, FiniteSetsExt

CONSTANTS
    FileNames,     \* the files of the directory, in the order of their names; the first
                   \* one stands for repos.conf where that is a file
    OwnFile,       \* repository |-> the file that is named after it
    Repos,         \* the repositories
    Keys,          \* the keys and
    Values,        \* the values that they are set to
    InitialConf,   \* what is there at first: functions from some of the files to lines
    MaxConfCommands \* bound: how many commands are run

ASSUME ReposConfAssumption ==
    /\ FileNames # <<>>
    /\ OwnFile \in [Repos -> ToSet(FileNames)]
    /\ MaxConfCommands \in Nat

VARIABLES
    isDir,       \* whether repos.conf is a directory
    conf,        \* file |-> its lines, for the files that exist
    confCommand  \* the command that was run last

confVars == <<isDir, conf, confCommand>>

Header(name, hash) == [hash |-> hash, kind |-> "section", name |-> name, value |-> ""]
Setting(key, value, hash) == [hash |-> hash, kind |-> "key", name |-> key, value |-> value]

-----------------------------------------------------------------------------
(* Parsing and writing.                                                    *)

\* A header may be commented out once; below more signs it is a line like others.
IsHeader(line) == line.kind = "section" /\ line.hash <= 1

ParseReposConfFile(lines) ==
    LET heads == SetToSortSeq({i \in DOMAIN lines : IsHeader(lines[i])}, <)
        End(n) == IF n = Len(heads) THEN Len(lines) ELSE heads[n + 1] - 1
    IN  [header |-> SubSeq(lines, 1, IF heads = <<>> THEN Len(lines) ELSE Head(heads) - 1),
         sections |-> [n \in DOMAIN heads |->
            [name |-> lines[heads[n]].name, disabled |-> lines[heads[n]].hash = 1,
             lines |-> SubSeq(lines, heads[n] + 1, End(n))]]]

Rendered(file) ==
    file.header \o FlattenSeq([n \in DOMAIN file.sections |->
        <<Header(file.sections[n].name, IF file.sections[n].disabled THEN 1 ELSE 0)>>
            \o file.sections[n].lines])

\* The first section of the name, in the order of the files.
Holds(f, repo) ==
    f \in DOMAIN conf /\ \E n \in DOMAIN ParseReposConfFile(conf[f]).sections :
                             ParseReposConfFile(conf[f]).sections[n].name = repo
Found(repo) == \E k \in DOMAIN FileNames : Holds(FileNames[k], repo)
FileOf(repo) == FileNames[Min({k \in DOMAIN FileNames : Holds(FileNames[k], repo)})]
PlaceOf(repo) ==
    LET sections == ParseReposConfFile(conf[FileOf(repo)]).sections
    IN  Min({n \in DOMAIN sections : sections[n].name = repo})
SectionOf(repo) == ParseReposConfFile(conf[FileOf(repo)]).sections[PlaceOf(repo)]

-----------------------------------------------------------------------------
(* One section.                                                            *)

\* Bug variant: only the header is commented out.
DisableHeader(section) == [section EXCEPT !.disabled = TRUE]

Disable(section) ==
    IF section.disabled THEN section
    ELSE [section EXCEPT !.disabled = TRUE,
                         !.lines = [i \in DOMAIN @ |-> [@[i] EXCEPT !.hash = @ + 1]]]

Enable(section) ==
    IF ~section.disabled THEN section
    ELSE [section EXCEPT !.disabled = FALSE,
                         !.lines = [i \in DOMAIN @ |-> [@[i] EXCEPT !.hash = IF @ > 0 THEN @ - 1 ELSE 0]]]

\* In a disabled section one sign is looked through.
Is(section, line, key) ==
    line.kind = "key" /\ line.name = key /\ line.hash <= IF section.disabled THEN 1 ELSE 0

Get(section, key) ==
    LET found == SelectSeq(section.lines, LAMBDA l : Is(section, l, key))
    IN  IF found = <<>> THEN "" ELSE Head(found).value

SetKey(section, key, value) ==
    LET places == {i \in DOMAIN section.lines : Is(section, section.lines[i], key)}
    IN  IF places = {}
        THEN [section EXCEPT !.lines = Append(@, Setting(key, value, IF section.disabled THEN 1 ELSE 0))]
        ELSE [section EXCEPT !.lines[Min(places)].value = value]

UnsetKey(section, key) ==
    [section EXCEPT !.lines = SelectSeq(@, LAMBDA l : ~Is(section, l, key))]

-----------------------------------------------------------------------------
(* The commands.                                                           *)

With(files, f, lines) == [g \in DOMAIN files \cup {f} |-> IF g = f THEN lines ELSE files[g]]

Ends(cmd, repo, args, ok) ==
    confCommand' = [cmd |-> cmd, repo |-> repo, args |-> args, ok |-> ok, count |-> confCommand.count + 1]

\* Write of a file, which is os.WriteFile.
Write(f, lines, cmd, repo, args) ==
    \/ conf' = With(conf, f, lines) /\ Ends(cmd, repo, args, TRUE)
    \/ conf' \in {conf, With(conf, f, <<>>)} /\ Ends(cmd, repo, args, FALSE)

WithSection(repo, section) ==
    Rendered([ParseReposConfFile(conf[FileOf(repo)]) EXCEPT !.sections[PlaceOf(repo)] = section])

\* A repository that is not there gets a section, in a directory in a file of its own, which is
\* written anew whatever a file of that name holds.
cmdReposConfSet(repo, key, value) ==
    LET new == SetKey([name |-> repo, disabled |-> FALSE, lines |-> <<>>], key, value)
        only == FileNames[1]
        file == IF Found(repo) THEN FileOf(repo) ELSE IF isDir THEN OwnFile[repo] ELSE only
        before == IF ~isDir /\ only \in DOMAIN conf THEN conf[only] ELSE <<>>
        lines == IF Found(repo) THEN WithSection(repo, SetKey(SectionOf(repo), key, value))
                 ELSE before \o Rendered([header |-> <<>>, sections |-> <<new>>])
    IN  Write(file, lines, "set", repo, <<key, value>>)

cmdReposConfUnset(repo, key) ==
    IF Found(repo)
    THEN Write(FileOf(repo), WithSection(repo, UnsetKey(SectionOf(repo), key)), "unset", repo, <<key>>)
    ELSE UNCHANGED conf /\ Ends("unset", repo, <<key>>, TRUE)

cmdReposConfDisable(repo) ==
    /\ Found(repo)
    /\ Write(FileOf(repo), WithSection(repo, Disable(SectionOf(repo))), "disable", repo, <<>>)

cmdReposConfEnable(repo) ==
    /\ Found(repo)
    /\ Write(FileOf(repo), WithSection(repo, Enable(SectionOf(repo))), "enable", repo, <<>>)

\* The file it leaves is written first, so when the second write fails the section is gone.  A
\* file that has nothing left is removed.
cmdReposConfMove(repo, target) ==
    /\ isDir /\ Found(repo) /\ FileOf(repo) # target
    /\ LET source == FileOf(repo)
           rest == [ParseReposConfFile(conf[source]) EXCEPT !.sections = RemoveAt(@, PlaceOf(repo))]
           dest == IF target \in DOMAIN conf THEN ParseReposConfFile(conf[target])
                   ELSE [header |-> <<>>, sections |-> <<>>]
           moved == Rendered([dest EXCEPT !.sections = Append(@, SectionOf(repo))])
           taken == With(conf, source, Rendered(rest))
           both == With(taken, target, moved)
       IN  \/ /\ conf' = IF Rendered(rest) = <<>> THEN [f \in DOMAIN both \ {source} |-> both[f]] ELSE both
              /\ Ends("move", repo, <<target>>, TRUE)
           \/ /\ conf' \in {conf, With(conf, source, <<>>), taken, With(taken, target, <<>>)}
              /\ Ends("move", repo, <<target>>, FALSE)

ReposConfInit ==
    /\ isDir \in BOOLEAN
    /\ conf \in {files \in InitialConf : ~isDir => DOMAIN files \subseteq {FileNames[1]}}
    /\ confCommand = [cmd |-> "none", repo |-> "", args |-> <<>>, ok |-> FALSE, count |-> 0]

ReposConfNext ==
    /\ confCommand.count < MaxConfCommands
    /\ UNCHANGED isDir
    /\ \E repo \in Repos :
        \/ \E key \in Keys, value \in Values : cmdReposConfSet(repo, key, value)
        \/ \E key \in Keys : cmdReposConfUnset(repo, key)
        \/ cmdReposConfDisable(repo)
        \/ cmdReposConfEnable(repo)
        \/ \E target \in ToSet(FileNames) : cmdReposConfMove(repo, target)

-----------------------------------------------------------------------------
(* What Portage reads, line by line: a header that is commented out is a   *)
(* comment, and a setting belongs to the last header before it.            *)

Belongs(lines, i) ==
    LET heads == {j \in 1 .. i : lines[j].kind = "section" /\ lines[j].hash = 0}
    IN  IF heads = {} THEN "" ELSE lines[Max(heads)].name

InForce(files) ==
    UNION {{<<Belongs(files[f], i), files[f][i].name, files[f][i].value>> :
            i \in {j \in DOMAIN files[f] : files[f][j].kind = "key" /\ files[f][j].hash = 0}} : f \in DOMAIN files}

\* What is kept of the disabled repositories, between their headers and the next ones.
Kept(files) ==
    UNION {UNION {{<<s.name, key, Get(s, key)>> : key \in {k \in Keys : Get(s, k) # ""}} :
                  s \in {p \in ToSet(ParseReposConfFile(files[f]).sections) : p.disabled}} :
           f \in DOMAIN files}

\* Every repository has one section, and its settings are commented out when it is disabled.  Of
\* two sections the commands edit the first while for Portage the last prevails; a section whose
\* header alone is commented out by hand hands its settings to the one above; and a header
\* below two signs becomes one as the section around it is enabled.
HeadersOf(lines) == {i \in DOMAIN lines : IsHeader(lines[i])}
WellKept(files) ==
    /\ \A f, g \in DOMAIN files : \A i \in HeadersOf(files[f]), j \in HeadersOf(files[g]) :
           files[f][i].name = files[g][j].name => <<f, i>> = <<g, j>>
    /\ \A f \in DOMAIN files : \A s \in ToSet(ParseReposConfFile(files[f]).sections) :
           s.disabled => \A l \in ToSet(s.lines) : l.hash > 0 /\ l.kind # "section"

Of(repo, settings) == {s \in settings : s[1] = repo}
But(repo, key, settings) == {s \in settings : <<s[1], s[2]>> # <<repo, key>>}

\* A command that reports success has changed the settings of the repository it names as it
\* says, and nothing of what Portage reads of the others, nor what is kept of those that are
\* disabled: a disabled section comes back as it was, with what was set in it since, wherever it
\* was moved (Enable, Disable, SetKey, UnsetKey and the commands).  Left out is a set that creates a
\* file which is there.
CommandsEditOneSection ==
    [][LET c == confCommand'
           disabled == Found(c.repo) /\ SectionOf(c.repo).disabled
           overwrites == c.cmd = "set" /\ ~Found(c.repo) /\ isDir /\ OwnFile[c.repo] \in DOMAIN conf
           Edited(s) ==
               IF c.cmd = "set" THEN But(c.repo, c.args[1], s) \cup {<<c.repo, c.args[1], c.args[2]>>}
               ELSE IF c.cmd = "unset" THEN But(c.repo, c.args[1], s) ELSE s
           Become(active, kept) == InForce(conf') = active /\ Kept(conf') = kept
           force == InForce(conf)
           kept == Kept(conf)
       IN  (c.ok /\ WellKept(conf) /\ ~overwrites) =>
            /\ c.cmd \in {"set", "unset", "move"} =>
                   IF disabled THEN Become(force, Edited(kept)) ELSE Become(Edited(force), kept)
            /\ c.cmd = "disable" => Become(force \ Of(c.repo, force), kept \cup Of(c.repo, force))
            /\ c.cmd = "enable" => Become(force \cup Of(c.repo, kept), kept \ Of(c.repo, kept))]_confVars
=============================================================================
