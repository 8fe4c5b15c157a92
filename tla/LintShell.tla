----------------------------- MODULE LintShell ------------------------------
(***************************************************************************)
(* The rules of lints/ebuild that read the code of an ebuild: its calls,   *)
(* its assignments, its variable references and its lines.  Each rule is   *)
(* the operator of the same name.                                          *)
(*                                                                         *)
(* A call's "in" holds the constructs around it: "function", "if" (a       *)
(* condition on ${PV} or ${PN} alone does not count), "useIf" (the         *)
(* condition calls use), "else", "case", "loop", "and" (the right of && or *)
(* ||), "useAnd" (its left calls use), "pipe", "paren", "background",      *)
(* "subst" for $( ) and "bareSubst" for the only statement of one.         *)
(***************************************************************************)
EXTENDS LintBase

CONSTANTS
    LibDirs,          \* the directory names that begin with "lib"
    StaticLibNames,   \* the file names that end in .a or .la
    CountOptions      \* the options that are a digit after a dash, as in "head -1"

-----------------------------------------------------------------------------
(* Where files are installed.                                              *)

InstallDirCommands == {"into", "insinto", "exeinto", "docinto", "dodir", "keepdir",
                       "diropts", "exeopts", "insopts", "libopts"}

\* The ebuilds that pass a path to one of the commands.
Passing(pkg, commands, Bad(_)) ==
    Which(Scripts(pkg), LAMBDA e : \E c \in Calls(e, commands) : \E w \in ToSet(c.args) : Bad(w))

AbsoluteSymlink(pkg, repo) ==
    LET Kernel(w) == Len(w) > 1 /\ w[2] \in {"proc", "run", "dev", "sys"}
        Bad(e) == \E c \in Calls(e, {"dosym"}) :
                      c.args # <<>> /\ IsAbs(c.args[1]) /\ ~Kernel(c.args[1])
    IN  Report(repo, "AbsoluteSymlink", "PG0206", "Error", Which(Scripts(pkg), Bad))

DeprecatedPaths == {<<"/", "etc", "conf.d">>, <<"/", "etc", "env.d">>, <<"/", "etc", "init.d">>,
    <<"/", "etc", "pam.d">>, <<"/", "usr", "lib", "systemd", "system">>,
    <<"/", "usr", "lib", "systemd", "user">>, <<"/", "usr", "share", "applications">>,
    <<"/", "usr", "share", "fish", "vendor_completions.d">>,
    <<"/", "usr", "share", "zsh", "site-functions">>}

DeprecatedInsinto(pkg, repo) ==
    Report(repo, "DeprecatedInsinto", "PG0805", "Warning",
        Passing(pkg, {"insinto", "exeinto"}, LAMBDA w : \E p \in DeprecatedPaths : Below(w, p)))

GameInstallLocations(pkg, repo) ==
    Report(repo, "GameInstallLocations", "PG0205", "Error",
        Passing(pkg, InstallDirCommands,
            LAMBDA w : Below(w, <<"/", "usr", "games">>) \/ Below(w, <<"/", "etc", "games">>)))

isAllowedTopLevel(w) ==
    Len(w) > 1 /\ w[2] \in {"bin", "boot", "dev", "etc", "opt", "sbin", "srv", "usr", "var",
                            "gnu", "nix"} \cup LibDirs

isBannedSubdir(w) ==
    \E dir \in {<<"/", "bin">>, <<"/", "sbin">>, <<"/", "usr", "bin">>, <<"/", "usr", "sbin">>} :
        IsStrictPrefix(dir, w)

\* Every directory under /usr passes, so only these two conditions remain.
InstallationPaths(pkg, repo) ==
    Report(repo, "InstallationPaths", "PG0201", "Error",
        Passing(pkg, InstallDirCommands,
            LAMBDA w : IsAbs(w) /\ (isBannedSubdir(w) \/ ~isAllowedTopLevel(w))))

StrictMultilibLayout(pkg, repo) ==
    Report(repo, "StrictMultilibLayout", "PG0203", "Error",
        Passing(pkg, InstallDirCommands, LAMBDA w : w \in {<<"/", "lib">>, <<"/", "usr", "lib">>}))

UsrLocal(pkg, repo) ==
    Result("UsrLocal", "Error",
        Passing(pkg, InstallDirCommands, LAMBDA w : Below(w, <<"/", "usr", "local">>)))

\* A static library goes where the last directory command before it points, in the order of
\* the text and whatever function either is in.
StaticLibraries(pkg, repo) ==
    LET Chosen(e, i) == {j \in 1 .. i - 1 : e.code[j].cmd \in InstallDirCommands /\ e.code[j].args # <<>>}
        InLib(w) == IsAbs(w) /\ Len(w) > 1 /\ w[2] \in LibDirs
        Bad(e) == \E i \in DOMAIN e.code, j \in DOMAIN e.code :
            /\ e.code[i].cmd \in {"doins", "dolib", "dolib.a", "dolib.so"}
            /\ \E w \in ToSet(e.code[i].args) : w # <<>> /\ Last(w) \in StaticLibNames
            /\ j \in Chosen(e, i) /\ \A k \in Chosen(e, i) : k <= j
            /\ InLib(e.code[j].args[1])
    IN  Report(repo, "StaticLibraries", "PG0204", "Error", Which(Scripts(pkg), Bad))

\* Small files and manual pages must not hang on a USE flag, static libraries must.
InstalledFiles(pkg, repo) ==
    LET UseConditioned(c) == Under(c, {"useIf", "useAnd"})
        SmallFiles(e) == \E c \in Calls(e, {"dobashcomp", "newbashcomp", "systemd_dounit",
            "systemd_newunit", "systemd_douserunit", "systemd_newuserunit"}) : UseConditioned(c)
        Manpages(e) == \E c \in Calls(e, {"doman", "newman"}) : UseConditioned(c)
        StaticLibs(e) == \E c \in Calls(e, {"dolib.a"}) : ~UseConditioned(c)
    IN  Unless(repo, "PG0301", Result("InstalledSmallFiles", "Warning", Which(Scripts(pkg), SmallFiles)))
        \cup Unless(repo, "PG0302", Result("InstalledStaticLibs", "Warning", Which(Scripts(pkg), StaticLibs)))
        \cup Unless(repo, "PG0305", Result("InstalledManpages", "Warning", Which(Scripts(pkg), Manpages)))

-----------------------------------------------------------------------------
(* Commands that must not be called, or not there.                         *)

Calling(pkg, commands) == Which(Scripts(pkg), LAMBDA e : Calls(e, commands) # {})

\* An EAPI that is no number counts as 8, but one that begins with "4-" as 4.
DieSubshell(pkg, repo) ==
    LET Numeric(e) == IF e.numeric \/ e.eapi = 4 THEN e.eapi ELSE 8
        Bad(e) == /\ Numeric(e) < 7
                  /\ \E c \in Calls(e, {"die"}) :
                         Under(c, {"paren", "subst", "pipe", "background"})
    IN  Result("DieSubshell", "Warning", Which(Scripts(pkg), Bad))

ExternalCode(pkg, repo) ==
    Report(repo, "ExternalCode", "PG0102", "Error", Calling(pkg, {"source", ".", "eval"}))

GlobalScope(pkg, repo) ==
    LET Bad(e) == \E c \in Calls(e, {"sed", "awk", "grep", "egrep", "cut", "has_version",
                      "best_version", "python", "perl"}) : ~Under(c, {"function"})
    IN  Result("GlobalScope", "Error", Which(Scripts(pkg), Bad))

\* "subst" of a call: the commands substituted in its arguments.  A pipe is the pair of the
\* first commands of its two sides.
HeadAndTailUsage(pkg, repo) ==
    LET Bad(e) == \/ \E c \in Calls(e, {"head", "tail"}) :
                         \E w \in ToSet(c.args) : w # <<>> /\ Head(w) \in CountOptions
                  \/ \E c \in Calls(e, {"tail"}) : "wc" \in c.subst
                  \/ e.pipes \cap (({"head", "tail"} \X {"sed"}) \cup ({"sed"} \X {"head", "tail"})) # {}
    IN  Result("HeadAndTailUsage", "Warning", Which(Scripts(pkg), Bad))

PkgConfigDirectCall(pkg, repo) == Result("PkgConfigDirectCall", "Error", Calling(pkg, {"pkg-config"}))

\* addwrite is an error of its own, and one of the four with several paths a warning.
SandboxFunctions(pkg, repo) ==
    LET Several(e) == \E c \in Calls(e, {"addread", "addwrite", "adddeny", "addpredict"}) : Len(c.args) > 1
    IN  Result("SandboxFunctions", "Error", Calling(pkg, {"addwrite"}))
        \cup Result("SandboxFunctions", "Warning", Which(Scripts(pkg), Several))

UseConditionalCode(pkg, repo) ==
    LET Echoed(e) == \E c \in Calls(e, {"use"}) : Under(c, {"bareSubst"})
    IN  Result("UseConditionalCode", "Warning", Calling(pkg, {"useq"}))
        \cup Result("UseConditionalCode", "Error", Which(Scripts(pkg), Echoed))

\* Each banned command with the first EAPI that bans it.
BannedCommands == [einstall |-> 6, dohtml |-> 7, dolib |-> 7, libopts |-> 7, hasq |-> 8,
                   hasv |-> 8, useq |-> 8, assert |-> 9, domo |-> 9]

EAPIBannedCommands(pkg, repo) ==
    LET Banned(e) == /\ e.numeric
                     /\ \E c \in Calls(e, DOMAIN BannedCommands) : e.eapi >= BannedCommands[c.cmd]
        Deprecated(e) == e.numeric /\ e.eapi = 6 /\ Calls(e, {"dohtml"}) # {}
    IN  Result("EAPIBannedCommands", "Error", Which(Scripts(pkg), Banned))
        \cup Result("EAPIBannedCommands", "Warning", Which(Scripts(pkg), Deprecated))

WerrorCompilerFlag(pkg, repo) ==
    LET Bad(e) == \E c \in Calls(e, {"append-flags", "append-cflags", "append-cxxflags", "append-ldflags"}) :
                      <<"-Werror">> \in ToSet(c.args)
    IN  Result("WerrorCompilerFlag", "Error", Which(Scripts(pkg), Bad))

\* The eclass and the two functions are reported apart, the eclass without a shell parser.
GLEP81UserGroup(pkg, repo) ==
    Report(repo, "GLEP81UserGroup", "PG0901", "Warning",
        Which(Ebuilds(pkg), LAMBDA e : "user" \in e.inherited)
        \cup Calling(pkg, {"enewuser", "enewgroup"}))

\* The walk does not look into pipes, && and || lists or ( ).
ConditionalInherit(pkg, repo) ==
    LET Bad(e) == \E c \in Calls(e, {"inherit"}) :
            /\ Under(c, {"function", "if", "useIf", "else", "case", "loop", "subst"})
            /\ ~Under(c, {"and", "useAnd", "pipe", "paren"})
    IN  Result("ConditionalInherit", "Error", Which(Scripts(pkg), Bad))

-----------------------------------------------------------------------------
(* Assignments, references and lines.                                      *)

Assigning(pkg, names, Bad(_)) ==
    Which(Scripts(pkg), LAMBDA e : \E a \in ToSet(e.assigns) : a.name \in names /\ Bad(a))

\* A reference has the outermost function around it, "" outside of all.
Referring(pkg, names, Bad(_)) ==
    Which(Scripts(pkg), LAMBDA e : \E r \in e.refs : r.name \in names /\ Bad(r))

SpecialParameters == {"0", "1", "2", "3", "4", "5", "6", "7", "8", "9", "@", "*", "?", "$", "-", "#", "!"}

CodingStyle(pkg, repo) ==
    LET Short(e) == \E r \in e.refs : r.short /\ r.name \notin SpecialParameters
    IN  Report(repo, "CodingStyle", "PG0101", "Warning",
            Which(Scripts(pkg), Short) \cup Calling(pkg, {"[", "test"}))

DVariables(pkg, repo) ==
    Report(repo, "DVariables", "PG0107", "Error",
        Referring(pkg, {"D", "ED"}, LAMBDA r : r.fn \notin {"src_install", "pkg_preinst"}))

EAPIBannedVariables(pkg, repo) ==
    LET names == {"PORTDIR", "ECLASSDIR", "DESTTREE", "INSDESTTREE"}
        Modern == {e.version : e \in {x \in pkg.ebuilds : x.numeric /\ x.eapi >= 7}}
    IN  Result("EAPIBannedVariables", "Error",
            Modern \cap (Assigning(pkg, names, LAMBDA a : TRUE) \cup Referring(pkg, names, LAMBDA r : TRUE)))

RedefinedVariables(pkg, repo) ==
    Result("RedefinedVariables", "Error", Assigning(pkg, {"P", "PV", "PN", "PF", "PR"}, LAMBDA a : TRUE))

RedundantS(pkg, repo) ==
    Result("RedundantS", "Warning", Assigning(pkg, {"S"}, LAMBDA a : a.value = "${WORKDIR}/${P}"))

RespectVariables(pkg, repo) ==
    Result("RespectVariables", "Error",
        Assigning(pkg, {"CFLAGS", "CXXFLAGS", "LDFLAGS"},
            LAMBDA a : a.value # "" /\ ~a.append /\ a.name \notin a.refs))

HomepageVariables(pkg, repo) ==
    Report(repo, "HomepageVariables", "PG0103", "Error",
        Assigning(pkg, {"HOMEPAGE"}, LAMBDA a : a.refs # {}))

LicenseVariables(pkg, repo) ==
    Report(repo, "LicenseVariables", "PG0106", "Error",
        Assigning(pkg, {"LICENSE"}, LAMBDA a : a.refs \ {"LICENSE"} # {}))

SrcUriHomepage(pkg, repo) ==
    Report(repo, "SrcUriHomepage", "PG0104", "Error",
        Assigning(pkg, {"SRC_URI"}, LAMBDA a : "HOMEPAGE" \in a.refs))

KeywordsSingleLine(pkg, repo) ==
    LET Of(e) == {i \in DOMAIN e.assigns : e.assigns[i].name = "KEYWORDS"}
        Bad(e) == \/ Cardinality(Of(e)) > 1
                  \/ \E i \in Of(e) : e.assigns[i].append \/ e.assigns[i].refs # {} \/ e.assigns[i].lines > 1
    IN  Report(repo, "KeywordsSingleLine", "PG0105", "Error", Which(Scripts(pkg), Bad))

\* The traits of the text that no parser shows.
Traits(pkg, traits) == Which(Ebuilds(pkg), LAMBDA e : e.traits \cap traits # {})

CharacterSet(pkg, repo) ==
    Report(repo, "CharacterSet", "CharacterSet", "Error", Traits(pkg, {"notUtf8"}))

EbuildHeader(pkg, repo) ==
    Report(repo, "EbuildHeader", "EbuildHeader", "Notice", Traits(pkg, {"noHeader"}))

IndentingWhitespace(pkg, repo) ==
    Report(repo, "IndentingWhitespace", "IndentingWhitespace", "Warning",
        Traits(pkg, {"trailingSpace", "spaceIndent", "innerTab", "longLine"}))

SubshellFunction(pkg, repo) == Result("SubshellFunction", "Warning", Traits(pkg, {"subshellBody"}))

ShellRules(pkg, repo) == UNION {
    AbsoluteSymlink(pkg, repo), DeprecatedInsinto(pkg, repo), GameInstallLocations(pkg, repo),
    InstallationPaths(pkg, repo), StrictMultilibLayout(pkg, repo), UsrLocal(pkg, repo),
    StaticLibraries(pkg, repo), InstalledFiles(pkg, repo), DieSubshell(pkg, repo),
    ExternalCode(pkg, repo), GlobalScope(pkg, repo), HeadAndTailUsage(pkg, repo),
    PkgConfigDirectCall(pkg, repo), SandboxFunctions(pkg, repo), UseConditionalCode(pkg, repo),
    EAPIBannedCommands(pkg, repo), WerrorCompilerFlag(pkg, repo), GLEP81UserGroup(pkg, repo),
    ConditionalInherit(pkg, repo), CodingStyle(pkg, repo), DVariables(pkg, repo),
    EAPIBannedVariables(pkg, repo), RedefinedVariables(pkg, repo), RedundantS(pkg, repo),
    RespectVariables(pkg, repo), HomepageVariables(pkg, repo), LicenseVariables(pkg, repo),
    SrcUriHomepage(pkg, repo), KeywordsSingleLine(pkg, repo), CharacterSet(pkg, repo),
    EbuildHeader(pkg, repo), IndentingWhitespace(pkg, repo), SubshellFunction(pkg, repo)}
=============================================================================
