------------------------------ MODULE LintVars ------------------------------
(***************************************************************************)
(* The rules of lints/ebuild that read the variables of an ebuild, and     *)
(* those that compare the ebuilds of one package.                          *)
(*                                                                         *)
(* The keywords of an ebuild are records of an arch and a mark, "" for     *)
(* stable.  A dependency has the variable it is in, its operator and what  *)
(* the rules ask of it; "conds" holds the flags that condition the         *)
(* dependencies of a variable.  A token of RESTRICT has the conditions     *)
(* around it.  IUSE holds the flags without their defaults.                *)
(***************************************************************************)
EXTENDS LintBase

CONSTANTS
    ValidSlots,         \* the slots that match the syntax of PMS
    MalformedLicenses,  \* tokens without a letter or digit, or with a slash
    SplitsOf,           \* flag with underscores |-> its splits into prefix and value, longest first
    UnversionedOf,      \* flag of letters and digits |-> its letters
    PythonEclasses,     \* the eclasses whose names begin with "python-"
    Python2,            \* the implementations that begin with python2_ or pypy2
    MainCategories      \* the categories of the gentoo repository, {} when it cannot be reached

DescriptionMinimum == 10

-----------------------------------------------------------------------------
(* One variable of one ebuild.                                             *)

MissingDescription(pkg, repo) ==
    Result("MissingDescription", "Warning",
        Which(Ebuilds(pkg), LAMBDA e : e.description < DescriptionMinimum))

MissingHomepage(pkg, repo) ==
    LET Bad(e) == e.homepage = <<>> \/ Head(e.homepage) = "text"
    IN  IF pkg.category = "virtual" THEN {}
        ELSE Result("MissingHomepage", "Warning", Which(Ebuilds(pkg), Bad))

MeaningfulHomepage(pkg, repo) ==
    Report(repo, "MeaningfulHomepage", "PG0702", "Error",
        Which(Ebuilds(pkg), LAMBDA e : "https://www.gentoo.org" \in ToSet(e.homepage)))

MissingKeyword(pkg, repo) ==
    IF pkg.category = "virtual" THEN {}
    ELSE Result("MissingKeyword", "Warning",
             Which(Ebuilds(pkg), LAMBDA e : e.version # LiveVersion /\ e.keywords = {}))

MissingSlot(pkg, repo) ==
    Report(repo, "MissingSlot", "PG0804", "Warning", Which(Ebuilds(pkg), LAMBDA e : e.slot = ""))

InvalidSlot(pkg, repo) ==
    Result("InvalidSlot", "Error", Which(Ebuilds(pkg), LAMBDA e : e.slot # "" /\ e.slot \notin ValidSlots))

InvalidVirtual(pkg, repo) ==
    IF pkg.category # "virtual" THEN {}
    ELSE Result("InvalidVirtual", "Error",
             Which(Ebuilds(pkg), LAMBDA e : e.homepage # <<>> \/ e.license # {} \/ e.distfiles # {}))

LicenseRule(pkg, repo) ==
    IF pkg.category = "virtual" THEN {}
    ELSE Report(repo, "License", "PG0704", "Error", Which(Ebuilds(pkg), LAMBDA e : e.license = {}))

LicenseSanity(pkg, repo) ==
    Report(repo, "LicenseSanity", "PG0804", "Error",
        Which(Ebuilds(pkg), LAMBDA e : "licenseProse" \in e.traits \/ e.license \cap MalformedLicenses # {}))

\* Obsolete EAPIs are errors whatever the policy says, unless it says to ignore the rule.
EAPIDeprecated(pkg, repo) ==
    Unless(repo, "PG1001",
        Result("EAPIDeprecated", "Error", Which(Ebuilds(pkg), LAMBDA e : e.numeric /\ e.eapi <= 4)))
    \cup Report(repo, "EAPIDeprecated", "PG1001", "Warning",
            Which(Ebuilds(pkg), LAMBDA e : e.numeric /\ e.eapi \in {5, 6}))

NetworkSandbox(pkg, repo) ==
    Result("NetworkSandbox", "Error",
        Which(Ebuilds(pkg), LAMBDA e : \E r \in e.restrict : r.token = "network-sandbox"))

\* IUSE=test needs a RESTRICT that applies when the flag is off.
RestrictTest(pkg, repo) ==
    LET Unset(e) == \E r \in e.restrict : r.token = "test" /\ (r.under = {} \/ "!test?" \in r.under)
    IN  Report(repo, "RestrictTest", "PG0703", "Error",
            Which(Ebuilds(pkg), LAMBDA e : "test" \in e.iuse /\ ~Unset(e)))

\* The words of RESTRICT are compared one by one, its conditions and parentheses among them.
LayoutConfRules(pkg, repo) ==
    LET words(e) == {r.token : r \in e.restrict} \cup (UNION {r.under : r \in e.restrict})
                    \cup (IF \E r \in e.restrict : r.under # {} THEN {"(", ")"} ELSE {})
        Outside(tokens, allowed) == allowed # {} /\ ~(tokens \subseteq allowed)
        layout == repo.layout
        Warned(e) == \/ e.eapi \in layout.eapisDeprecated
                     \/ Outside(e.properties, layout.propertiesAllowed)
                     \/ Outside(words(e), layout.restrictAllowed)
    IN  IF ~layout.exists THEN {}
        ELSE Result("LayoutConfRules", "Error", Which(Ebuilds(pkg), LAMBDA e : e.eapi \in layout.eapisBanned))
             \cup Result("LayoutConfRules", "Warning", Which(Ebuilds(pkg), Warned))

-----------------------------------------------------------------------------
(* USE flags.                                                              *)

IUSEDocumented(pkg, repo) ==
    Report(repo, "IuseDocumented", "PG0701", "Warning",
        Which(Ebuilds(pkg), LAMBDA e : ~(e.iuse \subseteq pkg.metadata.flags)))

DynamicSlots(pkg, repo) ==
    Report(repo, "DynamicSlots", "PG0701", "Error", Which(Ebuilds(pkg), LAMBDA e : "multislot" \in e.iuse))

UseFunctions == {"use", "usev", "usex", "use_with", "use_enable"}
FlagsAsked(e, commands) == {c.args[1][1] : c \in {x \in Calls(e, commands) : x.args # <<>> /\ x.args[1] # <<>>}}

KeywordIUSE(pkg, repo) ==
    Result("KeywordIUSE", "Warning",
        Which(Ebuilds(pkg), LAMBDA e : e.iuse \cap repo.arches # {})
        \cup Which(Scripts(pkg), LAMBDA e : FlagsAsked(e, UseFunctions \cup {"useq"}) \cap repo.arches # {}))

\* The splits of a flag at a prefix that profiles/desc describes.
Expansions(flag, repo) ==
    IF flag \notin DOMAIN SplitsOf THEN <<>>
    ELSE SelectSeq(SplitsOf[flag], LAMBDA s : s.prefix \in DOMAIN repo.useExpand)

UseExpandUnsupported(pkg, repo) ==
    LET Unknown(flag) == LET x == Expansions(flag, repo)
                         IN  x # <<>> /\ x[1].value \notin repo.useExpand[x[1].prefix]
    IN  Result("UseExpandUnsupported", "Error",
            Which(Ebuilds(pkg), LAMBDA e : \E flag \in e.iuse : Unknown(flag)))

UseUnderscores(pkg, repo) ==
    Report(repo, "UseUnderscores", "PG0803", "Warning",
        Which(Ebuilds(pkg), LAMBDA e :
            \E flag \in e.iuse \cap DOMAIN SplitsOf : Expansions(flag, repo) = <<>>))

UseGui(pkg, repo) ==
    Report(repo, "UseGui", "PG0802", "Warning",
        Which(Ebuilds(pkg), LAMBDA e : "gui" \notin e.iuse
            /\ e.iuse \cap {"X", "gtk", "gtk2", "gtk3", "gtk4", "qt4", "qt5", "qt6", "motif", "fltk", "tk"} # {}))

VersionedUse(pkg, repo) ==
    Report(repo, "VersionedUse", "PG0801", "Warning",
        Which(Ebuilds(pkg), LAMBDA e : \E f \in e.iuse \cap DOMAIN UnversionedOf : UnversionedOf[f] \in e.iuse))

-----------------------------------------------------------------------------
(* Dependencies.                                                           *)

DependencyNoRevision(pkg, repo) ==
    LET Bad(d) == d.op = "=" /\ ~d.star /\ ~d.revision
    IN  Report(repo, "DependencyNoRevision", "PG0002", "Warning",
            Which(Ebuilds(pkg), LAMBDA e : \E d \in e.deps : Bad(d)))

\* IDEPEND is not looked at here, and no policy applies.
DependencyPitfalls(pkg, repo) ==
    LET Bad(d) == \/ d.var # "IDEPEND" /\ d.anyOf /\ d.slotOperator
                  \/ d.var = "DEPEND" /\ d.op = "!"
    IN  Result("DependencyPitfalls", "Warning",
            Which(Ebuilds(pkg), LAMBDA e : \E d \in e.deps : Bad(d)))

EAPIEmptyGroupings(pkg, repo) ==
    LET vars == {"DEPEND", "RDEPEND", "BDEPEND", "PDEPEND", "REQUIRED_USE"}
    IN  Result("EAPIEmptyGroupings", "Error",
            Which(Ebuilds(pkg), LAMBDA e : e.numeric /\ e.eapi >= 7 /\ e.emptyAnyOf \cap vars # {}))

\* A flag that only pulls in run-time dependencies and changes nothing in the package.
UseControlledOptionalRdepend(pkg, repo) ==
    LET Conditioned(e, vars) == {c.flag : c \in {x \in e.conds : x.var \in vars}}
        Optional(e) == (Conditioned(e, {"RDEPEND"}) \ Conditioned(e, {"DEPEND", "BDEPEND", "PDEPEND"}))
                       \ FlagsAsked(e, UseFunctions)
    IN  Report(repo, "UseControlledOptionalRdepend", "PG0001", "Warning",
            Which(Ebuilds(pkg), LAMBDA e : Optional(e) # {}))

PythonCompat(pkg, repo) ==
    LET Python(e) == e.inherited \cap PythonEclasses # {}
    IN  Report(repo, "PythonCompatPG0501", "PG0501", "Error",
            Which(Ebuilds(pkg), LAMBDA e : Python(e) /\ ~e.pythonCompatSet))
        \cup Report(repo, "PythonCompatPG0502", "PG0502", "Warning",
            Which(Ebuilds(pkg), LAMBDA e : Python(e) /\ e.pythonCompatSet /\ e.pythonCompat \cap Python2 # {}))

\* "bareUsedep": PYTHON_USEDEP occurs outside of $(python_gen_cond_dep ...).
PythonSingleR1UseDep(pkg, repo) ==
    Report(repo, "PythonSingleR1UseDep", "PythonSingleR1UseDep", "Error",
        Which(Ebuilds(pkg), LAMBDA e : "python-single-r1" \in e.inherited /\ "bareUsedep" \in e.traits))

-----------------------------------------------------------------------------
(* The ebuilds of a package against each other, live ones left aside.      *)

sortedVersions(pkg) ==
    SetToSortSeq({e \in Ebuilds(pkg) : e.version # LiveVersion}, LAMBDA a, b : a.version < b.version)

Arches(e) == {k.arch : k \in e.keywords}
Marked(e, mark) == {k.arch : k \in {x \in e.keywords : x.mark = mark}}
HasStar(e) == "*" \in Arches(e)

\* One version in the search for dropped keywords: what it drops of the arches seen before it
\* is noted with this version, and an arch that comes back enabled is no longer dropped.
DropStep(st, e) ==
    LET drops == IF HasStar(e) THEN {} ELSE (st.previous \cup st.seen) \ Arches(e)
        adds == (Arches(e) \ st.previous) \ Marked(e, "-")
    IN  [seen |-> st.seen \cup Arches(e), previous |-> Arches(e),
         changes |-> [a \in (DOMAIN st.changes \cup drops) \ adds |->
                         IF a \in drops THEN e.version ELSE st.changes[a]]]

\* Each dropped arch with the last version that lacks it; none for a single version.
DroppedArches(pkg) ==
    LET versions == sortedVersions(pkg)
    IN  IF Len(versions) <= 1 THEN <<>>
        ELSE FoldLeft(DropStep, [seen |-> {}, previous |-> {}, changes |-> <<>>], versions).changes

DroppedKeywords(pkg, repo) ==
    LET dropped == DroppedArches(pkg)
    IN  Result("DroppedKeywords", "Warning", {dropped[a] : a \in DOMAIN dropped})

\* A version that is stable somewhere should be stable on every arch that has been before.
StabilizeNewVersions(pkg, repo) ==
    LET versions == sortedVersions(pkg)
        StableBefore(i) == UNION {Marked(versions[j], "") : j \in 1 .. i - 1}
        Missed(i) == StableBefore(i) \cap (Arches(versions[i]) \ Marked(versions[i], ""))
    IN  Result("StabilizeNewVersions", "Warning",
            {versions[i].version : i \in {j \in DOMAIN versions :
                Marked(versions[j], "") # {} /\ ~HasStar(versions[j]) /\ Missed(j) # {}}})

\* An arch that is testing in some version and stable in none.
UnstableOnly(pkg, repo) ==
    LET versions == ToSet(sortedVersions(pkg))
        Stable == UNION {Marked(e, "") : e \in versions}
        Testing == UNION {Marked(e, "~") : e \in versions}
    IN  Result("UnstableOnly", "Notice", IF Testing \ (Stable \cup {"*"}) = {} THEN {} ELSE {WholePackage})

-----------------------------------------------------------------------------
(* The package in the repository.                                          *)

\* With no list of the main categories every category counts as one of them.
CategorySanity(pkg, repo) ==
    LET name == pkg.category
        inMain == MainCategories = {} \/ name \in MainCategories
        listed == repo.categories = {} \/ name \in repo.categories
        severity == CASE listed -> IF inMain THEN "" ELSE "Notice"
                      [] "gentoo" \in repo.layout.masters /\ name \in MainCategories -> ""
                      [] inMain -> "Warning"
                      [] OTHER -> "Error"
    IN  IF severity = "" THEN {} ELSE Result("CategorySanity", severity, {WholePackage})

RepoNameMissing(pkg, repo) ==
    IF (repo.layout.exists /\ repo.layout.repoName # "") \/ repo.repoName # "" THEN {}
    ELSE Result("RepoNameMissing", "Error", {WholePackage})

\* The ebuilds in the directory are read again, whichever versions were asked for.
MissingManifest(pkg, repo) ==
    LET listed == {m.name : m \in {x \in pkg.manifest.entries : x.type = "DIST"}}
    IN  Result("MissingManifest", "Error",
            Which({e \in pkg.disk : e.parses}, LAMBDA e : ~(e.distfiles \subseteq listed)))

\* An ebuild that cannot be read might use any file.
OrphanedManifest(pkg, repo) ==
    LET used == UNION {e.distfiles : e \in pkg.disk}
        Orphan(m) == m.type = "DIST" /\ m.name \notin used
    IN  IF (\A e \in pkg.disk : e.parses) /\ \E m \in pkg.manifest.entries : Orphan(m)
        THEN Result("OrphanedManifest", "Error", {WholePackage}) ELSE {}

\* Only packages that carry their files are looked at; see PackageCopy of Lint.
TreeLayoutFiles(pkg, repo) ==
    IF pkg.badFileNames = {} THEN {} ELSE Result("TreeLayoutFiles", "Error", {WholePackage})

VersionRules(pkg, repo) == UNION {
    MissingDescription(pkg, repo), MissingHomepage(pkg, repo), MeaningfulHomepage(pkg, repo),
    MissingKeyword(pkg, repo), MissingSlot(pkg, repo), InvalidSlot(pkg, repo),
    InvalidVirtual(pkg, repo), LicenseRule(pkg, repo), LicenseSanity(pkg, repo),
    EAPIDeprecated(pkg, repo), NetworkSandbox(pkg, repo), RestrictTest(pkg, repo),
    LayoutConfRules(pkg, repo), IUSEDocumented(pkg, repo), DynamicSlots(pkg, repo),
    KeywordIUSE(pkg, repo), UseExpandUnsupported(pkg, repo), UseUnderscores(pkg, repo),
    UseGui(pkg, repo), VersionedUse(pkg, repo), DependencyNoRevision(pkg, repo),
    DependencyPitfalls(pkg, repo), EAPIEmptyGroupings(pkg, repo),
    UseControlledOptionalRdepend(pkg, repo), PythonCompat(pkg, repo),
    PythonSingleR1UseDep(pkg, repo)}

WholePackageRules(pkg, repo) == UNION {
    DroppedKeywords(pkg, repo), StabilizeNewVersions(pkg, repo), UnstableOnly(pkg, repo),
    CategorySanity(pkg, repo), RepoNameMissing(pkg, repo), MissingManifest(pkg, repo),
    OrphanedManifest(pkg, repo), TreeLayoutFiles(pkg, repo)}
=============================================================================
