-------------------------------- MODULE Lint --------------------------------
(***************************************************************************)
(* "g2 lint" over a repository that is edited and committed between runs   *)
(* (cmd/g2/lint.go and lint_changed.go; the rules are in LintShell,        *)
(* LintVars, LintRepo and LintMask).                                       *)
(*                                                                         *)
(* A tree says which content each package, the eclasses and the rest of    *)
(* the repository have.  There are three: the work tree, HEAD, and the     *)
(* commit where the branch left its upstream.  For the files that HEAD     *)
(* does not have git knows, package by package, whether they are tracked.  *)
(*                                                                         *)
(* A command parses the work tree and lints what it is asked for.  Parsing *)
(* already runs all rules on every package and drops their results, which  *)
(* matters for the one rule with a memory, that of the news.               *)
(***************************************************************************)
EXTENDS LintShell, LintVars, LintRepo

CONSTANTS
    Ids,              \* the packages
    Contents,         \* package |-> its possible contents, a sequence; the first is without faults
    EclassContents,   \* the possible contents of eclass/, a sequence of sets
    RepoContents,     \* the possible contents of the rest, a sequence
    Few,              \* the number of contents that occur together with other changes
    MaxEdits,         \* bound on the edits
    Locations,        \* the ways to name the repository on the command line
    TargetSets,       \* the sets of targets that are linted
    Queries,          \* the queries
    VersionText       \* version |-> its components, each a sequence of digits

Here == "."           \* the default location

ASSUME ContentsAssumption ==
    /\ DOMAIN Contents = Ids
    /\ Here \in Locations
    /\ Few \in Nat /\ MaxEdits \in Nat
    /\ 1 \in DOMAIN EclassContents \cap DOMAIN RepoContents
    /\ \A id \in Ids : 1 \in DOMAIN Contents[id]

\* The files of a package: what kind each is of, its name, and its content.
FilesOf(pkg) ==
    {<<"ebuild", e.version, e>> : e \in pkg.disk}
    \cup {<<"other", name, 0>> : name \in pkg.files \cup pkg.badFileNames}
    \cup (IF pkg.manifest.exists THEN {<<"Manifest", "", pkg.manifest>>} ELSE {})
    \cup (IF pkg.metadata.state = "missing" THEN {} ELSE {<<"metadata.xml", "", pkg.metadata>>})

\* Contents that git cannot tell apart are the same.
ASSUME FilesAssumption ==
    \A id \in Ids : \A i, j \in DOMAIN Contents[id] :
        FilesOf(Contents[id][i]) = FilesOf(Contents[id][j]) => Contents[id][i] = Contents[id][j]

\* What the rules ask of the repository.
RepoFields == {"qaPolicy", "categories", "layout", "repoName", "arches", "useExpand", "licenses",
               "projects", "root", "g2ignore", "layoutLint", "mask", "news", "md5Cache"}

\* A package has a name and begins with all the ebuilds of its directory.
ASSUME FieldsAssumption ==
    \A id \in Ids : \A i \in DOMAIN Contents[id] :
        LET pkg == Contents[id][i] IN
        /\ {"category", "name", "ebuilds", "disk", "badFileNames"} \subseteq DOMAIN pkg
        /\ pkg = [f \in DOMAIN pkg |-> pkg[f]]
        /\ pkg.name # "" /\ pkg.disk = pkg.ebuilds

VARIABLES
    tree,      \* the work tree
    head,      \* the last commit
    base,      \* the commit that upstream has
    tracked,   \* the packages whose new files git tracks
    edits,     \* the number of edits, for the bound
    out        \* what the last command printed

vars == <<tree, head, base, tracked, edits, out>>

Clean == [pkgs |-> [id \in Ids |-> 1], eclasses |-> 1, repo |-> 1]
Prompt == [cmd |-> "none", location |-> Here, asked |-> {}, failed |-> FALSE, found |-> {}]

Package(t, id) == Contents[id][t.pkgs[id]]

Repository(t) ==
    [f \in RepoFields \cup {"eclasses"} |->
        IF f = "eclasses" THEN EclassContents[t.eclasses] ELSE RepoContents[t.repo][f]]

Qualified(pkg) == <<pkg.category, pkg.name>>

-----------------------------------------------------------------------------
(* Parsing.                                                                *)

\* Directories of a repository that hold no packages.
isIgnoredDir(name) ==
    name \in {"profiles", "metadata", "eclass", "scripts", "distfiles", "packages", "licenses"}

\* A directory that is no known category is passed over, except a virtual one.
isCategoryAllowed(name, repo) ==
    \/ name = "virtual"
    \/ repo.categories = {} \/ name \in repo.categories
    \/ "gentoo" \in repo.layout.masters /\ name \in MainCategories

\* Ebuilds that do not parse are dropped, and a package without any other with them.
parseRepo(t) ==
    LET repo == Repository(t)
        Read(id) == [Package(t, id) EXCEPT !.ebuilds = {e \in @ : e.parses}]
    IN  {pkg \in {Read(id) : id \in Ids} :
            pkg.ebuilds # {} /\ ~isIgnoredDir(pkg.category) /\ isCategoryAllowed(pkg.category, repo)}

\* The news are linted once for each location, and parsing has done it for the location ".".
checkedRepos(pkgs) == IF pkgs = {} THEN {} ELSE {Here}

-----------------------------------------------------------------------------
(* Linting.                                                                *)

Tag(subject, results) ==
    {[subject |-> subject, rule |-> r.rule, severity |-> r.severity, version |-> r.version] : r \in results}

\* The files of a package are not passed on to the rules.
PackageCopy(pkg, Asked(_)) == [pkg EXCEPT !.ebuilds = {e \in @ : Asked(e)}, !.badFileNames = {}]

PerformLintingResults(pkg, repo) ==
    Tag(Qualified(pkg), UNION {ShellRules(pkg, repo), VersionRules(pkg, repo),
                               WholePackageRules(pkg, repo), MetadataRules(pkg, repo)})

PerformEclassLintingResults(eclass, repo) == Tag(<<"eclass", eclass.name>>, EclassHeader(eclass, repo))

PerformRepoLintingResults(pkgs, repo) == Tag(<<"repo", "">>, RepoRules(pkgs, repo))

NewsResults(location, pkgs, linted, repo) ==
    IF linted = {} \/ location \in checkedRepos(pkgs) THEN {}
    ELSE Tag(<<"metadata", "news">>, NewsValidity(repo))

EveryVersion(e) == TRUE

\* The packages asked for, with the versions asked for; one that has none of them is left out.
Linted(pkgs, Wanted(_), Asked(_)) ==
    {pkg \in {PackageCopy(p, Asked) : p \in {x \in pkgs : Wanted(x)}} : pkg.ebuilds # {}}

LintPackages(location, pkgs, linted, repo) ==
    (UNION {PerformLintingResults(pkg, repo) : pkg \in linted}) \cup NewsResults(location, pkgs, linted, repo)

\* A command fails when it prints anything, of whatever severity.
Output(cmd, location, asked, found) ==
    out' = [cmd |-> cmd, location |-> location, asked |-> asked, failed |-> found # {}, found |-> found]

\* A target names a package, with its category or without, or a whole category.
InTargets(pkg, targets) == targets \cap {Qualified(pkg), <<pkg.name>>, <<pkg.category>>} # {}

\* "g2 lint" without a subcommand knows no rules but those of packages.
runOldLint(location, targets) ==
    LET pkgs == parseRepo(tree)
        linted == Linted(pkgs, LAMBDA p : targets = {} \/ InTargets(p, targets), EveryVersion)
    IN  /\ out.cmd = "none"
        /\ Output("lint", location, targets, LintPackages(location, pkgs, linted, Repository(tree)))
        /\ UNCHANGED <<tree, head, base, tracked, edits>>

\* Without targets the repository is linted, and all its eclasses.
TargetResults(location, targets) ==
    LET pkgs == parseRepo(tree)
        repo == Repository(tree)
        linted == Linted(pkgs, LAMBDA p : targets = {} \/ InTargets(p, targets), EveryVersion)
        eclasses == {x \in repo.eclasses : targets = {} \/ targets \cap {<<"eclass">>, <<x.name>>} # {}}
    IN  LintPackages(location, pkgs, linted, repo)
        \cup (UNION {PerformEclassLintingResults(x, repo) : x \in eclasses})
        \cup (IF targets = {} THEN PerformRepoLintingResults(pkgs, repo) ELSE {})

cmdLintRepo(location) ==
    /\ out.cmd = "none"
    /\ Output("repo", location, {}, TargetResults(location, {}))
    /\ UNCHANGED <<tree, head, base, tracked, edits>>

cmdLintPackage(location, targets) ==
    /\ out.cmd = "none" /\ targets # {}
    /\ Output("package", location, targets, TargetResults(location, targets))
    /\ UNCHANGED <<tree, head, base, tracked, edits>>

-----------------------------------------------------------------------------
(* Queries.                                                                *)

Dot == -1        \* sorts before every digit
PadWidth == 10

\* Bug variant: compared as written.
PadVersionNot(v) ==
    LET join(text, n) == text \o <<Dot>> \o n
    IN  FoldLeft(join, <<>>, VersionText[v])

\* Numbers are padded with zeros so that texts compare as numbers do.
PadVersion(v) ==
    LET Padded(n) == [i \in 1 .. PadWidth - Len(n) |-> 0] \o n
        join(text, n) == text \o <<Dot>> \o Padded(n)
    IN  FoldLeft(join, <<>>, VersionText[v])

TextLess(s, t) ==
    \/ IsStrictPrefix(s, t)
    \/ \E i \in DOMAIN s \cap DOMAIN t : s[i] < t[i] /\ \A j \in 1 .. i - 1 : s[j] = t[j]

\* "~" asks for versions whose text begins alike.
CompareOp(op, v, w) ==
    LET p == PadVersion(v)
        q == PadVersion(w)
        text(x) == [i \in 1 .. Len(VersionText[x]) |-> VersionText[x][i]]
    IN  CASE op = "=" -> p = q
          [] op = ">" -> TextLess(q, p)
          [] op = "<" -> TextLess(p, q)
          [] op = ">=" -> ~TextLess(p, q)
          [] op = "<=" -> ~TextLess(q, p)
          [] op = "~" -> LET n == Len(text(w)) IN
                /\ Len(text(v)) >= n
                /\ \A i \in 1 .. n - 1 : text(v)[i] = text(w)[i]
                /\ IF Len(text(v)) = n THEN IsPrefix(text(w)[n], text(v)[n]) ELSE text(v)[n] = text(w)[n]

\* A query names what it asks for, "" standing for anything; its version is one of a package
\* or 0, its wildcard the first component of a version or <<>>.
AskedByQuery(q, e) ==
    /\ q.wildcard # <<>> => Head(VersionText[e.version]) = q.wildcard
    /\ q.op # "" /\ q.version # 0 => CompareOp(q.op, e.version, q.version)

WantedByQuery(q, pkg) == q.category \in {"", pkg.category} /\ q.package \in {"", pkg.name}

\* Neither the repository nor its eclasses are linted.
cmdLintQuery(location, q) ==
    LET pkgs == parseRepo(tree)
        linted == Linted(pkgs, LAMBDA p : WantedByQuery(q, p), LAMBDA e : AskedByQuery(q, e))
    IN  /\ out.cmd = "none"
        /\ Output("query", location, {q}, LintPackages(location, pkgs, linted, Repository(tree)))
        /\ UNCHANGED <<tree, head, base, tracked, edits>>

-----------------------------------------------------------------------------
(* The changed packages.  git looks for renames in what it compares, and   *)
(* lists of a file that was renamed only the new name.                     *)

FilesIn(t) == [id \in Ids |-> FilesOf(Package(t, id))]

\* The files of a package that are gone, that are new, and that have another content.
Lost(new, old, id) == {f \in old[id] : \A g \in new[id] : f[1] # g[1] \/ f[2] # g[2]}
Gained(new, old, id) == Lost(old, new, id)
Edited(new, old, id) ==
    ((new[id] \ old[id]) \cup (old[id] \ new[id])) \ (Lost(new, old, id) \cup Gained(new, old, id))

\* The packages whose lost files may all be taken for files that were renamed: each for a new
\* one of its kind in a package that git knows.  Whether it is depends on how alike they are.
RenameChoices(new, old, known) ==
    LET gone(set) == UNION {{<<id, f>> : f \in Lost(new, old, id)} : id \in set}
        come == UNION {{<<id, f>> : f \in Gained(new, old, id)} : id \in Ids \cap known}
        Of(files, kind) == {x \in files : x[2][1] = kind}
        Fits(set) == \A x \in gone(set) :
            /\ Of(come, x[2][1]) # {}
            /\ Cardinality(Of(gone(set), x[2][1])) <= Cardinality(Of(come, x[2][1]))
    IN  {set \in SUBSET {id \in Ids : Lost(new, old, id) # {}} : Fits(set)}

\* git diff --name-only: the packages it may list.
DiffNames(new, old, known) ==
    {{id \in Ids : \/ Edited(new, old, id) # {}
                   \/ id \in known /\ Gained(new, old, id) # {}
                   \/ id \notin renamed /\ Lost(new, old, id) # {}} :
        renamed \in RenameChoices(new, old, known)}

\* Bug variant: untracked files are not asked for.
ModifiedPackagesTracked(work, last, upstream) ==
    {local \cup branch : local \in DiffNames(work, last, tracked), branch \in DiffNames(last, upstream, Ids)}

\* git diff HEAD, git ls-files --others, and git diff base...HEAD, each by package.
ModifiedPackages(work, last, upstream) ==
    LET untracked == {id \in Ids \ tracked : Gained(work, last, id) # {}}
    IN  {local \cup untracked \cup branch :
            local \in DiffNames(work, last, tracked), branch \in DiffNames(last, upstream, Ids)}

\* A package is a directory with an ebuild, whether that can be read or not.
getGitModifiedPackagesChanged(modified) ==
    {Qualified(pkg) : pkg \in {x \in {Package(tree, id) : id \in modified} : x.disk # {}}}

\* Changes to eclasses and to the repository select nothing, and with nothing selected all is well.
cmdLintChanged(location) ==
    /\ out.cmd = "none"
    /\ \E work \in {FilesIn(tree)}, last \in {FilesIn(head)}, upstream \in {FilesIn(base)} :
       \E modified \in ModifiedPackages(work, last, upstream) :
       \E targets \in {getGitModifiedPackagesChanged(modified)} :
           Output("changed", location, targets, IF targets = {} THEN {} ELSE TargetResults(location, targets))
    /\ UNCHANGED <<tree, head, base, tracked, edits>>

-----------------------------------------------------------------------------
(* The developer.                                                          *)

\* Contents beyond the first few occur alone, to bound the combinations.
MayEdit(content) == out.cmd = "none" /\ edits < IF content <= Few THEN MaxEdits ELSE 1
Count(content) == edits' = IF content <= Few THEN edits + 1 ELSE MaxEdits

EditPackage(id, content, isTracked) ==
    /\ MayEdit(content) /\ content # tree.pkgs[id]
    /\ tree' = [tree EXCEPT !.pkgs[id] = content]
    /\ tracked' = IF isTracked THEN tracked \cup {id} ELSE tracked \ {id}
    /\ Count(content) /\ UNCHANGED <<head, base, out>>

EditEclass(content) ==
    /\ MayEdit(content) /\ content # tree.eclasses
    /\ tree' = [tree EXCEPT !.eclasses = content]
    /\ Count(content) /\ UNCHANGED <<head, base, tracked, out>>

EditRepository(content) ==
    /\ MayEdit(content) /\ content # tree.repo
    /\ tree' = [tree EXCEPT !.repo = content]
    /\ Count(content) /\ UNCHANGED <<head, base, tracked, out>>

Commit ==
    /\ out.cmd = "none" /\ head # tree
    /\ head' = tree /\ tracked' = Ids
    /\ UNCHANGED <<tree, base, edits, out>>

Push ==
    /\ out.cmd = "none" /\ base # head
    /\ base' = head
    /\ UNCHANGED <<tree, head, tracked, edits, out>>

NextCommand ==
    /\ out.cmd # "none" /\ out' = Prompt
    /\ UNCHANGED <<tree, head, base, tracked, edits>>

Init ==
    /\ tree = Clean /\ head = Clean /\ base = Clean
    /\ tracked = Ids /\ edits = 0 /\ out = Prompt

Next ==
    \/ \E id \in Ids, isTracked \in BOOLEAN : \E content \in DOMAIN Contents[id] :
           EditPackage(id, content, isTracked)
    \/ \E content \in DOMAIN EclassContents : EditEclass(content)
    \/ \E content \in DOMAIN RepoContents : EditRepository(content)
    \/ Commit \/ Push \/ NextCommand
    \/ \E location \in Locations :
           \/ cmdLintRepo(location)
           \/ cmdLintChanged(location)
           \/ \E targets \in TargetSets : runOldLint(location, targets) \/ cmdLintPackage(location, targets)
           \/ \E q \in Queries : cmdLintQuery(location, q)

Spec == Init /\ [][Next]_vars

-----------------------------------------------------------------------------
(* Properties.                                                             *)

\* What the package rules find in a whole tree.
PackageFaults(t) ==
    UNION {PerformLintingResults(pkg, repo) :
               pkg \in {PackageCopy(p, EveryVersion) : p \in parseRepo(t)}, repo \in {Repository(t)}}

\* No package lies in "metadata" or "eclass", and each has a name.
OfPackages(found) == {f \in found : f.subject[1] \notin {"metadata", "eclass"} /\ f.subject # <<"repo", "">>}

\* A package that only lost files while another has new ones.
MovedAway(new, old, id) ==
    /\ new[id] \subseteq old[id] /\ Lost(new, old, id) # {}
    /\ \E other \in Ids : Gained(new, old, other) # {}

\* The packages all of whose changes, local ones and commits, may be files that were moved away.
OnlyMovedAway(work, last, upstream) ==
    LET Passed(new, old, id) == new[id] = old[id] \/ MovedAway(new, old, id)
    IN  {id \in Ids : /\ Passed(work, last, id) /\ Passed(last, upstream, id)
                      /\ work[id] # upstream[id]}

\* Where upstream has no faults and only packages have changed since, "lint changed" finds every
\* fault that a package rule finds in the whole repository, in whatever stage of git the change
\* is (getGitModifiedPackagesChanged), and no other.  Packages that only lost files while others
\* gained some are left out: git may take these for renames and not list them.
ChangedFindsPackageFaults ==
    (/\ out.cmd = "changed"
     /\ PackageFaults(base) = {}
     /\ tree.repo = base.repo /\ tree.eclasses = base.eclasses)
        => \A faults \in {PackageFaults(tree)},
              moved \in {OnlyMovedAway(FilesIn(tree), FilesIn(head), FilesIn(base))} :
               /\ OfPackages(out.found) \subseteq faults
               /\ \A f \in faults :
                      f \in out.found \/ \E id \in moved : f.subject = Qualified(Package(tree, id))

\* "Working tree, index, and untracked package changes are always considered": a package that
\* has an ebuild and is not as in HEAD is linted by "lint changed".
LocalChangesSelected ==
    out.cmd = "changed" => \A id \in Ids :
        (FilesIn(tree)[id] # FilesIn(head)[id] /\ Package(tree, id).disk # {})
            => Qualified(Package(tree, id)) \in out.asked

\* The rules that compare versions or read those on the disk again.
AcrossVersions == {"DroppedKeywords", "StabilizeNewVersions", "UnstableOnly", "MissingManifest"}

\* A query finds of each version it selects what the whole lint finds, and it selects by the order
\* of versions, not of their texts (the filters of runLintCore).  What holds for whole packages it
\* finds where it selects any version.
QueryFindsItsVersions ==
    LET q == CHOOSE x \in out.asked : TRUE
        Ordered(v) == CASE q.op = "=" -> v = q.version
                        [] q.op = ">" -> v > q.version
                        [] q.op = "<" -> v < q.version
                        [] q.op = ">=" -> v >= q.version
                        [] q.op = "<=" -> v <= q.version
        Selected(pkg) == {e.version : e \in {x \in pkg.ebuilds : Ordered(x.version)}}
        Expected == {f \in PackageFaults(tree) : \E pkg \in parseRepo(tree) :
            /\ Qualified(pkg) = f.subject /\ WantedByQuery(q, pkg) /\ Selected(pkg) # {}
            /\ f.version \in Selected(pkg) \cup {WholePackage}}
        Local(found) == {f \in OfPackages(found) : f.rule \notin AcrossVersions}
    IN  (out.cmd = "query" /\ q.op \in {"=", ">", "<", ">=", "<="} /\ q.version # 0 /\ q.wildcard = <<>>)
            => Local(out.found) = Local(Expected)

\* A policy that is set for a number, as PG0701, changes the severity of what the rules find and,
\* if it is "ignore", silences rules; it silences none otherwise and makes none find what it does
\* not find without (the rules that ask for a policy).  It is about policies with numbers: those
\* with names of their own can make a rule find more, and qa-policy.conf cannot set them.
PolicyChangesSeverities ==
    LET Found(pkgs, r) == {[subject |-> f.subject, rule |-> f.rule, version |-> f.version] :
            f \in PerformRepoLintingResults(pkgs, r) \cup UNION {PerformLintingResults(pkg, r) : pkg \in pkgs}}
    IN  out.cmd = "repo" => \A pkgs \in {parseRepo(tree)}, repo \in {Repository(tree)} :
            DOMAIN repo.qaPolicy \cap OwnNames = {} =>
                \A bare \in {[repo EXCEPT !.qaPolicy = <<>>]} :
                \A found \in {Found(pkgs, repo)}, without \in {Found(pkgs, bare)} :
                    /\ found \subseteq without
                    /\ (\A policy \in DOMAIN repo.qaPolicy : repo.qaPolicy[policy] # "ignore")
                           => without \subseteq found
=============================================================================
