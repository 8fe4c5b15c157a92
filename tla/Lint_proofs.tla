---------------------------- MODULE Lint_proofs ----------------------------
(***************************************************************************)
(* Proofs about Lint, for every choice of contents of the packages, the    *)
(* eclasses and the repository.                                            *)
(*                                                                         *)
(* "lint changed" is right because a package that is the same in the work  *)
(* tree as upstream has the faults that it has there, and any other is     *)
(* among the targets, unless git takes all that changed for renames.  This *)
(* looks into none of the rules.  A numbered policy only silences because  *)
(* of how each single rule asks for it: the rules that report through a    *)
(* policy find the same versions under any other that does not ignore it,  *)
(* and the others ask the repository for what no policy changes.           *)
(***************************************************************************)
EXTENDS Lint, TLAPS

-----------------------------------------------------------------------------
(* The three trees.                                                        *)

\* A tree gives each package, the eclasses and the repository one of their contents.
Trees == {t \in [pkgs : [Ids -> UNION {DOMAIN Contents[id] : id \in Ids}],
                 eclasses : DOMAIN EclassContents, repo : DOMAIN RepoContents] :
             \A id \in Ids : t.pkgs[id] \in DOMAIN Contents[id]}

TreesInv == tree \in Trees /\ head \in Trees /\ base \in Trees

\* Everything starts with the first contents.
LEMMA CleanTree == Clean \in Trees
<1>1. \A id \in Ids : 1 \in DOMAIN Contents[id]
  BY ContentsAssumption
<1>2. [id \in Ids |-> 1] \in [Ids -> UNION {DOMAIN Contents[id] : id \in Ids}]
  BY <1>1
<1>3. 1 \in DOMAIN EclassContents /\ 1 \in DOMAIN RepoContents
  BY ContentsAssumption
<1> QED
  BY <1>1, <1>2, <1>3 DEF Clean, Trees

\* An edit replaces one content of a tree by another content of the same thing.
LEMMA EditedTree ==
    ASSUME NEW t \in Trees
    PROVE  /\ \A id \in Ids : \A c \in DOMAIN Contents[id] : [t EXCEPT !.pkgs[id] = c] \in Trees
           /\ \A c \in DOMAIN EclassContents : [t EXCEPT !.eclasses = c] \in Trees
           /\ \A c \in DOMAIN RepoContents : [t EXCEPT !.repo = c] \in Trees
<1> DEFINE All == UNION {DOMAIN Contents[id] : id \in Ids}
<1>1. ASSUME NEW id \in Ids, NEW c \in DOMAIN Contents[id]
      PROVE  [t EXCEPT !.pkgs[id] = c] \in Trees
  <2> DEFINE u == [t EXCEPT !.pkgs[id] = c]
  <2>1. /\ u \in [pkgs : [Ids -> All], eclasses : DOMAIN EclassContents, repo : DOMAIN RepoContents]
        /\ u.pkgs = [t.pkgs EXCEPT ![id] = c]
    <3>1. c \in All
      OBVIOUS
    <3>2. t.pkgs \in [Ids -> All]
      BY DEF Trees
    <3>3. [t.pkgs EXCEPT ![id] = c] \in [Ids -> All]
      BY <3>1, <3>2
    <3> QED
      BY <3>3 DEF Trees
  <2>2. \A i \in Ids : u.pkgs[i] = IF i = id THEN c ELSE t.pkgs[i]
    BY <2>1 DEF Trees
  <2> QED
    BY <2>1, <2>2 DEF Trees
<1>2. ASSUME NEW c \in DOMAIN EclassContents
      PROVE  [t EXCEPT !.eclasses = c] \in Trees
  BY DEF Trees
<1>3. ASSUME NEW c \in DOMAIN RepoContents
      PROVE  [t EXCEPT !.repo = c] \in Trees
  BY DEF Trees
<1> QED
  BY <1>1, <1>2, <1>3

\* Whatever the developer and the commands do, the trees stay trees.
LEMMA TreesStep == TreesInv /\ [Next]_vars => TreesInv'
<1> SUFFICES ASSUME TreesInv, [Next]_vars PROVE TreesInv'
  OBVIOUS
<1> USE DEF TreesInv
<1>1. ASSUME NEW id \in Ids, NEW isTracked \in BOOLEAN, NEW content \in DOMAIN Contents[id],
             EditPackage(id, content, isTracked)
      PROVE  TreesInv'
  BY <1>1, EditedTree DEF EditPackage
<1>2. ASSUME NEW content \in DOMAIN EclassContents, EditEclass(content) PROVE TreesInv'
  BY <1>2, EditedTree DEF EditEclass
<1>3. ASSUME NEW content \in DOMAIN RepoContents, EditRepository(content) PROVE TreesInv'
  BY <1>3, EditedTree DEF EditRepository
<1>4. CASE Commit
  BY <1>4 DEF Commit
<1>5. CASE Push
  BY <1>5 DEF Push
<1>6. CASE NextCommand
  BY <1>6 DEF NextCommand
<1>7. ASSUME NEW location \in Locations, cmdLintRepo(location) PROVE TreesInv'
  BY <1>7 DEF cmdLintRepo
<1>8. ASSUME NEW location \in Locations, cmdLintChanged(location) PROVE TreesInv'
  BY <1>8 DEF cmdLintChanged
<1>9. ASSUME NEW location \in Locations, NEW targets \in TargetSets,
             runOldLint(location, targets) \/ cmdLintPackage(location, targets)
      PROVE  TreesInv'
  BY <1>9 DEF runOldLint, cmdLintPackage
<1>10. ASSUME NEW location \in Locations, NEW q \in Queries, cmdLintQuery(location, q)
       PROVE  TreesInv'
  BY <1>10 DEF cmdLintQuery
<1>11. CASE UNCHANGED vars
  BY <1>11 DEF vars
<1> QED
  BY <1>1, <1>2, <1>3, <1>4, <1>5, <1>6, <1>7, <1>8, <1>9, <1>10, <1>11 DEF Next

\* Work tree, HEAD and upstream are trees in every reachable state.
THEOREM TreesStayTrees == Spec => []TreesInv
<1>1. Init => TreesInv
  BY CleanTree DEF Init, TreesInv
<1> QED
  BY <1>1, TreesStep, PTL DEF Spec

-----------------------------------------------------------------------------
(* "lint changed".                                                         *)

\* The package as parseRepo reads it, and as it is given to the rules when all of it is asked for.
ReadFrom(t, id) == [Package(t, id) EXCEPT !.ebuilds = {e \in @ : e.parses}]
Copied(pkg) == PackageCopy(pkg, EveryVersion)

\* The fields of both.
LEMMA FieldsRead ==
    ASSUME NEW t \in Trees, NEW id \in Ids
    PROVE  /\ Qualified(ReadFrom(t, id)) = Qualified(Package(t, id))
           /\ Qualified(Copied(ReadFrom(t, id))) = Qualified(Package(t, id))
           /\ Copied(ReadFrom(t, id)).ebuilds = ReadFrom(t, id).ebuilds
           /\ ReadFrom(t, id).category = Package(t, id).category
           /\ Package(t, id).name # ""
           /\ ReadFrom(t, id).ebuilds # {} => Package(t, id).disk # {}
<1> DEFINE pkg == Package(t, id)
           read == ReadFrom(t, id)
           copy == Copied(read)
<1>1. /\ {"category", "name", "ebuilds", "disk", "badFileNames"} \subseteq DOMAIN pkg
      /\ pkg = [f \in DOMAIN pkg |-> pkg[f]]
      /\ pkg.name # "" /\ pkg.disk = pkg.ebuilds
  BY FieldsAssumption DEF Trees, Package
<1>2. read = [pkg EXCEPT !.ebuilds = {e \in @ : e.parses}]
  BY DEF ReadFrom
<1>3. copy = [read EXCEPT !.ebuilds = {e \in @ : TRUE}, !.badFileNames = {}]
  BY DEF Copied, PackageCopy, EveryVersion
<1> HIDE DEF pkg, read, copy
<1>4. /\ read.category = pkg.category /\ read.name = pkg.name
      /\ read.ebuilds = {e \in pkg.ebuilds : e.parses} /\ DOMAIN read = DOMAIN pkg
  BY <1>1, <1>2
<1>5. /\ copy.category = pkg.category /\ copy.name = pkg.name
      /\ copy.ebuilds = {e \in read.ebuilds : TRUE}
  BY <1>1, <1>3, <1>4
<1>6. copy.ebuilds = read.ebuilds
  BY <1>5
<1>7. read.ebuilds # {} => pkg.ebuilds # {}
  BY <1>4
<1> QED
  BY <1>1, <1>4, <1>5, <1>6, <1>7 DEF Qualified, pkg, read, copy

\* What parseRepo finds.
LEMMA Parsed ==
    \A t, pkg : pkg \in parseRepo(t)
        <=> /\ \E id \in Ids : pkg = ReadFrom(t, id)
            /\ pkg.ebuilds # {} /\ ~isIgnoredDir(pkg.category)
            /\ isCategoryAllowed(pkg.category, Repository(t))
BY DEF parseRepo, ReadFrom

\* The faults of a tree are those of its packages.
LEMMA Faults ==
    \A t, f : f \in PackageFaults(t)
        <=> \E pkg \in parseRepo(t) : f \in PerformLintingResults(Copied(pkg), Repository(t))
<1>1. \A t : PackageFaults(t) = UNION {PerformLintingResults(pkg, repo) :
                 pkg \in {Copied(p) : p \in parseRepo(t)}, repo \in {Repository(t)}}
  BY DEF PackageFaults, Copied
<1>2. \A t, f : f \in PackageFaults(t) <=>
          \E pkg \in {Copied(p) : p \in parseRepo(t)}, repo \in {Repository(t)} :
              f \in PerformLintingResults(pkg, repo)
  BY <1>1
<1> QED
  BY <1>2

\* Every result of a package rule is about the package.
LEMMA AboutThePackage ==
    \A pkg, repo, f : f \in PerformLintingResults(pkg, repo) => f.subject = Qualified(pkg)
<1>1. \A subject, results, f : f \in Tag(subject, results) => f.subject = subject
  BY DEF Tag
<1> QED
  BY <1>1 DEF PerformLintingResults

\* With targets, what is found about packages is what the rules find in the packages that the
\* targets name.
LEMMA FoundByTargets ==
    ASSUME NEW location, NEW targets, targets # {}, tree \in Trees
    PROVE  \A f : f \in OfPackages(TargetResults(location, targets))
               <=> \E pkg \in parseRepo(tree) :
                      /\ InTargets(pkg, targets)
                      /\ f \in PerformLintingResults(Copied(pkg), Repository(tree))
<1> DEFINE repo == Repository(tree)
           pkgs == parseRepo(tree)
           linted == {pkg \in {Copied(p) : p \in {x \in pkgs : targets = {} \/ InTargets(x, targets)}} :
                         pkg.ebuilds # {}}
           eclasses == {x \in repo.eclasses : targets = {} \/ targets \cap {<<"eclass">>, <<x.name>>} # {}}
           news == NewsResults(location, pkgs, linted, repo)
           ofEclasses == UNION {PerformEclassLintingResults(x, repo) : x \in eclasses}
           ofPackages == UNION {PerformLintingResults(pkg, repo) : pkg \in linted}
<1>1. TargetResults(location, targets)
          = LintPackages(location, pkgs, linted, repo) \cup ofEclasses
            \cup (IF targets = {} THEN PerformRepoLintingResults(pkgs, repo) ELSE {})
  BY DEF TargetResults, Linted, Copied
<1>2. TargetResults(location, targets) = ofPackages \cup news \cup ofEclasses
  <2>1. LintPackages(location, pkgs, linted, repo) = ofPackages \cup news
    <3> HIDE DEF linted, pkgs, repo
    <3> QED
      BY DEF LintPackages
  <2> HIDE DEF ofPackages, news, ofEclasses, linted, pkgs, repo
  <2> QED
    BY <1>1, <2>1
<1>3. \A f \in news : f.subject = <<"metadata", "news">>
  <2>1. \A f \in Tag(<<"metadata", "news">>, NewsValidity(repo)) : f.subject = <<"metadata", "news">>
    BY DEF Tag
  <2> QED
    BY <2>1 DEF NewsResults
<1>4. \A f \in ofEclasses : f.subject[1] = "eclass"
  <2>1. \A x, f : f \in PerformEclassLintingResults(x, repo) => f.subject = <<"eclass", x.name>>
    BY DEF PerformEclassLintingResults, Tag
  <2>2. \A x, f : f \in PerformEclassLintingResults(x, repo) => f.subject[1] = "eclass"
    BY <2>1
  <2> QED
    BY <2>2
<1>5. \A pkg : pkg \in linted
          <=> \E p \in pkgs : pkg = Copied(p) /\ InTargets(p, targets) /\ pkg.ebuilds # {}
  OBVIOUS
<1>6. \A p \in pkgs : Copied(p).ebuilds # {}
  <2>1. \A id \in Ids : Copied(ReadFrom(tree, id)).ebuilds = ReadFrom(tree, id).ebuilds
    BY FieldsRead
  <2>2. \A p \in pkgs : p.ebuilds # {} /\ \E id \in Ids : p = ReadFrom(tree, id)
    BY Parsed
  <2> HIDE DEF pkgs
  <2> QED
    BY <2>1, <2>2
<1>7. \A f : f \in ofPackages
          <=> \E p \in pkgs : InTargets(p, targets) /\ f \in PerformLintingResults(Copied(p), repo)
  <2>1. \A f : f \in ofPackages <=> \E pkg \in linted : f \in PerformLintingResults(pkg, repo)
    OBVIOUS
  <2> HIDE DEF linted, ofPackages, pkgs
  <2> QED
    BY <2>1, <1>5, <1>6
<1>8. \A f \in ofPackages : f.subject[1] \notin {"metadata", "eclass"} /\ f.subject # <<"repo", "">>
  <2> SUFFICES ASSUME NEW f \in ofPackages
               PROVE  f.subject[1] \notin {"metadata", "eclass"} /\ f.subject # <<"repo", "">>
    OBVIOUS
  <2>1. PICK p \in pkgs : f \in PerformLintingResults(Copied(p), repo)
    BY <1>7
  <2>2. PICK id \in Ids : p = ReadFrom(tree, id) /\ ~isIgnoredDir(p.category)
    BY Parsed
  <2>3. f.subject = Qualified(Package(tree, id))
    <3>1. f.subject = Qualified(Copied(p))
      BY <2>1, AboutThePackage
    <3> QED
      BY <2>2, <3>1, FieldsRead
  <2>4. Package(tree, id).category \notin {"metadata", "eclass"} /\ Package(tree, id).name # ""
    BY <2>2, FieldsRead DEF isIgnoredDir
  <2>5. \A a, b : <<a, b>>[1] = a /\ (<<a, b>> = <<"repo", "">> => b = "")
    OBVIOUS
  <2> DEFINE category == Package(tree, id).category
             name == Package(tree, id).name
  <2>6. f.subject = <<category, name>>
    BY <2>3 DEF Qualified
  <2> HIDE DEF ofPackages, pkgs, repo, category, name
  <2>7. f.subject[1] = category /\ (f.subject = <<"repo", "">> => name = "")
    BY <2>5, <2>6
  <2> QED
    BY <2>4, <2>7 DEF category, name
<1> HIDE DEF ofPackages, news, ofEclasses, pkgs, repo
<1>9. \A f : f \in OfPackages(TargetResults(location, targets)) <=> f \in ofPackages
  <2>1. \A f \in news : f.subject[1] = "metadata"
    BY <1>3
  <2> QED
    BY <1>2, <1>4, <1>8, <2>1 DEF OfPackages
<1> QED
  BY <1>7, <1>9 DEF pkgs, repo

\* A package that git diff may leave out is as before or only lost files, if git knows the new ones.
LEMMA NotListed ==
    ASSUME NEW new, NEW old, NEW known, NEW listed \in DiffNames(new, old, known),
           NEW id \in Ids, id \notin listed, id \in known \/ Gained(new, old, id) = {}
    PROVE  new[id] = old[id] \/ MovedAway(new, old, id)
<1>1. PICK renamed \in RenameChoices(new, old, known) :
          listed = {i \in Ids : \/ Edited(new, old, i) # {}
                                \/ i \in known /\ Gained(new, old, i) # {}
                                \/ i \notin renamed /\ Lost(new, old, i) # {}}
  BY DEF DiffNames
<1>2. Edited(new, old, id) = {} /\ Gained(new, old, id) = {}
  BY <1>1
<1>3. Lost(new, old, id) = {} \/ id \in renamed
  BY <1>1
<1>4. new[id] \subseteq old[id]
  BY <1>2 DEF Edited, Gained, Lost
<1>5. old[id] \ new[id] \subseteq Lost(new, old, id)
  BY <1>2, <1>4 DEF Edited
<1>6. CASE Lost(new, old, id) = {}
  BY <1>4, <1>5, <1>6
<1>7. CASE id \in renamed /\ Lost(new, old, id) # {}
  <2> DEFINE come == UNION {{<<i, f>> : f \in Gained(new, old, i)} : i \in Ids \cap known}
             gone(set) == UNION {{<<i, f>> : f \in Lost(new, old, i)} : i \in set}
  <2>1. \A x \in gone(renamed) : {y \in come : y[2][1] = x[2][1]} # {}
    BY DEF RenameChoices
  <2>2. PICK f : f \in Lost(new, old, id)
    BY <1>7
  <2>3. <<id, f>> \in gone(renamed)
    BY <1>7, <2>2
  <2> HIDE DEF gone
  <2>4. PICK y : y \in come
    BY <2>1, <2>3
  <2>5. \E other \in Ids : Gained(new, old, other) # {}
    BY <2>4
  <2> QED
    BY <1>4, <1>7, <2>5 DEF MovedAway
<1> QED
  BY <1>3, <1>6, <1>7

\* What may be among the modified packages: all that differ from upstream, but for those that
\* only lost files.
LEMMA ModifiedOrMoved ==
    ASSUME NEW work, NEW last, NEW upstream, NEW modified \in ModifiedPackages(work, last, upstream),
           NEW id \in Ids, work[id] # upstream[id]
    PROVE  id \in modified \/ id \in OnlyMovedAway(work, last, upstream)
<1> DEFINE untracked == {i \in Ids \ tracked : Gained(work, last, i) # {}}
<1>1. PICK local \in DiffNames(work, last, tracked), branch \in DiffNames(last, upstream, Ids) :
          modified = local \cup untracked \cup branch
  BY DEF ModifiedPackages
<1> SUFFICES ASSUME id \notin modified PROVE id \in OnlyMovedAway(work, last, upstream)
  OBVIOUS
<1>2. id \notin local /\ id \notin branch /\ (id \in tracked \/ Gained(work, last, id) = {})
  BY <1>1
<1>3. work[id] = last[id] \/ MovedAway(work, last, id)
  BY <1>2, NotListed
<1>4. last[id] = upstream[id] \/ MovedAway(last, upstream, id)
  BY <1>2, NotListed
<1> QED
  BY <1>3, <1>4 DEF OnlyMovedAway

\* A package whose files are the same in two trees is the same.
LEMMA SameFiles ==
    ASSUME NEW t \in Trees, NEW u \in Trees, NEW id \in Ids, FilesIn(t)[id] = FilesIn(u)[id]
    PROVE  Package(t, id) = Package(u, id)
<1>1. t.pkgs[id] \in DOMAIN Contents[id] /\ u.pkgs[id] \in DOMAIN Contents[id]
  BY DEF Trees
<1>2. FilesOf(Package(t, id)) = FilesOf(Package(u, id))
  BY DEF FilesIn
<1> QED
  BY <1>1, <1>2, FilesAssumption DEF Package

\* A package with faults is among the targets or only lost files: one that is the same upstream
\* has the same faults there.
LEMMA ChangedFindsThemAll ==
    ASSUME TreesInv, PackageFaults(base) = {},
           tree.repo = base.repo, tree.eclasses = base.eclasses,
           NEW location,
           NEW modified \in ModifiedPackages(FilesIn(tree), FilesIn(head), FilesIn(base)),
           NEW targets, targets = getGitModifiedPackagesChanged(modified)
    PROVE  LET found == IF targets = {} THEN {} ELSE TargetResults(location, targets)
           IN  /\ OfPackages(found) \subseteq PackageFaults(tree)
               /\ \A f \in PackageFaults(tree) :
                      \/ f \in found
                      \/ \E id \in OnlyMovedAway(FilesIn(tree), FilesIn(head), FilesIn(base)) :
                             f.subject = Qualified(Package(tree, id))
<1> DEFINE repo == Repository(tree)
           moved == OnlyMovedAway(FilesIn(tree), FilesIn(head), FilesIn(base))
<1>1. Repository(tree) = Repository(base)
  BY DEF Repository
<1>2. ASSUME NEW id \in Ids, NEW f, ReadFrom(tree, id) \in parseRepo(tree),
             f \in PerformLintingResults(Copied(ReadFrom(tree, id)), repo)
      PROVE  Qualified(Package(tree, id)) \in targets \/ id \in moved
  <2>1. FilesIn(tree)[id] # FilesIn(base)[id]
    <3> SUFFICES ASSUME FilesIn(tree)[id] = FilesIn(base)[id] PROVE FALSE
      OBVIOUS
    <3>1. ReadFrom(tree, id) = ReadFrom(base, id)
      BY SameFiles DEF ReadFrom, TreesInv
    <3>2. ReadFrom(base, id) \in parseRepo(base)
      BY <1>1, <1>2, <3>1, Parsed
    <3>3. f \in PackageFaults(base)
      BY <1>1, <1>2, <3>1, <3>2, Faults
    <3> QED
      BY <3>3
  <2>2. id \in modified \/ id \in moved
    BY <2>1, ModifiedOrMoved
  <2>3. Package(tree, id).disk # {}
    BY <1>2, Parsed, FieldsRead DEF TreesInv
  <2> QED
    BY <2>2, <2>3 DEF getGitModifiedPackagesChanged
<1>3. ASSUME NEW id \in Ids, Qualified(Package(tree, id)) \in targets
      PROVE  InTargets(ReadFrom(tree, id), targets)
  BY <1>3, FieldsRead DEF InTargets, TreesInv
<1>4. \A id \in Ids : \A f \in PerformLintingResults(Copied(ReadFrom(tree, id)), repo) :
          f.subject = Qualified(Package(tree, id))
  <2> SUFFICES ASSUME NEW id \in Ids, NEW f \in PerformLintingResults(Copied(ReadFrom(tree, id)), repo)
               PROVE  f.subject = Qualified(Package(tree, id))
    OBVIOUS
  <2> HIDE DEF repo
  <2>1. f.subject = Qualified(Copied(ReadFrom(tree, id)))
    BY AboutThePackage
  <2>2. Qualified(Copied(ReadFrom(tree, id))) = Qualified(Package(tree, id))
    BY FieldsRead DEF TreesInv
  <2> QED
    BY <2>1, <2>2
<1> HIDE DEF moved
<1>5. \A f \in PackageFaults(tree) : \E id \in Ids :
          /\ ReadFrom(tree, id) \in parseRepo(tree)
          /\ f \in PerformLintingResults(Copied(ReadFrom(tree, id)), repo)
          /\ \/ Qualified(Package(tree, id)) \in targets
             \/ id \in moved /\ f.subject = Qualified(Package(tree, id))
  <2> SUFFICES ASSUME NEW f \in PackageFaults(tree)
               PROVE  \E id \in Ids :
          /\ ReadFrom(tree, id) \in parseRepo(tree)
          /\ f \in PerformLintingResults(Copied(ReadFrom(tree, id)), repo)
          /\ \/ Qualified(Package(tree, id)) \in targets
             \/ id \in moved /\ f.subject = Qualified(Package(tree, id))
    OBVIOUS
  <2>1. PICK pkg \in parseRepo(tree) : f \in PerformLintingResults(Copied(pkg), repo)
    BY Faults
  <2>2. PICK id \in Ids : pkg = ReadFrom(tree, id)
    BY <2>1, Parsed
  <2> QED
    BY <2>1, <2>2, <1>2, <1>4
<1>6. CASE targets = {}
  BY <1>5, <1>6 DEF OfPackages, moved
<1>7. CASE targets # {}
  <2>1. \A f : f \in OfPackages(TargetResults(location, targets))
               <=> \E pkg \in parseRepo(tree) :
                      InTargets(pkg, targets) /\ f \in PerformLintingResults(Copied(pkg), repo)
    BY <1>7, FoundByTargets DEF TreesInv
  <2>2. OfPackages(TargetResults(location, targets)) \subseteq PackageFaults(tree)
    BY <2>1, Faults
  <2>3. ASSUME NEW f \in PackageFaults(tree)
        PROVE  \/ f \in OfPackages(TargetResults(location, targets))
               \/ \E id \in moved : f.subject = Qualified(Package(tree, id))
    BY <1>3, <1>5, <2>1
  <2>4. \A found : OfPackages(found) \subseteq found
    BY DEF OfPackages
  <2> QED
    BY <1>7, <2>2, <2>3, <2>4 DEF moved
<1> QED
  BY <1>6, <1>7

\* What "lint changed" printed stays right until the next command, as nothing is edited meanwhile.
LEMMA ChangedStep ==
    TreesInv /\ ChangedFindsPackageFaults /\ [Next]_vars => ChangedFindsPackageFaults'
<1> SUFFICES ASSUME TreesInv, ChangedFindsPackageFaults, [Next]_vars
             PROVE  ChangedFindsPackageFaults'
  OBVIOUS
<1>1. ASSUME out'.cmd # "changed" PROVE ChangedFindsPackageFaults'
  BY <1>1 DEF ChangedFindsPackageFaults
<1>2. ASSUME NEW id \in Ids, NEW isTracked \in BOOLEAN, NEW content \in DOMAIN Contents[id],
             EditPackage(id, content, isTracked)
      PROVE  ChangedFindsPackageFaults'
  BY <1>1, <1>2 DEF EditPackage, MayEdit
<1>3. ASSUME NEW content \in DOMAIN EclassContents, EditEclass(content)
      PROVE  ChangedFindsPackageFaults'
  BY <1>1, <1>3 DEF EditEclass, MayEdit
<1>4. ASSUME NEW content \in DOMAIN RepoContents, EditRepository(content)
      PROVE  ChangedFindsPackageFaults'
  BY <1>1, <1>4 DEF EditRepository, MayEdit
<1>5. CASE Commit \/ Push
  <2>1. out'.cmd = "none"
    BY <1>5 DEF Commit, Push, vars
  <2> QED
    BY <1>1, <2>1
<1>6. CASE NextCommand
  BY <1>1, <1>6 DEF NextCommand, Prompt
<1>7. \A cmd, location, asked, found :
          Output(cmd, location, asked, found) /\ cmd # "changed" => ChangedFindsPackageFaults'
  BY <1>1 DEF Output
<1>8. ASSUME NEW location \in Locations, cmdLintRepo(location) PROVE ChangedFindsPackageFaults'
  BY <1>7, <1>8 DEF cmdLintRepo
<1>9. ASSUME NEW location \in Locations, NEW targets \in TargetSets,
              runOldLint(location, targets) \/ cmdLintPackage(location, targets)
       PROVE  ChangedFindsPackageFaults'
  <2>1. CASE runOldLint(location, targets)
    BY <1>7, <2>1 DEF runOldLint
  <2>2. CASE cmdLintPackage(location, targets)
    BY <1>7, <2>2 DEF cmdLintPackage
  <2> QED
    BY <1>9, <2>1, <2>2
<1>10. ASSUME NEW location \in Locations, NEW q \in Queries, cmdLintQuery(location, q)
       PROVE  ChangedFindsPackageFaults'
  BY <1>7, <1>10 DEF cmdLintQuery
<1>11. ASSUME NEW location \in Locations, cmdLintChanged(location)
      PROVE  ChangedFindsPackageFaults'
  <2> DEFINE moved == OnlyMovedAway(FilesIn(tree), FilesIn(head), FilesIn(base))
  <2>1. PICK modified \in ModifiedPackages(FilesIn(tree), FilesIn(head), FilesIn(base)) :
            Output("changed", location, getGitModifiedPackagesChanged(modified),
                   IF getGitModifiedPackagesChanged(modified) = {} THEN {}
                   ELSE TargetResults(location, getGitModifiedPackagesChanged(modified)))
    BY <1>11 DEF cmdLintChanged
  <2> DEFINE targets == getGitModifiedPackagesChanged(modified)
             found == IF targets = {} THEN {} ELSE TargetResults(location, targets)
  <2>2. out'.found = found /\ UNCHANGED <<tree, head, base>>
    BY <1>11, <2>1 DEF cmdLintChanged, Output
  <2>3. (PackageFaults(base) = {} /\ tree.repo = base.repo /\ tree.eclasses = base.eclasses)
            => /\ OfPackages(found) \subseteq PackageFaults(tree)
               /\ \A f \in PackageFaults(tree) :
                      f \in found \/ \E id \in moved : f.subject = Qualified(Package(tree, id))
    BY ChangedFindsThemAll
  <2>4. /\ PackageFaults(tree)' = PackageFaults(tree) /\ PackageFaults(base)' = PackageFaults(base)
        /\ FilesIn(tree)' = FilesIn(tree) /\ FilesIn(head)' = FilesIn(head) /\ FilesIn(base)' = FilesIn(base)
        /\ \A id : Qualified(Package(tree, id))' = Qualified(Package(tree, id))
    BY <2>2
  <2> HIDE DEF found
  <2> QED
    BY <2>2, <2>3, <2>4 DEF ChangedFindsPackageFaults
<1>12. CASE UNCHANGED vars
  BY <1>12 DEF vars, ChangedFindsPackageFaults
<1> QED
  BY <1>2, <1>3, <1>4, <1>5, <1>6, <1>8, <1>9, <1>10, <1>11, <1>12 DEF Next

\* Where upstream has no faults and only packages have changed since, "lint changed" finds every
\* fault that a package rule finds in the whole repository, and no other, whatever git takes for
\* renames: only of packages that lost files, and nothing else, it may miss the faults.
THEOREM ChangedFindsThem == Spec => []ChangedFindsPackageFaults
<1>1. Init => ChangedFindsPackageFaults
  BY DEF Init, Prompt, ChangedFindsPackageFaults
<1> QED
  BY <1>1, TreesStayTrees, ChangedStep, PTL DEF Spec

-----------------------------------------------------------------------------
(* The policy.                                                             *)

\* Two repositories that differ in nothing but their policies: what the second ignores, the
\* first ignores too, and neither has a policy about the missing cache.
SilencesMore(repo, bare) ==
    /\ bare.categories = repo.categories /\ bare.layout = repo.layout
    /\ bare.repoName = repo.repoName /\ bare.arches = repo.arches
    /\ bare.useExpand = repo.useExpand /\ bare.licenses = repo.licenses
    /\ bare.projects = repo.projects /\ bare.root = repo.root
    /\ bare.g2ignore = repo.g2ignore /\ bare.layoutLint = repo.layoutLint
    /\ bare.mask = repo.mask /\ bare.news = repo.news
    /\ bare.md5Cache = repo.md5Cache /\ bare.eclasses = repo.eclasses
    /\ "Md5CacheMissing" \notin DOMAIN ParseQAPolicy(repo) \cup DOMAIN ParseQAPolicy(bare)
    /\ \A policy : Ignored(bare, policy) => Ignored(repo, policy)

\* Each result of the first set has one of the same rule and version in the second.
Silenced(found, without) == \A f \in found : \E g \in without : g.rule = f.rule /\ g.version = f.version

\* The policies apart, the two are the same to the rules.
LEMMA SameFields ==
    ASSUME NEW repo, NEW bare, SilencesMore(repo, bare)
    PROVE  /\ bare.categories = repo.categories /\ bare.layout = repo.layout
           /\ bare.repoName = repo.repoName /\ bare.arches = repo.arches
           /\ bare.useExpand = repo.useExpand /\ bare.licenses = repo.licenses
           /\ bare.projects = repo.projects /\ bare.root = repo.root
           /\ bare.g2ignore = repo.g2ignore /\ bare.layoutLint = repo.layoutLint
           /\ bare.mask = repo.mask /\ bare.news = repo.news
           /\ bare.md5Cache = repo.md5Cache /\ bare.eclasses = repo.eclasses
BY DEF SilencesMore

\* A report decided by a policy is silenced or has another severity.
LEMMA ReportSilenced ==
    ASSUME NEW repo, NEW bare, SilencesMore(repo, bare)
    PROVE  \A rule, policy, default, versions :
               Silenced(Report(repo, rule, policy, default, versions),
                        Report(bare, rule, policy, default, versions))
<1>1. ASSUME NEW rule, NEW policy, NEW default, NEW versions, NEW f,
             f \in Report(repo, rule, policy, default, versions)
      PROVE  \E g \in Report(bare, rule, policy, default, versions) :
                 g.rule = f.rule /\ g.version = f.version
  <2>1. f \in Result(rule, SeverityUnder(repo, policy, default), versions) /\ ~Ignored(repo, policy)
    BY <1>1 DEF Report, Unless
  <2>2. PICK v \in versions : f.rule = rule /\ f.version = v
    BY <2>1 DEF Result
  <2>3. ~Ignored(bare, policy)
    BY <2>1 DEF SilencesMore
  <2> DEFINE g == [rule |-> rule, severity |-> SeverityUnder(bare, policy, default), version |-> v]
  <2>4. g \in Report(bare, rule, policy, default, versions)
    BY <2>3 DEF Report, Result, Unless
  <2> QED
    BY <2>2, <2>4
<1> QED
  BY <1>1 DEF Silenced

\* What no policy decides stays the same.
LEMMA SilencedItself == \A found : Silenced(found, found)
BY DEF Silenced

\* Results of two kinds are silenced together.
LEMMA SilencedBoth ==
    \A a, b, c, d : Silenced(a, b) /\ Silenced(c, d) => Silenced(a \cup c, b \cup d)
BY DEF Silenced

\* What the first may have ignored is there under the second.
LEMMA UnlessSilenced ==
    ASSUME NEW repo, NEW bare, SilencesMore(repo, bare)
    PROVE  \A policy, results :
               Silenced(Unless(repo, policy, results), Unless(bare, policy, results))
BY DEF Unless, Silenced, SilencesMore

\* The results of many rules are silenced together.
LEMMA SilencedAll ==
    \A A, B : (\A x \in A : \E y \in B : Silenced(x, y)) => Silenced(UNION A, UNION B)
BY DEF Silenced

\* The splits of a flag do not depend on the policy.
LEMMA SameExpansions ==
    ASSUME NEW repo, NEW bare, SilencesMore(repo, bare)
    PROVE  \A flag : Expansions(flag, bare) = Expansions(flag, repo)
<1> DEFINE Known(expand, flag) ==
        IF flag \notin DOMAIN SplitsOf THEN <<>>
        ELSE SelectSeq(SplitsOf[flag], LAMBDA s : s.prefix \in DOMAIN expand)
<1>1. \A r, flag : Expansions(flag, r) = Known(r.useExpand, flag)
  BY Zenon DEF Expansions
<1>2. bare.useExpand = repo.useExpand
  BY SameFields
<1> HIDE DEF Known
<1> QED
  BY <1>1, <1>2

\* Nor do the masters.
LEMMA SameMasters ==
    ASSUME NEW repo, NEW bare, SilencesMore(repo, bare)
    PROVE  Masters(bare) = Masters(repo)
BY SameFields DEF Masters

\* The rules that read the code of an ebuild; the versions found do not depend on the policy.
LEMMA ShellRulesSilenced ==
    ASSUME NEW repo, NEW bare, SilencesMore(repo, bare), NEW pkg
    PROVE  Silenced(ShellRules(pkg, repo), ShellRules(pkg, bare))
<1> DEFINE rules(r) == {
             AbsoluteSymlink(pkg, r), DeprecatedInsinto(pkg, r), GameInstallLocations(pkg, r),
             InstallationPaths(pkg, r), StrictMultilibLayout(pkg, r), UsrLocal(pkg, r),
             StaticLibraries(pkg, r), InstalledFiles(pkg, r), DieSubshell(pkg, r),
             ExternalCode(pkg, r), GlobalScope(pkg, r), HeadAndTailUsage(pkg, r),
             PkgConfigDirectCall(pkg, r), SandboxFunctions(pkg, r),
             UseConditionalCode(pkg, r), EAPIBannedCommands(pkg, r),
             WerrorCompilerFlag(pkg, r), GLEP81UserGroup(pkg, r), ConditionalInherit(pkg, r),
             CodingStyle(pkg, r), DVariables(pkg, r), EAPIBannedVariables(pkg, r),
             RedefinedVariables(pkg, r), RedundantS(pkg, r), RespectVariables(pkg, r),
             HomepageVariables(pkg, r), LicenseVariables(pkg, r), SrcUriHomepage(pkg, r),
             KeywordsSingleLine(pkg, r), CharacterSet(pkg, r), EbuildHeader(pkg, r),
             IndentingWhitespace(pkg, r), SubshellFunction(pkg, r)}
<1>1. Silenced(AbsoluteSymlink(pkg, repo), AbsoluteSymlink(pkg, bare))
  BY ReportSilenced DEF AbsoluteSymlink, Which
<1>2. Silenced(DeprecatedInsinto(pkg, repo), DeprecatedInsinto(pkg, bare))
  BY ReportSilenced DEF DeprecatedInsinto, Which, Passing
<1>3. Silenced(GameInstallLocations(pkg, repo), GameInstallLocations(pkg, bare))
  BY ReportSilenced DEF GameInstallLocations, Which, Passing
<1>4. Silenced(InstallationPaths(pkg, repo), InstallationPaths(pkg, bare))
  BY ReportSilenced DEF InstallationPaths, Which, Passing
<1>5. Silenced(StrictMultilibLayout(pkg, repo), StrictMultilibLayout(pkg, bare))
  BY ReportSilenced DEF StrictMultilibLayout, Which, Passing
<1>6. Silenced(UsrLocal(pkg, repo), UsrLocal(pkg, bare))
  BY SilencedItself DEF UsrLocal, Which, Passing
<1>7. Silenced(StaticLibraries(pkg, repo), StaticLibraries(pkg, bare))
  BY ReportSilenced DEF StaticLibraries, Which
<1>8. Silenced(InstalledFiles(pkg, repo), InstalledFiles(pkg, bare))
  BY UnlessSilenced, SilencedBoth DEF InstalledFiles, Which
<1>9. Silenced(DieSubshell(pkg, repo), DieSubshell(pkg, bare))
  BY SilencedItself DEF DieSubshell, Which
<1>10. Silenced(ExternalCode(pkg, repo), ExternalCode(pkg, bare))
  BY ReportSilenced DEF ExternalCode, Which, Calling
<1>11. Silenced(GlobalScope(pkg, repo), GlobalScope(pkg, bare))
  BY SilencedItself DEF GlobalScope, Which
<1>12. Silenced(HeadAndTailUsage(pkg, repo), HeadAndTailUsage(pkg, bare))
  BY SilencedItself DEF HeadAndTailUsage, Which
<1>13. Silenced(PkgConfigDirectCall(pkg, repo), PkgConfigDirectCall(pkg, bare))
  BY SilencedItself DEF PkgConfigDirectCall, Which, Calling
<1>14. Silenced(SandboxFunctions(pkg, repo), SandboxFunctions(pkg, bare))
  BY SilencedItself, SilencedBoth DEF SandboxFunctions, Which, Calling
<1>15. Silenced(UseConditionalCode(pkg, repo), UseConditionalCode(pkg, bare))
  BY SilencedItself, SilencedBoth DEF UseConditionalCode, Which, Calling
<1>16. Silenced(EAPIBannedCommands(pkg, repo), EAPIBannedCommands(pkg, bare))
  BY SilencedItself, SilencedBoth DEF EAPIBannedCommands, Which
<1>17. Silenced(WerrorCompilerFlag(pkg, repo), WerrorCompilerFlag(pkg, bare))
  BY SilencedItself DEF WerrorCompilerFlag, Which
<1>18. Silenced(GLEP81UserGroup(pkg, repo), GLEP81UserGroup(pkg, bare))
  BY ReportSilenced DEF GLEP81UserGroup, Which, Calling
<1>19. Silenced(ConditionalInherit(pkg, repo), ConditionalInherit(pkg, bare))
  BY SilencedItself DEF ConditionalInherit, Which
<1>20. Silenced(CodingStyle(pkg, repo), CodingStyle(pkg, bare))
  BY ReportSilenced DEF CodingStyle, Which, Calling
<1>21. Silenced(DVariables(pkg, repo), DVariables(pkg, bare))
  BY ReportSilenced DEF DVariables, Which, Referring
<1>22. Silenced(EAPIBannedVariables(pkg, repo), EAPIBannedVariables(pkg, bare))
  BY SilencedItself DEF EAPIBannedVariables, Which, Assigning, Referring
<1>23. Silenced(RedefinedVariables(pkg, repo), RedefinedVariables(pkg, bare))
  BY SilencedItself DEF RedefinedVariables, Which, Assigning
<1>24. Silenced(RedundantS(pkg, repo), RedundantS(pkg, bare))
  BY SilencedItself DEF RedundantS, Which, Assigning
<1>25. Silenced(RespectVariables(pkg, repo), RespectVariables(pkg, bare))
  BY SilencedItself DEF RespectVariables, Which, Assigning
<1>26. Silenced(HomepageVariables(pkg, repo), HomepageVariables(pkg, bare))
  BY ReportSilenced DEF HomepageVariables, Which, Assigning
<1>27. Silenced(LicenseVariables(pkg, repo), LicenseVariables(pkg, bare))
  BY ReportSilenced DEF LicenseVariables, Which, Assigning
<1>28. Silenced(SrcUriHomepage(pkg, repo), SrcUriHomepage(pkg, bare))
  BY ReportSilenced DEF SrcUriHomepage, Which, Assigning
<1>29. Silenced(KeywordsSingleLine(pkg, repo), KeywordsSingleLine(pkg, bare))
  BY ReportSilenced DEF KeywordsSingleLine, Which
<1>30. Silenced(CharacterSet(pkg, repo), CharacterSet(pkg, bare))
  BY ReportSilenced DEF CharacterSet, Which, Traits
<1>31. Silenced(EbuildHeader(pkg, repo), EbuildHeader(pkg, bare))
  BY ReportSilenced DEF EbuildHeader, Which, Traits
<1>32. Silenced(IndentingWhitespace(pkg, repo), IndentingWhitespace(pkg, bare))
  BY ReportSilenced DEF IndentingWhitespace, Which, Traits
<1>33. Silenced(SubshellFunction(pkg, repo), SubshellFunction(pkg, bare))
  BY SilencedItself DEF SubshellFunction, Which, Traits
<1>34. \A x \in rules(repo) : \E y \in rules(bare) : Silenced(x, y)
  BY <1>1, <1>2, <1>3, <1>4, <1>5, <1>6, <1>7, <1>8, <1>9, <1>10, <1>11, <1>12, <1>13,
     <1>14, <1>15, <1>16, <1>17, <1>18, <1>19, <1>20, <1>21, <1>22, <1>23, <1>24, <1>25,
     <1>26, <1>27, <1>28, <1>29, <1>30, <1>31, <1>32, <1>33
<1>35. \A r : ShellRules(pkg, r) = UNION rules(r)
  BY DEF ShellRules
<1> HIDE DEF rules
<1>36. Silenced(UNION rules(repo), UNION rules(bare))
  BY <1>34, SilencedAll
<1> QED
  BY <1>35, <1>36

\* The rules that read its variables, some of which ask the repository for other things.
LEMMA VersionRulesSilenced ==
    ASSUME NEW repo, NEW bare, SilencesMore(repo, bare), NEW pkg
    PROVE  Silenced(VersionRules(pkg, repo), VersionRules(pkg, bare))
<1> DEFINE rules(r) == {
             MissingDescription(pkg, r), MissingHomepage(pkg, r), MeaningfulHomepage(pkg, r),
             MissingKeyword(pkg, r), MissingSlot(pkg, r), InvalidSlot(pkg, r),
             InvalidVirtual(pkg, r), LicenseRule(pkg, r), LicenseSanity(pkg, r),
             EAPIDeprecated(pkg, r), NetworkSandbox(pkg, r), RestrictTest(pkg, r),
             LayoutConfRules(pkg, r), IUSEDocumented(pkg, r), DynamicSlots(pkg, r),
             KeywordIUSE(pkg, r), UseExpandUnsupported(pkg, r), UseUnderscores(pkg, r),
             UseGui(pkg, r), VersionedUse(pkg, r), DependencyNoRevision(pkg, r),
             DependencyPitfalls(pkg, r), EAPIEmptyGroupings(pkg, r),
             UseControlledOptionalRdepend(pkg, r), PythonCompat(pkg, r),
             PythonSingleR1UseDep(pkg, r)}
<1>1. Silenced(MissingDescription(pkg, repo), MissingDescription(pkg, bare))
  BY SilencedItself DEF MissingDescription, Which
<1>2. Silenced(MissingHomepage(pkg, repo), MissingHomepage(pkg, bare))
  BY SilencedItself DEF MissingHomepage, Which
<1>3. Silenced(MeaningfulHomepage(pkg, repo), MeaningfulHomepage(pkg, bare))
  BY ReportSilenced DEF MeaningfulHomepage, Which
<1>4. Silenced(MissingKeyword(pkg, repo), MissingKeyword(pkg, bare))
  BY SilencedItself DEF MissingKeyword, Which
<1>5. Silenced(MissingSlot(pkg, repo), MissingSlot(pkg, bare))
  BY ReportSilenced DEF MissingSlot, Which
<1>6. Silenced(InvalidSlot(pkg, repo), InvalidSlot(pkg, bare))
  BY SilencedItself DEF InvalidSlot, Which
<1>7. Silenced(InvalidVirtual(pkg, repo), InvalidVirtual(pkg, bare))
  BY SilencedItself DEF InvalidVirtual, Which
<1>8. Silenced(LicenseRule(pkg, repo), LicenseRule(pkg, bare))
  <2>1. CASE pkg.category = "virtual"
    BY <2>1, SilencedItself DEF LicenseRule
  <2>2. CASE pkg.category # "virtual"
    BY <2>2, ReportSilenced DEF LicenseRule, Which
  <2> QED
    BY <2>1, <2>2
<1>9. Silenced(LicenseSanity(pkg, repo), LicenseSanity(pkg, bare))
  BY ReportSilenced DEF LicenseSanity, Which
<1>10. Silenced(EAPIDeprecated(pkg, repo), EAPIDeprecated(pkg, bare))
  <2> DEFINE Old == Which(Ebuilds(pkg), LAMBDA e : e.numeric /\ e.eapi <= 4)
             Fading == Which(Ebuilds(pkg), LAMBDA e : e.numeric /\ e.eapi \in {5, 6})
  <2>1. \A r : EAPIDeprecated(pkg, r)
            = Unless(r, "PG1001", Result("EAPIDeprecated", "Error", Old))
              \cup Report(r, "EAPIDeprecated", "PG1001", "Warning", Fading)
    BY DEF EAPIDeprecated
  <2> HIDE DEF Old, Fading
  <2> QED
    BY <2>1, ReportSilenced, UnlessSilenced, SilencedBoth
<1>11. Silenced(NetworkSandbox(pkg, repo), NetworkSandbox(pkg, bare))
  BY SilencedItself DEF NetworkSandbox, Which
<1>12. Silenced(RestrictTest(pkg, repo), RestrictTest(pkg, bare))
  BY ReportSilenced DEF RestrictTest, Which
<1>13. Silenced(LayoutConfRules(pkg, repo), LayoutConfRules(pkg, bare))
  <2> DEFINE Rule(layout) ==
          LET words(e) == {r.token : r \in e.restrict} \cup (UNION {r.under : r \in e.restrict})
                          \cup (IF \E r \in e.restrict : r.under # {} THEN {"(", ")"} ELSE {})
              Outside(tokens, allowed) == allowed # {} /\ ~(tokens \subseteq allowed)
              Warned(e) == \/ e.eapi \in layout.eapisDeprecated
                           \/ Outside(e.properties, layout.propertiesAllowed)
                           \/ Outside(words(e), layout.restrictAllowed)
          IN  IF ~layout.exists THEN {}
              ELSE Result("LayoutConfRules", "Error",
                          {e.version : e \in {x \in Ebuilds(pkg) : x.eapi \in layout.eapisBanned}})
                   \cup Result("LayoutConfRules", "Warning",
                               {e.version : e \in {x \in Ebuilds(pkg) : Warned(x)}})
  <2>1. \A r : LayoutConfRules(pkg, r) = Rule(r.layout)
    BY Zenon DEF LayoutConfRules, Which
  <2>2. bare.layout = repo.layout
    BY SameFields
  <2> HIDE DEF Rule
  <2> QED
    BY <2>1, <2>2, SilencedItself
<1>14. Silenced(IUSEDocumented(pkg, repo), IUSEDocumented(pkg, bare))
  BY ReportSilenced DEF IUSEDocumented, Which
<1>15. Silenced(DynamicSlots(pkg, repo), DynamicSlots(pkg, bare))
  BY ReportSilenced DEF DynamicSlots, Which
<1>16. Silenced(KeywordIUSE(pkg, repo), KeywordIUSE(pkg, bare))
  BY SilencedItself, SameFields DEF KeywordIUSE, Which
<1>17. Silenced(UseExpandUnsupported(pkg, repo), UseExpandUnsupported(pkg, bare))
  <2> DEFINE Unknown(r, flag) == LET x == Expansions(flag, r)
                                 IN  x # <<>> /\ x[1].value \notin r.useExpand[x[1].prefix]
  <2>1. \A r : UseExpandUnsupported(pkg, r)
            = Result("UseExpandUnsupported", "Error",
                  {e.version : e \in {x \in Ebuilds(pkg) : \E flag \in x.iuse : Unknown(r, flag)}})
    BY DEF UseExpandUnsupported, Which
  <2>2. \A flag : Unknown(bare, flag) <=> Unknown(repo, flag)
    BY SameExpansions, SameFields
  <2> HIDE DEF Unknown
  <2> QED
    BY <2>1, <2>2, SilencedItself
<1>18. Silenced(UseUnderscores(pkg, repo), UseUnderscores(pkg, bare))
  <2> DEFINE Unexpanded(r) == {e.version : e \in {x \in Ebuilds(pkg) :
                                  \E flag \in x.iuse \cap DOMAIN SplitsOf : Expansions(flag, r) = <<>>}}
  <2>1. \A r : UseUnderscores(pkg, r) = Report(r, "UseUnderscores", "PG0803", "Warning", Unexpanded(r))
    BY DEF UseUnderscores, Which
  <2>2. Unexpanded(bare) = Unexpanded(repo)
    BY SameExpansions
  <2> HIDE DEF Unexpanded
  <2> QED
    BY <2>1, <2>2, ReportSilenced
<1>19. Silenced(UseGui(pkg, repo), UseGui(pkg, bare))
  BY ReportSilenced DEF UseGui, Which
<1>20. Silenced(VersionedUse(pkg, repo), VersionedUse(pkg, bare))
  BY ReportSilenced DEF VersionedUse, Which
<1>21. Silenced(DependencyNoRevision(pkg, repo), DependencyNoRevision(pkg, bare))
  BY ReportSilenced DEF DependencyNoRevision, Which
<1>22. Silenced(DependencyPitfalls(pkg, repo), DependencyPitfalls(pkg, bare))
  BY SilencedItself DEF DependencyPitfalls, Which
<1>23. Silenced(EAPIEmptyGroupings(pkg, repo), EAPIEmptyGroupings(pkg, bare))
  BY SilencedItself DEF EAPIEmptyGroupings, Which
<1>24. Silenced(UseControlledOptionalRdepend(pkg, repo), UseControlledOptionalRdepend(pkg, bare))
  BY ReportSilenced DEF UseControlledOptionalRdepend, Which
<1>25. Silenced(PythonCompat(pkg, repo), PythonCompat(pkg, bare))
  BY ReportSilenced, SilencedBoth DEF PythonCompat, Which
<1>26. Silenced(PythonSingleR1UseDep(pkg, repo), PythonSingleR1UseDep(pkg, bare))
  BY ReportSilenced DEF PythonSingleR1UseDep, Which
<1>27. \A x \in rules(repo) : \E y \in rules(bare) : Silenced(x, y)
  BY <1>1, <1>2, <1>3, <1>4, <1>5, <1>6, <1>7, <1>8, <1>9, <1>10, <1>11, <1>12, <1>13,
     <1>14, <1>15, <1>16, <1>17, <1>18, <1>19, <1>20, <1>21, <1>22, <1>23, <1>24, <1>25,
     <1>26
<1>28. \A r : VersionRules(pkg, r) = UNION rules(r)
  BY DEF VersionRules
<1> HIDE DEF rules
<1>29. Silenced(UNION rules(repo), UNION rules(bare))
  BY <1>27, SilencedAll
<1> QED
  BY <1>28, <1>29

\* The rules that compare the ebuilds of a package.
LEMMA WholePackageRulesSilenced ==
    ASSUME NEW repo, NEW bare, SilencesMore(repo, bare), NEW pkg
    PROVE  Silenced(WholePackageRules(pkg, repo), WholePackageRules(pkg, bare))
<1> DEFINE rules(r) == {
             DroppedKeywords(pkg, r), StabilizeNewVersions(pkg, r), UnstableOnly(pkg, r),
             CategorySanity(pkg, r), RepoNameMissing(pkg, r), MissingManifest(pkg, r),
             OrphanedManifest(pkg, r), TreeLayoutFiles(pkg, r)}
<1>1. Silenced(DroppedKeywords(pkg, repo), DroppedKeywords(pkg, bare))
  BY SilencedItself DEF DroppedKeywords
<1>2. Silenced(StabilizeNewVersions(pkg, repo), StabilizeNewVersions(pkg, bare))
  BY SilencedItself DEF StabilizeNewVersions
<1>3. Silenced(UnstableOnly(pkg, repo), UnstableOnly(pkg, bare))
  BY SilencedItself DEF UnstableOnly
<1>4. Silenced(CategorySanity(pkg, repo), CategorySanity(pkg, bare))
  <2> DEFINE Severity(categories, layout) ==
                 LET inMain == MainCategories = {} \/ pkg.category \in MainCategories
                 IN  CASE categories = {} \/ pkg.category \in categories -> IF inMain THEN "" ELSE "Notice"
                       [] "gentoo" \in layout.masters /\ pkg.category \in MainCategories -> ""
                       [] inMain -> "Warning"
                       [] OTHER -> "Error"
  <2>1. \A r : CategorySanity(pkg, r)
            = LET severity == Severity(r.categories, r.layout)
              IN  IF severity = "" THEN {} ELSE Result("CategorySanity", severity, {WholePackage})
    BY Zenon DEF CategorySanity
  <2>2. bare.categories = repo.categories /\ bare.layout = repo.layout
    BY SameFields
  <2> HIDE DEF Severity
  <2> QED
    BY <2>1, <2>2, SilencedItself
<1>5. Silenced(RepoNameMissing(pkg, repo), RepoNameMissing(pkg, bare))
  <2> DEFINE Rule(layout, repoName) ==
          IF (layout.exists /\ layout.repoName # "") \/ repoName # "" THEN {}
          ELSE Result("RepoNameMissing", "Error", {WholePackage})
  <2>1. \A r : RepoNameMissing(pkg, r) = Rule(r.layout, r.repoName)
    BY Zenon DEF RepoNameMissing
  <2>2. bare.layout = repo.layout /\ bare.repoName = repo.repoName
    BY SameFields
  <2> HIDE DEF Rule
  <2> QED
    BY <2>1, <2>2, SilencedItself
<1>6. Silenced(MissingManifest(pkg, repo), MissingManifest(pkg, bare))
  BY SilencedItself DEF MissingManifest, Which
<1>7. Silenced(OrphanedManifest(pkg, repo), OrphanedManifest(pkg, bare))
  BY SilencedItself DEF OrphanedManifest
<1>8. Silenced(TreeLayoutFiles(pkg, repo), TreeLayoutFiles(pkg, bare))
  BY SilencedItself DEF TreeLayoutFiles
<1>9. \A x \in rules(repo) : \E y \in rules(bare) : Silenced(x, y)
  BY <1>1, <1>2, <1>3, <1>4, <1>5, <1>6, <1>7, <1>8
<1>10. \A r : WholePackageRules(pkg, r) = UNION rules(r)
  BY DEF WholePackageRules
<1> HIDE DEF rules
<1>11. Silenced(UNION rules(repo), UNION rules(bare))
  BY <1>9, SilencedAll
<1> QED
  BY <1>10, <1>11

\* The rules about metadata.xml, the Manifest and the md5-cache.
LEMMA MetadataRulesSilenced ==
    ASSUME NEW repo, NEW bare, SilencesMore(repo, bare), NEW pkg
    PROVE  Silenced(MetadataRules(pkg, repo), MetadataRules(pkg, bare))
<1> DEFINE rules(r) == {
             MetadataMissing(pkg, r), MaintainerMissing(pkg, r), MaintainerNeeded(pkg, r),
             MaintainerType(pkg, r), ProxiedMaintainer(pkg, r), RemoteIDType(pkg, r),
             UpstreamMaintainer(pkg, r), ManifestChecks(pkg, r), MD5CacheMissing(pkg, r),
             MD5CacheInvalid(pkg, r)}
<1>1. Silenced(MetadataMissing(pkg, repo), MetadataMissing(pkg, bare))
  BY ReportSilenced DEF MetadataMissing, OfPackage
<1>2. Silenced(MaintainerMissing(pkg, repo), MaintainerMissing(pkg, bare))
  BY ReportSilenced DEF MaintainerMissing, OfPackage
<1>3. Silenced(MaintainerNeeded(pkg, repo), MaintainerNeeded(pkg, bare))
  BY ReportSilenced DEF MaintainerNeeded, OfPackage
<1>4. Silenced(MaintainerType(pkg, repo), MaintainerType(pkg, bare))
  BY ReportSilenced DEF MaintainerType, OfPackage
<1>5. Silenced(ProxiedMaintainer(pkg, repo), ProxiedMaintainer(pkg, bare))
  BY ReportSilenced DEF ProxiedMaintainer, OfPackage
<1>6. Silenced(RemoteIDType(pkg, repo), RemoteIDType(pkg, bare))
  BY SilencedItself DEF RemoteIDType, OfPackage
<1>7. Silenced(UpstreamMaintainer(pkg, repo), UpstreamMaintainer(pkg, bare))
  BY ReportSilenced DEF UpstreamMaintainer, OfPackage
<1>8. Silenced(ManifestChecks(pkg, repo), ManifestChecks(pkg, bare))
  <2>1. bare.layout = repo.layout
    BY SameFields
  <2>2. ManifestChecks(pkg, bare) = ManifestChecks(pkg, repo)
    BY <2>1 DEF ManifestChecks
  <2> QED
    BY <2>2, SilencedItself
<1>9. Silenced(MD5CacheMissing(pkg, repo), MD5CacheMissing(pkg, bare))
  <2> DEFINE Missing(cache) == {e.version : e \in {x \in Ebuilds(pkg) :
                                   CacheKey(pkg, x) \notin DOMAIN cache.entries}}
  <2>1. \A r : "Md5CacheMissing" \notin DOMAIN ParseQAPolicy(r)
            => MD5CacheMissing(pkg, r)
                   = IF ~r.md5Cache.exists THEN {}
                     ELSE Report(r, "Md5CacheMissing", "Md5CacheMissing", "Warning", Missing(r.md5Cache))
    BY DEF MD5CacheMissing, Which
  <2>2. bare.md5Cache = repo.md5Cache
    BY SameFields
  <2> HIDE DEF Missing
  <2> QED
    BY <2>1, <2>2, ReportSilenced, SilencedItself DEF SilencesMore
<1>10. Silenced(MD5CacheInvalid(pkg, repo), MD5CacheInvalid(pkg, bare))
  <2> DEFINE Entry(r, e) == r.md5Cache.entries[CacheKey(pkg, e)]
             Stale(r, e) == \E x \in r.eclasses : x.name \in DOMAIN Entry(r, e).eclasses
                                                  /\ Entry(r, e).eclasses[x.name] # x.digest
             Bad(r, e) == /\ CacheKey(pkg, e) \in DOMAIN r.md5Cache.entries
                          /\ Entry(r, e).malformed \/ Entry(r, e).md5 # e.digest \/ Stale(r, e)
             Found(r) == {e.version : e \in {x \in Ebuilds(pkg) : Bad(r, x)}}
  <2>1. \A r : MD5CacheInvalid(pkg, r)
            = Report(r, "Md5CacheInvalid", "Md5CacheInvalid", "Warning", Found(r))
    BY DEF MD5CacheInvalid, Which
  <2>2. \A e : Bad(bare, e) <=> Bad(repo, e)
    BY SameFields
  <2> HIDE DEF Bad
  <2>3. Found(bare) = Found(repo)
    BY <2>2
  <2> HIDE DEF Found
  <2> QED
    BY <2>1, <2>3, ReportSilenced
<1>11. \A x \in rules(repo) : \E y \in rules(bare) : Silenced(x, y)
  BY <1>1, <1>2, <1>3, <1>4, <1>5, <1>6, <1>7, <1>8, <1>9, <1>10
<1>12. \A r : MetadataRules(pkg, r) = UNION rules(r)
  BY DEF MetadataRules
<1> HIDE DEF rules
<1>13. Silenced(UNION rules(repo), UNION rules(bare))
  BY <1>11, SilencedAll
<1> QED
  BY <1>12, <1>13

\* The rules about the repository as a whole.
LEMMA RepoRulesSilenced ==
    ASSUME NEW repo, NEW bare, SilencesMore(repo, bare), NEW pkgs
    PROVE  Silenced(RepoRules(pkgs, repo), RepoRules(pkgs, bare))
<1> DEFINE rules(r) == {
             EclassDeprecated(pkgs, r), LicenseExists(pkgs, r), LayoutConfRepo(pkgs, r),
             ProjectsXML(pkgs, r), RepoLayout(pkgs, r), Glep84Format(pkgs, r)}
<1>1. Silenced(EclassDeprecated(pkgs, repo), EclassDeprecated(pkgs, bare))
  <2> DEFINE deprecated(r) == {x.name : x \in {y \in r.eclasses : y.deprecated}}
                              \cup (UNION {MasterTrees[master].deprecated : master \in Masters(r)})
             Heirs(names, p) == {e.version : e \in {x \in Ebuilds(p) : x.inherited \cap names # {}}}
             Found(names) == UNION {Heirs(names, p) : p \in pkgs}
  <2>1. \A r : EclassDeprecated(pkgs, r)
            = Report(r, "EclassDeprecated", "PG1003", "Warning", Found(deprecated(r)))
    BY DEF EclassDeprecated, Which
  <2>2. deprecated(bare) = deprecated(repo)
    BY SameMasters, SameFields
  <2> HIDE DEF deprecated, Found
  <2> QED
    BY <2>1, <2>2, ReportSilenced
<1>2. Silenced(LicenseExists(pkgs, repo), LicenseExists(pkgs, bare))
  <2> DEFINE valid(r) == r.licenses \cup (UNION {MasterTrees[master].licenses : master \in Masters(r)})
             Unknown(names, p) == {e.version : e \in {x \in Ebuilds(p) : ~(x.license \subseteq names)}}
             Found(names) == UNION {Unknown(names, p) : p \in pkgs}
  <2>1. \A r : LicenseExists(pkgs, r)
            = Report(r, "LicenseExists", "PG0704", "Error", Found(valid(r)))
    BY DEF LicenseExists, Which
  <2>2. valid(bare) = valid(repo)
    BY SameMasters, SameFields
  <2> HIDE DEF valid, Found
  <2> QED
    BY <2>1, <2>2, ReportSilenced
<1>3. Silenced(LayoutConfRepo(pkgs, repo), LayoutConfRepo(pkgs, bare))
  BY SilencedItself, SameFields DEF LayoutConfRepo, OfPackage
<1>4. Silenced(ProjectsXML(pkgs, repo), ProjectsXML(pkgs, bare))
  BY SilencedItself, SameFields DEF ProjectsXML, OfPackage
<1>5. Silenced(RepoLayout(pkgs, repo), RepoLayout(pkgs, bare))
  BY SilencedItself, SameFields DEF RepoLayout, OfPackage
<1>6. Silenced(Glep84Format(pkgs, repo), Glep84Format(pkgs, bare))
  BY SilencedItself, SameFields DEF Glep84Format, OfPackage
<1>7. \A x \in rules(repo) : \E y \in rules(bare) : Silenced(x, y)
  BY <1>1, <1>2, <1>3, <1>4, <1>5, <1>6
<1>8. \A r : RepoRules(pkgs, r) = UNION rules(r)
  BY DEF RepoRules
<1> HIDE DEF rules
<1>9. Silenced(UNION rules(repo), UNION rules(bare))
  BY <1>7, SilencedAll
<1> QED
  BY <1>8, <1>9

\* A tag carries the silencing over to what a command prints.
LEMMA TagSilenced ==
    ASSUME NEW subject, NEW found, NEW without, Silenced(found, without)
    PROVE  \A f \in Tag(subject, found) : \E g \in Tag(subject, without) :
               g.subject = f.subject /\ g.rule = f.rule /\ g.version = f.version
<1> SUFFICES ASSUME NEW f \in Tag(subject, found)
             PROVE  \E g \in Tag(subject, without) :
                        g.subject = f.subject /\ g.rule = f.rule /\ g.version = f.version
  OBVIOUS
<1>1. PICK x \in found : f.subject = subject /\ f.rule = x.rule /\ f.version = x.version
  BY DEF Tag
<1>2. PICK y \in without : y.rule = x.rule /\ y.version = x.version
  BY DEF Silenced
<1> DEFINE g == [subject |-> subject, rule |-> y.rule, severity |-> y.severity, version |-> y.version]
<1>3. g \in Tag(subject, without)
  BY DEF Tag
<1> QED
  BY <1>1, <1>2, <1>3

\* The rules about a package together, and those about the repository.
LEMMA LintingSilenced ==
    ASSUME NEW repo, NEW bare, SilencesMore(repo, bare)
    PROVE  /\ \A pkg : \A f \in PerformLintingResults(pkg, repo) :
                  \E g \in PerformLintingResults(pkg, bare) :
                      g.subject = f.subject /\ g.rule = f.rule /\ g.version = f.version
           /\ \A pkgs : \A f \in PerformRepoLintingResults(pkgs, repo) :
                  \E g \in PerformRepoLintingResults(pkgs, bare) :
                      g.subject = f.subject /\ g.rule = f.rule /\ g.version = f.version
<1> DEFINE rules(pkg, r) == {ShellRules(pkg, r), VersionRules(pkg, r), WholePackageRules(pkg, r), MetadataRules(pkg, r)}
<1>1. ASSUME NEW pkg PROVE Silenced(UNION rules(pkg, repo), UNION rules(pkg, bare))
  <2>1. \A x \in rules(pkg, repo) : \E y \in rules(pkg, bare) : Silenced(x, y)
    BY ShellRulesSilenced, VersionRulesSilenced, WholePackageRulesSilenced, MetadataRulesSilenced
  <2> HIDE DEF rules
  <2> QED
    BY <2>1, SilencedAll
<1>2. \A pkg, r : PerformLintingResults(pkg, r) = Tag(Qualified(pkg), UNION rules(pkg, r))
  BY DEF PerformLintingResults
<1> HIDE DEF rules
<1>3. \A pkgs : Silenced(RepoRules(pkgs, repo), RepoRules(pkgs, bare))
  BY RepoRulesSilenced
<1>4. \A pkg : \A f \in PerformLintingResults(pkg, repo) :
          \E g \in PerformLintingResults(pkg, bare) :
              g.subject = f.subject /\ g.rule = f.rule /\ g.version = f.version
  <2> SUFFICES ASSUME NEW pkg
               PROVE  \A f \in PerformLintingResults(pkg, repo) :
                          \E g \in PerformLintingResults(pkg, bare) :
                              g.subject = f.subject /\ g.rule = f.rule /\ g.version = f.version
    OBVIOUS
  <2>1. Silenced(UNION rules(pkg, repo), UNION rules(pkg, bare))
    BY <1>1
  <2> DEFINE found == UNION rules(pkg, repo)
             without == UNION rules(pkg, bare)
  <2>2. /\ PerformLintingResults(pkg, repo) = Tag(Qualified(pkg), found)
        /\ PerformLintingResults(pkg, bare) = Tag(Qualified(pkg), without)
    BY <1>2
  <2> HIDE DEF found, without
  <2> QED
    BY <2>1, <2>2, TagSilenced DEF found, without
<1>5. \A pkgs : \A f \in PerformRepoLintingResults(pkgs, repo) :
          \E g \in PerformRepoLintingResults(pkgs, bare) :
              g.subject = f.subject /\ g.rule = f.rule /\ g.version = f.version
  BY <1>3, TagSilenced DEF PerformRepoLintingResults
<1> QED
  BY <1>4, <1>5

\* A repository has all the fields that the rules ask for.
IsRepo(repo) ==
    /\ repo = [f \in DOMAIN repo |-> repo[f]]
    /\ RepoFields \cup {"eclasses"} \subseteq DOMAIN repo

\* The repository without its policy.
Bare(repo) == [repo EXCEPT !.qaPolicy = <<>>]

\* A policy silences more than none, and one that ignores nothing no more than none.
LEMMA BareRepo ==
    ASSUME NEW repo, IsRepo(repo), DOMAIN repo.qaPolicy \cap OwnNames = {}
    PROVE  /\ SilencesMore(repo, Bare(repo))
           /\ (\A policy \in DOMAIN repo.qaPolicy : repo.qaPolicy[policy] # "ignore")
                 => SilencesMore(Bare(repo), repo)
<1>1. /\ Bare(repo).categories = repo.categories /\ Bare(repo).layout = repo.layout
      /\ Bare(repo).repoName = repo.repoName /\ Bare(repo).arches = repo.arches
      /\ Bare(repo).useExpand = repo.useExpand /\ Bare(repo).licenses = repo.licenses
      /\ Bare(repo).projects = repo.projects /\ Bare(repo).root = repo.root
      /\ Bare(repo).g2ignore = repo.g2ignore /\ Bare(repo).layoutLint = repo.layoutLint
      /\ Bare(repo).mask = repo.mask /\ Bare(repo).news = repo.news
      /\ Bare(repo).md5Cache = repo.md5Cache /\ Bare(repo).eclasses = repo.eclasses
      /\ Bare(repo).qaPolicy = <<>>
  BY DEF IsRepo, RepoFields, Bare
<1>2. DOMAIN ParseQAPolicy(Bare(repo)) = {}
  BY <1>1 DEF ParseQAPolicy
<1>3. "Md5CacheMissing" \notin DOMAIN ParseQAPolicy(repo) \cup DOMAIN ParseQAPolicy(Bare(repo))
  <2>1. "Md5CacheMissing" \notin DOMAIN repo.qaPolicy
    BY DEF OwnNames
  <2> QED
    BY <1>2, <2>1 DEF ParseQAPolicy
<1>4. \A policy : ~Ignored(Bare(repo), policy)
  BY <1>2 DEF Ignored
<1>5. (\A policy \in DOMAIN repo.qaPolicy : repo.qaPolicy[policy] # "ignore")
          => \A policy : ~Ignored(repo, policy)
  BY DEF Ignored, ParseQAPolicy
<1>6. SilencesMore(repo, Bare(repo))
  BY <1>1, <1>3, <1>4 DEF SilencesMore
<1>7. ASSUME \A policy \in DOMAIN repo.qaPolicy : repo.qaPolicy[policy] # "ignore"
      PROVE  SilencesMore(Bare(repo), repo)
  BY <1>1, <1>3, <1>5, <1>7 DEF SilencesMore
<1> QED
  BY <1>6, <1>7

\* The repository of a tree has its fields.
LEMMA RepositoryFields == ASSUME NEW t \in Trees PROVE IsRepo(Repository(t))
BY DEF Repository, IsRepo

\* What is found, without its severities.
Findings(pkgs, r) ==
    {[subject |-> f.subject, rule |-> f.rule, version |-> f.version] :
        f \in PerformRepoLintingResults(pkgs, r) \cup UNION {PerformLintingResults(pkg, r) : pkg \in pkgs}}

\* The repository that silences more has no finding that the other has not.
LEMMA FindingsSilenced ==
    ASSUME NEW pkgs, NEW repo, NEW bare, SilencesMore(repo, bare)
    PROVE  Findings(pkgs, repo) \subseteq Findings(pkgs, bare)
<1> DEFINE results(r) == PerformRepoLintingResults(pkgs, r)
                         \cup (UNION {PerformLintingResults(pkg, r) : pkg \in pkgs})
<1>1. \A f \in results(repo) : \E g \in results(bare) :
          g.subject = f.subject /\ g.rule = f.rule /\ g.version = f.version
  BY LintingSilenced
<1>2. \A r : Findings(pkgs, r) = {[subject |-> f.subject, rule |-> f.rule, version |-> f.version] :
                                    f \in results(r)}
  BY DEF Findings
<1> HIDE DEF results
<1> QED
  BY <1>1, <1>2

\* In every tree numbered policies do no more than that.
LEMMA TreesSilenced == TreesInv => PolicyChangesSeverities
<1> SUFFICES ASSUME TreesInv PROVE PolicyChangesSeverities
  OBVIOUS
<1> DEFINE repo == Repository(tree)
           pkgs == parseRepo(tree)
<1>1. IsRepo(repo)
  BY RepositoryFields DEF TreesInv
<1> HIDE DEF repo, pkgs
<1>2. ASSUME DOMAIN repo.qaPolicy \cap OwnNames = {}
      PROVE  /\ Findings(pkgs, repo) \subseteq Findings(pkgs, Bare(repo))
             /\ (\A policy \in DOMAIN repo.qaPolicy : repo.qaPolicy[policy] # "ignore")
                   => Findings(pkgs, Bare(repo)) \subseteq Findings(pkgs, repo)
  BY <1>1, <1>2, BareRepo, FindingsSilenced
<1> QED
  BY <1>2 DEF PolicyChangesSeverities, Findings, Bare, repo, pkgs

\* A numbered policy changes severities and, if it is to ignore, silences rules: it silences none
\* otherwise, and makes none find what it does not find without.
THEOREM PolicyOnlySeverities == Spec => []PolicyChangesSeverities
BY TreesStayTrees, TreesSilenced, PTL
=============================================================================
