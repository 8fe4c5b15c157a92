------------------------- MODULE EbuildDeduplicate -------------------------
(***************************************************************************)
(* DeduplicateEbuilds of ebuild_deduplicate.go.  The targets of "g2 ebuild *)
(* deduplicate" are expanded into a list of paths; the listed files are    *)
(* grouped by package directory, SLOT and grade of their version, and each *)
(* group is reduced, first to the highest version of every digest, then to *)
(* the highest version.  A removal may fail.  When the groups of a package *)
(* are done its Manifest is cleaned, or, when no ebuild is left, the whole *)
(* package directory is removed.  Go's maps are visited in any order.      *)
(*                                                                         *)
(* A file is abstracted to its package, group (SLOT and grade), version    *)
(* and digest.  Grouping depends only on what the files say, so the groups *)
(* are functions of the constants.                                         *)
(***************************************************************************)
EXTENDS Naturals, Sequences, FiniteSets

CONSTANTS
    Files,      \* the ebuilds of the tree
    Pkg,        \* the package directory of each
    Group,      \* its SLOT and grade
    Version,    \* the place of its version in the order of CompareVersions
    Digest,     \* its digest without the "# Generated via:" lines
    Listings    \* the lists of paths that the targets may expand into

ASSUME DeduplicateAssumption ==
    /\ IsFiniteSet(Files)
    /\ Version \in [Files -> Nat]
    /\ Listings \subseteq Seq(Files)

VARIABLES
    listing,      \* ebuildFiles
    present,      \* the ebuilds on the disk
    todo,         \* the groups that are still to be visited: <<package, group>>
    current,      \* the package whose groups are being visited, {} or singleton
    plan,         \* the items of the current group that are to be removed
    pkgDirs,      \* the package directories on the disk
    removedFiles, \* those that have been removed, as a set
    manifests     \* the ebuilds whose distfiles each Manifest still lists

deduplicateVars == <<listing, present, todo, current, plan, pkgDirs, removedFiles, manifests>>

Pkgs == {Pkg[f] : f \in Files}
KeyOf(f) == <<Pkg[f], Group[f]>>
Keys == {KeyOf(f) : f \in Files}

\* The items of a group are places of the listing, not paths: a file that is
\* listed twice is two items.
Items(key) == {i \in DOMAIN listing : KeyOf(listing[i]) = key}

Highest(S) ==
    {i \in S : \A j \in S : Version[listing[j]] <= Version[listing[i]]}

DigestGroups(key) ==
    {{i \in Items(key) : Digest[listing[i]] = d} : d \in {Digest[listing[i]] : i \in Items(key)}}

TypeOK ==
    /\ listing \in Listings
    /\ present \subseteq Files /\ removedFiles \subseteq Files
    /\ todo \subseteq Keys
    /\ current \subseteq Pkgs /\ Cardinality(current) <= 1
    /\ plan \subseteq DOMAIN listing
    /\ pkgDirs \subseteq Pkgs
    /\ manifests \in [Pkgs -> SUBSET Files]

DeduplicateInit ==
    /\ listing \in Listings
    /\ present = Files
    /\ todo = {KeyOf(listing[i]) : i \in DOMAIN listing}
    /\ current = {} /\ plan = {}
    /\ pkgDirs = Pkgs
    /\ removedFiles = {}
    /\ manifests = [p \in Pkgs |-> {f \in Files : Pkg[f] = p}]

-----------------------------------------------------------------------------
\* Bug variant: the versions are sorted as strings, so any may be kept.
LosersUnordered(key) == {Items(key) \ {survivor} : survivor \in Items(key)}

\* What a group loses: one item of the highest version is kept of every
\* digest, and of those one of the highest version.  sort.Slice does not say
\* which one when versions are equal.
Losers(key) ==
    {Items(key) \ {survivor} : survivor \in
        UNION {Highest(kept) : kept \in
            {k \in SUBSET Items(key) :
                \A dg \in DigestGroups(key) : \E i \in Highest(dg) : k \cap dg = {i}}}}

EnterPackage(p) ==
    /\ current = {} /\ \E key \in todo : key[1] = p
    /\ current' = {p}
    /\ UNCHANGED <<listing, present, todo, plan, pkgDirs, removedFiles, manifests>>

VisitGroup(key) ==
    /\ current = {key[1]} /\ plan = {} /\ key \in todo
    /\ todo' = todo \ {key}
    /\ plan' \in Losers(key)
    /\ UNCHANGED <<listing, present, current, pkgDirs, removedFiles, manifests>>

\* os.Remove of one item; it fails when the file is gone already.
RemoveItem(i) ==
    /\ i \in plan
    /\ plan' = plan \ {i}
    /\ \/ /\ listing[i] \in present
          /\ present' = present \ {listing[i]}
          /\ removedFiles' = removedFiles \cup {listing[i]}
       \/ UNCHANGED <<present, removedFiles>>
    /\ UNCHANGED <<listing, todo, current, pkgDirs, manifests>>

PackageDone(p) == current = {p} /\ plan = {} /\ ~\E key \in todo : key[1] = p

\* Bug variants of Cleanup: the directory is removed as soon as one of its
\* ebuilds is; the Manifest forgets every ebuild that was listed.
CleanupHasty(p) ==
    /\ PackageDone(p)
    /\ current' = {}
    /\ IF {f \in removedFiles : Pkg[f] = p} # {}
       THEN pkgDirs' = pkgDirs \ {p} /\ present' = {f \in present : Pkg[f] # p}
       ELSE UNCHANGED <<pkgDirs, present>>
    /\ UNCHANGED <<listing, todo, plan, removedFiles, manifests>>

CleanupForgetful(p) ==
    /\ PackageDone(p)
    /\ current' = {}
    /\ manifests' = [manifests EXCEPT ![p] = @ \ {listing[i] : i \in DOMAIN listing}]
    /\ UNCHANGED <<listing, present, todo, plan, pkgDirs, removedFiles>>

\* A package that lost something has its Manifest cleaned, or is removed.
Cleanup(p) ==
    /\ PackageDone(p)
    /\ current' = {}
    /\ LET left == {f \in present : Pkg[f] = p}
           touched == \E f \in removedFiles : Pkg[f] = p
       IN  /\ manifests' = IF touched THEN [manifests EXCEPT ![p] = @ \cap left] ELSE manifests
           /\ pkgDirs' = IF touched /\ left = {} THEN pkgDirs \ {p} ELSE pkgDirs
    /\ UNCHANGED <<listing, present, todo, plan, removedFiles>>

\* DeduplicateEbuilds returns.
Done == current = {} /\ todo = {} /\ UNCHANGED deduplicateVars

DeduplicateNext ==
    \/ \E p \in Pkgs : EnterPackage(p) \/ Cleanup(p)
    \/ \E key \in Keys : VisitGroup(key)
    \/ \E i \in DOMAIN listing : RemoveItem(i)
    \/ Done

DeduplicateSpec == DeduplicateInit /\ [][DeduplicateNext]_deduplicateVars

-----------------------------------------------------------------------------
Distinct == \A i, j \in DOMAIN listing : listing[i] = listing[j] => i = j
Listed == {listing[i] : i \in DOMAIN listing}
Peers(f) == {g \in Files : KeyOf(g) = KeyOf(f)}

\* "keeps the highest version within each grade": at every moment, also when
\* removals fail or the program is stopped between two of them, a file of
\* the highest listed version of each group is on the disk.
HighestKept ==
    \A f \in Listed :
        \E g \in Peers(f) \cap present : Version[g] >= Version[f]

\* Same, for targets that do not overlap.
HighestKeptIfDistinct == Distinct => HighestKept

\* The command never deletes a package, because each keeps an ebuild.
PackagesSurvive == Distinct => pkgDirs = Pkgs

\* What is left on the disk keeps its distfiles in the Manifest.
ManifestCoversRest == \A f \in present : f \in manifests[Pkg[f]]
=============================================================================
