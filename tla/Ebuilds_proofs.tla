--------------------------- MODULE Ebuilds_proofs ---------------------------
(***************************************************************************)
(* What is proved of the commands on ebuilds.                              *)
(*                                                                         *)
(* The deduplication keeps an ebuild of the highest version of every group *)
(* and with it every package, and the Manifests cover what is left: for    *)
(* any tree and any list of targets that names no file twice, also when    *)
(* removals fail and at every moment between two of them.                  *)
(*                                                                         *)
(* An upsert settles whatever it finds, and no command of EbuildCommands   *)
(* cleans away what an ebuild that stays needs.                            *)
(***************************************************************************)
EXTENDS EbuildDeduplicate, EbuildCommands, FiniteSetTheorems, WellFoundedInduction, TLAPS

-----------------------------------------------------------------------------
(* The deduplication.                                                      *)

\* The types of what the proofs look at.
Types ==
    /\ listing \in Seq(Files)
    /\ present \subseteq Files
    /\ removedFiles \subseteq Listed
    /\ todo \subseteq Keys
    /\ plan \subseteq DOMAIN listing
    /\ pkgDirs \subseteq Pkgs
    /\ manifests \in [Pkgs -> SUBSET Files]

\* The item i is there, will not be removed, and is the highest of its group.
Survives(i, key) ==
    /\ i \notin plan /\ listing[i] \in present
    /\ \A j \in Items(key) : Version[listing[j]] <= Version[listing[i]]

\* A group that is still to be visited is complete.
UnvisitedComplete ==
    \A key \in todo : \A i \in Items(key) : i \notin plan /\ listing[i] \in present

\* Of a group that has been visited, one item of the highest version survives.
VisitedSurvives ==
    \A key \in Keys \ todo : Items(key) # {} => \E i \in Items(key) : Survives(i, key)

\* The inductive invariant.
IInv ==
    /\ Types /\ ManifestCoversRest
    /\ Distinct => UnvisitedComplete /\ VisitedSurvives /\ pkgDirs = Pkgs

-----------------------------------------------------------------------------
\* Each item belongs to the group of its file and to no other.
LEMMA ItemsFacts ==
    ASSUME listing \in Seq(Files)
    PROVE  /\ \A i \in DOMAIN listing : listing[i] \in Files /\ KeyOf(listing[i]) \in Keys
                                        /\ i \in Items(KeyOf(listing[i]))
           /\ \A key : Items(key) \subseteq DOMAIN listing
           /\ \A k1, k2 : \A i : i \in Items(k1) /\ i \in Items(k2) => k1 = k2
           /\ \A key : \A i \in Items(key) : KeyOf(listing[i]) = key
  BY DEF Items, Keys

\* What a group loses is all but one item, of the highest version: the highest
\* of those that are the highest of their digest.
LEMMA LosersLeaveHighest ==
    ASSUME listing \in Seq(Files), NEW key, NEW losers \in Losers(key)
    PROVE  \E survivor \in Items(key) :
              /\ losers = Items(key) \ {survivor}
              /\ \A j \in Items(key) : Version[listing[j]] <= Version[listing[survivor]]
  <1>0. PICK kept \in SUBSET Items(key) :
            /\ \A dg \in DigestGroups(key) : \E i \in Highest(dg) : kept \cap dg = {i}
            /\ \E survivor \in Highest(kept) : losers = Items(key) \ {survivor}
    <2> DEFINE Choices == {k \in SUBSET Items(key) :
                             \A dg \in DigestGroups(key) : \E i \in Highest(dg) : k \cap dg = {i}}
    <2>1. PICK survivor \in UNION {Highest(k) : k \in Choices} : losers = Items(key) \ {survivor}
      BY DEF Losers
    <2>2. PICK k \in Choices : survivor \in Highest(k)
      BY <2>1
    <2> QED
      BY <2>1, <2>2
  <1>1. PICK survivor \in Highest(kept) : losers = Items(key) \ {survivor}
    BY <1>0
  <1>2. survivor \in Items(key) /\ \A i \in kept : Version[listing[i]] <= Version[listing[survivor]]
    BY <1>1 DEF Highest
  <1>3. ASSUME NEW j \in Items(key)
        PROVE  Version[listing[j]] <= Version[listing[survivor]]
    <2> DEFINE dg == {i \in Items(key) : Digest[listing[i]] = Digest[listing[j]]}
    <2>1. dg \in DigestGroups(key) /\ j \in dg
      BY <1>3 DEF DigestGroups
    <2>2. PICK i \in Highest(dg) : kept \cap dg = {i}
      BY <1>0, <2>1
    <2>3. i \in kept /\ Version[listing[j]] <= Version[listing[i]]
      BY <2>1, <2>2 DEF Highest
    <2>4. /\ Version[listing[i]] <= Version[listing[survivor]]
          /\ i \in Items(key)
      BY <1>1, <1>2, <2>3
    <2>5. \A k \in Items(key) : Version[listing[k]] \in Nat
      BY DeduplicateAssumption, ItemsFacts
    <2> QED
      BY <1>2, <1>3, <2>3, <2>4, <2>5
  <1> QED
    BY <1>1, <1>2, <1>3

\* In every group, visited or not, a file of a version that is the highest of
\* those listed is on the disk.
LEMMA GroupSurvives ==
    ASSUME Types, UnvisitedComplete, VisitedSurvives, NEW j \in DOMAIN listing
    PROVE  \E g \in present : KeyOf(g) = KeyOf(listing[j]) /\ Version[g] >= Version[listing[j]]
  <1> DEFINE key == KeyOf(listing[j])
  <1>0. listing[j] \in Files /\ key \in Keys /\ j \in Items(key)
    BY ItemsFacts DEF Types
  <1>1. CASE key \in todo
    <2>1. listing[j] \in present /\ Version[listing[j]] \in Nat
      BY <1>0, <1>1, DeduplicateAssumption DEF UnvisitedComplete
    <2> QED
      BY <2>1
  <1>2. CASE key \notin todo
    <2>1. PICK i \in Items(key) : Survives(i, key)
      BY <1>0, <1>2 DEF VisitedSurvives
    <2>2. /\ listing[i] \in present /\ KeyOf(listing[i]) = key
          /\ Version[listing[j]] <= Version[listing[i]]
          /\ Version[listing[i]] \in Nat /\ Version[listing[j]] \in Nat
      BY <1>0, <2>1, ItemsFacts, DeduplicateAssumption DEF Survives, Types
    <2> QED
      BY <2>2
  <1> QED
    BY <1>1, <1>2

-----------------------------------------------------------------------------
\* The initial states.
LEMMA InitIInv == DeduplicateInit => IInv
  <1> SUFFICES ASSUME DeduplicateInit PROVE IInv
    OBVIOUS
  <1>0. listing \in Seq(Files)
    BY DeduplicateAssumption DEF DeduplicateInit
  <1>1. Types
    BY <1>0 DEF DeduplicateInit, Types, Listed, Keys, Pkgs
  <1>2. ManifestCoversRest
    BY DEF DeduplicateInit, ManifestCoversRest, Pkgs
  <1>3. UnvisitedComplete
    BY <1>0, ItemsFacts DEF DeduplicateInit, UnvisitedComplete
  <1>4. VisitedSurvives
    BY <1>0, ItemsFacts DEF DeduplicateInit, VisitedSurvives
  <1> QED
    BY <1>1, <1>2, <1>3, <1>4 DEF DeduplicateInit, IInv

\* The visit of a group plans the removal of all its items but the survivor.
LEMMA VisitKeeps ==
    ASSUME IInv, NEW key \in Keys, VisitGroup(key)
    PROVE  IInv'
  <1>0. Types /\ ManifestCoversRest
    BY DEF IInv
  <1>1. /\ plan = {} /\ key \in todo /\ todo' = todo \ {key} /\ plan' \in Losers(key)
        /\ UNCHANGED <<listing, present, pkgDirs, removedFiles, manifests>>
    BY DEF VisitGroup
  <1>2. PICK survivor \in Items(key) :
            /\ plan' = Items(key) \ {survivor}
            /\ \A j \in Items(key) : Version[listing[j]] <= Version[listing[survivor]]
    BY <1>0, <1>1, LosersLeaveHighest DEF Types
  <1>3. \A k : Items(k)' = Items(k)
    BY <1>1 DEF Items
  <1>4. Types' /\ ManifestCoversRest'
    BY <1>0, <1>1, <1>2, ItemsFacts DEF Types, ManifestCoversRest, Listed
  <1>5. ASSUME Distinct
        PROVE  UnvisitedComplete' /\ VisitedSurvives' /\ pkgDirs' = Pkgs
    <2>0. UnvisitedComplete /\ VisitedSurvives /\ pkgDirs = Pkgs
      BY <1>5 DEF IInv
    <2>1. \A k \in Keys : k # key => \A i \in Items(k) : i \notin plan'
      BY <1>0, <1>2, ItemsFacts DEF Types
    <2>2. UnvisitedComplete'
      BY <1>0, <1>1, <1>3, <2>0, <2>1 DEF UnvisitedComplete, Types
    <2>3. Survives(survivor, key)'
      BY <1>1, <1>2, <1>3, <2>0 DEF Survives, UnvisitedComplete
    <2>4. VisitedSurvives'
      <3> SUFFICES ASSUME NEW k \in Keys \ todo', Items(k) # {}
                   PROVE  \E i \in Items(k) : Survives(i, k)'
        BY <1>3 DEF VisitedSurvives
      <3>1. CASE k = key
        BY <2>3, <3>1
      <3>2. CASE k # key
        <4>1. PICK i \in Items(k) : Survives(i, k)
          BY <1>1, <2>0, <3>2 DEF VisitedSurvives
        <4> QED
          BY <1>1, <1>3, <2>1, <3>2, <4>1 DEF Survives
      <3> QED
        BY <3>1, <3>2
    <2> QED
      BY <1>1, <2>0, <2>2, <2>4
  <1> QED
    BY <1>1, <1>4, <1>5 DEF IInv, Distinct

\* A removal takes away a planned item's file, which is no other item's.
LEMMA RemoveKeeps ==
    ASSUME IInv, NEW i \in DOMAIN listing, RemoveItem(i)
    PROVE  IInv'
  <1>0. Types /\ ManifestCoversRest
    BY DEF IInv
  <1>1. /\ i \in plan /\ plan' = plan \ {i}
        /\ present \ {listing[i]} \subseteq present' /\ present' \subseteq present
        /\ removedFiles' \subseteq removedFiles \cup {listing[i]}
        /\ UNCHANGED <<listing, todo, pkgDirs, manifests>>
    BY DEF RemoveItem
  <1>2. \A k : Items(k)' = Items(k)
    BY <1>1 DEF Items
  <1>3. Types' /\ ManifestCoversRest'
    BY <1>0, <1>1 DEF Types, ManifestCoversRest, Listed
  <1>4. ASSUME Distinct
        PROVE  UnvisitedComplete' /\ VisitedSurvives' /\ pkgDirs' = Pkgs
    <2>0. UnvisitedComplete /\ VisitedSurvives /\ pkgDirs = Pkgs
      BY <1>4 DEF IInv
    <2>1. \A j \in DOMAIN listing : j \notin plan /\ listing[j] \in present => listing[j] \in present'
      BY <1>1, <1>4 DEF Distinct
    <2>2. UnvisitedComplete'
      BY <1>0, <1>1, <1>2, <2>0, <2>1, ItemsFacts DEF UnvisitedComplete, Types
    <2>3. VisitedSurvives'
      <3> SUFFICES ASSUME NEW k \in Keys \ todo, Items(k) # {}
                   PROVE  \E j \in Items(k) : Survives(j, k)'
        BY <1>1, <1>2 DEF VisitedSurvives
      <3>1. PICK j \in Items(k) : Survives(j, k)
        BY <2>0 DEF VisitedSurvives
      <3>2. Survives(j, k)'
        BY <1>0, <1>1, <1>2, <2>1, <3>1, ItemsFacts DEF Survives, Types
      <3> QED
        BY <3>2
    <2> QED
      BY <1>1, <2>0, <2>2, <2>3
  <1> QED
    BY <1>1, <1>3, <1>4 DEF IInv, Distinct

\* The cleanup of a package keeps the package, since a group of it that has
\* lost a file has kept another.
LEMMA CleanupKeeps ==
    ASSUME IInv, NEW p \in Pkgs, Cleanup(p)
    PROVE  IInv'
  <1>0. Types /\ ManifestCoversRest
    BY DEF IInv
  <1> DEFINE left == {f \in present : Pkg[f] = p}
             touched == \E f \in removedFiles : Pkg[f] = p
  <1>1. /\ manifests' = (IF touched THEN [manifests EXCEPT ![p] = @ \cap left] ELSE manifests)
        /\ pkgDirs' = (IF touched /\ left = {} THEN pkgDirs \ {p} ELSE pkgDirs)
        /\ UNCHANGED <<listing, present, todo, plan, removedFiles>>
    BY DEF Cleanup
  <1>2. \A k : Items(k)' = Items(k)
    BY <1>1 DEF Items
  <1>3. Types'
    BY <1>0, <1>1 DEF Types, Listed
  <1>4. ManifestCoversRest'
    BY <1>0, <1>1 DEF Types, ManifestCoversRest, Pkgs
  <1>5. ASSUME Distinct
        PROVE  UnvisitedComplete' /\ VisitedSurvives' /\ pkgDirs' = Pkgs
    <2>0. UnvisitedComplete /\ VisitedSurvives /\ pkgDirs = Pkgs
      BY <1>5 DEF IInv
    <2>1. UnvisitedComplete' /\ VisitedSurvives'
      BY <1>1, <1>2, <2>0 DEF UnvisitedComplete, VisitedSurvives, Survives
    <2>2. touched => left # {}
      <3> SUFFICES ASSUME NEW f \in removedFiles, Pkg[f] = p PROVE left # {}
        OBVIOUS
      <3>1. PICK j \in DOMAIN listing : listing[j] = f
        BY <1>0 DEF Types, Listed
      <3>2. PICK g \in present : KeyOf(g) = KeyOf(f)
        BY <1>0, <2>0, <3>1, GroupSurvives
      <3>3. Pkg[g] = p
        BY <3>2 DEF KeyOf
      <3> QED
        BY <3>3
    <2> QED
      BY <1>1, <2>0, <2>1, <2>2
  <1> QED
    BY <1>1, <1>3, <1>4, <1>5 DEF IInv, Distinct

\* Every step.
LEMMA NextIInv == IInv /\ [DeduplicateNext]_deduplicateVars => IInv'
  <1> SUFFICES ASSUME IInv, [DeduplicateNext]_deduplicateVars PROVE IInv'
    OBVIOUS
  <1>1. CASE UNCHANGED <<listing, present, todo, plan, pkgDirs, removedFiles, manifests>>
    BY <1>1 DEF IInv, Types, Listed, ManifestCoversRest, Distinct, UnvisitedComplete,
                VisitedSurvives, Survives, Items
  <1>2. ASSUME NEW p \in Pkgs, EnterPackage(p)
        PROVE  IInv'
    BY <1>1, <1>2 DEF EnterPackage
  <1>3. CASE Done \/ UNCHANGED deduplicateVars
    BY <1>1, <1>3 DEF Done, deduplicateVars
  <1> QED
    BY <1>2, <1>3, VisitKeeps, RemoveKeeps, CleanupKeeps DEF DeduplicateNext

-----------------------------------------------------------------------------
\* The invariant, for every instance.
THEOREM SpecIInv == DeduplicateSpec => []IInv
  BY InitIInv, NextIInv, PTL DEF DeduplicateSpec

\* Where no target names a file twice, a file of the highest listed version of
\* each group is on the disk at every moment.
THEOREM HighestStays == DeduplicateSpec => []HighestKeptIfDistinct
  <1>1. IInv => HighestKeptIfDistinct
    <2> SUFFICES ASSUME IInv, Distinct, NEW f \in Listed
                 PROVE  \E g \in Peers(f) \cap present : Version[g] >= Version[f]
      BY DEF HighestKeptIfDistinct, HighestKept
    <2>1. PICK j \in DOMAIN listing : listing[j] = f
      BY DEF Listed
    <2>2. PICK g \in present : KeyOf(g) = KeyOf(f) /\ Version[g] >= Version[f]
      BY <2>1, GroupSurvives DEF IInv
    <2>3. g \in Peers(f)
      BY <2>2 DEF Peers, IInv, Types
    <2> QED
      BY <2>2, <2>3
  <1> QED
    BY <1>1, SpecIInv, PTL

\* Then no package directory is ever removed.
THEOREM PackagesStay == DeduplicateSpec => []PackagesSurvive
  <1>1. IInv => PackagesSurvive
    BY DEF IInv, PackagesSurvive
  <1> QED
    BY <1>1, SpecIInv, PTL

\* What is left on the disk keeps its distfiles in the Manifest, however often
\* a target names it.
THEOREM ManifestCovers == DeduplicateSpec => []ManifestCoversRest
  <1>1. IInv => ManifestCoversRest
    BY DEF IInv
  <1> QED
    BY <1>1, SpecIInv, PTL

-----------------------------------------------------------------------------
(* Orders on finite sets.                                                 *)

\* A finite set has an element that none comes before, in an order.
LEMMA FiniteLeast ==
    ASSUME NEW S, IsFiniteSet(S), S # {}, NEW R,
           \A x \in S : <<x, x>> \notin R,
           \A x, y, z \in S : <<x, y>> \in R /\ <<y, z>> \in R => <<x, z>> \in R
    PROVE  \E x \in S : \A y \in S : <<y, x>> \notin R
  <1> DEFINE Below(x) == {y \in S : <<y, x>> \in R}
             T == {Below(x) : x \in S}
  <1>1. T \subseteq FiniteSubsetsOf(S) /\ T # {}
    <2>1. T \subseteq SUBSET S /\ T # {}
      <3>1. \A x \in S : Below(x) \in SUBSET S
        OBVIOUS
      <3> HIDE DEF Below
      <3>2. PICK x \in S : TRUE
        OBVIOUS
      <3>3. Below(x) \in T
        BY <3>2
      <3> QED
        BY <3>1, <3>3
    <2> HIDE DEF T
    <2> QED
      BY <2>1, FS_FiniteSubsetsOfFinite
  <1>2. PICK t \in T : \A u \in T : ~(<<u, t>> \in StrictSubsetOrdering(S))
    <2> HIDE DEF T
    <2> QED
      BY <1>1, WFMin, FS_StrictSubsetOrderingWellFounded, Zenon
  <1>3. PICK x \in S : t = Below(x)
    BY <1>2
  <1>4. ASSUME NEW y \in S, <<y, x>> \in R PROVE FALSE
    <2>1. Below(y) \subseteq Below(x) /\ Below(y) # Below(x)
      BY <1>4
    <2>2. <<Below(y), Below(x)>> \in StrictSubsetOrdering(S)
      BY <2>1 DEF StrictSubsetOrdering
    <2> QED
      BY <1>2, <1>3, <2>2
  <1> QED
    BY <1>4

\* A set of indices has a least one.
LEMMA LeastIndex ==
    ASSUME NEW n \in Nat, NEW D, D \subseteq 1 .. n, D # {}
    PROVE  \E j \in D : \A k \in D : j <= k
  <1> DEFINE R == {p \in D \X D : p[1] < p[2]}
  <1>1. IsFiniteSet(D)
    <2>1. D \in SUBSET (1 .. n) /\ IsFiniteSet(1 .. n)
      BY FS_Interval
    <2> QED
      BY <2>1, FS_Subset
  <1>2. /\ \A x \in D : <<x, x>> \notin R
        /\ \A x, y, z \in D : <<x, y>> \in R /\ <<y, z>> \in R => <<x, z>> \in R
    OBVIOUS
  <1>3. PICK j \in D : \A k \in D : <<k, j>> \notin R
    <2> HIDE DEF R
    <2> QED
      BY <1>1, <1>2, FiniteLeast
  <1>4. \A k \in D : j <= k
    <2> SUFFICES ASSUME NEW k \in D PROVE ~(k < j)
      OBVIOUS
    <2>1. <<k, j>> \in D \X D /\ <<k, j>>[1] = k /\ <<k, j>>[2] = j
      OBVIOUS
    <2> QED
      BY <1>3, <2>1
  <1> QED
    BY <1>4

-----------------------------------------------------------------------------
(* The texts of versions.                                                  *)

\* What comparing digit by digit comes to.
Precedes(s, t) ==
    \/ Len(s) < Len(t) /\ \A i \in 1 .. Len(s) : s[i] = t[i]
    \/ \E i \in 1 .. Len(s) \cap 1 .. Len(t) : s[i] < t[i] /\ \A k \in 1 .. i - 1 : s[k] = t[k]

\* The indices and the digits of a number.
LEMMA DigitsFacts ==
    ASSUME NEW s \in Digits
    PROVE  /\ DOMAIN s = 1 .. Len(s) /\ Len(s) \in Nat
           /\ \A i \in 1 .. Len(s) : s[i] \in Int
  BY DEF Digits

\* cmpStr finds the first digit that differs, and of two numbers that differ one precedes.
LEMMA ComparedDigits ==
    ASSUME NEW s \in Digits, NEW t \in Digits
    PROVE  /\ cmpStr(s, t) < 0 <=> Precedes(s, t)
           /\ s # t => Precedes(s, t) \/ Precedes(t, s)
  <1> DEFINE Differ == {i \in DOMAIN s \cap DOMAIN t : s[i] # t[i]}
  <1>0. /\ DOMAIN s = 1 .. Len(s) /\ DOMAIN t = 1 .. Len(t) /\ Len(s) \in Nat /\ Len(t) \in Nat
        /\ \A i \in 1 .. Len(s) : s[i] \in Int
        /\ \A i \in 1 .. Len(t) : t[i] \in Int
    BY DigitsFacts
  <1>1. CASE s = t
    BY <1>0, <1>1 DEF cmpStr, Precedes
  <1>2. CASE s # t /\ Differ = {}
    <2>1. cmpStr(s, t) = Sign(Len(s), Len(t))
      BY <1>2 DEF cmpStr
    <2>2. \A i \in 1 .. Len(s) \cap 1 .. Len(t) : s[i] = t[i]
      BY <1>0, <1>2
    <2>3. Len(s) # Len(t)
      <3> SUFFICES ASSUME Len(s) = Len(t) PROVE s = t
        BY <1>2
      <3> QED
        BY <1>0, <2>2 DEF Digits
    <2>4. Precedes(s, t) <=> Len(s) < Len(t)
      <3>1. ~\E i \in 1 .. Len(s) \cap 1 .. Len(t) : s[i] < t[i]
        BY <1>0, <2>2
      <3> QED
        BY <1>0, <2>2, <3>1 DEF Precedes
    <2>5. Precedes(t, s) <=> Len(t) < Len(s)
      <3>1. ~\E i \in 1 .. Len(t) \cap 1 .. Len(s) : t[i] < s[i]
        BY <1>0, <2>2
      <3> QED
        BY <1>0, <2>2, <3>1 DEF Precedes
    <2> QED
      <3>1. CASE Len(s) < Len(t)
        <4>1. cmpStr(s, t) = -1
          BY <2>1, <3>1 DEF Sign
        <4> QED
          BY <2>4, <3>1, <4>1
      <3>2. CASE Len(t) < Len(s)
        <4>1. cmpStr(s, t) = 1
          BY <1>0, <2>1, <3>2 DEF Sign
        <4>2. ~Precedes(s, t)
          BY <1>0, <2>4, <3>2
        <4> QED
          BY <2>5, <3>2, <4>1, <4>2
      <3>3. Len(s) < Len(t) \/ Len(t) < Len(s)
        <4>1. Len(s) \in Nat /\ Len(t) \in Nat
          BY <1>0
        <4>2. \A m, n \in Nat : m # n => m < n \/ n < m
          OBVIOUS
        <4> QED
          BY <2>3, <4>1, <4>2, Zenon
      <3> QED
        BY <3>1, <3>2, <3>3
  <1>3. CASE s # t /\ Differ # {}
    <2> DEFINE i == CHOOSE j \in Differ : \A k \in Differ : j <= k
    <2>1. cmpStr(s, t) = Sign(s[i], t[i])
      BY <1>3 DEF cmpStr
    <2>2. \E j \in Differ : \A k \in Differ : j <= k
      BY <1>0, <1>3, LeastIndex
    <2>3. i \in Differ /\ \A k \in Differ : i <= k
      BY <2>2
    <2> HIDE DEF i
    <2>4. i \in 1 .. Len(s) \cap 1 .. Len(t) /\ s[i] # t[i] /\ s[i] \in Int /\ t[i] \in Int
      BY <1>0, <2>3
    <2>5. \A k \in 1 .. i - 1 : s[k] = t[k]
      <3> SUFFICES ASSUME NEW k \in 1 .. i - 1, s[k] # t[k] PROVE FALSE
        OBVIOUS
      <3>1. k \in Differ
        BY <1>0, <2>4
      <3> QED
        BY <2>3, <2>4, <3>1
    <2> HIDE DEF Differ
    <2>6. CASE s[i] < t[i]
      BY <2>1, <2>4, <2>5, <2>6 DEF Sign, Precedes
    <2>7. CASE t[i] < s[i]
      <3>1. cmpStr(s, t) = 1 /\ Precedes(t, s)
        BY <2>1, <2>4, <2>5, <2>7 DEF Sign, Precedes
      <3>2. ~Precedes(s, t)
        BY <1>0, <2>4, <2>5, <2>7 DEF Precedes
      <3> QED
        BY <3>1, <3>2
    <2> QED
      BY <2>4, <2>6, <2>7
  <1> QED
    BY <1>1, <1>2, <1>3

\* The order of the digits of revisions is one: the first difference of two comparisons decides.
LEMMA PrecedesOrders ==
    ASSUME NEW s \in Digits, NEW t \in Digits, NEW u \in Digits
    PROVE  /\ ~Precedes(s, s)
           /\ Precedes(s, t) /\ Precedes(t, u) => Precedes(s, u)
  <1>0. /\ Len(s) \in Nat /\ Len(t) \in Nat /\ Len(u) \in Nat
        /\ \A i \in 1 .. Len(s) : s[i] \in Int
        /\ \A i \in 1 .. Len(t) : t[i] \in Int
        /\ \A i \in 1 .. Len(u) : u[i] \in Int
    BY DigitsFacts
  <1>1. ~Precedes(s, s)
    BY <1>0 DEF Precedes
  <1>2. ASSUME Precedes(s, t), Precedes(t, u) PROVE Precedes(s, u)
    <2>1. CASE Len(s) < Len(t) /\ \A i \in 1 .. Len(s) : s[i] = t[i]
      <3>1. CASE Len(t) < Len(u) /\ \A i \in 1 .. Len(t) : t[i] = u[i]
        BY <1>0, <2>1, <3>1 DEF Precedes
      <3>2. ASSUME NEW i \in 1 .. Len(t) \cap 1 .. Len(u), t[i] < u[i], \A k \in 1 .. i - 1 : t[k] = u[k]
            PROVE  Precedes(s, u)
        <4>1. CASE i <= Len(s)
          BY <1>0, <2>1, <3>2, <4>1 DEF Precedes
        <4>2. CASE i > Len(s)
          BY <1>0, <2>1, <3>2, <4>2 DEF Precedes
        <4> QED
          BY <1>0, <4>1, <4>2
      <3> QED
        BY <1>2, <3>1, <3>2 DEF Precedes
    <2>2. ASSUME NEW i \in 1 .. Len(s) \cap 1 .. Len(t), s[i] < t[i], \A k \in 1 .. i - 1 : s[k] = t[k]
          PROVE  Precedes(s, u)
      <3>1. CASE Len(t) < Len(u) /\ \A j \in 1 .. Len(t) : t[j] = u[j]
        <4>1. i \in 1 .. Len(s) \cap 1 .. Len(u) /\ s[i] < u[i] /\ \A k \in 1 .. i - 1 : s[k] = u[k]
          BY <1>0, <2>2, <3>1
        <4> QED
          BY <4>1 DEF Precedes
      <3>2. ASSUME NEW j \in 1 .. Len(t) \cap 1 .. Len(u), t[j] < u[j], \A k \in 1 .. j - 1 : t[k] = u[k]
            PROVE  Precedes(s, u)
        <4>1. CASE i <= j
          <5>1. i \in 1 .. Len(s) \cap 1 .. Len(u) /\ s[i] < u[i] /\ \A k \in 1 .. i - 1 : s[k] = u[k]
            BY <1>0, <2>2, <3>2, <4>1
          <5> QED
            BY <5>1 DEF Precedes
        <4>2. CASE j < i
          <5>1. j \in 1 .. Len(s) \cap 1 .. Len(u) /\ s[j] < u[j] /\ \A k \in 1 .. j - 1 : s[k] = u[k]
            BY <1>0, <2>2, <3>2, <4>2
          <5> QED
            BY <5>1 DEF Precedes
        <4> QED
          BY <1>0, <4>1, <4>2
      <3> QED
        BY <1>2, <3>1, <3>2 DEF Precedes
    <2> QED
      BY <1>2, <2>1, <2>2 DEF Precedes
  <1> QED
    BY <1>1, <1>2
\* No digits are zero: a version without a revision has the revision 0.
LEMMA AtoiOfNone == Atoi(<<>>) = 0
  <1> DEFINE Fixed0 == [i \in 0 .. 0 |-> 0]
             UpTo == CHOOSE f : f = [i \in 0 .. Len(<<>>) |-> IF i = 0 THEN 0 ELSE 10 * f[i - 1] + <<>>[i]]
  <1>1. Fixed0 = [i \in 0 .. Len(<<>>) |-> IF i = 0 THEN 0 ELSE 10 * Fixed0[i - 1] + <<>>[i]]
    OBVIOUS
  <1> HIDE DEF Fixed0
  <1>2. UpTo = [i \in 0 .. Len(<<>>) |-> IF i = 0 THEN 0 ELSE 10 * UpTo[i - 1] + <<>>[i]]
    BY <1>1
  <1>3. Atoi(<<>>) = UpTo[Len(<<>>)]
    BY DEF Atoi
  <1> HIDE DEF UpTo
  <1>4. UpTo[0] = 0 /\ Len(<<>>) = 0
    BY <1>2
  <1> QED
    BY <1>3, <1>4

\* Itoa writes digits.
LEMMA ItoaFacts ==
    ASSUME NEW n \in 0 .. Tens[10] - 1
    PROVE  Itoa(n) \in Digits
  <1> DEFINE width == CHOOSE k \in 1 .. 9 : n < Tens[k + 1] /\ (k = 1 \/ n >= Tens[k])
  <1>0. \A k \in 1 .. 10 : Tens[k] \in Nat \ {0}
    BY SMT DEF Tens
  <1>1. \E k \in 1 .. 9 : n < Tens[k + 1] /\ (k = 1 \/ n >= Tens[k])
    <2> DEFINE Wide == {k \in 1 .. 9 : n < Tens[k + 1]}
    <2>1. 9 \in Wide
      BY <1>0
    <2>2. PICK k \in Wide : \A j \in Wide : k <= j
      <3> HIDE DEF Wide
      <3>1. Wide \subseteq 1 .. 9 /\ Wide # {}
        BY <2>1 DEF Wide
      <3> QED
        BY <3>1, LeastIndex
    <2>3. k = 1 \/ n >= Tens[k]
      <3> SUFFICES ASSUME k # 1, n < Tens[k] PROVE FALSE
        BY <1>0, <2>2
      <3>1. k - 1 \in Wide
        BY <2>2
      <3> QED
        BY <2>2, <3>1
    <2> QED
      BY <2>2, <2>3
  <1>2. width \in 1 .. 9
    BY <1>1
  <1>3. Itoa(n) = [i \in 1 .. width |-> (n \div Tens[width - i + 1]) % 10]
    BY DEF Itoa
  <1> HIDE DEF width
  <1>4. ASSUME NEW i \in 1 .. width PROVE (n \div Tens[width - i + 1]) % 10 \in 0 .. 9
    <2>1. Tens[width - i + 1] \in Nat \ {0}
      BY <1>0, <1>2
    <2>2. n \div Tens[width - i + 1] \in Int
      BY <2>1
    <2> QED
      BY <2>2
  <1> QED
    BY <1>2, <1>3, <1>4 DEF Digits

\* Writing back what was parsed changes only the revision, to the one that is set.
LEMMA StringFacts ==
    ASSUME NEW v \in Texts, NEW n
    PROVE  String([ParseGentooVersion(v) EXCEPT !.revision = n])
             = Text(v.nums, v.letter, v.suffixes, IF n > 0 THEN Itoa(n) ELSE NoRevision)
  <1> DEFINE gv == [ParseGentooVersion(v) EXCEPT !.revision = n]
             parsed == [i \in DOMAIN v.suffixes |->
                          [name |-> v.suffixes[i].name, value |-> Atoi(v.suffixes[i].digits),
                           valueStr |-> v.suffixes[i].digits]]
             written == [i \in DOMAIN gv.suffixes |->
                           [name |-> gv.suffixes[i].name, digits |-> gv.suffixes[i].valueStr]]
  <1>1. gv.numStrs = v.nums /\ gv.letter = v.letter /\ gv.suffixes = parsed /\ gv.revision = n
    BY DEF ParseGentooVersion
  <1>2. written = v.suffixes
    <2>1. DOMAIN gv.suffixes = DOMAIN v.suffixes
      BY <1>1
    <2>2. ASSUME NEW i \in DOMAIN v.suffixes PROVE written[i] = v.suffixes[i]
      <3>1. gv.suffixes[i].name = v.suffixes[i].name /\ gv.suffixes[i].valueStr = v.suffixes[i].digits
        BY <1>1, <2>2
      <3>2. v.suffixes[i] \in [name : {"alpha", "beta", "pre", "rc", "p"}, digits : Digits]
        <4> DEFINE R == [name : {"alpha", "beta", "pre", "rc", "p"}, digits : Digits]
        <4>1. v.suffixes \in Seq(R)
          BY DEF Texts
        <4> HIDE DEF R
        <4>2. v.suffixes[i] \in R
          BY <2>2, <4>1
        <4> QED
          BY <4>2 DEF R
      <3>3. v.suffixes[i] = [name |-> v.suffixes[i].name, digits |-> v.suffixes[i].digits]
        BY <3>2
      <3> HIDE DEF gv
      <3> QED
        BY <2>1, <2>2, <3>1, <3>3
    <2>3. v.suffixes = [i \in DOMAIN v.suffixes |-> v.suffixes[i]]
      BY DEF Texts
    <2> HIDE DEF gv
    <2>4. DOMAIN written = DOMAIN v.suffixes /\ written = [i \in DOMAIN v.suffixes |-> written[i]]
      BY <2>1
    <2> HIDE DEF written
    <2> QED
      BY <2>2, <2>3, <2>4
  <1>3. String(gv) = Text(gv.numStrs, gv.letter, written, IF gv.revision > 0 THEN Itoa(gv.revision) ELSE NoRevision)
    BY DEF String
  <1> HIDE DEF gv, written
  <1>4. String(gv) = Text(v.nums, v.letter, v.suffixes, IF n > 0 THEN Itoa(n) ELSE NoRevision)
    BY <1>1, <1>2, <1>3
  <1> QED
    BY <1>4 DEF gv

\* A text is its parts, and another revision makes another text.
LEMMA TextFacts ==
    ASSUME NEW v \in Texts
    PROVE  /\ v = Text(v.nums, v.letter, v.suffixes, v.rev)
           /\ v.rev \in Digits
           /\ \A rev \in Digits : Text(v.nums, v.letter, v.suffixes, rev) \in Texts
  <1>1. v = [nums |-> v.nums, letter |-> v.letter, suffixes |-> v.suffixes, rev |-> v.rev]
    BY DEF Texts
  <1>2. v.rev \in Digits
    BY DEF Texts
  <1>3. \A rev \in Digits : Text(v.nums, v.letter, v.suffixes, rev) \in Texts
    BY DEF Texts, Text
  <1> QED
    BY <1>1, <1>2, <1>3 DEF Text

\* PV is the version without its revision.
LEMMA PVFacts ==
    ASSUME NEW v \in Texts
    PROVE  /\ PV(v) = Text(v.nums, v.letter, v.suffixes, NoRevision)
           /\ PV(v) \in Texts
  <1>1. PV(v) = Text(v.nums, v.letter, v.suffixes, NoRevision)
    BY StringFacts DEF PV
  <1>2. NoRevision \in Digits
    BY DEF NoRevision, Digits
  <1> QED
    BY <1>1, <1>2, TextFacts

\* A version that is parsed and written back is a version.
LEMMA WrittenFacts ==
    ASSUME NEW v \in Texts, Atoi(v.rev) \in 0 .. Tens[10] - 1
    PROVE  String(ParseGentooVersion(v)) \in Texts
  <1>1. ParseGentooVersion(v) = [ParseGentooVersion(v) EXCEPT !.revision = Atoi(v.rev)]
    BY DEF ParseGentooVersion
  <1>2. NoRevision \in Digits
    BY DEF NoRevision, Digits
  <1>3. Itoa(Atoi(v.rev)) \in Digits
    BY ItoaFacts
  <1> QED
    BY <1>1, <1>2, <1>3, StringFacts, TextFacts

\* So is one whose revision is raised.
LEMMA BumpedFacts ==
    ASSUME NEW v \in Texts, PV(v) = v
    PROVE  String(IncrementPart(ParseGentooVersion(v), "revision")) \in Texts
  <1>1. v.rev = NoRevision
    BY PVFacts, TextFacts DEF Text
  <1>2. ParseGentooVersion(v).revision = 0
    BY <1>1, AtoiOfNone DEF ParseGentooVersion, NoRevision
  <1>3. IncrementPart(ParseGentooVersion(v), "revision") = [ParseGentooVersion(v) EXCEPT !.revision = 1]
    BY <1>2 DEF IncrementPart
  <1>4. 1 \in 0 .. Tens[10] - 1
    BY SMT DEF Tens
  <1>5. Itoa(1) \in Digits
    BY <1>4, ItoaFacts
  <1> QED
    BY <1>3, <1>5, StringFacts, TextFacts

\* Revisions of one version differ in nothing else, so that the listing puts them in an order.
LEMMA ListedOrders ==
    ASSUME NEW S \in SUBSET Texts, \A v, w \in S : PV(v) = PV(w)
    PROVE  /\ \A v \in S : ~ListedBefore(v, v)
           /\ \A v, w \in S : v # w => ListedBefore(v, w) \/ ListedBefore(w, v)
           /\ \A v, w, x \in S : ListedBefore(v, w) /\ ListedBefore(w, x) => ListedBefore(v, x)
  <1>1. ASSUME NEW v \in S, NEW w \in S, v # w PROVE v.rev # w.rev
    BY <1>1, PVFacts, TextFacts DEF Text
  <1>2. \A v \in S : v.rev \in Digits
    BY TextFacts
  <1>3. \A v, w \in S : ListedBefore(v, w) <=>
           \/ v.rev # NoRevision /\ w.rev = NoRevision
           \/ v.rev # NoRevision /\ w.rev # NoRevision /\ Precedes(v.rev, w.rev)
    BY <1>2, ComparedDigits DEF ListedBefore
  <1>4. \A v \in S : ~ListedBefore(v, v)
    BY <1>2, <1>3, PrecedesOrders
  <1>5. \A v, w \in S : v # w => ListedBefore(v, w) \/ ListedBefore(w, v)
    BY <1>1, <1>2, <1>3, ComparedDigits
  <1>6. \A v, w, x \in S : ListedBefore(v, w) /\ ListedBefore(w, x) => ListedBefore(v, x)
    BY <1>2, <1>3, PrecedesOrders
  <1> QED
    BY <1>4, <1>5, <1>6

\* Some revision is listed first.
LEMMA FirstFacts ==
    ASSUME NEW S \in SUBSET Texts, IsFiniteSet(S), S # {}, \A v, w \in S : PV(v) = PV(w)
    PROVE  First(S) \in S
  <1> DEFINE R == {p \in S \X S : ListedBefore(p[1], p[2])}
  <1>1. \A v, w \in S : <<v, w>> \in R <=> ListedBefore(v, w)
    OBVIOUS
  <1> HIDE DEF R
  <1>2. PICK v \in S : \A w \in S : <<w, v>> \notin R
    <2>1. /\ \A x \in S : <<x, x>> \notin R
          /\ \A x, y, z \in S : <<x, y>> \in R /\ <<y, z>> \in R => <<x, z>> \in R
      BY <1>1, ListedOrders
    <2> QED
      BY <2>1, FiniteLeast
  <1>3. \A w \in S \ {v} : ListedBefore(v, w)
    BY <1>1, <1>2, ListedOrders
  <1> QED
    BY <1>3 DEF First

-----------------------------------------------------------------------------
(* What an upsert does to a directory.                                     *)

\* What a directory of ebuilds is: finitely many versions, each with a content.
Directory(dir) ==
    /\ dir = [v \in DOMAIN dir |-> dir[v]]
    /\ DOMAIN dir \subseteq Texts /\ IsFiniteSet(DOMAIN dir)

\* Writing an ebuild adds its name and sets its content.
LEMMA WithFacts ==
    ASSUME NEW dir, NEW v, NEW c
    PROVE  DOMAIN With(dir, v, c) = DOMAIN dir \cup {v} /\ With(dir, v, c)[v] = c
  BY DEF With

\* It leaves a directory.
LEMMA WithKeeps ==
    ASSUME NEW dir, Directory(dir), NEW v \in Texts, NEW c
    PROVE  Directory(With(dir, v, c))
  <1>1. With(dir, v, c) = [w \in DOMAIN With(dir, v, c) |-> With(dir, v, c)[w]]
    BY DEF With
  <1>2. IsFiniteSet(DOMAIN dir \cup {v})
    BY FS_AddElement DEF Directory
  <1>3. DOMAIN With(dir, v, c) = DOMAIN dir \cup {v}
    BY WithFacts
  <1>4. DOMAIN With(dir, v, c) \subseteq Texts /\ IsFiniteSet(DOMAIN With(dir, v, c))
    BY <1>2, <1>3 DEF Directory
  <1> QED
    BY <1>1, <1>4 DEF Directory

\* To write what is there changes nothing.
LEMMA WithSame ==
    ASSUME NEW dir, Directory(dir), NEW v \in DOMAIN dir
    PROVE  With(dir, v, dir[v]) = dir
  <1>1. DOMAIN dir \cup {v} = DOMAIN dir
    OBVIOUS
  <1>2. With(dir, v, dir[v]) = [w \in DOMAIN dir |-> dir[w]]
    BY <1>1 DEF With
  <1> QED
    BY <1>2 DEF Directory

\* The ebuild that an upsert compares with is one of the version.
LEMMA FoundFacts ==
    ASSUME NEW dir, Directory(dir), NEW version, RevisionsOf(dir, version) # {}
    PROVE  UpsertFound(dir, version) \in DOMAIN dir /\ PV(UpsertFound(dir, version)) = version
  <1>1. RevisionsOf(dir, version) \in SUBSET DOMAIN dir
    BY DEF RevisionsOf
  <1>2. IsFiniteSet(RevisionsOf(dir, version))
    BY <1>1, FS_Subset DEF Directory
  <1>3. \A v, w \in RevisionsOf(dir, version) : PV(v) = PV(w)
    BY DEF RevisionsOf
  <1>4. UpsertFound(dir, version) \in RevisionsOf(dir, version)
    BY <1>1, <1>2, <1>3, FirstFacts DEF UpsertFound, Directory
  <1> QED
    BY <1>4 DEF RevisionsOf

\* The version that an upsert writes beside those it finds.
BumpName(version, bump) ==
    IF bump = NoRevision THEN String(IncrementPart(ParseGentooVersion(version), "revision"))
    ELSE String(ParseGentooVersion(bump))

\* That version does not depend on the ebuild that was found, for PV has no revision.
LEMMA UpsertCases ==
    ASSUME NEW dir, Directory(dir), NEW version, NEW content, NEW bump
    PROVE  UpsertInto(dir, version, content, bump) =
             IF RevisionsOf(dir, version) = {} THEN With(dir, version, content)
             ELSE IF dir[UpsertFound(dir, version)] = content THEN dir
             ELSE With(dir, BumpName(version, bump), content)
  <1>1. CASE RevisionsOf(dir, version) = {}
    BY <1>1 DEF UpsertInto
  <1>2. CASE RevisionsOf(dir, version) # {}
    <2>1. PV(UpsertFound(dir, version)) = PV(PV(UpsertFound(dir, version)))
      <3>1. UpsertFound(dir, version) \in Texts
        BY <1>2, FoundFacts DEF Directory
      <3> QED
        BY <3>1, PVFacts DEF Text
    <2>2. PV(UpsertFound(dir, version)) = version
      BY <1>2, FoundFacts
    <2> QED
      BY <1>2, <2>1, <2>2 DEF UpsertInto, BumpName, UpsertBumped
  <1> QED
    BY <1>1, <1>2

\* An upsert leaves a directory.
LEMMA UpsertKeeps ==
    ASSUME NEW dir, Directory(dir), NEW version \in Versions, NEW content,
           NEW bump \in Bumps \cup {NoRevision}
    PROVE  Directory(UpsertInto(dir, version, content, bump))
  <1>1. CASE RevisionsOf(dir, version) = {}
    <2>1. UpsertInto(dir, version, content, bump) = With(dir, version, content)
      BY <1>1, UpsertCases
    <2>2. version \in Texts
      BY EbuildCommandsAssumption
    <2> QED
      BY <2>1, <2>2, WithKeeps
  <1>2. CASE RevisionsOf(dir, version) # {} /\ dir[UpsertFound(dir, version)] = content
    BY <1>2, UpsertCases
  <1>3. CASE RevisionsOf(dir, version) # {} /\ dir[UpsertFound(dir, version)] # content
    <2>1. BumpName(version, bump) \in Texts
      <3>1. CASE bump = NoRevision
        <4>1. version = PV(UpsertFound(dir, version)) /\ UpsertFound(dir, version) \in Texts
          BY <1>3, FoundFacts DEF Directory
        <4>2. version \in Texts /\ PV(version) = version
          BY <4>1, PVFacts DEF Text
        <4> QED
          BY <3>1, <4>2, BumpedFacts DEF BumpName
      <3>2. CASE bump # NoRevision
        <4>1. bump \in Texts /\ Atoi(bump.rev) \in 0 .. Tens[10] - 1
          BY <3>2, EbuildCommandsAssumption
        <4> QED
          BY <3>2, <4>1, WrittenFacts DEF BumpName
      <3> QED
        BY <3>1, <3>2
    <2>2. UpsertInto(dir, version, content, bump) = With(dir, BumpName(version, bump), content)
      BY <1>3, UpsertCases
    <2> QED
      BY <2>1, <2>2, WithKeeps
  <1> QED
    BY <1>1, <1>2, <1>3

\* The content is there, and the same upsert would change nothing.
Settled(dir, version, content, bump) ==
    /\ \E v \in DOMAIN dir : dir[v] = content
    /\ UpsertInto(dir, version, content, bump) = dir

\* Whatever an upsert finds, it settles: where no revision was found its own is the only
\* one the next time, and otherwise the next one writes the same name.
LEMMA UpsertOnce ==
    ASSUME NEW dir, Directory(dir), NEW version \in Versions, NEW content,
           NEW bump \in Bumps \cup {NoRevision}
    PROVE  Settled(UpsertInto(dir, version, content, bump), version, content, bump)
  <1> DEFINE new == UpsertInto(dir, version, content, bump)
             name == BumpName(version, bump)
  <1>0. Directory(new)
    BY UpsertKeeps
  <1>1. CASE RevisionsOf(dir, version) = {}
    <2>1. new = With(dir, version, content)
      BY <1>1, UpsertCases
    <2> HIDE DEF new
    <2>2. DOMAIN new = DOMAIN dir \cup {version} /\ new[version] = content
      <3>1. /\ DOMAIN With(dir, version, content) = DOMAIN dir \cup {version}
            /\ With(dir, version, content)[version] = content
        BY DEF With
      <3> QED
        BY <2>1, <3>1
    <2>3. RevisionsOf(new, version) \subseteq {version}
      BY <1>1, <2>2 DEF RevisionsOf
    <2>4. With(new, version, content) = new
      BY <1>0, <2>2, WithSame DEF new
    <2>5. ASSUME RevisionsOf(new, version) = {} PROVE Settled(new, version, content, bump)
      BY <1>0, <2>2, <2>4, <2>5, UpsertCases DEF Settled
    <2>6. ASSUME RevisionsOf(new, version) # {} PROVE Settled(new, version, content, bump)
      <3>1. UpsertFound(new, version) = version
        BY <1>0, <2>3, <2>6, FoundFacts DEF RevisionsOf
      <3> QED
        BY <1>0, <2>2, <2>6, <3>1, UpsertCases DEF Settled
    <2> QED
      BY <2>5, <2>6 DEF new
  <1>2. CASE RevisionsOf(dir, version) # {} /\ dir[UpsertFound(dir, version)] = content
    <2>1. new = dir
      BY <1>2, UpsertCases
    <2>2. UpsertFound(dir, version) \in DOMAIN dir
      BY <1>2, FoundFacts
    <2> QED
      BY <1>2, <2>1, <2>2 DEF Settled
  <1>3. CASE RevisionsOf(dir, version) # {} /\ dir[UpsertFound(dir, version)] # content
    <2>1. new = With(dir, name, content)
      BY <1>3, UpsertCases
    <2>2. DOMAIN new = DOMAIN dir \cup {name} /\ new[name] = content
      <3>1. /\ DOMAIN With(dir, name, content) = DOMAIN dir \cup {name}
            /\ With(dir, name, content)[name] = content
        BY DEF With
      <3> QED
        BY <2>1, <3>1
    <2>3. RevisionsOf(new, version) # {}
      BY <1>3, <2>2 DEF RevisionsOf
    <2>4. With(new, name, content) = new
      BY <1>0, <2>2, WithSame
    <2> HIDE DEF new, name
    <2>5. UpsertInto(new, version, content, bump) = new
      BY <1>0, <2>3, <2>4, UpsertCases DEF name
    <2> QED
      BY <2>2, <2>5 DEF Settled, new
  <1> QED
    BY <1>1, <1>2, <1>3

-----------------------------------------------------------------------------
(* The commands.                                                           *)

\* Every repository has its packages.
Shapes ==
    /\ ebuilds = [r \in Repos |-> [p \in Packages |-> ebuilds[r][p]]]
    /\ manifest = [r \in Repos |-> [p \in Packages |-> manifest[r][p]]]
    /\ dict = [r \in Repos |-> dict[r]]

\* What it holds of a package is a directory.
DirectoriesInv == \A r \in Repos : \A p \in Packages : Directory(ebuilds[r][p])

\* The inductive invariant.
CommandsInv == Shapes /\ DirectoriesInv /\ UpsertSettles

\* Removing ebuilds leaves a directory.
LEMMA WithoutKeeps ==
    ASSUME NEW dir, Directory(dir), NEW keys
    PROVE  Directory(Without(dir, keys))
  <1>1. DOMAIN Without(dir, keys) = DOMAIN dir \ keys
    BY DEF Without
  <1>2. Without(dir, keys) = [v \in DOMAIN Without(dir, keys) |-> Without(dir, keys)[v]]
    BY DEF Without
  <1>3. DOMAIN dir \ keys \in SUBSET DOMAIN dir /\ IsFiniteSet(DOMAIN dir)
    BY DEF Directory
  <1>4. IsFiniteSet(DOMAIN dir \ keys)
    BY <1>3, FS_Subset
  <1> QED
    BY <1>1, <1>2, <1>4 DEF Directory

\* The initial states.
LEMMA InitShapes == Init => Shapes /\ DirectoriesInv
  <1> SUFFICES ASSUME Init PROVE Shapes /\ DirectoriesInv
    OBVIOUS
  <1>1. PICK q \in Packages, dir \in InitialDirs :
           ebuilds = [r \in Repos |-> IF r = Cwd THEN [EmptyRepo EXCEPT ![q] = dir] ELSE EmptyRepo]
    BY DEF Init
  <1>2. Directory(dir)
    BY EbuildCommandsAssumption DEF Directory
  <1>3. Directory(NoEbuilds)
    <2>1. NoEbuilds = [v \in {} |-> NoEbuilds[v]] /\ DOMAIN NoEbuilds = {}
      BY DEF NoEbuilds
    <2> QED
      BY <2>1, FS_EmptySet DEF Directory
  <1>4. ASSUME NEW r \in Repos
        PROVE  /\ ebuilds[r] = [p \in Packages |-> ebuilds[r][p]]
               /\ \A p \in Packages : ebuilds[r][p] \in {dir, NoEbuilds}
    BY <1>1 DEF EmptyRepo
  <1>5. DirectoriesInv
    BY <1>2, <1>3, <1>4 DEF DirectoriesInv
  <1>6. ebuilds = [r \in Repos |-> [p \in Packages |-> ebuilds[r][p]]]
    <2>1. ebuilds = [r \in Repos |-> ebuilds[r]]
      BY <1>1
    <2> QED
      BY <1>4, <2>1
  <1>7. /\ manifest = [r \in Repos |-> [p \in Packages |-> manifest[r][p]]]
        /\ dict = [r \in Repos |-> dict[r]]
    BY DEF Init
  <1> QED
    BY <1>5, <1>6, <1>7 DEF Shapes

\* A command that changes one directory leaves the others.
LEMMA OneDirectory ==
    ASSUME Shapes, DirectoriesInv, NEW r \in Repos, NEW p \in Packages, NEW new, Directory(new),
           ebuilds' = [ebuilds EXCEPT ![r][p] = new]
    PROVE  /\ ebuilds' = [s \in Repos |-> [q \in Packages |-> ebuilds'[s][q]]]
           /\ DirectoriesInv'
           /\ ebuilds'[r][p] = new
           /\ \A s \in Repos : \A q \in Packages : <<s, q>> # <<r, p>> => ebuilds'[s][q] = ebuilds[s][q]
  <1>0. ebuilds = [s \in Repos |-> [q \in Packages |-> ebuilds[s][q]]]
    BY DEF Shapes
  <1>1. ebuilds' = [s \in Repos |-> [q \in Packages |-> IF s = r /\ q = p THEN new ELSE ebuilds[s][q]]]
    BY <1>0
  <1>2. \A s \in Repos : \A q \in Packages : ebuilds'[s][q] = IF s = r /\ q = p THEN new ELSE ebuilds[s][q]
    BY <1>1
  <1>3. ebuilds' = [s \in Repos |-> [q \in Packages |-> ebuilds'[s][q]]]
    BY <1>1, <1>2
  <1>4. DirectoriesInv'
    BY <1>2 DEF DirectoriesInv
  <1> QED
    BY <1>2, <1>3, <1>4

\* "upsert": the only command that UpsertSettles speaks of.
LEMMA UpsertStep ==
    ASSUME CommandsInv, NEW r \in Repos, NEW p \in Packages, NEW v \in Versions, NEW c \in Contents,
           NEW bump \in Bumps \cup {NoRevision}, cmdEbuildUpsert(r, p, v, c, bump)
    PROVE  CommandsInv'
  <1> DEFINE new == UpsertInto(ebuilds[r][p], v, c, bump)
  <1>1. Directory(ebuilds[r][p])
    BY DEF CommandsInv, DirectoriesInv
  <1>2. Directory(new) /\ Settled(new, v, c, bump)
    BY <1>1, UpsertKeeps, UpsertOnce
  <1>3. ebuilds' = [ebuilds EXCEPT ![r][p] = new]
    BY DEF cmdEbuildUpsert
  <1> HIDE DEF new
  <1>4. /\ ebuilds' = [s \in Repos |-> [q \in Packages |-> ebuilds'[s][q]]]
        /\ DirectoriesInv' /\ ebuilds'[r][p] = new
    BY <1>2, <1>3, OneDirectory DEF CommandsInv
  <1>5. Shapes'
    BY <1>4 DEF Shapes, CommandsInv, cmdEbuildUpsert, derived
  <1>6. UpsertSettles'
    <2>1. last' = [cmd |-> "upsert", repo |-> r, pkg |-> p, args |-> <<v, c, bump>>]
      BY DEF cmdEbuildUpsert, Run
    <2>2. /\ last'.repo = r /\ last'.pkg = p
          /\ last'.args[1] = v /\ last'.args[2] = c /\ last'.args[3] = bump
      BY <2>1
    <2> QED
      BY <1>2, <1>4, <2>2 DEF UpsertSettles, Settled
  <1> QED
    BY <1>4, <1>5, <1>6 DEF CommandsInv

\* Both installs: a Manifest only grows.
LEMMA InstallStep ==
    ASSUME CommandsInv, NEW r \in Repos, NEW p \in Packages, NEW v \in Versions, NEW c \in Contents,
           NEW fetched, InstallEbuild(r, p, v, c, fetched) \/ cmdOverlayEbuildInstall(r, p, v, c, fetched)
    PROVE  /\ CommandsInv'
           /\ last'.cmd \in {"install", "overlay install"}
           /\ \A s \in Repos : \A q \in Packages : manifest[s][q] \subseteq manifest'[s][q]
  <1>1. v \in Texts /\ PV(v) \in Texts
    BY EbuildCommandsAssumption, PVFacts
  <1>2. PICK w \in Texts : AfterInstall(r, p, With(ebuilds[r][p], w, c), fetched)
    BY <1>1 DEF InstallEbuild, cmdOverlayEbuildInstall
  <1> DEFINE new == With(ebuilds[r][p], w, c)
  <1>3. Directory(new)
    BY WithKeeps DEF CommandsInv, DirectoriesInv
  <1> HIDE DEF new
  <1>4. ebuilds' = [ebuilds EXCEPT ![r][p] = new]
    BY <1>2 DEF AfterInstall, new
  <1>5. ebuilds' = [s \in Repos |-> [q \in Packages |-> ebuilds'[s][q]]] /\ DirectoriesInv'
    BY <1>3, <1>4, OneDirectory DEF CommandsInv
  <1>6. /\ manifest' = [s \in Repos |-> [q \in Packages |-> manifest'[s][q]]]
        /\ \A s \in Repos : \A q \in Packages : manifest[s][q] \subseteq manifest'[s][q]
    <2> DEFINE fixed == Fixed(r, p, new, fetched)
    <2>1. manifest' = [manifest EXCEPT ![r][p] = fixed]
      BY <1>2 DEF AfterInstall, new
    <2>2. manifest[r][p] \subseteq fixed
      BY DEF Fixed
    <2>3. manifest = [s \in Repos |-> [q \in Packages |-> manifest[s][q]]]
      BY DEF CommandsInv, Shapes
    <2> HIDE DEF fixed
    <2>4. manifest' = [s \in Repos |-> [q \in Packages |-> IF s = r /\ q = p THEN fixed ELSE manifest[s][q]]]
      BY <2>1, <2>3
    <2>5. \A s \in Repos : \A q \in Packages :
             manifest'[s][q] = IF s = r /\ q = p THEN fixed ELSE manifest[s][q]
      BY <2>4
    <2> QED
      BY <2>2, <2>4, <2>5
  <1>7. dict' = [s \in Repos |-> dict'[s]]
    <2>1. PICK g : dict' = [dict EXCEPT ![Cwd] = g]
      BY <1>2 DEF AfterInstall
    <2>2. dict = [s \in Repos |-> dict[s]]
      BY DEF CommandsInv, Shapes
    <2> QED
      BY <2>1, <2>2
  <1>8. last'.cmd \in {"install", "overlay install"}
    <2>1. CASE InstallEbuild(r, p, v, c, fetched)
      BY <2>1 DEF InstallEbuild, Run
    <2>2. CASE cmdOverlayEbuildInstall(r, p, v, c, fetched)
      BY <2>2 DEF cmdOverlayEbuildInstall, Run
    <2> QED
      BY <2>1, <2>2
  <1>9. UpsertSettles'
    BY <1>8 DEF UpsertSettles
  <1> QED
    BY <1>5, <1>6, <1>7, <1>8, <1>9 DEF CommandsInv, Shapes

\* What is taken from a Manifest belongs to no ebuild that is left.
LEMMA DeleteKeeps ==
    ASSUME CommandsInv, NEW r \in Repos, NEW p \in Packages, NEW gone, Delete(r, p, gone)
    PROVE  /\ Shapes' /\ DirectoriesInv'
           /\ \A s \in Repos : \A q \in Packages : \A v \in DOMAIN ebuilds'[s][q] :
                 PV(v) \in manifest[s][q] => PV(v) \in manifest'[s][q]
  <1> DEFINE new == Without(ebuilds[r][p], gone)
             rest == RestOfManifest(r, p, new)
  <1>1. Directory(new)
    BY WithoutKeeps DEF CommandsInv, DirectoriesInv
  <1>2. /\ ebuilds' = [ebuilds EXCEPT ![r][p] = new]
        /\ manifest' = [manifest EXCEPT ![r][p] = rest]
        /\ dict' = dict
    BY DEF Delete
  <1>3. \A v \in DOMAIN new : PV(v) \in manifest[r][p] => PV(v) \in rest
    BY DEF RestOfManifest, PVsOf
  <1> HIDE DEF new, rest
  <1>4. /\ ebuilds' = [s \in Repos |-> [q \in Packages |-> ebuilds'[s][q]]]
        /\ DirectoriesInv' /\ ebuilds'[r][p] = new
    BY <1>1, <1>2, OneDirectory DEF CommandsInv
  <1>5. manifest' = [s \in Repos |-> [q \in Packages |-> IF s = r /\ q = p THEN rest ELSE manifest[s][q]]]
    <2>1. manifest = [s \in Repos |-> [q \in Packages |-> manifest[s][q]]]
      BY DEF CommandsInv, Shapes
    <2> QED
      BY <1>2, <2>1
  <1>6. \A s \in Repos : \A q \in Packages :
           manifest'[s][q] = IF s = r /\ q = p THEN rest ELSE manifest[s][q]
    BY <1>5
  <1>7. manifest' = [s \in Repos |-> [q \in Packages |-> manifest'[s][q]]]
    BY <1>5, <1>6
  <1>8. dict' = [s \in Repos |-> dict'[s]]
    BY <1>2 DEF CommandsInv, Shapes
  <1> QED
    BY <1>3, <1>4, <1>6, <1>7, <1>8 DEF Shapes

\* Both ways to delete, also when nothing is found to delete.
LEMMA DeleteStep ==
    ASSUME CommandsInv, NEW r \in Repos, NEW p \in Packages, NEW w,
           DeleteFile(r, p, w) \/ DeleteAtom(r, p, w)
    PROVE  /\ CommandsInv'
           /\ last'.cmd \in {"delete file", "delete atom"}
           /\ \A s \in Repos : \A q \in Packages : \A v \in DOMAIN ebuilds'[s][q] :
                 PV(v) \in manifest[s][q] => PV(v) \in manifest'[s][q]
  <1>1. last'.cmd \in {"delete file", "delete atom"}
    <2>1. CASE DeleteFile(r, p, w)
      BY <2>1 DEF DeleteFile, Run
    <2>2. CASE DeleteAtom(r, p, w)
      <3>1. last' = [cmd |-> "delete atom", repo |-> r, pkg |-> p, args |-> w]
        BY <2>2, Zenon DEF DeleteAtom, Run
      <3> QED
        BY <3>1
    <2> QED
      BY <2>1, <2>2
  <1>2. UpsertSettles'
    BY <1>1 DEF UpsertSettles
  <1>3. (\E gone : Delete(r, p, gone)) \/ UNCHANGED <<tree, derived>>
    BY DEF DeleteFile, DeleteAtom
  <1>4. /\ Shapes' /\ DirectoriesInv'
        /\ \A s \in Repos : \A q \in Packages : \A v \in DOMAIN ebuilds'[s][q] :
              PV(v) \in manifest[s][q] => PV(v) \in manifest'[s][q]
    <2>1. CASE \E gone : Delete(r, p, gone)
      BY <2>1, DeleteKeeps
    <2>2. CASE UNCHANGED <<tree, derived>>
      BY <2>2 DEF tree, derived, CommandsInv, Shapes, DirectoriesInv
    <2> QED
      BY <1>3, <2>1, <2>2
  <1> QED
    BY <1>1, <1>2, <1>4 DEF CommandsInv

\* The commands that leave ebuilds and Manifests alone.
DerivedCommand(r) ==
    \/ doCacheClean(r) \/ IndexCommand(r) \/ cmdUseDiscover(r) \/ Egencache(r)
    \/ \E method \in {"md5-dict", "pms"} : cmdCacheSetMethod(r, method)
    \/ \E targets \in SUBSET Packages : cmdCacheGenerate(r, targets)

\* They do.
LEMMA DerivedStep ==
    ASSUME CommandsInv, NEW r \in Repos, DerivedCommand(r)
    PROVE  CommandsInv' /\ UNCHANGED tree /\ (last'.cmd = "cache clean" => doCacheClean(r))
  <1>1. UNCHANGED tree /\ last'.cmd # "upsert" /\ (last'.cmd = "cache clean" => doCacheClean(r))
    <2>1. CASE doCacheClean(r)
      BY <2>1 DEF doCacheClean, Run
    <2>2. CASE IndexCommand(r)
      BY <2>2 DEF IndexCommand, Run
    <2>3. CASE cmdUseDiscover(r)
      BY <2>3 DEF cmdUseDiscover, Run
    <2>4. CASE Egencache(r)
      BY <2>4 DEF Egencache, Run
    <2>5. CASE \E method \in {"md5-dict", "pms"} : cmdCacheSetMethod(r, method)
      <3>1. PICK method \in {"md5-dict", "pms"} : cmdCacheSetMethod(r, method)
        BY <2>5
      <3> QED
        BY <3>1 DEF cmdCacheSetMethod, Run
    <2>6. CASE \E targets \in SUBSET Packages : cmdCacheGenerate(r, targets)
      <3>1. PICK targets \in SUBSET Packages : cmdCacheGenerate(r, targets)
        BY <2>6
      <3> QED
        BY <3>1 DEF cmdCacheGenerate, Run
    <2> QED
      BY <2>1, <2>2, <2>3, <2>4, <2>5, <2>6 DEF DerivedCommand
  <1>2. (\E g : dict' = [dict EXCEPT ![r] = g]) \/ UNCHANGED dict
    BY DEF DerivedCommand, doCacheClean, IndexCommand, cmdUseDiscover, Egencache, cmdCacheSetMethod, cmdCacheGenerate
  <1>3. dict' = [s \in Repos |-> dict'[s]]
    <2>1. dict = [s \in Repos |-> dict[s]]
      BY DEF CommandsInv, Shapes
    <2>2. CASE \E g : dict' = [dict EXCEPT ![r] = g]
      BY <2>1, <2>2
    <2>3. CASE UNCHANGED dict
      BY <2>1, <2>3
    <2> QED
      BY <1>2, <2>2, <2>3
  <1> QED
    BY <1>1, <1>3 DEF CommandsInv, Shapes, DirectoriesInv, UpsertSettles, tree

\* "cache clean" keeps the entries that "cache verify" looks for.
LEMMA CleanedEntries ==
    ASSUME CommandsInv, NEW r \in Repos, NEW s \in Repos, doCacheClean(r), doCacheVerify(s)
    PROVE  doCacheVerify(s)'
  <1>1. UNCHANGED <<ebuilds, formats>>
    BY DEF doCacheClean, tree
  <1>2. Formats(s)' = Formats(s) /\ Present(s)' = Present(s)
    BY <1>1 DEF Formats, Present
  <1>3. ASSUME NEW p \in Present(s), NEW v \in PVsOf(ebuilds[s][p]) PROVE <<p, v>> \in DOMAIN dict'[s]
    <2>1. <<p, v>> \in DOMAIN dict[s] /\ <<p, v>> \in ValidCacheEntries(s)
      BY <1>3 DEF doCacheVerify, ValidCacheEntries
    <2>2. dict = [t \in Repos |-> dict[t]]
      BY DEF CommandsInv, Shapes
    <2>3. CASE s = r
      <3>1. dict'[s] = Without(dict[s], DOMAIN dict[s] \ ValidCacheEntries(s))
        BY <2>2, <2>3 DEF doCacheClean, doCacheVerify
      <3>2. DOMAIN dict'[s] = DOMAIN dict[s] \ (DOMAIN dict[s] \ ValidCacheEntries(s))
        BY <3>1 DEF Without
      <3> QED
        BY <2>1, <3>2
    <2>4. CASE s # r
      <3>1. dict'[s] = dict[s]
        BY <2>2, <2>4 DEF doCacheClean
      <3> QED
        BY <2>1, <3>1
    <2> QED
      BY <2>3, <2>4
  <1> QED
    BY <1>1, <1>2, <1>3 DEF doCacheVerify

\* The step that CleaningKeepsWhatIsUsed allows.
KeepsWhatIsUsed ==
    \A r \in Repos :
       /\ \A p \in Packages : \A v \in DOMAIN ebuilds'[r][p] :
             PV(v) \in manifest[r][p] => PV(v) \in manifest'[r][p]
       /\ last'.cmd = "cache clean" /\ doCacheVerify(r) => doCacheVerify(r)'

\* Every command keeps the invariant, and what is used.
LEMMA CommandStep == CommandsInv /\ Next => CommandsInv' /\ KeepsWhatIsUsed
  <1> SUFFICES ASSUME CommandsInv, Next PROVE CommandsInv' /\ KeepsWhatIsUsed
    OBVIOUS
  <1>1. PICK r \in Repos :
           \/ DerivedCommand(r)
           \/ \E p \in Packages :
                 \/ \E v \in Versions, c \in Contents, bump \in Bumps \cup {NoRevision} :
                       cmdEbuildUpsert(r, p, v, c, bump)
                 \/ \E v \in Versions, c \in Contents, fetched \in Fetched :
                       InstallEbuild(r, p, v, c, fetched) \/ cmdOverlayEbuildInstall(r, p, v, c, fetched)
                 \/ \E w : DeleteFile(r, p, w) \/ DeleteAtom(r, p, w)
    BY Zenon DEF Next, DerivedCommand
  <1>2. CASE DerivedCommand(r)
    <2>1. /\ CommandsInv' /\ UNCHANGED <<ebuilds, manifest>>
          /\ last'.cmd = "cache clean" => doCacheClean(r)
      BY <1>2, DerivedStep DEF tree
    <2>2. ASSUME NEW s \in Repos, last'.cmd = "cache clean", doCacheVerify(s) PROVE doCacheVerify(s)'
      <3>1. doCacheClean(r)
        BY <2>1, <2>2
      <3> QED
        BY <2>2, <3>1, CleanedEntries
    <2> QED
      BY <2>1, <2>2 DEF KeepsWhatIsUsed
  <1>3. ASSUME NEW p \in Packages, NEW v \in Versions, NEW c \in Contents, NEW bump \in Bumps \cup {NoRevision},
               cmdEbuildUpsert(r, p, v, c, bump)
        PROVE  CommandsInv' /\ KeepsWhatIsUsed
    <2>1. UNCHANGED manifest /\ last'.cmd = "upsert"
      BY <1>3 DEF cmdEbuildUpsert, Run
    <2> QED
      BY <1>3, <2>1, UpsertStep DEF KeepsWhatIsUsed
  <1>4. ASSUME NEW p \in Packages, NEW v \in Versions, NEW c \in Contents, NEW fetched,
               InstallEbuild(r, p, v, c, fetched) \/ cmdOverlayEbuildInstall(r, p, v, c, fetched)
        PROVE  CommandsInv' /\ KeepsWhatIsUsed
    BY <1>4, InstallStep DEF KeepsWhatIsUsed
  <1>5. ASSUME NEW p \in Packages, NEW w, DeleteFile(r, p, w) \/ DeleteAtom(r, p, w)
        PROVE  CommandsInv' /\ KeepsWhatIsUsed
    BY <1>5, DeleteStep DEF KeepsWhatIsUsed
  <1> QED
    BY <1>1, <1>2, <1>3, <1>4, <1>5

\* So does a step that changes nothing.
LEMMA CommandStutter == CommandsInv /\ UNCHANGED vars => CommandsInv'
  <1> SUFFICES ASSUME CommandsInv, UNCHANGED vars PROVE CommandsInv'
    OBVIOUS
  <1>1. UNCHANGED <<ebuilds, manifest, dict, last>>
    BY DEF vars, derived
  <1>2. Shapes' /\ DirectoriesInv'
    BY <1>1 DEF CommandsInv, Shapes, DirectoriesInv
  <1>3. UpsertSettles'
    BY <1>1 DEF CommandsInv, UpsertSettles
  <1> QED
    BY <1>2, <1>3 DEF CommandsInv

-----------------------------------------------------------------------------
\* The directories are directories, and what was upserted has settled.
THEOREM SpecCommandsInv == Spec => []CommandsInv
  <1>1. Init => CommandsInv
    <2>1. Init => UpsertSettles
      BY DEF Init, UpsertSettles
    <2> QED
      BY <2>1, InitShapes DEF CommandsInv
  <1> QED
    BY <1>1, CommandStep, CommandStutter, PTL DEF Spec

\* After "g2 ebuild upsert" the content is in the directory, and to run it again changes
\* nothing: for any versions, contents and revisions that are there, and any bump.
THEOREM UpsertsSettle == Spec => []UpsertSettles
  <1>1. CommandsInv => UpsertSettles
    BY DEF CommandsInv
  <1> QED
    BY <1>1, SpecCommandsInv, PTL

\* No command takes from a Manifest what an ebuild that stays was listed with, and "cache
\* clean" leaves a cache that "cache verify" accepts acceptable: for any repositories.
THEOREM CleaningKeeps == Spec => CleaningKeepsWhatIsUsed
  <1>1. CommandsInv /\ [Next]_vars => [KeepsWhatIsUsed]_vars
    BY CommandStep
  <1>2. Spec => [][KeepsWhatIsUsed]_vars
    BY <1>1, SpecCommandsInv, PTL DEF Spec
  <1>3. CleaningKeepsWhatIsUsed <=> [][KeepsWhatIsUsed]_vars
    BY DEF CleaningKeepsWhatIsUsed, KeepsWhatIsUsed
  <1> QED
    BY <1>2, <1>3
=============================================================================
