--------------------------- MODULE Manifest_proofs ---------------------------
(***************************************************************************)
(* The commands of Manifest keep what they should keep, for any versions   *)
(* and any forms of SRC_URI.  The methods of the code find an entry by its *)
(* file name and not by its type, so what concerns two types at once holds *)
(* only where no two entries of different types share a name.              *)
(***************************************************************************)
EXTENDS Manifest, TLAPS

\* The types of what the proofs look at.
Types ==
    /\ tree \in [Versions -> Forms \cup {NoEbuild}]
    /\ disk \subseteq Entries /\ mem \subseteq Entries
    /\ todo \subseteq DistFiles
    /\ pc \in {"idle", "verify", "fix", "verifyClean", "fixClean", "bump", "bumpRevision"}

\* What verify loaded is still what the file holds, unless it fixes entries.
LoadedIsCurrent == pc \in {"verify", "verifyClean"} => mem = disk

\* A bump to a version without a revision has dropped no needed entry.
BumpKeepsNeeded ==
    pc = "bump" => \A f \in Needed(tree) : HasDist(disk, f) => HasDist(mem, f)

\* The inductive invariant.
IInv == Types /\ LoadedIsCurrent /\ BumpKeepsNeeded

\* No AUX entry has the name of a distfile or of an ebuild.
NamesApart ==
    \A n \in AuxNames : n \notin DistFiles /\ \A v \in Versions : n # EbuildFile(v)

\* No command has lost an AUX entry in memory either.
AuxInMemory == pc # "idle" => Aux \subseteq mem

\* What covered says is still so: a command that began with a covering Manifest
\* has every needed entry, or has it still to download.
CoverageInMind ==
    /\ pc \in {"verify", "verifyClean"} /\ covered => Covers(disk, tree)
    /\ pc = "fix" /\ ~trouble => \A f \in Needed(tree) : HasDist(disk, f) \/ f \in todo
    /\ pc = "bump" /\ covered /\ ~trouble => \A f \in Needed(tree) : HasDist(mem, f) \/ f \in todo

\* The part of the invariant that holds where names are apart.
ApartInv == AuxEntriesKept /\ AuxInMemory /\ CoverageInMind

-----------------------------------------------------------------------------
(* The methods of Manifest.                                                *)

\* AddOrReplace puts the entry in, and takes at most one of its name out.
LEMMA AddOrReplaceKeeps ==
    ASSUME NEW m, NEW f, NEW new \in AddOrReplace(m, Entry("DIST", f))
    PROVE  /\ HasDist(new, f)
           /\ \A g : HasDist(m, g) => HasDist(new, g)
           /\ \A e \in m : e.file # f => e \in new
           /\ new \subseteq m \cup {Entry("DIST", f)}
  BY DEF AddOrReplace, HasDist, HasEntry, Entry

\* Remove takes out what has one of the names and nothing else.
LEMMA RemoveKeeps ==
    ASSUME NEW m, NEW files
    PROVE  /\ Remove(m, files) \subseteq m
           /\ \A e \in m : e.file \notin files => e \in Remove(m, files)
           /\ \A f : f \notin files /\ HasDist(m, f) => HasDist(Remove(m, files), f)
  BY DEF Remove, HasDist, Entry

\* The cleaning keeps the entry of every distfile an ebuild needs.
LEMMA CleanKeepsNeeded ==
    ASSUME NEW m, NEW t
    PROVE  /\ CleanManifest(m, t) \subseteq m
           /\ \A f \in Needed(t) : HasDist(m, f) => HasDist(CleanManifest(m, t), f)
  BY RemoveKeeps DEF CleanManifest

\* Where names are apart, it keeps the AUX entries too.
LEMMA CleanKeepsAux ==
    ASSUME NamesApart, NEW m \in SUBSET Entries, Aux \subseteq m, NEW t
    PROVE  Aux \subseteq CleanManifest(m, t)
  <1> DEFINE gone == {e.file : e \in {x \in m :
                         /\ x.type \in {"DIST", "EBUILD"}
                         /\ x.file \notin Needed(t) \cup EbuildFiles(t)}}
  <1> SUFFICES ASSUME NEW n \in AuxNames PROVE Entry("AUX", n) \in CleanManifest(m, t)
    BY DEF Aux
  <1>1. n \notin gone
    <2> SUFFICES ASSUME NEW e \in m, e.type \in {"DIST", "EBUILD"} PROVE e.file # n
      OBVIOUS
    <2>1. \/ \E f \in DistFiles : e = Entry("DIST", f)
          \/ \E v \in Versions : e = Entry("EBUILD", EbuildFile(v))
      BY DEF Entries, Aux, Entry
    <2> QED
      BY <2>1 DEF NamesApart, Entry
  <1>2. Entry("AUX", n) \in m /\ Entry("AUX", n).file = n
    BY DEF Aux, Entry
  <1> QED
    BY <1>1, <1>2, RemoveKeeps DEF CleanManifest

\* Where names are apart, an entry with the name of a distfile is a DIST entry.
LEMMA EntryIsDist ==
    ASSUME NamesApart, NEW m \in SUBSET Entries, NEW f \in DistFiles, HasEntry(m, f)
    PROVE  HasDist(m, f)
  <1>1. PICK e \in m : e.file = f
    BY DEF HasEntry
  <1>2. \A v \in Versions : EbuildFile(v) \notin DistFiles
    BY DEF EbuildFile, DistFiles, Uris
  <1>3. \/ \E n \in AuxNames : e = Entry("AUX", n)
        \/ \E g \in DistFiles : e = Entry("DIST", g)
        \/ \E v \in Versions : e = Entry("EBUILD", EbuildFile(v))
    BY DEF Entries, Aux
  <1>4. e = Entry("DIST", f)
    BY <1>1, <1>2, <1>3 DEF Entry, NamesApart
  <1> QED
    BY <1>4 DEF HasDist

-----------------------------------------------------------------------------
(* What ebuilds need.                                                      *)

\* The distfiles an ebuild may name.
LEMMA UrisAreDistFiles ==
    ASSUME NEW forms \in Forms, NEW v \in Versions
    PROVE  Uris(forms, v) \subseteq DistFiles /\ Uris(forms, <<v[1], 0>>) \subseteq DistFiles
  <1> DEFINE both == Uris(forms, v) \cup Uris(forms, <<v[1], 0>>)
             all == {Uris(fs, u) \cup Uris(fs, <<u[1], 0>>) : fs \in Forms, u \in Versions}
  <1>1. both \in all
    OBVIOUS
  <1>2. DistFiles = UNION all
    BY DEF DistFiles
  <1> HIDE DEF all
  <1>3. both \subseteq UNION all
    BY <1>1
  <1> QED
    BY <1>2, <1>3

\* Every ebuild's URIs, under either value of PV, name distfiles.
LEMMA NeededAreDistFiles ==
    ASSUME Types
    PROVE  /\ Needed(tree) \subseteq DistFiles
           /\ \A v \in Versions, w \in Versions :
                 tree[v] # NoEbuild => Uris(tree[v], w) \subseteq DistFiles
  <1>1. \A forms \in Forms, v \in Versions :
            Uris(forms, v) \subseteq DistFiles /\ Uris(forms, <<v[1], 0>>) \subseteq DistFiles
    BY UrisAreDistFiles
  <1>2. \A v \in Versions : tree[v] # NoEbuild => tree[v] \in Forms
    BY DEF Types
  <1> QED
    BY <1>1, <1>2 DEF Needed, UrisOf

\* After a rename, the distfiles needed are those of the renamed ebuild under
\* its new name, and those the others needed before.
LEMMA NeededAfterRename ==
    ASSUME Types, NEW v \in Versions, NEW w \in Versions, tree[v] # NoEbuild
    PROVE  LET others == Needed([Renamed(v, w) EXCEPT ![w] = NoEbuild])
           IN  /\ Renamed(v, w) \in [Versions -> Forms \cup {NoEbuild}]
               /\ Needed(Renamed(v, w)) \subseteq Uris(tree[v], <<w[1], 0>>) \cup others
               /\ others \subseteq Needed(tree)
  <1> DEFINE new == Renamed(v, w)
             without == [new EXCEPT ![w] = NoEbuild]
  <1>1. /\ new \in [Versions -> Forms \cup {NoEbuild}]
        /\ new[w] = tree[v]
        /\ \A u \in Versions : u # w => new[u] = IF u = v THEN NoEbuild ELSE tree[u]
    BY DEF Types, Renamed
  <1> HIDE DEF new
  <1>2. /\ without[w] = NoEbuild
        /\ \A u \in Versions : u # w => without[u] = new[u]
    BY <1>1
  <1> HIDE DEF without
  <1>3. Needed(new) \subseteq Uris(tree[v], <<w[1], 0>>) \cup Needed(without)
    <2> SUFFICES ASSUME NEW u \in Versions, NEW f \in UrisOf(new, u)
                 PROVE  f \in Uris(tree[v], <<w[1], 0>>) \cup Needed(without)
      BY DEF Needed
    <2>1. CASE u = w
      BY <1>1, <2>1 DEF UrisOf
    <2>2. CASE u # w
      BY <1>2, <2>2 DEF UrisOf, Needed
    <2> QED
      BY <2>1, <2>2
  <1>4. Needed(without) \subseteq Needed(tree)
    <2> SUFFICES ASSUME NEW u \in Versions, NEW f \in UrisOf(without, u)
                 PROVE  f \in UrisOf(tree, u)
      BY DEF Needed
    <2>1. without[u] # NoEbuild
      BY DEF UrisOf
    <2>2. without[u] = tree[u]
      BY <1>1, <1>2, <2>1
    <2> QED
      BY <2>2 DEF UrisOf
  <1> QED
    BY <1>1, <1>3, <1>4 DEF new, without

\* What a bump to a version without a revision drops is not needed after it.
LEMMA ObsoleteIsNotNeeded ==
    ASSUME Types, NEW v \in Versions, NEW w \in Versions, tree[v] # NoEbuild, ~(w[2] > 0)
    PROVE  /\ Needed(Renamed(v, w)) \cap Obsolete(v, w) = {}
           /\ Needed(Renamed(v, w)) \subseteq Uris(tree[v], w) \cup Needed(tree)
  <1>1. <<w[1], 0>> = w
    BY ManifestAssumption
  <1> QED
    BY <1>1, NeededAfterRename DEF Obsolete

-----------------------------------------------------------------------------
(* The inductive invariant.                                                *)

\* The initial states.
LEMMA InitIInv == Init => IInv
  <1> SUFFICES ASSUME Init PROVE IInv
    OBVIOUS
  <1>1. Types
    <2>1. Needed(tree) \subseteq DistFiles
      <3>1. tree \in [Versions -> Forms \cup {NoEbuild}]
        BY DEF Init
      <3>2. \A v \in Versions : UrisOf(tree, v) \subseteq DistFiles
        BY <3>1, UrisAreDistFiles DEF UrisOf
      <3> QED
        BY <3>2 DEF Needed
    <2>2. EbuildFiles(tree) \subseteq {EbuildFile(v) : v \in Versions}
      BY DEF EbuildFiles
    <2> QED
      BY <2>1, <2>2 DEF Init, Types, Entries
  <1> QED
    BY <1>1 DEF Init, IInv, LoadedIsCurrent, BumpKeepsNeeded

\* An entry that is added leaves a set of entries.
LEMMA UpsertTypes ==
    ASSUME NEW m \in SUBSET Entries, NEW f \in DistFiles,
           NEW new \in AddOrReplace(m, Entry("DIST", f))
    PROVE  new \subseteq Entries
  BY AddOrReplaceKeeps DEF Entries

\* The start of a bump.
LEMMA BumpIInv ==
    ASSUME IInv, NEW v \in Versions, NEW w \in Versions, Bump(v, w)
    PROVE  IInv'
  <1>0. Types
    BY DEF IInv
  <1>1. /\ tree[v] # NoEbuild /\ tree' = Renamed(v, w)
        /\ mem' = Remove(disk, Obsolete(v, w))
        /\ todo' \subseteq Uris(tree[v], w)
        /\ pc' = (IF w[2] > 0 THEN "bumpRevision" ELSE "bump")
        /\ disk' = disk
    BY DEF Bump
  <1>2. Types'
    BY <1>0, <1>1, NeededAfterRename, NeededAreDistFiles, RemoveKeeps DEF Types
  <1>3. LoadedIsCurrent'
    BY <1>1 DEF LoadedIsCurrent
  <1>4. BumpKeepsNeeded'
    <2> SUFFICES ASSUME pc' = "bump", NEW f \in Needed(Renamed(v, w)), HasDist(disk, f)
                 PROVE  HasDist(mem', f)
      BY <1>1 DEF BumpKeepsNeeded
    <2>1. f \notin Obsolete(v, w)
      BY <1>0, <1>1, ObsoleteIsNotNeeded
    <2> QED
      BY <1>1, <2>1, RemoveKeeps
  <1> QED
    BY <1>2, <1>3, <1>4 DEF IInv

\* Every step keeps the invariant.
LEMMA NextIInv == IInv /\ [Next]_vars => IInv'
  <1> SUFFICES ASSUME IInv, [Next]_vars PROVE IInv'
    OBVIOUS
  <1>0. Types /\ LoadedIsCurrent /\ BumpKeepsNeeded
    BY DEF IInv
  <1>1. ASSUME NEW v \in Versions, AddEbuild(v) \/ DeleteEbuild(v)
        PROVE  IInv'
    <2>1. /\ pc = "idle" /\ UNCHANGED <<disk, mem, pc, todo>>
          /\ tree' \in [Versions -> Forms \cup {NoEbuild}]
      BY <1>0, <1>1 DEF AddEbuild, DeleteEbuild, Types
    <2> QED
      BY <1>0, <2>1 DEF IInv, Types, LoadedIsCurrent, BumpKeepsNeeded
  <1>2. ASSUME NEW f \in DistFiles, UpsertFromUrl(f)
        PROVE  IInv'
    <2>1. /\ pc = "idle" /\ UNCHANGED <<tree, mem, pc, todo>>
          /\ disk' \subseteq Entries
      BY <1>0, <1>2, UpsertTypes DEF UpsertFromUrl, Types
    <2> QED
      BY <1>0, <2>1 DEF IInv, Types, LoadedIsCurrent, BumpKeepsNeeded
  <1>3. ASSUME NEW f \in DistFiles, FixEntry(f)
        PROVE  IInv'
    <2>1. /\ pc \in {"fix", "fixClean"} /\ UNCHANGED <<tree, mem, pc>>
          /\ todo' \subseteq todo /\ disk' \subseteq Entries
      BY <1>0, <1>3, UpsertTypes DEF FixEntry, Types
    <2> QED
      BY <1>0, <2>1 DEF IInv, Types, LoadedIsCurrent, BumpKeepsNeeded
  <1>4. ASSUME NEW f \in DistFiles, BumpFetch(f)
        PROVE  IInv'
    <2>1. /\ pc \in {"bump", "bumpRevision"} /\ UNCHANGED <<tree, disk, pc>>
          /\ todo' \subseteq todo
          /\ mem' = mem \/ mem' \in AddOrReplace(mem, Entry("DIST", f))
      BY <1>4 DEF BumpFetch
    <2>2. mem' \subseteq Entries /\ \A g : HasDist(mem, g) => HasDist(mem', g)
      BY <1>0, <2>1, UpsertTypes, AddOrReplaceKeeps DEF Types
    <2> QED
      BY <1>0, <2>1, <2>2 DEF IInv, Types, LoadedIsCurrent, BumpKeepsNeeded
  <1>5. ASSUME NEW fix \in BOOLEAN, NEW clean \in BOOLEAN, Verify(fix, clean)
        PROVE  IInv'
    <2>1. /\ mem' = disk /\ UNCHANGED <<tree, disk>>
          /\ todo' \subseteq Needed(tree)
          /\ pc' \in {"verify", "fix", "verifyClean", "fixClean"}
      BY <1>5 DEF Verify
    <2>2. todo' \subseteq DistFiles
      BY <1>0, <2>1, NeededAreDistFiles
    <2> QED
      BY <1>0, <2>1, <2>2 DEF IInv, Types, LoadedIsCurrent, BumpKeepsNeeded
  <1>6. ASSUME NEW v \in Versions, NEW w \in Versions, BumpTag(v, w)
        PROVE  IInv'
    <2>1. /\ pc = "idle" /\ UNCHANGED <<disk, mem, pc, todo>>
          /\ tree' \in [Versions -> Forms \cup {NoEbuild}]
      BY <1>0, <1>6, NeededAfterRename DEF BumpTag
    <2> QED
      BY <1>0, <2>1 DEF IInv, Types, LoadedIsCurrent, BumpKeepsNeeded
  <1>7. ASSUME NEW v \in Versions, <<v[1], 1>> \in Versions, BumpRevision(v)
        PROVE  IInv'
    BY <1>7, BumpIInv DEF BumpRevision
  <1>8. CASE Clean
    <2>1. /\ pc = "idle" /\ UNCHANGED <<tree, mem, pc, todo>>
          /\ disk' \subseteq disk
      BY <1>8, CleanKeepsNeeded DEF Clean
    <2> QED
      BY <1>0, <2>1 DEF IInv, Types, LoadedIsCurrent, BumpKeepsNeeded
  <1>9. CASE VerifyEnds \/ BumpEnds
    <2>1. /\ pc' = "idle" /\ mem' = {} /\ UNCHANGED <<tree, todo>>
          /\ disk' \subseteq disk \cup mem
      BY <1>9, CleanKeepsNeeded DEF VerifyEnds, BumpEnds
    <2> QED
      BY <1>0, <2>1 DEF IInv, Types, LoadedIsCurrent, BumpKeepsNeeded
  <1>10. CASE UNCHANGED vars
    BY <1>0, <1>10 DEF vars, IInv, Types, LoadedIsCurrent, BumpKeepsNeeded
  <1> QED
    BY <1>1, <1>2, <1>3, <1>4, <1>5, <1>6, <1>7, <1>8, <1>9, <1>10, BumpIInv DEF Next

\* The invariant, for every instance.
THEOREM SpecIInv == Spec => []IInv
  BY InitIInv, NextIInv, PTL DEF Spec

\* No command takes out the entry of a distfile that an ebuild needs before
\* and after it, but for a bump to a revision and verify -fix -clean: whatever
\* the entries are called.
THEOREM NeededKept == Spec => NeededEntriesKept
  <1>1. ASSUME IInv, [Next]_vars, pc \notin {"bumpRevision", "fixClean"},
               NEW f \in Needed(tree) \cap Needed(tree'), HasDist(disk, f)
        PROVE  HasDist(disk', f)
    <2>0. LoadedIsCurrent /\ BumpKeepsNeeded
      BY <1>1 DEF IInv
    <2>1. CASE disk' = disk
      BY <1>1, <2>1
    <2>2. ASSUME NEW g \in DistFiles, UpsertFromUrl(g) \/ FixEntry(g)
          PROVE  HasDist(disk', f)
      BY <1>1, <2>2, AddOrReplaceKeeps DEF UpsertFromUrl, FixEntry
    <2>3. CASE Clean
      BY <1>1, <2>3, CleanKeepsNeeded DEF Clean
    <2>4. CASE VerifyEnds
      BY <1>1, <2>0, <2>4, CleanKeepsNeeded DEF VerifyEnds, LoadedIsCurrent
    <2>5. CASE BumpEnds
      BY <1>1, <2>0, <2>5 DEF BumpEnds, BumpKeepsNeeded
    <2> QED
      BY <1>1, <2>1, <2>2, <2>3, <2>4, <2>5
         DEF Next, AddEbuild, DeleteEbuild, BumpFetch, Verify, Bump, BumpTag, BumpRevision, vars
  <1>2. IInv /\ [Next]_vars =>
            [pc \notin {"bumpRevision", "fixClean"} =>
               \A f \in Needed(tree) \cap Needed(tree') : HasDist(disk, f) => HasDist(disk', f)]_vars
    BY <1>1
  <1> QED
    BY <1>2, SpecIInv, PTL DEF Spec, NeededEntriesKept

-----------------------------------------------------------------------------
(* Where no two entries of different types share a name.                   *)

\* The initial states.
LEMMA InitApart == Init => ApartInv
  BY DEF Init, ApartInv, AuxEntriesKept, AuxInMemory, CoverageInMind

\* An entry that is added takes out no AUX entry.
LEMMA UpsertKeepsAux ==
    ASSUME NamesApart, NEW m, Aux \subseteq m, NEW f \in DistFiles,
           NEW new \in AddOrReplace(m, Entry("DIST", f))
    PROVE  Aux \subseteq new
  <1> SUFFICES ASSUME NEW n \in AuxNames PROVE Entry("AUX", n) \in new
    BY DEF Aux
  <1>1. Entry("AUX", n) \in m /\ Entry("AUX", n).file # f
    BY DEF Aux, Entry, NamesApart
  <1> QED
    BY <1>1, AddOrReplaceKeeps

\* A bump drops no AUX entry, and has in mind what the ebuilds will need.
LEMMA BumpApart ==
    ASSUME NamesApart, IInv, ApartInv, NEW v \in Versions, NEW w \in Versions, Bump(v, w)
    PROVE  ApartInv'
  <1>0. Types /\ Aux \subseteq disk
    BY DEF IInv, ApartInv, AuxEntriesKept
  <1>1. /\ tree[v] # NoEbuild /\ tree' = Renamed(v, w)
        /\ mem' = Remove(disk, Obsolete(v, w))
        /\ todo' = {f \in Uris(tree[v], w) : ~HasEntry(mem', f)}
        /\ pc' = (IF w[2] > 0 THEN "bumpRevision" ELSE "bump")
        /\ disk' = disk /\ covered' = Covers(disk, tree)
    BY DEF Bump
  <1>2. Obsolete(v, w) \subseteq DistFiles
    <2>1. Uris(tree[v], <<v[1], 0>>) \subseteq DistFiles
      BY <1>0, <1>1, UrisAreDistFiles DEF Types
    <2> QED
      BY <2>1 DEF Obsolete
  <1>3. AuxEntriesKept' /\ AuxInMemory'
    <2>1. \A n \in AuxNames : Entry("AUX", n) \in disk /\ Entry("AUX", n).file \notin Obsolete(v, w)
      BY <1>0, <1>2 DEF Aux, Entry, NamesApart
    <2>2. Aux \subseteq mem'
      BY <1>1, <2>1, RemoveKeeps DEF Aux
    <2> QED
      BY <1>0, <1>1, <2>2 DEF AuxEntriesKept, AuxInMemory
  <1>4. CoverageInMind'
    <2> SUFFICES ASSUME pc' = "bump", covered', NEW f \in Needed(Renamed(v, w)), f \notin todo'
                 PROVE  HasDist(mem', f)
      BY <1>1 DEF CoverageInMind
    <2>1. /\ f \notin Obsolete(v, w)
          /\ f \in Uris(tree[v], w) \/ f \in Needed(tree)
      BY <1>0, <1>1, ObsoleteIsNotNeeded
    <2>2. CASE f \in Needed(tree)
      BY <1>1, <2>1, <2>2, RemoveKeeps DEF Covers
    <2>3. CASE f \in Uris(tree[v], w)
      <3>1. HasEntry(mem', f) /\ f \in DistFiles
        BY <1>0, <1>1, <2>3, NeededAreDistFiles
      <3>2. mem' \in SUBSET Entries
        BY <1>0, <1>1, RemoveKeeps DEF Types
      <3> QED
        BY <3>1, <3>2, EntryIsDist
    <2> QED
      BY <2>1, <2>2, <2>3
  <1> QED
    BY <1>3, <1>4 DEF ApartInv

\* Every step keeps it.
LEMMA NextApart == NamesApart /\ IInv /\ ApartInv /\ [Next]_vars => ApartInv'
  <1> SUFFICES ASSUME NamesApart, IInv, ApartInv, [Next]_vars PROVE ApartInv'
    OBVIOUS
  <1>0. /\ Types /\ LoadedIsCurrent
        /\ Aux \subseteq disk /\ AuxInMemory /\ CoverageInMind
    BY DEF IInv, ApartInv, AuxEntriesKept
  <1> USE DEF ApartInv, AuxEntriesKept
  <1>1. ASSUME NEW v \in Versions, NEW w \in Versions,
               AddEbuild(v) \/ DeleteEbuild(v) \/ BumpTag(v, w)
        PROVE  ApartInv'
    <2>1. pc = "idle" /\ UNCHANGED <<disk, pc>>
      BY <1>1 DEF AddEbuild, DeleteEbuild, BumpTag
    <2> QED
      BY <1>0, <2>1 DEF AuxInMemory, CoverageInMind
  <1>2. ASSUME NEW f \in DistFiles, UpsertFromUrl(f)
        PROVE  ApartInv'
    <2>1. /\ pc = "idle" /\ UNCHANGED pc
          /\ disk' = disk \/ disk' \in AddOrReplace(disk, Entry("DIST", f))
      BY <1>2 DEF UpsertFromUrl
    <2>2. Aux \subseteq disk'
      BY <1>0, <2>1, UpsertKeepsAux
    <2> QED
      BY <2>1, <2>2 DEF AuxInMemory, CoverageInMind
  <1>3. ASSUME NEW f \in DistFiles, FixEntry(f)
        PROVE  ApartInv'
    <2>1. /\ pc \in {"fix", "fixClean"} /\ UNCHANGED <<tree, mem, pc>> /\ todo' = todo \ {f}
          /\ \/ disk' = disk /\ trouble' = TRUE
             \/ disk' \in AddOrReplace(disk, Entry("DIST", f)) /\ trouble' = trouble
      BY <1>3 DEF FixEntry
    <2>2. Aux \subseteq disk' /\ AuxInMemory'
      BY <1>0, <2>1, UpsertKeepsAux DEF AuxInMemory
    <2>3. CoverageInMind'
      BY <1>0, <2>1, AddOrReplaceKeeps DEF CoverageInMind
    <2> QED
      BY <2>2, <2>3
  <1>4. ASSUME NEW f \in DistFiles, BumpFetch(f)
        PROVE  ApartInv'
    <2>1. /\ pc \in {"bump", "bumpRevision"} /\ UNCHANGED <<tree, disk, pc, covered>> /\ todo' = todo \ {f}
          /\ \/ mem' = mem /\ trouble' = TRUE
             \/ mem' \in AddOrReplace(mem, Entry("DIST", f)) /\ trouble' = trouble
      BY <1>4 DEF BumpFetch
    <2>2. Aux \subseteq disk' /\ AuxInMemory'
      BY <1>0, <2>1, UpsertKeepsAux DEF AuxInMemory
    <2>3. CoverageInMind'
      BY <1>0, <2>1, AddOrReplaceKeeps DEF CoverageInMind
    <2> QED
      BY <2>2, <2>3
  <1>5. ASSUME NEW fix \in BOOLEAN, NEW clean \in BOOLEAN, Verify(fix, clean)
        PROVE  ApartInv'
    <2>1. /\ mem' = disk /\ UNCHANGED <<tree, disk>>
          /\ todo' = IF fix THEN {f \in Needed(tree) : ~HasEntry(disk, f)} ELSE {}
          /\ pc' = IF clean THEN IF fix THEN "fixClean" ELSE "verifyClean"
                            ELSE IF fix THEN "fix" ELSE "verify"
          /\ covered' = (fix \/ Covers(disk, tree))
      BY <1>5 DEF Verify
    <2>2. Aux \subseteq disk' /\ AuxInMemory'
      BY <1>0, <2>1 DEF AuxInMemory
    <2>3. CASE fix
      <3>1. \A f \in Needed(tree) : HasDist(disk, f) \/ f \in todo'
        BY <1>0, <2>1, <2>3, EntryIsDist, NeededAreDistFiles DEF Types
      <3> QED
        BY <2>1, <2>2, <2>3, <3>1 DEF CoverageInMind
    <2>4. CASE ~fix
      BY <2>1, <2>2, <2>4 DEF CoverageInMind
    <2> QED
      BY <2>3, <2>4
  <1>6. CASE Clean
    <2>1. pc = "idle" /\ UNCHANGED pc /\ disk' = CleanManifest(disk, tree)
      BY <1>6 DEF Clean
    <2>2. Aux \subseteq disk'
      BY <1>0, <2>1, CleanKeepsAux DEF Types
    <2> QED
      BY <2>1, <2>2 DEF AuxInMemory, CoverageInMind
  <1>7. CASE VerifyEnds \/ BumpEnds
    <2>1. /\ pc # "idle" /\ pc' = "idle"
          /\ disk' \in {disk, mem, CleanManifest(mem, tree)}
      BY <1>7 DEF VerifyEnds, BumpEnds
    <2>2. Aux \subseteq disk'
      BY <1>0, <2>1, CleanKeepsAux DEF Types, AuxInMemory
    <2> QED
      BY <2>1, <2>2 DEF AuxInMemory, CoverageInMind
  <1>8. CASE UNCHANGED vars
    BY <1>0, <1>8 DEF vars, AuxInMemory, CoverageInMind
  <1> QED
    BY <1>1, <1>2, <1>3, <1>4, <1>5, <1>6, <1>7, <1>8, BumpApart DEF Next, BumpRevision

\* The invariant, for every instance whose names are apart.
THEOREM SpecApart == ASSUME NamesApart PROVE Spec => []ApartInv
  <1>1. Init => ApartInv
    BY InitApart
  <1>2. IInv /\ ApartInv /\ [Next]_vars => ApartInv'
    BY NextApart
  <1> QED
    BY <1>1, <1>2, SpecIInv, PTL DEF Spec

\* Then no command loses an AUX entry.
THEOREM AuxKept == ASSUME NamesApart PROVE Spec => []AuxEntriesKept
  <1>1. ApartInv => AuxEntriesKept
    BY DEF ApartInv
  <1> QED
    BY <1>1, SpecApart, PTL

\* And the Manifest goes on covering the ebuilds through every command but
\* verify -fix -clean, a bump to a revision and bump -tag: a download that
\* fails is the only other way that it may not.
THEOREM CoverageKept == ASSUME NamesApart PROVE Spec => CommandsKeepCoverage
  <1>1. ASSUME IInv, ApartInv, [Next]_vars,
               pc \in {"verify", "fix", "verifyClean", "bump"}, pc' = "idle", covered, ~trouble
        PROVE  Covers(disk', tree')
    <2>0. LoadedIsCurrent /\ CoverageInMind
      BY <1>1 DEF IInv, ApartInv
    <2>1. VerifyEnds \/ BumpEnds
      BY <1>1 DEF Next, AddEbuild, DeleteEbuild, UpsertFromUrl, FixEntry, BumpFetch, Verify, Bump,
             BumpTag, BumpRevision, Clean, vars
    <2>2. CASE VerifyEnds
      <3>1. /\ pc \in {"verify", "fix", "verifyClean"} /\ todo = {} /\ tree' = tree
            /\ disk' = IF pc = "verifyClean" THEN CleanManifest(mem, tree) ELSE disk
        BY <1>1, <2>2 DEF VerifyEnds
      <3>2. CASE pc = "fix"
        BY <1>1, <2>0, <3>1, <3>2 DEF CoverageInMind, Covers
      <3>3. CASE pc # "fix"
        BY <1>1, <2>0, <3>1, <3>3, CleanKeepsNeeded DEF CoverageInMind, Covers, LoadedIsCurrent
      <3> QED
        BY <3>2, <3>3
    <2>3. CASE BumpEnds
      BY <1>1, <2>0, <2>3 DEF BumpEnds, CoverageInMind, Covers
    <2> QED
      BY <2>1, <2>2, <2>3
  <1>2. ASSUME IInv, [Next]_vars, pc = "idle", pc' = "idle", tree' = tree, Covers(disk, tree)
        PROVE  Covers(disk', tree')
    <2>1. \/ \E f \in DistFiles : UpsertFromUrl(f)
          \/ Clean
          \/ disk' = disk
      BY <1>2 DEF Next, AddEbuild, DeleteEbuild, FixEntry, BumpFetch, Verify, Bump,
             BumpTag, BumpRevision, VerifyEnds, BumpEnds, vars
    <2>2. ASSUME NEW f \in DistFiles, UpsertFromUrl(f)
          PROVE  Covers(disk', tree')
      <3>1. disk' \in AddOrReplace(disk, Entry("DIST", f)) \/ disk' = disk
        BY <2>2 DEF UpsertFromUrl
      <3>2. \A g \in Needed(tree) : HasDist(disk, g) => HasDist(disk', g)
        BY <3>1, AddOrReplaceKeeps
      <3> QED
        BY <1>2, <3>2 DEF Covers
    <2>3. CASE Clean
      BY <1>2, <2>3, CleanKeepsNeeded DEF Clean, Covers
    <2> QED
      BY <1>2, <2>1, <2>2, <2>3 DEF Covers
  <1>3. IInv /\ ApartInv /\ [Next]_vars =>
            [(\/ pc \in {"verify", "fix", "verifyClean", "bump"} /\ pc' = "idle" /\ covered /\ ~trouble
              \/ pc = "idle" /\ pc' = "idle" /\ tree' = tree /\ Covers(disk, tree))
               => Covers(disk', tree')]_vars
    BY <1>1, <1>2
  <1> QED
    BY <1>3, SpecIInv, SpecApart, PTL DEF Spec, CommandsKeepCoverage
=============================================================================
