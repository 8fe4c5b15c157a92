------------------------------ MODULE Manifest ------------------------------
(***************************************************************************)
(* The Manifest of one package directory and the commands that change it:  *)
(* "g2 manifest upsert-from-url", "verify" with its -fix and -clean flags, *)
(* "clean" (manifest.go, manifestutil.go, manifest_clean.go and            *)
(* cmd/g2/main.go) and "g2 ebuild bump-version"                            *)
(* (cmd/g2/ebuild_bump_version.go), run one after the other by a user who  *)
(* also adds and deletes ebuilds.                                          *)
(*                                                                         *)
(* A version is a pair <<base, revision>>.  An ebuild is abstracted to the *)
(* forms of its SRC_URI: "ver" names a distfile after ${PV}, "fix" names   *)
(* the same one in every version.  A Manifest is a set of entries: their   *)
(* order and their hashes are left out, so that Sort is the identity, and  *)
(* where the code takes the first entry of a name the model takes any.     *)
(***************************************************************************)
EXTENDS Naturals, FiniteSets

CONSTANTS
    Versions,       \* the versions the package may have
    Forms,          \* the SRC_URI forms an ebuild may have: a set of sets
    AuxNames        \* the names of the AUX entries, files of the package

ASSUME ManifestAssumption ==
    /\ Versions \subseteq Nat \X Nat
    /\ Forms \subseteq SUBSET {"ver", "fix"}

VARIABLES
    tree,      \* the ebuilds in the directory
    disk,      \* the entries of the Manifest file
    mem,       \* the entries a running command has in memory
    pc,        \* the running command, or "idle"
    todo,      \* the distfiles it still has to download
    covered,   \* whether its start found every needed entry in the Manifest
    trouble    \* whether a download of the latest command failed

vars == <<tree, disk, mem, pc, todo, covered, trouble>>

NoEbuild == {"absent"}
Present == {v \in Versions : tree[v] # NoEbuild}

\* What ExtractURIs yields for an ebuild's forms and a value of PV: PV has no
\* revision when ParseEbuildVariables reads it from a file name.
Uris(forms, pv) ==
    {IF form = "ver" THEN <<"ver", pv[1], pv[2]>> ELSE <<"fix", 0, 0>> : form \in forms}

UrisOf(t, v) == IF t[v] = NoEbuild THEN {} ELSE Uris(t[v], <<v[1], 0>>)
Needed(t) == UNION {UrisOf(t, v) : v \in Versions}

DistFiles == UNION {Uris(forms, v) \cup Uris(forms, <<v[1], 0>>) :
                        forms \in Forms, v \in Versions}

Entry(type, file) == [type |-> type, file |-> file]
Aux == {Entry("AUX", n) : n \in AuxNames}
EbuildFile(v) == <<"ebuild", v[1], v[2]>>
EbuildFiles(t) == {EbuildFile(v) : v \in {w \in Versions : t[w] # NoEbuild}}
Entries == Aux \cup {Entry("DIST", f) : f \in DistFiles}
               \cup {Entry("EBUILD", EbuildFile(v)) : v \in Versions}

-----------------------------------------------------------------------------
(* The methods of Manifest.                                                *)

HasEntry(m, file) == \E e \in m : e.file = file
HasDist(m, file) == Entry("DIST", file) \in m

\* AddOrReplace replaces one entry of that file name, whatever its type.
AddOrReplace(m, e) ==
    IF HasEntry(m, e.file)
    THEN {(m \ {old}) \cup {e} : old \in {o \in m : o.file = e.file}}
    ELSE {m \cup {e}}

\* Remove drops the entries of that file name, whatever their type.
Remove(m, files) == {e \in m : e.file \notin files}

\* Bug variant: every entry that no ebuild accounts for is removed.
CleanAllTypes(m, t) ==
    Remove(m, {e.file : e \in m} \ (Needed(t) \cup EbuildFiles(t)))

CleanManifest(m, t) ==
    Remove(m, {e.file : e \in {x \in m :
                /\ x.type \in {"DIST", "EBUILD"}
                /\ x.file \notin Needed(t) \cup EbuildFiles(t)}})

Covers(m, t) == \A f \in Needed(t) : HasDist(m, f)

TypeOK ==
    /\ tree \in [Versions -> Forms \cup {NoEbuild}]
    /\ disk \subseteq Entries /\ mem \subseteq Entries
    /\ pc \in {"idle", "verify", "fix", "verifyClean", "fixClean", "bump", "bumpRevision"}
    /\ todo \subseteq DistFiles
    /\ {covered, trouble} \subseteq BOOLEAN

\* A Manifest that a developer generated for the ebuilds that are there, with
\* or without EBUILD entries.
Init ==
    /\ tree \in [Versions -> Forms \cup {NoEbuild}]
    /\ \E thick \in BOOLEAN :
          disk = Aux \cup {Entry("DIST", f) : f \in Needed(tree)}
                     \cup {Entry("EBUILD", n) : n \in IF thick THEN EbuildFiles(tree) ELSE {}}
    /\ mem = {} /\ pc = "idle" /\ todo = {}
    /\ covered = TRUE /\ trouble = FALSE

-----------------------------------------------------------------------------
(* The user's own edits, and the manifest commands.                        *)

AddEbuild(v) ==
    /\ pc = "idle" /\ tree[v] = NoEbuild
    /\ \E forms \in Forms : tree' = [tree EXCEPT ![v] = forms]
    /\ UNCHANGED <<disk, mem, pc, todo, covered, trouble>>

DeleteEbuild(v) ==
    /\ pc = "idle" /\ tree[v] # NoEbuild
    /\ tree' = [tree EXCEPT ![v] = NoEbuild]
    /\ UNCHANGED <<disk, mem, pc, todo, covered, trouble>>

\* upsert-from-url: without its download the Manifest is not touched.
UpsertFromUrl(f) ==
    /\ pc = "idle"
    /\ covered' = Covers(disk, tree)
    /\ \/ disk' \in AddOrReplace(disk, Entry("DIST", f)) /\ trouble' = FALSE
       \/ disk' = disk /\ trouble' = TRUE
    /\ UNCHANGED <<tree, mem, pc, todo>>

Clean ==
    /\ pc = "idle"
    /\ covered' = Covers(disk, tree) /\ trouble' = FALSE
    /\ disk' = CleanManifest(disk, tree)
    /\ UNCHANGED <<tree, mem, pc, todo>>

\* verify loads the Manifest once; -fix goes through the URIs it misses.
Verify(fix, clean) ==
    /\ pc = "idle"
    /\ mem' = disk
    /\ todo' = IF fix THEN {f \in Needed(tree) : ~HasEntry(disk, f)} ELSE {}
    /\ pc' = IF clean THEN IF fix THEN "fixClean" ELSE "verifyClean"
                      ELSE IF fix THEN "fix" ELSE "verify"
    /\ covered' = (fix \/ Covers(disk, tree)) /\ trouble' = FALSE
    /\ UNCHANGED <<tree, disk>>

\* One missing URI: its entry is upserted into the file, not into mem.
FixEntry(f) ==
    /\ pc \in {"fix", "fixClean"} /\ f \in todo
    /\ todo' = todo \ {f}
    /\ \/ disk' \in AddOrReplace(disk, Entry("DIST", f)) /\ UNCHANGED trouble
       \/ trouble' = TRUE /\ UNCHANGED disk
    /\ UNCHANGED <<tree, mem, pc, covered>>

\* -clean cleans the Manifest that was loaded and writes it.
VerifyEnds ==
    /\ pc \in {"verify", "fix", "verifyClean", "fixClean"} /\ todo = {}
    /\ disk' = IF pc \in {"verifyClean", "fixClean"} THEN CleanManifest(mem, tree) ELSE disk
    /\ pc' = "idle" /\ mem' = {}
    /\ UNCHANGED <<tree, todo, covered, trouble>>

-----------------------------------------------------------------------------
(* bump-version from v to w.  pc tells a bump to a version with a revision *)
(* from the others, because the two treat ${PV} differently.               *)

\* os.Rename: an ebuild that has the new name already is replaced.
Renamed(v, w) == [[tree EXCEPT ![v] = NoEbuild] EXCEPT ![w] = tree[v]]

\* Bug variant: the other ebuilds are not asked what they need.
ObsoleteForThis(v, w) == Uris(tree[v], <<v[1], 0>>) \ Uris(tree[v], w)

\* The old distfiles that neither the new version nor another ebuild uses.
\* PV of the new version is the text of the new version, revision included.
Obsolete(v, w) ==
    Uris(tree[v], <<v[1], 0>>) \
        (Uris(tree[v], w) \cup Needed([Renamed(v, w) EXCEPT ![w] = NoEbuild]))

\* -tag: only the file is renamed.
BumpTag(v, w) ==
    /\ pc = "idle" /\ tree[v] # NoEbuild
    /\ tree' = Renamed(v, w)
    /\ covered' = FALSE /\ trouble' = FALSE
    /\ UNCHANGED <<disk, mem, pc, todo>>

Bump(v, w) ==
    /\ pc = "idle" /\ tree[v] # NoEbuild
    /\ tree' = Renamed(v, w)
    /\ mem' = Remove(disk, Obsolete(v, w))
    /\ todo' = {f \in Uris(tree[v], w) : ~HasEntry(mem', f)}
    /\ pc' = IF w[2] > 0 THEN "bumpRevision" ELSE "bump"
    /\ covered' = Covers(disk, tree) /\ trouble' = FALSE
    /\ UNCHANGED disk

\* -revision increments the revision of PV, which never has one.
BumpRevision(v) == Bump(v, <<v[1], 1>>)

BumpFetch(f) ==
    /\ pc \in {"bump", "bumpRevision"} /\ f \in todo
    /\ todo' = todo \ {f}
    /\ \/ mem' \in AddOrReplace(mem, Entry("DIST", f)) /\ UNCHANGED trouble
       \/ trouble' = TRUE /\ UNCHANGED mem
    /\ UNCHANGED <<tree, disk, pc, covered>>

\* Bug variant: the Manifest is not written back.
BumpWithoutSave ==
    /\ pc \in {"bump", "bumpRevision"} /\ todo = {}
    /\ disk' = disk
    /\ pc' = "idle" /\ mem' = {}
    /\ UNCHANGED <<tree, todo, covered, trouble>>

BumpEnds ==
    /\ pc \in {"bump", "bumpRevision"} /\ todo = {}
    /\ disk' = mem
    /\ pc' = "idle" /\ mem' = {}
    /\ UNCHANGED <<tree, todo, covered, trouble>>

Next ==
    \/ \E v \in Versions : AddEbuild(v) \/ DeleteEbuild(v)
    \/ \E f \in DistFiles : UpsertFromUrl(f) \/ FixEntry(f) \/ BumpFetch(f)
    \/ \E fix, clean \in BOOLEAN : Verify(fix, clean)
    \/ \E v, w \in Versions : Bump(v, w) \/ BumpTag(v, w)
    \/ \E v \in Versions : <<v[1], 1>> \in Versions /\ BumpRevision(v)
    \/ Clean \/ VerifyEnds \/ BumpEnds

Spec == Init /\ [][Next]_vars

-----------------------------------------------------------------------------
\* No command takes the entry of a distfile out of the Manifest that an
\* ebuild of the directory needs before and after the command: neither the
\* commands that clean nor a bump, whose obsolete distfiles other versions may
\* share.  Two are left out.  A bump to a revision looks for the distfiles of
\* the new version under a ${PV} that includes the revision, and so drops those
\* that the ebuild does need; verify -fix -clean undoes what it fixed.
NeededEntriesKept ==
    [][pc \notin {"bumpRevision", "fixClean"} =>
         \A f \in Needed(tree) \cap Needed(tree') :
            HasDist(disk, f) => HasDist(disk', f)]_vars

\* A Manifest that covers the ebuilds still covers them after upsert-from-url
\* and clean, and after verify, with -fix or with -clean, and a bump to a plain
\* version whose downloads succeed; after verify -fix it does wherever it began.
\* Whatever edits and commands came before, those to revisions included.  The
\* commands this is not true of are left out: verify -fix -clean, which drops
\* what it fixed (FixedEntriesStay), a bump to a revision, which looks for the
\* wrong ${PV}, and bump -tag, which does not open the Manifest.
CommandsKeepCoverage ==
    [][(\/ pc \in {"verify", "fix", "verifyClean", "bump"} /\ pc' = "idle" /\ covered /\ ~trouble
        \/ pc = "idle" /\ pc' = "idle" /\ tree' = tree /\ Covers(disk, tree))
         => Covers(disk', tree')]_vars

\* Entries of other types belong to nobody here and are never lost.
AuxEntriesKept == Aux \subseteq disk

\* "-fix: Force fix missing manifest entries": what was fixed stays fixed
\* when the command ends.
FixedEntriesStay ==
    [][VerifyEnds => \A f \in Needed(tree) : HasDist(disk, f) => HasDist(disk', f)]_vars
=============================================================================
