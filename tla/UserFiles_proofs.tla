-------------------------- MODULE UserFiles_proofs --------------------------
(***************************************************************************)
(* The files of the user, whoever writes them and whatever is killed or    *)
(* fails.  The world file is what the last writer meant, as long as no two *)
(* processes write at the same time: for any number of processes, any      *)
(* lines and any bounds.  A key of the editor changes no line but the one  *)
(* the screen shows under the cursor, whatever the file, the filter and    *)
(* the size of the terminal are.  And no fragment of the user's            *)
(* configuration is ever torn, a command that runs alone adds or removes   *)
(* what it says: for any fragments, any atoms and any number of processes. *)
(***************************************************************************)
EXTENDS World, UserConfig, FiniteSetTheorems, FunctionTheorems, SequenceTheorems, WellFoundedInduction, TLAPS

\* A function on S, whatever its values.
FunctionOn(f, S) == f = [x \in S |-> f[x]]

\* The types of what the proofs look at.
Types ==
    /\ name \in [world : Files \cup {NoFile}, tmp : Files \cup {NoFile}]
    /\ FunctionOn(content, Files) /\ FunctionOn(buf, Procs)
    /\ FunctionOn(pc, Procs) /\ FunctionOn(fd, Procs)

\* One process writes at a time.
OneWriter == \A p, q \in Procs : Writing(p) /\ Writing(q) => p = q

\* The world file is one and the temporary file, if there is one, another.
TwoFiles == name.world # NoFile /\ name.tmp # name.world

\* The writer has the temporary file open, and nobody has taken away its name.
WritesTmp == \A p \in Procs : pc[p] \in {"write", "flush"} => fd[p] = name.tmp /\ name.tmp # NoFile

\* What a writer is about to rename is all it wanted to write.
TmpWhole == \A p \in Procs : pc[p] = "rename" => name.tmp # NoFile /\ content[name.tmp] = buf[p]

\* The inductive invariant.
IInv ==
    /\ Types
    /\ ~together => OneWriter /\ TwoFiles /\ WritesTmp /\ TmpWhole /\ content[name.world] = saved

-----------------------------------------------------------------------------
\* NoFile is no file, and there is a file to begin with.
LEMMA FilesFacts == NoFile \notin Files /\ 1 \in Files
  <1>1. IsFiniteSet(Procs)
    BY WorldAssumption, FS_AddElement DEF Procs
  <1>2. Cardinality(Procs) \in Nat
    BY <1>1, FS_CardinalityType
  <1> QED
    BY <1>2 DEF Files, NoFile

\* A process that moves to another place leaves the others where they are.
LEMMA MovesTo ==
    ASSUME FunctionOn(pc, Procs), NEW p \in Procs, NEW to, pc' = [pc EXCEPT ![p] = to]
    PROVE  FunctionOn(pc', Procs) /\ \A q \in Procs : pc'[q] = IF q = p THEN to ELSE pc[q]
  BY DEF FunctionOn

\* A file is written, and no other.
LEMMA FileWritten ==
    ASSUME FunctionOn(content, Files), NEW f \in Files, NEW lines, content' = [content EXCEPT ![f] = lines]
    PROVE  FunctionOn(content', Files) /\ \A g \in Files : content'[g] = IF g = f THEN lines ELSE content[g]
  BY DEF FunctionOn

\* Opening and closing concerns one process.
LEMMA Opens ==
    ASSUME FunctionOn(fd, Procs), NEW p \in Procs, NEW f, fd' = [fd EXCEPT ![p] = f]
    PROVE  FunctionOn(fd', Procs) /\ \A q \in Procs : fd'[q] = IF q = p THEN f ELSE fd[q]
  BY DEF FunctionOn

\* The places from which a process writes, or is about to.
WriterPlaces == {"create", "write", "flush", "rename"}

\* A process that stops writing, or that does nothing of the kind, disturbs
\* nobody who writes.
LEMMA StopKeeps ==
    ASSUME IInv, NEW p \in Procs, NEW to, to \notin WriterPlaces, pc' = [pc EXCEPT ![p] = to],
           FunctionOn(fd', Procs), \A q \in Procs : q # p => fd'[q] = fd[q],
           UNCHANGED <<content, buf, saved, together>>,
           \/ name' = name
           \/ Writing(p) /\ name' = [name EXCEPT !.tmp = NoFile]
    PROVE  IInv'
  <1>0. Types
    BY DEF IInv
  <1>1. FunctionOn(pc', Procs) /\ \A q \in Procs : pc'[q] = IF q = p THEN to ELSE pc[q]
    <2>1. FunctionOn(pc, Procs) /\ p \in Procs /\ pc' = [pc EXCEPT ![p] = to]
      BY <1>0 DEF Types
    <2> QED
      BY <2>1, MovesTo
  <1>2. Types'
    <2>1. name' \in [world : Files \cup {NoFile}, tmp : Files \cup {NoFile}]
      BY <1>0 DEF Types
    <2> QED
      BY <1>0, <1>1, <2>1 DEF Types
  <1>3. ASSUME ~together
        PROVE  OneWriter' /\ TwoFiles' /\ WritesTmp' /\ TmpWhole' /\ content'[name'.world] = saved'
    <2>1. OneWriter /\ TwoFiles /\ WritesTmp /\ TmpWhole /\ content[name.world] = saved
      BY <1>3 DEF IInv
    <2>2. \A q \in Procs : Writing(q)' => q # p /\ Writing(q) /\ pc'[q] = pc[q] /\ fd'[q] = fd[q]
      BY <1>1 DEF Writing, WriterPlaces
    <2>3. OneWriter'
      BY <2>1, <2>2 DEF OneWriter
    <2>4. name'.world = name.world /\ TwoFiles'
      BY <1>0, <2>1 DEF Types, TwoFiles
    <2>5. \A q \in Procs : Writing(q)' => name' = name
      BY <2>1, <2>2 DEF OneWriter
    <2>6. WritesTmp' /\ TmpWhole'
      <3> SUFFICES ASSUME NEW q \in Procs, Writing(q)'
                   PROVE  /\ pc'[q] \in {"write", "flush"} => fd'[q] = name'.tmp /\ name'.tmp # NoFile
                          /\ pc'[q] = "rename" => name'.tmp # NoFile /\ content'[name'.tmp] = buf'[q]
        BY DEF WritesTmp, TmpWhole, Writing
      <3> QED
        BY <2>1, <2>2, <2>5 DEF WritesTmp, TmpWhole
    <2> QED
      BY <2>1, <2>3, <2>4, <2>6
  <1> QED
    BY <1>2, <1>3 DEF IInv

\* A write begins: who sees no other writer is the only one.
LEMMA BeginKeeps ==
    ASSUME IInv, NEW p \in Procs, ~Writing(p), NEW lines, BeginWrite(p, lines),
           UNCHANGED <<disk, fd, saved>>
    PROVE  IInv'
  <1>0. /\ Types /\ UNCHANGED <<name, content, fd, saved>>
        /\ pc' = [pc EXCEPT ![p] = "create"] /\ buf' = [buf EXCEPT ![p] = lines]
        /\ together' = (together \/ \E q \in Procs \ {p} : Writing(q))
    BY DEF IInv, BeginWrite, disk
  <1>f. FunctionOn(content, Files) /\ FunctionOn(pc, Procs) /\ FunctionOn(fd, Procs)
    BY <1>0 DEF Types
  <1>1. FunctionOn(pc', Procs) /\ \A q \in Procs : pc'[q] = IF q = p THEN "create" ELSE pc[q]
    BY <1>0, <1>f, MovesTo
  <1>2. Types'
    BY <1>0, <1>1 DEF Types, FunctionOn
  <1>3. ASSUME ~together'
        PROVE  OneWriter' /\ TwoFiles' /\ WritesTmp' /\ TmpWhole' /\ content'[name'.world] = saved'
    <2>1. ~together /\ TwoFiles /\ content[name.world] = saved
      BY <1>0, <1>3 DEF IInv
    <2>2. \A q \in Procs : Writing(q)' => q = p /\ pc'[q] = "create"
      BY <1>0, <1>1, <1>3 DEF Writing
    <2> QED
      BY <1>0, <2>1, <2>2 DEF OneWriter, TwoFiles, WritesTmp, TmpWhole, Writing
  <1> QED
    BY <1>2, <1>3 DEF IInv

-----------------------------------------------------------------------------
(* writeWorldFile.                                                         *)

\* The temporary file is opened, and is not the world file.
LEMMA CreateKeeps ==
    ASSUME IInv, NEW p \in Procs, Create(p)
    PROVE  IInv'
  <1>0. Types /\ NoFile \notin Files /\ Writing(p)
    BY FilesFacts DEF IInv, Create, Writing
  <1>f. FunctionOn(content, Files) /\ FunctionOn(pc, Procs) /\ FunctionOn(fd, Procs)
    BY <1>0 DEF Types
  <1> PICK f \in Files :
          /\ IF name.tmp = NoFile THEN Free(f) /\ \A g \in 1 .. f - 1 : ~Free(g) ELSE f = name.tmp
          /\ name' = [name EXCEPT !.tmp = f]
          /\ content' = [content EXCEPT ![f] = <<>>]
          /\ fd' = [fd EXCEPT ![p] = f]
    BY DEF Create
  <1>1. /\ pc' = [pc EXCEPT ![p] = "write"] /\ UNCHANGED <<buf, saved, together>>
    BY DEF Create
  <1>2. FunctionOn(pc', Procs) /\ \A q \in Procs : pc'[q] = IF q = p THEN "write" ELSE pc[q]
    BY <1>f, <1>1, MovesTo
  <1>3. FunctionOn(content', Files) /\ \A g \in Files : content'[g] = IF g = f THEN <<>> ELSE content[g]
    BY <1>f, FileWritten
  <1>4. FunctionOn(fd', Procs) /\ \A q \in Procs : fd'[q] = IF q = p THEN f ELSE fd[q]
    BY <1>f, Opens
  <1>5. /\ name' \in [world : Files \cup {NoFile}, tmp : Files \cup {NoFile}]
        /\ name'.world = name.world /\ name'.tmp = f
    BY <1>0 DEF Types
  <1>6. Types'
    BY <1>0, <1>1, <1>2, <1>3, <1>4, <1>5 DEF Types
  <1>7. ASSUME ~together
        PROVE  OneWriter' /\ TwoFiles' /\ WritesTmp' /\ TmpWhole' /\ content'[name'.world] = saved'
    <2>1. OneWriter /\ TwoFiles /\ content[name.world] = saved
      BY <1>7 DEF IInv
    <2>2. \A q \in Procs : Writing(q)' => q = p /\ pc'[q] = "write"
      BY <1>0, <1>2, <2>1 DEF OneWriter, Writing
    <2>3. f # name.world
      BY <2>1 DEF Free, TwoFiles
    <2>4. content'[name'.world] = saved'
      BY <1>0, <1>1, <1>3, <1>5, <2>1, <2>3 DEF Types, TwoFiles
    <2>5. OneWriter' /\ TwoFiles'
      BY <1>5, <2>1, <2>2, <2>3 DEF OneWriter, TwoFiles
    <2>6. WritesTmp' /\ TmpWhole'
      BY <1>0, <1>4, <1>5, <2>2 DEF WritesTmp, TmpWhole, Writing
    <2> QED
      BY <2>4, <2>5, <2>6
  <1> QED
    BY <1>1, <1>6, <1>7 DEF IInv

\* A part, and then the rest, is written into the temporary file, which only
\* this process has open.
LEMMA WriteKeeps ==
    ASSUME IInv, NEW p \in Procs, WriteString(p) \/ Flush(p)
    PROVE  IInv'
  <1>0. Types /\ NoFile \notin Files /\ Writing(p) /\ pc[p] \in {"write", "flush"}
    BY FilesFacts DEF IInv, WriteString, Flush, Writing
  <1>f. FunctionOn(content, Files) /\ FunctionOn(pc, Procs) /\ FunctionOn(fd, Procs)
    BY <1>0 DEF Types
  <1>1. PICK to \in {"flush", "rename"} : \E lines :
            /\ pc' = [pc EXCEPT ![p] = to]
            /\ content' = [content EXCEPT ![fd[p]] = lines]
            /\ to = "rename" /\ ~together => lines = buf[p]
    <2>1. CASE WriteString(p)
      BY <2>1 DEF WriteString
    <2>2. CASE Flush(p)
      BY <2>2 DEF Flush
    <2> QED
      BY <1>0, <2>1, <2>2
  <1>g. PICK lines :
            /\ pc' = [pc EXCEPT ![p] = to]
            /\ content' = [content EXCEPT ![fd[p]] = lines]
            /\ to = "rename" /\ ~together => lines = buf[p]
    BY <1>1
  <1>2. /\ UNCHANGED <<name, buf, saved, together>>
        /\ fd' = fd \/ (fd' = [fd EXCEPT ![p] = NoFile] /\ pc' = [pc EXCEPT ![p] = "rename"])
    BY DEF WriteString, Flush
  <1>3. FunctionOn(pc', Procs) /\ \A q \in Procs : pc'[q] = IF q = p THEN to ELSE pc[q]
    <2>1. pc' = [pc EXCEPT ![p] = to]
      BY <1>g
    <2> QED
      BY <1>f, <2>1 DEF FunctionOn
  <1>4. FunctionOn(fd', Procs) /\ (to = "flush" => fd' = fd)
    <2>1. pc'[p] = "rename" => to = "rename"
      BY <1>3
    <2>2. pc' = [pc EXCEPT ![p] = "rename"] => pc'[p] = "rename"
      BY <1>f DEF FunctionOn
    <2> QED
      BY <1>f, <1>2, <2>1, <2>2, Opens
  <1>5. FunctionOn(content', Files)
    BY <1>0, <1>g DEF Types, FunctionOn
  <1>6. Types'
    BY <1>0, <1>2, <1>3, <1>4, <1>5 DEF Types
  <1>7. ASSUME ~together
        PROVE  OneWriter' /\ TwoFiles' /\ WritesTmp' /\ TmpWhole' /\ content'[name'.world] = saved'
    <2>1. OneWriter /\ TwoFiles /\ WritesTmp /\ content[name.world] = saved
      BY <1>7 DEF IInv
    <2>2. fd[p] = name.tmp /\ name.tmp \in Files /\ name.world \in Files /\ name.tmp # name.world
      BY <1>0, <2>1 DEF WritesTmp, Types, TwoFiles
    <2>3. \A q \in Procs : Writing(q)' => q = p /\ pc'[q] = to
      BY <1>0, <1>3, <2>1 DEF OneWriter, Writing
    <2>4. \A g \in Files : content'[g] = IF g = name.tmp THEN lines ELSE content[g]
      BY <1>f, <1>g, <2>2, FileWritten
    <2>5. content'[name'.world] = saved'
      BY <1>2, <2>1, <2>2, <2>4
    <2>6. OneWriter' /\ TwoFiles'
      BY <1>2, <2>1, <2>3 DEF OneWriter, TwoFiles
    <2>7. WritesTmp'
      BY <1>0, <1>2, <1>4, <2>2, <2>3 DEF WritesTmp, Writing
    <2>8. TmpWhole'
      BY <1>0, <1>g, <1>2, <1>7, <2>2, <2>3, <2>4 DEF TmpWhole, Writing
    <2> QED
      BY <2>5, <2>6, <2>7, <2>8
  <1> QED
    BY <1>2, <1>6, <1>7 DEF IInv

\* The temporary file becomes the world file.
LEMMA RenameKeeps ==
    ASSUME IInv, NEW p \in Procs, Rename(p)
    PROVE  IInv'
  <1>0. Types /\ Writing(p) /\ pc[p] = "rename" /\ name.tmp # NoFile
    BY DEF IInv, Rename, Writing
  <1>f. FunctionOn(content, Files) /\ FunctionOn(pc, Procs) /\ FunctionOn(fd, Procs)
    BY <1>0 DEF Types
  <1> DEFINE to == IF p = Editor THEN "ended" ELSE "idle"
  <1>1. /\ name' = [world |-> name.tmp, tmp |-> NoFile] /\ saved' = buf[p]
        /\ pc' = [pc EXCEPT ![p] = to] /\ fd' = [fd EXCEPT ![p] = NoFile]
        /\ UNCHANGED <<content, buf, together>>
    BY DEF Rename, Ends
  <1> to \notin WriterPlaces
    BY DEF WriterPlaces
  <1> HIDE DEF to
  <1>2. FunctionOn(pc', Procs) /\ \A q \in Procs : pc'[q] = IF q = p THEN to ELSE pc[q]
    BY <1>f, <1>1, MovesTo
  <1>3. FunctionOn(fd', Procs)
    BY <1>f, <1>1, Opens
  <1>4. Types'
    BY <1>0, <1>1, <1>2, <1>3 DEF Types
  <1>5. ASSUME ~together
        PROVE  OneWriter' /\ TwoFiles' /\ WritesTmp' /\ TmpWhole' /\ content'[name'.world] = saved'
    <2>1. OneWriter /\ content[name.tmp] = buf[p]
      BY <1>0, <1>5 DEF IInv, TmpWhole
    <2>2. \A q \in Procs : ~Writing(q)'
      BY <1>0, <1>2, <2>1 DEF OneWriter, Writing, WriterPlaces
    <2>3. OneWriter' /\ WritesTmp' /\ TmpWhole'
      BY <2>2 DEF OneWriter, WritesTmp, TmpWhole, Writing
    <2> QED
      BY <1>0, <1>1, <2>1, <2>3 DEF TwoFiles
  <1> QED
    BY <1>1, <1>4, <1>5 DEF IInv

\* A failure, and a kill, end a write.
LEMMA FailureKeeps ==
    ASSUME IInv, NEW p \in Procs, CreateFails(p) \/ WriteFails(p) \/ RenameFails(p) \/ Kill(p)
    PROVE  IInv'
  <1>0. FunctionOn(fd, Procs)
    BY DEF IInv, Types
  <1>1. PICK to \in {"ended", "idle", "killed"} : pc' = [pc EXCEPT ![p] = to]
    BY DEF CreateFails, WriteFails, RenameFails, Kill, Ends
  <1>2. /\ fd' = [fd EXCEPT ![p] = NoFile] /\ UNCHANGED <<content, buf, saved, together>>
        /\ name' = name \/ (Writing(p) /\ name' = [name EXCEPT !.tmp = NoFile])
    BY DEF CreateFails, WriteFails, RenameFails, Kill, Ends, disk, Writing
  <1>3. FunctionOn(fd', Procs) /\ \A q \in Procs : q # p => fd'[q] = fd[q]
    BY <1>0, <1>2, Opens
  <1>4. to \notin WriterPlaces
    BY DEF WriterPlaces
  <1> QED
    BY <1>1, <1>2, <1>3, <1>4, StopKeeps

-----------------------------------------------------------------------------
(* The editor and the commands.                                            *)

\* A key changes nothing outside the editor.
LEMMA KeyKeeps ==
    ASSUME NormalKey \/ Modal \/ Typed \/ Resize
    PROVE  UNCHANGED <<disk, pc, buf, fd, saved, together>>
  <1>1. ASSUME NEW mode, NEW e, Key(mode, e)
        PROVE  UNCHANGED <<disk, pc, buf, fd, saved, together>>
    BY <1>1 DEF Key
  <1>2. CASE NormalKey
    BY <1>1, <1>2, Zenon
       DEF NormalKey, Down, Up, PageUp, PageDown, Home, End, ToggleComment, Delete, Add, Edit, Filter
  <1>3. CASE Modal
    BY <1>1, <1>3, Zenon DEF Modal, CloseModal, EditOption
  <1>4. CASE Typed
    BY <1>1, <1>4, Zenon
       DEF Typed, Escape, TypeFilter, EnterInsert, EnterReplace, EnterCommentAfter,
           EnterCommentBefore, EnterVersions
  <1>5. CASE Resize
    BY <1>5 DEF Resize
  <1> QED
    BY <1>2, <1>3, <1>4, <1>5

\* The editor is opened and left.
LEMMA EditorKeeps ==
    ASSUME IInv, runWorldTUI \/ Quit
    PROVE  IInv'
  <1>1. PICK to \in {"editing", "ended"} : pc' = [pc EXCEPT ![Editor] = to]
    BY DEF runWorldTUI, Quit
  <1>2. UNCHANGED <<name, content, buf, fd, saved, together>> /\ FunctionOn(fd, Procs)
    BY DEF runWorldTUI, Quit, disk, IInv, Types
  <1>3. Editor \in Procs /\ to \notin WriterPlaces
    BY DEF Procs, WriterPlaces
  <1> QED
    BY <1>1, <1>2, <1>3, StopKeeps

\* A command and the editor begin to write.
LEMMA WritersKeep ==
    ASSUME IInv,
           Save \/ \E p \in Commands, cmd \in {"delete", "add", "enable", "disable"}, e \in Entries : cmdWorld(p, cmd, e)
    PROVE  IInv'
  <1>1. PICK p \in Procs : \E lines : BeginWrite(p, lines) /\ ~Writing(p) /\ UNCHANGED <<disk, fd, saved>>
    <2>1. CASE Save
      BY <2>1 DEF Save, Writing, Procs
    <2>2. ASSUME NEW p \in Commands, NEW cmd, NEW e, cmdWorld(p, cmd, e)
          PROVE  \E lines : BeginWrite(p, lines) /\ ~Writing(p) /\ UNCHANGED <<disk, fd, saved>>
      BY <2>2 DEF cmdWorld, Writing
    <2> QED
      BY <2>1, <2>2 DEF Procs
  <1> QED
    BY <1>1, BeginKeeps

-----------------------------------------------------------------------------
\* The initial states.
LEMMA InitIInv == Init => IInv
  <1> SUFFICES ASSUME Init PROVE IInv
    OBVIOUS
  <1>1. Types
    BY FilesFacts DEF Init, Types, FunctionOn
  <1>2. content[name.world] = saved
    BY FilesFacts DEF Init
  <1>3. OneWriter /\ TwoFiles /\ WritesTmp /\ TmpWhole
    BY DEF Init, OneWriter, TwoFiles, WritesTmp, TmpWhole, Writing, NoFile
  <1> QED
    BY <1>1, <1>2, <1>3 DEF IInv

\* Every step.
LEMMA NextIInv == IInv /\ [Next]_vars => IInv'
  <1> SUFFICES ASSUME IInv, [Next]_vars PROVE IInv'
    OBVIOUS
  <1>1. CASE UNCHANGED <<disk, pc, buf, fd, saved, together>>
    BY <1>1 DEF disk, IInv, Types, OneWriter, TwoFiles, WritesTmp, TmpWhole, Writing
  <1>2. CASE NormalKey \/ Modal \/ Typed \/ Resize
    BY <1>1, <1>2, KeyKeeps
  <1>3. ASSUME NEW p \in Procs, writeWorldFile(p) \/ Kill(p)
        PROVE  IInv'
    BY <1>3, CreateKeeps, WriteKeeps, RenameKeeps, FailureKeeps DEF writeWorldFile
  <1>4. CASE UNCHANGED vars
    BY <1>1, <1>4 DEF vars
  <1> QED
    BY <1>2, <1>3, <1>4, EditorKeeps, WritersKeep DEF Next

\* The invariant, for every instance.
THEOREM SpecIInv == Spec => []IInv
  BY InitIInv, NextIInv, PTL DEF Spec

\* As long as no two processes wrote at the same time, the world file is what
\* the last writer who succeeded meant to write, wherever the others failed or
\* were killed, and whatever a torn temporary file they left behind.
THEOREM FileWhole == Spec => []WorldWhole
  <1>1. IInv => WorldWhole
    BY DEF IInv, WorldWhole, TwoFiles
  <1> QED
    BY <1>1, SpecIInv, PTL

-----------------------------------------------------------------------------
(* What Ascending returns.  A recursive count would need induction over     *)
(* data; the least number up to which k are of the set does not.            *)

\* Every set of natural numbers that is not empty has a least one.
LEMMA LeastNumber ==
    ASSUME NEW T \in SUBSET Nat, T # {}
    PROVE  \E x \in T : \A y \in T : x <= y
  <1> DEFINE R == OpToRel(<, Nat)
  <1>1. IsWellFoundedOn(R, Nat)
    BY NatLessThanWellFounded
  <1>2. R = {ss \in Nat \X Nat : ss[1] < ss[2]}
    BY DEF OpToRel
  <1> HIDE DEF R
  <1>3. \A x, y \in Nat : <<x, y>> \in R <=> x < y
    BY <1>2
  <1>4. PICK x \in T : \A y \in T : <<y, x>> \notin R
    BY <1>1, WFMin
  <1>5. ASSUME NEW y \in T
        PROVE  x <= y
    <2>1. x \in Nat /\ y \in Nat /\ <<y, x>> \notin R
      BY <1>4
    <2>2. ~(y < x)
      BY <1>3, <2>1
    <2> QED
      BY <2>1, <2>2
  <1> QED
    BY <1>5

\* How many of a set of numbers are up to i.
UpTo(S, i) == {j \in S : j <= i}

\* The count of the numbers up to i grows by one where i is of the set, and nowhere else.
LEMMA CountUpTo ==
    ASSUME NEW n \in Nat, NEW S, S \subseteq 1..n
    PROVE  /\ IsFiniteSet(S) /\ Cardinality(S) \in Nat
           /\ \A i \in 0..n : Cardinality(UpTo(S, i)) \in Nat
           /\ \A i, k \in 0..n : i <= k => Cardinality(UpTo(S, i)) <= Cardinality(UpTo(S, k))
           /\ \A i \in 1..n : Cardinality(UpTo(S, i)) = Cardinality(UpTo(S, i - 1)) + IF i \in S THEN 1 ELSE 0
           /\ Cardinality(UpTo(S, 0)) = 0
           /\ Cardinality(UpTo(S, n)) = Cardinality(S)
  <1>0. \A j \in S : j \in 1..n
    OBVIOUS
  <1>1. IsFiniteSet(S) /\ Cardinality(S) \in Nat
    <2>1. IsFiniteSet(1..n)
      BY FS_Interval
    <2> QED
      BY <2>1, FS_Subset, FS_CardinalityType
  <1>2. \A i \in 0..n : IsFiniteSet(UpTo(S, i)) /\ Cardinality(UpTo(S, i)) \in Nat
    BY <1>1, FS_Subset, FS_CardinalityType DEF UpTo
  <1>3. ASSUME NEW i \in 0..n, NEW k \in 0..n, i <= k
        PROVE  Cardinality(UpTo(S, i)) <= Cardinality(UpTo(S, k))
    <2>1. \A j \in S : j <= i => j <= k
      BY <1>0, <1>3
    <2>2. UpTo(S, i) \subseteq UpTo(S, k)
      BY <2>1 DEF UpTo
    <2> QED
      BY <1>2, <2>2, FS_Subset
  <1>4. ASSUME NEW i \in 1..n
        PROVE  Cardinality(UpTo(S, i)) = Cardinality(UpTo(S, i - 1)) + IF i \in S THEN 1 ELSE 0
    <2>1. i - 1 \in 0..n /\ i \in 0..n /\ ~(i <= i - 1)
      OBVIOUS
    <2>0. \A j \in S : j <= i <=> j <= i - 1 \/ j = i
      BY <1>0
    <2>2. CASE i \in S
      <3>1. UpTo(S, i) = UpTo(S, i - 1) \cup {i} /\ i \notin UpTo(S, i - 1)
        BY <2>0, <2>1, <2>2 DEF UpTo
      <3> QED
        BY <1>2, <2>1, <2>2, <3>1, FS_AddElement
    <2>3. CASE i \notin S
      <3>1. UpTo(S, i) = UpTo(S, i - 1)
        BY <2>0, <2>3 DEF UpTo
      <3> QED
        BY <1>2, <2>1, <2>3, <3>1
    <2> QED
      BY <2>2, <2>3
  <1>5. UpTo(S, 0) = {} /\ UpTo(S, n) = S
    <2>1. \A j \in S : ~(j <= 0) /\ j <= n
      BY <1>0
    <2> QED
      BY <2>1 DEF UpTo
  <1> QED
    BY <1>1, <1>2, <1>3, <1>4, <1>5, FS_EmptySet

\* A sequence goes up.
Increasing(s) == \A i, j \in 1..Len(s) : i < j => s[i] < s[j]
\* A sequence lists a set in its order.
Lists(s, S) == s \in Seq(S) /\ Increasing(s) /\ \A x \in S : \E i \in 1..Len(s) : s[i] = x

\* Ascending lists its set: the k-th number is the least up to which k of them are.
LEMMA AscendingLists ==
    ASSUME NEW n \in Nat, NEW S, S \subseteq 1..n
    PROVE  Lists(Ascending(S), S)
  <1> DEFINE c(i) == Cardinality(UpTo(S, i))
             N == Cardinality(S)
             a == Ascending(S)
  <1>1. /\ N \in Nat
        /\ \A i \in 0..n : c(i) \in Nat
        /\ \A i, k \in 0..n : i <= k => c(i) <= c(k)
        /\ \A i \in 1..n : c(i) = c(i - 1) + IF i \in S THEN 1 ELSE 0
        /\ c(0) = 0 /\ c(n) = N
    BY CountUpTo
  <1>2. a = [k \in 1..N |-> CHOOSE i \in S : c(i) = k]
    BY DEF Ascending, UpTo
  <1>0. \A i \in S : i \in 1..n /\ i \in 0..n /\ i - 1 \in 0..n
    OBVIOUS
  <1> HIDE DEF c, N, a
  <1>3. ASSUME NEW k \in 1..N
        PROVE  \E i \in S : c(i) = k
    <2> DEFINE T == {i \in 0..n : c(i) >= k}
    <2>1. T \in SUBSET Nat /\ n \in T
      BY <1>1
    <2>2. PICK m \in T : \A y \in T : m <= y
      BY <2>1, LeastNumber
    <2>3. m \in 1..n /\ m - 1 \in 0..n
      BY <1>1, <2>2
    <2>4. c(m - 1) < k
      BY <1>1, <2>2, <2>3
    <2> QED
      BY <1>1, <2>2, <2>3, <2>4
  <1>4. \A k \in 1..N : a[k] \in S /\ c(a[k]) = k
    BY <1>2, <1>3
  <1>5. a \in Seq(S) /\ Len(a) = N
    BY <1>1, <1>2, <1>4
  <1>6. Increasing(a)
    <2> SUFFICES ASSUME NEW i \in 1..N, NEW j \in 1..N, i < j PROVE a[i] < a[j]
      BY <1>5 DEF Increasing
    <2>1. a[i] \in 0..n /\ a[j] \in 0..n /\ c(a[i]) = i /\ c(a[j]) = j
      BY <1>0, <1>4
    <2> QED
      BY <1>1, <2>1
  <1>7. ASSUME NEW x \in S
        PROVE  \E i \in 1..N : a[i] = x
    <2>1. x \in 1..n /\ x - 1 \in 0..n /\ n \in 0..n
      OBVIOUS
    <2>2. c(x) = c(x - 1) + 1 /\ c(x - 1) \in Nat /\ c(x) <= N
      BY <1>1, <2>1
    <2>3. c(x) \in 1..N
      BY <1>1, <2>2
    <2>4. a[c(x)] \in S /\ c(a[c(x)]) = c(x)
      BY <1>4, <2>3
    <2> DEFINE y == a[c(x)]
    <2>5. y \in S /\ c(y) = c(x) /\ y \in 1..n /\ y - 1 \in 0..n
      BY <1>0, <2>4
    <2> HIDE DEF y
    <2>6. c(y) = c(y - 1) + 1 /\ c(y - 1) \in Nat
      BY <1>1, <2>5
    <2>7. ~(y < x)
      <3> SUFFICES ASSUME y < x PROVE FALSE
        OBVIOUS
      <3>1. c(y) <= c(x - 1)
        BY <1>1, <2>1, <2>5
      <3> QED
        BY <2>2, <2>5, <2>6, <3>1
    <2>8. ~(x < y)
      <3> SUFFICES ASSUME x < y PROVE FALSE
        OBVIOUS
      <3>1. c(x) <= c(y - 1)
        BY <1>1, <2>1, <2>5
      <3> QED
        BY <2>2, <2>5, <2>6, <3>1
    <2>9. y = x
      BY <2>1, <2>5, <2>7, <2>8
    <2> QED
      BY <2>3, <2>9 DEF y
  <1> QED
    BY <1>5, <1>6, <1>7 DEF Lists, a

\* A set of numbers is listed in one way.
LEMMA ListedOnce ==
    ASSUME NEW S, S \subseteq Nat, NEW s, NEW t, Lists(s, S), Lists(t, S)
    PROVE  s = t
  <1>0. /\ s \in Seq(S) /\ t \in Seq(S)
        /\ Len(s) \in Nat /\ Len(t) \in Nat
        /\ \A i \in 1..Len(s) : s[i] \in S
        /\ \A i \in 1..Len(t) : t[i] \in S
        /\ \A x \in S : x \in Nat
    BY DEF Lists
  <1>1. ASSUME NEW u, NEW v, Lists(u, S), Lists(v, S), NEW k \in 1..Len(u),
               \A i \in 1..k - 1 : i \in 1..Len(v) /\ u[i] = v[i]
        PROVE  k \in 1..Len(v) /\ v[k] <= u[k]
    <2>0. /\ Len(u) \in Nat /\ Len(v) \in Nat /\ u[k] \in S
          /\ \A i \in 1..Len(v) : v[i] \in S
          /\ Increasing(u) /\ Increasing(v)
      BY <1>1 DEF Lists
    <2>1. PICK m \in 1..Len(v) : v[m] = u[k]
      BY <1>1, <2>0 DEF Lists
    <2>a. u[k] \in Nat /\ m \in Nat /\ k \in Nat
      <3>1. u[k] \in Nat
        BY <1>0, <2>0
      <3>2. m \in Nat /\ k \in Nat
        OBVIOUS
      <3> QED
        BY <3>1, <3>2
    <2>2. ~(m < k)
      <3> SUFFICES ASSUME m < k PROVE FALSE
        OBVIOUS
      <3>1. m \in 1..k - 1 /\ m \in 1..Len(u)
        BY <1>1, <2>0, <2>1
      <3>2. u[m] = u[k]
        BY <1>1, <2>1, <3>1
      <3> QED
        BY <1>1, <2>0, <2>a, <3>1, <3>2 DEF Increasing
    <2>3. k \in 1..Len(v) /\ (m = k \/ v[k] < v[m])
      BY <1>1, <2>0, <2>1, <2>2 DEF Increasing
    <2> QED
      <3>1. v[k] \in Nat
        BY <1>0, <2>0, <2>3
      <3> QED
        BY <2>1, <2>3, <2>a, <3>1
  <1>2. \A k \in Nat \ {0} : (k \in 1..Len(s) <=> k \in 1..Len(t)) /\ (k \in 1..Len(s) => s[k] = t[k])
    <2> DEFINE Differ == {k \in Nat \ {0} : ~((k \in 1..Len(s) <=> k \in 1..Len(t)) /\ (k \in 1..Len(s) => s[k] = t[k]))}
    <2> SUFFICES ASSUME Differ # {} PROVE FALSE
      OBVIOUS
    <2>1. PICK k \in Differ : \A y \in Differ : k <= y
      BY LeastNumber
    <2> HIDE DEF Differ
    <2>2. k \in Nat \ {0} /\ ~((k \in 1..Len(s) <=> k \in 1..Len(t)) /\ (k \in 1..Len(s) => s[k] = t[k]))
      BY <2>1 DEF Differ
    <2>3. \A i \in 1..k - 1 : (i \in 1..Len(s) <=> i \in 1..Len(t)) /\ (i \in 1..Len(s) => s[i] = t[i])
      BY <2>1, <2>2 DEF Differ
    <2>4. k \in 1..Len(s) => k \in 1..Len(t) /\ t[k] <= s[k]
      <3> SUFFICES ASSUME k \in 1..Len(s) PROVE k \in 1..Len(t) /\ t[k] <= s[k]
        OBVIOUS
      <3>1. \A i \in 1..k - 1 : i \in 1..Len(t) /\ s[i] = t[i]
        BY <1>0, <2>2, <2>3
      <3> QED
        BY <1>1, <3>1
    <2>5. k \in 1..Len(t) => k \in 1..Len(s) /\ s[k] <= t[k]
      <3> SUFFICES ASSUME k \in 1..Len(t) PROVE k \in 1..Len(s) /\ s[k] <= t[k]
        OBVIOUS
      <3>1. \A i \in 1..k - 1 : i \in 1..Len(s) /\ t[i] = s[i]
        BY <1>0, <2>2, <2>3
      <3> QED
        BY <1>1, <3>1
    <2>6. (k \in 1..Len(s) => s[k] \in Nat) /\ (k \in 1..Len(t) => t[k] \in Nat)
      BY <1>0
    <2> QED
      BY <2>2, <2>4, <2>5, <2>6
  <1>3. Len(s) = Len(t)
    BY <1>0, <1>2
  <1> QED
    BY <1>0, <1>2, <1>3

-----------------------------------------------------------------------------
(* Lines taken out, put in and kept.                                       *)

\* The pieces and lines the code makes.
LEMMA KnownLines ==
    /\ Blank \in Pieces /\ Words \in Pieces /\ Entries \subseteq Pieces /\ Torn \in Lines /\ <<>> \in Lines
    /\ \A piece \in Pieces : <<piece>> \in Line /\ <<Blank, piece>> \in Line
    /\ \A line \in Line : /\ Commented(line) \in Line /\ Head(line) \in Pieces
                          /\ Len(line) > 1 => Uncommented(line) \in Line
                          /\ Toggled(line) \in Line
                          /\ \A piece \in Pieces : Append(line, piece) \in Line
  <1>1. Blank \in Pieces /\ Words \in Pieces /\ Entries \subseteq Pieces
    <2>1. Blank \in Pieces
      BY DEF Blank, Piece, Pieces
    <2>2. Words \in Pieces
      BY DEF Words, Piece, Pieces
    <2>3. \A p \in Packages : Piece(p, Unversioned) \in Pieces
      BY DEF Piece, Pieces
    <2> QED
      BY <2>1, <2>2, <2>3 DEF Entries
  <1>2. ASSUME NEW piece \in Pieces
        PROVE  <<piece>> \in Line /\ <<Blank, piece>> \in Line
    BY <1>1 DEF Line
  <1>3. <<>> \in Lines
    BY DEF Lines
  <1>4. Piece("torn", Unversioned) \in Pieces
    BY DEF Pieces, Piece
  <1>5. Torn \in Lines
    <2>1. <<Piece("torn", Unversioned)>> \in Line
      BY <1>2, <1>4
    <2> QED
      BY <2>1 DEF Torn, Lines
  <1>6. ASSUME NEW line \in Line
        PROVE  /\ Commented(line) \in Line /\ Head(line) \in Pieces
               /\ Len(line) > 1 => Uncommented(line) \in Line
               /\ \A piece \in Pieces : Append(line, piece) \in Line
    <2>1. line \in Seq(Pieces) /\ line # <<>>
      BY DEF Line
    <2>2. Commented(line) \in Line
      <3>1. <<Blank>> \in Seq(Pieces)
        BY <1>1
      <3>2. <<Blank>> \o line \in Seq(Pieces) /\ Len(<<Blank>> \o line) > 0
        BY <2>1, <3>1
      <3> QED
        BY <3>2 DEF Line, Commented
    <2>3. Head(line) \in Pieces
      BY <2>1
    <2>4. Len(line) > 1 => Uncommented(line) \in Line
      <3> DEFINE rest == Tail(line)
      <3>1. rest \in Seq(Pieces) /\ Len(rest) = Len(line) - 1 /\ Len(line) \in Nat
        BY <2>1, HeadTailProperties
      <3> HIDE DEF rest
      <3>2. Len(line) > 1 => rest # <<>>
        BY <3>1
      <3> QED
        BY <3>1, <3>2 DEF Line, Uncommented, rest
    <2>5. \A piece \in Pieces : Append(line, piece) \in Line
      BY <2>1 DEF Line
    <2> QED
      BY <2>2, <2>3, <2>4, <2>5
  <1> QED
    BY <1>1, <1>2, <1>3, <1>5, <1>6 DEF Toggled, IsComment

\* What WithoutLine returns.
LEMMA LineTakenOut ==
    ASSUME NEW lines \in Lines, NEW i \in 1..Len(lines)
    PROVE  /\ WithoutLine(lines, i) \in Lines
           /\ Len(WithoutLine(lines, i)) = Len(lines) - 1
           /\ \A k \in 1..Len(lines) - 1 : WithoutLine(lines, i)[k] = IF k < i THEN lines[k] ELSE lines[k + 1]
  <1> DEFINE before == SubSeq(lines, 1, i - 1)
             after == SubSeq(lines, i + 1, Len(lines))
  <1>1. /\ before \in Seq(Line) /\ Len(before) = i - 1 /\ \A k \in 1..i - 1 : before[k] = lines[k]
        /\ after \in Seq(Line) /\ Len(after) = Len(lines) - i /\ \A k \in 1..Len(lines) - i : after[k] = lines[k + i]
        /\ i \in Nat /\ Len(lines) \in Nat
    BY DEF Lines
  <1>2. WithoutLine(lines, i) = before \o after
    BY DEF WithoutLine
  <1> HIDE DEF before, after
  <1>3. /\ before \o after \in Seq(Line) /\ Len(before \o after) = Len(lines) - 1
        /\ \A k \in 1..Len(lines) - 1 : (before \o after)[k] = IF k <= i - 1 THEN before[k] ELSE after[k - (i - 1)]
    <2>1. /\ before \o after \in Seq(Line) /\ Len(before \o after) = Len(before) + Len(after)
          /\ \A k \in 1..Len(before) + Len(after) :
                (before \o after)[k] = IF k <= Len(before) THEN before[k] ELSE after[k - Len(before)]
      BY <1>1, ConcatProperties
    <2>2. Len(before) = i - 1 /\ Len(before) + Len(after) = Len(lines) - 1
      BY <1>1
    <2> QED
      BY <2>1, <2>2
  <1>4. ASSUME NEW k \in 1..Len(lines) - 1
        PROVE  (before \o after)[k] = IF k < i THEN lines[k] ELSE lines[k + 1]
    <2>1. CASE k < i
      <3>1. k \in 1..i - 1
        BY <1>1, <2>1
      <3> QED
        BY <1>1, <1>3, <2>1, <3>1
    <2>2. CASE ~(k < i)
      <3>1. k - (i - 1) \in 1..Len(lines) - i /\ k - (i - 1) + i = k + 1 /\ ~(k <= i - 1)
        BY <1>1, <2>2
      <3> QED
        BY <1>1, <1>3, <2>2, <3>1
    <2> QED
      BY <2>1, <2>2
  <1> QED
    BY <1>2, <1>3, <1>4 DEF Lines

\* What WithLine returns.
LEMMA LinePutIn ==
    ASSUME NEW lines \in Lines, NEW i \in 1..Len(lines), NEW line \in Line
    PROVE  /\ WithLine(lines, i, line) \in Lines
           /\ Len(WithLine(lines, i, line)) = Len(lines) + 1
           /\ \A k \in 1..Len(lines) + 1 :
                 WithLine(lines, i, line)[k] = IF k < i THEN lines[k] ELSE IF k = i THEN line ELSE lines[k - 1]
  <1> DEFINE before == SubSeq(lines, 1, i - 1)
             after == SubSeq(lines, i, Len(lines))
             first == before \o <<line>>
  <1>1. /\ before \in Seq(Line) /\ Len(before) = i - 1 /\ \A k \in 1..i - 1 : before[k] = lines[k]
        /\ after \in Seq(Line) /\ Len(after) = Len(lines) - i + 1 /\ \A k \in 1..Len(lines) - i + 1 : after[k] = lines[k + i - 1]
        /\ i \in Nat /\ Len(lines) \in Nat
    BY DEF Lines
  <1>2. WithLine(lines, i, line) = first \o after
    BY DEF WithLine
  <1> HIDE DEF before, after
  <1>3. /\ first \in Seq(Line) /\ Len(first) = i
        /\ \A k \in 1..i : first[k] = IF k < i THEN lines[k] ELSE line
    <2>1. /\ <<line>> \in Seq(Line) /\ Len(<<line>>) = 1 /\ <<line>>[1] = line
          /\ before \in Seq(Line) /\ Len(before) = i - 1 /\ i \in Nat
      BY <1>1
    <2>2. /\ first \in Seq(Line) /\ Len(first) = Len(before) + Len(<<line>>)
          /\ \A k \in 1..Len(before) + Len(<<line>>) :
                first[k] = IF k <= Len(before) THEN before[k] ELSE <<line>>[k - Len(before)]
      BY <2>1, ConcatProperties
    <2> HIDE DEF first
    <2>3. Len(before) + Len(<<line>>) = i
      BY <2>1
    <2>4. \A k \in 1..i : k <= i - 1 <=> k < i
      BY <2>1
    <2>5. ASSUME NEW k \in 1..i, ~(k < i) PROVE k - (i - 1) = 1
      BY <2>1, <2>5
    <2>6. \A k \in 1..i : k < i => k \in 1..i - 1
      BY <2>1
    <2> QED
      BY <1>1, <2>1, <2>2, <2>3, <2>4, <2>5, <2>6
  <1> HIDE DEF first
  <1>4. /\ first \o after \in Seq(Line) /\ Len(first \o after) = Len(lines) + 1
        /\ \A k \in 1..Len(lines) + 1 : (first \o after)[k] = IF k <= i THEN first[k] ELSE after[k - i]
    BY <1>1, <1>3
  <1>5. \A k \in 1..Len(lines) + 1 : (first \o after)[k] = IF k < i THEN lines[k] ELSE IF k = i THEN line ELSE lines[k - 1]
    BY <1>1, <1>3, <1>4
  <1> QED
    BY <1>2, <1>4, <1>5 DEF Lines

\* Lines of which all is kept from the second on, behind the place i, and those before i or
\* but one that is put there, are kept in the sense of OthersKept.
LEMMA Keeps ==
    ASSUME NEW old \in Lines, NEW new \in Lines, NEW i \in 1..Len(old),
           NEW kept \in {i - 1, i - 2}, kept >= 0, kept = i - 2 => i > 1 /\ (IsComment(old[i - 1]) \/ old[i - 1] = <<Blank>>),
           Len(new) >= kept + (Len(old) - i),
           \A k \in 1..kept : new[k] = old[k],
           \A k \in 1..Len(old) - i : new[Len(new) - (Len(old) - i) + k] = old[i + k]
    PROVE  OthersKept(old, new, i)
  <1> DEFINE before == IF i > 1 /\ (IsComment(old[i - 1]) \/ old[i - 1] = <<Blank>>) THEN i - 2 ELSE i - 1
             rest == Len(old) - i
  <1>1. before \in Nat /\ before <= kept /\ rest \in Nat /\ kept \in Nat /\ before <= Len(old) /\ before <= Len(new) /\ Len(new) \in Nat /\ Len(old) \in Nat
    BY DEF Lines
  <1> HIDE DEF before
  <1>2. Len(new) >= before + rest
    BY <1>1
  <1>3. SubSeq(new, 1, before) = SubSeq(old, 1, before)
    BY <1>1 DEF Lines
  <1>4. SubSeq(new, Len(new) - rest + 1, Len(new)) = SubSeq(old, i + 1, Len(old))
    <2> DEFINE a == SubSeq(new, Len(new) - rest + 1, Len(new))
               b == SubSeq(old, i + 1, Len(old))
    <2>0. Len(new) - rest \in Nat /\ i \in Nat /\ old \in Seq(Line) /\ new \in Seq(Line)
      BY <1>1, <1>2 DEF Lines
    <2>1. a \in Seq(Line) /\ Len(a) = rest /\ \A k \in 1..rest : a[k] = new[Len(new) - rest + k]
      BY <1>1, <1>2, <2>0
    <2>2. b \in Seq(Line) /\ Len(b) = rest /\ \A k \in 1..rest : b[k] = old[i + k]
      <3>1. \A k \in i + 1..Len(old) : old[k] \in Line
        BY <2>0
      <3>2. i + 1 \in Int /\ Len(old) \in Int
        BY <1>1, <2>0
      <3> HIDE DEF b
      <3>3. /\ b \in Seq(Line) /\ Len(b) = IF i + 1 <= Len(old) THEN Len(old) - (i + 1) + 1 ELSE 0
            /\ \A k \in 1..Len(old) - (i + 1) + 1 : b[k] = old[i + 1 + k - 1]
        BY <3>1, <3>2, SubSeqProperties DEF b
      <3>4. \A k \in 1..rest : i + 1 + k - 1 = i + k /\ Len(old) - (i + 1) + 1 = rest
        BY <1>1, <2>0
      <3> QED
        BY <1>1, <2>0, <3>3, <3>4
    <2>3. \A k \in 1..rest : a[k] = b[k]
      BY <2>1, <2>2
    <2> HIDE DEF a, b
    <2> QED
      <3>1. a = b
        BY <2>1, <2>2, <2>3
      <3> QED
        BY <3>1 DEF a, b
  <1> QED
    BY <1>2, <1>3, <1>4 DEF OthersKept, before

-----------------------------------------------------------------------------
(* The editor: what a new screen shows.                                    *)

\* The types of the locals of the editor.
Queries == Packages \cup {Everything}
Modes == {"normal", "edit_modal"} \cup Typing

EdType == [lines : Lines, cursor : Nat, mode : Modes, query : Queries, rows : Seq(Nat),
           scroll : Nat, list : Nat, real : Nat, height : Nat]

\* The places the filter lets through.
Passing(lines, query) == {i \in DOMAIN lines : Matches(lines[i], query)}

\* The rows list those places.
LEMMA RowsListed ==
    ASSUME NEW lines \in Lines, NEW query
    PROVE  /\ Lists(filteredIndices(lines, query), Passing(lines, query))
           /\ filteredIndices(lines, query) \in Seq(1..Len(lines))
           /\ filteredIndices(lines, query) \in Seq(Nat)
  <1> DEFINE rows == filteredIndices(lines, query)
             S == Passing(lines, query)
  <1>1. Len(lines) \in Nat /\ DOMAIN lines = 1..Len(lines)
    BY DEF Lines
  <1>2. S \subseteq 1..Len(lines)
    BY <1>1 DEF Passing
  <1>3. rows = Ascending(S)
    BY DEF filteredIndices, Passing
  <1> HIDE DEF rows, S
  <1>4. Lists(rows, S)
    BY <1>1, <1>2, <1>3, AscendingLists
  <1>5. rows \in Seq(1..Len(lines)) /\ rows \in Seq(Nat)
    <2>1. rows \in Seq(S) /\ S \subseteq Nat
      BY <1>1, <1>2, <1>4 DEF Lists
    <2>2. ASSUME NEW T, S \subseteq T
          PROVE  rows \in Seq(T)
      <3>1. \A i \in 1..Len(rows) : rows[i] \in T
        BY <2>1, <2>2, ElementOfSeq
      <3> QED
        BY <2>1, <3>1
    <2> QED
      BY <1>2, <2>1, <2>2
  <1> QED
    BY <1>4, <1>5 DEF rows, S

\* What a new screen shows.
LEMMA Rendered ==
    ASSUME NEW e \in EdType
    PROVE  /\ render(e) \in EdType
           /\ render(e).lines = e.lines /\ render(e).query = e.query
           /\ render(e).mode = e.mode /\ render(e).real = e.real
           /\ render(e).rows = filteredIndices(e.lines, e.query)
           /\ render(e).rows = <<>> => render(e).cursor = 0
           /\ render(e).rows # <<>> => render(e).cursor < Len(render(e).rows)
           /\ e.cursor < Len(render(e).rows) => render(e).cursor = e.cursor
           /\ render(e).scroll <= render(e).cursor
           /\ render(e).cursor < render(e).scroll + render(e).list
  <1> DEFINE rows == filteredIndices(e.lines, e.query)
             cursor == IF rows = <<>> THEN 0 ELSE IF e.cursor >= Len(rows) THEN Len(rows) - 1 ELSE e.cursor
             list == listHeight(e)
             scroll == IF cursor < e.scroll THEN cursor
                       ELSE IF cursor >= e.scroll + list THEN cursor - list + 1 ELSE e.scroll
  <1>1. rows \in Seq(Nat)
    BY RowsListed DEF EdType
  <1>2. list \in Nat /\ list >= 1
    BY DEF EdType, listHeight
  <1>3. render(e) = [e EXCEPT !.rows = rows, !.cursor = cursor, !.list = list, !.scroll = scroll]
    BY DEF render
  <1> HIDE DEF rows, list
  <1>4. /\ Len(rows) \in Nat /\ (rows = <<>> <=> Len(rows) = 0)
        /\ e.cursor \in Nat /\ e.scroll \in Nat
    BY <1>1 DEF EdType
  <1>5. /\ cursor \in Nat
        /\ rows # <<>> => cursor < Len(rows)
        /\ rows = <<>> => cursor = 0
        /\ e.cursor < Len(rows) => cursor = e.cursor
    BY <1>4
  <1> HIDE DEF cursor
  <1>6. scroll \in Nat /\ scroll <= cursor /\ cursor < scroll + list
    BY <1>2, <1>4, <1>5
  <1> HIDE DEF scroll
  <1>7. /\ render(e) \in EdType
        /\ render(e).lines = e.lines /\ render(e).query = e.query
        /\ render(e).mode = e.mode /\ render(e).real = e.real
        /\ render(e).rows = rows /\ render(e).cursor = cursor
        /\ render(e).scroll = scroll /\ render(e).list = list
    BY <1>1, <1>2, <1>3, <1>5, <1>6 DEF EdType
  <1> QED
    BY <1>5, <1>6, <1>7 DEF rows

\* The rows when a line that the filter does not let through is put before a row.
LEMMA RowsShift ==
    ASSUME NEW lines \in Lines, NEW query \in Queries, NEW line \in Line,
           NEW r \in 1..Len(filteredIndices(lines, query)),
           line = <<Blank>>
    PROVE  LET rows == filteredIndices(lines, query)
               after == filteredIndices(WithLine(lines, rows[r], line), query)
           IN  /\ r \in 1..Len(after)
               /\ after[r] \in {rows[r], rows[r] + 1}
  <1> DEFINE rows == filteredIndices(lines, query)
             j == rows[r]
             more == WithLine(lines, j, line)
             after == filteredIndices(more, query)
  <1>1. /\ Lists(rows, Passing(lines, query)) /\ rows \in Seq(1..Len(lines))
        /\ Len(lines) \in Nat /\ DOMAIN lines = 1..Len(lines) /\ Len(rows) \in Nat
    BY RowsListed DEF Lines
  <1> HIDE DEF rows
  <1>2. r \in 1..Len(rows) /\ j \in 1..Len(lines)
    BY <1>1, ElementOfSeq DEF rows
  <1> HIDE DEF j
  <1>3. /\ more \in Lines /\ Len(more) = Len(lines) + 1 /\ DOMAIN more = 1..Len(lines) + 1
        /\ \A k \in 1..Len(lines) + 1 :
              more[k] = IF k < j THEN lines[k] ELSE IF k = j THEN line ELSE lines[k - 1]
    <2>1. more \in Lines /\ Len(more) = Len(lines) + 1
      BY <1>2, LinePutIn
    <2>2. DOMAIN more = 1..Len(more)
      BY <2>1, LenProperties DEF Lines
    <2> QED
      BY <1>2, <2>1, <2>2, LinePutIn
  <1> HIDE DEF more
  <1>4. Lists(after, Passing(more, query)) /\ after \in Seq(1..Len(more)) /\ Passing(more, query) \subseteq Nat
    <2>1. Lists(after, Passing(more, query)) /\ after \in Seq(1..Len(more))
      BY <1>3, RowsListed
    <2>2. \A i \in Passing(more, query) : i \in 1..Len(lines) + 1
      BY <1>3 DEF Passing
    <2>3. \A i \in Passing(more, query) : i \in Nat
      BY <1>1, <2>2
    <2> QED
      BY <2>1, <2>3
  <1> HIDE DEF after
  <1> SUFFICES r \in 1..Len(after) /\ after[r] \in {j, j + 1}
    BY DEF rows, after, more, j
  <1>5. CASE query = Everything
    <2>1. Passing(lines, query) = 1..Len(lines) /\ Passing(more, query) = 1..Len(lines) + 1
      BY <1>1, <1>3, <1>5 DEF Passing, Matches
    <2>2. \A n \in Nat : Lists([k \in 1..n |-> k], 1..n)
      <3> SUFFICES ASSUME NEW n \in Nat PROVE Lists([k \in 1..n |-> k], 1..n)
        OBVIOUS
      <3> DEFINE s == [k \in 1..n |-> k]
      <3>1. s \in Seq(1..n) /\ Len(s) = n /\ \A k \in 1..n : s[k] = k
        OBVIOUS
      <3> HIDE DEF s
      <3>2. Lists(s, 1..n)
        BY <3>1 DEF Lists, Increasing
      <3> QED
        BY <3>2 DEF s
    <2>3. rows = [k \in 1..Len(lines) |-> k]
      <3>1. Lists(rows, 1..Len(lines)) /\ Lists([k \in 1..Len(lines) |-> k], 1..Len(lines)) /\ 1..Len(lines) \subseteq Nat
        BY <1>1, <2>1, <2>2
      <3> QED
        BY <3>1, ListedOnce
    <2>4. after = [k \in 1..Len(lines) + 1 |-> k]
      <3>1. /\ Lists(after, 1..Len(lines) + 1) /\ Lists([k \in 1..Len(lines) + 1 |-> k], 1..Len(lines) + 1)
            /\ 1..Len(lines) + 1 \subseteq Nat
        BY <1>1, <1>4, <2>1, <2>2
      <3> QED
        BY <3>1, ListedOnce
    <2>5. Len(rows) = Len(lines) /\ Len(after) = Len(lines) + 1
      BY <1>1, <2>3, <2>4
    <2>6. r \in 1..Len(lines) /\ r \in 1..Len(lines) + 1
      BY <1>1, <1>2, <2>5
    <2>7. j = r /\ after[r] = r
      BY <2>3, <2>4, <2>6 DEF j
    <2> QED
      BY <2>5, <2>6, <2>7
  <1>6. CASE query # Everything
    <2> DEFINE Shift(i) == IF i < j THEN i ELSE i + 1
               t == [k \in 1..Len(rows) |-> Shift(rows[k])]
               P == Passing(lines, query)
               Q == Passing(more, query)
    <2>1. ~Matches(line, query)
      <3>1. Len(line) = 1 /\ line[1] = Blank /\ DOMAIN line = {1}
        OBVIOUS
      <3>2. Blank.pkg = Everything
        BY DEF Blank, Piece, Everything
      <3> QED
        BY <1>6, <3>1, <3>2 DEF Matches
    <2>2. ASSUME NEW i \in 1..Len(lines)
          PROVE  i \in P <=> Shift(i) \in Q
      <3>1. Shift(i) \in 1..Len(lines) + 1 /\ more[Shift(i)] = lines[i]
        <4>1. CASE i < j
          BY <1>1, <1>2, <1>3, <4>1
        <4>2. CASE ~(i < j)
          <5>1. i + 1 \in 1..Len(lines) + 1 /\ ~(i + 1 < j) /\ i + 1 # j /\ i + 1 - 1 = i
            BY <1>1, <1>2, <4>2
          <5> QED
            BY <1>3, <4>2, <5>1
        <4> QED
          BY <4>1, <4>2
      <3> QED
        BY <1>1, <1>3, <3>1 DEF Passing
    <2>3. \A i \in Q : \E h \in P : i = Shift(h)
      <3> SUFFICES ASSUME NEW i \in Q PROVE \E h \in P : i = Shift(h)
        OBVIOUS
      <3>1. i \in 1..Len(lines) + 1 /\ Matches(more[i], query)
        BY <1>3 DEF Passing
      <3>2. i # j
        BY <1>3, <2>1, <3>1
      <3>3. CASE i < j
        <4>1. i \in 1..Len(lines) /\ Shift(i) = i
          BY <1>1, <1>2, <3>1, <3>3
        <4> QED
          BY <2>2, <4>1
      <3>4. CASE i > j
        <4>1. i - 1 \in 1..Len(lines) /\ Shift(i - 1) = i
          BY <1>1, <1>2, <3>1, <3>4
        <4> QED
          BY <2>2, <4>1
      <3> QED
        BY <1>1, <1>2, <3>1, <3>2, <3>3, <3>4
    <2>4. /\ \A i \in P : i \in 1..Len(lines) /\ Shift(i) \in Q
          /\ \A k \in 1..Len(rows) : rows[k] \in P
          /\ \A x \in P : \E k \in 1..Len(rows) : rows[k] = x
          /\ Increasing(rows)
      <3>1. \A i \in P : i \in 1..Len(lines)
        BY <1>1 DEF Passing
      <3>2. Lists(rows, P)
        BY <1>1
      <3> HIDE DEF P
      <3>3. rows \in Seq(P) /\ Increasing(rows) /\ \A x \in P : \E k \in 1..Len(rows) : rows[k] = x
        BY <3>2 DEF Lists
      <3> QED
        BY <2>2, <3>1, <3>3, ElementOfSeq
    <2> HIDE DEF P, Q
    <2>5. t \in Seq(Q) /\ Len(t) = Len(rows) /\ \A k \in 1..Len(rows) : t[k] = Shift(rows[k])
      BY <1>1, <2>4
    <2> HIDE DEF t
    <2>6. Increasing(t)
      <3> SUFFICES ASSUME NEW h \in 1..Len(rows), NEW k \in 1..Len(rows), h < k PROVE t[h] < t[k]
        BY <2>5 DEF Increasing
      <3>1. rows[h] < rows[k] /\ rows[h] \in Nat /\ rows[k] \in Nat
        BY <1>1, <2>4 DEF Increasing
      <3> QED
        BY <1>2, <2>5, <3>1
    <2>7. ASSUME NEW x \in Q
          PROVE  \E k \in 1..Len(t) : t[k] = x
      <3>1. PICK h \in P : x = Shift(h)
        BY <2>3
      <3>2. PICK k \in 1..Len(rows) : rows[k] = h
        BY <2>4
      <3> QED
        BY <2>5, <3>1, <3>2
    <2>8. Lists(t, Q)
      BY <2>5, <2>6, <2>7 DEF Lists
    <2>9. after = t
      BY <1>4, <2>8, ListedOnce DEF Q
    <2>10. Len(after) = Len(rows) /\ after[r] = Shift(j)
      BY <1>2, <2>5, <2>9 DEF j
    <2> QED
      BY <1>2, <2>10
  <1> QED
    BY <1>5, <1>6

\* A comment before a line, or the empty one a prompt has put there.
IsPut(line) == IsComment(line) \/ line = <<Blank>>

\* Lines that are as they were on both sides of i.
LEMMA KeptAround ==
    ASSUME NEW old \in Lines, NEW new \in Lines, NEW i \in 1..Len(old),
           Len(new) >= Len(old) - 1,
           \A k \in 1..i - 1 : new[k] = old[k],
           \A k \in 1..Len(old) - i : new[Len(new) - (Len(old) - i) + k] = old[i + k]
    PROVE  OthersKept(old, new, i)
  <1> DEFINE kept == i - 1
  <1>1. kept \in {i - 1, i - 2} /\ kept >= 0 /\ kept # i - 2 /\ Len(new) >= kept + (Len(old) - i)
    BY DEF Lines
  <1>2. \A k \in 1..kept : new[k] = old[k]
    OBVIOUS
  <1> HIDE DEF kept
  <1> QED
    BY <1>1, <1>2, Keeps

\* The same seen from the line behind i, where the one at i was put.
LEMMA KeptAfterPut ==
    ASSUME NEW old \in Lines, NEW new \in Lines, NEW i \in 1..Len(old) - 1, IsPut(old[i]),
           Len(new) >= Len(old) - 1,
           \A k \in 1..i - 1 : new[k] = old[k],
           \A k \in 1..Len(old) - i : new[Len(new) - (Len(old) - i) + k] = old[i + k]
    PROVE  OthersKept(old, new, i + 1)
  <1> DEFINE kept == i - 1
             j == i + 1
  <1>1. /\ j \in 1..Len(old) /\ j - 1 = i /\ j > 1
        /\ kept \in {j - 1, j - 2} /\ kept >= 0 /\ Len(new) >= kept + (Len(old) - j)
    BY DEF Lines
  <1>2. \A k \in 1..kept : new[k] = old[k]
    OBVIOUS
  <1>3. \A k \in 1..Len(old) - j : new[Len(new) - (Len(old) - j) + k] = old[j + k]
    <2> SUFFICES ASSUME NEW k \in 1..Len(old) - j PROVE new[Len(new) - (Len(old) - j) + k] = old[j + k]
      OBVIOUS
    <2> DEFINE h == k + 1
    <2>1. /\ h \in 1..Len(old) - i /\ i + h = j + k
          /\ Len(new) - (Len(old) - i) + h = Len(new) - (Len(old) - j) + k
      BY DEF Lines
    <2> HIDE DEF h, j
    <2> QED
      BY <2>1
  <1> HIDE DEF kept, j
  <1>4. OthersKept(old, new, j)
    BY <1>1, <1>2, <1>3, Keeps DEF IsPut
  <1> QED
    BY <1>4 DEF j

\* What is done to a line keeps the others.
LEMMA LineReplaced ==
    ASSUME NEW lines \in Lines, NEW i \in 1..Len(lines), NEW line \in Line
    PROVE  /\ [lines EXCEPT ![i] = line] \in Lines
           /\ OthersKept(lines, [lines EXCEPT ![i] = line], i)
           /\ i < Len(lines) /\ IsPut(lines[i]) => OthersKept(lines, [lines EXCEPT ![i] = line], i + 1)
  <1> DEFINE new == [lines EXCEPT ![i] = line]
             n == Len(lines)
  <1>1. /\ new \in Lines /\ Len(new) = n /\ n \in Nat /\ i \in Nat /\ i >= 1 /\ i <= n
        /\ \A j \in 1..n : new[j] = IF j = i THEN line ELSE lines[j]
    BY ExceptSeq DEF Lines
  <1> HIDE DEF new, n
  <1>2. \A k \in 1..i - 1 : new[k] = lines[k]
    BY <1>1
  <1>3. \A k \in 1..Len(lines) - i : new[Len(new) - (Len(lines) - i) + k] = lines[i + k]
    BY <1>1 DEF n
  <1>0. new \in Lines /\ Len(new) >= Len(lines) - 1 /\ (i < n => i \in 1..Len(lines) - 1)
    BY <1>1 DEF n
  <1>4. OthersKept(lines, new, i)
    BY <1>0, <1>2, <1>3, KeptAround
  <1>5. i < n /\ IsPut(lines[i]) => OthersKept(lines, new, i + 1)
    BY <1>0, <1>2, <1>3, KeptAfterPut
  <1> QED
    BY <1>1, <1>4, <1>5 DEF new, n

\* A line is taken out.
LEMMA LineRemoved ==
    ASSUME NEW lines \in Lines, NEW i \in 1..Len(lines)
    PROVE  /\ OthersKept(lines, WithoutLine(lines, i), i)
           /\ i < Len(lines) /\ IsPut(lines[i]) => OthersKept(lines, WithoutLine(lines, i), i + 1)
  <1> DEFINE new == WithoutLine(lines, i)
             n == Len(lines)
  <1>1. /\ new \in Lines /\ Len(new) = n - 1 /\ n \in Nat /\ i \in Nat /\ i >= 1 /\ i <= n
        /\ \A k \in 1..n - 1 : new[k] = IF k < i THEN lines[k] ELSE lines[k + 1]
    BY LineTakenOut DEF Lines
  <1> HIDE DEF new, n
  <1>2. \A k \in 1..i - 1 : new[k] = lines[k]
    BY <1>1
  <1>3. \A k \in 1..Len(lines) - i : new[Len(new) - (Len(lines) - i) + k] = lines[i + k]
    BY <1>1 DEF n
  <1>0. new \in Lines /\ Len(new) >= Len(lines) - 1 /\ (i < n => i \in 1..Len(lines) - 1)
    BY <1>1 DEF n
  <1>4. OthersKept(lines, new, i)
    BY <1>0, <1>2, <1>3, KeptAround
  <1>5. i < n /\ IsPut(lines[i]) => OthersKept(lines, new, i + 1)
    BY <1>0, <1>2, <1>3, KeptAfterPut
  <1> QED
    BY <1>1, <1>4, <1>5 DEF new, n

\* A line is put before another.
LEMMA LineInserted ==
    ASSUME NEW lines \in Lines, NEW i \in 1..Len(lines), NEW line \in Line
    PROVE  OthersKept(lines, WithLine(lines, i, line), i)
  <1> DEFINE new == WithLine(lines, i, line)
             n == Len(lines)
  <1>1. /\ new \in Lines /\ Len(new) = n + 1 /\ n \in Nat /\ i \in Nat /\ i >= 1 /\ i <= n
        /\ \A k \in 1..n + 1 : new[k] = IF k < i THEN lines[k] ELSE IF k = i THEN line ELSE lines[k - 1]
    <2>1. n \in Nat /\ i \in Nat /\ i >= 1 /\ i <= n
      BY DEF Lines
    <2> QED
      BY <2>1, LinePutIn
  <1> HIDE DEF new, n
  <1>3. \A k \in 1..i - 1 : new[k] = lines[k]
    BY <1>1
  <1>4. \A k \in 1..Len(lines) - i : new[Len(new) - (Len(lines) - i) + k] = lines[i + k]
    BY <1>1 DEF n
  <1>5. new \in Lines /\ Len(new) >= Len(lines) - 1
    BY <1>1 DEF n
  <1>6. OthersKept(lines, new, i)
    BY <1>3, <1>4, <1>5, KeptAround
  <1> QED
    BY <1>6 DEF new

\* Lines in the place of one.
LEMMA LineExpanded ==
    ASSUME NEW lines \in Lines, NEW i \in 1..Len(lines), NEW middle \in Lines
    PROVE  LET new == SubSeq(lines, 1, i - 1) \o middle \o SubSeq(lines, i + 1, Len(lines))
           IN  new \in Lines /\ OthersKept(lines, new, i)
  <1> DEFINE n == Len(lines)
             m == Len(middle)
             before == SubSeq(lines, 1, i - 1)
             after == SubSeq(lines, i + 1, n)
             first == before \o middle
             new == first \o after
  <1>1. /\ before \in Seq(Line) /\ Len(before) = i - 1 /\ \A k \in 1..i - 1 : before[k] = lines[k]
        /\ after \in Seq(Line) /\ Len(after) = n - i /\ \A k \in 1..n - i : after[k] = lines[k + i]
        /\ i \in Nat /\ n \in Nat /\ m \in Nat /\ i >= 1 /\ i <= n /\ middle \in Seq(Line)
    BY DEF Lines
  <1> HIDE DEF before, after, n, m
  <1>2. /\ first \in Seq(Line) /\ Len(first) = Len(before) + Len(middle)
        /\ \A k \in 1..Len(before) + Len(middle) :
              first[k] = IF k <= Len(before) THEN before[k] ELSE middle[k - Len(before)]
    BY <1>1, ConcatProperties
  <1>3. Len(first) = i - 1 + m /\ \A k \in 1..i - 1 : first[k] = lines[k]
    <2>1. Len(first) = i - 1 + m
      BY <1>1, <1>2 DEF m
    <2>2. ASSUME NEW k \in 1..i - 1
          PROVE  first[k] = lines[k]
      <3>1. k \in 1..Len(before) + Len(middle) /\ k <= Len(before)
        BY <1>1 DEF m
      <3> QED
        BY <1>1, <1>2, <3>1
    <2> QED
      BY <2>1, <2>2
  <1> HIDE DEF first
  <1>4. /\ new \in Seq(Line) /\ Len(new) = Len(first) + Len(after)
        /\ \A k \in 1..Len(first) + Len(after) :
              new[k] = IF k <= Len(first) THEN first[k] ELSE after[k - Len(first)]
    <2>1. first \in Seq(Line) /\ after \in Seq(Line)
      BY <1>1, <1>2
    <2> QED
      BY <2>1, ConcatProperties DEF new
  <1> HIDE DEF new
  <1>5. Len(new) = n - 1 + m
    BY <1>1, <1>3, <1>4
  <1>6. \A k \in 1..i - 1 : new[k] = lines[k]
    <2> SUFFICES ASSUME NEW k \in 1..i - 1 PROVE new[k] = lines[k]
      OBVIOUS
    <2>1. k \in 1..Len(first) + Len(after) /\ k <= Len(first)
      BY <1>1, <1>3
    <2> QED
      BY <1>3, <1>4, <2>1
  <1>7. \A k \in 1..n - i : new[Len(new) - (n - i) + k] = lines[i + k]
    <2> SUFFICES ASSUME NEW k \in 1..n - i PROVE new[Len(new) - (n - i) + k] = lines[i + k]
      OBVIOUS
    <2>1. Len(new) - (n - i) + k = Len(first) + k
      <3>1. n \in Int /\ i \in Int /\ m \in Int /\ k \in Int /\ Len(new) = n - 1 + m /\ Len(first) = i - 1 + m
        BY <1>1, <1>3, <1>5
      <3> QED
        BY <3>1
    <2>2. /\ Len(first) + k \in 1..Len(first) + Len(after) /\ ~(Len(first) + k <= Len(first))
          /\ Len(first) + k - Len(first) = k /\ k + i = i + k
      BY <1>1, <1>3
    <2>3. new[Len(first) + k] = after[k]
      BY <1>4, <2>2
    <2> QED
      BY <1>1, <2>1, <2>2, <2>3
  <1>8. new \in Lines /\ Len(new) >= n - 1
    BY <1>1, <1>4, <1>5 DEF Lines
  <1>9. OthersKept(lines, new, i)
    BY <1>1, <1>6, <1>7, <1>8, KeptAround DEF n
  <1> QED
    BY <1>8, <1>9 DEF new, first, before, after, n

-----------------------------------------------------------------------------
(* What the screen shows, and what a key may do to it.                     *)

\* The line of the row under the cursor of a screen.
RowLine(e) == e.rows[e.cursor + 1]

\* A prompt is about the line under the cursor, or about the one that was put before it.
Asks(e) ==
    /\ e.rows # <<>> /\ e.real \in 1..Len(e.lines)
    /\ \/ RowLine(e) = e.real
       \/ e.mode = "prompt_comment_before" /\ RowLine(e) = e.real + 1
    /\ e.mode = "prompt_comment_before" => e.lines[e.real] = <<Blank>>

\* What the screen shows is up to date, the cursor is on it, and a prompt is about its line.
Shown ==
    /\ ed \in EdType
    /\ ed.rows = filteredIndices(ed.lines, ed.query)
    /\ ed.rows = <<>> => ed.cursor = 0
    /\ ed.rows # <<>> => ed.cursor < Len(ed.rows)
    /\ ed.scroll <= ed.cursor /\ ed.cursor < ed.scroll + ed.list
    /\ ed.mode \in Prompts => Asks(ed)

\* What EditorChangesShownLine says of a step.
ShownLineOnly ==
    ed'.lines # ed.lines =>
          IF ed.rows = <<>> THEN ed'.lines = Append(ed.lines, ed'.lines[Len(ed'.lines)])
          ELSE /\ ed.scroll <= ed.cursor /\ ed.cursor < ed.scroll + ed.list
               /\ OthersKept(ed.lines, ed'.lines, ed.rows[ed.cursor + 1])

\* There is a line under the cursor, where there are rows.
LEMMA RowOfCursor ==
    ASSUME Shown, ed.rows # <<>>
    PROVE  /\ OnRow /\ realIdx \in 1..Len(ed.lines) /\ RowLine(ed) = realIdx
           /\ ed.cursor + 1 \in 1..Len(ed.rows) /\ ed.lines[realIdx] \in Line
           /\ Len(ed.lines) \in Nat /\ ed.lines \in Lines /\ realIdx \in Nat
  <1>1. /\ ed.rows \in Seq(1..Len(ed.lines)) /\ ed.cursor \in Nat /\ ed.cursor < Len(ed.rows)
        /\ ed.lines \in Lines
    BY RowsListed DEF Shown, EdType
  <1>2. ed.cursor + 1 \in 1..Len(ed.rows)
    BY <1>1
  <1>3. realIdx \in 1..Len(ed.lines)
    BY <1>1, <1>2, ElementOfSeq DEF realIdx
  <1>4. realIdx \in Nat
    BY <1>3
  <1> QED
    BY <1>1, <1>2, <1>3, <1>4, ElementOfSeq DEF OnRow, realIdx, RowLine, Lines

\* The other case: the list is empty.
LEMMA NoRow ==
    ASSUME Shown, ~OnRow
    PROVE  ed.rows = <<>>
  BY RowOfCursor

\* A new screen is right, if what a prompt is about is.
LEMMA ScreenShows ==
    ASSUME NEW e \in EdType, ed' = render(e), e.mode \in Prompts => Asks(ed')
    PROVE  Shown' /\ ed'.lines = e.lines
  BY Rendered DEF Shown

\* A key that changes no line and begins no prompt.
LEMMA LinesStay ==
    ASSUME NEW e \in EdType, ed' = render(e), e.mode \notin Prompts, e.lines = ed.lines
    PROVE  Shown' /\ ShownLineOnly
  BY ScreenShows DEF ShownLineOnly

\* A key that moves the cursor.
LEMMA CursorMoves ==
    ASSUME Shown, NEW cursor \in Nat, Key("normal", [ed EXCEPT !.cursor = cursor])
    PROVE  Shown' /\ ShownLineOnly
  <1> DEFINE e == [ed EXCEPT !.cursor = cursor]
  <1>1. e \in EdType /\ e.lines = ed.lines /\ e.mode = "normal" /\ ed' = render(e)
    BY DEF Shown, EdType, Key
  <1> HIDE DEF e
  <1> QED
    BY <1>1, LinesStay DEF Prompts

\* A key that changes the mode.
LEMMA ModeChanges ==
    ASSUME Shown, NEW mode \in {"normal", "edit_modal", "insert", "filter"}, NEW from,
           Key(from, [ed EXCEPT !.mode = mode])
    PROVE  Shown' /\ ShownLineOnly
  <1> DEFINE e == [ed EXCEPT !.mode = mode]
  <1>1. e \in EdType /\ e.lines = ed.lines /\ e.mode = mode /\ ed' = render(e)
    BY DEF Shown, EdType, Key, Modes, Typing
  <1> HIDE DEF e
  <1> QED
    BY <1>1, LinesStay DEF Prompts

\* The keys that change no line.
LEMMA Moves ==
    ASSUME Shown, Down \/ Up \/ PageUp \/ PageDown \/ Home \/ End \/ Add \/ Edit \/ Filter \/ CloseModal
    PROVE  Shown' /\ ShownLineOnly
  <1>0. ed.cursor \in Nat /\ ed.list \in Nat /\ Len(ed.rows) \in Nat
    BY DEF Shown, EdType
  <1>1. CASE Down
    <2> DEFINE c == IF ed.cursor < Bottom THEN ed.cursor + 1 ELSE ed.cursor
    <2>1. c \in Nat /\ Key("normal", [ed EXCEPT !.cursor = c])
      BY <1>0, <1>1 DEF Down
    <2> QED
      BY <2>1, CursorMoves
  <1>2. CASE Up
    <2> DEFINE c == IF ed.cursor > 0 THEN ed.cursor - 1 ELSE ed.cursor
    <2>1. c \in Nat
      BY <1>0
    <2>2. Key("normal", [ed EXCEPT !.cursor = c])
      BY <1>2 DEF Up
    <2> QED
      BY <2>1, <2>2, CursorMoves
  <1>3. CASE PageUp
    <2> DEFINE c == IF ed.cursor < ed.list THEN 0 ELSE ed.cursor - ed.list
    <2>1. c \in Nat
      BY <1>0
    <2>2. Key("normal", [ed EXCEPT !.cursor = c])
      BY <1>3 DEF PageUp
    <2> QED
      BY <2>1, <2>2, CursorMoves
  <1>4. CASE PageDown
    <2> DEFINE c == IF ed.cursor + ed.list > Bottom /\ Bottom >= 0 THEN Bottom ELSE ed.cursor + ed.list
    <2>1. c \in Nat
      BY <1>0 DEF Bottom
    <2>2. Key("normal", [ed EXCEPT !.cursor = c])
      BY <1>4 DEF PageDown
    <2> QED
      BY <2>1, <2>2, CursorMoves
  <1>5. CASE Home
    BY <1>5, CursorMoves DEF Home
  <1>6. CASE End
    <2> DEFINE c == IF Bottom >= 0 THEN Bottom ELSE ed.cursor
    <2>1. c \in Nat
      BY <1>0 DEF Bottom
    <2>2. Key("normal", [ed EXCEPT !.cursor = c])
      BY <1>6 DEF End
    <2> QED
      BY <2>1, <2>2, CursorMoves
  <1>7. CASE Add \/ Edit \/ Filter \/ CloseModal
    BY <1>7, ModeChanges DEF Add, Edit, Filter, CloseModal
  <1> QED
    BY <1>1, <1>2, <1>3, <1>4, <1>5, <1>6, <1>7

\* Another filter.
LEMMA FilterChanges ==
    ASSUME Shown, NEW query \in Queries, TypeFilter(query)
    PROVE  Shown' /\ ShownLineOnly
  <1> DEFINE e == [ed EXCEPT !.query = query, !.cursor = 0]
  <1>1. e \in EdType /\ e.lines = ed.lines /\ e.mode = "filter" /\ ed' = render(e)
    BY DEF Shown, EdType, TypeFilter, Key
  <1> HIDE DEF e
  <1> QED
    BY <1>1, LinesStay DEF Prompts

\* The terminal gets another size, in the middle of a prompt, too.
LEMMA ResizeShows ==
    ASSUME Shown, Resize
    PROVE  Shown' /\ ShownLineOnly
  <1>1. PICK height \in Heights : ed' = render([ed EXCEPT !.height = height])
    BY DEF Resize
  <1> DEFINE e == [ed EXCEPT !.height = height]
  <1>2. /\ e \in EdType /\ ed' = render(e)
        /\ e.lines = ed.lines /\ e.mode = ed.mode /\ e.query = ed.query /\ e.real = ed.real /\ e.cursor = ed.cursor
    BY <1>1, WorldAssumption DEF Shown, EdType
  <1> HIDE DEF e
  <1>3. ASSUME e.mode \in Prompts
        PROVE  Asks(ed')
    <2>1. Asks(ed) /\ ed.rows # <<>> /\ ed.cursor < Len(ed.rows)
      BY <1>2, <1>3 DEF Shown, Asks
    <2>2. /\ ed'.rows = ed.rows /\ ed'.cursor = ed.cursor /\ ed'.real = ed.real /\ ed'.lines = ed.lines
          /\ ed'.mode = ed.mode
      BY <1>2, <2>1, Rendered DEF Shown
    <2> QED
      BY <2>1, <2>2 DEF Asks, RowLine
  <1>4. Shown' /\ ed'.lines = ed.lines
    BY <1>2, <1>3, ScreenShows
  <1> QED
    BY <1>4 DEF ShownLineOnly

\* A key that puts other lines in the place of those there are.
LEMMA LinesBecome ==
    ASSUME Shown, NEW lines \in Lines, NEW e, ed' = render(e), e \in EdType,
           e.lines = lines, e.mode = "normal",
           ed.rows # <<>> => OthersKept(ed.lines, lines, realIdx),
           ed.rows = <<>> => lines = Append(ed.lines, lines[Len(lines)])
    PROVE  Shown' /\ ShownLineOnly
  <1>1. "normal" \notin Prompts
    BY DEF Prompts
  <1>2. Shown' /\ ed'.lines = lines
    BY <1>1, ScreenShows
  <1> QED
    BY <1>2 DEF ShownLineOnly, Shown, realIdx

\* The keys that change the line under the cursor.
LEMMA RowChanges ==
    ASSUME Shown, ToggleComment \/ Delete
    PROVE  Shown' /\ ShownLineOnly
  <1>0. ed \in EdType /\ OnRow
    BY DEF Shown, ToggleComment, Delete
  <1>1. ed.rows # <<>> /\ realIdx \in 1..Len(ed.lines) /\ ed.lines \in Lines /\ ed.lines[realIdx] \in Line
    <2>1. ed.rows # <<>>
      BY <1>0 DEF OnRow, EdType
    <2> QED
      BY <2>1, RowOfCursor
  <1>2. CASE ToggleComment
    <2> DEFINE lines == [ed.lines EXCEPT ![realIdx] = Toggled(ed.lines[realIdx])]
               e == [ed EXCEPT !.lines = lines]
    <2>1. ed' = render(e) /\ ed.mode = "normal"
      BY <1>2 DEF ToggleComment, Key
    <2>2. lines \in Lines /\ OthersKept(ed.lines, lines, realIdx)
      BY <1>1, KnownLines, LineReplaced
    <2> HIDE DEF lines
    <2>3. e \in EdType /\ e.lines = lines /\ e.mode = "normal"
      BY <1>0, <2>1, <2>2 DEF EdType
    <2> HIDE DEF e
    <2> QED
      BY <1>1, <2>1, <2>2, <2>3, LinesBecome
  <1>3. CASE Delete
    <2> DEFINE lines == WithoutLine(ed.lines, realIdx)
               cursor == IF ed.cursor >= Bottom /\ ed.cursor > 0 THEN ed.cursor - 1 ELSE ed.cursor
               e == [ed EXCEPT !.lines = lines, !.cursor = cursor]
    <2>1. ed' = render(e) /\ ed.mode = "normal"
      BY <1>3 DEF Delete, Key
    <2>2. lines \in Lines /\ OthersKept(ed.lines, lines, realIdx)
      BY <1>1, LineTakenOut, LineRemoved
    <2>3. cursor \in Nat
      BY <1>0 DEF EdType
    <2> HIDE DEF lines, cursor
    <2>4. e \in EdType /\ e.lines = lines /\ e.mode = "normal"
      BY <1>0, <2>1, <2>2, <2>3 DEF EdType
    <2> HIDE DEF e
    <2> QED
      BY <1>1, <2>1, <2>2, <2>4, LinesBecome
  <1> QED
    BY <1>2, <1>3

\* Enter, and Escape where it changes a line.
LEMMA Entering ==
    ASSUME Shown, NEW lines \in Lines, NEW mode, Key(mode, Entered(lines)),
           ed.rows # <<>> => OthersKept(ed.lines, lines, realIdx),
           ed.rows = <<>> => lines = Append(ed.lines, lines[Len(lines)])
    PROVE  Shown' /\ ShownLineOnly
  <1>1. /\ ed' = render(Entered(lines)) /\ Entered(lines) \in EdType
        /\ Entered(lines).lines = lines /\ Entered(lines).mode = "normal"
    BY DEF Shown, Key, Entered, EdType, Modes
  <1> QED
    BY <1>1, LinesBecome

\* A prompt that is left without a change.
LEMMA Leaving ==
    ASSUME Shown, NEW mode, Key(mode, Entered(ed.lines))
    PROVE  Shown' /\ ShownLineOnly
  <1>1. /\ ed' = render(Entered(ed.lines)) /\ Entered(ed.lines) \in EdType
        /\ Entered(ed.lines).lines = ed.lines /\ Entered(ed.lines).mode = "normal"
    BY DEF Shown, Key, Entered, EdType, Modes
  <1> QED
    BY <1>1, LinesStay DEF Prompts

\* What a prompt asks about.
LEMMA Asked ==
    ASSUME Shown, ed.mode \in Prompts
    PROVE  /\ ed.rows # <<>> /\ ed.real \in 1..Len(ed.lines) /\ ed.lines \in Lines
           /\ ed.lines[ed.real] \in Line
           /\ ed.mode # "prompt_comment_before" => realIdx = ed.real
           /\ ed.mode = "prompt_comment_before" =>
                 /\ realIdx = ed.real \/ (ed.real < Len(ed.lines) /\ realIdx = ed.real + 1)
                 /\ IsPut(ed.lines[ed.real])
  <1>1. Asks(ed) /\ ed.rows # <<>> /\ ed.lines \in Lines
    BY DEF Shown, Asks, EdType
  <1>2. realIdx \in 1..Len(ed.lines) /\ RowLine(ed) = realIdx /\ Len(ed.lines) \in Nat
    BY <1>1, RowOfCursor
  <1>3. ed.real \in 1..Len(ed.lines) /\ ed.lines[ed.real] \in Line
    BY <1>1, ElementOfSeq DEF Asks, Lines
  <1> QED
    BY <1>1, <1>2, <1>3 DEF Asks, IsPut

\* Enter in a prompt about one line.
LEMMA PromptsAnswered ==
    ASSUME Shown, NEW piece \in Pieces,
           EnterCommentAfter(piece) \/ EnterCommentBefore(piece) \/ EnterReplace(piece)
    PROVE  Shown' /\ ShownLineOnly
  <1>1. CASE EnterCommentAfter(piece)
    <2> DEFINE line == Append(ed.lines[ed.real], piece)
    <2>0. ed.mode = "prompt_comment_after" /\ ed.mode \in Prompts
      BY <1>1 DEF EnterCommentAfter, Key, Prompts
    <2>1. /\ ed.rows # <<>> /\ ed.real \in 1..Len(ed.lines) /\ ed.lines \in Lines /\ realIdx = ed.real
          /\ line \in Line
      BY <2>0, Asked, KnownLines
    <2>2. CASE piece = Blank
      BY <1>1, <2>2, Leaving DEF EnterCommentAfter
    <2>3. CASE piece # Blank
      <3>1. Key("prompt_comment_after", Entered([ed.lines EXCEPT ![ed.real] = line]))
        BY <1>1, <2>3 DEF EnterCommentAfter
      <3> HIDE DEF line
      <3> QED
        BY <2>1, <3>1, LineReplaced, Entering
    <2> QED
      BY <2>2, <2>3
  <1>2. CASE EnterCommentBefore(piece)
    <2> DEFINE lines == IF piece = Blank THEN WithoutLine(ed.lines, ed.real)
                        ELSE [ed.lines EXCEPT ![ed.real] = <<Blank, piece>>]
    <2>0. ed.mode = "prompt_comment_before" /\ ed.mode \in Prompts /\ Key("prompt_comment_before", Entered(lines))
      BY <1>2 DEF EnterCommentBefore, Key, Prompts
    <2>1. /\ ed.rows # <<>> /\ ed.real \in 1..Len(ed.lines) /\ ed.lines \in Lines
          /\ realIdx = ed.real \/ (ed.real < Len(ed.lines) /\ realIdx = ed.real + 1)
          /\ IsPut(ed.lines[ed.real]) /\ <<Blank, piece>> \in Line
      BY <2>0, Asked, KnownLines
    <2>2. lines \in Lines /\ OthersKept(ed.lines, lines, realIdx)
      <3>1. CASE piece = Blank
        BY <2>1, <3>1, LineTakenOut, LineRemoved
      <3>2. CASE piece # Blank
        BY <2>1, <3>2, LineReplaced
      <3> QED
        BY <3>1, <3>2
    <2> HIDE DEF lines
    <2> QED
      BY <2>0, <2>1, <2>2, Entering
  <1>3. CASE EnterReplace(piece)
    <2> DEFINE lines == IF piece = Blank THEN WithoutLine(ed.lines, ed.real)
                        ELSE [ed.lines EXCEPT ![ed.real] = <<piece>>]
    <2>0. ed.mode = "prompt_replace" /\ ed.mode \in Prompts /\ Key("prompt_replace", Entered(lines))
      BY <1>3 DEF EnterReplace, Key, Prompts
    <2>1. /\ ed.rows # <<>> /\ ed.real \in 1..Len(ed.lines) /\ ed.lines \in Lines /\ realIdx = ed.real
          /\ <<piece>> \in Line
      BY <2>0, Asked, KnownLines
    <2>2. lines \in Lines /\ OthersKept(ed.lines, lines, realIdx)
      <3>1. CASE piece = Blank
        BY <2>1, <3>1, LineTakenOut, LineRemoved
      <3>2. CASE piece # Blank
        BY <2>1, <3>2, LineReplaced
      <3> QED
        BY <3>1, <3>2
    <2> HIDE DEF lines
    <2> QED
      BY <2>0, <2>1, <2>2, Entering
  <1> QED
    BY <1>1, <1>2, <1>3

\* Enter behind a new line.
LEMMA LineEntered ==
    ASSUME Shown, NEW piece \in Pieces, EnterInsert(piece)
    PROVE  Shown' /\ ShownLineOnly
  <1>0. ed.lines \in Lines /\ <<piece>> \in Line
    BY KnownLines DEF Shown, EdType
  <1>1. CASE piece = Blank
    BY <1>1, Leaving DEF EnterInsert
  <1>2. CASE piece # Blank /\ OnRow
    <2>1. ed.rows # <<>> /\ realIdx \in 1..Len(ed.lines)
      <3>1. ed.rows # <<>>
        BY <1>2 DEF OnRow, Shown, EdType
      <3> QED
        BY <3>1, RowOfCursor
    <2>2. Key("insert", Entered(WithLine(ed.lines, realIdx, <<piece>>)))
      BY <1>2 DEF EnterInsert
    <2>3. /\ WithLine(ed.lines, realIdx, <<piece>>) \in Lines
          /\ OthersKept(ed.lines, WithLine(ed.lines, realIdx, <<piece>>), realIdx)
      BY <1>0, <2>1, LinePutIn, LineInserted
    <2> QED
      BY <2>1, <2>2, <2>3, Entering
  <1>3. CASE piece # Blank /\ ~OnRow
    <2> DEFINE lines == Append(ed.lines, <<piece>>)
    <2>1. Key("insert", Entered(lines)) /\ ed.rows = <<>>
      BY <1>3, NoRow DEF EnterInsert
    <2>2. lines \in Lines /\ lines[Len(lines)] = <<piece>>
      BY <1>0 DEF Lines
    <2>3. lines = Append(ed.lines, lines[Len(lines)])
      BY <2>2
    <2> HIDE DEF lines
    <2> QED
      BY <2>1, <2>2, <2>3, Entering
  <1> QED
    BY <1>1, <1>2, <1>3

\* Enter behind versions: a line for each.
LEMMA VersionsEntered ==
    ASSUME Shown, NEW versions \in BoundedSeq(VersionNames, 2), EnterVersions(versions)
    PROVE  Shown' /\ ShownLineOnly
  <1> DEFINE line == ed.lines[ed.real]
             middle == WithVersions(line, versions)
             lines == SubSeq(ed.lines, 1, ed.real - 1) \o middle \o SubSeq(ed.lines, ed.real + 1, Len(ed.lines))
  <1>0. ed.mode = "prompt_version" /\ ed.mode \in Prompts /\ Key("prompt_version", Entered(lines))
    BY DEF EnterVersions, Key, Prompts
  <1>1. /\ ed.rows # <<>> /\ ed.real \in 1..Len(ed.lines) /\ ed.lines \in Lines /\ realIdx = ed.real
        /\ line \in Line
    BY <1>0, Asked
  <1> HIDE DEF line
  <1>2. versions \in Seq(VersionNames)
    <2>1. PICK m \in 0..2 : versions \in [1..m -> VersionNames]
      BY DEF BoundedSeq, SeqOf
    <2> QED
      BY <2>1
  <1>3. ASSUME NEW v \in VersionNames \cup {Unversioned}
        PROVE  <<Piece(Head(line).pkg, v)>> \o Tail(line) \in Line
    <2> DEFINE rest == Tail(line)
               first == <<Piece(Head(line).pkg, v)>>
    <2>1. rest \in Seq(Pieces)
      BY <1>1, HeadTailProperties DEF Line
    <2>2. Piece(Head(line).pkg, v) \in Pieces
      BY <1>1, KnownLines DEF Pieces, Piece
    <2>3. first \in Seq(Pieces) /\ Len(first) = 1
      BY <2>2
    <2> HIDE DEF rest, first
    <2>4. first \o rest \in Seq(Pieces) /\ Len(first \o rest) = Len(first) + Len(rest) /\ Len(rest) \in Nat
      <3>1. Len(rest) \in Nat
        BY <2>1
      <3> QED
        BY <2>1, <2>3, <3>1, ConcatProperties
    <2>5. first \o rest # <<>>
      BY <2>3, <2>4
    <2> QED
      BY <2>4, <2>5 DEF Line, rest, first
  <1>4. middle \in Lines
    <2>1. CASE versions = <<>>
      BY <1>3, <2>1 DEF WithVersions, Lines
    <2>2. CASE versions # <<>>
      <3>1. \A i \in 1..Len(versions) : versions[i] \in VersionNames
        BY <1>2, ElementOfSeq
      <3>2. middle = [i \in 1..Len(versions) |-> <<Piece(Head(line).pkg, versions[i])>> \o Tail(line)]
        BY <1>2, <2>2 DEF WithVersions
      <3>3. \A i \in 1..Len(versions) : middle[i] \in Line
        BY <1>3, <3>1, <3>2
      <3> HIDE DEF middle
      <3> QED
        BY <1>2, <3>2, <3>3 DEF Lines
    <2> QED
      BY <2>1, <2>2
  <1> HIDE DEF middle
  <1>5. lines \in Lines /\ OthersKept(ed.lines, lines, realIdx)
    BY <1>1, <1>4, LineExpanded
  <1> HIDE DEF lines
  <1> QED
    BY <1>0, <1>1, <1>5, Entering

\* Escape gives a prompt up, and takes back the line it began with.
LEMMA Escapes ==
    ASSUME Shown, Escape
    PROVE  Shown' /\ ShownLineOnly
  <1>1. CASE ed.mode = "prompt_comment_before"
    <2>1. Key("prompt_comment_before", Entered(WithoutLine(ed.lines, ed.real)))
      BY <1>1 DEF Escape, Key, Entered, Shown, EdType
    <2>2. /\ ed.rows # <<>> /\ ed.real \in 1..Len(ed.lines) /\ ed.lines \in Lines
          /\ realIdx = ed.real \/ (ed.real < Len(ed.lines) /\ realIdx = ed.real + 1)
          /\ IsPut(ed.lines[ed.real])
      BY <1>1, Asked DEF Prompts
    <2>3. WithoutLine(ed.lines, ed.real) \in Lines /\ OthersKept(ed.lines, WithoutLine(ed.lines, ed.real), realIdx)
      BY <2>2, LineTakenOut, LineRemoved
    <2> QED
      BY <2>1, <2>2, <2>3, Entering
  <1>2. CASE ed.mode # "prompt_comment_before"
    <2>1. PICK mode \in Typing : Key(mode, Entered(ed.lines))
      BY <1>2 DEF Escape, Key, Entered, Shown, EdType
    <2> QED
      BY <2>1, Leaving
  <1> QED
    BY <1>1, <1>2

\* Where the cursor is on a row, there are rows.
LEMMA RowUnderCursor ==
    ASSUME Shown, OnRow
    PROVE  ed \in EdType /\ ed.rows # <<>>
  <1>1. ed \in EdType
    BY DEF Shown
  <1> QED
    BY <1>1 DEF OnRow, EdType

\* A prompt begins, about the line under the cursor.
LEMMA PromptsBegin ==
    ASSUME Shown, NEW mode \in Prompts \ {"prompt_comment_before"}, OnRow, ed' = render(Prompt(mode))
    PROVE  Shown' /\ ShownLineOnly
  <1> DEFINE e == Prompt(mode)
  <1>0. ed \in EdType /\ ed.rows # <<>>
    BY DEF Shown, EdType, OnRow
  <1>1. realIdx \in 1..Len(ed.lines) /\ RowLine(ed) = realIdx /\ realIdx \in Nat /\ ed.cursor < Len(ed.rows)
    BY <1>0, RowOfCursor DEF Shown
  <1>2. /\ e \in EdType /\ ed' = render(e) /\ e.lines = ed.lines /\ e.mode = mode /\ e.query = ed.query
        /\ e.real = realIdx /\ e.cursor = ed.cursor
    BY <1>0, <1>1 DEF Prompt, EdType, Modes, Typing
  <1> HIDE DEF e
  <1>3. /\ ed'.rows = ed.rows /\ ed'.cursor = ed.cursor /\ ed'.real = realIdx /\ ed'.lines = ed.lines
        /\ ed'.mode = mode
    BY <1>1, <1>2, Rendered DEF Shown
  <1>4. Asks(ed')
    BY <1>0, <1>1, <1>3 DEF Asks, RowLine
  <1> QED
    BY <1>2, <1>3, <1>4, ScreenShows DEF ShownLineOnly

\* The prompt for a comment before the line puts an empty one there, which moves the rows.
LEMMA CommentBegins ==
    ASSUME Shown, OnRow,
           ed' = render([Prompt("prompt_comment_before") EXCEPT !.lines = WithLine(@, realIdx, <<Blank>>)])
    PROVE  Shown' /\ ShownLineOnly
  <1> DEFINE lines == WithLine(ed.lines, realIdx, <<Blank>>)
             e == [Prompt("prompt_comment_before") EXCEPT !.lines = lines]
  <1>0. ed \in EdType /\ ed.rows # <<>> /\ <<Blank>> \in Line
    <2>1. ed \in EdType /\ ed.rows # <<>>
      BY DEF Shown, EdType, OnRow
    <2>2. <<Blank>> \in Line
      BY KnownLines
    <2> QED
      BY <2>1, <2>2
  <1>1. /\ realIdx \in 1..Len(ed.lines) /\ RowLine(ed) = realIdx /\ realIdx \in Nat /\ ed.lines \in Lines
        /\ ed.cursor < Len(ed.rows) /\ ed.cursor + 1 \in 1..Len(ed.rows) /\ ed.cursor \in Nat
    BY <1>0, RowOfCursor DEF Shown, EdType
  <1>2. /\ lines \in Lines /\ Len(lines) = Len(ed.lines) + 1 /\ lines[realIdx] = <<Blank>>
        /\ OthersKept(ed.lines, lines, realIdx)
    <2>1. realIdx \in 1..Len(ed.lines) + 1
      BY <1>1 DEF Lines
    <2> QED
      BY <1>0, <1>1, <2>1, LinePutIn, LineInserted
  <1>3. LET after == filteredIndices(lines, ed.query)
        IN  ed.cursor + 1 \in 1..Len(after) /\ after[ed.cursor + 1] \in {realIdx, realIdx + 1}
    <2>1. /\ ed.query \in Queries /\ ed.rows = filteredIndices(ed.lines, ed.query)
          /\ ed.rows[ed.cursor + 1] = realIdx
      BY <1>0 DEF Shown, EdType, realIdx
    <2> QED
      BY <1>0, <1>1, <2>1, RowsShift
  <1> HIDE DEF lines
  <1>4. /\ e \in EdType /\ e.lines = lines /\ e.mode = "prompt_comment_before" /\ e.query = ed.query
        /\ e.real = realIdx /\ e.cursor = ed.cursor
    BY <1>0, <1>1, <1>2 DEF Prompt, EdType, Modes, Typing, Prompts
  <1>5. ed' = render(e)
    BY <1>0 DEF lines, Prompt, EdType
  <1> HIDE DEF e
  <1>6. /\ ed'.rows = filteredIndices(lines, ed.query) /\ ed'.rows \in Seq(Nat) /\ ed'.cursor = ed.cursor
        /\ ed'.real = realIdx /\ ed'.lines = lines /\ ed'.mode = "prompt_comment_before"
    <2>1. /\ ed'.rows = filteredIndices(lines, ed.query)
          /\ ed'.real = realIdx /\ ed'.lines = lines /\ ed'.mode = "prompt_comment_before"
      BY <1>4, <1>5, Rendered
    <2>2. e.cursor < Len(ed'.rows) /\ ed'.rows \in Seq(Nat)
      BY <1>1, <1>2, <1>3, <1>4, <2>1, RowsListed
    <2> QED
      BY <1>4, <1>5, <2>1, <2>2, Rendered
  <1>7. Asks(ed')
    <2>1. ed'.rows # <<>>
      BY <1>1, <1>3, <1>6
    <2>2. realIdx \in 1..Len(lines)
      BY <1>1, <1>2 DEF Lines
    <2>3. RowLine(ed') \in {realIdx, realIdx + 1}
      BY <1>3, <1>6 DEF RowLine
    <2> QED
      BY <1>2, <1>6, <2>1, <2>2, <2>3 DEF Asks
  <1>8. Shown'
    BY <1>4, <1>5, <1>7, ScreenShows
  <1> QED
    BY <1>0, <1>2, <1>6, <1>8 DEF ShownLineOnly, Shown, realIdx

\* The comment before the line is taken out.
LEMMA CommentTakenOut ==
    ASSUME Shown, OnRow, realIdx > 1, IsComment(ed.lines[realIdx - 1])
    PROVE  /\ WithoutLine(ed.lines, realIdx - 1) \in Lines
           /\ OthersKept(ed.lines, WithoutLine(ed.lines, realIdx - 1), realIdx)
  <1> DEFINE i == realIdx - 1
  <1>1. realIdx \in 1..Len(ed.lines) /\ ed.lines \in Lines /\ Len(ed.lines) \in Nat
    BY RowUnderCursor, RowOfCursor
  <1>2. i \in 1..Len(ed.lines) /\ i < Len(ed.lines) /\ i + 1 = realIdx
    BY <1>1
  <1>3. IsPut(ed.lines[i])
    BY DEF IsPut
  <1> HIDE DEF i
  <1>4. WithoutLine(ed.lines, i) \in Lines /\ OthersKept(ed.lines, WithoutLine(ed.lines, i), i + 1)
    BY <1>1, <1>2, <1>3, LineTakenOut, LineRemoved
  <1> QED
    BY <1>2, <1>4 DEF i

\* The options of the modal.
LEMMA Options ==
    ASSUME Shown, NEW option, EditOption(option),
           option \in {"comment", "version", "comment after", "comment before", "replace"}
    PROVE  Shown' /\ ShownLineOnly
  <1> DEFINE line == ed.lines[realIdx]
  <1>0. /\ OnRow /\ ed \in EdType /\ ed.rows # <<>> /\ ed.mode = "edit_modal"
    <2>1. OnRow /\ ed.mode = "edit_modal"
      BY DEF EditOption, Key
    <2> QED
      BY <2>1, RowUnderCursor
  <1>1. realIdx \in 1..Len(ed.lines) /\ ed.lines \in Lines /\ line \in Line /\ realIdx \in Nat
    BY <1>0, RowOfCursor
  <1>2. ASSUME NEW lines \in Lines, OthersKept(ed.lines, lines, realIdx), ed' = render(Done(lines))
        PROVE  Shown' /\ ShownLineOnly
    <2>1. Done(lines) \in EdType /\ Done(lines).lines = lines /\ Done(lines).mode = "normal"
      BY <1>0, <1>1 DEF Done, EdType, Modes
    <2> QED
      BY <1>0, <1>2, <2>1, LinesBecome
  <1>3. CASE option = "comment"
    <2> DEFINE lines == [ed.lines EXCEPT ![realIdx] = Toggled(line)]
    <2>1. ed' = render(Done(lines))
      BY <1>3 DEF EditOption, Key
    <2>2. lines \in Lines /\ OthersKept(ed.lines, lines, realIdx)
      BY <1>1, KnownLines, LineReplaced
    <2> HIDE DEF lines
    <2> QED
      BY <1>2, <2>1, <2>2
  <1>4. CASE option = "version" \/ option = "replace"
    <2>1. \E mode \in {"prompt_version", "prompt_replace"} : ed' = render(Prompt(mode))
      BY <1>4 DEF EditOption, Key
    <2> QED
      BY <1>0, <2>1, PromptsBegin DEF Prompts
  <1>5. CASE option = "comment after"
    <2>1. CASE Len(line) > 1 /\ ~IsComment(line)
      <3> DEFINE lines == [ed.lines EXCEPT ![realIdx] = <<Head(line)>>]
      <3>1. ed' = render(Done(lines))
        BY <1>5, <2>1 DEF EditOption, Key
      <3>2. lines \in Lines /\ OthersKept(ed.lines, lines, realIdx)
        BY <1>1, KnownLines, LineReplaced
      <3> HIDE DEF lines
      <3> QED
        BY <1>2, <3>1, <3>2
    <2>2. CASE ~(Len(line) > 1 /\ ~IsComment(line))
      <3>1. ed' = render(Prompt("prompt_comment_after"))
        BY <1>5, <2>2 DEF EditOption, Key
      <3> QED
        BY <1>0, <3>1, PromptsBegin DEF Prompts
    <2> QED
      BY <2>1, <2>2
  <1>6. CASE option = "comment before"
    <2>1. CASE realIdx > 1 /\ IsComment(ed.lines[realIdx - 1])
      <3>1. ed' = render(Done(WithoutLine(ed.lines, realIdx - 1)))
        BY <1>6, <2>1 DEF EditOption, Key
      <3>2. /\ WithoutLine(ed.lines, realIdx - 1) \in Lines
            /\ OthersKept(ed.lines, WithoutLine(ed.lines, realIdx - 1), realIdx)
        BY <1>0, <2>1, CommentTakenOut
      <3> QED
        BY <1>2, <3>1, <3>2
    <2>2. CASE ~(realIdx > 1 /\ IsComment(ed.lines[realIdx - 1]))
      <3>1. ed' = render([Prompt("prompt_comment_before") EXCEPT !.lines = WithLine(@, realIdx, <<Blank>>)])
        BY <1>6, <2>2 DEF EditOption, Key
      <3> QED
        BY <1>0, <3>1, CommentBegins
    <2> QED
      BY <2>1, <2>2
  <1> QED
    BY <1>3, <1>4, <1>5, <1>6

\* Every key, and a change of the terminal's size.
LEMMA KeysShow ==
    ASSUME Shown, NormalKey \/ Modal \/ Typed \/ Resize
    PROVE  Shown' /\ ShownLineOnly
  <1>1. CASE NormalKey
    BY <1>1, Moves, RowChanges DEF NormalKey
  <1>2. CASE Modal
    BY <1>2, Moves, Options DEF Modal
  <1>3. CASE Typed
    <2>1. CASE Escape
      BY <2>1, Escapes
    <2>2. CASE \E query \in Packages \cup {Everything} : TypeFilter(query)
      BY <2>2, FilterChanges DEF Queries
    <2>3. CASE \E piece \in Entries \cup {Blank} : EnterInsert(piece) \/ EnterReplace(piece)
      BY <2>3, KnownLines, LineEntered, PromptsAnswered
    <2>4. CASE \E piece \in {Words, Blank} : EnterCommentAfter(piece) \/ EnterCommentBefore(piece)
      BY <2>4, KnownLines, PromptsAnswered
    <2>5. CASE \E versions \in BoundedSeq(VersionNames, 2) : EnterVersions(versions)
      BY <2>5, VersionsEntered
    <2> QED
      BY <1>3, <2>1, <2>2, <2>3, <2>4, <2>5 DEF Typed
  <1>4. CASE Resize
    BY <1>4, ResizeShows
  <1> QED
    BY <1>1, <1>2, <1>3, <1>4

-----------------------------------------------------------------------------
(* The invariant of the editor.                                            *)

\* What the editor shows, and the lines in the files and buffers, which it reads.
EdInv ==
    /\ \A f \in Files : content[f] \in Lines
    /\ \A p \in Procs : buf[p] \in Lines
    /\ pc[Editor] = "editing" => Shown

\* What a process reads are lines.
LEMMA ReadLines ==
    ASSUME IInv, EdInv
    PROVE  readWorldFile \in Lines
  <1>1. name.world \in Files \cup {NoFile} /\ <<>> \in Lines
    <2>1. name.world \in Files \cup {NoFile}
      BY DEF IInv, Types
    <2>2. <<>> \in Lines
      BY KnownLines
    <2> QED
      BY <2>1, <2>2
  <1> QED
    BY <1>1 DEF EdInv, readWorldFile

\* What a command makes of lines are lines.
LEMMA ChangedLines ==
    ASSUME NEW lines \in Lines, NEW cmd \in {"delete", "add", "enable", "disable"}, NEW e \in Entries
    PROVE  Changed(lines, cmd, e) \in Lines
  <1>0. /\ <<e>> \in Line /\ <<Blank, e>> \in Line /\ Len(lines) \in Nat /\ DOMAIN lines = 1..Len(lines)
        /\ \A i \in 1..Len(lines) : lines[i] \in Line
    BY KnownLines, ElementOfSeq DEF Lines
  <1>1. deletePackage(lines, e) \in Lines
    <2> DEFINE S == {i \in DOMAIN lines : ~Names(lines[i], e)}
               kept == Ascending(S)
    <2>1. S \subseteq 1..Len(lines)
      BY <1>0
    <2> HIDE DEF S
    <2>2. Lists(kept, S)
      BY <1>0, <2>1, AscendingLists
    <2> HIDE DEF kept
    <2>3. kept \in Seq(S)
      BY <2>2 DEF Lists
    <2>4. \A k \in 1..Len(kept) : lines[kept[k]] \in Line
      BY <1>0, <2>1, <2>3, ElementOfSeq
    <2>5. [k \in 1..Len(kept) |-> lines[kept[k]]] \in Lines
      BY <2>3, <2>4 DEF Lines
    <2>6. DOMAIN kept = 1..Len(kept)
      BY <2>3
    <2>7. DOMAIN kept = 1..Cardinality(S)
      BY DEF kept, Ascending
    <2>8. deletePackage(lines, e) = [k \in 1..Cardinality(S) |-> lines[kept[k]]]
      BY DEF deletePackage, LinesAt, kept, S
    <2> QED
      BY <2>5, <2>6, <2>7, <2>8
  <1>2. addPackage(lines, e) \in Lines
    BY <1>0 DEF addPackage, Lines
  <1>3. enablePackage(lines, e) \in Lines
    <2>1. Len(<<Blank, e>>) > 1
      OBVIOUS
    <2>2. \A i \in 1..Len(lines) : (IF lines[i] = <<Blank, e>> THEN Uncommented(lines[i]) ELSE lines[i]) \in Line
      BY <1>0, <2>1, KnownLines
    <2> QED
      BY <1>0, <2>2 DEF enablePackage, Lines
  <1>4. disablePackage(lines, e) \in Lines
    <2>1. \A i \in 1..Len(lines) : (IF lines[i] = <<e>> THEN Commented(lines[i]) ELSE lines[i]) \in Line
      BY <1>0, KnownLines
    <2> QED
      BY <1>0, <2>1 DEF disablePackage, Lines
  <1> QED
    BY <1>1, <1>2, <1>3, <1>4 DEF Changed

\* A screen is shown, or none.
LEMMA EditorEnds ==
    ASSUME IInv, NEW p \in Procs, NEW to, to # "editing", pc' = [pc EXCEPT ![p] = to],
           p = Editor \/ UNCHANGED ed, pc[Editor] = "editing" => Shown
    PROVE  pc'[Editor] = "editing" => Shown' /\ p # Editor /\ pc[Editor] = "editing"
  <1>0. FunctionOn(pc, Procs)
    BY DEF IInv, Types
  <1>1. \A q \in Procs : pc'[q] = IF q = p THEN to ELSE pc[q]
    BY <1>0, MovesTo
  <1>2. Editor \in Procs
    BY DEF Procs
  <1>3. UNCHANGED ed => (Shown <=> Shown')
    BY DEF Shown, Asks, RowLine
  <1> QED
    BY <1>1, <1>2, <1>3

\* What a step of the editor does to its lines.
EditorStep ==
    /\ pc'[Editor] = "editing" => Shown'
    /\ pc[Editor] = "editing" /\ pc'[Editor] = "editing" => ShownLineOnly

\* A process that goes elsewhere than into the editor.
LEMMA MoveShows ==
    ASSUME IInv, EdInv, NEW p \in Procs, NEW to, to # "editing", pc' = [pc EXCEPT ![p] = to],
           p = Editor \/ UNCHANGED ed
    PROVE  EditorStep
  <1>1. pc'[Editor] = "editing" => Shown' /\ p # Editor /\ pc[Editor] = "editing"
    BY EditorEnds DEF EdInv
  <1> QED
    BY <1>1 DEF EditorStep, ShownLineOnly

\* The files and the buffers hold lines.
LinesKept == (\A f \in Files : content'[f] \in Lines) /\ (\A p \in Procs : buf'[p] \in Lines)

\* The buffers and files of what writes.
LEMMA BeginLines ==
    ASSUME IInv, EdInv, NEW p \in Procs, NEW lines \in Lines, BeginWrite(p, lines), UNCHANGED content
    PROVE  LinesKept
  <1>1. FunctionOn(buf, Procs) /\ buf' = [buf EXCEPT ![p] = lines]
    BY DEF IInv, Types, BeginWrite
  <1>2. \A q \in Procs : buf'[q] = IF q = p THEN lines ELSE buf[q]
    BY <1>1 DEF FunctionOn
  <1> QED
    BY <1>2 DEF EdInv, LinesKept

\* What is written are lines: none, the torn ones, or what a buffer holds.
LEMMA WrittenLines ==
    ASSUME IInv, EdInv, NEW p \in Procs, writeWorldFile(p) \/ Kill(p)
    PROVE  LinesKept
  <1>0. FunctionOn(content, Files) /\ <<>> \in Lines /\ Torn \in Lines
    <2>1. FunctionOn(content, Files)
      BY DEF IInv, Types
    <2> QED
      BY <2>1, KnownLines
  <1>1. CASE UNCHANGED <<content, buf>>
    BY <1>1 DEF EdInv, LinesKept
  <1>2. ASSUME NEW f, NEW lines \in Lines, content' = [content EXCEPT ![f] = lines], UNCHANGED buf
        PROVE  LinesKept
    BY <1>0, <1>2 DEF EdInv, LinesKept, FunctionOn
  <1>3. CASE Create(p)
    BY <1>0, <1>2, <1>3 DEF Create
  <1>4. CASE WriteString(p)
    BY <1>0, <1>2, <1>4 DEF WriteString
  <1>5. CASE Flush(p)
    BY <1>0, <1>2, <1>5 DEF Flush, EdInv
  <1>6. CASE CreateFails(p) \/ WriteFails(p) \/ Rename(p) \/ RenameFails(p) \/ Kill(p)
    BY <1>1, <1>6 DEF CreateFails, WriteFails, Rename, RenameFails, Kill, disk
  <1> QED
    BY <1>3, <1>4, <1>5, <1>6 DEF writeWorldFile

\* A writer does not touch the editor.
LEMMA WritersShow ==
    ASSUME IInv, EdInv, NEW p \in Procs, writeWorldFile(p) \/ Kill(p)
    PROVE  EditorStep
  <1>1. PICK to \in {"write", "flush", "rename", "ended", "idle", "killed"} : pc' = [pc EXCEPT ![p] = to]
    BY DEF writeWorldFile, Create, CreateFails, WriteString, Flush, WriteFails, Rename, RenameFails, Kill, Ends
  <1>2. UNCHANGED ed
    BY DEF writeWorldFile, Create, CreateFails, WriteString, Flush, WriteFails, Rename, RenameFails, Kill
  <1> QED
    BY <1>1, <1>2, MoveShows

\* The editor is opened on the lines of the file.
LEMMA OpeningShows ==
    ASSUME IInv, EdInv, runWorldTUI
    PROVE  LinesKept /\ EditorStep
  <1>1. PICK height \in Heights : ed' = render(Opened(readWorldFile, height))
    BY DEF runWorldTUI
  <1> DEFINE e == Opened(readWorldFile, height)
  <1>2. e \in EdType /\ e.mode = "normal"
    <2>1. readWorldFile \in Lines /\ height \in Nat
      BY ReadLines, WorldAssumption
    <2> QED
      BY <2>1 DEF Opened, EdType, Modes, Queries
  <1> HIDE DEF e
  <1>3. Shown'
    BY <1>1, <1>2, ScreenShows DEF Prompts, e
  <1>4. pc[Editor] = "idle" /\ LinesKept
    BY DEF runWorldTUI, EdInv, LinesKept, disk
  <1> QED
    BY <1>3, <1>4 DEF EditorStep

\* A command reads the lines, and the editor hands over its own.
LEMMA CommandsShow ==
    ASSUME IInv, EdInv,
           NEW p \in Commands, NEW cmd \in {"delete", "add", "enable", "disable"}, NEW e \in Entries,
           cmdWorld(p, cmd, e)
    PROVE  LinesKept /\ EditorStep
  <1> DEFINE lines == Changed(readWorldFile, cmd, e)
  <1>1. BeginWrite(p, lines) /\ UNCHANGED <<content, ed>> /\ p \in Procs
    BY DEF cmdWorld, disk, Procs
  <1>2. lines \in Lines
    BY ReadLines, ChangedLines
  <1> HIDE DEF lines
  <1>3. pc' = [pc EXCEPT ![p] = "create"]
    BY <1>1 DEF BeginWrite
  <1> QED
    BY <1>1, <1>2, <1>3, BeginLines, MoveShows

\* The editor is left.
LEMMA LeavingShows ==
    ASSUME IInv, EdInv, Save \/ Quit
    PROVE  LinesKept /\ EditorStep
  <1>0. Editor \in Procs
    BY DEF Procs
  <1>1. CASE Save
    <2>1. BeginWrite(Editor, ed.lines) /\ UNCHANGED content /\ ed.lines \in Lines
      BY <1>1 DEF Save, disk, EdInv, Shown, EdType
    <2>2. pc' = [pc EXCEPT ![Editor] = "create"]
      BY <2>1 DEF BeginWrite
    <2> QED
      BY <1>0, <2>1, <2>2, BeginLines, MoveShows
  <1>2. CASE Quit
    <2>1. pc' = [pc EXCEPT ![Editor] = "ended"] /\ LinesKept
      BY <1>2 DEF Quit, disk, EdInv, LinesKept
    <2> QED
      BY <1>0, <2>1, MoveShows
  <1> QED
    BY <1>1, <1>2

\* The initial states.
LEMMA InitEdInv == Init => EdInv
  <1> SUFFICES ASSUME Init PROVE EdInv
    OBVIOUS
  <1>1. <<>> \in Lines
    BY KnownLines
  <1>2. \A f \in Files : content[f] \in Lines
    BY <1>1, LinesAssumption DEF Init
  <1>3. Editor \in Procs
    BY DEF Procs
  <1> QED
    BY <1>1, <1>2, <1>3 DEF Init, EdInv

\* Every step keeps what the screen shows, and does to the lines what the property says.
LEMMA NextEdInv == IInv /\ EdInv /\ [Next]_vars => EdInv' /\ EditorStep
  <1> SUFFICES ASSUME IInv, EdInv, [Next]_vars PROVE LinesKept /\ EditorStep
    BY DEF EdInv, LinesKept, EditorStep
  <1>1. CASE NormalKey \/ Modal \/ Typed \/ Resize
    <2>1. UNCHANGED <<content, buf, pc>>
      BY <1>1, KeyKeeps DEF disk
    <2>2. pc[Editor] = "editing" => Shown' /\ ShownLineOnly
      BY <1>1, KeysShow DEF EdInv
    <2> QED
      BY <2>1, <2>2 DEF EdInv, LinesKept, EditorStep
  <1>2. CASE UNCHANGED vars
    BY <1>2 DEF vars, disk, EdInv, LinesKept, EditorStep, Shown, ShownLineOnly, Asks, RowLine
  <1> QED
    BY <1>1, <1>2, OpeningShows, CommandsShow, LeavingShows, WrittenLines, WritersShow DEF Next

\* What the editor knows of its lines and its screen is right in every reachable state.
THEOREM SpecEdInv == Spec => []EdInv
  BY InitEdInv, NextEdInv, SpecIInv, PTL DEF Spec

\* A key changes nothing but the line that the screen shows under the cursor and what is put
\* before it, for any file, packages, sizes of the terminal and bounds, whatever was filtered,
\* scrolled, resized, begun and given up before, and whatever other processes do to the file.
THEOREM EditorFaithful == Spec => EditorChangesShownLine
  <1> DEFINE P == pc[Editor] = "editing" /\ pc'[Editor] = "editing" /\ ed'.lines # ed.lines =>
          IF ed.rows = <<>> THEN ed'.lines = Append(ed.lines, ed'.lines[Len(ed'.lines)])
          ELSE /\ ed.scroll <= ed.cursor /\ ed.cursor < ed.scroll + ed.list
               /\ OthersKept(ed.lines, ed'.lines, ed.rows[ed.cursor + 1])
  <1>1. IInv /\ EdInv /\ [Next]_vars => [P]_vars
    BY NextEdInv DEF EditorStep, ShownLineOnly
  <1>2. Spec => [][P]_vars
    BY <1>1, SpecIInv, SpecEdInv, PTL DEF Spec
  <1> QED
    BY <1>2 DEF EditorChangesShownLine
-----------------------------------------------------------------------------
\* What the commands write are sequences of atoms, of a bounded length.
LEMMA ContentsFacts ==
    /\ \A s \in Contents : s \in Seq(Atoms) /\ Len(s) \in 0..MaxFragmentLines /\ DOMAIN s = 1..Len(s)
    /\ \A s \in Seq(Atoms) : Len(s) <= MaxFragmentLines => s \in Contents
    /\ <<>> \in Contents /\ TornFragment \notin Contents
    /\ Len(Fragments) \in Nat /\ Places = 1..Len(Fragments) /\ MaxFragmentLines \in Nat
    /\ Target \in Places
  <1>1. Contents = UNION {[1..m -> Atoms] : m \in 0..MaxFragmentLines}
    BY DEF Contents, BoundedSeq, SeqOf
  <1>2. MaxFragmentLines \in Nat /\ "torn" \notin Atoms /\ Target \in Places /\ Fragments \in Seq(STRING)
    BY UserConfigAssumption
  <1>3. ASSUME NEW s \in Contents
        PROVE  s \in Seq(Atoms) /\ Len(s) \in 0..MaxFragmentLines /\ DOMAIN s = 1..Len(s)
    <2>1. PICK m \in 0..MaxFragmentLines : s \in [1..m -> Atoms]
      BY <1>1
    <2> QED
      BY <1>2, <2>1
  <1>4. ASSUME NEW s \in Seq(Atoms), Len(s) <= MaxFragmentLines
        PROVE  s \in Contents
    <2>1. Len(s) \in 0..MaxFragmentLines /\ s \in [1..Len(s) -> Atoms]
      BY <1>2, <1>4
    <2> QED
      BY <1>1, <2>1
  <1>5. <<>> \in Contents
    <2>1. <<>> \in [1..0 -> Atoms] /\ 0 \in 0..MaxFragmentLines
      BY <1>2
    <2> QED
      BY <1>1, <2>1
  <1>6. TornFragment \notin Contents
    <2>1. 1 \in 1..Len(TornFragment) /\ TornFragment[1] = "torn"
      BY DEF TornFragment
    <2> QED
      BY <1>2, <1>3, <2>1
  <1> QED
    BY <1>2, <1>3, <1>4, <1>5, <1>6 DEF Places

\* A removal keeps atoms only, none of them the one that it removes.
LEMMA WithoutFacts ==
    ASSUME NEW s \in Contents, NEW a
    PROVE  Without(s, a) \in Contents /\ \A i \in DOMAIN Without(s, a) : Without(s, a)[i] # a
  <1> DEFINE kept == {i \in DOMAIN s : s[i] # a}
             n == Cardinality(kept)
             t == Without(s, a)
  <1>1. s \in Seq(Atoms) /\ Len(s) \in 0..MaxFragmentLines /\ DOMAIN s = 1..Len(s) /\ MaxFragmentLines \in Nat
    BY ContentsFacts
  <1>2. Len(s) \in Nat /\ kept \subseteq 1..Len(s)
    BY <1>1
  <1>3. IsFiniteSet(1..Len(s)) /\ Cardinality(1..Len(s)) = Len(s)
    <2> DEFINE m == Len(s)
    <2>1. m \in Nat
      BY <1>2
    <2> HIDE DEF m
    <2>2. IsFiniteSet(1..m) /\ Cardinality(1..m) = (IF 1 > m THEN 0 ELSE m - 1 + 1)
      BY <2>1, FS_Interval
    <2>3. Cardinality(1..m) = m
      BY <2>1, <2>2
    <2> QED
      BY <2>2, <2>3 DEF m
  <1>4. n \in Nat /\ n <= Len(s)
    BY <1>2, <1>3, FS_Subset, FS_CardinalityType
  <1>5. Ascending(kept) \in Seq(kept) /\ DOMAIN Ascending(kept) = 1..n
    BY <1>2, AscendingLists DEF Lists, Ascending
  <1>6. \A k \in 1..n : Ascending(kept)[k] \in kept
    <2>1. \A S : \A o \in Seq(S) : \A k \in DOMAIN o : o[k] \in S
      OBVIOUS
    <2> QED
      BY <1>5, <2>1
  <1>7. t = [k \in 1..n |-> s[Ascending(kept)[k]]]
    BY DEF Without, LinesAt
  <1>8. \A k \in 1..n : t[k] \in Atoms /\ t[k] # a
    BY <1>1, <1>6, <1>7
  <1>9. t \in Seq(Atoms) /\ Len(t) = n /\ DOMAIN t = 1..n
    BY <1>4, <1>7, <1>8
  <1> QED
    BY <1>1, <1>4, <1>8, <1>9, ContentsFacts

-----------------------------------------------------------------------------
\* The lines of the first n fragments that hold a.
Where(files, a, n) ==
    {l \in (1..n) \X (1..MaxFragmentLines) : l[2] \in DOMAIN files[l[1]] /\ files[l[1]][l[2]] = a}

\* The lines that hold an atom are counted fragment by fragment.
LEMMA CountByFragment ==
    ASSUME NEW files \in [Places -> Contents], NEW a
    PROVE  /\ Total(files, a) = Cardinality(Where(files, a, Len(Fragments)))
           /\ Cardinality(Where(files, a, 0)) = 0
           /\ \A n \in 0..Len(Fragments) :
                IsFiniteSet(Where(files, a, n)) /\ Cardinality(Where(files, a, n)) \in Nat
           /\ \A n \in Places : /\ Occurrences(files[n], a) \in Nat
                                /\ Occurrences(files[n], a) = 0 => \A i \in DOMAIN files[n] : files[n][i] # a
                                /\ Cardinality(Where(files, a, n)) =
                                       Cardinality(Where(files, a, n - 1)) + Occurrences(files[n], a)
  <1>0. Len(Fragments) \in Nat /\ Places = 1..Len(Fragments) /\ MaxFragmentLines \in Nat
    BY ContentsFacts
  <1>1. Total(files, a) = Cardinality(Where(files, a, Len(Fragments)))
    BY <1>0 DEF Total, Where
  <1>2. Where(files, a, 0) = {}
    BY DEF Where
  <1>3. ASSUME NEW n \in 0..Len(Fragments)
        PROVE  IsFiniteSet(Where(files, a, n)) /\ Cardinality(Where(files, a, n)) \in Nat
    <2>1. IsFiniteSet(1..n) /\ IsFiniteSet(1..MaxFragmentLines)
      BY <1>0, FS_Interval
    <2>2. IsFiniteSet((1..n) \X (1..MaxFragmentLines))
      BY <2>1, FS_Product
    <2> QED
      BY <2>2, FS_Subset, FS_CardinalityType DEF Where
  <1>4. ASSUME NEW n \in Places
        PROVE  /\ Occurrences(files[n], a) \in Nat
               /\ Occurrences(files[n], a) = 0 => \A i \in DOMAIN files[n] : files[n][i] # a
               /\ Cardinality(Where(files, a, n)) =
                      Cardinality(Where(files, a, n - 1)) + Occurrences(files[n], a)
    <2> DEFINE R == {i \in DOMAIN files[n] : files[n][i] = a}
               Row == {<<n, i>> : i \in R}
               f == [i \in R |-> <<n, i>>]
    <2>1. /\ DOMAIN files[n] = 1..Len(files[n]) /\ Len(files[n]) \in 0..MaxFragmentLines
          /\ n \in 0..Len(Fragments) /\ n - 1 \in 0..Len(Fragments)
      BY <1>0, ContentsFacts
    <2>2. IsFiniteSet(R) /\ Cardinality(R) \in Nat
      <3>1. IsFiniteSet(1..Len(files[n])) /\ R \subseteq 1..Len(files[n])
        BY <2>1, FS_Interval
      <3> QED
        BY <3>1, FS_Subset, FS_CardinalityType
    <2>3. Cardinality(R) = 0 => R = {}
      BY <2>2, FS_EmptySet
    <2>4. f \in Bijection(R, Row)
      <3>1. f \in [R -> Row]
        OBVIOUS
      <3>2. \A i, j \in R : f[i] = f[j] => i = j
        OBVIOUS
      <3>3. \A t \in Row : \E i \in R : f[i] = t
        OBVIOUS
      <3> HIDE DEF R, Row, f
      <3> QED
        BY <3>1, <3>2, <3>3, Fun_IsBij
    <2>5. IsFiniteSet(Row) /\ Cardinality(Row) = Cardinality(R)
      <3>1. ExistsBijection(R, Row)
        BY <2>4 DEF ExistsBijection
      <3> QED
        BY <2>2, <3>1, FS_Bijection
    <2>6. Where(files, a, n) = Where(files, a, n - 1) \cup Row
      <3>1. ASSUME NEW l \in Where(files, a, n)
            PROVE  l \in Where(files, a, n - 1) \cup Row
        <4>1. /\ l \in (1..n) \X (1..MaxFragmentLines)
              /\ l[2] \in DOMAIN files[l[1]] /\ files[l[1]][l[2]] = a
          BY <3>1 DEF Where
        <4>2. l = <<l[1], l[2]>> /\ l[1] \in 1..n /\ l[2] \in 1..MaxFragmentLines
          BY <4>1
        <4>3. CASE l[1] = n
          BY <4>1, <4>2, <4>3
        <4>4. CASE l[1] # n
          <5>1. l[1] \in 1..n - 1
            BY <2>1, <4>2, <4>4
          <5>2. l \in (1..n - 1) \X (1..MaxFragmentLines)
            BY <4>2, <5>1
          <5> QED
            BY <4>1, <5>2 DEF Where
        <4> QED
          BY <4>3, <4>4
      <3>2. ASSUME NEW l \in Where(files, a, n - 1)
            PROVE  l \in Where(files, a, n)
        <4>1. /\ l \in (1..n - 1) \X (1..MaxFragmentLines)
              /\ l[2] \in DOMAIN files[l[1]] /\ files[l[1]][l[2]] = a
          BY <3>2 DEF Where
        <4>2. l \in (1..n) \X (1..MaxFragmentLines)
          BY <2>1, <4>1
        <4> QED
          BY <4>1, <4>2 DEF Where
      <3>3. ASSUME NEW i \in R
            PROVE  <<n, i>> \in Where(files, a, n)
        <4>1. n \in 1..n /\ i \in 1..MaxFragmentLines
          BY <1>0, <2>1, <3>3
        <4> QED
          BY <4>1, <3>3 DEF Where
      <3> QED
        BY <3>1, <3>2, <3>3
    <2>7. Where(files, a, n - 1) \cap Row = {}
      <3> SUFFICES ASSUME NEW l \in Where(files, a, n - 1), l \in Row PROVE FALSE
        OBVIOUS
      <3>1. l[1] = n /\ l[1] \in 1..n - 1
        BY DEF Where
      <3> QED
        BY <2>1, <3>1
    <2>8. /\ IsFiniteSet(Where(files, a, n - 1)) /\ Cardinality(Where(files, a, n - 1)) \in Nat
      BY <1>3, <2>1
    <2>9. Cardinality(Where(files, a, n)) = Cardinality(Where(files, a, n - 1)) + Cardinality(R) - 0
      BY <2>5, <2>6, <2>7, <2>8, FS_Union, FS_EmptySet
    <2> HIDE DEF Row, f
    <2> QED
      BY <2>2, <2>3, <2>8, <2>9 DEF Occurrences
  <1> QED
    BY <1>1, <1>2, <1>3, <1>4, FS_EmptySet
-----------------------------------------------------------------------------
\* What may be said of a command that runs, or of none.
Calls ==
    [cmd : {"none", "add", "remove"}, atom : Atoms \cup {"none"}, place : 1 .. Len(Fragments) + 1,
     buf : Contents, count : Nat, before : {<<>>} \cup [Places -> Contents], alone : BOOLEAN]

\* The types.
FragmentTypes ==
    /\ file \in [Places -> Contents]
    /\ tmp \in [Processes -> SUBSET Contents]
    /\ at \in [Processes -> {"idle", "check", "read", "scan", "temp", "rename", "killed"}]
    /\ call \in [Processes -> Calls]
    /\ ret \in [Processes -> {"none", "added", "exists", "removed", "error"}]

\* Where a process is says what command it runs and which fragment is next.
AtItsPlace(p) ==
    /\ ~Busy(p) => call[p] = NoCall
    /\ Busy(p) => call[p].atom \in Atoms /\ call[p].before \in [Places -> Contents]
    /\ at[p] \in {"check", "read"} => call[p].cmd = "add"
    /\ at[p] = "scan" => call[p].cmd = "remove"
    /\ at[p] \in {"temp", "rename"} =>
        /\ call[p].cmd \in {"add", "remove"} /\ call[p].place \in Places
        /\ call[p].cmd = "add" => call[p].place = Target
    /\ at[p] = "rename" => tmp[p] = {call[p].buf}

\* The fragments before the n-th have lost the atom, the others are untouched.
CleanBefore(p, n) ==
    /\ \A k \in Places : k < n => \A i \in DOMAIN file[k] : file[k][i] # call[p].atom
    /\ \A k \in Places : k >= n => file[k] = call[p].before[k]

\* Of its atom a command that runs alone has counted what it has read so far,
\* and an add writes only when there was none.
KnowsWhatItRead(p) ==
    LET before == call[p].before
        a == call[p].atom
        place == call[p].place
    IN  /\ at[p] = "check" =>
            file = before /\ call[p].count = Cardinality(Where(before, a, place - 1))
        /\ at[p] = "read" => file = before /\ Total(before, a) = 0
        /\ at[p] = "scan" =>
            CleanBefore(p, place) /\ call[p].count = Cardinality(Where(before, a, place - 1))
        /\ at[p] \in {"temp", "rename"} /\ call[p].cmd = "add" =>
            /\ file = before /\ Total(before, a) = 0
            /\ Len(before[Target]) < MaxFragmentLines /\ call[p].buf = Append(before[Target], a)
        /\ at[p] \in {"temp", "rename"} /\ call[p].cmd = "remove" =>
            /\ CleanBefore(p, place) /\ call[p].count = Cardinality(Where(before, a, place))
            /\ \A i \in DOMAIN call[p].buf : call[p].buf[i] # a

\* No other process is running a command.
OthersIdle(p) == \A q \in Processes \ {p} : ~Busy(q)

\* The inductive invariant: what a command that runs alone knows of the fragments.
FragmentInv ==
    /\ FragmentTypes
    /\ \A p \in Processes :
        /\ AtItsPlace(p)
        /\ call[p].alone => Busy(p) /\ OthersIdle(p) /\ KnowsWhatItRead(p)

-----------------------------------------------------------------------------
\* No command runs at the start.
LEMMA FragmentsAtFirst == UserConfigInit => FragmentInv
  <1> SUFFICES ASSUME UserConfigInit PROVE FragmentInv
    OBVIOUS
  <1> USE DEF UserConfigInit
  <1>1. InitialFragments \subseteq [Places -> Contents]
    BY UserConfigAssumption
  <1>2. NoCall \in Calls /\ ~NoCall.alone
    BY ContentsFacts DEF Calls, NoCall
  <1>3. FragmentTypes
    BY <1>1, <1>2 DEF FragmentTypes
  <1>4. ASSUME NEW p \in Processes
        PROVE  ~Busy(p) /\ call[p] = NoCall /\ at[p] = "idle"
    BY DEF Busy
  <1> QED
    BY <1>2, <1>3, <1>4 DEF FragmentInv, AtItsPlace

\* What a step of p leaves alone of the other processes.
OthersUnchanged(p) ==
    \A q \in Processes \ {p} : at'[q] = at[q] /\ tmp'[q] = tmp[q] /\ call'[q] = call[q]

\* A step of a command that is under way has to be looked at from its own
\* process only: none of the others runs alone.
LEMMA StepOfOne ==
    ASSUME FragmentInv, NEW p \in Processes, Busy(p), OthersUnchanged(p), FragmentTypes',
           AtItsPlace(p)',
           call'[p].alone => call[p].alone /\ Busy(p)' /\ (OthersIdle(p) => KnowsWhatItRead(p)')
    PROVE  FragmentInv'
  <1>1. ASSUME NEW q \in Processes, q # p
        PROVE  AtItsPlace(q)' /\ ~call'[q].alone
    <2>1. at'[q] = at[q] /\ tmp'[q] = tmp[q] /\ call'[q] = call[q]
      BY <1>1 DEF OthersUnchanged
    <2>2. AtItsPlace(q) /\ (call[q].alone => OthersIdle(q))
      BY DEF FragmentInv
    <2>3. ~call[q].alone
      BY <1>1, <2>2 DEF OthersIdle
    <2>4. AtItsPlace(q)'
      BY <2>1, <2>2 DEF AtItsPlace, Busy
    <2> QED
      BY <2>1, <2>3, <2>4
  <1>2. call[p].alone => OthersIdle(p)
    BY DEF FragmentInv
  <1>3. OthersIdle(p) => OthersIdle(p)'
    BY DEF OthersIdle, OthersUnchanged, Busy
  <1> QED
    BY <1>1, <1>2, <1>3 DEF FragmentInv

\* A command that returns or is killed leaves nothing to know.
LEMMA CommandEnds ==
    ASSUME FragmentInv, NEW p \in Processes, Busy(p), OthersUnchanged(p), FragmentTypes',
           at'[p] \in {"idle", "killed"}, call'[p] = NoCall
    PROVE  FragmentInv'
  <1>1. AtItsPlace(p)' /\ ~call'[p].alone
    BY DEF AtItsPlace, Busy, NoCall
  <1> QED
    BY <1>1, StepOfOne

\* A command that begins while others run spoils their solitude, and its own.
LEMMA BeginCommandKeeps ==
    ASSUME FragmentInv, NEW p \in Processes, NEW a \in Atoms, BeginAdd(p, a) \/ BeginRemove(p, a)
    PROVE  FragmentInv'
  <1>1. PICK command \in {"add", "remove"}, label \in {"check", "scan"} :
            /\ Begin(p, command, a, label)
            /\ command = "add" => label = "check"
            /\ command = "remove" => label = "scan"
    BY DEF BeginAdd, BeginRemove
  <1> DEFINE all == \A q \in Processes : ~Busy(q)
             new == [NoCall EXCEPT !.cmd = command, !.atom = a, !.before = file, !.alone = all]
  <1>2. /\ at[p] = "idle" /\ at' = [at EXCEPT ![p] = label] /\ ret' = [ret EXCEPT ![p] = "none"]
        /\ call' = [q \in Processes |-> IF q = p THEN new ELSE [call[q] EXCEPT !.alone = FALSE]]
        /\ file' = file /\ tmp' = tmp
    BY <1>1 DEF Begin, Set
  <1>3. new \in Calls
    <2>1. NoCall \in Calls /\ file \in [Places -> Contents] /\ all \in BOOLEAN
      BY ContentsFacts DEF FragmentInv, FragmentTypes, Calls, NoCall
    <2> HIDE DEF all
    <2> QED
      BY <2>1 DEF Calls
  <1>4. FragmentTypes'
    <2>1. \A q \in Processes : [call[q] EXCEPT !.alone = FALSE] \in Calls
      BY DEF Calls, FragmentInv, FragmentTypes
    <2> HIDE DEF new
    <2> QED
      BY <1>2, <1>3, <2>1 DEF FragmentInv, FragmentTypes
  <1>5. ASSUME NEW q \in Processes, q # p
        PROVE  AtItsPlace(q)' /\ ~call'[q].alone
    <2>1. /\ at'[q] = at[q] /\ tmp'[q] = tmp[q] /\ call'[q] = [call[q] EXCEPT !.alone = FALSE]
          /\ call[q] \in Calls /\ AtItsPlace(q)
      BY <1>2, <1>5 DEF FragmentInv, FragmentTypes
    <2>2. /\ call'[q].cmd = call[q].cmd /\ call'[q].atom = call[q].atom /\ call'[q].place = call[q].place
          /\ call'[q].buf = call[q].buf /\ call'[q].before = call[q].before /\ ~call'[q].alone
      BY <2>1 DEF Calls
    <2>3. call[q] = NoCall => call'[q] = NoCall
      <3>1. \A f : f = [x \in DOMAIN f |-> f[x]] => \A x \in DOMAIN f : [f EXCEPT ![x] = f[x]] = f
        OBVIOUS
      <3>2. /\ NoCall.alone = FALSE /\ "alone" \in DOMAIN NoCall
            /\ NoCall = [x \in DOMAIN NoCall |-> NoCall[x]]
        BY DEF NoCall
      <3>3. [NoCall EXCEPT !.alone = FALSE] = NoCall
        BY <3>1, <3>2
      <3> QED
        BY <2>1, <3>3
    <2> QED
      BY <2>1, <2>2, <2>3 DEF AtItsPlace, Busy
  <1>6. /\ call'[p].cmd = command /\ call'[p].atom = a /\ call'[p].before = file /\ call'[p].alone = all
        /\ call'[p].place = 1 /\ call'[p].count = 0
    BY <1>2 DEF NoCall
  <1>7. AtItsPlace(p)' /\ Busy(p)' /\ at'[p] = label
    BY <1>1, <1>2, <1>6 DEF AtItsPlace, Busy, FragmentInv, FragmentTypes
  <1>8. all => OthersIdle(p)'
    BY <1>2 DEF OthersIdle, Busy, FragmentInv, FragmentTypes
  <1>9. KnowsWhatItRead(p)'
    <2>1. Cardinality(Where(file, a, 0)) = 0
      BY CountByFragment DEF FragmentInv, FragmentTypes
    <2>2. CleanBefore(p, 1)'
      <3>1. \A k \in Places : ~(k < 1)
        BY ContentsFacts
      <3> QED
        BY <1>2, <1>6, <3>1 DEF CleanBefore
    <2>3. 1 - 1 = 0
      OBVIOUS
    <2>4. file' = call'[p].before /\ call'[p].count = Cardinality(Where(call'[p].before, call'[p].atom, 1 - 1))
      BY <1>2, <1>6, <2>1, <2>3
    <2> QED
      BY <1>1, <1>6, <1>7, <2>2, <2>4 DEF KnowsWhatItRead
  <1> QED
    BY <1>4, <1>5, <1>6, <1>7, <1>8, <1>9 DEF FragmentInv

\* One more fragment is searched for the atom.
LEMMA CheckKeeps ==
    ASSUME FragmentInv, NEW p \in Processes, Check(p)
    PROVE  FragmentInv'
  <1> DEFINE place == call[p].place
             a == call[p].atom
             found == Occurrences(file[place], a)
  <1>1. /\ at[p] = "check" /\ place <= Len(Fragments) /\ place \in 1 .. Len(Fragments) + 1
        /\ call[p] \in Calls /\ Busy(p) /\ AtItsPlace(p)
    BY DEF Check, FragmentInv, FragmentTypes, Busy, Calls
  <1>2. place \in Places
    BY <1>1, ContentsFacts
  <1>3. found \in Nat
    BY <1>2, CountByFragment DEF FragmentInv, FragmentTypes
  <1>4. /\ call' = [call EXCEPT ![p] = [call[p] EXCEPT !.place = place + 1, !.count = call[p].count + found]]
        /\ file' = file /\ tmp' = tmp /\ at' = at /\ ret' = ret
    BY DEF Check, NextPlace
  <1>5. call'[p] \in Calls /\ call'[p] = [call[p] EXCEPT !.place = place + 1, !.count = call[p].count + found]
    <2>1. place + 1 \in 1 .. Len(Fragments) + 1 /\ call[p].count + found \in Nat
      BY <1>1, <1>2, <1>3, ContentsFacts DEF Calls
    <2> HIDE DEF found
    <2> QED
      BY <1>1, <1>4, <2>1 DEF Calls, FragmentInv, FragmentTypes
  <1> HIDE DEF found
  <1>6. FragmentTypes' /\ OthersUnchanged(p)
    BY <1>4, <1>5 DEF FragmentInv, FragmentTypes, OthersUnchanged
  <1>7. /\ call'[p].cmd = call[p].cmd /\ call'[p].atom = a /\ call'[p].place = place + 1
        /\ call'[p].before = call[p].before /\ call'[p].alone = call[p].alone /\ call'[p].count = call[p].count + found
    BY <1>1, <1>5 DEF Calls
  <1>8. AtItsPlace(p)' /\ Busy(p)'
    BY <1>1, <1>4, <1>7 DEF AtItsPlace, Busy
  <1>9. call[p].alone => KnowsWhatItRead(p)'
    <2> SUFFICES ASSUME call[p].alone PROVE KnowsWhatItRead(p)'
      OBVIOUS
    <2>1. file = call[p].before /\ call[p].count = Cardinality(Where(call[p].before, a, place - 1))
      BY <1>1 DEF FragmentInv, KnowsWhatItRead
    <2>2. Cardinality(Where(file, a, place)) = Cardinality(Where(file, a, place - 1)) + found
      BY <1>2, CountByFragment DEF FragmentInv, FragmentTypes, found
    <2>3. place + 1 - 1 = place
      BY <1>1, ContentsFacts
    <2> QED
      BY <1>1, <1>4, <1>7, <2>1, <2>2, <2>3 DEF KnowsWhatItRead
  <1> QED
    BY <1>1, <1>6, <1>7, <1>8, <1>9, StepOfOne

\* The atom was found, or g2.conf is read next.
LEMMA CheckEndsKeeps ==
    ASSUME FragmentInv, NEW p \in Processes, CheckEnds(p)
    PROVE  FragmentInv'
  <1>1. at[p] = "check" /\ Busy(p) /\ AtItsPlace(p) /\ call[p] \in Calls /\ file' = file /\ tmp' = tmp
    BY DEF CheckEnds, Busy, FragmentInv, FragmentTypes
  <1>2. CASE call[p].count > 0
    <2>1. at' = [at EXCEPT ![p] = "idle"] /\ ret' = [ret EXCEPT ![p] = "exists"] /\ call' = [call EXCEPT ![p] = NoCall]
      BY <1>2 DEF CheckEnds, Return, Set
    <2>2. FragmentTypes' /\ OthersUnchanged(p) /\ at'[p] = "idle" /\ call'[p] = NoCall
      BY <1>1, <2>1, ContentsFacts DEF FragmentInv, FragmentTypes, OthersUnchanged, Calls, NoCall
    <2> QED
      BY <1>1, <2>2, CommandEnds
  <1>3. CASE ~(call[p].count > 0)
    <2>1. at' = [at EXCEPT ![p] = "read"] /\ call' = call /\ ret' = ret
      BY <1>3 DEF CheckEnds, Set
    <2>2. FragmentTypes' /\ OthersUnchanged(p) /\ at'[p] = "read" /\ Busy(p)'
      BY <1>1, <2>1 DEF FragmentInv, FragmentTypes, OthersUnchanged, Busy
    <2>3. AtItsPlace(p)'
      BY <1>1, <2>1, <2>2 DEF AtItsPlace, Busy
    <2>4. call[p].alone => KnowsWhatItRead(p)'
      <3> SUFFICES ASSUME call[p].alone PROVE KnowsWhatItRead(p)'
        OBVIOUS
      <3>1. /\ file = call[p].before /\ file \in [Places -> Contents]
            /\ call[p].count = Cardinality(Where(file, call[p].atom, call[p].place - 1))
        BY <1>1 DEF FragmentInv, FragmentTypes, KnowsWhatItRead
      <3>2. call[p].place - 1 = Len(Fragments) /\ call[p].count = 0
        BY <1>1, <1>3, ContentsFacts DEF CheckEnds, Calls
      <3>3. Total(file, call[p].atom) = 0
        BY <3>1, <3>2, CountByFragment
      <3> QED
        BY <1>1, <2>1, <2>2, <3>1, <3>3 DEF KnowsWhatItRead
    <2> QED
      BY <1>1, <2>1, <2>2, <2>3, <2>4, StepOfOne
  <1> QED
    BY <1>2, <1>3

\* What is going to be written is g2.conf with the atom at its end.
LEMMA ReadTargetKeeps ==
    ASSUME FragmentInv, NEW p \in Processes, ReadTarget(p)
    PROVE  FragmentInv'
  <1> DEFINE new == Append(file[Target], call[p].atom)
  <1>1. /\ at[p] = "read" /\ Busy(p) /\ AtItsPlace(p) /\ call[p] \in Calls /\ file[Target] \in Contents
        /\ Len(file[Target]) < MaxFragmentLines
    BY ContentsFacts DEF ReadTarget, Busy, FragmentInv, FragmentTypes
  <1>2. new \in Contents
    <2>1. file[Target] \in Seq(Atoms) /\ Len(file[Target]) \in Nat /\ call[p].atom \in Atoms /\ MaxFragmentLines \in Nat
      BY <1>1, ContentsFacts DEF AtItsPlace
    <2>2. new \in Seq(Atoms) /\ Len(new) = Len(file[Target]) + 1
      BY <2>1
    <2>3. Len(new) <= MaxFragmentLines
      BY <1>1, <2>1, <2>2
    <2> HIDE DEF new
    <2> QED
      BY <2>2, <2>3, ContentsFacts
  <1> HIDE DEF new
  <1>3. /\ call' = [call EXCEPT ![p] = [call[p] EXCEPT !.place = Target, !.buf = new]]
        /\ at' = [at EXCEPT ![p] = "temp"] /\ file' = file /\ tmp' = tmp /\ ret' = ret
    BY DEF ReadTarget, Set, new
  <1>4. call'[p] \in Calls /\ call'[p] = [call[p] EXCEPT !.place = Target, !.buf = new] /\ at'[p] = "temp"
    <2>1. Target \in 1 .. Len(Fragments) + 1
      BY ContentsFacts
    <2> QED
      BY <1>1, <1>2, <1>3, <2>1 DEF Calls, FragmentInv, FragmentTypes
  <1>5. FragmentTypes' /\ OthersUnchanged(p)
    BY <1>3, <1>4 DEF FragmentInv, FragmentTypes, OthersUnchanged
  <1>6. /\ call'[p].cmd = call[p].cmd /\ call'[p].atom = call[p].atom /\ call'[p].place = Target
        /\ call'[p].before = call[p].before /\ call'[p].alone = call[p].alone /\ call'[p].buf = new
    BY <1>1, <1>4 DEF Calls
  <1>7. AtItsPlace(p)' /\ Busy(p)'
    BY <1>1, <1>4, <1>6, ContentsFacts DEF AtItsPlace, Busy
  <1>8. call[p].alone => KnowsWhatItRead(p)'
    <2> SUFFICES ASSUME call[p].alone PROVE KnowsWhatItRead(p)'
      OBVIOUS
    <2>1. file = call[p].before /\ Total(call[p].before, call[p].atom) = 0
      BY <1>1 DEF FragmentInv, KnowsWhatItRead
    <2>2. call[p].cmd = "add"
      BY <1>1 DEF AtItsPlace
    <2> QED
      BY <1>1, <1>3, <1>4, <1>6, <2>1, <2>2 DEF KnowsWhatItRead, new
  <1> QED
    BY <1>1, <1>5, <1>6, <1>7, <1>8, StepOfOne

\* A fragment without the atom is passed, any other is going to be written without it.
LEMMA ScanKeeps ==
    ASSUME FragmentInv, NEW p \in Processes, Scan(p)
    PROVE  FragmentInv'
  <1> DEFINE place == call[p].place
             a == call[p].atom
             before == call[p].before
             removed == Occurrences(file[place], a)
             left == Without(file[place], a)
  <1>1. /\ at[p] = "scan" /\ place <= Len(Fragments) /\ place \in 1 .. Len(Fragments) + 1
        /\ call[p] \in Calls /\ Busy(p) /\ AtItsPlace(p)
        /\ file' = file /\ tmp' = tmp /\ ret' = ret
    BY DEF Scan, FragmentInv, FragmentTypes, Busy, Calls
  <1>2. place \in Places /\ place + 1 - 1 = place
    BY <1>1, ContentsFacts
  <1>3. /\ removed \in Nat
        /\ removed = 0 => \A i \in DOMAIN file[place] : file[place][i] # a
        /\ left \in Contents /\ \A i \in DOMAIN left : left[i] # a
    BY <1>2, CountByFragment, WithoutFacts DEF FragmentInv, FragmentTypes
  <1>4. ASSUME call[p].alone
        PROVE  /\ CleanBefore(p, place) /\ before \in [Places -> Contents]
               /\ call[p].count + removed = Cardinality(Where(before, a, place))
    <2>1. /\ CleanBefore(p, place) /\ before \in [Places -> Contents]
          /\ call[p].count = Cardinality(Where(before, a, place - 1))
      BY <1>1, <1>4 DEF FragmentInv, KnowsWhatItRead, AtItsPlace
    <2>2. file[place] = before[place]
      <3>1. place >= place
        BY <1>1, ContentsFacts
      <3> QED
        BY <1>2, <2>1, <3>1 DEF CleanBefore
    <2>3. Cardinality(Where(before, a, place)) = Cardinality(Where(before, a, place - 1)) + removed
      <3>1. Cardinality(Where(before, a, place)) =
                Cardinality(Where(before, a, place - 1)) + Occurrences(before[place], a)
        <4>1. before \in [Places -> Contents]
          BY <2>1
        <4> HIDE DEF before, a, place
        <4> QED
          BY <1>2, <4>1, CountByFragment
      <3> QED
        BY <2>2, <3>1
    <2> QED
      BY <2>1, <2>3
  <1>5. \/ removed = 0 /\ NextPlace(p, 0) /\ at' = at
        \/ /\ call' = [call EXCEPT ![p] = [call[p] EXCEPT !.count = call[p].count + removed, !.buf = left]]
           /\ at' = [at EXCEPT ![p] = "temp"]
    BY DEF Scan, Set
  <1> HIDE DEF removed, left
  <1>6. CASE removed = 0 /\ NextPlace(p, 0) /\ at' = at
    <2>1. call' = [call EXCEPT ![p] = [call[p] EXCEPT !.place = place + 1, !.count = call[p].count + 0]]
      BY <1>6 DEF NextPlace
    <2>2. call'[p] \in Calls /\ call'[p] = [call[p] EXCEPT !.place = place + 1, !.count = call[p].count + 0]
      <3>1. place + 1 \in 1 .. Len(Fragments) + 1 /\ call[p].count + 0 \in Nat
        BY <1>1, <1>2, ContentsFacts DEF Calls
      <3> QED
        BY <1>1, <2>1, <3>1 DEF Calls, FragmentInv, FragmentTypes
    <2>3. FragmentTypes' /\ OthersUnchanged(p)
      BY <1>1, <1>6, <2>1, <2>2 DEF FragmentInv, FragmentTypes, OthersUnchanged
    <2>4. /\ call'[p].cmd = call[p].cmd /\ call'[p].atom = a /\ call'[p].place = place + 1
          /\ call'[p].before = before /\ call'[p].alone = call[p].alone /\ call'[p].count = call[p].count
      BY <1>1, <2>2 DEF Calls
    <2>5. AtItsPlace(p)' /\ Busy(p)'
      BY <1>1, <1>6, <2>4 DEF AtItsPlace, Busy
    <2>6. call[p].alone => KnowsWhatItRead(p)'
      <3> SUFFICES ASSUME call[p].alone PROVE KnowsWhatItRead(p)'
        OBVIOUS
      <3>1. call'[p].count = Cardinality(Where(before, a, place))
        BY <1>1, <1>4, <1>6, <2>4 DEF Calls
      <3>2. CleanBefore(p, call[p].place)'
        <4>1. \A k \in Places : (k < place + 1 <=> k < place \/ k = place) /\ (k >= place + 1 => k >= place)
          BY <1>2, ContentsFacts
        <4> QED
          BY <1>1, <1>3, <1>4, <1>6, <2>4, <4>1 DEF CleanBefore
      <3> QED
        BY <1>1, <1>2, <1>6, <2>4, <3>1, <3>2 DEF KnowsWhatItRead
    <2> QED
      BY <1>1, <2>3, <2>4, <2>5, <2>6, StepOfOne
  <1>7. CASE /\ call' = [call EXCEPT ![p] = [call[p] EXCEPT !.count = call[p].count + removed, !.buf = left]]
             /\ at' = [at EXCEPT ![p] = "temp"]
    <2>1. /\ call'[p] \in Calls /\ call'[p] = [call[p] EXCEPT !.count = call[p].count + removed, !.buf = left]
          /\ at'[p] = "temp"
      <3>1. call[p].count + removed \in Nat
        BY <1>1, <1>3 DEF Calls
      <3> QED
        BY <1>1, <1>3, <1>7, <3>1 DEF Calls, FragmentInv, FragmentTypes
    <2>2. FragmentTypes' /\ OthersUnchanged(p)
      BY <1>1, <1>7, <2>1 DEF FragmentInv, FragmentTypes, OthersUnchanged
    <2>3. /\ call'[p].cmd = call[p].cmd /\ call'[p].atom = a /\ call'[p].place = place
          /\ call'[p].before = before /\ call'[p].alone = call[p].alone
          /\ call'[p].count = call[p].count + removed /\ call'[p].buf = left
      BY <1>1, <2>1 DEF Calls
    <2>4. call[p].cmd = "remove"
      BY <1>1 DEF AtItsPlace
    <2>5. AtItsPlace(p)' /\ Busy(p)'
      BY <1>1, <1>2, <2>1, <2>3, <2>4 DEF AtItsPlace, Busy
    <2>6. call[p].alone => KnowsWhatItRead(p)'
      <3> SUFFICES ASSUME call[p].alone PROVE KnowsWhatItRead(p)'
        OBVIOUS
      <3>1. CleanBefore(p, place)'
        BY <1>1, <1>4, <2>3 DEF CleanBefore
      <3> QED
        BY <1>3, <1>4, <2>1, <2>3, <2>4, <3>1 DEF KnowsWhatItRead
    <2> QED
      BY <1>1, <2>2, <2>3, <2>5, <2>6, StepOfOne
  <1> QED
    BY <1>5, <1>6, <1>7

\* The temporary file holds what is going to be the fragment.
LEMMA WriteTempKeeps ==
    ASSUME FragmentInv, NEW p \in Processes, WriteTemp(p)
    PROVE  FragmentInv'
  <1>1. /\ at[p] = "temp" /\ Busy(p) /\ AtItsPlace(p) /\ call[p] \in Calls
        /\ tmp' = [tmp EXCEPT ![p] = {call[p].buf}] /\ at' = [at EXCEPT ![p] = "rename"]
        /\ file' = file /\ call' = call /\ ret' = ret
    BY DEF WriteTemp, Set, Busy, FragmentInv, FragmentTypes
  <1>2. call[p].buf \in Contents
    BY <1>1 DEF Calls
  <1>3. FragmentTypes' /\ OthersUnchanged(p) /\ at'[p] = "rename" /\ tmp'[p] = {call[p].buf}
    BY <1>1, <1>2 DEF FragmentInv, FragmentTypes, OthersUnchanged
  <1>4. AtItsPlace(p)' /\ Busy(p)'
    BY <1>1, <1>3 DEF AtItsPlace, Busy
  <1>5. call[p].alone => KnowsWhatItRead(p)'
    <2> SUFFICES ASSUME call[p].alone PROVE KnowsWhatItRead(p)'
      OBVIOUS
    <2>1. KnowsWhatItRead(p)
      BY DEF FragmentInv
    <2>2. \A n : CleanBefore(p, n) => CleanBefore(p, n)'
      BY <1>1 DEF CleanBefore
    <2> QED
      BY <1>1, <1>3, <2>1, <2>2 DEF KnowsWhatItRead
  <1> QED
    BY <1>1, <1>3, <1>4, <1>5, StepOfOne

\* The fragment is what the temporary file was.
LEMMA RenameFragmentKeeps ==
    ASSUME FragmentInv, NEW p \in Processes, RenameFragment(p)
    PROVE  FragmentInv'
  <1> DEFINE place == call[p].place
             a == call[p].atom
             before == call[p].before
             left == call[p].buf
  <1>1. /\ at[p] = "rename" /\ Busy(p) /\ AtItsPlace(p) /\ call[p] \in Calls
        /\ tmp' = [tmp EXCEPT ![p] = {}]
    BY DEF RenameFragment, Set, Busy, FragmentInv, FragmentTypes
  <1>2. /\ file' = [file EXCEPT ![place] = left] /\ place \in Places /\ left \in Contents
        /\ call[p].cmd \in {"add", "remove"}
    BY <1>1 DEF RenameFragment, Set, AtItsPlace, Calls
  <1>3. CASE call[p].cmd = "add"
    <2>1. at' = [at EXCEPT ![p] = "idle"] /\ ret' = [ret EXCEPT ![p] = "added"] /\ call' = [call EXCEPT ![p] = NoCall]
      BY <1>3 DEF RenameFragment, Return, Set
    <2>2. NoCall \in Calls
      BY ContentsFacts DEF Calls, NoCall
    <2>3. FragmentTypes' /\ OthersUnchanged(p) /\ at'[p] = "idle" /\ call'[p] = NoCall
      BY <1>1, <1>2, <2>1, <2>2 DEF FragmentInv, FragmentTypes, OthersUnchanged
    <2> QED
      BY <1>1, <2>3, CommandEnds
  <1>4. CASE call[p].cmd # "add"
    <2>1. /\ at' = [at EXCEPT ![p] = "scan"] /\ ret' = ret
          /\ call' = [call EXCEPT ![p] = [call[p] EXCEPT !.place = place + 1, !.count = call[p].count + 0]]
      BY <1>4 DEF RenameFragment, Set, NextPlace
    <2>2. /\ call'[p] \in Calls /\ call'[p] = [call[p] EXCEPT !.place = place + 1, !.count = call[p].count + 0]
          /\ at'[p] = "scan"
      <3>1. place + 1 \in 1 .. Len(Fragments) + 1 /\ call[p].count + 0 \in Nat
        BY <1>1, <1>2, ContentsFacts DEF Calls
      <3> QED
        BY <1>1, <2>1, <3>1 DEF Calls, FragmentInv, FragmentTypes
    <2>3. FragmentTypes' /\ OthersUnchanged(p)
      BY <1>1, <1>2, <2>1, <2>2 DEF FragmentInv, FragmentTypes, OthersUnchanged
    <2>4. /\ call'[p].cmd = "remove" /\ call'[p].atom = a /\ call'[p].place = place + 1
          /\ call'[p].before = before /\ call'[p].alone = call[p].alone /\ call'[p].count = call[p].count
      BY <1>1, <1>2, <1>4, <2>2 DEF Calls
    <2>5. AtItsPlace(p)' /\ Busy(p)'
      BY <1>1, <2>2, <2>4 DEF AtItsPlace, Busy
    <2>6. call[p].alone => KnowsWhatItRead(p)'
      <3> SUFFICES ASSUME call[p].alone PROVE KnowsWhatItRead(p)'
        OBVIOUS
      <3>1. /\ CleanBefore(p, place) /\ call[p].count = Cardinality(Where(before, a, place))
            /\ \A i \in DOMAIN left : left[i] # a
        BY <1>1, <1>2, <1>4 DEF FragmentInv, KnowsWhatItRead
      <3>2. CleanBefore(p, call[p].place)'
        <4>1. \A k \in Places : /\ k < place + 1 <=> k < place \/ k = place
                                /\ k >= place + 1 => k >= place /\ k # place
          BY <1>2, ContentsFacts
        <4>2. \A k \in Places : file'[k] = IF k = place THEN left ELSE file[k]
          BY <1>2 DEF FragmentInv, FragmentTypes
        <4> QED
          BY <2>4, <3>1, <4>1, <4>2 DEF CleanBefore
      <3>3. call'[p].place - 1 = place
        BY <1>2, <2>4, ContentsFacts
      <3>4. call'[p].count = Cardinality(Where(call'[p].before, call'[p].atom, call'[p].place - 1))
        BY <2>4, <3>1, <3>3
      <3> QED
        BY <2>2, <3>2, <3>4 DEF KnowsWhatItRead
    <2> QED
      BY <1>1, <2>3, <2>4, <2>5, <2>6, StepOfOne
  <1> QED
    BY <1>3, <1>4

\* A removal that ends, a failure and a kill leave the fragments as they are.
LEMMA EndKeeps ==
    ASSUME FragmentInv, NEW p \in Processes, ScanEnds(p) \/ Fail(p) \/ Crash(p)
    PROVE  FragmentInv'
  <1>1. /\ Busy(p) /\ file' = file /\ call' = [call EXCEPT ![p] = NoCall]
        /\ \E label \in {"idle", "killed"} : at' = [at EXCEPT ![p] = label]
        /\ \E value \in {"removed", "error"} : ret' = ret \/ ret' = [ret EXCEPT ![p] = value]
        /\ tmp' = tmp \/ tmp' = [tmp EXCEPT ![p] = {}]
    BY DEF ScanEnds, Fail, Crash, Return, Set, Busy
  <1>2. NoCall \in Calls
    BY ContentsFacts DEF Calls, NoCall
  <1>3. FragmentTypes' /\ OthersUnchanged(p) /\ at'[p] \in {"idle", "killed"} /\ call'[p] = NoCall
    BY <1>1, <1>2 DEF FragmentInv, FragmentTypes, OthersUnchanged
  <1> QED
    BY <1>1, <1>3, CommandEnds

\* Every step of every process keeps the invariant.
LEMMA FragmentStep == FragmentInv /\ [UserConfigNext]_fragmentVars => FragmentInv'
  <1> SUFFICES ASSUME FragmentInv, [UserConfigNext]_fragmentVars PROVE FragmentInv'
    OBVIOUS
  <1>1. CASE UserConfigNext
    <2>1. PICK p \in Processes : Step(p)
      BY <1>1 DEF UserConfigNext
    <2> QED
      BY <2>1, BeginCommandKeeps, CheckKeeps, CheckEndsKeeps, ReadTargetKeeps, ScanKeeps, WriteTempKeeps,
         RenameFragmentKeeps, EndKeeps DEF Step
  <1>2. CASE UNCHANGED fragmentVars
    <2>1. \A p \in Processes : /\ AtItsPlace(p) => AtItsPlace(p)'
                               /\ OthersIdle(p) => OthersIdle(p)'
                               /\ Busy(p) => Busy(p)'
      BY <1>2 DEF fragmentVars, AtItsPlace, OthersIdle, Busy
    <2>2. \A p \in Processes : KnowsWhatItRead(p) => KnowsWhatItRead(p)'
      BY <1>2 DEF fragmentVars, KnowsWhatItRead, CleanBefore
    <2>3. FragmentTypes' /\ call' = call
      BY <1>2 DEF fragmentVars, FragmentInv, FragmentTypes
    <2> QED
      BY <2>1, <2>2, <2>3 DEF FragmentInv
  <1> QED
    BY <1>1, <1>2

\* The invariant holds throughout.
THEOREM FragmentsStaySound == UserConfigSpec => []FragmentInv
  BY FragmentsAtFirst, FragmentStep, PTL DEF UserConfigSpec

\* No reader finds a torn fragment, whatever fails or is killed: for any fragments, atoms and
\* processes (SafeWriteFileAtomic, user_config.go).
THEOREM FragmentsNeverTorn == UserConfigSpec => []NoTornFragment
  <1>1. FragmentInv => NoTornFragment
    BY ContentsFacts DEF FragmentInv, FragmentTypes, NoTornFragment
  <1> QED
    BY <1>1, FragmentsStaySound, PTL

-----------------------------------------------------------------------------
\* An atom that is appended to one fragment when no fragment had it is there
\* once.
LEMMA AppendedOnce ==
    ASSUME NEW files \in [Places -> Contents], NEW new \in [Places -> Contents], NEW a,
           Total(files, a) = 0, Len(files[Target]) < MaxFragmentLines,
           new = [files EXCEPT ![Target] = Append(files[Target], a)]
    PROVE  Total(new, a) = 1
  <1> DEFINE n == Len(files[Target])
             line == <<Target, n + 1>>
             Holding(fs) == {l \in Places \X (1..MaxFragmentLines) : l[2] \in DOMAIN fs[l[1]] /\ fs[l[1]][l[2]] = a}
  <1>1. /\ Target \in Places /\ MaxFragmentLines \in Nat /\ files[Target] \in Seq(Atoms)
        /\ n \in 0..MaxFragmentLines /\ DOMAIN files[Target] = 1..n
    BY ContentsFacts
  <1>2. Holding(files) = {}
    <2>1. Total(files, a) = Cardinality(Holding(files))
      BY DEF Total
    <2>2. IsFiniteSet(Holding(files))
      <3>1. Holding(files) = Where(files, a, Len(Fragments))
        BY ContentsFacts DEF Where
      <3>2. Len(Fragments) \in 0..Len(Fragments)
        BY ContentsFacts
      <3>3. \A m \in 0..Len(Fragments) : IsFiniteSet(Where(files, a, m))
        BY CountByFragment
      <3> HIDE DEF Holding
      <3> QED
        BY <3>1, <3>2, <3>3
    <2> HIDE DEF Holding
    <2> QED
      BY <2>1, <2>2, FS_EmptySet
  <1>3. /\ DOMAIN new[Target] = 1 .. n + 1 /\ new[Target][n + 1] = a
        /\ \A i \in 1..n : new[Target][i] = files[Target][i]
        /\ \A k \in Places : k # Target => new[k] = files[k]
    <2>1. new[Target] = Append(files[Target], a)
      BY <1>1
    <2>2. new[Target] \in Seq(Atoms)
      BY <1>1, ContentsFacts
    <2>3. DOMAIN new[Target] = 1..Len(new[Target])
      BY <2>2
    <2>4. a \in Atoms \cup {a} /\ files[Target] \in Seq(Atoms \cup {a})
      BY <1>1
    <2> QED
      BY <1>1, <2>1, <2>3, <2>4
  <1>4. line \in Holding(new)
    BY <1>1, <1>3
  <1>5. ASSUME NEW l \in Holding(new) PROVE l = line
    <2>1. l \in Places \X (1..MaxFragmentLines) /\ l[2] \in DOMAIN new[l[1]] /\ new[l[1]][l[2]] = a
      BY <1>5
    <2>2. l \notin Holding(files)
      BY <1>2
    <2>3. ~(l[2] \in DOMAIN files[l[1]] /\ files[l[1]][l[2]] = a)
      BY <2>1, <2>2
    <2>4. l[1] = Target
      BY <1>3, <2>1, <2>3
    <2>5. l[2] \in 1 .. n + 1 /\ ~(l[2] \in 1..n)
      BY <1>1, <1>3, <2>1, <2>3, <2>4
    <2>6. l[2] = n + 1
      BY <1>1, <2>5
    <2> QED
      BY <2>1, <2>4, <2>6
  <1>6. Holding(new) = {line}
    BY <1>4, <1>5
  <1>7. Total(new, a) = Cardinality(Holding(new))
    BY DEF Total
  <1> HIDE DEF Holding, line
  <1> QED
    BY <1>6, <1>7, FS_Singleton

\* Only the step that ends a check lets an add find the atom, only its rename
\* ends it well, and only the end of the scan ends a removal well.
LEMMA AlonePaths ==
    ASSUME FragmentInv, [UserConfigNext]_fragmentVars, NEW p \in Processes,
           call[p].alone, at'[p] = "idle"
    PROVE  /\ ret'[p] = "added" => at[p] = "rename" /\ call[p].cmd = "add" /\ file' = [file EXCEPT ![Target] = call[p].buf]
           /\ ret'[p] = "exists" => at[p] = "check" /\ call[p].place > Len(Fragments) /\ call[p].count > 0 /\ file' = file
           /\ ret'[p] = "removed" => at[p] = "scan" /\ call[p].place > Len(Fragments) /\ file' = file
  <1>1. Busy(p) /\ OthersIdle(p) /\ AtItsPlace(p)
    BY DEF FragmentInv
  <1>2. UserConfigNext
    BY <1>1 DEF fragmentVars, Busy
  <1>3. PICK q \in Processes : Step(q)
    BY <1>2 DEF UserConfigNext
  <1>4. q = p
    <2> SUFFICES ASSUME q # p PROVE FALSE
      OBVIOUS
    <2>1. ~Busy(q)
      BY <1>1 DEF OthersIdle
    <2>2. \E a \in Atoms : BeginAdd(q, a) \/ BeginRemove(q, a)
      BY <1>3, <2>1 DEF Step, Check, CheckEnds, ReadTarget, Scan, ScanEnds, WriteTemp, RenameFragment,
                        Fail, Crash, Busy
    <2>3. at'[p] = at[p]
      BY <2>2 DEF BeginAdd, BeginRemove, Begin, Set, FragmentInv, FragmentTypes
    <2> QED
      BY <1>1, <2>3 DEF Busy
  <1>5. Step(p)
    BY <1>3, <1>4
  <1>6. at \in [Processes -> {"idle", "check", "read", "scan", "temp", "rename", "killed"}] /\ p \in DOMAIN ret
    BY DEF FragmentInv, FragmentTypes
  <1>7. CASE CheckEnds(p)
    BY <1>1, <1>6, <1>7 DEF CheckEnds, Return, Set, Busy
  <1>8. CASE ScanEnds(p)
    BY <1>1, <1>6, <1>8 DEF ScanEnds, Return, Set, Busy
  <1>9. CASE RenameFragment(p)
    <2>1. call[p].cmd = "add" => call[p].place = Target /\ tmp[p] = {call[p].buf}
      BY <1>1, <1>9 DEF RenameFragment, AtItsPlace
    <2>2. call[p].cmd = "add"
      BY <1>6, <1>9 DEF RenameFragment, Set
    <2> QED
      BY <1>6, <1>9, <2>1, <2>2 DEF RenameFragment, Return, Set
  <1>10. CASE Fail(p)
    BY <1>6, <1>10 DEF Fail, Return, Set
  <1> QED
    BY <1>1, <1>5, <1>6, <1>7, <1>8, <1>9, <1>10
       DEF Step, BeginAdd, BeginRemove, Begin, Check, ReadTarget, Scan, WriteTemp, Crash, Set, Busy

\* What AddUserConfigAtom has done when it returns.
LEMMA AddStep ==
    ASSUME FragmentInv, [UserConfigNext]_fragmentVars, NEW p \in Processes
    PROVE  LET before == call[p].before a == call[p].atom IN
           /\ AloneReturns(p, "added") => Total(before, a) = 0 /\ Total(file', a) = 1
           /\ AloneReturns(p, "exists") => Total(before, a) > 0 /\ file' = before
  <1> DEFINE before == call[p].before
             a == call[p].atom
  <1>1. ASSUME AloneReturns(p, "added")
        PROVE  Total(before, a) = 0 /\ Total(file', a) = 1
    <2>1. at[p] = "rename" /\ call[p].cmd = "add" /\ file' = [file EXCEPT ![Target] = call[p].buf]
      BY <1>1, AlonePaths DEF AloneReturns
    <2>2. /\ file = before /\ Total(before, a) = 0 /\ Len(before[Target]) < MaxFragmentLines
          /\ call[p].buf = Append(before[Target], a)
      BY <1>1, <2>1 DEF FragmentInv, KnowsWhatItRead, AloneReturns
    <2>3. file \in [Places -> Contents] /\ file' \in [Places -> Contents]
      BY FragmentStep DEF FragmentInv, FragmentTypes
    <2> HIDE DEF before, a
    <2> QED
      BY <2>1, <2>2, <2>3, AppendedOnce
  <1>2. ASSUME AloneReturns(p, "exists")
        PROVE  Total(before, a) > 0 /\ file' = before
    <2>1. at[p] = "check" /\ call[p].place > Len(Fragments) /\ call[p].count > 0 /\ file' = file
      BY <1>2, AlonePaths DEF AloneReturns
    <2>2. /\ file = before /\ file \in [Places -> Contents] /\ call[p] \in Calls
          /\ call[p].count = Cardinality(Where(before, a, call[p].place - 1))
      BY <1>2, <2>1 DEF FragmentInv, FragmentTypes, KnowsWhatItRead, AloneReturns
    <2>3. call[p].place - 1 = Len(Fragments)
      BY <2>1, <2>2, ContentsFacts DEF Calls
    <2>4. Total(before, a) = call[p].count
      BY <2>2, <2>3, CountByFragment
    <2> QED
      BY <2>1, <2>2, <2>4
  <1> QED
    BY <1>1, <1>2

\* What RemoveUserConfigAtom has done when it returns.
LEMMA RemoveStep ==
    ASSUME FragmentInv, [UserConfigNext]_fragmentVars, NEW p \in Processes, AloneReturns(p, "removed")
    PROVE  Total(file', call[p].atom) = 0 /\ call[p].count = Total(call[p].before, call[p].atom)
  <1> DEFINE before == call[p].before
             a == call[p].atom
             Holding == {l \in Places \X (1..MaxFragmentLines) : l[2] \in DOMAIN file[l[1]] /\ file[l[1]][l[2]] = a}
  <1>1. at[p] = "scan" /\ call[p].place > Len(Fragments) /\ file' = file
    BY AlonePaths DEF AloneReturns
  <1>2. /\ CleanBefore(p, call[p].place) /\ call[p].count = Cardinality(Where(before, a, call[p].place - 1))
        /\ call[p] \in Calls /\ before \in [Places -> Contents]
    BY <1>1 DEF FragmentInv, FragmentTypes, KnowsWhatItRead, AloneReturns, AtItsPlace, Busy
  <1>3. call[p].place - 1 = Len(Fragments) /\ \A k \in Places : k < call[p].place
    BY <1>1, <1>2, ContentsFacts DEF Calls
  <1>4. Total(before, a) = call[p].count
    <2> HIDE DEF before, a
    <2> QED
      BY <1>2, <1>3, CountByFragment
  <1>5. Holding = {}
    BY <1>2, <1>3 DEF CleanBefore
  <1>6. Total(file', a) = Cardinality(Holding)
    BY <1>1 DEF Total
  <1> HIDE DEF Holding
  <1> QED
    BY <1>4, <1>5, <1>6, FS_EmptySet

\* AddUserConfigAtom, when it runs alone, adds its atom once where no fragment has it and changes
\* nothing where one has, for any fragments.
THEOREM AddingDoesWhatItSays == UserConfigSpec => AddDoesWhatItSays
  <1>1. FragmentInv /\ [UserConfigNext]_fragmentVars =>
            [\A p \in Processes : LET before == call[p].before a == call[p].atom IN
                /\ AloneReturns(p, "added") => Total(before, a) = 0 /\ Total(file', a) = 1
                /\ AloneReturns(p, "exists") => Total(before, a) > 0 /\ file' = before]_fragmentVars
    BY AddStep
  <1> QED
    BY <1>1, FragmentsStaySound, PTL DEF UserConfigSpec, AddDoesWhatItSays

\* RemoveUserConfigAtom, when it runs alone, takes its atom out of all fragments and returns how
\* often it was there, for any fragments.
THEOREM RemovingDoesWhatItSays == UserConfigSpec => RemoveDoesWhatItSays
  <1>1. FragmentInv /\ [UserConfigNext]_fragmentVars =>
            [\A p \in Processes : AloneReturns(p, "removed") =>
                /\ Total(file', call[p].atom) = 0
                /\ call[p].count = Total(call[p].before, call[p].atom)]_fragmentVars
    BY RemoveStep
  <1> QED
    BY <1>1, FragmentsStaySound, PTL DEF UserConfigSpec, RemoveDoesWhatItSays
====
