----------------------------- MODULE UserConfig -----------------------------
(***************************************************************************)
(* The Portage user configuration (package.mask, package.unmask, ...) as   *)
(* user_config.go edits it: a directory of fragments, to one of which,     *)
(* g2.conf, AddUserConfigAtom appends an atom that no fragment has yet,    *)
(* and from all of which RemoveUserConfigAtom removes one.  Files are only *)
(* replaced through SafeWriteFileAtomic: a hidden temporary file that is   *)
(* renamed over the target.  Several g2 processes may run at the same      *)
(* time, any read or write may fail and any process may be killed.         *)
(*                                                                         *)
(* A fragment is the sequence of the atoms on its lines; comments and line *)
(* ends, which the code preserves byte by byte, are left out.              *)
(***************************************************************************)
EXTENDS TextLines, SequencesExt

CONSTANTS
    Processes,        \* the g2 processes
    Atoms,            \* the atoms they are asked to add or remove
    Fragments,        \* the files of the directory, in the order of their names
    Target,           \* the place of g2.conf among them
    InitialFragments, \* the contents the fragments may have at first
    MaxFragmentLines, \* bound: no fragment grows beyond this
    MayFail,          \* whether reads and writes may fail
    MayCrash          \* whether processes may be killed

Places == 1..Len(Fragments)
Contents == BoundedSeq(Atoms, MaxFragmentLines)

\* The content of a fragment that has been emptied to be written: none a command has written.
TornFragment == <<"torn">>

ASSUME UserConfigAssumption ==
    /\ Target \in Places
    /\ Fragments \in Seq(STRING)
    /\ MaxFragmentLines \in Nat
    /\ InitialFragments \subseteq [Places -> Contents]
    /\ "torn" \notin Atoms
    /\ {MayFail, MayCrash} \subseteq BOOLEAN

VARIABLES
    file,     \* what a reader finds in each fragment
    tmp,      \* the temporary file of each process: a set with its content
    at,       \* where each process is
    call,     \* the locals of its command, and what the properties recall of it
    ret       \* what its latest command returned

fragmentVars == <<file, tmp, at, call, ret>>

Occurrences(s, a) == Cardinality({i \in DOMAIN s : s[i] = a})
Without(s, a) == LinesAt(s, {i \in DOMAIN s : s[i] # a})
Total(files, a) ==
    Cardinality({l \in Places \X (1..MaxFragmentLines) :
                    l[2] \in DOMAIN files[l[1]] /\ files[l[1]][l[2]] = a})

\* count is, of an add, the existing entries of its atom and, of a removal,
\* totalRemoved.  before and alone are history: the fragments when the command
\* began, and whether no other process has run a command since.
NoCall == [cmd |-> "none", atom |-> "none", place |-> 1, buf |-> <<>>, count |-> 0,
           before |-> <<>>, alone |-> FALSE]

TypeOK ==
    /\ \A k \in Places : file[k] \in Contents \cup {TornFragment}
    /\ \A p \in Processes : Cardinality(tmp[p]) <= 1
    /\ at \in [Processes -> {"idle", "check", "read", "scan", "temp", "rename", "killed"}]
    /\ \A p \in Processes : call[p] # NoCall =>
        /\ call[p].cmd \in {"add", "remove"} /\ call[p].atom \in Atoms
        /\ call[p].place \in 1..Len(Fragments) + 1
        /\ call[p].count <= MaxFragmentLines * Len(Fragments)
    /\ ret \in [Processes -> {"none", "added", "exists", "removed", "error"}]

UserConfigInit ==
    /\ file \in InitialFragments
    /\ tmp = [p \in Processes |-> {}]
    /\ at = [p \in Processes |-> "idle"]
    /\ call = [p \in Processes |-> NoCall]
    /\ ret = [p \in Processes |-> "none"]

-----------------------------------------------------------------------------
Set(f, p, x) == f' = [f EXCEPT ![p] = x]

Busy(p) == at[p] \notin {"idle", "killed"}

Return(p, value) == Set(at, p, "idle") /\ Set(ret, p, value) /\ Set(call, p, NoCall)

NextPlace(p, found) ==
    call' = [call EXCEPT ![p].place = @ + 1, ![p].count = @ + found]

Begin(p, command, a, label) ==
    /\ at[p] = "idle"
    /\ Set(at, p, label)
    /\ LET new == [NoCall EXCEPT !.cmd = command, !.atom = a, !.before = file,
                                 !.alone = \A q \in Processes : ~Busy(q)]
       IN  call' = [q \in Processes |-> IF q = p THEN new ELSE [call[q] EXCEPT !.alone = FALSE]]
    /\ Set(ret, p, "none")
    /\ UNCHANGED <<file, tmp>>

BeginAdd(p, a) == Begin(p, "add", a, "check")
BeginRemove(p, a) == Begin(p, "remove", a, "scan")

\* Bug variant: the last fragment is left out.
CheckButLast(p) ==
    /\ at[p] = "check" /\ call[p].place <= Len(Fragments)
    /\ NextPlace(p, IF call[p].place = Len(Fragments) THEN 0
                    ELSE Occurrences(file[call[p].place], call[p].atom))
    /\ UNCHANGED <<file, tmp, at, ret>>

\* ReadUserConfigEntries reads one more fragment.
Check(p) ==
    /\ at[p] = "check" /\ call[p].place <= Len(Fragments)
    /\ NextPlace(p, Occurrences(file[call[p].place], call[p].atom))
    /\ UNCHANGED <<file, tmp, at, ret>>

\* The loop over existing: the atom may be there.
CheckEnds(p) ==
    /\ at[p] = "check" /\ call[p].place > Len(Fragments)
    /\ IF call[p].count > 0
       THEN Return(p, "exists")
       ELSE Set(at, p, "read") /\ UNCHANGED <<call, ret>>
    /\ UNCHANGED <<file, tmp>>

\* g2.conf is read again, and the atom appended to what it has now.
ReadTarget(p) ==
    /\ at[p] = "read" /\ Len(file[Target]) < MaxFragmentLines
    /\ call' = [call EXCEPT ![p].place = Target, ![p].buf = Append(file[Target], call[p].atom)]
    /\ Set(at, p, "temp")
    /\ UNCHANGED <<file, tmp, ret>>

\* One fragment of RemoveUserConfigAtom: removed lines are counted before
\* the fragment is written.
Scan(p) ==
    /\ at[p] = "scan" /\ call[p].place <= Len(Fragments)
    /\ LET content == file[call[p].place]
           removed == Occurrences(content, call[p].atom)
       IN  IF removed = 0
           THEN NextPlace(p, 0) /\ UNCHANGED at
           ELSE /\ call' = [call EXCEPT ![p].count = @ + removed,
                                        ![p].buf = Without(content, call[p].atom)]
                /\ Set(at, p, "temp")
    /\ UNCHANGED <<file, tmp, ret>>

ScanEnds(p) ==
    /\ at[p] = "scan" /\ call[p].place > Len(Fragments)
    /\ Return(p, "removed")
    /\ UNCHANGED <<file, tmp>>

\* Bug variant: os.WriteFile, which empties the target before it writes.
WriteInPlace(p) ==
    /\ at[p] = "temp"
    /\ Set(file, call[p].place, TornFragment)
    /\ Set(tmp, p, {call[p].buf})
    /\ Set(at, p, "rename")
    /\ UNCHANGED <<call, ret>>

\* SafeWriteFileAtomic: the temporary file is written, synced and closed.
WriteTemp(p) ==
    /\ at[p] = "temp"
    /\ Set(tmp, p, {call[p].buf})
    /\ Set(at, p, "rename")
    /\ UNCHANGED <<file, call, ret>>

\* Bug variant: after a removal the next fragment is not visited.
RenameAndReturn(p) ==
    /\ at[p] = "rename"
    /\ \E content \in tmp[p] : Set(file, call[p].place, content)
    /\ Set(tmp, p, {})
    /\ Return(p, IF call[p].cmd = "add" THEN "added" ELSE "removed")

\* The rename; an add is then over and a removal goes to the next fragment.
RenameFragment(p) ==
    /\ at[p] = "rename"
    /\ \E content \in tmp[p] : Set(file, call[p].place, content)
    /\ Set(tmp, p, {})
    /\ IF call[p].cmd = "add"
       THEN Return(p, "added")
       ELSE Set(at, p, "scan") /\ NextPlace(p, 0) /\ UNCHANGED ret

\* Any step of SafeWriteFileAtomic or any read fails: the deferred function
\* removes the temporary file and the command returns its error.
Fail(p) ==
    /\ MayFail /\ Busy(p)
    /\ Set(tmp, p, {})
    /\ Return(p, "error")
    /\ UNCHANGED file

\* A kill leaves the temporary file, which readers skip for its name.
Crash(p) ==
    /\ MayCrash /\ Busy(p)
    /\ Set(at, p, "killed") /\ Set(call, p, NoCall)
    /\ UNCHANGED <<file, tmp, ret>>

Step(p) ==
    \/ \E a \in Atoms : BeginAdd(p, a) \/ BeginRemove(p, a)
    \/ Check(p) \/ CheckEnds(p) \/ ReadTarget(p) \/ Scan(p) \/ ScanEnds(p)
    \/ WriteTemp(p) \/ RenameFragment(p) \/ Fail(p) \/ Crash(p)

UserConfigNext == \E p \in Processes : Step(p)

UserConfigSpec == UserConfigInit /\ [][UserConfigNext]_fragmentVars

-----------------------------------------------------------------------------
\* Whatever fails, is killed or runs at the same time, a reader such as
\* Portage finds in every fragment a content some command wrote completely.
NoTornFragment == \A k \in Places : file[k] # TornFragment

AloneReturns(p, value) == call[p].alone /\ at'[p] = "idle" /\ ret'[p] = value

\* AddUserConfigAtom, when it runs alone, adds the atom once if no fragment had
\* it, and otherwise changes nothing, whatever killed or failed commands left.
AddDoesWhatItSays ==
    [][\A p \in Processes : LET before == call[p].before a == call[p].atom IN
        /\ AloneReturns(p, "added") => Total(before, a) = 0 /\ Total(file', a) = 1
        /\ AloneReturns(p, "exists") => Total(before, a) > 0 /\ file' = before]_fragmentVars

\* RemoveUserConfigAtom, when it runs alone and succeeds, removes every
\* occurrence, from all fragments, and returns their number.
RemoveDoesWhatItSays ==
    [][\A p \in Processes : AloneReturns(p, "removed") =>
        /\ Total(file', call[p].atom) = 0
        /\ call[p].count = Total(call[p].before, call[p].atom)]_fragmentVars
=============================================================================
