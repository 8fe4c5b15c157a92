------------------------ MODULE MemoryManager_proofs ------------------------
(***************************************************************************)
(* The safety of MemoryManager for every set of calls, every allocation    *)
(* and every sequence of readings.  The invariants are not inductive: that *)
(* a Release wakes somebody who is not itself active needs to know that    *)
(* the notify list holds sleeping calls only, each of them once.           *)
(***************************************************************************)
EXTENDS MemoryManager, FiniteSetTheorems, TLAPS

\* The notify list of the condition variable: sleeping calls, each once.
SleepersAsleep ==
    /\ \A i \in 1..Len(sleepers) : phase[sleepers[i]] \in Waiting
    /\ \A i, j \in 1..Len(sleepers) : sleepers[i] = sleepers[j] => i = j

\* The inductive invariant: types, the exact counters and the notify list.
IInv == TypeOK /\ ReservationsExact /\ SleepersAsleep

-----------------------------------------------------------------------------
\* One more, or one less, allocation of the same size is one more, or one
\* less, term of the product that ReservationsExact states.
LEMMA OneAllocation ==
    ASSUME NEW n \in Nat
    PROVE  /\ BaseAlloc * n \in Nat
           /\ BaseAlloc * (n + 1) = BaseAlloc * n + BaseAlloc
           /\ n > 0 => BaseAlloc * n >= BaseAlloc
           /\ n > 0 => BaseAlloc * (n - 1) = BaseAlloc * n - BaseAlloc
  <1>1. BaseAlloc \in Nat
    BY ConstantsAssumption
  <1>2. BaseAlloc * n \in Nat /\ BaseAlloc * (n + 1) = BaseAlloc * n + BaseAlloc
    BY <1>1, SMT
  <1>3. ASSUME n > 0
        PROVE  BaseAlloc * (n - 1) = BaseAlloc * n - BaseAlloc
    BY <1>1, <1>3, SMT
  <1>4. ASSUME n > 0
        PROVE  BaseAlloc * n >= BaseAlloc
    <2>1. n - 1 \in Nat /\ BaseAlloc * (n - 1) \in Nat
      BY <1>1, <1>4, SMT
    <2> QED
      BY <1>1, <1>2, <1>3, <1>4, <2>1, SMT
  <1> QED
    BY <1>2, <1>3, <1>4

\* The set of the clients that are parsing is finite, so it can be counted.
LEMMA ActiveFinite ==
    /\ IsFiniteSet(Active)
    /\ Cardinality(Active) \in Nat
  BY ConstantsAssumption, FS_Subset, FS_CardinalityType DEF Active

\* An admitted call joins the active ones and one allocation is reserved.
LEMMA EnterCounts ==
    ASSUME IInv, NEW c \in Clients, NEW free \in Readings, Enter(c, free)
    PROVE  IInv'
  <1> USE DEF IInv
  <1>1. c \notin Active /\ Active' = Active \cup {c}
    BY DEF Active, Enter, AtLoopTop, TypeOK
  <1>2. Cardinality(Active') = Cardinality(Active) + 1
    BY <1>1, ActiveFinite, FS_AddElement
  <1>3. TypeOK'
    BY ConstantsAssumption DEF TypeOK, Enter, Phases
  <1>4. ReservationsExact'
    BY <1>2, OneAllocation, ActiveFinite DEF ReservationsExact, Enter, TypeOK
  <1>5. SleepersAsleep'
    BY DEF SleepersAsleep, Enter, AtLoopTop, TypeOK, Waiting
  <1> QED
    BY <1>3, <1>4, <1>5

\* A call that goes to sleep is appended to the notify list, and no counter
\* changes: this is both the refusal and the failed reading.
LEMMA WaitCounts ==
    ASSUME IInv, NEW c \in Clients, NEW at \in Waiting, AtLoopTop(c), CondWait(c, at)
    PROVE  IInv'
  <1> USE DEF IInv
  <1>1. Active' = Active
    BY DEF Active, CondWait, AtLoopTop, TypeOK, Waiting
  <1>2. TypeOK'
    BY DEF TypeOK, CondWait, Phases
  <1>3. ReservationsExact'
    BY <1>1 DEF ReservationsExact, CondWait
  <1>4. \A i \in 1..Len(sleepers) : sleepers[i] # c
    BY DEF SleepersAsleep, AtLoopTop, Waiting
  <1>5. SleepersAsleep'
    <2>1. /\ Len(sleepers') = Len(sleepers) + 1
          /\ sleepers'[Len(sleepers) + 1] = c
          /\ \A i \in 1..Len(sleepers) : sleepers'[i] = sleepers[i]
      BY DEF CondWait, TypeOK
    <2>2. /\ phase'[c] = at
          /\ \A d \in Clients : d # c => phase'[d] = phase[d]
      BY DEF CondWait, TypeOK
    <2>3. Len(sleepers) \in Nat /\ \A i \in 1..Len(sleepers) : sleepers[i] \in Clients
      BY DEF TypeOK
    <2> QED
      BY <1>4, <2>1, <2>2, <2>3 DEF SleepersAsleep
  <1> QED
    BY <1>2, <1>3, <1>5

\* What Signal does to the notify list, for a call c that is released: the
\* list stays one of distinct sleepers and nobody else becomes inactive.
LEMMA SignalWakes ==
    ASSUME IInv, NEW c \in Clients, phase[c] = "active",
           WakeOldest([phase EXCEPT ![c] = "released"])
    PROVE  /\ phase' \in [Clients -> Phases]
           /\ sleepers' \in Seq(Clients)
           /\ Active' = Active \ {c}
           /\ SleepersAsleep'
  <1> USE DEF IInv
  <1> DEFINE released == [phase EXCEPT ![c] = "released"]
  <1>1. \A i \in 1..Len(sleepers) : sleepers[i] \in Clients /\ sleepers[i] # c
    BY DEF TypeOK, SleepersAsleep, Waiting
  <1>2. CASE sleepers = <<>>
    <2>1. phase' = released /\ sleepers' = sleepers
      BY <1>2 DEF WakeOldest
    <2> QED
      BY <1>2, <2>1 DEF TypeOK, Phases, Waiting, Active, SleepersAsleep
  <1>3. CASE sleepers # <<>>
    <2> DEFINE h == Head(sleepers)
    <2>1. /\ phase' = [released EXCEPT ![h] = "woken"]
          /\ sleepers' = Tail(sleepers)
      BY <1>3 DEF WakeOldest
    <2>2. /\ Len(sleepers) \in Nat \ {0} /\ h = sleepers[1] /\ h \in Clients
          /\ sleepers' \in Seq(Clients)
          /\ Len(sleepers') = Len(sleepers) - 1
          /\ \A i \in 1..Len(sleepers') : sleepers'[i] = sleepers[i + 1]
      BY <1>3, <2>1 DEF TypeOK
    <2>3. h # c /\ phase[h] \in Waiting
      BY <1>1, <2>2 DEF SleepersAsleep
    <2>4. phase' \in [Clients -> Phases] /\ Active' = Active \ {c}
      BY <2>1, <2>2, <2>3 DEF TypeOK, Phases, Waiting, Active
    <2>5. \A i \in 1..Len(sleepers') :
              /\ sleepers[i + 1] # h /\ sleepers[i + 1] # c
              /\ sleepers[i + 1] \in Clients
              /\ phase[sleepers[i + 1]] \in Waiting
      BY <1>1, <2>2 DEF SleepersAsleep
    <2>6. \A d \in Clients : d # h /\ d # c => phase'[d] = phase[d]
      BY <2>1 DEF TypeOK
    <2>7. \A i \in 1..Len(sleepers') : phase'[sleepers'[i]] \in Waiting
      BY <2>2, <2>5, <2>6
    <2>8. \A i, j \in 1..Len(sleepers') : sleepers'[i] = sleepers'[j] => i = j
      BY <2>2 DEF SleepersAsleep
    <2> QED
      BY <2>2, <2>4, <2>7, <2>8 DEF SleepersAsleep
  <1> QED
    BY <1>2, <1>3

\* A released call gives back exactly what it took: the clamp of Release at
\* zero is never needed.
LEMMA ReleaseCounts ==
    ASSUME IInv, NEW c \in Clients, Release(c)
    PROVE  /\ IInv'
           /\ activeTasks > 0
           /\ reserved' = reserved - BaseAlloc
  <1> USE DEF IInv
  <1>1. /\ phase' \in [Clients -> Phases]
        /\ sleepers' \in Seq(Clients)
        /\ Active' = Active \ {c}
        /\ SleepersAsleep'
    BY SignalWakes DEF Release
  <1>2. c \in Active
    BY DEF Release, Active
  <1>3. /\ Cardinality(Active') = Cardinality(Active) - 1
        /\ Cardinality(Active) > 0
    <2>1. Cardinality(Active) # 0
      BY <1>2, ActiveFinite, FS_EmptySet
    <2>2. Cardinality(Active \ {c}) = Cardinality(Active) - 1
      BY <1>2, ActiveFinite, FS_RemoveElement
    <2> QED
      BY <1>1, <2>1, <2>2, ActiveFinite
  <1>4. /\ activeTasks > 0 /\ activeTasks' = activeTasks - 1
        /\ reserved' = reserved - BaseAlloc /\ reserved >= BaseAlloc
    BY <1>3, OneAllocation, ConstantsAssumption
       DEF ReservationsExact, Release, Less, TypeOK
  <1>5. TypeOK'
    BY <1>1, <1>4, ConstantsAssumption DEF TypeOK
  <1>6. ReservationsExact'
    BY <1>3, <1>4, OneAllocation DEF ReservationsExact, TypeOK
  <1> QED
    BY <1>1, <1>4, <1>5, <1>6

\* Nothing has happened at the start.
LEMMA InitIInv == Init => IInv
  <1> SUFFICES ASSUME Init PROVE IInv
    OBVIOUS
  <1>1. TypeOK
    BY DEF Init, TypeOK, Phases
  <1>2. Active = {}
    BY DEF Init, Active
  <1>3. ReservationsExact
    BY <1>2, FS_EmptySet, ConstantsAssumption DEF Init, ReservationsExact
  <1>4. SleepersAsleep
    BY DEF Init, SleepersAsleep
  <1> QED
    BY <1>1, <1>3, <1>4 DEF IInv

\* Every step.
LEMMA NextIInv == IInv /\ [Next]_vars => IInv'
  <1> SUFFICES ASSUME IInv, [Next]_vars PROVE IInv'
    OBVIOUS
  <1>1. ASSUME NEW c \in Clients, NEW free \in Readings, Enter(c, free)
        PROVE  IInv'
    BY <1>1, EnterCounts
  <1>2. ASSUME NEW c \in Clients, NEW free \in Readings, Refuse(c, free)
        PROVE  IInv'
    BY <1>2, WaitCounts DEF Refuse, Waiting
  <1>3. ASSUME NEW c \in Clients, ReadFails(c)
        PROVE  IInv'
    BY <1>3, WaitCounts DEF ReadFails, Waiting
  <1>4. ASSUME NEW c \in Clients, Release(c)
        PROVE  IInv'
    BY <1>4, ReleaseCounts
  <1>5. ASSUME UNCHANGED vars
        PROVE  IInv'
    BY <1>5 DEF vars, IInv, TypeOK, ReservationsExact, Active, SleepersAsleep
  <1> QED
    BY <1>1, <1>2, <1>3, <1>4, <1>5 DEF Next, Acquire, AllReleased

-----------------------------------------------------------------------------
\* Type correctness and exact counters, for every instance: activeTasks is
\* the number of parses in progress and reserved is their total allocation.
THEOREM SpecIInv == Spec => []IInv
  BY InitIInv, NextIInv, PTL DEF Spec

\* The counters never leave their types: in particular activeTasks, which
\* Release decrements without a test, never becomes negative.
THEOREM TypeCorrect == Spec => []TypeOK
  <1>1. IInv => TypeOK
    BY DEF IInv
  <1> QED
    BY <1>1, SpecIInv, PTL

\* No reservation is leaked and none is given back twice.
THEOREM ReservationsCorrect == Spec => []ReservationsExact
  <1>1. IInv => ReservationsExact
    BY DEF IInv
  <1> QED
    BY <1>1, SpecIInv, PTL

\* While two parses or more run, what they reserve was free at some reading.
THEOREM OvercommitFree == Spec => []NoOvercommit
  <1>1. Init => NoOvercommit
    BY DEF Init, NoOvercommit
  <1>2. IInv /\ NoOvercommit /\ [Next]_vars => NoOvercommit'
    <2> SUFFICES ASSUME IInv, NoOvercommit, [Next]_vars PROVE NoOvercommit'
      OBVIOUS
    <2> USE DEF IInv, TypeOK
    <2>1. ASSUME NEW c \in Clients, NEW free \in Readings, Enter(c, free)
          PROVE  NoOvercommit'
      <3>1. CASE activeTasks = 0
        BY <2>1, <3>1 DEF Enter, NoOvercommit
      <3>2. CASE activeTasks # 0
        <4>1. reserved' <= free
          BY <2>1, <3>2, ConstantsAssumption DEF Enter, CanEnter
        <4> QED
          BY <4>1 DEF NoOvercommit
      <3> QED
        BY <3>1, <3>2
    <2>2. ASSUME NEW c \in Clients, NEW at \in Waiting, CondWait(c, at)
          PROVE  NoOvercommit'
      BY <2>2 DEF CondWait, NoOvercommit
    <2>3. ASSUME NEW c \in Clients, Release(c)
          PROVE  NoOvercommit'
      <3>1. activeTasks' = activeTasks - 1 /\ reserved' = reserved - BaseAlloc
        BY <2>3, ReleaseCounts DEF Release
      <3>2. SUFFICES ASSUME activeTasks' > 1
                     PROVE  \E free \in Readings : reserved' <= free
        BY DEF NoOvercommit
      <3>3. PICK free \in Readings : reserved <= free
        BY <3>1, <3>2 DEF NoOvercommit
      <3> QED
        BY <3>1, <3>3, ConstantsAssumption
    <2>4. ASSUME UNCHANGED vars
          PROVE  NoOvercommit'
      BY <2>4 DEF vars, NoOvercommit
    <2> QED
      BY <2>1, <2>2, <2>3, <2>4 DEF Next, Acquire, Refuse, ReadFails, Waiting, AllReleased
  <1> QED
    BY <1>1, <1>2, SpecIInv, PTL DEF Spec

\* No lost wake-up: while a call sleeps, one is active, and will signal, or one
\* has been woken, or the reading of free memory has failed for one.
THEOREM NoLostWakeup == Spec => []SleepersHaveAWaker
  <1>1. Init => SleepersHaveAWaker
    BY DEF Init, SleepersHaveAWaker
  <1>2. IInv /\ SleepersHaveAWaker /\ [Next]_vars => SleepersHaveAWaker'
    <2> SUFFICES ASSUME IInv, SleepersHaveAWaker, [Next]_vars
                 PROVE  SleepersHaveAWaker'
      OBVIOUS
    <2> USE DEF IInv, TypeOK
    <2>1. ASSUME NEW c \in Clients, NEW free \in Readings, Enter(c, free)
          PROVE  SleepersHaveAWaker'
      BY <2>1 DEF Enter, SleepersHaveAWaker
    <2>2. ASSUME NEW c \in Clients, NEW free \in Readings, Refuse(c, free)
          PROVE  SleepersHaveAWaker'
      BY <2>2 DEF Refuse, CanEnter, CondWait, SleepersHaveAWaker
    <2>3. ASSUME NEW c \in Clients, Release(c)
          PROVE  SleepersHaveAWaker'
      <3>1. CASE sleepers = <<>>
        BY <2>3, <3>1 DEF Release, WakeOldest, SleepersHaveAWaker
      <3>2. CASE sleepers # <<>>
        <4>1. Head(sleepers) \in Clients
          BY <3>2
        <4>2. phase'[Head(sleepers)] = "woken"
          BY <2>3, <3>2, <4>1 DEF Release, WakeOldest
        <4> QED
          BY <4>1, <4>2 DEF SleepersHaveAWaker
      <3> QED
        BY <3>1, <3>2
    <2>4. ASSUME UNCHANGED vars
          PROVE  SleepersHaveAWaker'
      BY <2>4 DEF vars, SleepersHaveAWaker
    <2>5. ASSUME NEW c \in Clients, ReadFails(c)
          PROVE  SleepersHaveAWaker'
      <3>1. phase'[c] = "unread"
        BY <2>5 DEF ReadFails, CondWait
      <3> QED
        BY <3>1 DEF SleepersHaveAWaker
    <2> QED
      BY <2>1, <2>2, <2>3, <2>4, <2>5 DEF Next, Acquire, AllReleased
  <1> QED
    BY <1>1, <1>2, SpecIInv, PTL DEF Spec

-----------------------------------------------------------------------------
(* What a program that uses the manager can rely on.                       *)

\* A pass through Acquire admits its caller or puts it to sleep.
LEMMA AcquireMoves ==
    ASSUME IInv, NEW c \in Clients, Acquire(c)
    PROVE  /\ phase[c] \in {"calling", "woken"}
           /\ phase'[c] \in {"active", "asleep", "unread"}
           /\ \A d \in Clients : d # c => phase'[d] = phase[d]
  <1>1. PICK to \in {"active", "asleep", "unread"} : phase' = [phase EXCEPT ![c] = to]
    BY DEF Acquire, Enter, Refuse, ReadFails, CondWait
  <1>2. phase[c] \in {"calling", "woken"}
    BY DEF Acquire, Enter, Refuse, ReadFails, AtLoopTop
  <1> QED
    BY <1>1, <1>2 DEF IInv, TypeOK

\* A Release ends its caller's admission, and wakes at most one sleeper.
LEMMA ReleaseMoves ==
    ASSUME IInv, NEW c \in Clients, Release(c)
    PROVE  /\ phase[c] = "active" /\ phase'[c] = "released"
           /\ \A d \in Clients : d # c =>
                 phase'[d] = phase[d] \/ (phase[d] \in Waiting /\ phase'[d] = "woken")
  <1>0. /\ phase \in [Clients -> Phases] /\ sleepers \in Seq(Clients) /\ SleepersAsleep
        /\ phase[c] = "active"
    BY DEF IInv, TypeOK, Release
  <1> DEFINE released == [phase EXCEPT ![c] = "released"]
  <1>1. CASE sleepers = <<>>
    <2>1. phase' = released
      BY <1>1 DEF Release, WakeOldest
    <2> QED
      BY <1>0, <2>1
  <1>2. CASE sleepers # <<>>
    <2> DEFINE h == Head(sleepers)
    <2>1. phase' = [released EXCEPT ![h] = "woken"]
      BY <1>2 DEF Release, WakeOldest
    <2>2. h \in Clients /\ phase[h] \in Waiting
      BY <1>0, <1>2 DEF SleepersAsleep
    <2>3. h # c
      BY <1>0, <2>2 DEF Waiting
    <2> HIDE DEF h
    <2> QED
      BY <1>0, <2>1, <2>2, <2>3
  <1> QED
    BY <1>1, <1>2

\* When every call is over, or has not begun, nothing is reserved any more and
\* nobody sleeps.
LEMMA IdleAtRest ==
    ASSUME IInv, \A c \in Clients : phase[c] \in {"calling", "released"}
    PROVE  activeTasks = 0 /\ reserved = 0 /\ sleepers = <<>>
  <1>1. Active = {}
    BY DEF Active
  <1>2. activeTasks = 0
    BY <1>1, FS_EmptySet DEF IInv, ReservationsExact
  <1>3. reserved = 0
    BY <1>2, ConstantsAssumption DEF IInv, ReservationsExact
  <1>4. sleepers = <<>>
    <2>1. \A i \in 1..Len(sleepers) : FALSE
      BY DEF IInv, TypeOK, SleepersAsleep, Waiting
    <2> QED
      BY <2>1 DEF IInv, TypeOK
  <1> QED
    BY <1>2, <1>3, <1>4
=============================================================================
