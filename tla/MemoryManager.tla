--------------------------- MODULE MemoryManager ---------------------------
(***************************************************************************)
(* The admission controller of cmd/g2/smart_mode.go.  A goroutine that is  *)
(* about to parse a repository calls Acquire(baseAlloc) and, when the      *)
(* parser returns, Release(baseAlloc).  Both run under one mutex, so each  *)
(* pass through the body of Acquire's loop and each call of Release is one *)
(* action.  A goroutine that is refused sleeps on a sync.Cond, whose       *)
(* notify list is a FIFO of tickets; Signal wakes the oldest ticket only.  *)
(*                                                                         *)
(* A client is one call: every goroutine acquires once per repository.     *)
(* The amount of free memory belongs to the environment, so each reading   *)
(* is an arbitrary member of Readings.  reserved is a uint64 in the code;  *)
(* it is bounded by one reading plus one allocation (NoOvercommit), so it  *)
(* never wraps and the naturals model it.                                  *)
(***************************************************************************)
EXTENDS Naturals, Sequences, FiniteSets

CONSTANTS
    Clients,      \* the calls of Acquire that are made
    BaseAlloc,    \* defaultAlloc, the same for every call
    Readings,     \* what getFreeMemory may report
    ReadMayFail   \* whether getFreeMemory may return an error

ASSUME ConstantsAssumption ==
    /\ IsFiniteSet(Clients)
    /\ BaseAlloc \in Nat
    /\ Readings \subseteq Nat
    /\ ReadMayFail \in BOOLEAN

VARIABLES
    reserved,     \* MemoryManager.reserved
    activeTasks,  \* MemoryManager.activeTasks
    sleepers,     \* the notify list of MemoryManager.cond, oldest first
    phase         \* where each client is

vars == <<reserved, activeTasks, sleepers, phase>>

\* "unread" and "asleep" are the two calls of cond.Wait: after a reading that
\* failed, and after one that was too low.
Waiting == {"unread", "asleep"}
Phases == {"calling", "woken", "active", "released"} \cup Waiting

TypeOK ==
    /\ reserved \in Nat
    /\ activeTasks \in Nat
    /\ sleepers \in Seq(Clients)
    /\ phase \in [Clients -> Phases]

Init ==
    /\ reserved = 0
    /\ activeTasks = 0
    /\ sleepers = <<>>
    /\ phase = [c \in Clients |-> "calling"]

-----------------------------------------------------------------------------
\* The top of Acquire's loop is reached by a first call and after a wake-up.
AtLoopTop(c) == phase[c] \in {"calling", "woken"}

\* Bug variants: the caller's own allocation is not counted; the test on free
\* memory is never bypassed.
CanEnterIgnoringOwn(free) == activeTasks = 0 \/ free >= reserved

CanEnterIfFree(free) == free >= reserved + BaseAlloc

CanEnter(free) == activeTasks = 0 \/ free >= reserved + BaseAlloc

CondWait(c, at) ==
    /\ sleepers' = Append(sleepers, c)
    /\ phase' = [phase EXCEPT ![c] = at]
    /\ UNCHANGED <<reserved, activeTasks>>

\* Bug variant: activeTasks is not incremented.
EnterUncounted(c, free) ==
    /\ AtLoopTop(c)
    /\ CanEnter(free)
    /\ reserved' = reserved + BaseAlloc
    /\ phase' = [phase EXCEPT ![c] = "active"]
    /\ UNCHANGED <<activeTasks, sleepers>>

Enter(c, free) ==
    /\ AtLoopTop(c)
    /\ CanEnter(free)
    /\ activeTasks' = activeTasks + 1
    /\ reserved' = reserved + BaseAlloc
    /\ phase' = [phase EXCEPT ![c] = "active"]
    /\ UNCHANGED sleepers

Refuse(c, free) ==
    /\ AtLoopTop(c)
    /\ ~CanEnter(free)
    /\ CondWait(c, "asleep")

ReadFails(c) ==
    /\ ReadMayFail
    /\ AtLoopTop(c)
    /\ CondWait(c, "unread")

Acquire(c) ==
    \/ \E free \in Readings : Enter(c, free) \/ Refuse(c, free)
    \/ ReadFails(c)

\* The reservation after one release, clamped at zero as the code clamps it.
Less(r) == IF r >= BaseAlloc THEN r - BaseAlloc ELSE 0

\* cond.Signal: the oldest sleeper, if there is one, returns to the loop.
WakeOldest(released) ==
    IF sleepers = <<>>
    THEN phase' = released /\ UNCHANGED sleepers
    ELSE /\ phase' = [released EXCEPT ![Head(sleepers)] = "woken"]
         /\ sleepers' = Tail(sleepers)

\* Bug variants of Release: no Signal; the reservation is kept.
ReleaseSilently(c) ==
    /\ phase[c] = "active"
    /\ activeTasks' = activeTasks - 1
    /\ reserved' = Less(reserved)
    /\ phase' = [phase EXCEPT ![c] = "released"]
    /\ UNCHANGED sleepers

ReleaseKeepingMemory(c) ==
    /\ phase[c] = "active"
    /\ activeTasks' = activeTasks - 1
    /\ WakeOldest([phase EXCEPT ![c] = "released"])
    /\ UNCHANGED reserved

Release(c) ==
    /\ phase[c] = "active"
    /\ activeTasks' = activeTasks - 1
    /\ reserved' = Less(reserved)
    /\ WakeOldest([phase EXCEPT ![c] = "released"])

\* Every call has been served: the program moves on.
AllReleased ==
    /\ \A c \in Clients : phase[c] = "released"
    /\ UNCHANGED vars

Next == (\E c \in Clients : Acquire(c) \/ Release(c)) \/ AllReleased

Spec == Init /\ [][Next]_vars

\* A goroutine that can take a step is scheduled, and a parse terminates.
FairSpec == Spec /\ \A c \in Clients : WF_vars(Acquire(c)) /\ WF_vars(Release(c))

-----------------------------------------------------------------------------
Active == {c \in Clients : phase[c] = "active"}

\* The two counters agree with the calls that are really in progress: nothing
\* is leaked and nothing is released twice, and the clamp of Release at zero
\* is never what keeps reserved from going negative.
ReservationsExact ==
    /\ activeTasks = Cardinality(Active)
    /\ reserved = BaseAlloc * activeTasks

\* A second parse is admitted only when a reading covers what everyone has
\* reserved, so while two parses run the reservations fit in some reading.
NoOvercommit ==
    activeTasks > 1 => \E free \in Readings : reserved <= free

\* No lost wake-up: while anyone sleeps, somebody is active, and will signal
\* when it releases, or a sleeper has been woken, or one sleeps because a
\* reading failed: only a failed reading may leave sleepers without a waker.
SleepersHaveAWaker ==
    sleepers # <<>> => activeTasks > 0 \/ \E c \in Clients : phase[c] \in {"woken", "unread"}

\* Every call of Acquire returns, however little memory is ever free, since
\* with no task active the test on free memory is bypassed; unless a reading
\* fails at some time.
EveryCallServed ==
    (\A c \in Clients : <>(phase[c] = "released")) \/ <>(\E c \in Clients : phase[c] = "unread")
=============================================================================
