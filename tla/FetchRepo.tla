----------------------------- MODULE FetchRepo -----------------------------
(***************************************************************************)
(* FetchRepo of cmd/g2/fetch.go, run after run on the same directory, with *)
(* or without -use-zip, while the upstream repository moves on between the *)
(* runs and a run may be killed anywhere.  Two commands call it:           *)
(* "overlay site generate" allows no retry and leaves the checkout in a    *)
(* persistent directory; "overlays site generate" allows Retries and       *)
(* removes the checkout when it has parsed it.                             *)
(*                                                                         *)
(* An attempt updates a git checkout in place, or extracts a zip archive,  *)
(* or clones; each falls back on the next, and a failed attempt is retried.*)
(*                                                                         *)
(* A directory is abstracted to what its reader can tell: whether it has a *)
(* .git, how much of the current upstream tree it holds, and whether it    *)
(* holds files that upstream no longer has.                                *)
(***************************************************************************)
EXTENDS Naturals

CONSTANTS
    Retries,      \* the -retries flag of "overlays site generate"
    Persistent,   \* workMode = "persistent"
    ZipAllowed,   \* the values -use-zip may have
    MaxRuns       \* bound: how often the command is run

ASSUME FetchAssumption ==
    /\ Retries \in Nat /\ MaxRuns \in Nat
    /\ Persistent \in BOOLEAN /\ ZipAllowed \subseteq BOOLEAN

VARIABLES
    dest,         \* the directory
    pc,           \* where the current call is
    attempt,      \* the loop variable i
    caller,       \* the command that calls: "overlay" or "overlays"
    useZip,
    expired,      \* whether the context's five minutes are over
    trouble,      \* whether some command or download of this run failed
    outcome,      \* how the latest run ended
    runs          \* how many runs there have been

call == <<attempt, caller, useZip>>
vars == <<dest, pc, call, expired, trouble, outcome, runs>>

\* The retries argument.
Allowed == IF caller = "overlays" THEN Retries ELSE 0

Contents == [git : BOOLEAN, stale : BOOLEAN, fresh : {"none", "some", "all"}]
Empty == [git |-> FALSE, stale |-> FALSE, fresh |-> "none"]
GitCheckout == [git |-> TRUE, stale |-> FALSE, fresh |-> "all"]

TypeOK ==
    /\ dest \in Contents
    /\ pc \in {"idle", "attempt", "updating", "zip", "extracting", "clone",
               "cloning", "failed", "ok"}
    /\ attempt \in 0..Allowed
    /\ caller \in {"overlay", "overlays"}
    /\ {useZip, expired, trouble} \subseteq BOOLEAN
    /\ outcome \in {"none", "success", "error", "killed"}
    /\ runs \in 0..MaxRuns

Init ==
    /\ dest = Empty
    /\ pc = "idle" /\ attempt = 0 /\ caller = "overlay" /\ useZip = FALSE
    /\ expired = FALSE /\ trouble = FALSE
    /\ outcome = "none" /\ runs = 0

-----------------------------------------------------------------------------
(* Between and around the calls.                                           *)

StartRun ==
    /\ pc = "idle" /\ runs < MaxRuns
    /\ runs' = runs + 1
    /\ attempt' = 0 /\ useZip' \in ZipAllowed
    /\ caller' \in {"overlay", "overlays"}
    /\ expired' = FALSE /\ trouble' = FALSE
    /\ pc' = "attempt" /\ outcome' = "none"
    /\ dest' = IF Persistent THEN dest ELSE Empty

\* "overlays site generate" has parsed the checkout, or given up.
RemoveCheckout ==
    /\ pc = "idle" /\ caller = "overlays" /\ outcome \in {"success", "error"}
    /\ dest' = Empty /\ outcome' = "none"
    /\ UNCHANGED <<pc, call, expired, trouble, runs>>

\* Upstream changes: what was fetched becomes out of date.
UpstreamMoves ==
    /\ pc = "idle" /\ outcome # "none" /\ runs < MaxRuns
    /\ dest' = [dest EXCEPT !.stale = @ \/ dest.fresh # "none", !.fresh = "none"]
    /\ outcome' = "none"
    /\ UNCHANGED <<pc, call, expired, trouble, runs>>

Kill ==
    /\ pc # "idle"
    /\ pc' = "idle" /\ outcome' = "killed"
    /\ UNCHANGED <<dest, call, expired, trouble, runs>>

\* The deadline passes; every command and request under it then fails.
Expire ==
    /\ pc # "idle" /\ ~expired
    /\ expired' = TRUE /\ trouble' = TRUE
    /\ UNCHANGED <<dest, pc, call, outcome, runs>>

Goto(l) == pc' = l /\ UNCHANGED <<call, expired, outcome, runs>>

-----------------------------------------------------------------------------
(* fetchRepoAttempt: the update of a persistent git checkout.              *)

HasCheckout == Persistent /\ dest.git

\* git fetch, git reset --hard and git clean -fdx change the tree in place.
BeginUpdate ==
    /\ pc = "attempt" /\ HasCheckout
    /\ dest' \in {dest, [dest EXCEPT !.fresh = "some"]}
    /\ Goto("updating")
    /\ UNCHANGED trouble

\* Bug variant: git reset --hard without git clean.
UpdateWithoutClean ==
    /\ pc = "updating" /\ ~expired
    /\ dest' = [dest EXCEPT !.fresh = "all"]
    /\ Goto("ok")
    /\ UNCHANGED trouble

UpdateSucceeds ==
    /\ pc = "updating" /\ ~expired
    /\ dest' = GitCheckout
    /\ Goto("ok")
    /\ UNCHANGED trouble

\* Bug variant: the error of updatePersistentRepo is only logged.
UpdateFailureIgnored ==
    /\ pc = "updating"
    /\ Goto("ok")
    /\ trouble' = TRUE
    /\ UNCHANGED dest

\* A failed update wipes the directory and goes on to a fresh fetch.
UpdateFails ==
    /\ pc = "updating"
    /\ dest' = Empty
    /\ trouble' = TRUE
    /\ Goto("zip")

NoUpdate ==
    /\ pc = "attempt" /\ ~HasCheckout
    /\ Goto("zip")
    /\ UNCHANGED <<dest, trouble>>

-----------------------------------------------------------------------------
(* The zip archive, and git clone.                                         *)

\* -use-zip is off, or no converter knows the host.
SkipZip ==
    /\ pc = "zip"
    /\ Goto("clone")
    /\ UNCHANGED <<dest, trouble>>

\* The archive has been downloaded and is extracted over what is there.
ExtractStarts ==
    /\ pc = "zip" /\ useZip /\ ~expired
    /\ dest' = [dest EXCEPT !.fresh = "some"]
    /\ Goto("extracting")
    /\ UNCHANGED trouble

ExtractSucceeds ==
    /\ pc = "extracting"
    /\ dest' = [dest EXCEPT !.fresh = "all"]
    /\ Goto("ok")
    /\ UNCHANGED trouble

\* Whatever went wrong, the directory is removed before git clone is tried.
ZipFails ==
    /\ pc = "extracting" \/ (pc = "zip" /\ useZip)
    /\ dest' = Empty
    /\ trouble' = TRUE
    /\ Goto("clone")

CloneStarts ==
    /\ pc = "clone" /\ dest = Empty
    /\ dest' = [git |-> TRUE, stale |-> FALSE, fresh |-> "some"]
    /\ Goto("cloning")
    /\ UNCHANGED trouble

\* git clone refuses a directory that is not empty.
CloneRefused ==
    /\ pc = "clone" /\ dest # Empty
    /\ Goto("failed")
    /\ UNCHANGED <<dest, trouble>>

CloneSucceeds ==
    /\ pc = "cloning" /\ ~expired
    /\ dest' = GitCheckout
    /\ Goto("ok")
    /\ UNCHANGED trouble

\* A git that fails cleans up; one killed at the deadline does not.
CloneFails ==
    /\ pc = "cloning"
    /\ dest' \in IF expired THEN {Empty, dest} ELSE {Empty}
    /\ trouble' = TRUE
    /\ Goto("failed")

-----------------------------------------------------------------------------
(* The retry loop of FetchRepo.                                            *)

\* Bug variants of Retry: the directory is kept; the counter is not advanced.
RetryInPlace ==
    /\ pc = "failed" /\ attempt < Allowed
    /\ attempt' = attempt + 1
    /\ pc' = "attempt"
    /\ UNCHANGED <<dest, caller, useZip, expired, trouble, outcome, runs>>

RetryForever ==
    /\ pc = "failed"
    /\ dest' = Empty
    /\ pc' = "attempt"
    /\ UNCHANGED <<call, expired, trouble, outcome, runs>>

Retry ==
    /\ pc = "failed" /\ attempt < Allowed
    /\ attempt' = attempt + 1
    /\ dest' = Empty
    /\ pc' = "attempt"
    /\ UNCHANGED <<caller, useZip, expired, trouble, outcome, runs>>

GiveUp ==
    /\ pc = "failed" /\ attempt = Allowed
    /\ pc' = "idle" /\ outcome' = "error"
    /\ UNCHANGED <<dest, call, expired, trouble, runs>>

Succeed ==
    /\ pc = "ok"
    /\ pc' = "idle" /\ outcome' = "success"
    /\ UNCHANGED <<dest, call, expired, trouble, runs>>

Step ==
    \/ BeginUpdate \/ UpdateSucceeds \/ UpdateFails \/ NoUpdate
    \/ SkipZip \/ ExtractStarts \/ ExtractSucceeds \/ ZipFails
    \/ CloneStarts \/ CloneRefused \/ CloneSucceeds \/ CloneFails
    \/ Retry \/ GiveUp \/ Succeed

\* The last run is over.
NoMoreRuns == pc = "idle" /\ runs = MaxRuns /\ UNCHANGED vars

Next == StartRun \/ RemoveCheckout \/ UpstreamMoves \/ Kill \/ Expire \/ Step \/ NoMoreRuns

Spec == Init /\ [][Next]_vars

\* Commands end, at the latest when the deadline kills them.
FairSpec == Spec /\ WF_vars(Step)

-----------------------------------------------------------------------------
\* A success is a whole checkout of the current upstream tree, whatever an
\* earlier run that was killed or that failed left in the directory.
SuccessIsWhole == outcome = "success" => dest.fresh = "all"

\* Without -use-zip a success has no file that upstream has removed, even
\* where earlier runs extracted archives into the same directory.
GitSuccessHasNoStaleFile ==
    outcome = "success" /\ (~useZip \/ dest.git) => ~dest.stale

\* A run in which no command and no download failed does not fail: with at
\* least one retry, nothing an earlier run left behind can stop a fetch.
NoFailureWithoutTrouble == Allowed > 0 /\ outcome = "error" => trouble

\* Every call of FetchRepo ends.
FetchEnds == pc # "idle" ~> pc = "idle"
=============================================================================
