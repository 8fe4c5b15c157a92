--------------------------- MODULE RemoteStandard ---------------------------
(***************************************************************************)
(* The standard mode of cmdSiteRemote in cmd/g2/site.go: one goroutine per *)
(* repository in an errgroup, which SetLimit bounds to Concurrency when    *)
(* that is positive.  The group's context is discarded, so one failure     *)
(* cancels nobody.  A goroutine fetches its repository, asks the memory    *)
(* manager for admission, parses, appends the site and leaves; leaving     *)
(* runs the deferred RemoveAll of its directory and then hands its error,  *)
(* if it has one, to the group, which keeps the first.                     *)
(***************************************************************************)
EXTENDS RemoteRepos

CONSTANTS BaseAlloc, Readings, ReadMayFail   \* those of MemoryManager

ASSUME MemoryAssumption ==
    BaseAlloc \in Nat /\ Readings \subseteq Nat /\ ReadMayFail \in BOOLEAN

VARIABLES
    continueOnError,   \* the -continue-on-error flag
    mainPc,       \* how far the main goroutine is
    launched,     \* how many listed repositories it has dealt with
    stage,        \* where the goroutine of each repository is
    inMemory,     \* the repositories whose sysFS is not nil
    disk,         \* the directory of each name under tmpDir
    groupErr,     \* {} or the singleton of the repository errgroup recorded
    allSites, published, result,
    reserved, activeTasks, sleepers, admission   \* the memory manager

mm == <<reserved, activeTasks, sleepers, admission>>
sites == <<continueOnError, allSites, published, result>>
main == <<mainPc, launched>>
vars == <<main, stage, inMemory, disk, groupErr, sites, mm>>

MM == INSTANCE MemoryManager WITH Clients <- Repos, phase <- admission

RunningStages == {"fetching", "writing", "parsing", "appending",
                  "leaveSite", "leaveFetch", "leaveParse"}
FinalStages == {"site", "fetchFailed", "parseFailed"}
Stages == {"listed"} \cup RunningStages \cup FinalStages

In(S) == {r \in Repos : stage[r] \in S}
Dir(r) == disk[RepoName[r]]

TypeOK ==
    /\ continueOnError \in BOOLEAN
    /\ mainPc \in {"launch", "wait", "report", "done"}
    /\ launched \in 0..Len(RepoName)
    /\ stage \in [Repos -> Stages]
    /\ inMemory \subseteq HttpGit
    /\ disk \in [Names -> DirStates]
    /\ groupErr \subseteq HttpGit
    /\ allSites \in Seq(HttpGit)
    /\ result \in {"running", "fetchError", "generated", "generateError"}
    /\ MM!TypeOK

Init ==
    /\ continueOnError \in BOOLEAN
    /\ mainPc = "launch" /\ launched = 0
    /\ stage = [r \in Repos |-> "listed"]
    /\ inMemory = {}
    /\ disk \in InitialDisks
    /\ groupErr = {} /\ allSites = <<>> /\ published = <<>>
    /\ result = "running"
    /\ MM!Init

-----------------------------------------------------------------------------
(* The main goroutine.                                                     *)

Skip ==
    /\ mainPc = "launch" /\ launched < Len(RepoName)
    /\ launched + 1 \notin HttpGit
    /\ launched' = launched + 1
    /\ UNCHANGED <<mainPc, stage, inMemory, disk, groupErr, sites, mm>>

\* g.Go blocks while Concurrency goroutines of the group are running.
Go ==
    /\ mainPc = "launch" /\ launched < Len(RepoName)
    /\ launched + 1 \in HttpGit
    /\ Concurrency > 0 => Cardinality(In(RunningStages)) < Concurrency
    /\ launched' = launched + 1
    /\ stage' = [stage EXCEPT ![launched + 1] = "fetching"]
    /\ UNCHANGED <<mainPc, inMemory, disk, groupErr, sites, mm>>

AllLaunched ==
    /\ mainPc = "launch" /\ launched = Len(RepoName)
    /\ mainPc' = "wait"
    /\ UNCHANGED <<launched, stage, inMemory, disk, groupErr, sites, mm>>

\* Bug variant: g.Wait returns as soon as one goroutine has failed.
WaitForFirstError ==
    /\ mainPc = "wait"
    /\ groupErr # {} \/ In(RunningStages) = {}
    /\ mainPc' = "report"
    /\ UNCHANGED <<launched, stage, inMemory, disk, groupErr, sites, mm>>

Wait ==
    /\ mainPc = "wait"
    /\ In(RunningStages) = {}
    /\ mainPc' = "report"
    /\ UNCHANGED <<launched, stage, inMemory, disk, groupErr, sites, mm>>

\* The deferred cleanup() removes tmpDir, and nothing in persistent mode.
Return(value) ==
    /\ mainPc' = "done"
    /\ result' = value
    /\ disk' = IF Persistent THEN disk ELSE NoDirs
    /\ UNCHANGED <<launched, stage, inMemory, groupErr, continueOnError, allSites, mm>>

\* An error of the group is only logged when the user asked to continue.
MustFail == groupErr # {} /\ ~continueOnError

ReturnError ==
    /\ mainPc = "report" /\ MustFail
    /\ Return("fetchError")
    /\ UNCHANGED published

Generate ==
    /\ mainPc = "report" /\ ~MustFail
    /\ published' \in SortedByName(SitesOf(allSites))
    /\ \E value \in {"generated", "generateError"} : Return(value)

Main == Skip \/ Go \/ AllLaunched \/ Wait \/ ReturnError \/ Generate

-----------------------------------------------------------------------------
(* The goroutine of one repository.                                        *)

Goto(r, s) == stage' = [stage EXCEPT ![r] = s]
SetDir(r, d) == disk' = [disk EXCEPT ![RepoName[r]] = d]

\* Smart mode: the zip archive or else the clone is read into memory.
FetchInMemory(r) ==
    /\ SmartMode
    /\ stage[r] = "fetching"
    /\ inMemory' = inMemory \cup {r}
    /\ Goto(r, "parsing")
    /\ UNCHANGED <<main, disk, groupErr, sites, mm>>

\* FetchRepo writes to the disk, in smart mode when the memory got nothing.
FetchRepoStarts(r) ==
    /\ stage[r] = "fetching"
    /\ Goto(r, "writing")
    /\ SetDir(r, "partial")
    /\ UNCHANGED <<main, inMemory, groupErr, sites, mm>>

FetchRepoSucceeds(r) ==
    /\ stage[r] = "writing"
    /\ Goto(r, "parsing")
    /\ SetDir(r, "whole")
    /\ UNCHANGED <<main, inMemory, groupErr, sites, mm>>

\* Bug variant: the goroutine logs the error and does not return.
FetchErrorIgnored(r) ==
    /\ stage[r] = "writing"
    /\ Goto(r, "parsing")
    /\ \E left \in {"absent", "partial"} : SetDir(r, left)
    /\ UNCHANGED <<main, inMemory, groupErr, sites, mm>>

FetchRepoFails(r) ==
    /\ stage[r] = "writing"
    /\ Goto(r, "leaveFetch")
    /\ \E left \in {"absent", "partial"} : SetDir(r, left)
    /\ UNCHANGED <<main, inMemory, groupErr, sites, mm>>

AcquireMemory(r) ==
    /\ stage[r] = "parsing"
    /\ MM!Acquire(r)
    /\ UNCHANGED <<main, stage, inMemory, disk, groupErr, sites>>

\* parseRepo returns and the deferred Release runs.
ParseRepo(r) ==
    /\ stage[r] = "parsing"
    /\ MM!Release(r)
    /\ \E s \in {"appending", "leaveParse"} : Goto(r, s)
    /\ UNCHANGED <<main, inMemory, disk, groupErr, sites>>

AppendSite(r) ==
    /\ stage[r] = "appending"
    /\ allSites' = Append(allSites, r)
    /\ Goto(r, "leaveSite")
    /\ UNCHANGED <<main, inMemory, disk, groupErr, continueOnError, published, result, mm>>

\* The goroutine's error, if its fetch failed and errors are not tolerated.
GroupSet(r) ==
    groupErr' = IF stage[r] = "leaveFetch" /\ ~continueOnError /\ groupErr = {}
                THEN {r} ELSE groupErr

Left(s) == CASE s = "leaveSite" -> "site"
             [] s = "leaveFetch" -> "fetchFailed"
             [] s = "leaveParse" -> "parseFailed"

\* Bug variant: the removal is not deferred but placed after the parse.
LeaveWithoutRemoval(r) ==
    /\ stage[r] \in {"leaveSite", "leaveFetch", "leaveParse"}
    /\ Goto(r, Left(stage[r]))
    /\ IF stage[r] = "leaveFetch" THEN UNCHANGED disk ELSE SetDir(r, "absent")
    /\ GroupSet(r)
    /\ UNCHANGED <<main, inMemory, sites, mm>>

\* The deferred RemoveAll runs, then the group records the returned error.
Leave(r) ==
    /\ stage[r] \in {"leaveSite", "leaveFetch", "leaveParse"}
    /\ Goto(r, Left(stage[r]))
    /\ SetDir(r, "absent")
    /\ GroupSet(r)
    /\ UNCHANGED <<main, inMemory, sites, mm>>

Process(r) ==
    \/ FetchInMemory(r)
    \/ FetchRepoStarts(r) \/ FetchRepoSucceeds(r) \/ FetchRepoFails(r)
    \/ AcquireMemory(r) \/ ParseRepo(r) \/ AppendSite(r) \/ Leave(r)

\* The command has returned.
Returned == mainPc = "done" /\ UNCHANGED vars

Next == Main \/ (\E r \in Repos : Process(r)) \/ Returned

Spec == Init /\ [][Next]_vars

\* Goroutines that can run are scheduled; a fetch ends within its five
\* minutes and a parse because it walks a finite tree.
FairSpec == Spec /\ WF_vars(Main) /\ \A r \in Repos : WF_vars(Process(r))

-----------------------------------------------------------------------------
\* A parser that reads from the disk reads a whole checkout.
ParserSeesWholeCheckout ==
    \A r \in In({"parsing"}) \ inMemory : Dir(r) = "whole"

\* In temporary mode no checkout is left under tmpDir when the command decides
\* its result, whichever way the goroutines ended: the deferred removals of the
\* repositories have run, not only that of the directory when it returns.
CheckoutsRemoved ==
    ~Persistent /\ mainPc \in {"report", "done"} =>
        \A r \in HttpGit : Dir(r) = "absent"

-----------------------------------------------------------------------------
(* The group implements SiteGeneration.                                    *)

Outcome(s) ==
    CASE s \in {"site", "parseFailed", "fetchFailed"} -> s
      [] s = "leaveSite" -> "site"
      [] OTHER -> "pending"

Promise == INSTANCE SiteGeneration
    WITH Tasks <- HttpGit, outcome <- [r \in HttpGit |-> Outcome(stage[r])]

\* Both modes make the same promise: every repository resolved once, nobody
\* cancelled by another's failure, and the run always comes to its end.
ImplementsPromise == Promise!Spec
=============================================================================
