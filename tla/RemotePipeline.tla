--------------------------- MODULE RemotePipeline ---------------------------
(***************************************************************************)
(* The pipeline mode of cmdSiteRemote in cmd/g2/site.go: the main          *)
(* goroutine feeds the listed repositories to Limit fetch workers, which   *)
(* feed Limit parse workers, which feed Limit clean workers, through three *)
(* channels of capacity Limit.  The main goroutine then closes each        *)
(* channel once the workers that send on it are done.                      *)
(*                                                                         *)
(* The workers of a stage are interchangeable, so they are counted instead *)
(* of named: a worker is busy with the repository whose stage says so, and *)
(* takes the next one when fewer than Limit are busy.  A parser first asks *)
(* the memory manager for admission; that part of the state belongs to     *)
(* MemoryManager, whose clients are the repositories.                      *)
(***************************************************************************)
EXTENDS RemoteRepos

CONSTANTS BaseAlloc, Readings, ReadMayFail   \* those of MemoryManager

ASSUME MemoryAssumption ==
    BaseAlloc \in Nat /\ Readings \subseteq Nat /\ ReadMayFail \in BOOLEAN

VARIABLES
    continueOnError,   \* the -continue-on-error flag
    mainPc,       \* how far the main goroutine is
    fed,          \* how many listed repositories it has dealt with
    fetchCh, parseCh, cleanCh,
    stage,        \* where each repository is
    inMemory,     \* the repositories whose sysFS is not nil
    disk,         \* the directory of each name under tmpDir
    cleaning,     \* the repositories that clean workers are busy with
    pipelineErr,  \* {} or the singleton of the repository setErr recorded
    allSites,     \* the parsed repositories, in order of arrival
    published,    \* the sites handed to generateSite
    result,       \* what the command returned
    reserved, activeTasks, sleepers, admission   \* the memory manager

mm == <<reserved, activeTasks, sleepers, admission>>
chans == <<fetchCh, parseCh, cleanCh>>
files == <<disk, cleaning>>
sites == <<continueOnError, allSites, pipelineErr, published, result>>
vars == <<mainPc, fed, chans, stage, inMemory, files, sites, mm>>

MM == INSTANCE MemoryManager WITH Clients <- Repos, phase <- admission

Limit == IF Concurrency = 0 THEN 10 ELSE Concurrency

FetchStages == {"fetching", "writing", "failing", "fetched"}
ParseStages == {"parsing", "parsed", "unparsable", "appending"}
FinalStages == {"site", "fetchFailed", "parseFailed"}
Stages == {"listed", "fetchQueue", "parseQueue"}
             \cup FetchStages \cup ParseStages \cup FinalStages

In(S) == {r \in Repos : stage[r] \in S}
Dir(r) == disk[RepoName[r]]

TypeOK ==
    /\ continueOnError \in BOOLEAN
    /\ mainPc \in {"feed", "fetchWait", "parseWait", "cleanWait", "report", "done"}
    /\ fed \in 0..Len(RepoName)
    /\ {fetchCh, parseCh, cleanCh, allSites} \subseteq Seq(HttpGit)
    /\ \A ch \in {fetchCh, parseCh, cleanCh} : Len(ch) <= Limit
    /\ stage \in [Repos -> Stages]
    /\ inMemory \subseteq HttpGit /\ cleaning \subseteq HttpGit
    /\ disk \in [Names -> DirStates]
    /\ pipelineErr \subseteq HttpGit
    /\ result \in {"running", "fetchError", "generated", "generateError"}
    /\ MM!TypeOK

Init ==
    /\ continueOnError \in BOOLEAN
    /\ mainPc = "feed" /\ fed = 0
    /\ fetchCh = <<>> /\ parseCh = <<>> /\ cleanCh = <<>>
    /\ stage = [r \in Repos |-> "listed"]
    /\ inMemory = {}
    /\ disk \in InitialDisks
    /\ cleaning = {}
    /\ pipelineErr = {} /\ allSites = <<>> /\ published = <<>>
    /\ result = "running"
    /\ MM!Init

-----------------------------------------------------------------------------
(* The main goroutine.                                                     *)

Skip ==
    /\ mainPc = "feed" /\ fed < Len(RepoName)
    /\ fed + 1 \notin HttpGit
    /\ fed' = fed + 1
    /\ UNCHANGED <<mainPc, chans, stage, inMemory, files, sites, mm>>

Feed ==
    /\ mainPc = "feed" /\ fed < Len(RepoName)
    /\ fed + 1 \in HttpGit
    /\ Len(fetchCh) < Limit
    /\ fed' = fed + 1
    /\ fetchCh' = Append(fetchCh, fed + 1)
    /\ stage' = [stage EXCEPT ![fed + 1] = "fetchQueue"]
    /\ UNCHANGED <<mainPc, parseCh, cleanCh, inMemory, files, sites, mm>>

\* A WaitGroup is done when its channel is closed and drained and no worker
\* of that stage is busy.
MoveTo(pc) ==
    /\ mainPc' = pc
    /\ UNCHANGED <<fed, chans, stage, inMemory, files, sites, mm>>

CloseFetch ==
    /\ mainPc = "feed" /\ fed = Len(RepoName)
    /\ MoveTo("fetchWait")

\* Bug variant: close(parseCh) without fetchWg.Wait().
CloseParseAtOnce == mainPc = "fetchWait" /\ MoveTo("parseWait")

CloseParse ==
    /\ mainPc = "fetchWait"
    /\ fetchCh = <<>> /\ In(FetchStages) = {}
    /\ MoveTo("parseWait")

CloseClean ==
    /\ mainPc = "parseWait"
    /\ parseCh = <<>> /\ In(ParseStages) = {}
    /\ MoveTo("cleanWait")

\* Bug variant: no cleanWg.Wait() before the command goes on.
CleanNotAwaited == mainPc = "cleanWait" /\ MoveTo("report")

CleanDone ==
    /\ mainPc = "cleanWait"
    /\ cleanCh = <<>> /\ cleaning = {}
    /\ MoveTo("report")

\* The deferred cleanup() removes tmpDir, and nothing in persistent mode.
Return(value) ==
    /\ mainPc' = "done"
    /\ result' = value
    /\ disk' = IF Persistent THEN disk ELSE NoDirs
    /\ UNCHANGED <<fed, chans, stage, inMemory, cleaning, continueOnError, allSites, pipelineErr, mm>>

ReturnError ==
    /\ mainPc = "report" /\ pipelineErr # {}
    /\ Return("fetchError")
    /\ UNCHANGED published

\* Bug variant: the sites are not sorted.
GenerateUnsorted ==
    /\ mainPc = "report" /\ pipelineErr = {}
    /\ published' = allSites
    /\ \E value \in {"generated", "generateError"} : Return(value)

Generate ==
    /\ mainPc = "report" /\ pipelineErr = {}
    /\ published' \in SortedByName(SitesOf(allSites))
    /\ \E value \in {"generated", "generateError"} : Return(value)

Main == Skip \/ Feed \/ CloseFetch \/ CloseParse \/ CloseClean \/ CleanDone
          \/ ReturnError \/ Generate

-----------------------------------------------------------------------------
(* The fetch workers.                                                      *)

Goto(r, s) == stage' = [stage EXCEPT ![r] = s]
SetDir(r, d) == disk' = [disk EXCEPT ![RepoName[r]] = d]

TakeFetch(r) ==
    /\ fetchCh # <<>> /\ r = Head(fetchCh)
    /\ Cardinality(In(FetchStages)) < Limit
    /\ fetchCh' = Tail(fetchCh)
    /\ Goto(r, "fetching")
    /\ UNCHANGED <<mainPc, fed, parseCh, cleanCh, inMemory, files, sites, mm>>

\* Smart mode: the zip archive or else the clone is read into memory.
FetchInMemory(r) ==
    /\ SmartMode
    /\ stage[r] = "fetching"
    /\ inMemory' = inMemory \cup {r}
    /\ Goto(r, "fetched")
    /\ UNCHANGED <<mainPc, fed, chans, files, sites, mm>>

\* FetchRepo writes to the disk, in smart mode when the memory got nothing.
FetchRepoStarts(r) ==
    /\ stage[r] = "fetching"
    /\ Goto(r, "writing")
    /\ SetDir(r, "partial")
    /\ UNCHANGED <<mainPc, fed, chans, inMemory, cleaning, sites, mm>>

FetchRepoSucceeds(r) ==
    /\ stage[r] = "writing"
    /\ Goto(r, "fetched")
    /\ SetDir(r, "whole")
    /\ UNCHANGED <<mainPc, fed, chans, inMemory, cleaning, sites, mm>>

\* setErr keeps the first error.
SetErr(r) ==
    pipelineErr' = IF continueOnError \/ pipelineErr # {} THEN pipelineErr ELSE {r}

\* A failed git leaves any part of a checkout.
FetchRepoFails(r) ==
    /\ stage[r] = "writing"
    /\ Goto(r, "failing")
    /\ \E left \in {"absent", "partial"} : SetDir(r, left)
    /\ SetErr(r)
    /\ UNCHANGED <<mainPc, fed, chans, inMemory, cleaning, continueOnError, allSites, published, result, mm>>

Discard(r) ==
    /\ stage[r] = "failing"
    /\ Goto(r, "fetchFailed")
    /\ SetDir(r, "absent")
    /\ UNCHANGED <<mainPc, fed, chans, inMemory, cleaning, sites, mm>>

SendParse(r) ==
    /\ stage[r] = "fetched"
    /\ Len(parseCh) < Limit
    /\ parseCh' = Append(parseCh, r)
    /\ Goto(r, "parseQueue")
    /\ UNCHANGED <<mainPc, fed, fetchCh, cleanCh, inMemory, files, sites, mm>>

Fetch(r) ==
    \/ TakeFetch(r) \/ FetchInMemory(r)
    \/ FetchRepoStarts(r) \/ FetchRepoSucceeds(r) \/ FetchRepoFails(r)
    \/ Discard(r) \/ SendParse(r)

-----------------------------------------------------------------------------
(* The parse workers.                                                      *)

\* Bug variant: the clean task is sent before the repository is parsed.
TakeParseAndClean(r) ==
    /\ parseCh # <<>> /\ r = Head(parseCh)
    /\ Cardinality(In(ParseStages)) < Limit
    /\ Len(cleanCh) < Limit
    /\ parseCh' = Tail(parseCh)
    /\ cleanCh' = Append(cleanCh, r)
    /\ Goto(r, "parsing")
    /\ UNCHANGED <<mainPc, fed, fetchCh, inMemory, files, sites, mm>>

TakeParse(r) ==
    /\ parseCh # <<>> /\ r = Head(parseCh)
    /\ Cardinality(In(ParseStages)) < Limit
    /\ parseCh' = Tail(parseCh)
    /\ Goto(r, "parsing")
    /\ UNCHANGED <<mainPc, fed, fetchCh, cleanCh, inMemory, files, sites, mm>>

AcquireMemory(r) ==
    /\ stage[r] = "parsing"
    /\ MM!Acquire(r)
    /\ UNCHANGED <<mainPc, fed, chans, stage, inMemory, files, sites>>

\* parseRepo returns and the deferred Release runs.
ParseRepo(r) ==
    /\ stage[r] = "parsing"
    /\ MM!Release(r)
    /\ \E s \in {"parsed", "unparsable"} : Goto(r, s)
    /\ UNCHANGED <<mainPc, fed, chans, inMemory, files, sites>>

SendClean(r) ==
    /\ stage[r] \in {"parsed", "unparsable"}
    /\ Len(cleanCh) < Limit
    /\ cleanCh' = Append(cleanCh, r)
    /\ Goto(r, IF stage[r] = "parsed" THEN "appending" ELSE "parseFailed")
    /\ UNCHANGED <<mainPc, fed, fetchCh, parseCh, inMemory, files, sites, mm>>

AppendSite(r) ==
    /\ stage[r] = "appending"
    /\ allSites' = Append(allSites, r)
    /\ Goto(r, "site")
    /\ UNCHANGED <<mainPc, fed, chans, inMemory, files, continueOnError, pipelineErr, published, result, mm>>

Parse(r) ==
    TakeParse(r) \/ AcquireMemory(r) \/ ParseRepo(r) \/ SendClean(r) \/ AppendSite(r)

-----------------------------------------------------------------------------
(* The clean workers.                                                      *)

\* os.RemoveAll deletes entry by entry: the directory is torn while it runs.
TakeClean(r) ==
    /\ cleanCh # <<>> /\ r = Head(cleanCh)
    /\ Cardinality(cleaning) < Limit
    /\ cleanCh' = Tail(cleanCh)
    /\ cleaning' = cleaning \cup {r}
    /\ SetDir(r, IF Dir(r) = "absent" THEN "absent" ELSE "partial")
    /\ UNCHANGED <<mainPc, fed, fetchCh, parseCh, stage, inMemory, sites, mm>>

RemoveRepo(r) ==
    /\ r \in cleaning
    /\ cleaning' = cleaning \ {r}
    /\ SetDir(r, "absent")
    /\ UNCHANGED <<mainPc, fed, chans, stage, inMemory, sites, mm>>

Clean(r) == TakeClean(r) \/ RemoveRepo(r)

\* The command has returned.
Returned == mainPc = "done" /\ UNCHANGED vars

Next == Main \/ (\E r \in Repos : Fetch(r) \/ Parse(r) \/ Clean(r)) \/ Returned

Spec == Init /\ [][Next]_vars

\* Goroutines that can run are scheduled; a fetch ends within its five
\* minutes, a parse and a removal because they walk a finite tree.
FairSpec ==
    /\ Spec
    /\ WF_vars(Main)
    /\ \A r \in Repos : WF_vars(Fetch(r)) /\ WF_vars(Parse(r)) /\ WF_vars(Clean(r))

-----------------------------------------------------------------------------
\* A parser that reads from the disk reads a whole checkout: nobody is still
\* writing the directory and no clean worker has begun to remove it.
ParserSeesWholeCheckout ==
    \A r \in In({"parsing"}) \ inMemory : Dir(r) = "whole"

\* No worker ever sends on a channel the main goroutine has closed, which
\* would panic, and none is handed a task after its stage was waited for.
NoSendOnClosedChannel ==
    /\ mainPc \notin {"feed", "fetchWait"} => fetchCh = <<>> /\ In(FetchStages) = {}
    /\ mainPc \notin {"feed", "fetchWait", "parseWait"}
          => parseCh = <<>> /\ In(ParseStages) = {}

\* When the command decides its result nobody is still deleting under tmpDir,
\* and in temporary mode no checkout of a processed repository is left there.
CheckoutsRemoved ==
    mainPc \in {"report", "done"} =>
        /\ cleaning = {}
        /\ ~Persistent => \A r \in HttpGit : Dir(r) = "absent"

-----------------------------------------------------------------------------
(* The pipeline implements SiteGeneration.                                 *)

Outcome(s) ==
    CASE s \in {"site", "parseFailed"} -> s
      [] s \in {"failing", "fetchFailed"} -> "fetchFailed"
      [] OTHER -> "pending"

Promise == INSTANCE SiteGeneration
    WITH Tasks <- HttpGit, outcome <- [r \in HttpGit |-> Outcome(stage[r])]

\* Every repository is resolved once, in whatever order the workers run, the
\* result follows from the outcomes, and the run always comes to its end.
ImplementsPromise == Promise!Spec
=============================================================================
