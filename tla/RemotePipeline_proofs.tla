------------------------ MODULE RemotePipeline_proofs ------------------------
(***************************************************************************)
(* The safety of the pipeline for every list of repositories, every        *)
(* -concurrency, in smart mode or not, in a temporary or a persistent      *)
(* directory, that it implements the safety part of SiteGeneration, and    *)
(* that it is a run of the memory manager.                                 *)
(*                                                                         *)
(* A repository is in one place at a time, but the places are of several   *)
(* kinds: a stage, a channel, the set of those being cleaned, the list of  *)
(* the sites.  The inductive invariant ties them together, and the         *)
(* directories to them.                                                    *)
(***************************************************************************)
EXTENDS RemotePipeline, FiniteSetTheorems, TLAPS

\* The memory manager with its theorems; the repositories are its clients.
Memory == INSTANCE MemoryManager_proofs WITH Clients <- Repos, phase <- admission

\* The sequence ch holds every element of S, each once, and nothing else.
Holds(ch, S) ==
    /\ \A i \in 1..Len(ch) : ch[i] \in S
    /\ \A i, j \in 1..Len(ch) : ch[i] = ch[j] => i = j
    /\ \A r \in S : \E i \in 1..Len(ch) : ch[i] = r

\* No other repository is checked out under the name of r.
Alone(r) == \A s \in HttpGit : RepoName[s] = RepoName[r] => s = r

\* The types of everything but the memory manager's state.
Types ==
    /\ continueOnError \in BOOLEAN
    /\ mainPc \in {"feed", "fetchWait", "parseWait", "cleanWait", "report", "done"}
    /\ fed \in 0..Len(RepoName)
    /\ fetchCh \in Seq(HttpGit) /\ parseCh \in Seq(HttpGit) /\ cleanCh \in Seq(HttpGit)
    /\ allSites \in Seq(HttpGit)
    /\ stage \in [Repos -> Stages]
    /\ inMemory \subseteq HttpGit /\ cleaning \subseteq HttpGit
    /\ disk \in [Names -> DirStates]
    /\ result \in {"running", "fetchError", "generated", "generateError"}

\* The repositories that a parse worker has handed on.
Processed == {"parseFailed", "appending", "site"}

\* Exactly the repositories that have been fed and have an http source are on
\* their way, and all are when the feeding is over.
FedInOrder ==
    /\ \A r \in HttpGit : stage[r] = "listed" <=> r > fed
    /\ \A r \in Repos \ HttpGit : stage[r] = "listed"
    /\ mainPc # "feed" => fed = Len(RepoName)

\* Each repository waits in the channel its stage tells, once; a clean task is
\* sent once, after the parse; and no parsed repository is lost or doubled.
Placed ==
    /\ Holds(fetchCh, In({"fetchQueue"}))
    /\ Holds(parseCh, In({"parseQueue"}))
    /\ Holds(cleanCh, SitesOf(cleanCh))
    /\ SitesOf(cleanCh) \cup cleaning \subseteq In(Processed)
    /\ SitesOf(cleanCh) \cap cleaning = {}
    /\ Holds(allSites, In({"site"}))

\* What the main goroutine has waited for does not begin again.
Closed ==
    /\ NoSendOnClosedChannel
    /\ mainPc \in {"report", "done"} => cleanCh = <<>> /\ cleaning = {}
    /\ result = "running" <=> mainPc # "done"

\* setErr has recorded an error when a fetch has failed and errors matter.
ErrorsRecorded ==
    pipelineErr # {} <=> ~continueOnError /\ In({"failing", "fetchFailed"}) # {}

\* From the end of its fetch until it is handed to a clean worker, a checkout
\* on the disk is whole, if its directory is its own.
CheckedOut == {"fetched", "parseQueue", "parsing", "parsed", "unparsable"}
OwnCheckoutWhole ==
    \A r \in In(CheckedOut) \ inMemory : Alone(r) => Dir(r) = "whole"

\* Nothing will be removed on behalf of r any more.
Removed(r) ==
    \/ stage[r] = "fetchFailed"
    \/ stage[r] \in Processed /\ r \notin SitesOf(cleanCh) \cup cleaning

\* A directory that is there will still be removed, be it by another
\* repository of the same name.
RemovalPending ==
    \A r \in HttpGit :
        Dir(r) # "absent" => \E s \in HttpGit : RepoName[s] = RepoName[r] /\ ~Removed(s)

\* The inductive invariant.
IInv ==
    /\ Types /\ FedInOrder /\ Placed /\ Closed /\ ErrorsRecorded
    /\ OwnCheckoutWhole /\ RemovalPending

-----------------------------------------------------------------------------
\* The list has a name for every number up to its length.
LEMMA ListOfRepos ==
    /\ RepoName \in Seq(Nat) /\ Repos = 1..Len(RepoName) /\ Len(RepoName) \in Nat
    /\ HttpGit \subseteq Repos
    /\ \A r \in Repos : RepoName[r] \in Names
  BY RemoteAssumption DEF Repos, Names

\* A send, or the append to the list of the sites, puts one more element
\* behind the others.
LEMMA SendHolds ==
    ASSUME NEW T, NEW ch \in Seq(T), NEW S, Holds(ch, S), NEW e \in T, e \notin S
    PROVE  /\ Append(ch, e) \in Seq(T)
           /\ Len(Append(ch, e)) = Len(ch) + 1
           /\ Holds(Append(ch, e), S \cup {e})
  BY DEF Holds

\* A receive takes the first element out.
LEMMA ReceiveHolds ==
    ASSUME NEW T, NEW ch \in Seq(T), NEW S, Holds(ch, S), ch # <<>>
    PROVE  /\ Tail(ch) \in Seq(T)
           /\ Len(Tail(ch)) = Len(ch) - 1
           /\ Head(ch) \in S \cap T
           /\ Holds(Tail(ch), S \ {Head(ch)})
  <1>1. /\ Len(ch) \in Nat \ {0} /\ Head(ch) = ch[1] /\ ch[1] \in T
        /\ Tail(ch) \in Seq(T) /\ Len(Tail(ch)) = Len(ch) - 1
        /\ \A i \in 1..Len(Tail(ch)) : Tail(ch)[i] = ch[i + 1]
    OBVIOUS
  <1>2. Head(ch) \in S
    BY <1>1 DEF Holds
  <1>3. \A i \in 1..Len(Tail(ch)) : Tail(ch)[i] \in S \ {Head(ch)}
    BY <1>1 DEF Holds
  <1>4. \A i, j \in 1..Len(Tail(ch)) : Tail(ch)[i] = Tail(ch)[j] => i = j
    BY <1>1 DEF Holds
  <1>5. ASSUME NEW r \in S \ {Head(ch)}
        PROVE  \E i \in 1..Len(Tail(ch)) : Tail(ch)[i] = r
    <2>1. PICK i \in 1..Len(ch) : ch[i] = r
      BY DEF Holds
    <2>2. i - 1 \in 1..Len(Tail(ch)) /\ Tail(ch)[i - 1] = r
      BY <1>1, <1>5, <2>1
    <2> QED
      BY <2>2
  <1> QED
    BY <1>1, <1>2, <1>3, <1>4, <1>5 DEF Holds

\* Nothing is held by the empty sequence.
LEMMA EmptyHolds == Holds(<<>>, {}) /\ \A S : Holds(<<>>, S) => S = {}
  BY DEF Holds

\* What a sequence holds are its elements.
LEMMA HeldSites ==
    ASSUME NEW T, NEW ch \in Seq(T), NEW S, Holds(ch, S)
    PROVE  SitesOf(ch) = S
  BY DEF Holds, SitesOf

-----------------------------------------------------------------------------
(* Stages.                                                                 *)

\* A repository that goes to another stage leaves all the sets of stages that
\* do not have the new one and enters those that have it.
LEMMA GotoIn ==
    ASSUME Types, NEW r \in Repos, NEW s \in Stages, Goto(r, s)
    PROVE  /\ stage' \in [Repos -> Stages]
           /\ stage'[r] = s
           /\ \A q \in Repos : q # r => stage'[q] = stage[q]
           /\ \A S : s \in S => In(S)' = In(S) \cup {r}
           /\ \A S : s \notin S => In(S)' = In(S) \ {r}
           /\ \A S : s \notin S /\ stage[r] \notin S => In(S)' = In(S)
           /\ \A S : s \in S /\ stage[r] \in S => In(S)' = In(S)
           /\ \A S : r \in In(S) <=> stage[r] \in S
  BY DEF Types, Goto, In

\* A directory changes for all the repositories that have its name, and for no other.
LEMMA SetDirDisk ==
    ASSUME Types, NEW r \in Repos, NEW d \in DirStates, SetDir(r, d)
    PROVE  /\ disk' \in [Names -> DirStates]
           /\ \A q \in Repos : Dir(q)' = IF RepoName[q] = RepoName[r] THEN d ELSE Dir(q)
  BY ListOfRepos DEF Types, SetDir, Dir

\* A repository that is on its way is one with an http source, and was fed.
LEMMA OnItsWay ==
    ASSUME Types, FedInOrder, NEW r \in Repos, stage[r] # "listed"
    PROVE  r \in HttpGit /\ ~(r > fed)
  BY DEF FedInOrder

-----------------------------------------------------------------------------
(* Directories.                                                            *)

\* A step that changes at most the stage and the directory of one repository
\* r keeps the others' own checkouts whole.
LEMMA WholeKept ==
    ASSUME Types, FedInOrder, OwnCheckoutWhole, NEW r \in HttpGit,
           disk' = disk \/ \E d \in DirStates : SetDir(r, d),
           \A q \in Repos : q # r => stage'[q] = stage[q],
           inMemory \subseteq inMemory',
           stage'[r] \in CheckedOut /\ r \notin inMemory' =>
              (disk' = disk /\ stage[r] \in CheckedOut) \/ Dir(r)' = "whole"
    PROVE  OwnCheckoutWhole'
  <1> SUFFICES ASSUME NEW q \in Repos, stage'[q] \in CheckedOut, q \notin inMemory', Alone(q)
               PROVE  Dir(q)' = "whole"
    BY DEF OwnCheckoutWhole, In, Alone
  <1>1. CASE q = r
    BY <1>1 DEF OwnCheckoutWhole, In, Dir
  <1>2. CASE q # r
    <2>1. q \in In(CheckedOut) \ inMemory /\ Dir(q) = "whole"
      BY <1>2 DEF OwnCheckoutWhole, In
    <2>2. RepoName[q] # RepoName[r]
      BY <1>2 DEF Alone
    <2> QED
      BY <2>1, <2>2, ListOfRepos, SetDirDisk DEF Dir
  <1> QED
    BY <1>1, <1>2

\* As long as a removal is pending for a directory, others may be written.
LEMMA PendingKept ==
    ASSUME Types, RemovalPending, NEW r \in HttpGit,
           disk' = disk \/ (~Removed(r)' /\ \E d \in DirStates : SetDir(r, d)),
           \A q \in HttpGit : Removed(q)' => Removed(q)
    PROVE  RemovalPending'
  <1> SUFFICES ASSUME NEW q \in HttpGit, Dir(q)' # "absent"
               PROVE  \E p \in HttpGit : RepoName[p] = RepoName[q] /\ ~Removed(p)'
    BY DEF RemovalPending
  <1>1. CASE disk' = disk
    BY <1>1 DEF RemovalPending, Dir
  <1>2. CASE disk' # disk
    <2>1. CASE RepoName[q] = RepoName[r]
      BY <1>2, <2>1
    <2>2. CASE RepoName[q] # RepoName[r]
      BY <1>2, <2>2, ListOfRepos, SetDirDisk DEF RemovalPending, Dir
    <2> QED
      BY <2>1, <2>2
  <1> QED
    BY <1>1, <1>2

\* Once a directory is removed, nothing is pending for its repositories.
LEMMA PendingDone ==
    ASSUME Types, RemovalPending, NEW r \in HttpGit, SetDir(r, "absent"),
           \A q \in HttpGit : q # r /\ Removed(q)' => Removed(q)
    PROVE  RemovalPending'
  <1> SUFFICES ASSUME NEW q \in HttpGit, Dir(q)' # "absent"
               PROVE  \E p \in HttpGit : RepoName[p] = RepoName[q] /\ ~Removed(p)'
    BY DEF RemovalPending
  <1>1. RepoName[q] # RepoName[r] /\ Dir(q)' = Dir(q)
    BY ListOfRepos, SetDirDisk DEF DirStates
  <1> QED
    BY <1>1 DEF RemovalPending
-----------------------------------------------------------------------------
(* The main goroutine.                                                     *)

\* The main goroutine feeds the list in its order.
LEMMA FeedSteps ==
    ASSUME IInv, Skip \/ Feed
    PROVE  IInv'
  <1> USE ListOfRepos DEF IInv
  <1>1. CASE Skip
    <2> USE <1>1 DEF Skip, chans, files, sites
    <2>1. Types'
      BY DEF Types
    <2>2. FedInOrder'
      BY DEF FedInOrder, Types
    <2>3. Placed'
      BY DEF Placed, In
    <2>4. Closed'
      BY DEF Closed, NoSendOnClosedChannel, In
    <2>5. ErrorsRecorded'
      BY DEF ErrorsRecorded, In
    <2>6. OwnCheckoutWhole' /\ RemovalPending'
      BY DEF OwnCheckoutWhole, RemovalPending, Removed, In, Dir
    <2> QED
      BY <2>1, <2>2, <2>3, <2>4, <2>5, <2>6
  <1>2. CASE Feed
    <2> PICK r \in Repos : r = fed + 1
      BY <1>2 DEF Feed
    <2>0. r \in HttpGit /\ stage[r] = "listed" /\ Goto(r, "fetchQueue") /\ mainPc = "feed"
      BY <1>2 DEF Feed, Goto, Types, FedInOrder
    <2>1. Types'
      BY <1>2, <2>0, GotoIn DEF Feed, Types, Stages, chans, files, sites
    <2>2. FedInOrder'
      BY <1>2, <2>0, GotoIn DEF Feed, FedInOrder, Types, Stages
    <2>3. Placed'
      <3>1. Holds(fetchCh', In({"fetchQueue"})')
        <4>1. fetchCh \in Seq(HttpGit) /\ Holds(fetchCh, In({"fetchQueue"})) /\ r \notin In({"fetchQueue"})
          BY <2>0 DEF Types, Placed, In
        <4>2. fetchCh' = Append(fetchCh, r) /\ In({"fetchQueue"})' = In({"fetchQueue"}) \cup {r}
          BY <1>2, <2>0, GotoIn DEF Feed, Stages
        <4> QED
          BY <2>0, <4>1, <4>2, SendHolds
      <3>2. UNCHANGED <<In({"parseQueue"}), In({"site"}), In(Processed)>>
        BY <2>0, GotoIn DEF Processed, Stages
      <3> QED
        BY <1>2, <3>1, <3>2 DEF Placed, Feed, files, sites
    <2>4. Closed'
      BY <1>2, <2>0 DEF Closed, NoSendOnClosedChannel, Feed, files, sites
    <2>5. ErrorsRecorded'
      <3>1. UNCHANGED In({"failing", "fetchFailed"})
        BY <2>0, GotoIn DEF Stages
      <3> QED
        BY <1>2, <3>1 DEF ErrorsRecorded, Feed, sites
    <2>6. OwnCheckoutWhole'
      BY <1>2, <2>0, GotoIn, WholeKept DEF CheckedOut, Feed, files, Stages
    <2>7. RemovalPending'
      <3>1. \A q \in HttpGit : Removed(q)' => Removed(q)
        BY <1>2, <2>0, GotoIn DEF Removed, Processed, Feed, files, Stages
      <3> QED
        BY <1>2, <2>0, <3>1, PendingKept DEF Feed, files
    <2> QED
      BY <2>1, <2>2, <2>3, <2>4, <2>5, <2>6, <2>7
  <1> QED
    BY <1>1, <1>2

-----------------------------------------------------------------------------
(* The fetch workers.                                                      *)

\* While a worker is busy with r, the channel it sends on is open.
LEMMA BusyOpen ==
    ASSUME IInv, NEW r \in Repos
    PROVE  /\ stage[r] \in FetchStages => mainPc \in {"feed", "fetchWait"}
           /\ stage[r] \in ParseStages => mainPc \in {"feed", "fetchWait", "parseWait"}
  BY DEF IInv, Types, Closed, NoSendOnClosedChannel, In

\* The steps of a fetch or a parse worker between its receive and its send.
LEMMA WorkerMoves ==
    ASSUME IInv, NEW r \in HttpGit, NEW s \in Stages, Goto(r, s),
           UNCHANGED <<mainPc, fed, chans, cleaning, allSites, result>>,
           \/ stage[r] \in FetchStages /\ s \in FetchStages \cup {"fetchFailed"}
           \/ stage[r] = "parsing" /\ s \in {"parsed", "unparsable"}
    PROVE  /\ stage' \in [Repos -> Stages]
           /\ FedInOrder' /\ Placed' /\ Closed'
           /\ \A q \in HttpGit : (q # r \/ s # "fetchFailed") /\ Removed(q)' => Removed(q)
  <1> USE ListOfRepos DEF chans
  <1>0. r \in Repos /\ Types /\ FedInOrder /\ Placed /\ Closed
    BY DEF IInv
  <1>1. stage' \in [Repos -> Stages]
    BY <1>0, GotoIn
  <1>2. FedInOrder'
    BY <1>0, GotoIn DEF FedInOrder, Stages, FetchStages
  <1>3. Placed'
    <2>1. UNCHANGED <<In({"fetchQueue"}), In({"parseQueue"}), In(Processed), In({"site"})>>
      BY <1>0, GotoIn DEF Processed, FetchStages
    <2> QED
      BY <1>0, <2>1 DEF Placed
  <1>4. Closed'
    <2>1. CASE stage[r] \in FetchStages
      BY <1>0, <2>1, BusyOpen DEF Closed, NoSendOnClosedChannel
    <2>2. CASE stage[r] = "parsing"
      <3>1. mainPc \in {"feed", "fetchWait", "parseWait"}
        BY <1>0, <2>2, BusyOpen DEF ParseStages
      <3>2. UNCHANGED In(FetchStages)
        BY <1>0, <2>2, GotoIn DEF FetchStages
      <3> QED
        BY <1>0, <3>1, <3>2 DEF Closed, NoSendOnClosedChannel
    <2> QED
      BY <2>1, <2>2
  <1>5. \A q \in HttpGit : (q # r \/ s # "fetchFailed") /\ Removed(q)' => Removed(q)
    BY <1>0, GotoIn DEF Removed, Processed, FetchStages
  <1> QED
    BY <1>1, <1>2, <1>3, <1>4, <1>5

\* A fetch worker takes the first task.
LEMMA TakeFetchStep ==
    ASSUME IInv, NEW r \in Repos, TakeFetch(r)
    PROVE  IInv'
  <1> USE ListOfRepos
  <1>0. Types /\ FedInOrder /\ Placed /\ Closed /\ ErrorsRecorded /\ OwnCheckoutWhole /\ RemovalPending
    BY DEF IInv
  <1>1. /\ fetchCh # <<>> /\ r = Head(fetchCh) /\ fetchCh' = Tail(fetchCh)
        /\ Goto(r, "fetching") /\ "fetching" \in Stages
        /\ UNCHANGED <<mainPc, fed, parseCh, cleanCh, inMemory, disk, cleaning>>
        /\ UNCHANGED <<continueOnError, allSites, pipelineErr, published, result>>
    BY DEF TakeFetch, files, sites, Stages, FetchStages
  <1>2. /\ fetchCh' \in Seq(HttpGit) /\ Len(fetchCh') = Len(fetchCh) - 1
        /\ r \in HttpGit /\ stage[r] = "fetchQueue"
        /\ Holds(fetchCh', In({"fetchQueue"}) \ {r})
    <2>1. fetchCh \in Seq(HttpGit) /\ Holds(fetchCh, In({"fetchQueue"}))
      BY <1>0 DEF Types, Placed
    <2>2. r \in In({"fetchQueue"}) => stage[r] = "fetchQueue"
      BY DEF In
    <2> QED
      BY <1>1, <2>1, <2>2, ReceiveHolds
  <1>g. /\ stage' \in [Repos -> Stages]
        /\ stage'[r] = "fetching"
        /\ \A q \in Repos : q # r => stage'[q] = stage[q]
    BY <1>0, <1>1, GotoIn
  <1>3. Types'
    BY <1>0, <1>1, <1>2, <1>g DEF Types
  <1>4. FedInOrder'
    BY <1>0, <1>1, <1>2, <1>g DEF FedInOrder
  <1>5. Placed'
    <2>1. UNCHANGED <<In({"parseQueue"}), In(Processed), In({"site"})>>
      BY <1>0, <1>1, <1>2, GotoIn DEF Processed
    <2>2. In({"fetchQueue"})' = In({"fetchQueue"}) \ {r}
      BY <1>0, <1>1, GotoIn
    <2> QED
      BY <1>0, <1>1, <1>2, <2>1, <2>2 DEF Placed
  <1>6. Closed'
    BY <1>0, <1>1 DEF Closed, NoSendOnClosedChannel
  <1>7. ErrorsRecorded'
    <2>1. UNCHANGED In({"failing", "fetchFailed"})
      BY <1>0, <1>1, <1>2, GotoIn
    <2> QED
      BY <1>0, <1>1, <2>1 DEF ErrorsRecorded
  <1>8. OwnCheckoutWhole'
    BY <1>0, <1>1, <1>2, GotoIn, WholeKept DEF CheckedOut
  <1>9. RemovalPending'
    <2>1. \A q \in HttpGit : Removed(q)' => Removed(q)
      BY <1>0, <1>1, <1>2, GotoIn DEF Removed, Processed
    <2> QED
      BY <1>0, <1>1, <1>2, <2>1, PendingKept
  <1> QED
    BY <1>3, <1>4, <1>5, <1>6, <1>7, <1>8, <1>9 DEF IInv

\* A fetch succeeds, fails or is discarded, and may leave a directory.
LEMMA FetchingSteps ==
    ASSUME IInv, NEW r \in Repos,
           \/ FetchInMemory(r) \/ FetchRepoStarts(r) \/ FetchRepoSucceeds(r)
           \/ FetchRepoFails(r) \/ Discard(r)
    PROVE  IInv'
  <1> USE ListOfRepos
  <1>0. Types /\ FedInOrder /\ Placed /\ Closed /\ ErrorsRecorded /\ OwnCheckoutWhole /\ RemovalPending
    BY DEF IInv
  <1>1. PICK s \in FetchStages \cup {"fetchFailed"} : Goto(r, s)
    BY DEF FetchInMemory, FetchRepoStarts, FetchRepoSucceeds, FetchRepoFails, Discard, FetchStages
  <1>2. /\ stage[r] \in FetchStages /\ r \in HttpGit /\ s \in Stages
        /\ UNCHANGED <<mainPc, fed, fetchCh, parseCh, cleanCh, cleaning, allSites, result, continueOnError>>
    <2>1. /\ stage[r] \in FetchStages
          /\ UNCHANGED <<mainPc, fed, fetchCh, parseCh, cleanCh, cleaning, allSites, result, continueOnError>>
      BY DEF FetchInMemory, FetchRepoStarts, FetchRepoSucceeds, FetchRepoFails, Discard,
             FetchStages, chans, files, sites
    <2> QED
      BY <1>0, <2>1, OnItsWay DEF FetchStages, Stages, FinalStages
  <1>3. /\ stage' \in [Repos -> Stages] /\ stage'[r] = s
        /\ \A q \in Repos : q # r => stage'[q] = stage[q]
    BY <1>0, <1>1, <1>2, GotoIn
  <1>4. /\ FedInOrder' /\ Placed' /\ Closed'
        /\ \A q \in HttpGit : (q # r \/ s # "fetchFailed") /\ Removed(q)' => Removed(q)
    BY <1>1, <1>2, WorkerMoves DEF chans
  <1>5. /\ inMemory' \subseteq HttpGit /\ inMemory \subseteq inMemory'
        /\ disk' = disk \/ \E d \in DirStates : SetDir(r, d)
    BY <1>0, <1>2 DEF FetchInMemory, FetchRepoStarts, FetchRepoSucceeds, FetchRepoFails, Discard,
           files, DirStates, Types
  <1>6. Types'
    <2>1. disk' \in [Names -> DirStates]
      BY <1>0, <1>5, SetDirDisk DEF Types
    <2> QED
      BY <1>0, <1>2, <1>3, <1>5, <2>1 DEF Types
  <1>7. ErrorsRecorded'
    <2>1. CASE FetchRepoFails(r)
      <3>1. s = "failing" /\ SetErr(r) /\ r \in In({"failing", "fetchFailed"})'
        BY <1>1, <1>2, <1>3, <2>1 DEF FetchRepoFails, Goto, In, Types
      <3> QED
        BY <1>0, <1>2, <3>1 DEF ErrorsRecorded, SetErr
    <2>2. CASE ~FetchRepoFails(r)
      <3>1. UNCHANGED pipelineErr
        BY <2>2 DEF FetchInMemory, FetchRepoStarts, FetchRepoSucceeds, Discard, sites
      <3>2. s \in {"failing", "fetchFailed"} <=> stage[r] \in {"failing", "fetchFailed"}
        BY <1>0, <1>2, <1>3, <2>2
           DEF FetchInMemory, FetchRepoStarts, FetchRepoSucceeds, Discard, Goto, Types
      <3>3. UNCHANGED In({"failing", "fetchFailed"})
        BY <1>0, <1>1, <1>2, <3>2, GotoIn
      <3> QED
        BY <1>0, <1>2, <3>1, <3>3 DEF ErrorsRecorded
    <2> QED
      BY <2>1, <2>2
  <1>8. OwnCheckoutWhole'
    <2>1. s \in CheckedOut /\ r \notin inMemory' => Dir(r)' = "whole"
      <3>1. CASE FetchInMemory(r)
        BY <3>1 DEF FetchInMemory
      <3>2. CASE FetchRepoSucceeds(r)
        BY <1>0, <1>2, <3>2, SetDirDisk DEF FetchRepoSucceeds, DirStates
      <3>3. CASE ~FetchInMemory(r) /\ ~FetchRepoSucceeds(r)
        BY <1>0, <1>2, <1>3, <3>3 DEF FetchRepoStarts, FetchRepoFails, Discard, Goto, CheckedOut, Types
      <3> QED
        BY <3>1, <3>2, <3>3
    <2> QED
      BY <1>0, <1>2, <1>3, <1>5, <2>1, WholeKept
  <1>9. RemovalPending'
    <2>1. CASE Discard(r)
      BY <1>0, <1>2, <1>4, <2>1, PendingDone DEF Discard
    <2>2. CASE ~Discard(r)
      <3>1. s # "fetchFailed"
        BY <1>0, <1>2, <1>3, <2>2
           DEF FetchInMemory, FetchRepoStarts, FetchRepoSucceeds, FetchRepoFails, Goto, Types
      <3>2. ~Removed(r)'
        BY <1>3, <3>1, <1>1 DEF Removed, Processed, FetchStages
      <3> QED
        BY <1>0, <1>2, <1>4, <1>5, <3>1, <3>2, PendingKept
    <2> QED
      BY <2>1, <2>2
  <1> QED
    BY <1>0, <1>4, <1>6, <1>7, <1>8, <1>9 DEF IInv

\* What was fetched goes to the parse workers.
LEMMA SendParseStep ==
    ASSUME IInv, NEW r \in Repos, SendParse(r)
    PROVE  IInv'
  <1> USE ListOfRepos
  <1>0. Types /\ FedInOrder /\ Placed /\ Closed /\ ErrorsRecorded /\ OwnCheckoutWhole /\ RemovalPending
    BY DEF IInv
  <1>1. /\ stage[r] = "fetched" /\ parseCh' = Append(parseCh, r)
        /\ Goto(r, "parseQueue") /\ "parseQueue" \in Stages
        /\ UNCHANGED <<mainPc, fed, fetchCh, cleanCh, inMemory, disk, cleaning>>
        /\ UNCHANGED <<continueOnError, allSites, pipelineErr, published, result>>
    BY DEF SendParse, files, sites, Stages
  <1>2. r \in HttpGit /\ mainPc \in {"feed", "fetchWait"}
    BY <1>0, <1>1, OnItsWay, BusyOpen DEF FetchStages
  <1>3. /\ stage' \in [Repos -> Stages]
        /\ stage'[r] = "parseQueue"
        /\ \A q \in Repos : q # r => stage'[q] = stage[q]
    BY <1>0, <1>1, GotoIn
  <1>4. parseCh' \in Seq(HttpGit) /\ Holds(parseCh', In({"parseQueue"}) \cup {r})
    <2>1. /\ parseCh \in Seq(HttpGit) /\ Holds(parseCh, In({"parseQueue"}))
          /\ r \notin In({"parseQueue"})
      BY <1>0, <1>1 DEF Types, Placed, In
    <2> QED
      BY <1>1, <1>2, <2>1, SendHolds
  <1>5. Types'
    BY <1>0, <1>1, <1>3, <1>4 DEF Types
  <1>6. FedInOrder'
    BY <1>0, <1>1, <1>2, <1>3 DEF FedInOrder
  <1>7. Placed'
    <2>1. UNCHANGED <<In({"fetchQueue"}), In(Processed), In({"site"})>>
      BY <1>0, <1>1, <1>2, GotoIn DEF Processed
    <2>2. In({"parseQueue"})' = In({"parseQueue"}) \cup {r}
      BY <1>0, <1>1, GotoIn
    <2> QED
      BY <1>0, <1>1, <1>4, <2>1, <2>2 DEF Placed
  <1>8. Closed'
    BY <1>0, <1>1, <1>2 DEF Closed, NoSendOnClosedChannel
  <1>9. ErrorsRecorded'
    <2>1. UNCHANGED In({"failing", "fetchFailed"})
      BY <1>0, <1>1, GotoIn
    <2> QED
      BY <1>0, <1>1, <2>1 DEF ErrorsRecorded
  <1>10. OwnCheckoutWhole'
    BY <1>0, <1>1, <1>2, <1>3, WholeKept DEF CheckedOut
  <1>11. RemovalPending'
    <2>1. \A q \in HttpGit : Removed(q)' => Removed(q)
      BY <1>0, <1>1, <1>2, <1>3 DEF Removed, Processed
    <2> QED
      BY <1>0, <1>1, <1>2, <2>1, PendingKept
  <1> QED
    BY <1>5, <1>6, <1>7, <1>8, <1>9, <1>10, <1>11 DEF IInv

-----------------------------------------------------------------------------
(* The parse workers.                                                      *)

\* A parse worker takes the first task.
LEMMA TakeParseStep ==
    ASSUME IInv, NEW r \in Repos, TakeParse(r)
    PROVE  IInv'
  <1> USE ListOfRepos
  <1>0. Types /\ FedInOrder /\ Placed /\ Closed /\ ErrorsRecorded /\ OwnCheckoutWhole /\ RemovalPending
    BY DEF IInv
  <1>1. /\ parseCh # <<>> /\ r = Head(parseCh) /\ parseCh' = Tail(parseCh)
        /\ Goto(r, "parsing") /\ "parsing" \in Stages
        /\ UNCHANGED <<mainPc, fed, fetchCh, cleanCh, inMemory, disk, cleaning>>
        /\ UNCHANGED <<continueOnError, allSites, pipelineErr, published, result>>
    BY DEF TakeParse, files, sites, Stages, ParseStages
  <1>2. /\ parseCh' \in Seq(HttpGit)
        /\ r \in HttpGit /\ stage[r] = "parseQueue"
        /\ Holds(parseCh', In({"parseQueue"}) \ {r})
    <2>1. parseCh \in Seq(HttpGit) /\ Holds(parseCh, In({"parseQueue"}))
      BY <1>0 DEF Types, Placed
    <2>2. r \in In({"parseQueue"}) => stage[r] = "parseQueue"
      BY DEF In
    <2> QED
      BY <1>1, <2>1, <2>2, ReceiveHolds
  <1>3. /\ stage' \in [Repos -> Stages]
        /\ stage'[r] = "parsing"
        /\ \A q \in Repos : q # r => stage'[q] = stage[q]
    BY <1>0, <1>1, GotoIn
  <1>4. Types'
    BY <1>0, <1>1, <1>2, <1>3 DEF Types
  <1>5. FedInOrder'
    BY <1>0, <1>1, <1>2, <1>3 DEF FedInOrder
  <1>6. Placed'
    <2>1. UNCHANGED <<In({"fetchQueue"}), In(Processed), In({"site"})>>
      BY <1>0, <1>1, <1>2, GotoIn DEF Processed
    <2>2. In({"parseQueue"})' = In({"parseQueue"}) \ {r}
      BY <1>0, <1>1, GotoIn
    <2> QED
      BY <1>0, <1>1, <1>2, <2>1, <2>2 DEF Placed
  <1>7. Closed'
    <2>1. UNCHANGED In(FetchStages)
      BY <1>0, <1>1, <1>2, GotoIn DEF FetchStages
    <2> QED
      BY <1>0, <1>1, <2>1 DEF Closed, NoSendOnClosedChannel
  <1>8. ErrorsRecorded'
    <2>1. UNCHANGED In({"failing", "fetchFailed"})
      BY <1>0, <1>1, <1>2, GotoIn
    <2> QED
      BY <1>0, <1>1, <2>1 DEF ErrorsRecorded
  <1>9. OwnCheckoutWhole'
    BY <1>0, <1>1, <1>2, <1>3, WholeKept DEF CheckedOut
  <1>10. RemovalPending'
    <2>1. \A q \in HttpGit : Removed(q)' => Removed(q)
      BY <1>0, <1>1, <1>2, <1>3 DEF Removed, Processed
    <2> QED
      BY <1>0, <1>1, <1>2, <2>1, PendingKept
  <1> QED
    BY <1>4, <1>5, <1>6, <1>7, <1>8, <1>9, <1>10 DEF IInv

\* A repository is parsed, or cannot be.
LEMMA ParseRepoStep ==
    ASSUME IInv, NEW r \in Repos, ParseRepo(r)
    PROVE  IInv'
  <1> USE ListOfRepos
  <1>0. Types /\ FedInOrder /\ Placed /\ Closed /\ ErrorsRecorded /\ OwnCheckoutWhole /\ RemovalPending
    BY DEF IInv
  <1>1. PICK s \in {"parsed", "unparsable"} : Goto(r, s)
    BY DEF ParseRepo
  <1>2. /\ stage[r] = "parsing" /\ s \in Stages
        /\ UNCHANGED <<mainPc, fed, fetchCh, parseCh, cleanCh, inMemory, disk, cleaning>>
        /\ UNCHANGED <<continueOnError, allSites, pipelineErr, published, result>>
    BY DEF ParseRepo, chans, files, sites, Stages, ParseStages
  <1>3. r \in HttpGit
    BY <1>0, <1>2, OnItsWay
  <1>4. /\ stage' \in [Repos -> Stages] /\ stage'[r] = s
        /\ \A q \in Repos : q # r => stage'[q] = stage[q]
    BY <1>0, <1>1, <1>2, GotoIn
  <1>5. /\ FedInOrder' /\ Placed' /\ Closed'
        /\ \A q \in HttpGit : (q # r \/ s # "fetchFailed") /\ Removed(q)' => Removed(q)
    BY <1>1, <1>2, <1>3, WorkerMoves DEF chans
  <1>6. Types'
    BY <1>0, <1>2, <1>4 DEF Types
  <1>7. ErrorsRecorded'
    <2>1. UNCHANGED In({"failing", "fetchFailed"})
      BY <1>0, <1>1, <1>2, GotoIn
    <2> QED
      BY <1>0, <1>2, <2>1 DEF ErrorsRecorded
  <1>8. OwnCheckoutWhole'
    BY <1>0, <1>2, <1>3, <1>4, WholeKept DEF CheckedOut
  <1>9. RemovalPending'
    BY <1>0, <1>2, <1>3, <1>5, PendingKept
  <1> QED
    BY <1>5, <1>6, <1>7, <1>8, <1>9 DEF IInv

\* The clean task is sent whether the repository could be parsed or not.
LEMMA SendCleanStep ==
    ASSUME IInv, NEW r \in Repos, SendClean(r)
    PROVE  IInv'
  <1> USE ListOfRepos
  <1>0. Types /\ FedInOrder /\ Placed /\ Closed /\ ErrorsRecorded /\ OwnCheckoutWhole /\ RemovalPending
    BY DEF IInv
  <1>1. /\ stage[r] \in {"parsed", "unparsable"} /\ cleanCh' = Append(cleanCh, r)
        /\ UNCHANGED <<mainPc, fed, fetchCh, parseCh, inMemory, disk, cleaning>>
        /\ UNCHANGED <<continueOnError, allSites, pipelineErr, published, result>>
    BY DEF SendClean, files, sites
  <1>2. PICK s \in {"appending", "parseFailed"} : Goto(r, s)
    BY DEF SendClean
  <1>3. r \in HttpGit /\ s \in Stages /\ mainPc \in {"feed", "fetchWait", "parseWait"}
    BY <1>0, <1>1, OnItsWay, BusyOpen DEF ParseStages, FinalStages, Stages
  <1>4. /\ stage' \in [Repos -> Stages]
        /\ stage'[r] = s
        /\ \A q \in Repos : q # r => stage'[q] = stage[q]
    BY <1>0, <1>2, <1>3, GotoIn
  <1>5. /\ cleanCh' \in Seq(HttpGit) /\ Holds(cleanCh', SitesOf(cleanCh'))
        /\ SitesOf(cleanCh') = SitesOf(cleanCh) \cup {r} /\ r \notin cleaning
    <2>1. /\ cleanCh \in Seq(HttpGit) /\ Holds(cleanCh, SitesOf(cleanCh))
          /\ r \notin SitesOf(cleanCh) /\ r \notin cleaning
      BY <1>0, <1>1 DEF Types, Placed, In, Processed
    <2>2. cleanCh' \in Seq(HttpGit) /\ Holds(cleanCh', SitesOf(cleanCh) \cup {r})
      BY <1>1, <1>3, <2>1, SendHolds
    <2>3. SitesOf(cleanCh') = SitesOf(cleanCh) \cup {r}
      BY <2>2, HeldSites
    <2> QED
      BY <2>1, <2>2, <2>3
  <1>6. Types'
    BY <1>0, <1>1, <1>4, <1>5 DEF Types
  <1>7. FedInOrder'
    BY <1>0, <1>1, <1>3, <1>4 DEF FedInOrder
  <1>8. Placed'
    <2>1. UNCHANGED <<In({"fetchQueue"}), In({"parseQueue"}), In({"site"})>>
      BY <1>0, <1>1, <1>2, <1>3, GotoIn
    <2>2. In(Processed)' = In(Processed) \cup {r}
      BY <1>0, <1>2, <1>3, GotoIn DEF Processed
    <2> QED
      BY <1>0, <1>1, <1>5, <2>1, <2>2 DEF Placed
  <1>9. Closed'
    <2>1. UNCHANGED In(FetchStages)
      BY <1>0, <1>1, <1>2, <1>3, GotoIn DEF FetchStages
    <2> QED
      BY <1>0, <1>1, <1>3, <2>1 DEF Closed, NoSendOnClosedChannel
  <1>10. ErrorsRecorded'
    <2>1. UNCHANGED In({"failing", "fetchFailed"})
      BY <1>0, <1>1, <1>2, <1>3, GotoIn
    <2> QED
      BY <1>0, <1>1, <2>1 DEF ErrorsRecorded
  <1>11. OwnCheckoutWhole'
    BY <1>0, <1>1, <1>3, <1>4, WholeKept DEF CheckedOut
  <1>12. RemovalPending'
    <2>1. \A q \in HttpGit : Removed(q)' => Removed(q)
      BY <1>0, <1>1, <1>2, <1>3, <1>4, <1>5 DEF Removed
    <2> QED
      BY <1>0, <1>1, <1>3, <2>1, PendingKept
  <1> QED
    BY <1>6, <1>7, <1>8, <1>9, <1>10, <1>11, <1>12 DEF IInv

\* A parsed repository enters the list of the sites, once.
LEMMA AppendSiteStep ==
    ASSUME IInv, NEW r \in Repos, AppendSite(r)
    PROVE  IInv'
  <1> USE ListOfRepos
  <1>0. Types /\ FedInOrder /\ Placed /\ Closed /\ ErrorsRecorded /\ OwnCheckoutWhole /\ RemovalPending
    BY DEF IInv
  <1>1. /\ stage[r] = "appending" /\ allSites' = Append(allSites, r)
        /\ Goto(r, "site") /\ "site" \in Stages
        /\ UNCHANGED <<mainPc, fed, fetchCh, parseCh, cleanCh, inMemory, disk, cleaning>>
        /\ UNCHANGED <<continueOnError, pipelineErr, published, result>>
    BY DEF AppendSite, chans, files, Stages, FinalStages
  <1>2. r \in HttpGit /\ mainPc \in {"feed", "fetchWait", "parseWait"}
    BY <1>0, <1>1, OnItsWay, BusyOpen DEF ParseStages
  <1>3. /\ stage' \in [Repos -> Stages]
        /\ stage'[r] = "site"
        /\ \A q \in Repos : q # r => stage'[q] = stage[q]
    BY <1>0, <1>1, GotoIn
  <1>4. allSites' \in Seq(HttpGit) /\ Holds(allSites', In({"site"}) \cup {r})
    <2>1. allSites \in Seq(HttpGit) /\ Holds(allSites, In({"site"})) /\ r \notin In({"site"})
      BY <1>0, <1>1 DEF Types, Placed, In
    <2> QED
      BY <1>1, <1>2, <2>1, SendHolds
  <1>5. Types'
    BY <1>0, <1>1, <1>3, <1>4 DEF Types
  <1>6. FedInOrder'
    BY <1>0, <1>1, <1>2, <1>3 DEF FedInOrder
  <1>7. Placed'
    <2>1. UNCHANGED <<In({"fetchQueue"}), In({"parseQueue"}), In(Processed)>>
      BY <1>0, <1>1, <1>2, GotoIn DEF Processed
    <2>2. In({"site"})' = In({"site"}) \cup {r}
      BY <1>0, <1>1, GotoIn
    <2> QED
      BY <1>0, <1>1, <1>4, <2>1, <2>2 DEF Placed
  <1>8. Closed'
    <2>1. UNCHANGED In(FetchStages)
      BY <1>0, <1>1, <1>2, GotoIn DEF FetchStages
    <2> QED
      BY <1>0, <1>1, <1>2, <2>1 DEF Closed, NoSendOnClosedChannel
  <1>9. ErrorsRecorded'
    <2>1. UNCHANGED In({"failing", "fetchFailed"})
      BY <1>0, <1>1, <1>2, GotoIn
    <2> QED
      BY <1>0, <1>1, <2>1 DEF ErrorsRecorded
  <1>10. OwnCheckoutWhole'
    BY <1>0, <1>1, <1>2, <1>3, WholeKept DEF CheckedOut
  <1>11. RemovalPending'
    <2>1. \A q \in HttpGit : Removed(q)' => Removed(q)
      BY <1>0, <1>1, <1>2, <1>3 DEF Removed, Processed
    <2> QED
      BY <1>0, <1>1, <1>2, <2>1, PendingKept
  <1> QED
    BY <1>5, <1>6, <1>7, <1>8, <1>9, <1>10, <1>11 DEF IInv

-----------------------------------------------------------------------------
(* The clean workers.                                                      *)

\* A clean worker takes the first task.
LEMMA TakeCleanStep ==
    ASSUME IInv, NEW r \in Repos, TakeClean(r)
    PROVE  IInv'
  <1> USE ListOfRepos
  <1>0. Types /\ FedInOrder /\ Placed /\ Closed /\ ErrorsRecorded /\ OwnCheckoutWhole /\ RemovalPending
    BY DEF IInv
  <1>1. /\ cleanCh # <<>> /\ r = Head(cleanCh) /\ cleanCh' = Tail(cleanCh)
        /\ cleaning' = cleaning \cup {r}
        /\ UNCHANGED <<mainPc, fed, fetchCh, parseCh, stage, inMemory>>
        /\ UNCHANGED <<continueOnError, allSites, pipelineErr, published, result>>
    BY DEF TakeClean, sites
  <1>2. PICK d \in DirStates : SetDir(r, d)
    BY DEF TakeClean, DirStates
  <1>3. /\ cleanCh' \in Seq(HttpGit) /\ Holds(cleanCh', SitesOf(cleanCh'))
        /\ r \in SitesOf(cleanCh) \cap HttpGit /\ SitesOf(cleanCh') = SitesOf(cleanCh) \ {r}
    <2>1. cleanCh \in Seq(HttpGit) /\ Holds(cleanCh, SitesOf(cleanCh))
      BY <1>0 DEF Types, Placed
    <2>2. /\ cleanCh' \in Seq(HttpGit) /\ r \in SitesOf(cleanCh) \cap HttpGit
          /\ Holds(cleanCh', SitesOf(cleanCh) \ {r})
      BY <1>1, <2>1, ReceiveHolds
    <2>3. SitesOf(cleanCh') = SitesOf(cleanCh) \ {r}
      BY <2>2, HeldSites
    <2> QED
      BY <2>2, <2>3
  <1>4. stage[r] \in Processed
    BY <1>0, <1>3 DEF Placed, In
  <1>5. Types'
    <2>1. disk' \in [Names -> DirStates]
      BY <1>0, <1>2, <1>3, SetDirDisk
    <2> QED
      BY <1>0, <1>1, <1>3, <2>1 DEF Types
  <1>6. FedInOrder'
    BY <1>0, <1>1 DEF FedInOrder
  <1>7. Placed'
    BY <1>0, <1>1, <1>3 DEF Placed, In
  <1>8. Closed'
    BY <1>0, <1>1 DEF Closed, NoSendOnClosedChannel, In
  <1>9. ErrorsRecorded'
    BY <1>0, <1>1 DEF ErrorsRecorded, In
  <1>10. OwnCheckoutWhole'
    BY <1>0, <1>1, <1>2, <1>3, <1>4, WholeKept DEF CheckedOut, Processed
  <1>11. RemovalPending'
    <2>1. (\A q \in HttpGit : Removed(q)' => Removed(q)) /\ ~Removed(r)'
      BY <1>0, <1>1, <1>3, <1>4 DEF Removed, Processed
    <2> QED
      BY <1>0, <1>2, <1>3, <2>1, PendingKept
  <1> QED
    BY <1>5, <1>6, <1>7, <1>8, <1>9, <1>10, <1>11 DEF IInv

\* A clean worker removes the directory, which may be that of another repository of the name.
LEMMA RemoveRepoStep ==
    ASSUME IInv, NEW r \in Repos, RemoveRepo(r)
    PROVE  IInv'
  <1> USE ListOfRepos
  <1>0. Types /\ FedInOrder /\ Placed /\ Closed /\ ErrorsRecorded /\ OwnCheckoutWhole /\ RemovalPending
    BY DEF IInv
  <1>1. /\ r \in cleaning /\ cleaning' = cleaning \ {r}
        /\ SetDir(r, "absent") /\ "absent" \in DirStates
        /\ UNCHANGED <<mainPc, fed, fetchCh, parseCh, cleanCh, stage, inMemory>>
        /\ UNCHANGED <<continueOnError, allSites, pipelineErr, published, result>>
    BY DEF RemoveRepo, chans, sites, DirStates
  <1>2. r \in HttpGit /\ stage[r] \in Processed
    BY <1>0, <1>1 DEF Types, Placed, In
  <1>3. Types'
    <2>1. disk' \in [Names -> DirStates]
      BY <1>0, <1>1, SetDirDisk
    <2> QED
      BY <1>0, <1>1, <2>1 DEF Types
  <1>4. FedInOrder'
    BY <1>0, <1>1 DEF FedInOrder
  <1>5. Placed'
    BY <1>0, <1>1 DEF Placed, In
  <1>6. Closed'
    BY <1>0, <1>1 DEF Closed, NoSendOnClosedChannel, In
  <1>7. ErrorsRecorded'
    BY <1>0, <1>1 DEF ErrorsRecorded, In
  <1>8. OwnCheckoutWhole'
    BY <1>0, <1>1, <1>2, WholeKept DEF CheckedOut, Processed
  <1>9. RemovalPending'
    <2>1. \A q \in HttpGit : q # r /\ Removed(q)' => Removed(q)
      BY <1>0, <1>1, <1>2 DEF Removed
    <2> QED
      BY <1>0, <1>1, <1>2, <2>1, PendingDone
  <1> QED
    BY <1>3, <1>4, <1>5, <1>6, <1>7, <1>8, <1>9 DEF IInv

-----------------------------------------------------------------------------
(* The end of the run.                                                     *)

\* When every worker has been waited for, every repository is resolved.
LEMMA AllResolvedAtEnd ==
    ASSUME IInv, mainPc \in {"cleanWait", "report", "done"}, NEW r \in HttpGit
    PROVE  stage[r] \in FinalStages
  <1> USE ListOfRepos
  <1>0. Types /\ FedInOrder /\ Placed /\ Closed
    BY DEF IInv
  <1>1. stage[r] # "listed"
    BY <1>0 DEF FedInOrder, Types
  <1>2. stage[r] \notin FetchStages \cup ParseStages
    BY <1>0 DEF Closed, NoSendOnClosedChannel, In
  <1>3. fetchCh = <<>> /\ parseCh = <<>>
    BY <1>0 DEF Closed, NoSendOnClosedChannel
  <1>4. stage[r] # "fetchQueue" /\ stage[r] # "parseQueue"
    BY <1>0, <1>3, EmptyHolds DEF Placed, In
  <1> QED
    BY <1>0, <1>1, <1>2, <1>4 DEF Types, Stages

\* When the clean workers have been waited for too, nothing is left on disk.
LEMMA AbsentAtEnd ==
    ASSUME IInv, mainPc \in {"report", "done"}, NEW r \in HttpGit
    PROVE  Dir(r) = "absent"
  <1>1. cleanCh = <<>> /\ cleaning = {}
    BY DEF IInv, Closed
  <1>2. ASSUME NEW s \in HttpGit
        PROVE  Removed(s)
    <2>1. stage[s] \in FinalStages
      BY AllResolvedAtEnd
    <2>2. SitesOf(cleanCh) = {}
      BY <1>1 DEF SitesOf
    <2> QED
      BY <1>1, <2>1, <2>2 DEF Removed, FinalStages, Processed
  <1> QED
    BY <1>2 DEF IInv, RemovalPending

\* The main goroutine waits for a stage, and closes the channel it fed.
LEMMA WaitSteps ==
    ASSUME IInv, CloseFetch \/ CloseParse \/ CloseClean \/ CleanDone
    PROVE  IInv'
  <1> USE ListOfRepos
  <1>0. Types /\ FedInOrder /\ Placed /\ Closed /\ ErrorsRecorded /\ OwnCheckoutWhole /\ RemovalPending
    BY DEF IInv
  <1>1. /\ mainPc' \in {"fetchWait", "parseWait", "cleanWait", "report"}
        /\ UNCHANGED <<fed, fetchCh, parseCh, cleanCh, stage, inMemory, disk, cleaning>>
        /\ UNCHANGED <<continueOnError, allSites, pipelineErr, published, result>>
    BY DEF CloseFetch, CloseParse, CloseClean, CleanDone, MoveTo, chans, files, sites
  <1>2. Types' /\ Placed' /\ ErrorsRecorded' /\ OwnCheckoutWhole' /\ RemovalPending'
    BY <1>0, <1>1 DEF Types, Placed, ErrorsRecorded, OwnCheckoutWhole, RemovalPending, Removed, In, Dir
  <1>3. FedInOrder'
    BY <1>0, <1>1 DEF FedInOrder, CloseFetch, CloseParse, CloseClean, CleanDone, MoveTo
  <1>4. Closed'
    <2>1. UNCHANGED <<In(FetchStages), In(ParseStages)>>
      BY <1>1 DEF In
    <2>2. result = "running"
      BY <1>0 DEF Closed, CloseFetch, CloseParse, CloseClean, CleanDone
    <2>3. CASE CloseFetch
      BY <1>0, <1>1, <2>1, <2>2, <2>3 DEF Closed, NoSendOnClosedChannel, CloseFetch, MoveTo
    <2>4. CASE CloseParse
      BY <1>0, <1>1, <2>1, <2>2, <2>4 DEF Closed, NoSendOnClosedChannel, CloseParse, MoveTo
    <2>5. CASE CloseClean
      BY <1>0, <1>1, <2>1, <2>2, <2>5 DEF Closed, NoSendOnClosedChannel, CloseClean, MoveTo
    <2>6. CASE CleanDone
      BY <1>0, <1>1, <2>1, <2>2, <2>6 DEF Closed, NoSendOnClosedChannel, CleanDone, MoveTo
    <2> QED
      BY <2>3, <2>4, <2>5, <2>6
  <1> QED
    BY <1>2, <1>3, <1>4 DEF IInv

\* The command decides its result, and the temporary directory is removed.
LEMMA ReturnSteps ==
    ASSUME IInv, ReturnError \/ Generate
    PROVE  IInv'
  <1> USE ListOfRepos
  <1>0. Types /\ FedInOrder /\ Placed /\ Closed /\ ErrorsRecorded /\ OwnCheckoutWhole /\ RemovalPending
    BY DEF IInv
  <1>1. /\ mainPc = "report" /\ mainPc' = "done"
        /\ result' \in {"fetchError", "generated", "generateError"}
        /\ disk' = IF Persistent THEN disk ELSE NoDirs
        /\ UNCHANGED <<fed, fetchCh, parseCh, cleanCh, stage, inMemory, cleaning>>
        /\ UNCHANGED <<continueOnError, allSites, pipelineErr>>
    BY DEF ReturnError, Generate, Return, chans
  <1>2. Types'
    <2>1. NoDirs \in [Names -> DirStates]
      BY DEF NoDirs, DirStates
    <2> QED
      BY <1>0, <1>1, <2>1 DEF Types
  <1>3. FedInOrder' /\ Placed' /\ ErrorsRecorded'
    BY <1>0, <1>1 DEF FedInOrder, Placed, ErrorsRecorded, In
  <1>4. Closed'
    BY <1>0, <1>1 DEF Closed, NoSendOnClosedChannel, In
  <1>5. OwnCheckoutWhole'
    <2>1. \A r \in HttpGit : stage[r] \in FinalStages
      BY <1>1, AllResolvedAtEnd
    <2>2. \A r \in Repos : stage[r] \notin CheckedOut
      BY <1>0, <2>1 DEF FedInOrder, CheckedOut, FinalStages
    <2> QED
      BY <1>1, <2>2 DEF OwnCheckoutWhole, In
  <1>6. RemovalPending'
    <2>1. \A r \in HttpGit : Dir(r)' = "absent"
      BY <1>1, AbsentAtEnd DEF Dir, NoDirs
    <2> QED
      BY <2>1 DEF RemovalPending
  <1> QED
    BY <1>2, <1>3, <1>4, <1>5, <1>6 DEF IInv

-----------------------------------------------------------------------------
\* The initial states.
LEMMA InitIInv == Init => IInv
  <1> SUFFICES ASSUME Init PROVE IInv
    OBVIOUS
  <1> USE ListOfRepos
  <1>1. \A S : "listed" \notin S => In(S) = {}
    BY DEF Init, In
  <1>2. Types
    BY DEF Init, Types, Stages, InitialDisks, DirStates
  <1>3. FedInOrder
    BY DEF Init, FedInOrder
  <1>4. Placed
    <2>1. /\ In({"fetchQueue"}) = {} /\ In({"parseQueue"}) = {} /\ In({"site"}) = {}
          /\ fetchCh = <<>> /\ parseCh = <<>> /\ cleanCh = <<>> /\ allSites = <<>>
          /\ cleaning = {}
      BY <1>1 DEF Init
    <2>2. <<>> \in Seq({}) /\ SitesOf(<<>>) = {}
      BY DEF SitesOf
    <2> QED
      BY <2>1, <2>2, EmptyHolds DEF Placed
  <1>5. Closed /\ ErrorsRecorded
    BY <1>1 DEF Init, Closed, NoSendOnClosedChannel, ErrorsRecorded
  <1>6. OwnCheckoutWhole
    BY <1>1 DEF OwnCheckoutWhole, CheckedOut
  <1>7. RemovalPending
    BY DEF Init, RemovalPending, Removed, Processed
  <1> QED
    BY <1>2, <1>3, <1>4, <1>5, <1>6, <1>7 DEF IInv

\* Admission changes nothing but the state of the memory manager.
LEMMA OtherSteps ==
    ASSUME IInv, UNCHANGED vars \/ \E r \in Repos : AcquireMemory(r)
    PROVE  IInv'
  <1>1. /\ UNCHANGED <<mainPc, fed, fetchCh, parseCh, cleanCh, stage, inMemory, disk, cleaning>>
        /\ UNCHANGED <<continueOnError, allSites, pipelineErr, published, result>>
    BY DEF vars, AcquireMemory, chans, files, sites
  <1> QED
    BY <1>1 DEF IInv, Types, FedInOrder, Placed, Closed, NoSendOnClosedChannel, ErrorsRecorded,
                OwnCheckoutWhole, RemovalPending, Removed, In, Dir

\* Every step.
LEMMA NextIInv == IInv /\ [Next]_vars => IInv'
  <1> SUFFICES ASSUME IInv, [Next]_vars PROVE IInv'
    OBVIOUS
  <1>1. CASE Main
    BY <1>1, FeedSteps, WaitSteps, ReturnSteps DEF Main
  <1>2. ASSUME NEW r \in Repos, Fetch(r)
        PROVE  IInv'
    BY <1>2, TakeFetchStep, FetchingSteps, SendParseStep DEF Fetch
  <1>3. ASSUME NEW r \in Repos, Parse(r)
        PROVE  IInv'
    BY <1>3, TakeParseStep, OtherSteps, ParseRepoStep, SendCleanStep, AppendSiteStep DEF Parse
  <1>4. ASSUME NEW r \in Repos, Clean(r)
        PROVE  IInv'
    BY <1>4, TakeCleanStep, RemoveRepoStep DEF Clean
  <1>5. CASE UNCHANGED vars
    BY <1>5, OtherSteps
  <1> QED
    BY <1>1, <1>2, <1>3, <1>4, <1>5 DEF Next, Returned

-----------------------------------------------------------------------------
\* The invariant, for every instance.
THEOREM SpecIInv == Spec => []IInv
  BY InitIInv, NextIInv, PTL DEF Spec

\* No worker ever sends on a closed channel, and none is still busy when the
\* main goroutine has waited for its stage.
THEOREM ChannelsSafe == Spec => []NoSendOnClosedChannel
  <1>1. IInv => NoSendOnClosedChannel
    BY DEF IInv, Closed
  <1> QED
    BY <1>1, SpecIInv, PTL

\* A parser of a directory of its own sees a whole checkout.
UnsharedCheckoutWhole ==
    \A r \in In({"parsing"}) \ inMemory : Alone(r) => Dir(r) = "whole"

\* A repository that shares its directory with no other is parsed from a
\* whole checkout, which nobody is writing, updating or removing.
THEOREM UnsharedParse == Spec => []UnsharedCheckoutWhole
  <1>1. IInv => UnsharedCheckoutWhole
    BY DEF IInv, OwnCheckoutWhole, UnsharedCheckoutWhole, In, CheckedOut
  <1> QED
    BY <1>1, SpecIInv, PTL

\* So where the names of the list are distinct, every parser sees a whole
\* checkout.  The code does not check that they are: two repositories of one
\* name would be fetched into one directory.
THEOREM ParserSafe ==
    ASSUME \A r \in HttpGit : Alone(r)
    PROVE  Spec => []ParserSeesWholeCheckout
  <1>1. IInv => ParserSeesWholeCheckout
    <2> SUFFICES ASSUME IInv, NEW r \in Repos, stage[r] = "parsing", r \notin inMemory
                 PROVE  Dir(r) = "whole"
      BY DEF ParserSeesWholeCheckout, In
    <2>1. r \in HttpGit
      BY OnItsWay DEF IInv
    <2> QED
      BY <2>1 DEF IInv, OwnCheckoutWhole, In, CheckedOut
  <1> QED
    BY <1>1, SpecIInv, PTL

\* When the command decides its result nobody is still deleting and, in
\* temporary mode, no checkout is left, even if repositories of one name were
\* fetched over each other.
THEOREM CheckoutsGone == Spec => []CheckoutsRemoved
  <1>1. IInv => CheckoutsRemoved
    BY AbsentAtEnd DEF IInv, Closed, CheckoutsRemoved
  <1> QED
    BY <1>1, SpecIInv, PTL

-----------------------------------------------------------------------------
(* The pipeline implements SiteGeneration.                                 *)

\* A worker that moves a repository to another stage either resolves it, for
\* the first time, or changes no outcome.
LEMMA MoveRefines ==
    ASSUME IInv, NEW r \in HttpGit, NEW s \in Stages, Goto(r, s),
           mainPc # "done",
           UNCHANGED <<continueOnError, result, published>>,
           Outcome(stage[r]) \in {"pending", Outcome(s)},
           Outcome(s) \in {"pending"} \cup Promise!Outcomes
    PROVE  [Promise!Next]_(Promise!vars)
  <1>0. r \in Repos /\ Types /\ result = "running"
    BY ListOfRepos DEF IInv, Closed
  <1>1. /\ stage'[r] = s
        /\ \A q \in HttpGit : q # r => stage'[q] = stage[q]
    BY <1>0, GotoIn, ListOfRepos
  <1> DEFINE outcome == [q \in HttpGit |-> Outcome(stage[q])]
  <1>2. /\ outcome'[r] = Outcome(s)
        /\ \A q \in HttpGit : q # r => outcome'[q] = outcome[q]
    BY <1>1
  <1>3. outcome' = [outcome EXCEPT ![r] = Outcome(s)]
    BY <1>2
  <1>4. CASE Outcome(s) = Outcome(stage[r])
    <2>1. outcome' = outcome
      BY <1>2, <1>4
    <2> QED
      BY <2>1 DEF Promise!vars
  <1>5. CASE Outcome(s) # Outcome(stage[r])
    <2>1. outcome[r] = "pending" /\ Outcome(s) \in Promise!Outcomes
      BY <1>5
    <2>2. Promise!Resolve(r)
      BY <1>0, <1>3, <2>1 DEF Promise!Resolve
    <2> QED
      BY <2>2 DEF Promise!Next
  <1> QED
    BY <1>4, <1>5

\* A worker receives a repository whose stage says that it waits there.
LEMMA TakeStages ==
    ASSUME IInv, NEW r \in Repos
    PROVE  /\ TakeFetch(r) => stage[r] = "fetchQueue" /\ mainPc # "done"
           /\ TakeParse(r) => stage[r] = "parseQueue" /\ mainPc # "done"
  <1>0. /\ fetchCh \in Seq(HttpGit) /\ Holds(fetchCh, In({"fetchQueue"}))
        /\ parseCh \in Seq(HttpGit) /\ Holds(parseCh, In({"parseQueue"}))
    BY DEF IInv, Types, Placed
  <1>1. ASSUME TakeFetch(r)
        PROVE  stage[r] = "fetchQueue" /\ mainPc # "done"
    <2>1. r \in In({"fetchQueue"})
      BY <1>0, <1>1, ReceiveHolds DEF TakeFetch
    <2> QED
      BY <1>1, <2>1 DEF TakeFetch, In, IInv, Closed, NoSendOnClosedChannel
  <1>2. ASSUME TakeParse(r)
        PROVE  stage[r] = "parseQueue" /\ mainPc # "done"
    <2>1. r \in In({"parseQueue"})
      BY <1>0, <1>2, ReceiveHolds DEF TakeParse
    <2> QED
      BY <1>2, <2>1 DEF TakeParse, In, IInv, Closed, NoSendOnClosedChannel
  <1> QED
    BY <1>1, <1>2

\* The steps of the workers.
LEMMA WorkersRefine ==
    ASSUME IInv, NEW r \in Repos, Fetch(r) \/ Parse(r) \/ Clean(r)
    PROVE  [Promise!Next]_(Promise!vars)
  <1>1. UNCHANGED <<continueOnError, result, published>>
    BY DEF Fetch, TakeFetch, FetchInMemory, FetchRepoStarts, FetchRepoSucceeds, FetchRepoFails,
           Discard, SendParse, Parse, TakeParse, AcquireMemory, ParseRepo, SendClean, AppendSite,
           Clean, TakeClean, RemoveRepo, sites
  <1>2. CASE UNCHANGED stage
    BY <1>1, <1>2 DEF Promise!vars
  <1>3. ASSUME NEW s \in Stages, Goto(r, s), stage[r] # "listed", mainPc # "done",
               Outcome(stage[r]) \in {"pending", Outcome(s)}
        PROVE  [Promise!Next]_(Promise!vars)
    <2>1. r \in HttpGit
      BY <1>3, OnItsWay DEF IInv
    <2>2. Outcome(s) \in {"pending"} \cup Promise!Outcomes
      BY DEF Outcome, Promise!Outcomes
    <2> QED
      BY <1>1, <1>3, <2>1, <2>2, MoveRefines
  <1>4. stage[r] \in FetchStages \cup ParseStages => mainPc # "done"
    BY BusyOpen
  <1>5. CASE TakeFetch(r)
    BY <1>3, <1>5, TakeStages DEF TakeFetch, Stages, FetchStages, Outcome
  <1>6. CASE TakeParse(r)
    BY <1>3, <1>6, TakeStages DEF TakeParse, Stages, ParseStages, Outcome
  <1>7. CASE FetchInMemory(r) \/ FetchRepoStarts(r) \/ FetchRepoSucceeds(r)
                \/ FetchRepoFails(r) \/ Discard(r) \/ SendParse(r)
    BY <1>3, <1>4, <1>7 DEF FetchInMemory, FetchRepoStarts, FetchRepoSucceeds, FetchRepoFails,
           Discard, SendParse, Stages, FetchStages, FinalStages, Outcome
  <1>8. CASE ParseRepo(r) \/ SendClean(r) \/ AppendSite(r)
    BY <1>3, <1>4, <1>8 DEF ParseRepo, SendClean, AppendSite, Stages, ParseStages, FinalStages,
           Outcome
  <1>9. CASE AcquireMemory(r) \/ TakeClean(r) \/ RemoveRepo(r)
    BY <1>2, <1>9 DEF AcquireMemory, TakeClean, RemoveRepo
  <1> QED
    BY <1>5, <1>6, <1>7, <1>8, <1>9 DEF Fetch, Parse, Clean

\* The steps of the main goroutine: the last one returns what the outcomes
\* demand, the others change none.
LEMMA MainRefines ==
    ASSUME IInv, Main
    PROVE  [Promise!Next]_(Promise!vars)
  <1>1. CASE Skip \/ CloseFetch \/ CloseParse \/ CloseClean \/ CleanDone
    <2>1. UNCHANGED <<stage, continueOnError, result, published>>
      BY <1>1 DEF Skip, CloseFetch, CloseParse, CloseClean, CleanDone, MoveTo, sites
    <2> QED
      BY <2>1 DEF Promise!vars
  <1>2. CASE Feed
    <2>1. PICK r \in HttpGit : r = fed + 1
      BY <1>2 DEF Feed
    <2>2. /\ stage[r] = "listed" /\ Goto(r, "fetchQueue") /\ mainPc = "feed"
          /\ UNCHANGED <<continueOnError, result, published>>
      BY <1>2, <2>1, ListOfRepos DEF Feed, Goto, sites, IInv, Types, FedInOrder
    <2> QED
      BY <2>2, MoveRefines DEF Stages, Outcome
  <1>3. CASE ReturnError \/ Generate
    <2> DEFINE outcome == [q \in HttpGit |-> Outcome(stage[q])]
    <2>0. /\ mainPc = "report" /\ result = "running" /\ UNCHANGED <<stage, continueOnError>>
          /\ outcome' = outcome
      BY <1>3 DEF ReturnError, Generate, Return, IInv, Closed
    <2>1. \A r \in HttpGit : stage[r] \in FinalStages
      BY <2>0, AllResolvedAtEnd
    <2>2. Promise!AllResolved
      BY <2>0, <2>1 DEF Promise!AllResolved, Promise!Resolved, Outcome, FinalStages
    <2>3. In({"failing", "fetchFailed"}) = Promise!Resolved("fetchFailed")
      BY <2>1, ListOfRepos, OnItsWay
         DEF Promise!Resolved, Outcome, FinalStages, In, IInv, FedInOrder
    <2>4. pipelineErr # {} <=> ~continueOnError /\ Promise!Resolved("fetchFailed") # {}
      BY <2>3 DEF IInv, ErrorsRecorded
    <2>5. CASE ReturnError
      BY <2>0, <2>2, <2>4, <2>5 DEF ReturnError, Return, Promise!FetchError, Promise!Next
    <2>6. CASE Generate
      <3>1. SitesOf(allSites) = In({"site"})
        BY HeldSites DEF IInv, Types, Placed
      <3>2. In({"site"}) = Promise!Resolved("site")
        BY <2>1, ListOfRepos, OnItsWay DEF Promise!Resolved, Outcome, FinalStages, In, IInv, FedInOrder
      <3>3. published' \in Promise!SortedByName(Promise!Resolved("site"))
        <4>1. \A S : Promise!Cardinality(S) = Cardinality(S)
          BY DEF Cardinality, Promise!Cardinality
        <4>2. \A S : Promise!SortedByName(S) = SortedByName(S)
          BY <4>1 DEF SortedByName, Promise!SortedByName
        <4> QED
          BY <2>6, <3>1, <3>2, <4>2 DEF Generate
      <3>4. result' \in {"generated", "generateError"} /\ pipelineErr = {}
        BY <2>6 DEF Generate, Return
      <3>5. Promise!Generate
        BY <2>0, <2>2, <2>4, <3>3, <3>4 DEF Promise!Generate, IInv, Types
      <3> QED
        BY <3>5 DEF Promise!Next
    <2> QED
      BY <1>3, <2>5, <2>6
  <1> QED
    BY <1>1, <1>2, <1>3 DEF Main

\* Every run of the pipeline, whatever the order of its workers, resolves each
\* repository once, to the outcome it keeps, ends only when all are resolved,
\* fails exactly when a failed fetch counts, and publishes exactly the parsed
\* sites in the order of their names.
THEOREM PipelineKeepsPromise == Spec => Promise!Init /\ [][Promise!Next]_(Promise!vars)
  <1>1. Init => Promise!Init
    BY ListOfRepos DEF Init, Promise!Init, Outcome
  <1>2. IInv /\ [Next]_vars => [Promise!Next]_(Promise!vars)
    <2> SUFFICES ASSUME IInv, [Next]_vars PROVE [Promise!Next]_(Promise!vars)
      OBVIOUS
    <2>1. CASE UNCHANGED vars
      BY <2>1 DEF vars, sites, Promise!vars
    <2> QED
      BY <2>1, WorkersRefine, MainRefines DEF Next, Returned
  <1> QED
    BY <1>1, <1>2, SpecIInv, PTL DEF Spec

-----------------------------------------------------------------------------
(* The pipeline and the memory manager.                                    *)

\* The stages of a repository that parseRepo has returned from.
ParsedStages == {"parsed", "unparsable"} \cup Processed

\* A repository asks for admission when a parse worker has it, and has been
\* released when the parser has returned.
AdmissionFollows ==
    \A r \in Repos :
        /\ stage[r] \in ParsedStages <=> admission[r] = "released"
        /\ stage[r] \notin {"parsing"} \cup ParsedStages => admission[r] = "calling"

\* What the manager relies on.
LEMMA MemoryConstants == Memory!ConstantsAssumption
  <1>1. IsFiniteSet(1..Len(RepoName))
    BY ListOfRepos, FS_Interval
  <1>2. \A S : Memory!IsFiniteSet(S) <=> IsFiniteSet(S)
    BY DEF Memory!IsFiniteSet, IsFiniteSet
  <1> QED
    BY <1>1, <1>2, ListOfRepos, MemoryAssumption DEF Memory!ConstantsAssumption

\* The pipeline calls the manager's operations and leaves its state alone
\* otherwise.
LEMMA CallsMemory ==
    ASSUME [Next]_vars
    PROVE  [Memory!Next]_(Memory!vars)
  <1>1. ASSUME NEW r \in Repos, AcquireMemory(r)
        PROVE  Memory!Acquire(r)
    BY <1>1 DEF AcquireMemory, MM!Acquire, MM!Enter, MM!Refuse, MM!ReadFails, MM!AtLoopTop,
           MM!CanEnter, MM!CondWait, Memory!Acquire, Memory!Enter, Memory!Refuse,
           Memory!ReadFails, Memory!AtLoopTop, Memory!CanEnter, Memory!CondWait
  <1>2. ASSUME NEW r \in Repos, ParseRepo(r)
        PROVE  Memory!Release(r)
    BY <1>2 DEF ParseRepo, MM!Release, MM!Less, MM!WakeOldest, Memory!Release, Memory!Less,
           Memory!WakeOldest
  <1>3. CASE UNCHANGED mm
    BY <1>3 DEF mm, Memory!vars
  <1>4. CASE ~(UNCHANGED mm) /\ Next
    <2>1. \E r \in Repos : AcquireMemory(r) \/ ParseRepo(r)
      BY <1>4 DEF Next, Main, Skip, Feed, CloseFetch, CloseParse, CloseClean, CleanDone, MoveTo,
             ReturnError, Generate, Return, Fetch, TakeFetch, FetchInMemory, FetchRepoStarts,
             FetchRepoSucceeds, FetchRepoFails, Discard, SendParse, Parse, TakeParse, SendClean,
             AppendSite, Clean, TakeClean, RemoveRepo, Returned, vars
    <2> QED
      BY <1>1, <1>2, <2>1 DEF Memory!Next
  <1>5. UNCHANGED vars => UNCHANGED mm
    BY DEF vars
  <1> QED
    BY <1>3, <1>4, <1>5

\* The pipeline is a run of the memory manager, with the repositories for its
\* clients.
THEOREM PipelineRunsMemory == Spec => Memory!Spec
  <1>1. Init => Memory!Init
    BY DEF Init, MM!Init, Memory!Init
  <1>2. [Next]_vars => [Memory!Next]_(Memory!vars)
    BY CallsMemory
  <1> QED
    BY <1>1, <1>2, PTL DEF Spec, Memory!Spec

\* A step that leaves the manager alone moves at most one repository, and over
\* neither end of its parse.
LEMMA MoveFollows ==
    ASSUME Types, AdmissionFollows, UNCHANGED admission, NEW r \in Repos, NEW s \in Stages, Goto(r, s),
           stage[r] \in ParsedStages <=> s \in ParsedStages,
           stage[r] = "parsing" => s = "parsing"
    PROVE  AdmissionFollows'
  BY GotoIn DEF AdmissionFollows

\* Every step keeps admissions and stages together.
LEMMA NextFollows ==
    ASSUME IInv, Memory!IInv, AdmissionFollows, [Next]_vars
    PROVE  AdmissionFollows'
  <1>0. Types
    BY DEF IInv
  <1>1. CASE UNCHANGED <<stage, admission>>
    BY <1>1 DEF AdmissionFollows
  <1>2. ASSUME NEW r \in Repos, AcquireMemory(r)
        PROVE  AdmissionFollows'
    <2>1. Memory!Acquire(r) /\ stage[r] = "parsing" /\ UNCHANGED stage
      BY <1>2 DEF AcquireMemory, MM!Acquire, MM!Enter, MM!Refuse, MM!ReadFails, MM!AtLoopTop,
             MM!CanEnter, MM!CondWait, Memory!Acquire, Memory!Enter, Memory!Refuse,
             Memory!ReadFails, Memory!AtLoopTop, Memory!CanEnter, Memory!CondWait
    <2>2. /\ admission'[r] \in {"active", "asleep", "unread"}
          /\ \A q \in Repos : q # r => admission'[q] = admission[q]
      BY <2>1, MemoryConstants, Memory!AcquireMoves
    <2> QED
      BY <2>1, <2>2 DEF AdmissionFollows, ParsedStages, Processed
  <1>3. ASSUME NEW r \in Repos, ParseRepo(r)
        PROVE  AdmissionFollows'
    <2>1. Memory!Release(r)
      BY <1>3 DEF ParseRepo, MM!Release, MM!Less, MM!WakeOldest, Memory!Release, Memory!Less,
             Memory!WakeOldest
    <2>2. PICK s \in {"parsed", "unparsable"} : Goto(r, s)
      BY <1>3 DEF ParseRepo
    <2>3. stage'[r] = s /\ \A q \in Repos : q # r => stage'[q] = stage[q]
      BY <1>0, <2>2, GotoIn DEF Stages, ParseStages
    <2>4. /\ admission'[r] = "released"
          /\ \A q \in Repos : q # r =>
                admission'[q] = admission[q]
                \/ (admission[q] \in Memory!Waiting /\ admission'[q] = "woken")
      BY <2>1, MemoryConstants, Memory!ReleaseMoves
    <2>5. \A q \in Repos : admission[q] \in Memory!Waiting => stage[q] = "parsing"
      BY DEF AdmissionFollows, Memory!Waiting
    <2> QED
      BY <2>3, <2>4, <2>5 DEF AdmissionFollows, ParsedStages, Processed
  <1>4. CASE Feed
    <2>1. PICK r \in HttpGit : r = fed + 1
      BY <1>4 DEF Feed
    <2>2. r \in Repos /\ stage[r] = "listed" /\ Goto(r, "fetchQueue") /\ UNCHANGED admission
      BY <1>4, <2>1, ListOfRepos DEF Feed, Goto, mm, IInv, Types, FedInOrder
    <2> QED
      BY <1>0, <2>2, MoveFollows DEF Stages, ParsedStages, Processed
  <1>5. ASSUME NEW r \in Repos, TakeFetch(r) \/ TakeParse(r)
        PROVE  AdmissionFollows'
    <2>1. CASE TakeFetch(r)
      BY <1>0, <2>1, TakeStages, MoveFollows
         DEF TakeFetch, mm, Stages, FetchStages, ParsedStages, Processed
    <2>2. CASE TakeParse(r)
      BY <1>0, <2>2, TakeStages, MoveFollows
         DEF TakeParse, mm, Stages, ParseStages, ParsedStages, Processed
    <2> QED
      BY <1>5, <2>1, <2>2
  <1>6. ASSUME NEW r \in Repos,
               \/ FetchInMemory(r) \/ FetchRepoStarts(r) \/ FetchRepoSucceeds(r)
               \/ FetchRepoFails(r) \/ Discard(r) \/ SendParse(r)
        PROVE  AdmissionFollows'
    <2>1. PICK s \in FetchStages \cup {"fetchFailed", "parseQueue"} : Goto(r, s)
      BY <1>6 DEF FetchInMemory, FetchRepoStarts, FetchRepoSucceeds, FetchRepoFails, Discard,
             SendParse, FetchStages
    <2>2. stage[r] \in FetchStages /\ UNCHANGED admission
      BY <1>6 DEF FetchInMemory, FetchRepoStarts, FetchRepoSucceeds, FetchRepoFails, Discard,
             SendParse, FetchStages, mm
    <2> QED
      BY <1>0, <2>1, <2>2, MoveFollows DEF Stages, FetchStages, FinalStages, ParsedStages, Processed
  <1>7. ASSUME NEW r \in Repos, SendClean(r) \/ AppendSite(r)
        PROVE  AdmissionFollows'
    <2>1. PICK s \in {"appending", "parseFailed", "site"} : Goto(r, s)
      BY <1>7 DEF SendClean, AppendSite
    <2>2. stage[r] \in {"parsed", "unparsable", "appending"} /\ UNCHANGED admission
      BY <1>7 DEF SendClean, AppendSite, mm
    <2> QED
      BY <1>0, <2>1, <2>2, MoveFollows DEF Stages, ParseStages, FinalStages, ParsedStages, Processed
  <1>8. CASE \/ Skip \/ CloseFetch \/ CloseParse \/ CloseClean \/ CleanDone \/ ReturnError \/ Generate
             \/ Returned \/ UNCHANGED vars
             \/ \E r \in Repos : Clean(r)
    <2>1. UNCHANGED <<stage, admission>>
      BY <1>8 DEF Skip, CloseFetch, CloseParse, CloseClean, CleanDone, MoveTo, ReturnError, Generate,
             Return, Returned, Clean, TakeClean, RemoveRepo, vars, mm
    <2> QED
      BY <1>1, <2>1
  <1> QED
    BY <1>2, <1>3, <1>4, <1>5, <1>6, <1>7, <1>8 DEF Next, Main, Fetch, Parse

\* So all that the manager guarantees holds in the pipeline: the reservations
\* are those of the parses in progress, a second parse is admitted only into
\* memory that is free, and no sleeper is forgotten.
THEOREM MemoryKeptInPipeline ==
    Spec => [](MM!ReservationsExact /\ MM!NoOvercommit /\ MM!SleepersHaveAWaker)
  <1>1. /\ Memory!ReservationsExact <=> MM!ReservationsExact
        /\ Memory!NoOvercommit <=> MM!NoOvercommit
        /\ Memory!SleepersHaveAWaker <=> MM!SleepersHaveAWaker
    <2>1. \A S : Memory!Cardinality(S) = MM!Cardinality(S)
      BY DEF Memory!Cardinality, MM!Cardinality
    <2> QED
      BY <2>1 DEF Memory!ReservationsExact, MM!ReservationsExact, Memory!Active, MM!Active,
             Memory!NoOvercommit, MM!NoOvercommit, Memory!SleepersHaveAWaker, MM!SleepersHaveAWaker
  <1> QED
    BY <1>1, PipelineRunsMemory, MemoryConstants, Memory!ReservationsCorrect,
       Memory!OvercommitFree, Memory!NoLostWakeup, PTL

\* What was reserved has been given back when the parse workers are done.
MemoryReturned ==
    mainPc \in {"cleanWait", "report", "done"} => activeTasks = 0 /\ reserved = 0 /\ sleepers = <<>>

\* No admission outlives its parse, not even for repositories that could not
\* be parsed.
THEOREM NothingStaysReserved == Spec => []MemoryReturned
  <1>1. Init => AdmissionFollows
    BY DEF Init, MM!Init, AdmissionFollows, ParsedStages, Processed
  <1>2. IInv /\ Memory!IInv /\ AdmissionFollows /\ [Next]_vars => AdmissionFollows'
    BY NextFollows
  <1>3. IInv /\ Memory!IInv /\ AdmissionFollows => MemoryReturned
    <2> SUFFICES ASSUME IInv, Memory!IInv, AdmissionFollows,
                        mainPc \in {"cleanWait", "report", "done"}
                 PROVE  activeTasks = 0 /\ reserved = 0 /\ sleepers = <<>>
      BY DEF MemoryReturned
    <2>1. \A r \in Repos : stage[r] # "parsing"
      BY DEF IInv, Closed, NoSendOnClosedChannel, In, ParseStages
    <2>2. \A r \in Repos : admission[r] \in {"calling", "released"}
      BY <2>1 DEF AdmissionFollows
    <2> QED
      BY <2>2, MemoryConstants, Memory!IdleAtRest
  <1>4. Spec => []Memory!IInv
    BY PipelineRunsMemory, MemoryConstants, Memory!SpecIInv, PTL
  <1> QED
    BY <1>1, <1>2, <1>3, <1>4, SpecIInv, PTL DEF Spec
=============================================================================
