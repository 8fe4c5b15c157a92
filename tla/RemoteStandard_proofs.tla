------------------------ MODULE RemoteStandard_proofs ------------------------
(***************************************************************************)
(* The safety of the standard mode for every list of repositories and      *)
(* every limit of the errgroup, that it implements the safety part of      *)
(* SiteGeneration, and that it is a run of the memory manager.             *)
(***************************************************************************)
EXTENDS RemoteStandard, FiniteSetTheorems, TLAPS

\* The memory manager with its theorems; the repositories are its clients.
Memory == INSTANCE MemoryManager_proofs WITH Clients <- Repos, phase <- admission

\* The sequence ch holds every element of S, each once, and nothing else.
Holds(ch, S) ==
    /\ \A i \in 1..Len(ch) : ch[i] \in S
    /\ \A i, j \in 1..Len(ch) : ch[i] = ch[j] => i = j
    /\ \A r \in S : \E i \in 1..Len(ch) : ch[i] = r

\* No other repository is checked out under the name of r.
Alone(r) == \A s \in HttpGit : RepoName[s] = RepoName[r] => s = r

\* The types of everything but the memory manager's state.
Types ==
    /\ continueOnError \in BOOLEAN
    /\ mainPc \in {"launch", "wait", "report", "done"}
    /\ launched \in 0..Len(RepoName)
    /\ stage \in [Repos -> Stages]
    /\ inMemory \subseteq HttpGit
    /\ disk \in [Names -> DirStates]
    /\ allSites \in Seq(HttpGit)
    /\ result \in {"running", "fetchError", "generated", "generateError"}

\* Exactly the repositories with an http source that the loop has reached
\* have a goroutine, and all have one when the loop is over.
LaunchedInOrder ==
    /\ \A r \in HttpGit : stage[r] = "listed" <=> r > launched
    /\ \A r \in Repos \ HttpGit : stage[r] = "listed"
    /\ mainPc # "launch" => launched = Len(RepoName)

\* No goroutine runs once the group has been waited for.
Awaited ==
    /\ mainPc \in {"report", "done"} => In(RunningStages) = {}
    /\ result = "running" <=> mainPc # "done"

\* The parsed sites are those of the goroutines that have appended theirs.
SitesAppended == Holds(allSites, In({"leaveSite", "site"}))

\* The group has an error when a goroutine has returned one.
ErrorsRecorded == groupErr # {} <=> ~continueOnError /\ In({"fetchFailed"}) # {}

\* A parser that shares its directory with nobody reads a whole checkout.
OwnCheckoutWhole ==
    \A r \in In({"parsing"}) \ inMemory : Alone(r) => Dir(r) = "whole"

\* A directory that is there will still be removed by a goroutine that has
\* not returned, be it of another repository of the same name.
RemovalPending ==
    \A r \in HttpGit :
        Dir(r) # "absent" =>
            \E s \in HttpGit : RepoName[s] = RepoName[r] /\ stage[s] \notin FinalStages

\* The inductive invariant.
IInv ==
    /\ Types /\ LaunchedInOrder /\ Awaited /\ SitesAppended /\ ErrorsRecorded
    /\ OwnCheckoutWhole /\ RemovalPending

-----------------------------------------------------------------------------
\* The list has a name for every number up to its length.
LEMMA ListOfRepos ==
    /\ RepoName \in Seq(Nat) /\ Repos = 1..Len(RepoName) /\ Len(RepoName) \in Nat
    /\ HttpGit \subseteq Repos
    /\ \A r \in Repos : RepoName[r] \in Names
  BY RemoteAssumption DEF Repos, Names

\* A send, or the append to the list of the sites, puts one more element
\* behind the others.
LEMMA SendHolds ==
    ASSUME NEW T, NEW ch \in Seq(T), NEW S, Holds(ch, S), NEW e \in T, e \notin S
    PROVE  /\ Append(ch, e) \in Seq(T)
           /\ Len(Append(ch, e)) = Len(ch) + 1
           /\ Holds(Append(ch, e), S \cup {e})
  BY DEF Holds

\* Nothing is held by the empty sequence.
LEMMA EmptyHolds == Holds(<<>>, {}) /\ \A S : Holds(<<>>, S) => S = {}
  BY DEF Holds

\* What a sequence holds are its elements.
LEMMA HeldSites ==
    ASSUME NEW T, NEW ch \in Seq(T), NEW S, Holds(ch, S)
    PROVE  SitesOf(ch) = S
  BY DEF Holds, SitesOf

-----------------------------------------------------------------------------
(* Stages and directories.                                                 *)

\* A repository that goes to another stage leaves all the sets of stages that
\* do not have the new one and enters those that have it.
LEMMA GotoIn ==
    ASSUME Types, NEW r \in Repos, NEW s \in Stages, Goto(r, s)
    PROVE  /\ stage' \in [Repos -> Stages]
           /\ stage'[r] = s
           /\ \A q \in Repos : q # r => stage'[q] = stage[q]
           /\ \A S : s \in S => In(S)' = In(S) \cup {r}
           /\ \A S : s \notin S /\ stage[r] \notin S => In(S)' = In(S)
           /\ \A S : s \in S /\ stage[r] \in S => In(S)' = In(S)
  BY DEF Types, Goto, In

\* Writing or removing a directory changes it for all who share its name.
LEMMA SetDirDisk ==
    ASSUME Types, NEW r \in Repos, NEW d \in DirStates, SetDir(r, d)
    PROVE  /\ disk' \in [Names -> DirStates]
           /\ \A q \in Repos : Dir(q)' = IF RepoName[q] = RepoName[r] THEN d ELSE Dir(q)
  BY ListOfRepos DEF Types, SetDir, Dir

\* Only repositories with an http source get a goroutine, and the group has
\* not been waited for while one runs.
LEMMA Running ==
    ASSUME IInv, NEW r \in Repos, stage[r] \in RunningStages
    PROVE  r \in HttpGit /\ ~(r > launched) /\ mainPc \in {"launch", "wait"}
  BY DEF IInv, Types, LaunchedInOrder, Awaited, In, RunningStages

-----------------------------------------------------------------------------
(* The main goroutine.                                                     *)

\* The loop that starts the goroutines.
LEMMA LaunchSteps ==
    ASSUME IInv, Skip \/ Go
    PROVE  IInv'
  <1> USE ListOfRepos
  <1>0. Types /\ LaunchedInOrder /\ Awaited /\ SitesAppended /\ ErrorsRecorded /\ OwnCheckoutWhole /\ RemovalPending
    BY DEF IInv
  <1>1. /\ mainPc = "launch" /\ launched < Len(RepoName) /\ launched' = launched + 1
        /\ UNCHANGED <<mainPc, inMemory, disk, groupErr, continueOnError, allSites, published, result>>
    BY DEF Skip, Go, sites
  <1>2. CASE Skip
    <2>1. launched + 1 \notin HttpGit /\ UNCHANGED stage
      BY <1>2 DEF Skip
    <2>2. Types' /\ LaunchedInOrder'
      BY <1>0, <1>1, <2>1 DEF Types, LaunchedInOrder
    <2>3. Awaited' /\ SitesAppended' /\ ErrorsRecorded'
      BY <1>0, <1>1, <2>1 DEF Awaited, SitesAppended, ErrorsRecorded, In
    <2>4. OwnCheckoutWhole' /\ RemovalPending'
      BY <1>0, <1>1, <2>1 DEF OwnCheckoutWhole, RemovalPending, In, Dir
    <2> QED
      BY <2>2, <2>3, <2>4 DEF IInv
  <1>3. CASE Go
    <2> PICK r \in HttpGit : r = launched + 1
      BY <1>3 DEF Go
    <2>1. r \in Repos /\ stage[r] = "listed" /\ Goto(r, "fetching") /\ "fetching" \in Stages
      BY <1>0, <1>3 DEF Go, Goto, Types, LaunchedInOrder, Stages, RunningStages
    <2>2. /\ stage' \in [Repos -> Stages] /\ stage'[r] = "fetching"
          /\ \A q \in Repos : q # r => stage'[q] = stage[q]
      BY <1>0, <2>1, GotoIn
    <2>3. Types' /\ LaunchedInOrder'
      BY <1>0, <1>1, <2>1, <2>2 DEF Types, LaunchedInOrder
    <2>4. Awaited'
      BY <1>0, <1>1 DEF Awaited
    <2>5. SitesAppended' /\ ErrorsRecorded'
      <3>1. UNCHANGED <<In({"leaveSite", "site"}), In({"fetchFailed"})>>
        BY <1>0, <2>1, GotoIn
      <3> QED
        BY <1>0, <1>1, <3>1 DEF SitesAppended, ErrorsRecorded
    <2>6. OwnCheckoutWhole'
      BY <1>0, <1>1, <2>1, <2>2 DEF OwnCheckoutWhole, In, Dir
    <2>7. RemovalPending'
      BY <1>0, <1>1, <2>1, <2>2 DEF RemovalPending, FinalStages, Dir
    <2> QED
      BY <2>3, <2>4, <2>5, <2>6, <2>7 DEF IInv
  <1> QED
    BY <1>2, <1>3

\* When the group has been waited for, every repository is resolved and no
\* directory is left.
LEMMA AllResolvedAtEnd ==
    ASSUME IInv, mainPc \in {"report", "done"}, NEW r \in HttpGit
    PROVE  stage[r] \in FinalStages /\ Dir(r) = "absent"
  <1> USE ListOfRepos
  <1>1. \A q \in HttpGit : stage[q] \in FinalStages
    BY DEF IInv, Types, LaunchedInOrder, Awaited, Stages, In
  <1> QED
    BY <1>1 DEF IInv, RemovalPending

\* The end of the loop, and g.Wait.
LEMMA WaitSteps ==
    ASSUME IInv, AllLaunched \/ Wait
    PROVE  IInv'
  <1>0. Types /\ LaunchedInOrder /\ Awaited /\ SitesAppended /\ ErrorsRecorded /\ OwnCheckoutWhole /\ RemovalPending
    BY DEF IInv
  <1>1. /\ mainPc' \in {"wait", "report"} /\ mainPc \in {"launch", "wait"}
        /\ UNCHANGED <<launched, stage, inMemory, disk, groupErr, continueOnError, allSites, published, result>>
    BY DEF AllLaunched, Wait, sites
  <1>2. Types' /\ SitesAppended' /\ ErrorsRecorded' /\ OwnCheckoutWhole' /\ RemovalPending'
    BY <1>0, <1>1 DEF Types, SitesAppended, ErrorsRecorded, OwnCheckoutWhole, RemovalPending, In, Dir
  <1>3. LaunchedInOrder'
    BY <1>0, <1>1 DEF LaunchedInOrder, AllLaunched, Wait
  <1>4. Awaited'
    BY <1>0, <1>1 DEF Awaited, AllLaunched, Wait, In
  <1> QED
    BY <1>2, <1>3, <1>4 DEF IInv

\* The return of the command, which runs the deferred cleanup.
LEMMA ReturnSteps ==
    ASSUME IInv, ReturnError \/ Generate
    PROVE  IInv'
  <1> USE ListOfRepos
  <1>0. Types /\ LaunchedInOrder /\ Awaited /\ SitesAppended /\ ErrorsRecorded /\ OwnCheckoutWhole /\ RemovalPending
    BY DEF IInv
  <1>1. /\ mainPc = "report" /\ mainPc' = "done"
        /\ result' \in {"fetchError", "generated", "generateError"}
        /\ disk' = IF Persistent THEN disk ELSE NoDirs
        /\ UNCHANGED <<launched, stage, inMemory, groupErr, continueOnError, allSites>>
    BY DEF ReturnError, Generate, Return
  <1>2. Types'
    <2>1. NoDirs \in [Names -> DirStates]
      BY DEF NoDirs, DirStates
    <2> QED
      BY <1>0, <1>1, <2>1 DEF Types
  <1>3. LaunchedInOrder' /\ Awaited' /\ SitesAppended' /\ ErrorsRecorded'
    BY <1>0, <1>1 DEF LaunchedInOrder, Awaited, SitesAppended, ErrorsRecorded, In
  <1>4. OwnCheckoutWhole'
    <2>1. In({"parsing"})' = {}
      BY <1>0, <1>1 DEF Awaited, In, RunningStages
    <2> QED
      BY <2>1 DEF OwnCheckoutWhole
  <1>5. RemovalPending'
    <2>1. \A r \in HttpGit : Dir(r)' = "absent"
      BY <1>1, AllResolvedAtEnd DEF Dir, NoDirs
    <2> QED
      BY <2>1 DEF RemovalPending
  <1> QED
    BY <1>2, <1>3, <1>4, <1>5 DEF IInv

-----------------------------------------------------------------------------
(* The goroutines.                                                         *)

\* Every step of a goroutine but the append of its site and its return: it
\* stays a running one, and writes to its directory only if it has not fetched.
LEMMA RunningSteps ==
    ASSUME IInv, NEW r \in Repos,
           \/ FetchInMemory(r) \/ FetchRepoStarts(r) \/ FetchRepoSucceeds(r)
           \/ FetchRepoFails(r) \/ ParseRepo(r)
    PROVE  IInv'
  <1> USE ListOfRepos
  <1>0. Types /\ LaunchedInOrder /\ Awaited /\ SitesAppended /\ ErrorsRecorded /\ OwnCheckoutWhole /\ RemovalPending
    BY DEF IInv
  <1>1. PICK s \in RunningStages \ {"fetching", "leaveSite"} : Goto(r, s)
    BY DEF FetchInMemory, FetchRepoStarts, FetchRepoSucceeds, FetchRepoFails, ParseRepo, RunningStages
  <1>2. /\ stage[r] \in {"fetching", "writing", "parsing"} /\ stage[r] \in RunningStages
        /\ UNCHANGED <<mainPc, launched, groupErr, continueOnError, allSites, published, result>>
    BY DEF FetchInMemory, FetchRepoStarts, FetchRepoSucceeds, FetchRepoFails, ParseRepo,
           main, sites, RunningStages
  <1>3. r \in HttpGit /\ ~(r > launched) /\ mainPc \in {"launch", "wait"} /\ s \in Stages
    BY <1>2, Running DEF Stages
  <1>4. /\ stage' \in [Repos -> Stages] /\ stage'[r] = s
        /\ \A q \in Repos : q # r => stage'[q] = stage[q]
    BY <1>0, <1>1, <1>3, GotoIn
  <1>5. /\ inMemory' \subseteq HttpGit /\ inMemory \subseteq inMemory'
        /\ disk' = disk \/ \E d \in DirStates : SetDir(r, d)
    BY <1>0, <1>3 DEF FetchInMemory, FetchRepoStarts, FetchRepoSucceeds, FetchRepoFails, ParseRepo,
           DirStates, Types
  <1>6. Types'
    <2>1. disk' \in [Names -> DirStates]
      BY <1>0, <1>5, SetDirDisk DEF Types
    <2> QED
      BY <1>0, <1>2, <1>4, <1>5, <2>1 DEF Types
  <1>7. LaunchedInOrder' /\ Awaited'
    BY <1>0, <1>2, <1>3, <1>4 DEF LaunchedInOrder, Awaited, RunningStages
  <1>8. SitesAppended' /\ ErrorsRecorded'
    <2>1. UNCHANGED <<In({"leaveSite", "site"}), In({"fetchFailed"})>>
      BY <1>0, <1>1, <1>2, <1>3, GotoIn DEF RunningStages
    <2> QED
      BY <1>0, <1>2, <2>1 DEF SitesAppended, ErrorsRecorded
  <1>9. OwnCheckoutWhole'
    <2> SUFFICES ASSUME NEW q \in Repos, stage'[q] = "parsing", q \notin inMemory', Alone(q)
                 PROVE  Dir(q)' = "whole"
      BY DEF OwnCheckoutWhole, In, Alone
    <2>1. CASE q = r
      <3>1. s = "parsing" /\ Goto(r, "parsing") /\ r \notin inMemory'
        BY <1>1, <1>4, <2>1
      <3>2. SetDir(r, "whole")
        BY <1>0, <1>3, <1>4, <3>1
           DEF FetchInMemory, FetchRepoStarts, FetchRepoSucceeds, FetchRepoFails, ParseRepo, Goto, Types
      <3> QED
        BY <1>0, <2>1, <3>2, SetDirDisk DEF DirStates
    <2>2. CASE q # r
      <3>1. RepoName[q] # RepoName[r] /\ Dir(q) = "whole"
        BY <1>0, <1>3, <1>4, <1>5, <2>2 DEF OwnCheckoutWhole, In, Alone
      <3> QED
        BY <1>0, <1>5, <3>1, SetDirDisk DEF Dir
    <2> QED
      BY <2>1, <2>2
  <1>10. RemovalPending'
    <2> SUFFICES ASSUME NEW q \in HttpGit, Dir(q)' # "absent"
                 PROVE  \E p \in HttpGit : RepoName[p] = RepoName[q] /\ stage'[p] \notin FinalStages
      BY DEF RemovalPending
    <2>1. stage'[r] \notin FinalStages
      BY <1>4 DEF RunningStages, FinalStages
    <2>2. CASE RepoName[q] = RepoName[r]
      BY <1>3, <2>1, <2>2
    <2>3. CASE RepoName[q] # RepoName[r]
      <3>1. Dir(q) # "absent"
        BY <1>0, <1>5, <2>3, SetDirDisk DEF Dir
      <3> QED
        BY <1>0, <1>4, <2>1, <3>1 DEF RemovalPending
    <2> QED
      BY <2>2, <2>3
  <1> QED
    BY <1>6, <1>7, <1>8, <1>9, <1>10 DEF IInv

\* The append to the list of the sites.
LEMMA AppendSiteStep ==
    ASSUME IInv, NEW r \in Repos, AppendSite(r)
    PROVE  IInv'
  <1> USE ListOfRepos
  <1>0. Types /\ LaunchedInOrder /\ Awaited /\ SitesAppended /\ ErrorsRecorded /\ OwnCheckoutWhole /\ RemovalPending
    BY DEF IInv
  <1>1. /\ stage[r] = "appending" /\ allSites' = Append(allSites, r) /\ Goto(r, "leaveSite")
        /\ UNCHANGED <<mainPc, launched, inMemory, disk, groupErr, continueOnError, published, result>>
    BY DEF AppendSite, main
  <1>2. /\ r \in HttpGit /\ ~(r > launched) /\ mainPc \in {"launch", "wait"}
        /\ "leaveSite" \in Stages
    BY <1>1, Running DEF RunningStages, Stages
  <1>3. /\ stage' \in [Repos -> Stages] /\ stage'[r] = "leaveSite"
        /\ \A q \in Repos : q # r => stage'[q] = stage[q]
    BY <1>0, <1>1, <1>2, GotoIn
  <1>4. allSites' \in Seq(HttpGit) /\ Holds(allSites', In({"leaveSite", "site"}) \cup {r})
    <2>1. allSites \in Seq(HttpGit) /\ Holds(allSites, In({"leaveSite", "site"}))
      BY <1>0 DEF Types, SitesAppended
    <2>2. r \notin In({"leaveSite", "site"})
      BY <1>1 DEF In
    <2> QED
      BY <1>1, <1>2, <2>1, <2>2, SendHolds
  <1>5. Types'
    BY <1>0, <1>1, <1>3, <1>4 DEF Types
  <1>6. LaunchedInOrder' /\ Awaited'
    BY <1>0, <1>1, <1>2, <1>3 DEF LaunchedInOrder, Awaited
  <1>7. SitesAppended'
    <2>1. In({"leaveSite", "site"})' = In({"leaveSite", "site"}) \cup {r}
      BY <1>0, <1>1, <1>2, GotoIn
    <2> QED
      BY <1>4, <2>1 DEF SitesAppended
  <1>8. ErrorsRecorded'
    <2>1. UNCHANGED In({"fetchFailed"})
      BY <1>0, <1>1, <1>2, GotoIn
    <2> QED
      BY <1>0, <1>1, <2>1 DEF ErrorsRecorded
  <1>9. OwnCheckoutWhole'
    BY <1>0, <1>1, <1>3 DEF OwnCheckoutWhole, In, Dir
  <1>10. RemovalPending'
    BY <1>0, <1>1, <1>3 DEF RemovalPending, FinalStages, Dir
  <1> QED
    BY <1>5, <1>6, <1>7, <1>8, <1>9, <1>10 DEF IInv

\* The return of a goroutine.
LEMMA LeaveStep ==
    ASSUME IInv, NEW r \in Repos, Leave(r)
    PROVE  IInv'
  <1> USE ListOfRepos
  <1>0. Types /\ LaunchedInOrder /\ Awaited /\ SitesAppended /\ ErrorsRecorded /\ OwnCheckoutWhole /\ RemovalPending
    BY DEF IInv
  <1>1. /\ stage[r] \in {"leaveSite", "leaveFetch", "leaveParse"} /\ stage[r] \in RunningStages
        /\ Goto(r, Left(stage[r])) /\ SetDir(r, "absent") /\ GroupSet(r)
        /\ UNCHANGED <<mainPc, launched, inMemory, continueOnError, allSites, published, result>>
    BY DEF Leave, RunningStages, main, sites
  <1>2. /\ r \in HttpGit /\ ~(r > launched) /\ mainPc \in {"launch", "wait"}
        /\ Left(stage[r]) \in FinalStages /\ Left(stage[r]) \in Stages
        /\ "absent" \in DirStates
    BY <1>1, Running DEF Left, FinalStages, Stages, DirStates
  <1>3. /\ stage' \in [Repos -> Stages] /\ stage'[r] = Left(stage[r])
        /\ \A q \in Repos : q # r => stage'[q] = stage[q]
    BY <1>0, <1>1, <1>2, GotoIn
  <1>4. /\ disk' \in [Names -> DirStates]
        /\ \A q \in Repos : Dir(q)' = IF RepoName[q] = RepoName[r] THEN "absent" ELSE Dir(q)
    BY <1>0, <1>1, <1>2, SetDirDisk
  <1>5. Types'
    BY <1>0, <1>1, <1>3, <1>4 DEF Types
  <1>6. LaunchedInOrder' /\ Awaited'
    BY <1>0, <1>1, <1>2, <1>3 DEF LaunchedInOrder, Awaited, FinalStages
  <1>7. SitesAppended'
    <2>1. UNCHANGED In({"leaveSite", "site"})
      BY <1>0, <1>1, <1>2, GotoIn DEF Left
    <2> QED
      BY <1>0, <1>1, <2>1 DEF SitesAppended
  <1>8. ErrorsRecorded'
    <2>1. CASE stage[r] = "leaveFetch"
      <3>1. r \in In({"fetchFailed"})'
        BY <1>3, <2>1 DEF In, Left
      <3> QED
        BY <1>0, <1>1, <2>1, <3>1 DEF ErrorsRecorded, GroupSet
    <2>2. CASE stage[r] # "leaveFetch"
      <3>1. UNCHANGED In({"fetchFailed"})
        BY <1>0, <1>1, <1>2, <2>2, GotoIn DEF Left
      <3> QED
        BY <1>0, <1>1, <2>2, <3>1 DEF ErrorsRecorded, GroupSet
    <2> QED
      BY <2>1, <2>2
  <1>9. OwnCheckoutWhole'
    <2> SUFFICES ASSUME NEW q \in Repos, stage'[q] = "parsing", q \notin inMemory', Alone(q)
                 PROVE  Dir(q)' = "whole"
      BY DEF OwnCheckoutWhole, In, Alone
    <2>1. q # r
      BY <1>2, <1>3 DEF FinalStages
    <2>2. RepoName[q] # RepoName[r] /\ Dir(q) = "whole"
      BY <1>0, <1>1, <1>2, <1>3, <2>1 DEF OwnCheckoutWhole, In, Alone
    <2> QED
      BY <1>4, <2>2
  <1>10. RemovalPending'
    <2> SUFFICES ASSUME NEW q \in HttpGit, Dir(q)' # "absent"
                 PROVE  \E p \in HttpGit : RepoName[p] = RepoName[q] /\ stage'[p] \notin FinalStages
      BY DEF RemovalPending
    <2>1. RepoName[q] # RepoName[r] /\ Dir(q) # "absent"
      BY <1>4
    <2> QED
      BY <1>0, <1>3, <2>1 DEF RemovalPending
  <1> QED
    BY <1>5, <1>6, <1>7, <1>8, <1>9, <1>10 DEF IInv

-----------------------------------------------------------------------------
\* The initial states.
LEMMA InitIInv == Init => IInv
  <1> SUFFICES ASSUME Init PROVE IInv
    OBVIOUS
  <1> USE ListOfRepos
  <1>1. \A S : "listed" \notin S => In(S) = {}
    BY DEF Init, In
  <1>2. Types
    BY DEF Init, Types, Stages, InitialDisks, DirStates
  <1>3. LaunchedInOrder
    BY DEF Init, LaunchedInOrder
  <1>4. Awaited /\ ErrorsRecorded
    BY <1>1 DEF Init, Awaited, ErrorsRecorded
  <1>5. SitesAppended
    BY <1>1, EmptyHolds DEF Init, SitesAppended
  <1>6. OwnCheckoutWhole
    BY <1>1 DEF OwnCheckoutWhole
  <1>7. RemovalPending
    BY DEF Init, RemovalPending, FinalStages
  <1> QED
    BY <1>2, <1>3, <1>4, <1>5, <1>6, <1>7 DEF IInv

\* Admission changes nothing but the state of the memory manager.
LEMMA OtherSteps ==
    ASSUME IInv, UNCHANGED vars \/ \E r \in Repos : AcquireMemory(r)
    PROVE  IInv'
  <1>1. /\ UNCHANGED <<mainPc, launched, stage, inMemory, disk, groupErr>>
        /\ UNCHANGED <<continueOnError, allSites, published, result>>
    BY DEF vars, AcquireMemory, main, sites
  <1> QED
    BY <1>1 DEF IInv, Types, LaunchedInOrder, Awaited, SitesAppended, ErrorsRecorded,
                OwnCheckoutWhole, RemovalPending, In, Dir

\* Every step.
LEMMA NextIInv == IInv /\ [Next]_vars => IInv'
  <1> SUFFICES ASSUME IInv, [Next]_vars PROVE IInv'
    OBVIOUS
  <1>1. CASE Main
    BY <1>1, LaunchSteps, WaitSteps, ReturnSteps DEF Main
  <1>2. ASSUME NEW r \in Repos, Process(r)
        PROVE  IInv'
    BY <1>2, RunningSteps, OtherSteps, AppendSiteStep, LeaveStep DEF Process
  <1>3. CASE UNCHANGED vars
    BY <1>3, OtherSteps
  <1> QED
    BY <1>1, <1>2, <1>3 DEF Next, Returned

-----------------------------------------------------------------------------
\* The invariant, for every instance.
THEOREM SpecIInv == Spec => []IInv
  BY InitIInv, NextIInv, PTL DEF Spec

\* Where the names of the list are distinct, every parser sees a whole
\* checkout; two repositories of one name would be fetched into one directory.
THEOREM ParserSafe ==
    ASSUME \A r \in HttpGit : Alone(r)
    PROVE  Spec => []ParserSeesWholeCheckout
  <1>1. IInv => ParserSeesWholeCheckout
    BY Running DEF ParserSeesWholeCheckout, IInv, OwnCheckoutWhole, In, RunningStages
  <1> QED
    BY <1>1, SpecIInv, PTL

\* In temporary mode no checkout is left when the command decides its result,
\* whichever way the goroutines ended and even if names are shared.
THEOREM CheckoutsGone == Spec => []CheckoutsRemoved
  <1>1. IInv => CheckoutsRemoved
    BY AllResolvedAtEnd DEF CheckoutsRemoved
  <1> QED
    BY <1>1, SpecIInv, PTL

-----------------------------------------------------------------------------
(* The standard mode implements SiteGeneration.                            *)

\* A goroutine resolves its repository once: by the append of its site, or by
\* returning without one.
LEMMA ProcessRefines ==
    ASSUME IInv, NEW r \in Repos, Process(r)
    PROVE  [Promise!Next]_(Promise!vars)
  <1>1. UNCHANGED <<continueOnError, result, published>>
    BY DEF Process, FetchInMemory, FetchRepoStarts, FetchRepoSucceeds, FetchRepoFails,
           AcquireMemory, ParseRepo, AppendSite, Leave, sites
  <1>2. CASE AcquireMemory(r)
    BY <1>1, <1>2 DEF AcquireMemory, Promise!vars
  <1>3. CASE ~AcquireMemory(r)
    <2>1. PICK s \in Stages : Goto(r, s)
      BY <1>3 DEF Process, FetchInMemory, FetchRepoStarts, FetchRepoSucceeds, FetchRepoFails,
             ParseRepo, AppendSite, Leave, Left, Stages, RunningStages, FinalStages
    <2>2. stage[r] \in RunningStages
      BY <1>3 DEF Process, FetchInMemory, FetchRepoStarts, FetchRepoSucceeds, FetchRepoFails,
             ParseRepo, AppendSite, Leave, RunningStages
    <2>3. r \in HttpGit /\ result = "running" /\ Types
      BY <2>2, Running DEF IInv, Awaited
    <2>4. stage'[r] = s /\ \A q \in Repos : q # r => stage'[q] = stage[q]
      BY <2>1, <2>3, GotoIn
    <2>5. \/ Outcome(s) = Outcome(stage[r])
          \/ Outcome(stage[r]) = "pending" /\ Outcome(s) \in Promise!Outcomes
      <3>1. CASE Leave(r)
        <4>1. stage[r] \in {"leaveSite", "leaveFetch", "leaveParse"} /\ s = Left(stage[r])
          BY <2>3, <2>4, <3>1 DEF Leave, Goto, Types
        <4> QED
          BY <4>1 DEF Left, Outcome, Promise!Outcomes
      <3>2. CASE AppendSite(r)
        <4>1. stage[r] = "appending" /\ s = "leaveSite"
          BY <2>3, <2>4, <3>2 DEF AppendSite, Goto, Types
        <4> QED
          BY <4>1 DEF Outcome, Promise!Outcomes
      <3>3. CASE ~Leave(r) /\ ~AppendSite(r)
        <4>1. /\ stage[r] \in {"fetching", "writing", "parsing"}
              /\ s \in {"writing", "parsing", "appending", "leaveFetch", "leaveParse"}
          BY <1>3, <2>3, <2>4, <3>3
             DEF Process, FetchInMemory, FetchRepoStarts, FetchRepoSucceeds, FetchRepoFails,
                 ParseRepo, Goto, Types
        <4> QED
          BY <4>1 DEF Outcome
      <3> QED
        BY <3>1, <3>2, <3>3
    <2> DEFINE outcome == [q \in HttpGit |-> Outcome(stage[q])]
    <2>6. outcome'[r] = Outcome(s) /\ \A q \in HttpGit : q # r => outcome'[q] = outcome[q]
      BY <2>3, <2>4, ListOfRepos
    <2>7. outcome' = [outcome EXCEPT ![r] = Outcome(s)]
      BY <2>6
    <2>8. CASE Outcome(s) = Outcome(stage[r])
      <3>1. outcome' = outcome
        BY <2>6, <2>8
      <3> QED
        BY <1>1, <3>1 DEF Promise!vars
    <2>9. CASE Outcome(stage[r]) = "pending" /\ Outcome(s) \in Promise!Outcomes
      <3>1. Promise!Resolve(r)
        BY <1>1, <2>3, <2>7, <2>9 DEF Promise!Resolve
      <3> QED
        BY <2>3, <3>1 DEF Promise!Next
    <2> QED
      BY <2>5, <2>8, <2>9
  <1> QED
    BY <1>2, <1>3

\* The last step of the main goroutine returns what the outcomes demand, the
\* others change none.
LEMMA MainRefines ==
    ASSUME IInv, Main
    PROVE  [Promise!Next]_(Promise!vars)
  <1> DEFINE outcome == [q \in HttpGit |-> Outcome(stage[q])]
  <1>1. CASE Skip \/ AllLaunched \/ Wait
    <2>1. UNCHANGED <<stage, continueOnError, result, published>>
      BY <1>1 DEF Skip, AllLaunched, Wait, sites
    <2> QED
      BY <2>1 DEF Promise!vars
  <1>2. CASE Go
    <2>1. PICK r \in HttpGit : r = launched + 1
      BY <1>2 DEF Go
    <2>2. /\ stage[r] = "listed" /\ stage' = [stage EXCEPT ![r] = "fetching"]
          /\ stage \in [Repos -> Stages]
          /\ UNCHANGED <<continueOnError, result, published>>
      BY <1>2, <2>1, ListOfRepos DEF Go, sites, IInv, Types, LaunchedInOrder
    <2>3. \A q \in HttpGit : Outcome(stage'[q]) = Outcome(stage[q])
      BY <2>2, ListOfRepos DEF Outcome
    <2>4. outcome' = outcome
      BY <2>3
    <2> QED
      BY <2>2, <2>4 DEF Promise!vars
  <1>3. CASE ReturnError \/ Generate
    <2>0. /\ mainPc = "report" /\ result = "running" /\ UNCHANGED <<stage, continueOnError>>
          /\ outcome' = outcome
      BY <1>3 DEF ReturnError, Generate, Return, IInv, Awaited
    <2>1. \A r \in HttpGit : stage[r] \in FinalStages
      BY <2>0, AllResolvedAtEnd
    <2>2. Promise!AllResolved
      BY <2>0, <2>1 DEF Promise!AllResolved, Promise!Resolved, Outcome, FinalStages
    <2>3. In({"fetchFailed"}) = Promise!Resolved("fetchFailed")
      BY <2>1, ListOfRepos DEF Promise!Resolved, Outcome, FinalStages, In, IInv, LaunchedInOrder
    <2>4. groupErr # {} <=> ~continueOnError /\ Promise!Resolved("fetchFailed") # {}
      BY <2>3 DEF IInv, ErrorsRecorded
    <2>5. CASE ReturnError
      BY <2>0, <2>2, <2>4, <2>5 DEF ReturnError, Return, MustFail, Promise!FetchError, Promise!Next
    <2>6. CASE Generate
      <3>1. SitesOf(allSites) = In({"leaveSite", "site"})
        BY HeldSites DEF IInv, Types, SitesAppended
      <3>2. In({"leaveSite", "site"}) = Promise!Resolved("site")
        BY <2>1, ListOfRepos DEF Promise!Resolved, Outcome, FinalStages, In, IInv, LaunchedInOrder
      <3>3. published' \in Promise!SortedByName(Promise!Resolved("site"))
        <4>1. \A S : Promise!Cardinality(S) = Cardinality(S)
          BY DEF Cardinality, Promise!Cardinality
        <4>2. \A S : Promise!SortedByName(S) = SortedByName(S)
          BY <4>1 DEF SortedByName, Promise!SortedByName
        <4> QED
          BY <2>6, <3>1, <3>2, <4>2 DEF Generate
      <3>4. result' \in {"generated", "generateError"} /\ ~MustFail
        BY <2>6 DEF Generate, Return
      <3>5. continueOnError \/ Promise!Resolved("fetchFailed") = {}
        BY <2>4, <3>4 DEF MustFail, IInv, Types
      <3>6. Promise!Generate
        BY <2>0, <2>2, <3>3, <3>4, <3>5 DEF Promise!Generate
      <3> QED
        BY <3>6 DEF Promise!Next
    <2> QED
      BY <1>3, <2>5, <2>6
  <1> QED
    BY <1>1, <1>2, <1>3 DEF Main

\* Whatever the order of the goroutines, each repository is resolved once, no
\* failure cancels another, the run ends only when all are resolved, fails
\* exactly when a failed fetch counts, and publishes exactly the parsed sites.
THEOREM StandardKeepsPromise == Spec => Promise!Init /\ [][Promise!Next]_(Promise!vars)
  <1>1. Init => Promise!Init
    BY ListOfRepos DEF Init, Promise!Init, Outcome
  <1>2. IInv /\ [Next]_vars => [Promise!Next]_(Promise!vars)
    <2> SUFFICES ASSUME IInv, [Next]_vars PROVE [Promise!Next]_(Promise!vars)
      OBVIOUS
    <2>1. CASE UNCHANGED vars
      BY <2>1 DEF vars, sites, Promise!vars
    <2> QED
      BY <2>1, ProcessRefines, MainRefines DEF Next, Returned
  <1> QED
    BY <1>1, <1>2, SpecIInv, PTL DEF Spec

-----------------------------------------------------------------------------
(* The group and the memory manager.                                       *)

\* The stages of a goroutine that parseRepo has returned to.
ParsedStages == {"appending", "leaveSite", "leaveParse", "site", "parseFailed"}

\* A goroutine asks for admission when it has fetched, and has been released
\* when the parser has returned; one whose fetch failed never asks.
AdmissionFollows ==
    \A r \in Repos :
        /\ stage[r] \in ParsedStages <=> admission[r] = "released"
        /\ stage[r] \notin {"parsing"} \cup ParsedStages => admission[r] = "calling"

\* What the manager relies on.
LEMMA MemoryConstants == Memory!ConstantsAssumption
  <1>1. IsFiniteSet(1..Len(RepoName))
    BY ListOfRepos, FS_Interval
  <1>2. \A S : Memory!IsFiniteSet(S) <=> IsFiniteSet(S)
    BY DEF Memory!IsFiniteSet, IsFiniteSet
  <1> QED
    BY <1>1, <1>2, ListOfRepos, MemoryAssumption DEF Memory!ConstantsAssumption

\* A goroutine calls Acquire and Release of the manager.
LEMMA MemoryCalls ==
    ASSUME NEW r \in Repos
    PROVE  /\ AcquireMemory(r) => Memory!Acquire(r)
           /\ ParseRepo(r) => Memory!Release(r)
  BY DEF AcquireMemory, ParseRepo,
         MM!Acquire, MM!Enter, MM!Refuse, MM!ReadFails, MM!AtLoopTop, MM!CanEnter, MM!CondWait,
         Memory!Acquire, Memory!Enter, Memory!Refuse, Memory!ReadFails, Memory!AtLoopTop,
         Memory!CanEnter, Memory!CondWait,
         MM!Release, MM!Less, MM!WakeOldest, Memory!Release, Memory!Less, Memory!WakeOldest

\* Nothing else touches its state.
LEMMA CallsMemory ==
    ASSUME [Next]_vars
    PROVE  [Memory!Next]_(Memory!vars)
  <1>1. CASE UNCHANGED mm
    BY <1>1 DEF mm, Memory!vars
  <1>2. CASE ~(UNCHANGED mm)
    <2>1. PICK r \in Repos : AcquireMemory(r) \/ ParseRepo(r)
      BY <1>2 DEF Next, Main, Skip, Go, AllLaunched, Wait, ReturnError, Generate, Return, Process,
             FetchInMemory, FetchRepoStarts, FetchRepoSucceeds, FetchRepoFails, AppendSite, Leave,
             Returned, vars
    <2> QED
      BY <2>1, MemoryCalls DEF Memory!Next
  <1> QED
    BY <1>1, <1>2

\* The group is a run of the memory manager, with the repositories for its
\* clients.
THEOREM StandardRunsMemory == Spec => Memory!Spec
  <1>1. Init => Memory!Init
    BY DEF Init, MM!Init, Memory!Init
  <1>2. [Next]_vars => [Memory!Next]_(Memory!vars)
    BY CallsMemory
  <1> QED
    BY <1>1, <1>2, PTL DEF Spec, Memory!Spec

\* Every step keeps admissions and stages together.
LEMMA NextFollows ==
    ASSUME IInv, Memory!IInv, AdmissionFollows, [Next]_vars
    PROVE  AdmissionFollows'
  <1>0. Types
    BY DEF IInv
  <1>1. CASE UNCHANGED <<stage, admission>>
    BY <1>1 DEF AdmissionFollows
  <1>2. ASSUME NEW r \in Repos, AcquireMemory(r)
        PROVE  AdmissionFollows'
    <2>1. Memory!Acquire(r) /\ stage[r] = "parsing" /\ UNCHANGED stage
      BY <1>2, MemoryCalls DEF AcquireMemory
    <2>2. /\ admission'[r] \in {"active", "asleep", "unread"}
          /\ \A q \in Repos : q # r => admission'[q] = admission[q]
      BY <2>1, MemoryConstants, Memory!AcquireMoves
    <2> QED
      BY <2>1, <2>2 DEF AdmissionFollows, ParsedStages
  <1>3. ASSUME NEW r \in Repos, ParseRepo(r)
        PROVE  AdmissionFollows'
    <2>1. Memory!Release(r)
      BY <1>3, MemoryCalls
    <2>2. PICK s \in {"appending", "leaveParse"} : Goto(r, s)
      BY <1>3 DEF ParseRepo
    <2>3. stage'[r] = s /\ \A q \in Repos : q # r => stage'[q] = stage[q]
      BY <1>0, <2>2, GotoIn DEF Stages, RunningStages
    <2>4. /\ admission'[r] = "released"
          /\ \A q \in Repos : q # r =>
                admission'[q] = admission[q]
                \/ (admission[q] \in Memory!Waiting /\ admission'[q] = "woken")
      BY <2>1, MemoryConstants, Memory!ReleaseMoves
    <2>5. \A q \in Repos : admission[q] \in Memory!Waiting => stage[q] = "parsing"
      BY DEF AdmissionFollows, Memory!Waiting
    <2> QED
      BY <2>3, <2>4, <2>5 DEF AdmissionFollows, ParsedStages
  <1>4. ASSUME NEW r \in Repos, NEW s \in Stages, Goto(r, s), UNCHANGED admission,
               stage[r] \in ParsedStages <=> s \in ParsedStages,
               stage[r] = "parsing" => s = "parsing"
        PROVE  AdmissionFollows'
    BY <1>0, <1>4, GotoIn DEF AdmissionFollows
  <1>5. CASE Go
    <2>1. launched + 1 \in HttpGit /\ Goto(launched + 1, "fetching") /\ UNCHANGED admission
      BY <1>5 DEF Go, Goto, mm
    <2>2. launched + 1 \in Repos /\ stage[launched + 1] = "listed"
      BY <2>1, ListOfRepos DEF IInv, Types, LaunchedInOrder
    <2> QED
      BY <1>4, <2>1, <2>2 DEF Stages, RunningStages, ParsedStages
  <1>6. ASSUME NEW r \in Repos, FetchInMemory(r) \/ FetchRepoStarts(r) \/ FetchRepoSucceeds(r) \/ FetchRepoFails(r)
        PROVE  AdmissionFollows'
    <2>1. PICK s \in {"parsing", "writing", "leaveFetch"} : Goto(r, s)
      BY <1>6 DEF FetchInMemory, FetchRepoStarts, FetchRepoSucceeds, FetchRepoFails
    <2>2. stage[r] \in {"fetching", "writing"} /\ UNCHANGED admission
      BY <1>6 DEF FetchInMemory, FetchRepoStarts, FetchRepoSucceeds, FetchRepoFails, mm
    <2> QED
      BY <1>4, <2>1, <2>2 DEF Stages, RunningStages, ParsedStages
  <1>7. ASSUME NEW r \in Repos, AppendSite(r)
        PROVE  AdmissionFollows'
    BY <1>4, <1>7 DEF AppendSite, mm, Stages, RunningStages, ParsedStages
  <1>8. ASSUME NEW r \in Repos, Leave(r)
        PROVE  AdmissionFollows'
    BY <1>4, <1>8 DEF Leave, Left, mm, Stages, FinalStages, ParsedStages
  <1>9. CASE Skip \/ AllLaunched \/ Wait \/ ReturnError \/ Generate \/ Returned \/ UNCHANGED vars
    <2>1. UNCHANGED <<stage, admission>>
      BY <1>9 DEF Skip, AllLaunched, Wait, ReturnError, Generate, Return, Returned, vars, mm
    <2> QED
      BY <1>1, <2>1
  <1> QED
    BY <1>2, <1>3, <1>5, <1>6, <1>7, <1>8, <1>9 DEF Next, Main, Process

\* So all that the manager guarantees holds in the group too: the reservations
\* are those of the parses in progress, a second parse is admitted only into
\* memory that is free, and no sleeper is forgotten.
THEOREM MemoryKeptInStandard ==
    Spec => [](MM!ReservationsExact /\ MM!NoOvercommit /\ MM!SleepersHaveAWaker)
  <1>1. /\ Memory!ReservationsExact <=> MM!ReservationsExact
        /\ Memory!NoOvercommit <=> MM!NoOvercommit
        /\ Memory!SleepersHaveAWaker <=> MM!SleepersHaveAWaker
    <2>1. \A S : Memory!Cardinality(S) = MM!Cardinality(S)
      BY DEF Memory!Cardinality, MM!Cardinality
    <2> QED
      BY <2>1 DEF Memory!ReservationsExact, MM!ReservationsExact, Memory!Active, MM!Active,
             Memory!NoOvercommit, MM!NoOvercommit, Memory!SleepersHaveAWaker, MM!SleepersHaveAWaker
  <1> QED
    BY <1>1, StandardRunsMemory, MemoryConstants, Memory!ReservationsCorrect,
       Memory!OvercommitFree, Memory!NoLostWakeup, PTL

\* What was reserved has been given back when the group has been waited for.
MemoryReturned ==
    mainPc \in {"report", "done"} => activeTasks = 0 /\ reserved = 0 /\ sleepers = <<>>

\* No admission outlives its parse, whether that succeeded or not, and a
\* goroutine whose fetch failed, which never asked, gives nothing back.
THEOREM NothingStaysReserved == Spec => []MemoryReturned
  <1>1. Init => AdmissionFollows
    BY DEF Init, MM!Init, AdmissionFollows, ParsedStages
  <1>2. IInv /\ Memory!IInv /\ AdmissionFollows /\ [Next]_vars => AdmissionFollows'
    BY NextFollows
  <1>3. IInv /\ Memory!IInv /\ AdmissionFollows => MemoryReturned
    <2> SUFFICES ASSUME IInv, Memory!IInv, AdmissionFollows, mainPc \in {"report", "done"}
                 PROVE  activeTasks = 0 /\ reserved = 0 /\ sleepers = <<>>
      BY DEF MemoryReturned
    <2>1. \A r \in Repos : stage[r] # "parsing"
      BY DEF IInv, Awaited, In, RunningStages
    <2>2. \A r \in Repos : admission[r] \in {"calling", "released"}
      BY <2>1 DEF AdmissionFollows
    <2> QED
      BY <2>2, MemoryConstants, Memory!IdleAtRest
  <1>4. Spec => []Memory!IInv
    BY StandardRunsMemory, MemoryConstants, Memory!SpecIInv, PTL
  <1> QED
    BY <1>1, <1>2, <1>3, <1>4, SpecIInv, PTL DEF Spec
=============================================================================
