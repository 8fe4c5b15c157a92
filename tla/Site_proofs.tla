---------------------------- MODULE Site_proofs -----------------------------
(***************************************************************************)
(* The site, from the checkout of a repository to what is served: the      *)
(* safety of FetchRepo, of SiteRender and of SiteServe.                    *)
(*                                                                         *)
(* FetchRepo is proved for any number of retries and of runs, in a         *)
(* temporary or a persistent directory, with and without zip archives.     *)
(* What the caller is told depends on what earlier runs have left behind,  *)
(* so none of its properties is inductive: each needs to know what the     *)
(* directory is like at every place of the call.                           *)
(*                                                                         *)
(* The rendering is proved for any trees, limits of the groups and number  *)
(* of failures, provided that the program is orderly (OrderlyProgram of    *)
(* SiteRender): no two pages are written to one file by goroutines that    *)
(* may run beside one another.  It then depends on no interleaving which   *)
(* files are there in the end and who has written them.  The argument has  *)
(* two parts.  A place of the program is passed when the goroutine that    *)
(* writes it is beyond it or gone with its group's turn (Passed): only the *)
(* steps that write change that, whoever is started or ends meanwhile.     *)
(* And a place that comes Before another is passed before it: so a file    *)
(* holds what the last of the passed places wrote, unless some goroutine   *)
(* has failed, which generateSite then reports.                            *)
(*                                                                         *)
(* What the server lists is proved for any trees without a premise.        *)
(***************************************************************************)
EXTENDS FetchRepo, SiteServe, FiniteSetTheorems, WellFoundedInduction, TLAPS

\* What a success may be told about: a whole tree, and nothing of an earlier
\* one unless it was made by archives only.
Good(d) == d.fresh = "all" /\ (~useZip \/ d.git => ~d.stale)

\* The directory at each place of a call.  A zip archive is never extracted
\* over a git checkout, and a call has no outcome before it ends.
DirectoryAtPlace ==
    /\ pc = "attempt" /\ ~Persistent => dest = Empty
    /\ pc \in {"zip", "extracting"} => ~dest.git
    /\ pc = "extracting" => useZip
    /\ pc = "ok" \/ outcome = "success" => Good(dest)
    /\ pc # "idle" => outcome = "none"

\* Every retry starts from an empty directory, which git clone accepts: what
\* fails after that has failed because some command or download did.
RetriesStartClean ==
    /\ attempt > 0 => pc # "updating"
    /\ attempt > 0 /\ pc \in {"attempt", "zip", "clone"} => dest = Empty
    /\ attempt > 0 /\ pc = "failed" => trouble

\* The inductive invariant of FetchRepo.
IInv == TypeOK /\ DirectoryAtPlace /\ RetriesStartClean /\ NoFailureWithoutTrouble

-----------------------------------------------------------------------------
\* An empty directory, and one that git has just made, are directories.
LEMMA KnownContents == Empty \in Contents /\ GitCheckout \in Contents
  BY DEF Empty, GitCheckout, Contents

\* No call has been made at the start.
LEMMA InitIInv == Init => IInv
  <1> SUFFICES ASSUME Init PROVE IInv
    OBVIOUS
  <1>1. TypeOK
    <2>1. {useZip, expired, trouble} \subseteq BOOLEAN
      BY DEF Init
    <2> QED
      BY <2>1, FetchAssumption, KnownContents DEF Init, TypeOK, Allowed
  <1>2. DirectoryAtPlace /\ RetriesStartClean /\ NoFailureWithoutTrouble
    BY DEF Init, DirectoryAtPlace, RetriesStartClean, NoFailureWithoutTrouble, Empty, Good
  <1> QED
    BY <1>1, <1>2 DEF IInv

\* A step between two calls, a kill and the deadline.
LEMMA AroundCalls ==
    ASSUME IInv, StartRun \/ RemoveCheckout \/ UpstreamMoves \/ Kill \/ Expire
    PROVE  IInv'
  <1> USE FetchAssumption, KnownContents
      DEF IInv, TypeOK, Allowed, call, DirectoryAtPlace, RetriesStartClean,
          NoFailureWithoutTrouble, Good
  <1>1. CASE StartRun
    <2>1. TypeOK'
      <3>1. dest' \in Contents
        BY <1>1 DEF StartRun
      <3>2. {useZip', expired', trouble'} \subseteq BOOLEAN
        BY <1>1 DEF StartRun
      <3>3. pc' = "attempt" /\ outcome' = "none" /\ caller' \in {"overlay", "overlays"}
        BY <1>1 DEF StartRun
      <3>4. attempt' \in 0..Allowed' /\ runs' \in 0..MaxRuns
        BY <1>1 DEF StartRun
      <3> QED
        BY <3>1, <3>2, <3>3, <3>4
    <2>2. DirectoryAtPlace' /\ RetriesStartClean' /\ NoFailureWithoutTrouble'
      BY <1>1 DEF StartRun
    <2> QED
      BY <2>1, <2>2
  <1>2. CASE RemoveCheckout
    BY <1>2 DEF RemoveCheckout
  <1>3. CASE UpstreamMoves
    BY <1>3 DEF UpstreamMoves, Contents
  <1>4. CASE Kill
    BY <1>4 DEF Kill
  <1>5. CASE Expire
    BY <1>5 DEF Expire
  <1> QED
    BY <1>1, <1>2, <1>3, <1>4, <1>5

\* The update of a git checkout, the archive and git clone.
LEMMA AttemptSteps ==
    ASSUME IInv,
           \/ BeginUpdate \/ UpdateSucceeds \/ UpdateFails \/ NoUpdate
           \/ SkipZip \/ ExtractStarts \/ ExtractSucceeds \/ ZipFails
           \/ CloneStarts \/ CloneRefused \/ CloneSucceeds \/ CloneFails
    PROVE  IInv'
  <1> USE FetchAssumption, KnownContents
      DEF IInv, TypeOK, Allowed, call, Goto, DirectoryAtPlace, RetriesStartClean,
          NoFailureWithoutTrouble, Good
  <1>1. CASE BeginUpdate
    BY <1>1 DEF BeginUpdate, HasCheckout, Contents, Empty
  <1>2. CASE UpdateSucceeds
    BY <1>2 DEF UpdateSucceeds, GitCheckout
  <1>3. CASE UpdateFails
    BY <1>3 DEF UpdateFails, Empty
  <1>4. CASE NoUpdate
    BY <1>4 DEF NoUpdate, HasCheckout, Empty
  <1>5. CASE SkipZip
    BY <1>5 DEF SkipZip
  <1>6. CASE ExtractStarts
    BY <1>6 DEF ExtractStarts, Contents
  <1>7. CASE ExtractSucceeds
    BY <1>7 DEF ExtractSucceeds, Contents
  <1>8. CASE ZipFails
    BY <1>8 DEF ZipFails
  <1>9. CASE CloneStarts
    BY <1>9 DEF CloneStarts, Contents
  <1>10. CASE CloneRefused
    BY <1>10 DEF CloneRefused
  <1>11. CASE CloneSucceeds
    BY <1>11 DEF CloneSucceeds, GitCheckout
  <1>12. CASE CloneFails
    BY <1>12 DEF CloneFails
  <1> QED
    BY <1>1, <1>2, <1>3, <1>4, <1>5, <1>6, <1>7, <1>8, <1>9, <1>10, <1>11, <1>12

\* The retry loop.
LEMMA LoopSteps ==
    ASSUME IInv, Retry \/ GiveUp \/ Succeed
    PROVE  IInv'
  <1> USE FetchAssumption, KnownContents
      DEF IInv, TypeOK, Allowed, call, DirectoryAtPlace, RetriesStartClean,
          NoFailureWithoutTrouble, Good
  <1>1. CASE Retry
    BY <1>1 DEF Retry, Empty
  <1>2. CASE GiveUp
    BY <1>2 DEF GiveUp
  <1>3. CASE Succeed
    BY <1>3 DEF Succeed
  <1> QED
    BY <1>1, <1>2, <1>3

\* Every step.
LEMMA NextIInv == IInv /\ [Next]_vars => IInv'
  <1> SUFFICES ASSUME IInv, [Next]_vars PROVE IInv'
    OBVIOUS
  <1>1. CASE UNCHANGED vars
    BY <1>1 DEF vars, call, IInv, TypeOK, Allowed, DirectoryAtPlace, RetriesStartClean,
                NoFailureWithoutTrouble, Good
  <1> QED
    BY <1>1, AroundCalls, AttemptSteps, LoopSteps DEF Next, Step, NoMoreRuns

-----------------------------------------------------------------------------
\* The invariant, for every instance.
THEOREM SpecIInv == Spec => []IInv
  BY InitIInv, NextIInv, PTL DEF Spec

\* FetchRepo returns nil only with a whole checkout of the current upstream
\* tree, whatever killed runs, full directories and expired deadlines left.
THEOREM SuccessWhole == Spec => []SuccessIsWhole
  <1>1. IInv => SuccessIsWhole
    BY DEF IInv, DirectoryAtPlace, Good, SuccessIsWhole
  <1> QED
    BY <1>1, SpecIInv, PTL

\* A checkout made by git, or without archives, has no file that upstream
\* has removed: no archive is ever extracted over a git checkout.
THEOREM GitSuccessClean == Spec => []GitSuccessHasNoStaleFile
  <1>1. IInv => GitSuccessHasNoStaleFile
    BY DEF IInv, DirectoryAtPlace, Good, GitSuccessHasNoStaleFile
  <1> QED
    BY <1>1, SpecIInv, PTL

\* With a retry to spare, a fetch only fails when a command or a download
\* did: the retry removes whatever an earlier run left in the way of git clone.
THEOREM FailuresHaveACause == Spec => []NoFailureWithoutTrouble
  <1>1. IInv => NoFailureWithoutTrouble
    BY DEF IInv
  <1> QED
    BY <1>1, SpecIInv, PTL

-----------------------------------------------------------------------------
(* The program of generateSite.                                            *)

\* Goroutines are named by sequences of steps and tasks.
Names == Seq(Nat \X Nat)

\* What an orderly program says of the steps of a goroutine.
LEMMA StepFacts ==
    ASSUME OrderlyProgram, NEW g \in Goroutines
    PROVE  /\ DOMAIN StepsOf(g) = 1 .. Len(StepsOf(g)) /\ Len(StepsOf(g)) \in Nat
           /\ Below(g) \subseteq Goroutines
           /\ \A i \in DOMAIN StepsOf(g) :
                 /\ StepsOf(g)[i].kind \in {"page", "optional", "group"}
                 /\ StepsOf(g)[i].kind = "group" =>
                       /\ DOMAIN StepsOf(g)[i].tasks = 1 .. Len(StepsOf(g)[i].tasks)
                       /\ Len(StepsOf(g)[i].tasks) \in Nat
                 /\ StepsOf(g)[i].kind = "page" => StepsOf(g)[i].path # SearchIndex
                 /\ StepsOf(g)[i].kind = "optional" => StepsOf(g)[i].path = SearchIndex
  <1>1. StepsOf(g) \in Seq({StepsOf(g)[i] : i \in DOMAIN StepsOf(g)}) /\ Below(g) \subseteq Goroutines
    BY DEF OrderlyProgram, OrderlySteps
  <1>2. DOMAIN StepsOf(g) = 1 .. Len(StepsOf(g)) /\ Len(StepsOf(g)) \in Nat
    BY <1>1
  <1>3. ASSUME NEW i \in DOMAIN StepsOf(g)
        PROVE  /\ StepsOf(g)[i].kind \in {"page", "optional", "group"}
               /\ StepsOf(g)[i].kind = "group" =>
                     /\ DOMAIN StepsOf(g)[i].tasks = 1 .. Len(StepsOf(g)[i].tasks)
                     /\ Len(StepsOf(g)[i].tasks) \in Nat
               /\ StepsOf(g)[i].kind = "page" => StepsOf(g)[i].path # SearchIndex
               /\ StepsOf(g)[i].kind = "optional" => StepsOf(g)[i].path = SearchIndex
    <2> DEFINE step == StepsOf(g)[i]
    <2>1. /\ step.kind \in {"page", "optional", "group"}
          /\ step.kind = "group" => step.tasks \in Seq({step.tasks[k] : k \in DOMAIN step.tasks})
          /\ step.kind = "page" => step.path # SearchIndex
          /\ step.kind = "optional" => step.path = SearchIndex
      BY <1>3 DEF OrderlyProgram, OrderlySteps
    <2> HIDE DEF step
    <2>2. step.kind = "group" => DOMAIN step.tasks = 1 .. Len(step.tasks) /\ Len(step.tasks) \in Nat
      BY <2>1
    <2> QED
      BY <2>1, <2>2 DEF step
  <1> QED
    BY <1>1, <1>2, <1>3

\* The goroutine at which a name's n-th step is taken.
Way(g, n) == SubSeq(g, 1, n - 1)

\* The name of a child: its parent's, then the group and the task it was started for.
LEMMA BelowFacts ==
    ASSUME OrderlyProgram, NEW g \in Goroutines, g \in Names, NEW h \in Below(g)
    PROVE  /\ h \in Names /\ Len(h) = Len(g) + 1
           /\ \A n \in 1 .. Len(g) : h[n] = g[n]
           /\ h[Len(h)][1] \in DOMAIN StepsOf(g) /\ StepsOf(g)[h[Len(h)][1]].kind = "group"
           /\ h[Len(h)][2] \in DOMAIN StepsOf(g)[h[Len(h)][1]].tasks
           /\ h[Len(h)] \in (Nat \ {0}) \X (Nat \ {0})
  <1>0. PICK i \in DOMAIN StepsOf(g) :
           /\ StepsOf(g)[i].kind = "group"
           /\ \E k \in DOMAIN StepsOf(g)[i].tasks : h = Append(g, <<i, k>>)
    BY DEF Below, TurnsOf
  <1>1. PICK k \in DOMAIN StepsOf(g)[i].tasks : h = Append(g, <<i, k>>)
    BY <1>0
  <1>2. i \in Nat \ {0} /\ k \in Nat \ {0}
    BY <1>0, <1>1, StepFacts
  <1>3. h \in Names /\ Len(h) = Len(g) + 1 /\ h[Len(h)] = <<i, k>> /\ \A n \in 1 .. Len(g) : h[n] = g[n]
    BY <1>1, <1>2 DEF Names
  <1> QED
    BY <1>0, <1>1, <1>2, <1>3

\* A goroutine of the program is on the way from the main one.
OnWay(g) ==
    /\ g \in Names
    /\ \A n \in 1 .. Len(g) :
          /\ Way(g, n) \in Goroutines /\ g[n] \in (Nat \ {0}) \X (Nat \ {0})
          /\ g[n][1] \in DOMAIN StepsOf(Way(g, n)) /\ StepsOf(Way(g, n))[g[n][1]].kind = "group"
          /\ g[n][2] \in DOMAIN StepsOf(Way(g, n))[g[n][1]].tasks

\* Sequences of one length with the same elements are the same.
LEMMA SameSequence ==
    ASSUME NEW S, NEW s \in Seq(S), NEW t \in Seq(S), Len(s) = Len(t), \A i \in 1 .. Len(s) : s[i] = t[i]
    PROVE  s = t
  OBVIOUS

\* A way is the beginning of a name.
LEMMA WayFacts ==
    ASSUME NEW g \in Names, NEW n \in 1 .. Len(g) + 1
    PROVE  Way(g, n) \in Names /\ Len(Way(g, n)) = n - 1 /\ \A i \in 1 .. n - 1 : Way(g, n)[i] = g[i]
  BY DEF Names, Way

\* Names that begin alike lead the same way.
LEMMA WayOfPart ==
    ASSUME NEW g \in Names, NEW h \in Names, NEW m \in Nat, m <= Len(g), m <= Len(h),
           \A n \in 1 .. m : h[n] = g[n], NEW n \in 1 .. m + 1
    PROVE  Way(h, n) = Way(g, n)
  <1>1. n \in 1 .. Len(g) + 1 /\ n \in 1 .. Len(h) + 1
    BY DEF Names
  <1>2. /\ Way(h, n) \in Names /\ Len(Way(h, n)) = n - 1 /\ \A i \in 1 .. n - 1 : Way(h, n)[i] = h[i]
        /\ Way(g, n) \in Names /\ Len(Way(g, n)) = n - 1 /\ \A i \in 1 .. n - 1 : Way(g, n)[i] = g[i]
    BY <1>1, WayFacts
  <1>3. \A i \in 1 .. n - 1 : Way(h, n)[i] = Way(g, n)[i]
    BY <1>2
  <1>4. Len(Way(h, n)) = Len(Way(g, n))
    BY <1>2
  <1> QED
    BY <1>2, <1>3, <1>4, SameSequence DEF Names

\* The whole way leads to the goroutine itself.
LEMMA WayOfWhole ==
    ASSUME NEW g \in Names
    PROVE  Way(g, Len(g) + 1) = g
  BY DEF Names, Way

\* A way and its next step make the longer way.
LEMMA WayGrows ==
    ASSUME NEW g \in Names, NEW k \in 1 .. Len(g)
    PROVE  Append(Way(g, k), g[k]) = Way(g, k + 1)
  <1>1. Len(g) \in Nat /\ g[k] \in Nat \X Nat
    BY DEF Names
  <1>2. Way(g, k) \in Names /\ Len(Way(g, k)) = k - 1 /\ \A i \in 1 .. k - 1 : Way(g, k)[i] = g[i]
    BY <1>1 DEF Names, Way
  <1>3. Way(g, k + 1) \in Names /\ Len(Way(g, k + 1)) = k /\ \A i \in 1 .. k : Way(g, k + 1)[i] = g[i]
    BY <1>1 DEF Names, Way
  <1>4. Append(Way(g, k), g[k]) \in Names /\ Len(Append(Way(g, k), g[k])) = k
    BY <1>1, <1>2 DEF Names
  <1>5. \A i \in 1 .. k : Append(Way(g, k), g[k])[i] = Way(g, k + 1)[i]
    BY <1>1, <1>2, <1>3 DEF Names
  <1>6. Len(Append(Way(g, k), g[k])) = Len(Way(g, k + 1)) /\ k \in Nat
    BY <1>3, <1>4
  <1> QED
    BY <1>3, <1>4, <1>5, <1>6, SameSequence DEF Names

\* The children of a goroutine that is on the way are.
LEMMA OnWayBelow ==
    ASSUME OrderlyProgram, NEW g \in Goroutines, OnWay(g), NEW h \in Below(g)
    PROVE  OnWay(h)
  <1>0. g \in Names
    BY DEF OnWay
  <1>1. /\ h \in Names /\ Len(h) = Len(g) + 1 /\ Len(g) \in Nat
        /\ \A n \in 1 .. Len(g) : h[n] = g[n]
        /\ h[Len(h)][1] \in DOMAIN StepsOf(g) /\ StepsOf(g)[h[Len(h)][1]].kind = "group"
        /\ h[Len(h)][2] \in DOMAIN StepsOf(g)[h[Len(h)][1]].tasks
        /\ h[Len(h)] \in (Nat \ {0}) \X (Nat \ {0})
    BY <1>0, BelowFacts DEF Names
  <1>2. \A n \in 1 .. Len(h) : Way(h, n) = Way(g, n)
    <2> SUFFICES ASSUME NEW n \in 1 .. Len(g) + 1 PROVE Way(h, n) = Way(g, n)
      BY <1>1
    <2> QED
      BY <1>0, <1>1, WayOfPart
  <1>3. Way(h, Len(h)) = g
    BY <1>0, <1>1, <1>2, WayOfWhole
  <1>4. ASSUME NEW n \in 1 .. Len(h)
        PROVE  /\ Way(h, n) \in Goroutines /\ h[n] \in (Nat \ {0}) \X (Nat \ {0})
               /\ h[n][1] \in DOMAIN StepsOf(Way(h, n)) /\ StepsOf(Way(h, n))[h[n][1]].kind = "group"
               /\ h[n][2] \in DOMAIN StepsOf(Way(h, n))[h[n][1]].tasks
    <2>1. CASE n = Len(h)
      BY <1>1, <1>3, <2>1
    <2>2. CASE n # Len(h)
      <3>1. n \in 1 .. Len(g)
        BY <1>1, <2>2
      <3>2. h[n] = g[n] /\ Way(h, n) = Way(g, n)
        BY <1>1, <1>2, <3>1
      <3>3. /\ Way(g, n) \in Goroutines /\ g[n] \in (Nat \ {0}) \X (Nat \ {0})
            /\ g[n][1] \in DOMAIN StepsOf(Way(g, n)) /\ StepsOf(Way(g, n))[g[n][1]].kind = "group"
            /\ g[n][2] \in DOMAIN StepsOf(Way(g, n))[g[n][1]].tasks
        BY <3>1 DEF OnWay
      <3> QED
        BY <3>2, <3>3
    <2> QED
      BY <2>1, <2>2
  <1> QED
    BY <1>1, <1>4 DEF OnWay

\* So all goroutines of the program are, for there are three levels.
LEMMA AllOnWay ==
    ASSUME OrderlyProgram, NEW g \in Goroutines
    PROVE  OnWay(g)
  <1>1. Main \in Goroutines /\ Below(Main) \subseteq Goroutines
    BY DEF Goroutines, WithBelow
  <1>2. OnWay(Main)
    BY DEF OnWay, Main, Names
  <1>3. \A h \in Below(Main) : OnWay(h)
    BY <1>1, <1>2, OnWayBelow
  <1>4. ASSUME NEW h \in Below(Main), g \in Below(h) PROVE OnWay(g)
    BY <1>1, <1>3, <1>4, OnWayBelow
  <1>5. g = Main \/ g \in Below(Main) \/ \E h \in Below(Main) : g \in Below(h)
    BY DEF Goroutines, WithBelow
  <1> QED
    BY <1>2, <1>3, <1>4, <1>5

\* A goroutine is on the way to a place.
Leads(g, a) == Len(g) <= Len(a[1]) /\ Way(a[1], Len(g) + 1) = g

\* A place is a step of a goroutine that is no group.
LEMMA PlaceFacts ==
    ASSUME OrderlyProgram, NEW a \in Places
    PROVE  /\ a = <<a[1], a[2]>> /\ a[1] \in Goroutines /\ a[1] \in Names /\ Len(a[1]) \in Nat
           /\ a[2] \in DOMAIN StepsOf(a[1]) /\ StepsOf(a[1])[a[2]].kind # "group"
           /\ Leads(a[1], a)
  <1>1. PICK g \in Goroutines : a \in {<<g, i>> : i \in {j \in DOMAIN StepsOf(g) : StepsOf(g)[j].kind # "group"}}
    BY DEF Places, PagesOf
  <1>2. PICK i \in DOMAIN StepsOf(g) : a = <<g, i>> /\ StepsOf(g)[i].kind # "group"
    BY <1>1
  <1>3. a[1] = g /\ a[2] = i
    BY <1>2
  <1>4. g \in Names /\ Len(g) \in Nat
    BY AllOnWay DEF OnWay, Names
  <1>5. Leads(g, a)
    BY <1>3, <1>4, WayOfWhole DEF Leads
  <1> QED
    BY <1>1, <1>2, <1>3, <1>4, <1>5

\* The step that a goroutine on the way takes towards a place: a group that starts the next
\* goroutine on the way or, at the end of the way, the place.
LEMMA StepToFacts ==
    ASSUME OrderlyProgram, NEW a \in Places, NEW g \in Goroutines, Leads(g, a)
    PROVE  /\ StepTo(a, Len(g) + 1) \in DOMAIN StepsOf(g)
           /\ Len(g) < Len(a[1]) =>
                 /\ StepTo(a, Len(g) + 1) = a[1][Len(g) + 1][1]
                 /\ StepsOf(g)[StepTo(a, Len(g) + 1)].kind = "group"
                 /\ a[1][Len(g) + 1][2] \in DOMAIN StepsOf(g)[StepTo(a, Len(g) + 1)].tasks
                 /\ a[1][Len(g) + 1] \in (Nat \ {0}) \X (Nat \ {0})
           /\ ~(Len(g) < Len(a[1])) =>
                 /\ a[1] = g /\ a = <<g, StepTo(a, Len(g) + 1)>>
                 /\ StepsOf(g)[StepTo(a, Len(g) + 1)].kind # "group"
  <1>0. g \in Names /\ Len(g) \in Nat /\ OnWay(a[1])
    BY AllOnWay, PlaceFacts DEF OnWay, Names
  <1>1. CASE Len(g) < Len(a[1])
    <2>1. Len(g) + 1 \in 1 .. Len(a[1]) /\ Way(a[1], Len(g) + 1) = g
      BY <1>0, <1>1, PlaceFacts DEF Leads
    <2>2. /\ a[1][Len(g) + 1] \in (Nat \ {0}) \X (Nat \ {0})
          /\ a[1][Len(g) + 1][1] \in DOMAIN StepsOf(g)
          /\ StepsOf(g)[a[1][Len(g) + 1][1]].kind = "group"
          /\ a[1][Len(g) + 1][2] \in DOMAIN StepsOf(g)[a[1][Len(g) + 1][1]].tasks
      BY <1>0, <2>1 DEF OnWay
    <2>3. StepTo(a, Len(g) + 1) = a[1][Len(g) + 1][1]
      BY <2>1 DEF StepTo
    <2> QED
      BY <1>1, <2>2, <2>3
  <1>2. CASE ~(Len(g) < Len(a[1]))
    <2>1. Len(g) = Len(a[1])
      BY <1>0, <1>2, PlaceFacts DEF Leads
    <2>2. a[1] = g
      BY <1>0, <2>1, WayOfWhole, PlaceFacts DEF Leads
    <2>3. StepTo(a, Len(g) + 1) = a[2]
      BY <1>0, <2>1 DEF StepTo
    <2> QED
      BY <1>2, <2>2, <2>3, PlaceFacts
  <1> QED
    BY <1>1, <1>2

-----------------------------------------------------------------------------
(* The goroutines.                                                         *)

\* Where the goroutines are: at a step of theirs or at their end, and no group has started more
\* tasks than it has.
Shape ==
    /\ DOMAIN tasks \subseteq Goroutines /\ Main \in DOMAIN tasks
    /\ tasks = [g \in DOMAIN tasks |-> tasks[g]]
    /\ \A g \in DOMAIN tasks :
          /\ tasks[g] \in [at : Nat \ {0}, started : Nat, failed : BOOLEAN]
          /\ tasks[g].at <= Len(StepsOf(g)) + 1
          /\ tasks[g].started > 0 => AtStep(g, "group") \/ Ended(g)
          /\ AtStep(g, "group") => tasks[g].started <= Len(StepOf(g).tasks)

\* Whoever started a goroutine waits for it at the group it is of.
Tree ==
    \A g \in DOMAIN tasks : \A n \in 1 .. Len(g) :
        /\ Way(g, n) \in DOMAIN tasks
        /\ g[n][1] = tasks[Way(g, n)].at /\ g[n][2] <= tasks[Way(g, n)].started

\* A place is passed when a goroutine that leads to it is beyond the step towards it, or at the
\* group but no longer running the task.
PassedAt(g, a) ==
    /\ Leads(g, a)
    /\ \/ StepTo(a, Len(g) + 1) < tasks[g].at
       \/ /\ Len(g) < Len(a[1])
          /\ a[1][Len(g) + 1][1] = tasks[g].at /\ a[1][Len(g) + 1][2] <= tasks[g].started
          /\ Append(g, a[1][Len(g) + 1]) \notin DOMAIN tasks
Passed(a) == \E g \in DOMAIN tasks : PassedAt(g, a)

\* A goroutine that is still there has failed, or one of its children has.
Tainted == \E g \in DOMAIN tasks : tasks[g].failed

\* Of the places passed that write one page the last has left it on the disk.
PagesThere ==
    \A a \in Places :
        (/\ Passed(a) /\ PageAt(a).path # SearchIndex
         /\ \A b \in Places : Passed(b) /\ PageAt(b).path = PageAt(a).path => ~Before(a, b))
            => PageAt(a).path \in DOMAIN disk /\ disk[PageAt(a).path] = PageAt(a).tmpl

\* generateSite returns when its own goroutine has ended.
ReturnedInv ==
    /\ result # "running" => Ended(Main)
    /\ result = "ok" => ~tasks[Main].failed

\* The inductive invariant of the rendering.
RenderInv == Shape /\ Tree /\ (~Tainted => PagesThere) /\ ReturnedInv

\* What Shape says of a goroutine.
LEMMA AtFacts ==
    ASSUME OrderlyProgram, Shape, NEW g \in DOMAIN tasks
    PROVE  /\ g \in Goroutines /\ g \in Names /\ OnWay(g) /\ Len(g) \in Nat
           /\ tasks[g].at \in Nat \ {0} /\ tasks[g].started \in Nat /\ tasks[g].failed \in BOOLEAN
           /\ Len(StepsOf(g)) \in Nat /\ tasks[g].at <= Len(StepsOf(g)) + 1
           /\ ~Ended(g) => tasks[g].at \in DOMAIN StepsOf(g)
           /\ Ended(g) => tasks[g].at = Len(StepsOf(g)) + 1
  <1>1. g \in Goroutines /\ tasks[g] \in [at : Nat \ {0}, started : Nat, failed : BOOLEAN]
        /\ tasks[g].at <= Len(StepsOf(g)) + 1
    BY DEF Shape
  <1>2. DOMAIN StepsOf(g) = 1 .. Len(StepsOf(g)) /\ Len(StepsOf(g)) \in Nat
    BY <1>1, StepFacts
  <1>3. OnWay(g) /\ g \in Names /\ Len(g) \in Nat
    BY <1>1, AllOnWay DEF OnWay, Names
  <1> QED
    BY <1>1, <1>2, <1>3 DEF Ended

\* Where the way to a live goroutine or to its step goes, the goroutines on it are.
LEMMA OnlyWay ==
    ASSUME OrderlyProgram, Shape, Tree, NEW g \in DOMAIN tasks, NEW n \in 1 .. Len(g) + 1
    PROVE  /\ Way(g, n) \in DOMAIN tasks
           /\ StepTo(<<g, tasks[g].at>>, n) = tasks[Way(g, n)].at
  <1>0. g \in Names /\ Len(g) \in Nat
    BY AtFacts
  <1>1. CASE n = Len(g) + 1
    BY <1>0, <1>1, WayOfWhole DEF StepTo
  <1>2. CASE n \in 1 .. Len(g)
    BY <1>0, <1>2 DEF Tree, StepTo
  <1> QED
    BY <1>0, <1>1, <1>2

\* Nobody is below a goroutine that is not at a group.
LEMMA NobodyBelowEnded ==
    ASSUME OrderlyProgram, Shape, Tree, NEW g \in DOMAIN tasks, Ended(g) \/ ~AtStep(g, "group"),
           NEW h \in DOMAIN tasks, NEW n \in 1 .. Len(h)
    PROVE  Way(h, n) # g
  <1> SUFFICES ASSUME Way(h, n) = g PROVE FALSE
    OBVIOUS
  <1>1. h[n][1] \in DOMAIN StepsOf(g) /\ StepsOf(g)[h[n][1]].kind = "group"
    BY AtFacts DEF OnWay
  <1>2. h[n][1] = tasks[g].at
    BY DEF Tree
  <1> QED
    BY <1>1, <1>2, AtFacts, StepFacts DEF AtStep, StepOf, Ended

\* A goroutine that writes is at a place.
LEMMA CurrentIsPlace ==
    ASSUME OrderlyProgram, Shape, NEW g \in DOMAIN tasks, AtStep(g, "page") \/ AtStep(g, "optional")
    PROVE  /\ <<g, tasks[g].at>> \in Places /\ PageAt(<<g, tasks[g].at>>) = StepOf(g)
           /\ Leads(g, <<g, tasks[g].at>>)
  <1>1. tasks[g].at \in DOMAIN StepsOf(g) /\ StepsOf(g)[tasks[g].at].kind # "group" /\ g \in Goroutines
    BY AtFacts DEF AtStep, StepOf
  <1>2. <<g, tasks[g].at>> \in Places
    BY <1>1 DEF Places, PagesOf
  <1> QED
    BY <1>1, <1>2, PlaceFacts DEF PageAt, StepOf

\* No place that comes after one that is being written has been passed.
LEMMA PassedNotAfter ==
    ASSUME OrderlyProgram, Shape, Tree, NEW g \in DOMAIN tasks, AtStep(g, "page") \/ AtStep(g, "optional"),
           NEW a \in Places, Passed(a)
    PROVE  ~Before(<<g, tasks[g].at>>, a)
  <1> DEFINE a0 == <<g, tasks[g].at>>
  <1> SUFFICES ASSUME Before(a0, a) PROVE FALSE
    OBVIOUS
  <1>0. a0[1] = g /\ g \in Names /\ Len(g) \in Nat /\ a[1] \in Names /\ Len(a[1]) \in Nat
    BY AtFacts, PlaceFacts
  <1>1. PICK n \in 1 .. Len(g) + 1 :
           /\ n <= Len(a[1]) + 1 /\ \A m \in 1 .. n - 1 : g[m] = a[1][m]
           /\ StepTo(a0, n) < StepTo(a, n)
    BY <1>0 DEF Before
  <1>2. PICK h \in DOMAIN tasks :
           /\ Leads(h, a)
           /\ \/ StepTo(a, Len(h) + 1) < tasks[h].at
              \/ /\ Len(h) < Len(a[1])
                 /\ a[1][Len(h) + 1][1] = tasks[h].at /\ a[1][Len(h) + 1][2] <= tasks[h].started
                 /\ Append(h, a[1][Len(h) + 1]) \notin DOMAIN tasks
    BY DEF Passed, PassedAt
  <1> HIDE DEF a0
  <1>3. /\ h \in Names /\ Len(h) \in Nat /\ Len(h) <= Len(a[1])
        /\ Way(a[1], Len(h) + 1) = h /\ h \in Goroutines
    BY <1>2, AtFacts DEF Leads
  <1>4. \A m \in 1 .. n : Way(a[1], m) = Way(g, m)
    <2>1. n - 1 \in Nat /\ n - 1 <= Len(g) /\ n - 1 <= Len(a[1]) /\ \A m \in 1 .. n - 1 : a[1][m] = g[m]
      BY <1>0, <1>1
    <2>2. \A m \in 1 .. (n - 1) + 1 : Way(a[1], m) = Way(g, m)
      BY <1>0, <2>1, WayOfPart
    <2> QED
      BY <1>0, <2>2
  <1>5. \A m \in 1 .. Len(h) : h[m] = a[1][m]
    BY <1>0, <1>3 DEF Way, Names
  <1>6. \A m \in 1 .. Len(h) + 1 : Way(h, m) = Way(a[1], m)
    <2>1. Len(h) <= Len(h)
      BY <1>3
    <2> QED
      BY <1>0, <1>3, <1>5, <2>1, WayOfPart
  <1>7. StepTo(a0, n) = tasks[Way(g, n)].at /\ tasks[Way(g, n)].at \in Nat
    BY <1>1, OnlyWay, AtFacts DEF a0
  <1>8. CASE n <= Len(h)
    <2>1. Way(h, n) = Way(g, n)
      BY <1>0, <1>1, <1>3, <1>4, <1>6, <1>8
    <2>2. h[n][1] = tasks[Way(g, n)].at
      BY <1>1, <1>3, <1>8, <2>1 DEF Tree
    <2>3. StepTo(a, n) = h[n][1]
      BY <1>1, <1>3, <1>5, <1>8 DEF StepTo
    <2> QED
      BY <1>1, <1>7, <2>2, <2>3
  <1>9. CASE n = Len(h) + 1
    <2>1. Way(g, n) = h
      BY <1>1, <1>3, <1>4, <1>9
    <2>2. StepTo(a, n) <= tasks[h].at
      <3>1. StepTo(a, n) \in Nat
        BY <1>2, <1>3, <1>9, StepToFacts, StepFacts
      <3> QED
        BY <1>2, <1>3, <1>7, <1>9, <2>1, <3>1 DEF StepTo
    <2> QED
      BY <1>1, <1>2, <1>7, <2>1, <2>2, <1>3, <1>9, StepToFacts, StepFacts
  <1>10. CASE Len(h) + 1 < n
    <2> DEFINE k == Len(h) + 1
    <2>1. k \in 1 .. Len(g) /\ k \in 1 .. n - 1 /\ k <= Len(a[1])
      BY <1>0, <1>1, <1>3, <1>10
    <2>2. Way(g, k) = h
      BY <1>3, <1>4, <2>1
    <2>3. g[k] = a[1][k] /\ g[k][1] = tasks[h].at
      BY <1>1, <2>1, <2>2 DEF Tree
    <2>4. StepTo(a, k) = tasks[h].at
      BY <2>1, <2>3 DEF StepTo
    <2>5. Append(h, a[1][k]) = Way(g, k + 1)
      BY <1>0, <1>3, <2>1, <2>2, <2>3, WayGrows
    <2>6. Way(g, k + 1) \in DOMAIN tasks
      <3>1. k + 1 \in 1 .. Len(g) + 1
        BY <1>0, <1>3, <2>1
      <3> QED
        BY <3>1, OnlyWay
    <2>7. tasks[h].at \in Nat
      BY AtFacts
    <2> QED
      BY <1>2, <2>4, <2>5, <2>6, <2>7
  <1> QED
    BY <1>1, <1>3, <1>8, <1>9, <1>10

\* A goroutine takes a step that is no group.
LEMMA PassedByStep ==
    ASSUME OrderlyProgram, Shape, Tree, NEW g \in DOMAIN tasks, AtStep(g, "page") \/ AtStep(g, "optional"),
           tasks' = NextStep(g), NEW a \in Places
    PROVE  Passed(a)' <=> Passed(a) \/ a = <<g, tasks[g].at>>
  <1>1. /\ DOMAIN tasks' = DOMAIN tasks
        /\ \A h \in DOMAIN tasks : /\ tasks'[h].started = tasks[h].started
                                   /\ tasks'[h].at = IF h = g THEN tasks[h].at + 1 ELSE tasks[h].at
    BY DEF NextStep, Shape
  <1>2. tasks[g].started = 0 /\ tasks[g].at \in Nat /\ g \in Goroutines /\ g \in Names
    BY AtFacts DEF Shape, AtStep
  <1>3. ASSUME NEW h \in DOMAIN tasks, Leads(h, a)
        PROVE  /\ StepTo(a, Len(h) + 1) \in Nat
               /\ Len(h) < Len(a[1]) => a[1][Len(h) + 1][2] \in Nat \ {0}
    BY <1>3, AtFacts, StepToFacts, StepFacts
  <1>4. ASSUME Passed(a)' PROVE Passed(a) \/ a = <<g, tasks[g].at>>
    <2>1. PICK h \in DOMAIN tasks :
             /\ Leads(h, a)
             /\ \/ StepTo(a, Len(h) + 1) < tasks'[h].at
                \/ /\ Len(h) < Len(a[1])
                   /\ a[1][Len(h) + 1][1] = tasks'[h].at /\ a[1][Len(h) + 1][2] <= tasks[h].started
                   /\ Append(h, a[1][Len(h) + 1]) \notin DOMAIN tasks
      BY <1>1, <1>4 DEF Passed, PassedAt
    <2>2. CASE h # g
      BY <1>1, <2>1, <2>2 DEF Passed, PassedAt
    <2>3. CASE h = g
      <3>1. StepTo(a, Len(g) + 1) < tasks[g].at + 1
        BY <1>1, <1>2, <1>3, <2>1, <2>3
      <3>2. CASE StepTo(a, Len(g) + 1) < tasks[g].at
        BY <2>1, <2>3, <3>2 DEF Passed, PassedAt
      <3>3. CASE StepTo(a, Len(g) + 1) = tasks[g].at
        <4>1. StepsOf(g)[tasks[g].at].kind # "group"
          BY DEF AtStep, StepOf
        <4> QED
          BY <1>2, <2>1, <2>3, <3>3, <4>1, StepToFacts
      <3> QED
        BY <1>2, <1>3, <2>1, <2>3, <3>1, <3>2, <3>3
    <2> QED
      BY <2>2, <2>3
  <1>5. ASSUME Passed(a) PROVE Passed(a)'
    <2>1. PICK h \in DOMAIN tasks :
             /\ Leads(h, a)
             /\ \/ StepTo(a, Len(h) + 1) < tasks[h].at
                \/ /\ Len(h) < Len(a[1])
                   /\ a[1][Len(h) + 1][1] = tasks[h].at /\ a[1][Len(h) + 1][2] <= tasks[h].started
                   /\ Append(h, a[1][Len(h) + 1]) \notin DOMAIN tasks
      BY <1>5 DEF Passed, PassedAt
    <2>2. CASE h # g
      BY <1>1, <2>1, <2>2 DEF Passed, PassedAt
    <2>3. CASE h = g
      <3>1. StepTo(a, Len(g) + 1) < tasks[g].at
        BY <1>2, <1>3, <2>1, <2>3
      <3>2. StepTo(a, Len(g) + 1) < tasks'[g].at
        BY <1>1, <1>2, <1>3, <2>1, <2>3, <3>1
      <3> QED
        BY <1>1, <2>1, <2>3, <3>2 DEF Passed, PassedAt
    <2> QED
      BY <2>2, <2>3
  <1>6. ASSUME a = <<g, tasks[g].at>> PROVE Passed(a)'
    <2>1. Leads(g, a) /\ StepTo(a, Len(g) + 1) = tasks[g].at
      BY <1>2, <1>6, CurrentIsPlace DEF StepTo, Names
    <2> QED
      BY <1>1, <1>2, <2>1 DEF Passed, PassedAt
  <1> QED
    BY <1>4, <1>5, <1>6

\* Two steps from two goroutines lead to two names.
LEMMA AppendsDiffer ==
    ASSUME NEW g \in Names, NEW h \in Names, NEW x \in Nat \X Nat, NEW y \in Nat \X Nat,
           Append(g, x) = Append(h, y)
    PROVE  g = h /\ x = y
  <1>1. Len(g) = Len(h) /\ Len(g) \in Nat
    BY DEF Names
  <1>2. x = y
    <2>1. Append(g, x)[Len(g) + 1] = x /\ Append(h, y)[Len(h) + 1] = y
      BY DEF Names
    <2> QED
      BY <1>1, <2>1
  <1>3. ASSUME NEW i \in 1 .. Len(g) PROVE g[i] = h[i]
    <2>1. Append(g, x)[i] = g[i] /\ Append(h, y)[i] = h[i]
      BY <1>1 DEF Names
    <2> QED
      BY <2>1
  <1> QED
    BY <1>1, <1>2, <1>3, SameSequence DEF Names

\* A goroutine that is started: its name, and what becomes of the tasks.
Child(g) == Append(g, <<tasks[g].at, tasks[g].started + 1>>)

\* What Spawn does to the tasks.
LEMMA SpawnFacts ==
    ASSUME OrderlyProgram, Shape, Tree, NEW g \in DOMAIN tasks, Spawn(g)
    PROVE  /\ Child(g) \in Below(g) /\ Child(g) \in Goroutines /\ Child(g) \in Names
           /\ Len(Child(g)) = Len(g) + 1
           /\ Child(g) \notin DOMAIN tasks /\ DOMAIN tasks' = DOMAIN tasks \cup {Child(g)}
           /\ tasks'[Child(g)] = Fresh
           /\ tasks'[g] = [tasks[g] EXCEPT !.started = @ + 1]
           /\ \A h \in DOMAIN tasks : h # g => tasks'[h] = tasks[h]
           /\ tasks' = [h \in DOMAIN tasks' |-> tasks'[h]]
           /\ <<tasks[g].at, tasks[g].started + 1>> \in Nat \X Nat
  <1>1. /\ tasks[g].at \in DOMAIN StepsOf(g) /\ StepsOf(g)[tasks[g].at].kind = "group"
        /\ tasks[g].started < Len(StepsOf(g)[tasks[g].at].tasks)
        /\ g \in Goroutines /\ g \in Names /\ tasks[g].at \in Nat /\ tasks[g].started \in Nat
    BY AtFacts DEF Spawn, AtStep, StepOf
  <1>2. tasks[g].started + 1 \in DOMAIN StepsOf(g)[tasks[g].at].tasks
    BY <1>1, StepFacts
  <1>3. Child(g) \in Below(g)
    <2>1. <<tasks[g].at, tasks[g].started + 1>> \in TurnsOf(StepsOf(g))
      BY <1>1, <1>2 DEF TurnsOf
    <2> QED
      BY <2>1 DEF Child, Below
  <1>4. Child(g) \in Goroutines
    BY <1>1, <1>3, StepFacts
  <1>5. Child(g) \in Names /\ Len(Child(g)) = Len(g) + 1
    BY <1>1, <1>3, BelowFacts
  <1>6. Child(g) \notin DOMAIN tasks
    <2> SUFFICES ASSUME Child(g) \in DOMAIN tasks PROVE FALSE
      OBVIOUS
    <2>1. Len(g) + 1 \in 1 .. Len(Child(g)) /\ Len(g) \in Nat
      BY <1>1, <1>5 DEF Names
    <2>2. Child(g)[Len(g) + 1] = <<tasks[g].at, tasks[g].started + 1>>
      BY <1>1 DEF Child, Names
    <2>3. Way(Child(g), Len(g) + 1) = g
      <3>1. \A n \in 1 .. Len(g) : Child(g)[n] = g[n]
        BY <1>1, <1>3, BelowFacts
      <3>2. Len(g) <= Len(g) /\ Len(g) <= Len(Child(g)) /\ Len(g) + 1 \in 1 .. Len(g) + 1
        BY <1>5, <2>1
      <3>3. Way(Child(g), Len(g) + 1) = Way(g, Len(g) + 1)
        BY <1>1, <1>5, <2>1, <3>1, <3>2, WayOfPart
      <3> QED
        BY <1>1, <3>3, WayOfWhole
    <2>4. tasks[g].started + 1 <= tasks[g].started
      BY <2>1, <2>2, <2>3 DEF Tree
    <2> QED
      BY <1>1, <2>4
  <1>7. tasks' = [h \in DOMAIN tasks \cup {Child(g)} |->
                    IF h = Child(g) THEN Fresh
                    ELSE IF h = g THEN [tasks[g] EXCEPT !.started = @ + 1] ELSE tasks[h]]
    BY DEF Spawn, Child
  <1> QED
    BY <1>1, <1>3, <1>4, <1>5, <1>6, <1>7

\* A start passes no place: the places of the new goroutine were not passed and are not.
LEMMA PassedBySpawn ==
    ASSUME OrderlyProgram, Shape, Tree, NEW g \in DOMAIN tasks, Spawn(g), NEW a \in Places
    PROVE  Passed(a)' <=> Passed(a)
  <1> DEFINE x == <<tasks[g].at, tasks[g].started + 1>>
  <1>1. /\ DOMAIN tasks' = DOMAIN tasks \cup {Child(g)} /\ Child(g) \notin DOMAIN tasks
        /\ \A h \in DOMAIN tasks : h # g => tasks'[h] = tasks[h]
        /\ tasks'[g].at = tasks[g].at /\ tasks'[g].started = tasks[g].started + 1
        /\ tasks'[Child(g)].at = 1 /\ tasks'[Child(g)].started = 0 /\ x \in Nat \X Nat
        /\ Child(g) \in Goroutines /\ g \in Names /\ g \in Goroutines
        /\ tasks[g].at \in Nat /\ tasks[g].started \in Nat
    <2>1. tasks[g] \in [at : Nat \ {0}, started : Nat, failed : BOOLEAN]
      BY DEF Shape
    <2>2. tasks'[g] = [tasks[g] EXCEPT !.started = @ + 1] /\ tasks'[Child(g)] = Fresh
      BY SpawnFacts
    <2>3. tasks'[g].at = tasks[g].at /\ tasks'[g].started = tasks[g].started + 1
      BY <2>1, <2>2
    <2>4. tasks'[Child(g)].at = 1 /\ tasks'[Child(g)].started = 0
      BY <2>2 DEF Fresh
    <2> QED
      BY <2>3, <2>4, SpawnFacts, AtFacts
  <1>2. ASSUME NEW h \in Goroutines, Leads(h, a)
        PROVE  /\ StepTo(a, Len(h) + 1) \in Nat \ {0}
               /\ Len(h) < Len(a[1]) => a[1][Len(h) + 1] \in (Nat \ {0}) \X (Nat \ {0})
    BY <1>2, StepToFacts, StepFacts
  <1>3. Child(g) = Append(g, x)
    BY DEF Child
  <1> HIDE DEF x
  <1>4. ASSUME Passed(a)' PROVE Passed(a)
    <2>1. PICK h \in DOMAIN tasks' : PassedAt(h, a)'
      BY <1>4 DEF Passed
    <2>2. CASE h = Child(g)
      BY <1>1, <1>2, <2>1, <2>2 DEF PassedAt
    <2>3. CASE h = g
      <3>1. CASE StepTo(a, Len(g) + 1) < tasks[g].at
        BY <1>1, <2>1, <2>3, <3>1 DEF Passed, PassedAt
      <3>2. CASE /\ Len(g) < Len(a[1])
                 /\ a[1][Len(g) + 1][1] = tasks[g].at /\ a[1][Len(g) + 1][2] <= tasks[g].started + 1
                 /\ Append(g, a[1][Len(g) + 1]) \notin DOMAIN tasks'
        <4>1. a[1][Len(g) + 1][2] # tasks[g].started + 1
          BY <1>1, <1>2, <1>3, <2>1, <2>3, <3>2 DEF PassedAt, x
        <4>2. a[1][Len(g) + 1][2] <= tasks[g].started
          BY <1>1, <1>2, <2>1, <2>3, <3>2, <4>1 DEF PassedAt
        <4> QED
          BY <1>1, <2>1, <2>3, <3>2, <4>2 DEF Passed, PassedAt
      <3> QED
        BY <1>1, <2>1, <2>3, <3>1, <3>2 DEF PassedAt
    <2>4. CASE h # g /\ h # Child(g)
      BY <1>1, <2>1, <2>4 DEF Passed, PassedAt
    <2> QED
      BY <2>2, <2>3, <2>4
  <1>5. ASSUME Passed(a) PROVE Passed(a)'
    <2>1. PICK h \in DOMAIN tasks : PassedAt(h, a)
      BY <1>5 DEF Passed
    <2>2. tasks'[h].at = tasks[h].at
      BY <1>1
    <2>3. CASE StepTo(a, Len(h) + 1) < tasks[h].at
      BY <1>1, <2>1, <2>2, <2>3 DEF Passed, PassedAt
    <2>4. CASE /\ Len(h) < Len(a[1])
               /\ a[1][Len(h) + 1][1] = tasks[h].at /\ a[1][Len(h) + 1][2] <= tasks[h].started
               /\ Append(h, a[1][Len(h) + 1]) \notin DOMAIN tasks
      <3> DEFINE y == a[1][Len(h) + 1]
      <3>1. h \in Goroutines /\ h \in Names /\ Leads(h, a) /\ tasks[h].started \in Nat
        BY <2>1, AtFacts DEF PassedAt
      <3>2. y \in Nat \X Nat /\ y[2] \in Nat
        BY <1>2, <2>4, <3>1
      <3>3. Append(h, y) # Child(g)
        <4> HIDE DEF y
        <4> SUFFICES ASSUME Append(h, y) = Append(g, x) PROVE FALSE
          BY <1>3
        <4>1. h = g /\ y = x
          BY <1>1, <3>1, <3>2, AppendsDiffer
        <4>2. y[2] <= tasks[g].started
          BY <2>4, <4>1 DEF y
        <4> QED
          BY <1>1, <4>1, <4>2 DEF x
      <3>4. y[2] <= tasks'[h].started
        <4>1. tasks'[h].started \in Nat /\ tasks[h].started <= tasks'[h].started
          BY <1>1, <3>1
        <4>2. y[2] <= tasks[h].started
          BY <2>4
        <4> HIDE DEF y
        <4> QED
          BY <3>1, <3>2, <4>1, <4>2
      <3> QED
        BY <1>1, <2>1, <2>2, <2>4, <3>3, <3>4 DEF Passed, PassedAt
    <2> QED
      BY <2>1, <2>3, <2>4 DEF PassedAt
  <1> QED
    BY <1>4, <1>5

\* What End does to the tasks.
LEMMA EndFacts ==
    ASSUME OrderlyProgram, Shape, Tree, NEW g \in DOMAIN tasks, End(g)
    PROVE  /\ g # Main /\ Ended(g) /\ Len(g) \in Nat \ {0} /\ Parent(g) = Way(g, Len(g))
           /\ Parent(g) \in DOMAIN tasks /\ Parent(g) # g /\ Len(Parent(g)) = Len(g) - 1
           /\ g = Append(Parent(g), g[Len(g)])
           /\ g[Len(g)][1] = tasks[Parent(g)].at /\ g[Len(g)][2] <= tasks[Parent(g)].started
           /\ DOMAIN tasks' = DOMAIN tasks \ {g}
           /\ \A h \in DOMAIN tasks' : /\ tasks'[h].at = tasks[h].at /\ tasks'[h].started = tasks[h].started
                                       /\ tasks'[h].failed = (tasks[h].failed \/ (h = Parent(g) /\ tasks[g].failed))
                                       /\ tasks'[h] \in [at : Nat \ {0}, started : Nat, failed : BOOLEAN]
           /\ tasks' = [h \in DOMAIN tasks' |-> tasks'[h]]
  <1>1. g # Main /\ Ended(g) /\ g \in Names /\ Len(g) \in Nat
    BY AtFacts DEF End
  <1>2. Len(g) # 0
    BY <1>1 DEF Main, Names
  <1>3. Parent(g) = Way(g, Len(g))
    BY <1>1 DEF Parent, Front, Way
  <1>4. Len(g) \in 1 .. Len(g)
    BY <1>1, <1>2
  <1>5. Parent(g) \in DOMAIN tasks /\ g[Len(g)][1] = tasks[Parent(g)].at /\ g[Len(g)][2] <= tasks[Parent(g)].started
    BY <1>3, <1>4 DEF Tree
  <1>6. g = Append(Parent(g), g[Len(g)])
    <2>1. Append(Way(g, Len(g)), g[Len(g)]) = Way(g, Len(g) + 1)
      BY <1>1, <1>4, WayGrows
    <2> QED
      BY <1>1, <1>3, <2>1, WayOfWhole
  <1>7. Len(Parent(g)) = Len(g) - 1 /\ Parent(g) # g
    <2>1. Len(g) \in 1 .. Len(g) + 1
      BY <1>1, <1>2
    <2>2. Len(Parent(g)) = Len(g) - 1
      BY <1>1, <1>3, <2>1, WayFacts
    <2> QED
      BY <1>1, <2>2
  <1>8. tasks' = [h \in DOMAIN tasks \ {g} |->
                    IF h = Parent(g) THEN [tasks[h] EXCEPT !.failed = @ \/ tasks[g].failed] ELSE tasks[h]]
    BY DEF End
  <1>9. ASSUME NEW h \in DOMAIN tasks'
        PROVE  /\ tasks'[h].at = tasks[h].at /\ tasks'[h].started = tasks[h].started
               /\ tasks'[h].failed = (tasks[h].failed \/ (h = Parent(g) /\ tasks[g].failed))
               /\ tasks'[h] \in [at : Nat \ {0}, started : Nat, failed : BOOLEAN]
    <2>1. /\ tasks[h] \in [at : Nat \ {0}, started : Nat, failed : BOOLEAN]
          /\ tasks[g] \in [at : Nat \ {0}, started : Nat, failed : BOOLEAN]
          /\ h \in DOMAIN tasks \ {g}
      BY <1>8 DEF Shape
    <2>2. CASE h = Parent(g)
      BY <1>8, <2>1, <2>2
    <2>3. CASE h # Parent(g)
      BY <1>8, <2>1, <2>3
    <2> QED
      BY <2>2, <2>3
  <1>10. DOMAIN tasks' = DOMAIN tasks \ {g} /\ tasks' = [h \in DOMAIN tasks' |-> tasks'[h]]
    BY <1>8
  <1> QED
    BY <1>1, <1>2, <1>3, <1>5, <1>6, <1>7, <1>9, <1>10

\* Nor does an end: the places of the goroutine have been passed, and stay so as its parent's.
LEMMA PassedByEnd ==
    ASSUME OrderlyProgram, Shape, Tree, NEW g \in DOMAIN tasks, End(g), NEW a \in Places
    PROVE  Passed(a)' <=> Passed(a)
  <1> DEFINE p == Parent(g)
  <1>1. /\ Ended(g) /\ Len(g) \in Nat \ {0} /\ p = Way(g, Len(g))
        /\ p \in DOMAIN tasks /\ p # g /\ Len(p) = Len(g) - 1 /\ g = Append(p, g[Len(g)])
        /\ g[Len(g)][1] = tasks[p].at /\ g[Len(g)][2] <= tasks[p].started
        /\ DOMAIN tasks' = DOMAIN tasks \ {g}
        /\ \A h \in DOMAIN tasks' : tasks'[h].at = tasks[h].at /\ tasks'[h].started = tasks[h].started
    BY EndFacts
  <1>2. g \in Goroutines /\ g \in Names /\ p \in Names /\ Len(p) \in Nat /\ a[1] \in Names /\ Len(a[1]) \in Nat
    BY <1>1, AtFacts, PlaceFacts
  <1> HIDE DEF p
  <1>3. ASSUME Passed(a)' PROVE Passed(a)
    <2>1. PICK h \in DOMAIN tasks' : PassedAt(h, a)'
      BY <1>3 DEF Passed
    <2>2. h \in DOMAIN tasks /\ tasks'[h].at = tasks[h].at /\ tasks'[h].started = tasks[h].started
      BY <1>1
    <2>3. CASE PassedAt(h, a)
      BY <2>2, <2>3 DEF Passed
    <2>4. CASE ~PassedAt(h, a)
      <3>1. Len(h) < Len(a[1]) /\ Append(h, a[1][Len(h) + 1]) = g /\ Leads(h, a)
        BY <1>1, <2>1, <2>2, <2>4 DEF PassedAt
      <3>2. h \in Names /\ Len(h) \in Nat /\ Len(g) = Len(h) + 1 /\ Len(h) + 1 \in 1 .. Len(a[1])
        <4>1. h \in Names /\ Len(h) \in Nat /\ Len(h) + 1 \in 1 .. Len(a[1])
          BY <1>2, <2>2, <3>1, AtFacts
        <4>2. a[1][Len(h) + 1] \in Nat \X Nat
          BY <1>2, <4>1 DEF Names
        <4> QED
          BY <3>1, <4>1, <4>2 DEF Names
      <3>3. Way(a[1], Len(h) + 1) = h
        BY <3>1 DEF Leads
      <3>4. Way(a[1], Len(g) + 1) = g
        BY <1>2, <3>1, <3>2, <3>3, WayGrows
      <3>5. Leads(g, a)
        BY <1>2, <3>2, <3>4 DEF Leads
      <3>6. StepTo(a, Len(g) + 1) \in Nat /\ StepTo(a, Len(g) + 1) <= Len(StepsOf(g))
        BY <1>2, <3>5, StepToFacts, StepFacts
      <3>7. StepTo(a, Len(g) + 1) < tasks[g].at
        BY <1>1, <3>6, AtFacts
      <3> QED
        BY <3>5, <3>7 DEF Passed, PassedAt
    <2> QED
      BY <2>3, <2>4
  <1>4. ASSUME Passed(a) PROVE Passed(a)'
    <2>1. PICK h \in DOMAIN tasks : PassedAt(h, a)
      BY <1>4 DEF Passed
    <2>2. CASE h # g
      BY <1>1, <2>1, <2>2 DEF Passed, PassedAt
    <2>3. CASE h = g
      <3>1. Len(g) <= Len(a[1]) /\ Way(a[1], Len(g) + 1) = g
        BY <2>1, <2>3 DEF PassedAt, Leads
      <3>2. \A i \in 1 .. Len(g) : a[1][i] = g[i]
        <4>1. Len(g) + 1 \in 1 .. Len(a[1]) + 1 /\ Len(g) + 1 - 1 = Len(g)
          BY <1>1, <1>2, <3>1
        <4>2. \A i \in 1 .. Len(g) : Way(a[1], Len(g) + 1)[i] = a[1][i]
          BY <1>2, <4>1, WayFacts
        <4> QED
          BY <3>1, <4>2
      <3>3. Way(a[1], Len(g)) = p
        <4>1. Len(g) <= Len(g) /\ Len(g) \in 1 .. Len(g) + 1
          BY <1>1
        <4>0. Len(g) \in Nat
          BY <1>1
        <4>2. Way(a[1], Len(g)) = Way(g, Len(g))
          BY <1>2, <3>1, <3>2, <4>0, <4>1, WayOfPart
        <4> QED
          BY <1>1, <4>2
      <3>4. Leads(p, a) /\ Len(p) < Len(a[1]) /\ Len(p) + 1 = Len(g)
        BY <1>1, <1>2, <3>1, <3>3 DEF Leads
      <3>5. a[1][Len(p) + 1] = g[Len(g)]
        BY <1>1, <3>2, <3>4
      <3>6. p \in DOMAIN tasks' /\ tasks'[p].at = tasks[p].at /\ tasks'[p].started = tasks[p].started
        BY <1>1
      <3> QED
        BY <1>1, <3>4, <3>5, <3>6 DEF Passed, PassedAt
    <2> QED
      BY <2>2, <2>3
  <1> QED
    BY <1>3, <1>4

\* What Wait does to the tasks where no child has failed.
LEMMA WaitFacts ==
    ASSUME OrderlyProgram, Shape, Tree, NEW g \in DOMAIN tasks, Wait(g), ~tasks[g].failed
    PROVE  /\ tasks[g].at \in DOMAIN StepsOf(g) /\ StepsOf(g)[tasks[g].at].kind = "group"
           /\ tasks[g].started = Len(StepsOf(g)[tasks[g].at].tasks) /\ Children(g) = {}
           /\ tasks' = [tasks EXCEPT ![g].at = @ + 1, ![g].started = 0]
           /\ DOMAIN tasks' = DOMAIN tasks /\ \A h \in DOMAIN tasks : h # g => tasks'[h] = tasks[h]
           /\ tasks'[g] = [at |-> tasks[g].at + 1, started |-> 0, failed |-> FALSE]
  <1>1. /\ tasks[g].at \in DOMAIN StepsOf(g) /\ StepsOf(g)[tasks[g].at].kind = "group"
        /\ tasks[g].started = Len(StepsOf(g)[tasks[g].at].tasks) /\ Children(g) = {}
        /\ tasks' = [tasks EXCEPT ![g].at = @ + 1, ![g].started = 0]
    BY AtFacts DEF Wait, AtStep, StepOf, AllEnded
  <1>2. tasks[g] \in [at : Nat \ {0}, started : Nat, failed : BOOLEAN]
    BY DEF Shape
  <1>3. DOMAIN tasks' = DOMAIN tasks /\ \A h \in DOMAIN tasks : h # g => tasks'[h] = tasks[h]
    BY <1>1
  <1>4. tasks'[g] = [at |-> tasks[g].at + 1, started |-> 0, failed |-> FALSE]
    BY <1>1, <1>2
  <1> QED
    BY <1>1, <1>3, <1>4

\* Nor does the end of a group: with no child left its places are passed already.
LEMMA PassedByWait ==
    ASSUME OrderlyProgram, Shape, Tree, NEW g \in DOMAIN tasks, Wait(g), ~tasks[g].failed, NEW a \in Places
    PROVE  Passed(a)' <=> Passed(a)
  <1>1. /\ tasks[g].at \in DOMAIN StepsOf(g) /\ StepsOf(g)[tasks[g].at].kind = "group"
        /\ tasks[g].started = Len(StepsOf(g)[tasks[g].at].tasks) /\ Children(g) = {}
        /\ DOMAIN tasks' = DOMAIN tasks /\ \A h \in DOMAIN tasks : h # g => tasks'[h] = tasks[h]
        /\ tasks'[g].at = tasks[g].at + 1 /\ tasks'[g].started = 0
        /\ tasks[g].at \in Nat /\ g \in Goroutines /\ g \in Names /\ Len(g) \in Nat
    <2>1. tasks'[g] = [at |-> tasks[g].at + 1, started |-> 0, failed |-> FALSE]
      BY WaitFacts
    <2>2. tasks'[g].at = tasks[g].at + 1 /\ tasks'[g].started = 0
      BY <2>1
    <2> QED
      BY <2>2, WaitFacts, AtFacts
  <1>2. ASSUME Leads(g, a)
        PROVE  /\ StepTo(a, Len(g) + 1) \in Nat \ {0}
               /\ Len(g) < Len(a[1]) => a[1][Len(g) + 1] \in (Nat \ {0}) \X (Nat \ {0})
    BY <1>1, <1>2, StepToFacts, StepFacts
  <1>3. ASSUME Passed(a)' PROVE Passed(a)
    <2>1. PICK h \in DOMAIN tasks : PassedAt(h, a)'
      BY <1>1, <1>3 DEF Passed
    <2>2. CASE h # g
      BY <1>1, <2>1, <2>2 DEF Passed, PassedAt
    <2>3. CASE h = g
      <3>1. Leads(g, a)
        BY <2>1, <2>3 DEF PassedAt
      <3>2. StepTo(a, Len(g) + 1) < tasks[g].at + 1
        BY <1>1, <1>2, <2>1, <2>3, <3>1 DEF PassedAt
      <3>3. CASE StepTo(a, Len(g) + 1) < tasks[g].at
        BY <3>1, <3>3 DEF Passed, PassedAt
      <3>4. CASE StepTo(a, Len(g) + 1) = tasks[g].at
        <4>1. Len(g) < Len(a[1]) /\ a[1][Len(g) + 1][1] = tasks[g].at
          BY <1>1, <3>1, <3>4, StepToFacts
        <4>2. a[1][Len(g) + 1][2] \in DOMAIN StepsOf(g)[tasks[g].at].tasks
          BY <1>1, <3>1, <3>4, <4>1, StepToFacts
        <4>3. a[1][Len(g) + 1][2] <= tasks[g].started
          BY <1>1, <4>2, StepFacts
        <4>4. Append(g, a[1][Len(g) + 1]) \notin DOMAIN tasks
          <5> DEFINE y == a[1][Len(g) + 1]
          <5>1. y \in Nat \X Nat
            BY <1>2, <3>1, <4>1
          <5> HIDE DEF y
          <5>2. Append(g, y) # Main /\ Parent(Append(g, y)) = g
            <6>1. Append(g, y) \in Names /\ Len(Append(g, y)) = Len(g) + 1
              BY <1>1, <5>1 DEF Names
            <6>2. \A n \in 1 .. Len(g) : Append(g, y)[n] = g[n]
              BY <1>1, <5>1 DEF Names
            <6>3. Len(g) <= Len(g) /\ Len(g) <= Len(Append(g, y)) /\ Len(g) + 1 \in 1 .. Len(g) + 1
              BY <1>1, <6>1
            <6>4. Way(Append(g, y), Len(g) + 1) = g
              BY <1>1, <6>1, <6>2, <6>3, WayOfPart, WayOfWhole
            <6> QED
              BY <1>1, <6>1, <6>4 DEF Main, Parent, Front, Way
          <5> QED
            BY <1>1, <5>2 DEF Children, y
        <4> QED
          BY <3>1, <4>1, <4>3, <4>4 DEF Passed, PassedAt
      <3> QED
        BY <1>1, <1>2, <3>1, <3>2, <3>3, <3>4
    <2> QED
      BY <2>2, <2>3
  <1>4. ASSUME Passed(a) PROVE Passed(a)'
    <2>1. PICK h \in DOMAIN tasks : PassedAt(h, a)
      BY <1>4 DEF Passed
    <2>2. CASE h # g
      BY <1>1, <2>1, <2>2 DEF Passed, PassedAt
    <2>3. CASE h = g
      <3>1. StepTo(a, Len(g) + 1) <= tasks[g].at /\ Leads(g, a)
        BY <1>1, <1>2, <2>1, <2>3, StepToFacts DEF PassedAt
      <3>2. StepTo(a, Len(g) + 1) < tasks'[g].at
        BY <1>1, <1>2, <3>1
      <3> QED
        BY <1>1, <3>1, <3>2 DEF Passed, PassedAt
    <2> QED
      BY <2>2, <2>3
  <1> QED
    BY <1>3, <1>4

\* Nobody is below a goroutine.
Quiet(g) == \A h \in DOMAIN tasks : \A n \in 1 .. Len(h) : Way(h, n) # g

\* A group all of whose children have ended has nobody below it.
LEMMA QuietWithoutChildren ==
    ASSUME OrderlyProgram, Shape, Tree, NEW g \in DOMAIN tasks, Children(g) = {}
    PROVE  Quiet(g)
  <1> SUFFICES ASSUME NEW h \in DOMAIN tasks, NEW n \in 1 .. Len(h), Way(h, n) = g PROVE FALSE
    BY DEF Quiet
  <1> DEFINE c == Way(h, n + 1)
  <1>1. h \in Names /\ Len(h) \in Nat /\ n \in 1 .. Len(h) + 1 /\ n + 1 \in 1 .. Len(h) + 1
    BY AtFacts
  <1>2. c \in DOMAIN tasks
    BY <1>1, OnlyWay
  <1>3. c \in Names /\ Len(c) = n /\ \A i \in 1 .. n : c[i] = h[i]
    BY <1>1, WayFacts
  <1>4. g \in Names /\ Len(g) = n - 1 /\ \A i \in 1 .. n - 1 : g[i] = h[i]
    BY <1>1, WayFacts
  <1> HIDE DEF c
  <1>5. c # Main
    BY <1>1, <1>3 DEF Main
  <1>6. Parent(c) = g
    <2>1. Parent(c) = Way(c, n)
      BY <1>1, <1>3 DEF Parent, Front, Way
    <2>2. n \in 1 .. Len(c) + 1 /\ n - 1 = Len(g)
      BY <1>1, <1>3, <1>4
    <2>3. Way(c, n) \in Names /\ Len(Way(c, n)) = n - 1 /\ \A i \in 1 .. n - 1 : Way(c, n)[i] = c[i]
      BY <1>3, <2>2, WayFacts
    <2>4. \A i \in 1 .. n - 1 : Way(c, n)[i] = g[i]
      BY <1>1, <1>3, <1>4, <2>3
    <2> QED
      BY <1>4, <2>1, <2>3, <2>4, SameSequence DEF Names
  <1> QED
    BY <1>2, <1>5, <1>6 DEF Children

\* The step of a goroutine below which nobody is.
LEMMA StepKeepsTree ==
    ASSUME OrderlyProgram, Shape, Tree, NEW g \in DOMAIN tasks, Quiet(g),
           DOMAIN tasks' = DOMAIN tasks, tasks' = [h \in DOMAIN tasks' |-> tasks'[h]],
           \A h \in DOMAIN tasks : h # g => tasks'[h] = tasks[h],
           tasks'[g] \in [at : Nat \ {0}, started : Nat, failed : BOOLEAN],
           tasks'[g].at <= Len(StepsOf(g)) + 1,
           tasks'[g].started = 0 \/ Ended(g)'
    PROVE  Shape' /\ Tree'
  <1>1. ASSUME NEW h \in DOMAIN tasks
        PROVE  /\ tasks'[h] \in [at : Nat \ {0}, started : Nat, failed : BOOLEAN]
               /\ tasks'[h].at <= Len(StepsOf(h)) + 1
               /\ tasks'[h].started > 0 => AtStep(h, "group")' \/ Ended(h)'
               /\ AtStep(h, "group")' => tasks'[h].started <= Len(StepOf(h)'.tasks)
    <2>1. CASE h = g
      <3>1. tasks'[g].started > 0 => Ended(g)'
        OBVIOUS
      <3>2. ASSUME AtStep(g, "group")' PROVE tasks'[g].started <= Len(StepOf(g)'.tasks)
        <4>1. tasks'[g].started = 0
          BY <3>2 DEF AtStep
        <4>2. tasks'[g].at \in DOMAIN StepsOf(g) /\ StepsOf(g)[tasks'[g].at].kind = "group" /\ g \in Goroutines
          BY <3>2, AtFacts, StepFacts DEF AtStep, Ended, StepOf
        <4>3. Len(StepOf(g)'.tasks) \in Nat
          BY <4>2, StepFacts DEF StepOf
        <4> QED
          BY <4>1, <4>3
      <3> QED
        BY <2>1, <3>1, <3>2
    <2>2. CASE h # g
      <3>1. tasks'[h] = tasks[h]
        BY <2>2
      <3>2. (AtStep(h, "group")' <=> AtStep(h, "group")) /\ (Ended(h)' <=> Ended(h)) /\ StepOf(h)' = StepOf(h)
        BY <3>1 DEF AtStep, Ended, StepOf
      <3> QED
        BY <3>1, <3>2 DEF Shape
    <2> QED
      BY <2>1, <2>2
  <1>2. Shape'
    BY <1>1 DEF Shape
  <1>3. ASSUME NEW h \in DOMAIN tasks, NEW n \in 1 .. Len(h)
        PROVE  /\ Way(h, n) \in DOMAIN tasks
               /\ h[n][1] = tasks'[Way(h, n)].at /\ h[n][2] <= tasks'[Way(h, n)].started
    BY DEF Tree, Quiet
  <1>4. Tree'
    BY <1>3 DEF Tree
  <1> QED
    BY <1>2, <1>4

\* A goroutine is started for the group that its parent is at.
LEMMA SpawnKeepsTree ==
    ASSUME OrderlyProgram, Shape, Tree, NEW g \in DOMAIN tasks, Spawn(g)
    PROVE  Shape' /\ Tree'
  <1>0. /\ Child(g) \in Below(g) /\ Child(g) \in Goroutines /\ Child(g) \in Names
        /\ Len(Child(g)) = Len(g) + 1
        /\ Child(g) \notin DOMAIN tasks /\ DOMAIN tasks' = DOMAIN tasks \cup {Child(g)}
        /\ tasks'[Child(g)] = Fresh
        /\ tasks'[g] = [tasks[g] EXCEPT !.started = @ + 1]
        /\ \A h \in DOMAIN tasks : h # g => tasks'[h] = tasks[h]
        /\ tasks' = [h \in DOMAIN tasks' |-> tasks'[h]]
    BY SpawnFacts
  <1>1. /\ tasks[g] \in [at : Nat \ {0}, started : Nat, failed : BOOLEAN]
        /\ DOMAIN tasks \subseteq Goroutines /\ Main \in DOMAIN tasks
    BY DEF Shape
  <1>2. /\ tasks'[g].at = tasks[g].at /\ tasks'[g].started = tasks[g].started + 1
        /\ tasks'[g] \in [at : Nat \ {0}, started : Nat, failed : BOOLEAN]
    BY <1>0, <1>1
  <1>3. AtStep(g, "group") /\ tasks[g].started < Len(StepOf(g).tasks)
    BY DEF Spawn
  <1>4. ASSUME NEW h \in DOMAIN tasks'
        PROVE  /\ tasks'[h] \in [at : Nat \ {0}, started : Nat, failed : BOOLEAN]
               /\ tasks'[h].at <= Len(StepsOf(h)) + 1
               /\ tasks'[h].started > 0 => AtStep(h, "group")' \/ Ended(h)'
               /\ AtStep(h, "group")' => tasks'[h].started <= Len(StepOf(h)'.tasks)
    <2>1. CASE h = g
      <3>1. (AtStep(g, "group")' <=> AtStep(g, "group")) /\ StepOf(g)' = StepOf(g)
        BY <1>2 DEF AtStep, Ended, StepOf
      <3>2. tasks[g].started + 1 <= Len(StepOf(g).tasks)
        <4>1. Len(StepOf(g).tasks) \in Nat /\ tasks[g].started \in Nat
          BY <1>3, AtFacts, StepFacts DEF AtStep, StepOf
        <4> QED
          BY <1>3, <4>1
      <3> QED
        BY <1>2, <1>3, <2>1, <3>1, <3>2, AtFacts
    <2>2. CASE h = Child(g)
      <3>1. tasks'[h] = [at |-> 1, started |-> 0, failed |-> FALSE]
        BY <1>0, <2>2 DEF Fresh
      <3>2. Len(StepsOf(h)) \in Nat /\ h \in Goroutines
        BY <1>0, <2>2, StepFacts
      <3>3. ASSUME AtStep(h, "group")' PROVE tasks'[h].started <= Len(StepOf(h)'.tasks)
        <4>1. tasks'[h].at \in DOMAIN StepsOf(h) /\ StepsOf(h)[tasks'[h].at].kind = "group"
          BY <3>1, <3>2, <3>3, StepFacts DEF AtStep, Ended, StepOf
        <4>2. Len(StepOf(h)'.tasks) \in Nat
          BY <3>2, <4>1, StepFacts DEF StepOf
        <4> QED
          BY <3>1, <4>2
      <3> QED
        BY <3>1, <3>2, <3>3
    <2>3. CASE h # g /\ h # Child(g)
      <3>1. h \in DOMAIN tasks /\ tasks'[h] = tasks[h]
        BY <1>0, <2>3
      <3>2. (AtStep(h, "group")' <=> AtStep(h, "group")) /\ (Ended(h)' <=> Ended(h)) /\ StepOf(h)' = StepOf(h)
        BY <3>1 DEF AtStep, Ended, StepOf
      <3> QED
        BY <3>1, <3>2 DEF Shape
    <2> QED
      BY <2>1, <2>2, <2>3
  <1>5. Shape'
    BY <1>0, <1>1, <1>4 DEF Shape
  <1>6. ASSUME NEW h \in DOMAIN tasks
        PROVE  /\ h \in DOMAIN tasks' /\ tasks'[h].at = tasks[h].at
               /\ tasks'[h].started \in Nat /\ tasks[h].started \in Nat /\ tasks[h].started <= tasks'[h].started
    <2>1. tasks[h].started \in Nat
      BY AtFacts
    <2>2. CASE h = g
      BY <1>0, <1>2, <2>1, <2>2
    <2>3. CASE h # g
      BY <1>0, <2>1, <2>3
    <2> QED
      BY <2>2, <2>3
  <1>7. ASSUME NEW h \in DOMAIN tasks, NEW n \in 1 .. Len(h)
        PROVE  /\ Way(h, n) \in DOMAIN tasks'
               /\ h[n][1] = tasks'[Way(h, n)].at /\ h[n][2] <= tasks'[Way(h, n)].started
    <2>1. /\ Way(h, n) \in DOMAIN tasks
          /\ h[n][1] = tasks[Way(h, n)].at /\ h[n][2] <= tasks[Way(h, n)].started
      BY DEF Tree
    <2>2. h[n][2] \in Nat
      BY AtFacts DEF OnWay
    <2> QED
      BY <1>6, <2>1, <2>2
  <1>8. ASSUME NEW n \in 1 .. Len(Child(g))
        PROVE  /\ Way(Child(g), n) \in DOMAIN tasks'
               /\ Child(g)[n][1] = tasks'[Way(Child(g), n)].at
               /\ Child(g)[n][2] <= tasks'[Way(Child(g), n)].started
    <2>0. g \in Goroutines /\ g \in Names /\ Len(g) \in Nat /\ tasks[g].started \in Nat
      BY AtFacts
    <2>1. \A i \in 1 .. Len(g) : Child(g)[i] = g[i]
      BY <1>0, <2>0, BelowFacts
    <2>2. Way(Child(g), n) = Way(g, n)
      <3>1. Len(g) <= Len(g) /\ Len(g) <= Len(Child(g)) /\ n \in 1 .. Len(g) + 1
        BY <1>0, <2>0
      <3> QED
        BY <1>0, <2>0, <2>1, <3>1, WayOfPart
    <2>3. CASE n = Len(g) + 1
      <3>1. Way(Child(g), n) = g /\ Child(g)[n] = <<tasks[g].at, tasks[g].started + 1>>
        BY <2>0, <2>2, <2>3, WayOfWhole DEF Child, Names
      <3> QED
        BY <1>0, <1>2, <2>0, <3>1
    <2>4. CASE n \in 1 .. Len(g)
      BY <1>7, <2>1, <2>2, <2>4
    <2> QED
      BY <1>0, <2>0, <2>3, <2>4
  <1>9. Tree'
    BY <1>0, <1>7, <1>8 DEF Tree
  <1> QED
    BY <1>5, <1>9

\* A goroutine that ends leaves nobody behind.
LEMMA EndKeepsTree ==
    ASSUME OrderlyProgram, Shape, Tree, NEW g \in DOMAIN tasks, End(g)
    PROVE  Shape' /\ Tree'
  <1>1. /\ g # Main /\ Ended(g)
        /\ DOMAIN tasks' = DOMAIN tasks \ {g}
        /\ \A h \in DOMAIN tasks' : /\ tasks'[h].at = tasks[h].at /\ tasks'[h].started = tasks[h].started
                                    /\ tasks'[h] \in [at : Nat \ {0}, started : Nat, failed : BOOLEAN]
        /\ tasks' = [h \in DOMAIN tasks' |-> tasks'[h]]
    BY EndFacts
  <1>2. DOMAIN tasks \subseteq Goroutines /\ Main \in DOMAIN tasks
    BY DEF Shape
  <1>3. ASSUME NEW h \in DOMAIN tasks'
        PROVE  /\ tasks'[h].at <= Len(StepsOf(h)) + 1
               /\ tasks'[h].started > 0 => AtStep(h, "group")' \/ Ended(h)'
               /\ AtStep(h, "group")' => tasks'[h].started <= Len(StepOf(h)'.tasks)
    <2>1. h \in DOMAIN tasks /\ tasks'[h].at = tasks[h].at /\ tasks'[h].started = tasks[h].started
      BY <1>1
    <2>2. (AtStep(h, "group")' <=> AtStep(h, "group")) /\ (Ended(h)' <=> Ended(h)) /\ StepOf(h)' = StepOf(h)
      BY <2>1 DEF AtStep, Ended, StepOf
    <2> QED
      BY <2>1, <2>2 DEF Shape
  <1>4. Shape'
    BY <1>1, <1>2, <1>3 DEF Shape
  <1>5. ASSUME NEW h \in DOMAIN tasks', NEW n \in 1 .. Len(h)
        PROVE  /\ Way(h, n) \in DOMAIN tasks'
               /\ h[n][1] = tasks'[Way(h, n)].at /\ h[n][2] <= tasks'[Way(h, n)].started
    <2>1. /\ Way(h, n) \in DOMAIN tasks
          /\ h[n][1] = tasks[Way(h, n)].at /\ h[n][2] <= tasks[Way(h, n)].started
      BY <1>1 DEF Tree
    <2>2. Way(h, n) # g
      BY <1>1, NobodyBelowEnded
    <2> QED
      BY <1>1, <2>1, <2>2
  <1>6. Tree'
    BY <1>5 DEF Tree
  <1> QED
    BY <1>4, <1>6

\* Where nothing is written and nothing passed the pages stay.
LEMMA PagesStay ==
    ASSUME PagesThere, disk' = disk, \A a \in Places : Passed(a)' <=> Passed(a)
    PROVE  PagesThere'
  <1> SUFFICES ASSUME NEW a \in Places, Passed(a)', PageAt(a).path # SearchIndex,
                      \A b \in Places : Passed(b)' /\ PageAt(b).path = PageAt(a).path => ~Before(a, b)
               PROVE  PageAt(a).path \in DOMAIN disk /\ disk[PageAt(a).path] = PageAt(a).tmpl
    BY DEF PagesThere
  <1> QED
    BY DEF PagesThere

\* A step of a page or of the search index that does not end its goroutine.
LEMMA StepOfPage ==
    ASSUME OrderlyProgram, Shape, Tree, NEW g \in DOMAIN tasks, AtStep(g, "page") \/ AtStep(g, "optional"),
           tasks' = NextStep(g)
    PROVE  Shape' /\ Tree' /\ (Tainted => Tainted')
  <1>1. /\ tasks[g] \in [at : Nat \ {0}, started : Nat, failed : BOOLEAN]
        /\ tasks = [h \in DOMAIN tasks |-> tasks[h]]
    BY DEF Shape
  <1>2. tasks[g].started = 0 /\ ~Ended(g) /\ ~AtStep(g, "group")
    BY <1>1 DEF Shape, AtStep
  <1>3. /\ DOMAIN tasks' = DOMAIN tasks /\ tasks' = [h \in DOMAIN tasks' |-> tasks'[h]]
        /\ \A h \in DOMAIN tasks : h # g => tasks'[h] = tasks[h]
        /\ tasks'[g] = [at |-> tasks[g].at + 1, started |-> 0, failed |-> tasks[g].failed]
    BY <1>1, <1>2 DEF NextStep
  <1>4. tasks'[g] \in [at : Nat \ {0}, started : Nat, failed : BOOLEAN] /\ tasks'[g].at = tasks[g].at + 1
        /\ tasks'[g].started = 0 /\ tasks'[g].failed = tasks[g].failed
    BY <1>1, <1>3
  <1>5. tasks'[g].at <= Len(StepsOf(g)) + 1
    BY <1>2, <1>4, AtFacts, StepFacts
  <1>6. Quiet(g)
    BY <1>2, NobodyBelowEnded DEF Quiet
  <1>7. Shape' /\ Tree'
    BY <1>3, <1>4, <1>5, <1>6, StepKeepsTree
  <1>8. Tainted => Tainted'
    BY <1>3, <1>4 DEF Tainted
  <1> QED
    BY <1>7, <1>8

\* A goroutine below which nobody is is abandoned.
LEMMA AbandonFacts ==
    ASSUME OrderlyProgram, Shape, Tree, NEW g \in DOMAIN tasks, Quiet(g), tasks' = Abandon(g)
    PROVE  Shape' /\ Tree' /\ Tainted'
  <1>1. /\ tasks[g] \in [at : Nat \ {0}, started : Nat, failed : BOOLEAN]
        /\ tasks = [h \in DOMAIN tasks |-> tasks[h]] /\ Len(StepsOf(g)) \in Nat
    BY AtFacts DEF Shape
  <1>2. /\ DOMAIN tasks' = DOMAIN tasks /\ tasks' = [h \in DOMAIN tasks' |-> tasks'[h]]
        /\ \A h \in DOMAIN tasks : h # g => tasks'[h] = tasks[h]
        /\ tasks'[g] = [at |-> Len(StepsOf(g)) + 1, started |-> tasks[g].started, failed |-> TRUE]
    BY <1>1 DEF Abandon
  <1>3. /\ tasks'[g] \in [at : Nat \ {0}, started : Nat, failed : BOOLEAN]
        /\ tasks'[g].at = Len(StepsOf(g)) + 1 /\ tasks'[g].failed
    BY <1>1, <1>2
  <1>4. Ended(g)' /\ tasks'[g].at <= Len(StepsOf(g)) + 1
    BY <1>1, <1>3 DEF Ended
  <1>5. Shape' /\ Tree'
    BY <1>2, <1>3, <1>4, StepKeepsTree
  <1>6. Tainted'
    BY <1>2, <1>3 DEF Tainted
  <1> QED
    BY <1>5, <1>6

\* The end of a group where no child has failed.
LEMMA WaitKeepsTree ==
    ASSUME OrderlyProgram, Shape, Tree, NEW g \in DOMAIN tasks, Wait(g), ~tasks[g].failed
    PROVE  Shape' /\ Tree' /\ (Tainted => Tainted')
  <1>1. /\ tasks[g].at \in DOMAIN StepsOf(g) /\ Children(g) = {}
        /\ tasks' = [tasks EXCEPT ![g].at = @ + 1, ![g].started = 0]
        /\ DOMAIN tasks' = DOMAIN tasks /\ \A h \in DOMAIN tasks : h # g => tasks'[h] = tasks[h]
        /\ tasks'[g] = [at |-> tasks[g].at + 1, started |-> 0, failed |-> FALSE]
    BY WaitFacts
  <1>2. /\ tasks[g].at \in Nat \ {0} /\ g \in Goroutines /\ Len(StepsOf(g)) \in Nat
        /\ tasks[g].at <= Len(StepsOf(g))
    BY <1>1, AtFacts, StepFacts
  <1>3. tasks' = [h \in DOMAIN tasks' |-> tasks'[h]]
    BY <1>1
  <1>4. /\ tasks'[g] \in [at : Nat \ {0}, started : Nat, failed : BOOLEAN]
        /\ tasks'[g].at <= Len(StepsOf(g)) + 1 /\ tasks'[g].started = 0 /\ ~tasks'[g].failed
    <2>1. tasks'[g] = [at |-> tasks[g].at + 1, started |-> 0, failed |-> FALSE] /\ tasks[g].at + 1 \in Nat \ {0}
      BY <1>1, <1>2
    <2>2. tasks'[g].at = tasks[g].at + 1 /\ tasks'[g].started = 0 /\ ~tasks'[g].failed
      BY <2>1
    <2>3. tasks'[g] \in [at : Nat \ {0}, started : Nat, failed : BOOLEAN]
      BY <2>1
    <2> QED
      BY <1>2, <2>2, <2>3
  <1>5. Quiet(g)
    BY <1>1, QuietWithoutChildren
  <1>6. Shape' /\ Tree'
    BY <1>1, <1>3, <1>4, <1>5, StepKeepsTree
  <1>7. Tainted => Tainted'
    BY <1>1, <1>4 DEF Tainted
  <1> QED
    BY <1>6, <1>7

\* When the main goroutine has ended there is no other.
LEMMA NobodyAfterReturn ==
    ASSUME OrderlyProgram, Shape, Tree, Ended(Main), NEW g \in DOMAIN tasks
    PROVE  g = Main
  <1> SUFFICES ASSUME g # Main PROVE FALSE
    OBVIOUS
  <1>1. g \in Names /\ Len(g) \in Nat /\ Main \in DOMAIN tasks
    BY AtFacts DEF Shape
  <1>2. 1 \in 1 .. Len(g)
    BY <1>1 DEF Main, Names
  <1>3. Way(g, 1) = Main
    BY <1>1, <1>2 DEF Way, Main, Names
  <1> QED
    BY <1>1, <1>2, <1>3, NobodyBelowEnded

\* The write of a page keeps the pages that are there.
LEMMA WritePageKeeps ==
    ASSUME OrderlyProgram, RenderInv, NEW g \in DOMAIN tasks, WritePage(g), ~Tainted
    PROVE  PagesThere'
  <1> DEFINE a0 == <<g, tasks[g].at>>
  <1>0. Shape /\ Tree /\ PagesThere /\ (AtStep(g, "page") \/ AtStep(g, "optional")) /\ tasks' = NextStep(g)
    BY DEF RenderInv, WritePage
  <1>1. a0 \in Places /\ PageAt(a0) = StepOf(g)
    BY <1>0, CurrentIsPlace
  <1>2. \A a \in Places : Passed(a)' <=> Passed(a) \/ a = a0
    BY <1>0, PassedByStep
  <1>3. \A a \in Places : Passed(a) => ~Before(a0, a)
    BY <1>0, PassedNotAfter
  <1>4. /\ DOMAIN disk' = DOMAIN disk \cup {PageAt(a0).path} /\ disk'[PageAt(a0).path] = PageAt(a0).tmpl
        /\ \A p \in DOMAIN disk : p # PageAt(a0).path => disk'[p] = disk[p]
    BY <1>1 DEF WritePage, Put
  <1> HIDE DEF a0
  <1> SUFFICES ASSUME NEW a \in Places, Passed(a)', PageAt(a).path # SearchIndex,
                      \A b \in Places : Passed(b)' /\ PageAt(b).path = PageAt(a).path => ~Before(a, b)
               PROVE  PageAt(a).path \in DOMAIN disk' /\ disk'[PageAt(a).path] = PageAt(a).tmpl
    BY DEF PagesThere
  <1>5. CASE a = a0
    BY <1>4, <1>5
  <1>6. CASE a # a0
    <2>1. Passed(a)
      BY <1>2, <1>6
    <2>2. PageAt(a).path \in DOMAIN disk /\ disk[PageAt(a).path] = PageAt(a).tmpl
      BY <1>0, <1>2, <2>1 DEF PagesThere
    <2>3. PageAt(a).path # PageAt(a0).path
      <3> SUFFICES ASSUME PageAt(a).path = PageAt(a0).path PROVE FALSE
        OBVIOUS
      <3>1. Before(a, a0) \/ Before(a0, a)
        BY <1>1, <1>6 DEF OrderlyProgram
      <3> QED
        BY <1>1, <1>2, <1>3, <2>1, <3>1
    <2> QED
      BY <1>4, <2>2, <2>3
  <1> QED
    BY <1>5, <1>6

\* A failed write of the search index touches no page.
LEMMA FailSearchIndexKeeps ==
    ASSUME OrderlyProgram, RenderInv, NEW g \in DOMAIN tasks, FailSearchIndex(g), ~Tainted
    PROVE  PagesThere'
  <1> DEFINE a0 == <<g, tasks[g].at>>
  <1>0. Shape /\ Tree /\ PagesThere /\ AtStep(g, "optional") /\ tasks' = NextStep(g)
    BY DEF RenderInv, FailSearchIndex
  <1>1. a0 \in Places /\ PageAt(a0) = StepOf(g)
    BY <1>0, CurrentIsPlace
  <1>2. \A a \in Places : Passed(a)' <=> Passed(a) \/ a = a0
    BY <1>0, PassedByStep
  <1>3. StepOf(g).path = SearchIndex
    BY <1>0, AtFacts, StepFacts DEF AtStep, StepOf
  <1>4. \A p \in DOMAIN disk : p # SearchIndex => p \in DOMAIN disk' /\ disk'[p] = disk[p]
    <2>1. disk' = disk \/ disk' = Put(SearchIndex, "torn")
      BY <1>3 DEF FailSearchIndex, FailWrite
    <2>2. CASE disk' = disk
      BY <2>2
    <2>3. CASE disk' = Put(SearchIndex, "torn")
      BY <2>3 DEF Put
    <2> QED
      BY <2>1, <2>2, <2>3
  <1> HIDE DEF a0
  <1> SUFFICES ASSUME NEW a \in Places, Passed(a)', PageAt(a).path # SearchIndex,
                      \A b \in Places : Passed(b)' /\ PageAt(b).path = PageAt(a).path => ~Before(a, b)
               PROVE  PageAt(a).path \in DOMAIN disk' /\ disk'[PageAt(a).path] = PageAt(a).tmpl
    BY DEF PagesThere
  <1>5. Passed(a)
    BY <1>1, <1>2, <1>3
  <1>6. PageAt(a).path \in DOMAIN disk /\ disk[PageAt(a).path] = PageAt(a).tmpl
    BY <1>0, <1>2, <1>5 DEF PagesThere
  <1> QED
    BY <1>4, <1>6

\* A goroutine's step keeps the invariant.
LEMMA GoroutineStep ==
    ASSUME OrderlyProgram, RenderInv, NEW g \in DOMAIN tasks,
           WritePage(g) \/ FailPage(g) \/ FailSearchIndex(g) \/ Spawn(g) \/ End(g) \/ Wait(g)
    PROVE  RenderInv'
  <1>0. Shape /\ Tree /\ (~Tainted => PagesThere) /\ ReturnedInv
    BY DEF RenderInv
  <1>1. ReturnedInv'
    <2>1. result' = result
      BY DEF WritePage, FailPage, FailSearchIndex, Spawn, End, Wait
    <2>2. result = "running"
      <3> SUFFICES ASSUME result # "running" PROVE FALSE
        OBVIOUS
      <3>1. Ended(Main)
        BY <1>0 DEF ReturnedInv
      <3>2. g = Main
        BY <1>0, <3>1, NobodyAfterReturn
      <3> QED
        BY <3>1, <3>2 DEF WritePage, FailPage, FailSearchIndex, Spawn, End, Wait, AtStep
    <2> QED
      BY <2>1, <2>2 DEF ReturnedInv
  <1>2. CASE WritePage(g)
    <2>1. Shape' /\ Tree' /\ (Tainted => Tainted')
      BY <1>0, <1>2, StepOfPage DEF WritePage
    <2>2. ~Tainted' => PagesThere'
      BY <1>2, <2>1, WritePageKeeps
    <2> QED
      BY <1>1, <2>1, <2>2 DEF RenderInv
  <1>3. CASE FailPage(g)
    <2>1. Quiet(g)
      <3>1. ~AtStep(g, "group")
        BY <1>3 DEF FailPage, AtStep
      <3> QED
        BY <1>0, <3>1, NobodyBelowEnded DEF Quiet
    <2>2. Shape' /\ Tree' /\ Tainted'
      BY <1>0, <1>3, <2>1, AbandonFacts DEF FailPage
    <2> QED
      BY <1>1, <2>2 DEF RenderInv
  <1>4. CASE FailSearchIndex(g)
    <2>1. Shape' /\ Tree' /\ (Tainted => Tainted')
      BY <1>0, <1>4, StepOfPage DEF FailSearchIndex
    <2>2. ~Tainted' => PagesThere'
      BY <1>4, <2>1, FailSearchIndexKeeps
    <2> QED
      BY <1>1, <2>1, <2>2 DEF RenderInv
  <1>5. CASE Spawn(g)
    <2>1. Shape' /\ Tree'
      BY <1>0, <1>5, SpawnKeepsTree
    <2>2. Tainted => Tainted'
      <3>1. /\ DOMAIN tasks' = DOMAIN tasks \cup {Child(g)} /\ tasks'[Child(g)] = Fresh
            /\ tasks'[g] = [tasks[g] EXCEPT !.started = @ + 1]
            /\ \A h \in DOMAIN tasks : h # g => tasks'[h] = tasks[h]
        BY <1>0, <1>5, SpawnFacts
      <3>2. tasks[g] \in [at : Nat \ {0}, started : Nat, failed : BOOLEAN]
        BY <1>0 DEF Shape
      <3>3. ~tasks'[Child(g)].failed /\ tasks'[g].failed = tasks[g].failed
        BY <3>1, <3>2 DEF Fresh
      <3> QED
        BY <3>1, <3>3 DEF Tainted
    <2>3. disk' = disk /\ \A a \in Places : Passed(a)' <=> Passed(a)
      BY <1>0, <1>5, PassedBySpawn DEF Spawn
    <2>4. ~Tainted' => PagesThere'
      BY <1>0, <2>2, <2>3, PagesStay
    <2> QED
      BY <1>1, <2>1, <2>4 DEF RenderInv
  <1>6. CASE End(g)
    <2>1. Shape' /\ Tree'
      BY <1>0, <1>6, EndKeepsTree
    <2>2. Tainted => Tainted'
      <3>1. /\ DOMAIN tasks' = DOMAIN tasks \ {g} /\ Parent(g) \in DOMAIN tasks /\ Parent(g) # g
            /\ \A h \in DOMAIN tasks' :
                  tasks'[h].failed = (tasks[h].failed \/ (h = Parent(g) /\ tasks[g].failed))
        BY <1>0, <1>6, EndFacts
      <3> QED
        BY <3>1 DEF Tainted
    <2>3. disk' = disk /\ \A a \in Places : Passed(a)' <=> Passed(a)
      BY <1>0, <1>6, PassedByEnd DEF End
    <2>4. ~Tainted' => PagesThere'
      BY <1>0, <2>2, <2>3, PagesStay
    <2> QED
      BY <1>1, <2>1, <2>4 DEF RenderInv
  <1>7. CASE Wait(g) /\ tasks[g].failed
    <2>1. tasks' = Abandon(g) /\ Children(g) = {}
      BY <1>7 DEF Wait, AllEnded
    <2>2. Shape' /\ Tree' /\ Tainted'
      BY <1>0, <2>1, QuietWithoutChildren, AbandonFacts
    <2> QED
      BY <1>1, <2>2 DEF RenderInv
  <1>8. CASE Wait(g) /\ ~tasks[g].failed
    <2>1. Shape' /\ Tree' /\ (Tainted => Tainted')
      BY <1>0, <1>8, WaitKeepsTree
    <2>2. disk' = disk /\ \A a \in Places : Passed(a)' <=> Passed(a)
      BY <1>0, <1>8, PassedByWait DEF Wait
    <2>3. ~Tainted' => PagesThere'
      BY <1>0, <2>1, <2>2, PagesStay
    <2> QED
      BY <1>1, <2>1, <2>3 DEF RenderInv
  <1> QED
    BY <1>2, <1>3, <1>4, <1>5, <1>6, <1>7, <1>8

\* Neither the server nor a stutter touches the rendering.
LEMMA UnchangedKeeps ==
    ASSUME RenderInv, UNCHANGED renderVars
    PROVE  RenderInv'
  <1>1. tasks' = tasks /\ disk' = disk /\ result' = result
    BY DEF renderVars
  <1>2. (\A g : Ended(g)' <=> Ended(g)) /\ (\A g : StepOf(g)' = StepOf(g))
    BY <1>1 DEF Ended, StepOf
  <1>3. \A g : AtStep(g, "group")' <=> AtStep(g, "group")
    BY <1>2 DEF AtStep
  <1>4. Shape' /\ Tree' /\ (Tainted' <=> Tainted)
    BY <1>1, <1>2, <1>3 DEF RenderInv, Shape, Tree, Tainted
  <1>5. \A a \in Places : Passed(a)' <=> Passed(a)
    BY <1>1 DEF Passed, PassedAt
  <1>6. ~Tainted' => PagesThere'
    BY <1>1, <1>4, <1>5, PagesStay DEF RenderInv
  <1>7. ReturnedInv'
    BY <1>1, <1>2 DEF RenderInv, ReturnedInv
  <1> QED
    BY <1>4, <1>6, <1>7 DEF RenderInv

\* Every step of the rendering keeps the invariant.
LEMMA RenderStep ==
    ASSUME OrderlyProgram, RenderInv, Render
    PROVE  RenderInv'
  <1>1. CASE \E g \in DOMAIN tasks :
               WritePage(g) \/ FailPage(g) \/ FailSearchIndex(g) \/ Spawn(g) \/ End(g) \/ Wait(g)
    BY <1>1, GoroutineStep
  <1>2. CASE Return
    <2>1. Shape' /\ Tree' /\ (Tainted' <=> Tainted)
      <3>1. tasks' = tasks
        BY <1>2 DEF Return
      <3>2. (\A g : Ended(g)' <=> Ended(g)) /\ (\A g : StepOf(g)' = StepOf(g))
        BY <3>1 DEF Ended, StepOf
      <3>3. \A g : AtStep(g, "group")' <=> AtStep(g, "group")
        BY <3>2 DEF AtStep
      <3> QED
        BY <3>1, <3>2, <3>3 DEF RenderInv, Shape, Tree, Tainted
    <2>2. disk' = disk /\ \A a \in Places : Passed(a)' <=> Passed(a)
      BY <1>2 DEF Return, Passed, PassedAt
    <2>3. ReturnedInv'
      BY <1>2 DEF Return, ReturnedInv, Ended
    <2> QED
      BY <2>1, <2>2, <2>3, PagesStay DEF RenderInv
  <1> QED
    BY <1>1, <1>2 DEF Render

\* At the start nothing is passed.
LEMMA RendersFromInit ==
    ASSUME OrderlyProgram, RenderInit
    PROVE  RenderInv
  <1>1. tasks = [g \in {Main} |-> Fresh] /\ result = "running" /\ DOMAIN tasks = {Main}
    BY DEF RenderInit
  <1>2. Main \in Goroutines /\ Len(Main) = 0 /\ Main \in Names
    BY DEF Goroutines, WithBelow, Main, Names
  <1>3. Len(StepsOf(Main)) \in Nat
    BY <1>2, StepFacts
  <1>4. tasks[Main] = [at |-> 1, started |-> 0, failed |-> FALSE]
    BY <1>1 DEF Fresh
  <1>5. Shape
    <2>1. ASSUME AtStep(Main, "group") PROVE tasks[Main].started <= Len(StepOf(Main).tasks)
      <3>1. tasks[Main].at \in DOMAIN StepsOf(Main) /\ StepsOf(Main)[tasks[Main].at].kind = "group"
        BY <1>2, <1>3, <1>4, <2>1, StepFacts DEF AtStep, Ended, StepOf
      <3>2. Len(StepOf(Main).tasks) \in Nat
        BY <1>2, <3>1, StepFacts DEF StepOf
      <3> QED
        BY <1>4, <3>2
    <2>2. tasks = [g \in DOMAIN tasks |-> tasks[g]]
      BY <1>1
    <2>3. ASSUME NEW g \in DOMAIN tasks
          PROVE  /\ tasks[g] \in [at : Nat \ {0}, started : Nat, failed : BOOLEAN]
                 /\ tasks[g].at <= Len(StepsOf(g)) + 1 /\ ~(tasks[g].started > 0)
                 /\ AtStep(g, "group") => tasks[g].started <= Len(StepOf(g).tasks)
      <3>1. g = Main
        BY <1>1
      <3>2. /\ tasks[g] \in [at : Nat \ {0}, started : Nat, failed : BOOLEAN]
            /\ tasks[g].at = 1 /\ tasks[g].started = 0
        <4>1. [at |-> 1, started |-> 0, failed |-> FALSE] \in [at : Nat \ {0}, started : Nat, failed : BOOLEAN]
          OBVIOUS
        <4>2. tasks[g] = [at |-> 1, started |-> 0, failed |-> FALSE]
          BY <1>4, <3>1
        <4> QED
          BY <4>1, <4>2
      <3> QED
        BY <1>3, <2>1, <3>1, <3>2
    <2> QED
      BY <1>1, <1>2, <2>2, <2>3 DEF Shape
  <1>6. Tree
    BY <1>1, <1>2 DEF Tree
  <1>7. PagesThere
    <2> SUFFICES ASSUME NEW a \in Places PROVE ~Passed(a)
      BY DEF PagesThere
    <2>1. Leads(Main, a) => StepTo(a, Len(Main) + 1) \in Nat \ {0}
      BY <1>2, StepToFacts, StepFacts
    <2>2. Leads(Main, a) /\ Len(Main) < Len(a[1]) => a[1][Len(Main) + 1][2] \in Nat \ {0}
      BY <1>2, StepToFacts
    <2> QED
      BY <1>1, <1>4, <2>1, <2>2 DEF Passed, PassedAt
  <1>8. ReturnedInv
    BY <1>1 DEF ReturnedInv
  <1> QED
    BY <1>5, <1>6, <1>7, <1>8 DEF RenderInv

\* The invariant holds throughout (generateSite, cmd/g2/generate_site.go).
THEOREM RenderInvHolds ==
    ASSUME OrderlyProgram
    PROVE  SiteSpec => []RenderInv
  <1>1. SiteInit => RenderInv
    BY RendersFromInit DEF SiteInit
  <1>2. RenderInv /\ [SiteNext]_siteVars => RenderInv'
    <2> SUFFICES ASSUME RenderInv, [SiteNext]_siteVars PROVE RenderInv'
      OBVIOUS
    <2>1. CASE Render
      BY <2>1, RenderStep
    <2>2. CASE UNCHANGED renderVars
      BY <2>2, UnchangedKeeps
    <2> QED
      BY <2>1, <2>2 DEF SiteNext, siteVars
  <1> QED
    BY <1>1, <1>2, PTL DEF SiteSpec

\* Two goroutines at a page are at neither before the other.
LEMMA NeitherBefore ==
    ASSUME OrderlyProgram, Shape, Tree, NEW g \in DOMAIN tasks, NEW h \in DOMAIN tasks,
           Before(<<g, tasks[g].at>>, <<h, tasks[h].at>>)
    PROVE  FALSE
  <1> DEFINE a == <<g, tasks[g].at>>
             b == <<h, tasks[h].at>>
  <1>0. a[1] = g /\ b[1] = h /\ g \in Names /\ Len(g) \in Nat /\ h \in Names /\ Len(h) \in Nat
    BY AtFacts
  <1>1. PICK n \in 1 .. Len(g) + 1 :
           /\ n <= Len(h) + 1 /\ \A m \in 1 .. n - 1 : g[m] = h[m]
           /\ StepTo(a, n) < StepTo(b, n)
    BY <1>0 DEF Before
  <1>2. n \in 1 .. Len(h) + 1
    BY <1>0, <1>1
  <1>3. Way(g, n) = Way(h, n)
    <2>1. n - 1 \in Nat /\ n - 1 <= Len(g) /\ n - 1 <= Len(h) /\ n \in 1 .. (n - 1) + 1
      BY <1>0, <1>1
    <2> QED
      BY <1>0, <1>1, <2>1, WayOfPart
  <1>4. /\ StepTo(a, n) = tasks[Way(g, n)].at /\ StepTo(b, n) = tasks[Way(h, n)].at
        /\ Way(g, n) \in DOMAIN tasks
    BY <1>2, OnlyWay
  <1>5. tasks[Way(g, n)].at \in Nat
    BY <1>4, AtFacts
  <1> HIDE DEF a, b
  <1> QED
    BY <1>1, <1>3, <1>4, <1>5

\* No two goroutines of generateSite write one file at a time, for any trees, limits of the
\* errgroups and failures, where the program is orderly.
THEOREM NoPageIsShared ==
    ASSUME OrderlyProgram
    PROVE  SiteSpec => []NoSharedPage
  <1>1. RenderInv => WritersApart
    <2> SUFFICES ASSUME RenderInv, NEW g \in DOMAIN tasks, NEW h \in DOMAIN tasks, g # h,
                        AtStep(g, "page"), AtStep(h, "page"), StepOf(g).path = StepOf(h).path
                 PROVE  FALSE
      BY DEF WritersApart
    <2>0. Shape /\ Tree
      BY DEF RenderInv
    <2>1. /\ <<g, tasks[g].at>> \in Places /\ PageAt(<<g, tasks[g].at>>) = StepOf(g)
          /\ <<h, tasks[h].at>> \in Places /\ PageAt(<<h, tasks[h].at>>) = StepOf(h)
      BY <2>0, CurrentIsPlace
    <2>2. <<g, tasks[g].at>> # <<h, tasks[h].at>>
      OBVIOUS
    <2>3. \/ Before(<<g, tasks[g].at>>, <<h, tasks[h].at>>)
          \/ Before(<<h, tasks[h].at>>, <<g, tasks[g].at>>)
      BY <2>1, <2>2 DEF OrderlyProgram
    <2> QED
      BY <2>0, <2>3, NeitherBefore
  <1>2. RenderInv => NoSharedPage
    BY <1>1 DEF RenderInv, Shape, NoSharedPage
  <1> QED
    BY <1>2, RenderInvHolds, PTL

\* A strict order has a least element in every finite set.
LEMMA FiniteLeast ==
    ASSUME NEW S, IsFiniteSet(S), S # {}, NEW R,
           \A x \in S : <<x, x>> \notin R,
           \A x, y, z \in S : <<x, y>> \in R /\ <<y, z>> \in R => <<x, z>> \in R
    PROVE  \E x \in S : \A y \in S : <<y, x>> \notin R
  <1> DEFINE Lower(x) == {y \in S : <<y, x>> \in R}
             T == {Lower(x) : x \in S}
  <1>1. T \subseteq FiniteSubsetsOf(S) /\ T # {}
    <2>1. T \subseteq SUBSET S /\ T # {}
      <3>1. \A x \in S : Lower(x) \in SUBSET S
        OBVIOUS
      <3> HIDE DEF Lower
      <3>2. PICK x \in S : TRUE
        OBVIOUS
      <3>3. Lower(x) \in T
        BY <3>2
      <3> QED
        BY <3>1, <3>3
    <2> HIDE DEF T
    <2> QED
      BY <2>1, FS_FiniteSubsetsOfFinite
  <1>2. PICK t \in T : \A u \in T : ~(<<u, t>> \in StrictSubsetOrdering(S))
    <2> HIDE DEF T
    <2> QED
      BY <1>1, WFMin, FS_StrictSubsetOrderingWellFounded, Zenon
  <1>3. PICK x \in S : t = Lower(x)
    BY <1>2
  <1>4. ASSUME NEW y \in S, <<y, x>> \in R PROVE FALSE
    <2>1. Lower(y) \subseteq Lower(x) /\ Lower(y) # Lower(x)
      BY <1>4
    <2>2. <<Lower(y), Lower(x)>> \in StrictSubsetOrdering(S)
      BY <2>1 DEF StrictSubsetOrdering
    <2> QED
      BY <1>2, <1>3, <2>2
  <1> QED
    BY <1>4

\* Before orders the places.
LEMMA BeforeOrders ==
    ASSUME OrderlyProgram, NEW a \in Places, NEW b \in Places, NEW c \in Places
    PROVE  ~Before(a, a) /\ (Before(a, b) /\ Before(b, c) => Before(a, c))
  <1>0. ASSUME NEW x \in Places, NEW n \in 1 .. Len(x[1]) + 1
        PROVE  StepTo(x, n) \in Nat
    <2>1. /\ x[1] \in Names /\ Len(x[1]) \in Nat /\ x[2] \in DOMAIN StepsOf(x[1]) /\ x[1] \in Goroutines
      BY PlaceFacts
    <2>2. x[2] \in Nat
      BY <2>1, StepFacts
    <2>3. CASE n \in 1 .. Len(x[1])
      BY <2>1, <2>3 DEF StepTo, Names
    <2>4. CASE n = Len(x[1]) + 1
      BY <2>1, <2>2, <2>4 DEF StepTo
    <2> QED
      BY <2>1, <2>3, <2>4
  <1>1. ~Before(a, a)
    BY <1>0 DEF Before
  <1>2. ASSUME Before(a, b), Before(b, c) PROVE Before(a, c)
    <2>0. Len(a[1]) \in Nat /\ Len(b[1]) \in Nat /\ Len(c[1]) \in Nat
      BY PlaceFacts
    <2>1. PICK n \in 1 .. Len(a[1]) + 1 :
             /\ n <= Len(b[1]) + 1 /\ \A m \in 1 .. n - 1 : a[1][m] = b[1][m]
             /\ StepTo(a, n) < StepTo(b, n)
      BY <1>2 DEF Before
    <2>2. PICK k \in 1 .. Len(b[1]) + 1 :
             /\ k <= Len(c[1]) + 1 /\ \A m \in 1 .. k - 1 : b[1][m] = c[1][m]
             /\ StepTo(b, k) < StepTo(c, k)
      BY <1>2 DEF Before
    <2>3. CASE n = k
      <3>1. n \in 1 .. Len(b[1]) + 1 /\ n \in 1 .. Len(c[1]) + 1
        BY <2>0, <2>1, <2>2, <2>3
      <3>2. StepTo(a, n) \in Nat /\ StepTo(b, n) \in Nat /\ StepTo(c, n) \in Nat
        BY <1>0, <2>1, <3>1
      <3>3. StepTo(a, n) < StepTo(c, n)
        BY <2>1, <2>2, <2>3, <3>2
      <3>4. \A m \in 1 .. n - 1 : a[1][m] = c[1][m]
        BY <2>1, <2>2, <2>3
      <3> QED
        BY <2>0, <2>1, <3>1, <3>3, <3>4 DEF Before
    <2>4. CASE n < k
      <3>1. n \in 1 .. Len(c[1]) + 1 /\ n \in 1 .. k - 1
        BY <2>0, <2>1, <2>2, <2>4
      <3>2. StepTo(b, n) = StepTo(c, n)
        <4>1. n <= Len(b[1]) /\ n <= Len(c[1]) /\ b[1][n] = c[1][n]
          BY <2>0, <2>1, <2>2, <3>1
        <4> QED
          BY <4>1 DEF StepTo
      <3>3. \A m \in 1 .. n - 1 : a[1][m] = c[1][m]
        BY <2>1, <2>2, <2>4
      <3>4. n <= Len(c[1]) + 1 /\ StepTo(a, n) < StepTo(c, n)
        BY <2>1, <3>1, <3>2
      <3> QED
        BY <2>1, <3>3, <3>4 DEF Before
    <2>5. CASE k < n
      <3>1. k \in 1 .. Len(a[1]) + 1 /\ k \in 1 .. n - 1
        BY <2>0, <2>1, <2>2, <2>5
      <3>2. StepTo(a, k) = StepTo(b, k)
        <4>1. k <= Len(a[1]) /\ k <= Len(b[1]) /\ a[1][k] = b[1][k]
          BY <2>0, <2>1, <2>2, <3>1
        <4> QED
          BY <4>1 DEF StepTo
      <3>3. \A m \in 1 .. k - 1 : a[1][m] = c[1][m]
        BY <2>1, <2>2, <2>5
      <3>4. k <= Len(c[1]) + 1 /\ StepTo(a, k) < StepTo(c, k)
        BY <2>2, <3>2
      <3> QED
        BY <3>1, <3>3, <3>4 DEF Before
    <2> QED
      BY <2>0, <2>1, <2>2, <2>3, <2>4, <2>5
  <1> QED
    BY <1>1, <1>2

\* The last writer of a page.
LEMMA LastWriterWrites ==
    ASSUME OrderlyProgram, NEW p \in Written
    PROVE  \E a \in Places : /\ PageAt(a).path = p /\ LastWriter[p] = PageAt(a)
                             /\ \A b \in Places : PageAt(b).path = p => ~Before(a, b)
  <1> DEFINE Writers == {a \in Places : PageAt(a).path = p}
             Later == {w \in Writers \X Writers : Before(w[2], w[1])}
  <1>1. Writers \subseteq Places /\ Writers # {}
    BY DEF Written
  <1>2. IsFiniteSet(Writers)
    BY <1>1, FS_Subset DEF OrderlyProgram
  <1>3. \A x \in Writers : <<x, x>> \notin Later
    BY <1>1, BeforeOrders
  <1>4. ASSUME NEW x \in Writers, NEW y \in Writers, NEW z \in Writers,
               <<x, y>> \in Later, <<y, z>> \in Later
        PROVE  <<x, z>> \in Later
    <2>1. Before(y, x) /\ Before(z, y)
      BY <1>4
    <2>2. Before(z, x)
      BY <1>1, <2>1, BeforeOrders
    <2> QED
      BY <2>2
  <1>5. PICK a \in Writers : \A b \in Writers : <<b, a>> \notin Later
    <2> HIDE DEF Later, Writers
    <2> QED
      BY <1>1, <1>2, <1>3, <1>4, FiniteLeast
  <1>6. \A b \in Writers : ~Before(a, b)
    <2> SUFFICES ASSUME NEW b \in Writers, Before(a, b) PROVE FALSE
      OBVIOUS
    <2>1. <<b, a>> \in Later
      OBVIOUS
    <2> QED
      BY <1>5, <2>1
  <1> DEFINE last == CHOOSE x \in Writers : \A b \in Writers : ~Before(x, b)
  <1>7. last \in Writers /\ \A b \in Writers : ~Before(last, b)
    <2> HIDE DEF Writers
    <2> QED
      BY <1>6
  <1>8. LastWriter[p] = PageAt(last)
    BY DEF LastWriter, Latest
  <1> HIDE DEF last
  <1> QED
    BY <1>7, <1>8

\* When generateSite reports success every page is there and whole, and the one that generating
\* page after page would leave; for any trees, limits, interleavings and failures of writes, where
\* the program is orderly.
THEOREM TheWholeSiteOrError ==
    ASSUME OrderlyProgram
    PROVE  SiteSpec => []WholeSiteOrError
  <1>1. RenderInv => WholeSiteOrError
    <2> SUFFICES ASSUME RenderInv, result = "ok", NEW p \in Written \ {SearchIndex}
                 PROVE  p \in DOMAIN disk /\ disk[p] = LastWriter[p].tmpl
      BY DEF WholeSiteOrError
    <2>1. Shape /\ Tree /\ Ended(Main) /\ ~tasks[Main].failed /\ Main \in DOMAIN tasks
      BY DEF RenderInv, ReturnedInv, Shape
    <2>2. \A g \in DOMAIN tasks : g = Main
      BY <2>1, NobodyAfterReturn
    <2>3. PagesThere
      BY <2>1, <2>2 DEF RenderInv, Tainted
    <2>4. ASSUME NEW a \in Places PROVE Passed(a)
      <3>1. Main \in Goroutines /\ Leads(Main, a)
        <4>1. a[1] \in Names /\ Len(a[1]) \in Nat
          BY PlaceFacts
        <4>2. Len(Main) = 0 /\ Way(a[1], 1) = Main
          BY <4>1 DEF Way, Main, Names
        <4> QED
          BY <2>1, <4>1, <4>2, AtFacts DEF Leads
      <3>2. StepTo(a, Len(Main) + 1) \in Nat /\ StepTo(a, Len(Main) + 1) <= Len(StepsOf(Main))
        BY <3>1, StepToFacts, StepFacts
      <3>3. StepTo(a, Len(Main) + 1) < tasks[Main].at
        BY <2>1, <3>2, AtFacts
      <3> QED
        BY <2>1, <3>1, <3>3 DEF Passed, PassedAt
    <2>5. PICK a \in Places : /\ PageAt(a).path = p /\ LastWriter[p] = PageAt(a)
                              /\ \A b \in Places : PageAt(b).path = p => ~Before(a, b)
      BY LastWriterWrites
    <2> QED
      BY <2>3, <2>4, <2>5 DEF PagesThere
  <1> QED
    BY <1>1, RenderInvHolds, PTL

-----------------------------------------------------------------------------
(* The server.                                                             *)

\* What may have become of a repository that is to be served.
LoadStates == {"listed", "parsing", "parsed", "bad", "skipped"}
\* While the server loads it has appended what has been parsed so far, in any order; once it
\* listens or has refused to, nothing is being parsed and the order is that of the titles.
LoadInv ==
    /\ load \in [DOMAIN Trees -> LoadStates]
    /\ server \in {"off", "loading"} =>
          loaded \in Seq(DOMAIN Trees) /\ {loaded[k] : k \in DOMAIN loaded} = InState("parsed")
    /\ server \in {"up", "refused"} =>
          AllParsed /\ loaded = InTitleOrder(DOMAIN Trees \ (InState("bad") \cup InState("skipped")))

\* Every step of the server keeps that.
LEMMA LoadStep ==
    ASSUME LoadInv, Serving
    PROVE  LoadInv'
  <1>0. load \in [DOMAIN Trees -> LoadStates]
    BY DEF LoadInv
  <1>1. CASE StartServer
    <2>1. load' = load /\ loaded' = loaded /\ server = "off" /\ server' = "loading"
      BY <1>1 DEF StartServer
    <2>2. InState("parsed")' = InState("parsed")
      BY <2>1 DEF InState
    <2> QED
      BY <2>1, <2>2 DEF LoadInv
  <1>2. ASSUME NEW i \in DOMAIN Trees, Start(i) PROVE LoadInv'
    <2>1. /\ server = "loading" /\ server' = server /\ loaded' = loaded /\ load[i] = "listed"
          /\ load' = [load EXCEPT ![i] = "skipped"] \/ load' = [load EXCEPT ![i] = "parsing"]
      BY <1>2 DEF Start
    <2>2. load' \in [DOMAIN Trees -> LoadStates]
      BY <1>0, <2>1 DEF LoadStates
    <2>3. InState("parsed")' = InState("parsed")
      BY <1>0, <2>1 DEF InState
    <2> QED
      BY <2>1, <2>2, <2>3 DEF LoadInv
  <1>3. ASSUME NEW i \in DOMAIN Trees, Parse(i) PROVE LoadInv'
    <2>1. /\ load[i] = "parsing" /\ load' = [load EXCEPT ![i] = "parsed"]
          /\ loaded' = Append(loaded, i) /\ server' = server
      BY <1>3 DEF Parse
    <2>2. server \notin {"up", "refused"}
      BY <1>0, <2>1 DEF LoadInv, AllParsed, InState
    <2>3. load' \in [DOMAIN Trees -> LoadStates]
      BY <1>0, <2>1 DEF LoadStates
    <2>4. InState("parsed")' = InState("parsed") \cup {i}
      BY <1>0, <2>1 DEF InState
    <2>5. ASSUME server \in {"off", "loading"}
          PROVE  loaded' \in Seq(DOMAIN Trees) /\ {loaded'[k] : k \in DOMAIN loaded'} = InState("parsed")'
      <3>1. loaded \in Seq(DOMAIN Trees) /\ {loaded[k] : k \in DOMAIN loaded} = InState("parsed")
        BY <2>5 DEF LoadInv
      <3>2. /\ Len(loaded) \in Nat /\ DOMAIN loaded = 1 .. Len(loaded) /\ loaded' \in Seq(DOMAIN Trees)
            /\ DOMAIN loaded' = 1 .. Len(loaded) + 1 /\ loaded'[Len(loaded) + 1] = i
            /\ \A k \in 1 .. Len(loaded) : loaded'[k] = loaded[k]
        BY <2>1, <3>1
      <3>3. {loaded'[k] : k \in DOMAIN loaded'} = {loaded[k] : k \in DOMAIN loaded} \cup {i}
        <4>1. ASSUME NEW k \in DOMAIN loaded' PROVE loaded'[k] \in {loaded[n] : n \in DOMAIN loaded} \cup {i}
          BY <3>2
        <4>2. ASSUME NEW k \in DOMAIN loaded PROVE loaded[k] \in {loaded'[n] : n \in DOMAIN loaded'}
          BY <3>2
        <4>3. i \in {loaded'[n] : n \in DOMAIN loaded'}
          BY <3>2
        <4> QED
          BY <4>1, <4>2, <4>3
      <3> QED
        BY <2>4, <3>1, <3>2, <3>3
    <2> QED
      BY <2>1, <2>2, <2>3, <2>5 DEF LoadInv
  <1>4. ASSUME NEW i \in DOMAIN Trees, ParseBad(i) PROVE LoadInv'
    <2>1. /\ load[i] = "parsing" /\ load' = [load EXCEPT ![i] = "bad"]
          /\ loaded' = loaded /\ server' = server
      BY <1>4 DEF ParseBad
    <2>2. server \notin {"up", "refused"}
      BY <1>0, <2>1 DEF LoadInv, AllParsed, InState
    <2>3. load' \in [DOMAIN Trees -> LoadStates]
      BY <1>0, <2>1 DEF LoadStates
    <2>4. InState("parsed")' = InState("parsed")
      BY <1>0, <2>1 DEF InState
    <2> QED
      BY <2>1, <2>2, <2>3, <2>4 DEF LoadInv
  <1>5. CASE ListenAndServe
    <2>1. /\ server = "loading" /\ AllParsed /\ load' = load /\ server' \in {"up", "refused"}
          /\ loaded' = InTitleOrder({loaded[k] : k \in DOMAIN loaded})
      BY <1>5 DEF ListenAndServe, SortByTitle
    <2>2. InState("parsed") = DOMAIN Trees \ (InState("bad") \cup InState("skipped"))
      BY <1>0, <2>1 DEF AllParsed, InState, LoadStates
    <2>3. loaded' = InTitleOrder(DOMAIN Trees \ (InState("bad") \cup InState("skipped")))
      BY <2>1, <2>2 DEF LoadInv
    <2>4. \A s : InState(s)' = InState(s)
      BY <2>1 DEF InState
    <2>5. AllParsed'
      BY <2>1, <2>4 DEF AllParsed
    <2> QED
      BY <1>0, <2>1, <2>3, <2>4, <2>5 DEF LoadInv
  <1>6. ASSUME NEW path \in RequestPaths, Request(path) PROVE LoadInv'
    <2>1. load' = load /\ loaded' = loaded /\ server' = server
      BY <1>6 DEF Request
    <2> QED
      BY <2>1 DEF LoadInv, AllParsed, InState
  <1> QED
    BY <1>1, <1>2, <1>3, <1>4, <1>5, <1>6 DEF Serving, Loading

\* "site serve" serves exactly the repositories that parse, by title, whichever parser ended
\* first: for any trees, concurrency and number of repositories that do not parse.
THEOREM ServesWhatItParsed ==
    SiteSpec => []ServesWhatParses
  <1>1. SiteInit => LoadInv
    <2> SUFFICES ASSUME SiteInit PROVE LoadInv
      OBVIOUS
    <2>1. load = [i \in DOMAIN Trees |-> "listed"] /\ loaded = <<>> /\ server = "off"
      BY DEF SiteInit, ServeInit
    <2>2. load \in [DOMAIN Trees -> LoadStates]
      BY <2>1 DEF LoadStates
    <2>3. InState("parsed") = {} /\ loaded \in Seq(DOMAIN Trees) /\ {loaded[k] : k \in DOMAIN loaded} = {}
      BY <2>1 DEF InState
    <2> QED
      BY <2>1, <2>2, <2>3 DEF LoadInv
  <1>2. LoadInv /\ [SiteNext]_siteVars => LoadInv'
    <2> SUFFICES ASSUME LoadInv, [SiteNext]_siteVars PROVE LoadInv'
      OBVIOUS
    <2>1. CASE Serving
      BY <2>1, LoadStep
    <2>2. CASE UNCHANGED serveVars
      <3>1. load' = load /\ loaded' = loaded /\ server' = server
        BY <2>2 DEF serveVars
      <3> QED
        BY <3>1 DEF LoadInv, AllParsed, InState
    <2> QED
      BY <2>1, <2>2 DEF SiteNext, siteVars
  <1>3. LoadInv => ServesWhatParses
    BY DEF LoadInv, ServesWhatParses
  <1> QED
    BY <1>1, <1>2, <1>3, PTL DEF SiteSpec
=============================================================================
