----------------------------- MODULE SiteRender -----------------------------
(***************************************************************************)
(* Rendering the site (generateSite, cmd/g2/generate_site.go): the program *)
(* of SitePages is run by a tree of goroutines, each errgroup's children   *)
(* beside one another, into one output directory.                          *)
(*                                                                         *)
(* A write may fail, before the file is touched or after os.Create has     *)
(* emptied it.  An error ends its goroutine; errgroup without a context    *)
(* lets the others go on, and the parent fails once all have ended.        *)
(***************************************************************************)
EXTENDS SitePages

CONSTANTS
    Trees,        \* the repositories given, a sequence of trees (see SiteData)
    MaxFailures   \* bound: writes that fail

ASSUME SiteRenderAssumption == MaxFailures \in Nat

VARIABLES
    tasks,     \* goroutine |-> the step it is at, the children started there, whether it failed
    disk,      \* path |-> what is in the file: the template of the page, or "torn"
    failures,  \* writes that have failed so far
    result     \* "running", "ok" or "error": what generateSite returns

renderVars == <<tasks, disk, failures, result>>

Sites == [i \in DOMAIN Trees |-> parseRepo(Trees[i])]
Program == generateSite(Sites)

\* A goroutine is named by the steps that led to it from the main one, each with the task that
\* was started there.
Main == <<>>
Parent(g) == Front(g)

\* The steps of a goroutine, found by going down from those of the main one.
StepsBelow(steps, g) ==
    LET Down[n \in 0 .. Len(g)] == IF n = 0 THEN steps ELSE Down[n - 1][g[n][1]].tasks[g[n][2]]
    IN  Down[Len(g)]
StepsOf(g) == StepsBelow(Program, g)

Fresh == [at |-> 1, started |-> 0, failed |-> FALSE]

RenderInit ==
    /\ tasks = [g \in {Main} |-> Fresh]
    /\ disk = [p \in {} |-> "torn"]
    /\ failures = 0
    /\ result = "running"

Ended(g) == tasks[g].at > Len(StepsOf(g))
StepOf(g) == StepsOf(g)[tasks[g].at]
AtStep(g, kind) == ~Ended(g) /\ StepOf(g).kind = kind
Children(g) == {c \in DOMAIN tasks : c # Main /\ Parent(c) = g}
NextStep(g) == [tasks EXCEPT ![g].at = @ + 1]
Abandon(g) == [tasks EXCEPT ![g].at = Len(StepsOf(g)) + 1, ![g].failed = TRUE]
Put(path, content) == [p \in DOMAIN disk \cup {path} |-> IF p = path THEN content ELSE disk[p]]

WritePage(g) ==
    /\ AtStep(g, "page") \/ AtStep(g, "optional")
    /\ disk' = Put(StepOf(g).path, StepOf(g).tmpl)
    /\ tasks' = NextStep(g)
    /\ UNCHANGED <<failures, result>>

\* A write fails and leaves the file as it was, or torn.
FailWrite(g) ==
    /\ failures < MaxFailures
    /\ failures' = failures + 1
    /\ disk' \in {disk, Put(StepOf(g).path, "torn")}

\* Bug variant: the error of one page does not end its generator.
FailPageIgnored(g) == AtStep(g, "page") /\ FailWrite(g) /\ tasks' = NextStep(g) /\ UNCHANGED result

FailPage(g) == AtStep(g, "page") /\ FailWrite(g) /\ tasks' = Abandon(g) /\ UNCHANGED result

\* That there is no search index is only logged.
FailSearchIndex(g) == AtStep(g, "optional") /\ FailWrite(g) /\ tasks' = NextStep(g) /\ UNCHANGED result

\* Bug variant: one limit is shared by all the groups.
HasRoomShared(g) == Cardinality(DOMAIN tasks \ {Main}) < StepOf(g).limit

\* Go of an errgroup blocks while the limit is reached.
HasRoom(g) == Cardinality(Children(g)) < StepOf(g).limit

Spawn(g) ==
    /\ AtStep(g, "group")
    /\ tasks[g].started < Len(StepOf(g).tasks)
    /\ HasRoom(g)
    /\ LET child == Append(g, <<tasks[g].at, tasks[g].started + 1>>)
       IN  tasks' = [h \in DOMAIN tasks \cup {child} |->
                       IF h = child THEN Fresh
                       ELSE IF h = g THEN [tasks[g] EXCEPT !.started = @ + 1] ELSE tasks[h]]
    /\ UNCHANGED <<disk, failures, result>>

\* A child leaves, and its error is the group's.
End(g) ==
    /\ g # Main
    /\ Ended(g)
    /\ tasks' = [h \in DOMAIN tasks \ {g} |->
                    IF h = Parent(g) THEN [tasks[h] EXCEPT !.failed = @ \/ tasks[g].failed]
                    ELSE tasks[h]]
    /\ UNCHANGED <<disk, failures, result>>

AllEnded(g) == Children(g) = {}

Wait(g) ==
    /\ AtStep(g, "group")
    /\ tasks[g].started = Len(StepOf(g).tasks)
    /\ AllEnded(g)
    /\ tasks' = IF tasks[g].failed THEN Abandon(g)
                ELSE [tasks EXCEPT ![g].at = @ + 1, ![g].started = 0]
    /\ UNCHANGED <<disk, failures, result>>

Return ==
    /\ result = "running"
    /\ Ended(Main)
    /\ result' = IF tasks[Main].failed THEN "error" ELSE "ok"
    /\ UNCHANGED <<tasks, disk, failures>>

Render ==
    \/ \E g \in DOMAIN tasks :
          \/ WritePage(g) \/ FailPage(g) \/ FailSearchIndex(g)
          \/ Spawn(g) \/ End(g) \/ Wait(g)
    \/ Return

-----------------------------------------------------------------------------
(* Properties.                                                             *)

\* The goroutines of the program: the main one, those of its groups, one per repository among
\* them, and those that a repository starts, one per package.
TurnsOf(steps) ==
    UNION {{<<i, k>> : k \in DOMAIN steps[i].tasks} : i \in {j \in DOMAIN steps : steps[j].kind = "group"}}
Below(g) == {Append(g, turn) : turn \in TurnsOf(StepsOf(g))}
WithBelow(S) == S \cup UNION {Below(g) : g \in S}
Goroutines == WithBelow(WithBelow({Main}))

\* A page's place is the goroutine that writes it, and the step.
PagesOf(steps) == {i \in DOMAIN steps : steps[i].kind # "group"}
Places == UNION {{<<g, i>> : i \in PagesOf(StepsOf(g))} : g \in Goroutines}
PageAt(place) == StepsOf(place[1])[place[2]]

\* The n-th step on the way to a place, and whether the way to place a turns off before the way
\* to place b, at an earlier step of the same goroutine: then a is written before b, for a group
\* is waited for.
StepTo(place, n) == IF n <= Len(place[1]) THEN place[1][n][1] ELSE place[2]
Before(a, b) ==
    \E n \in 1 .. Len(a[1]) + 1 :
        /\ n <= Len(b[1]) + 1
        /\ \A m \in 1 .. n - 1 : a[1][m] = b[1][m]
        /\ StepTo(a, n) < StepTo(b, n)

SearchIndex == <<"search">>
Written == {PageAt(a).path : a \in Places}

\* Of the writers of a page one that is before no other leaves what stays.
Latest(S) == CHOOSE a \in S : \A b \in S : ~Before(a, b)
LastWriter == [p \in Written |-> PageAt(Latest({a \in Places : PageAt(a).path = p}))]

\* Steps in a sequence, each a page, the search index or a group of goroutines.
OrderlySteps(steps) ==
    /\ steps \in Seq({steps[i] : i \in DOMAIN steps})
    /\ \A i \in DOMAIN steps :
          LET step == steps[i]
          IN  /\ step.kind \in {"page", "optional", "group"}
              /\ step.kind = "group" => step.tasks \in Seq({step.tasks[k] : k \in DOMAIN step.tasks})
              /\ step.kind = "page" => step.path # SearchIndex
              /\ step.kind = "optional" => step.path = SearchIndex

\* Whatever generateSite writes twice is written by steps of which one has
\* ended before the other begins, never by two goroutines that may run beside
\* one another; the goroutines are those of three levels of errgroups, and only
\* the search index is a page that may be missing (generate_site.go:1573).
OrderlyProgram ==
    /\ \A g \in Goroutines : Below(g) \subseteq Goroutines /\ OrderlySteps(StepsOf(g))
    /\ IsFiniteSet(Places)
    /\ \A a, b \in Places : a # b /\ PageAt(a).path = PageAt(b).path => Before(a, b) \/ Before(b, a)

\* No two goroutines are at one page.
WritersApart ==
    \A g, h \in DOMAIN tasks :
        g # h /\ AtStep(g, "page") /\ AtStep(h, "page") => StepOf(g).path # StepOf(h).path

\* Two goroutines never write one file at a time, as two calls of os.Create for
\* it would mix their pages: the program is orderly, what runs is its goroutines
\* and no others (the errgroups of generate_site.go:173 to 1458), and of these
\* no two are at one page.
NoSharedPage == OrderlyProgram /\ DOMAIN tasks \subseteq Goroutines /\ WritersApart

\* When generateSite reports success every page is there, whole, and the one
\* that generating page after page would leave; only the search index, whose
\* failure is logged (generate_site.go:1600), may be missing or torn.
WholeSiteOrError ==
    result = "ok" =>
        \A p \in Written \ {SearchIndex} : p \in DOMAIN disk /\ disk[p] = LastWriter[p].tmpl

\* The templates that link through a base that PageNode computes wrong: it adds
\* up the paths of a page's ancestors, which are paths from the root already
\* (page_node.go:14).
MisbasedTemplates == {"moved_package.html", "package_picker.html"}

\* The pages of what the repositories have, of packages that moved away and of licences that
\* one provides: what a package names may be none of it.
InRepository ==
    LET data == prepareAggregatedData(Sites)
    IN  {Pkg(k) : k \in data.Packages}
        \cup {Pkg(m.old) : m \in {n \in data.Moves : WellFormedMove(n)}}
        \cup {<<"arches", a>> : a \in data.Arches}
        \cup {<<"licenses", l>> : l \in Linkable(data.Licenses)}
        \cup UNION {{RepoPkg(s.repo, k) : k \in PkgMap(s)} : s \in SitesOf(Sites)}

\* In a site that was generated the links leave nobody at a page that is not
\* there: the conditions on which a template links to what the site lists and
\* those on which a generator writes agree (generate_site.go:29 to 1570), and
\* so do links to what a package names, when a repository has it.  When none
\* has (a package moved to one that is gone, generate_site.go:1468, or a
\* dependency, keyword or licence from elsewhere, template_funcs.go:185) they
\* lead nowhere; the links that SitePages leaves out, and those through
\* PageNode, are not judged.
LinksResolve ==
    result = "ok" =>
        \A p \in DOMAIN disk \ {SearchIndex} :
            LastWriter[p].tmpl \notin MisbasedTemplates
                => LastWriter[p].links \cup (LastWriter[p].names \cap InRepository)
                        \subseteq DOMAIN disk \cup {SearchIndex}

\* generateSite returns, whatever fails: no errgroup waits for room that only
\* its own waiting parent could give.
GenerationEnds == <>(result # "running")
=============================================================================
