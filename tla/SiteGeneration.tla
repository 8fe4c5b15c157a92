--------------------------- MODULE SiteGeneration ---------------------------
(***************************************************************************)
(* What "g2 overlays site generate" promises, whatever its mode: every     *)
(* repository with a git-over-http source is resolved exactly once, to a   *)
(* parsed site or to a failure; only then is the run over.  It ends in a   *)
(* fetch error when some fetch failed and the user did not ask to continue *)
(* on errors, and otherwise publishes the sites that were parsed, all of   *)
(* them, in the order of their names.                                      *)
(***************************************************************************)
EXTENDS Naturals, FiniteSets

CONSTANTS
    Tasks,            \* the repositories to process
    RepoName          \* their names, as numbers in alphabetical order

VARIABLES
    continueOnError,  \* the -continue-on-error flag
    outcome,          \* what became of each repository
    result,           \* what the command returned
    published         \* the sites handed to generateSite, in order

vars == <<continueOnError, outcome, result, published>>

Outcomes == {"site", "fetchFailed", "parseFailed"}

Resolved(o) == {r \in Tasks : outcome[r] = o}

\* The orders in which sort.Slice may leave the sites of S.
SortedByName(S) ==
    {s \in [1..Cardinality(S) -> S] :
        /\ \A r \in S : \E i \in DOMAIN s : s[i] = r
        /\ \A i, j \in DOMAIN s : i < j => RepoName[s[i]] <= RepoName[s[j]]}

Init ==
    /\ continueOnError \in BOOLEAN
    /\ outcome = [r \in Tasks |-> "pending"]
    /\ result = "running"
    /\ published = <<>>

Resolve(r) ==
    /\ result = "running"
    /\ outcome[r] = "pending"
    /\ \E o \in Outcomes : outcome' = [outcome EXCEPT ![r] = o]
    /\ UNCHANGED <<continueOnError, result, published>>

AllResolved == result = "running" /\ Resolved("pending") = {}

FetchError ==
    /\ AllResolved
    /\ ~continueOnError /\ Resolved("fetchFailed") # {}
    /\ result' = "fetchError"
    /\ UNCHANGED <<continueOnError, outcome, published>>

Generate ==
    /\ AllResolved
    /\ continueOnError \/ Resolved("fetchFailed") = {}
    /\ result' \in {"generated", "generateError"}
    /\ published' \in SortedByName(Resolved("site"))
    /\ UNCHANGED <<continueOnError, outcome>>

Next == (\E r \in Tasks : Resolve(r)) \/ FetchError \/ Generate

Spec == Init /\ [][Next]_vars /\ WF_vars(Next)
=============================================================================
