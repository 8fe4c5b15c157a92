---------------------------- MODULE RemoteRepos ----------------------------
(***************************************************************************)
(* What the two modes of cmdSiteRemote in cmd/g2/site.go have in common:   *)
(* the list of repositories, the directories their checkouts go to, and    *)
(* the fetch of one repository as far as a parser can tell it apart.  The  *)
(* retries inside FetchRepo have a module of their own.                    *)
(***************************************************************************)
EXTENDS Naturals, Sequences, FiniteSets

CONSTANTS
    RepoName,         \* the name of each listed repository; the numbers
                      \* stand for strings, in alphabetical order
    HttpGit,          \* the listed repositories with an http git source
    Concurrency,      \* the -concurrency flag; 0 stands for 0 and below
    SmartMode,        \* the -smart-mode flag: try to fetch into memory first
    Persistent        \* -work-mode persistent rather than temp

Repos == DOMAIN RepoName
Names == {RepoName[r] : r \in Repos}

ASSUME RemoteAssumption ==
    /\ RepoName \in Seq(Nat)
    /\ HttpGit \subseteq Repos
    /\ Concurrency \in Nat
    /\ {SmartMode, Persistent} \subseteq BOOLEAN

\* A directory is absent, holds a checkout of an earlier run, is being
\* written, updated or removed, or holds the whole of the new checkout.
DirStates == {"absent", "old", "partial", "whole"}

\* The temporary directory is new; a persistent one may hold old checkouts.
InitialDisks ==
    {d \in [Names -> {"absent", "old"}] :
        Persistent \/ \A n \in Names : d[n] = "absent"}

NoDirs == [n \in Names |-> "absent"]

\* sort.Slice by RepoName: any arrangement of the sites in that order.
SortedByName(S) ==
    {s \in [1..Cardinality(S) -> S] :
        /\ \A r \in S : \E i \in DOMAIN s : s[i] = r
        /\ \A i, j \in DOMAIN s : i < j => RepoName[s[i]] <= RepoName[s[j]]}

SitesOf(s) == {s[i] : i \in DOMAIN s}
=============================================================================
