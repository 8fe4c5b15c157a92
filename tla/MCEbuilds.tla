----------------------------- MODULE MCEbuilds -----------------------------
(***************************************************************************)
(* TLC instances of what changes package directories: the ebuild commands  *)
(* (EbuildCommands) and the deduplication (EbuildDeduplicate).  A behaviour*)
(* is one of either, which share directories in no command.                *)
(*                                                                         *)
(* The commands meet the package foo and one whose name seems to hold a    *)
(* version, the repository they are run in and another one, three contents *)
(* of which two differ in comments.  The deduplication meets a package p   *)
(* with three releases, two of them with the same content, and a live      *)
(* ebuild, and a package q with two releases with different contents but   *)
(* equal versions (1.0 and 1.0-r0).                                        *)
(***************************************************************************)
EXTENDS EbuildCommands, EbuildDeduplicate

VARIABLE runs    \* what is run in this behaviour

-----------------------------------------------------------------------------
(* The commands.                                                           *)

Plain(nums, rev) == Text(nums, 0, <<>>, rev)
Suffixed(nums, name, digits) == Text(nums, 0, <<[name |-> name, digits |-> digits]>>, NoRevision)
Lettered(nums) == Text(nums, 2, <<>>, NoRevision)
One == <<<<1>>>>

\* 1 with revisions, of which r10 comes before r2 in a listing; numbers, also the equal 1, 1.0
\* and 1.0.0-r0; numbers that begin with a zero; and letters and suffixes.
Revisions == {Plain(One, r) : r \in {NoRevision, <<2>>, <<1, 0>>}}
Numbers == {Plain(n, NoRevision) : n \in {One, <<<<1>>, <<0>>>>, <<<<1>>, <<1>>>>, <<<<1>>, <<1, 0>>>>, <<<<9>>>>}}
           \cup {Plain(<<<<1>>, <<0>>, <<0>>>>, <<0>>)}
Zeros == {Plain(<<<<1>>, d>>, NoRevision) : d \in {<<0>>, <<0, 1>>, <<0, 9>>, <<0, 9, 0>>, <<1>>}}
         \cup {Plain(<<<<1>>, <<0, 0, 1>>>>, <<9>>)}
Suffixes == {Plain(One, NoRevision), Lettered(One), Suffixed(One, "rc", <<2>>), Suffixed(One, "rc", <<1, 0>>),
             Suffixed(One, "p", <<>>), Suffixed(One, "alpha", <<>>)}

NamedVersions == {Plain(One, NoRevision), Plain(One, <<1>>)}
Bump == {Plain(One, <<1>>)}

\* Directories without and with one and two revisions of 1, and some of every kind of version.
OldContent(names) == [v \in names |-> "old"]
AnyDirectory ==
    {OldContent(s) : s \in SUBSET {Plain(One, NoRevision), Plain(One, <<1>>)}}
    \cup {OldContent(Revisions), OldContent(Numbers), OldContent(Zeros), OldContent(Suffixes)}

BothCut == [p \in {"foo", "foo-3dfx"} |-> "foo"]
CodeOf == [c \in {"old", "new"} |-> c]
FlagsOf == [c \in {"old", "new"} |-> IF c = "new" THEN {"ssl"} ELSE {}]

-----------------------------------------------------------------------------
(* The deduplication.                                                      *)

SixFiles == {"p-1", "p-2", "p-3", "p-9999", "q-1", "q-1-r0"}
InP == {"p-1", "p-2", "p-3", "p-9999"}
PkgOf == [f \in SixFiles |-> IF f \in InP THEN "p" ELSE "q"]
GroupOf == [f \in SixFiles |-> IF f = "p-9999" THEN "live" ELSE "release"]
VersionOf == [f \in SixFiles |->
    CASE f \in {"p-1", "q-1", "q-1-r0"} -> 1
      [] f = "p-2" -> 2
      [] f = "p-3" -> 3
      [] f = "p-9999" -> 9999]
DigestOf == [f \in SixFiles |-> IF f \in {"p-1", "p-3"} THEN "same" ELSE f]

\* Any set of the files, each once.
EachOnce ==
    UNION {{s \in [1..Cardinality(S) -> S] : \A f \in S : \E i \in DOMAIN s : s[i] = f} :
              S \in {{"p-3", "p-1"}, InP, {"p-1", "q-1", "q-1-r0"}}}
             \cup {<<"p-1", "p-2", "p-3", "p-9999", "q-1", "q-1-r0">>}

\* The directory of a package and one of the files in it.
Overlapping == {<<"p-1", "p-2", "p-3", "p-9999", "p-3">>}
AnyListing == EachOnce \cup Overlapping

-----------------------------------------------------------------------------
OneListing == CHOOSE s \in Listings : TRUE
OneDirectory == CHOOSE p \in Packages : TRUE

EbuildsInit ==
    /\ Init /\ DeduplicateInit
    /\ runs \in {"commands", "deduplicate"}
    /\ runs = "commands" => listing = OneListing
    /\ runs = "deduplicate" => last.pkg = OneDirectory /\ ebuilds[Cwd] = EmptyRepo

EbuildsNext ==
    \/ runs = "commands" /\ Next /\ UNCHANGED <<deduplicateVars, runs>>
    \/ runs = "commands" /\ count = MaxCommands /\ UNCHANGED <<vars, deduplicateVars, runs>>
    \/ runs = "deduplicate" /\ DeduplicateNext /\ UNCHANGED <<vars, runs>>

EbuildsSpec == EbuildsInit /\ [][EbuildsNext]_<<vars, deduplicateVars, runs>>
=============================================================================
