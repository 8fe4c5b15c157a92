------------------------------ MODULE TextLines -----------------------------
(***************************************************************************)
(* What the models of files that are edited line by line share: lines that *)
(* are picked out of a sequence keep their order.                          *)
(***************************************************************************)
EXTENDS Naturals, Sequences, FiniteSets

\* The numbers of S in their order: the k-th has k of them up to itself.
Ascending(S) == [k \in 1 .. Cardinality(S) |-> CHOOSE i \in S : Cardinality({j \in S : j <= i}) = k]

\* The lines whose numbers are in kept.
LinesAt(lines, kept) == [k \in 1 .. Cardinality(kept) |-> lines[Ascending(kept)[k]]]
=============================================================================
