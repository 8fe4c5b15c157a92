-------------------------- MODULE MCMemoryManager --------------------------
(***************************************************************************)
(* TLC instances of MemoryManager.  The proofs hold the module's theorems  *)
(* for every instance.                                                     *)
(***************************************************************************)
EXTENDS MemoryManager

\* Readings that admit one, two and three of the calls at a time.
LowToHigh == {0, 4, 6}
=============================================================================
