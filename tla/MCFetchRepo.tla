---------------------------- MODULE MCFetchRepo ----------------------------
(***************************************************************************)
(* TLC instances of FetchRepo.                                             *)
(***************************************************************************)
EXTENDS FetchRepo

Either == BOOLEAN
=============================================================================
