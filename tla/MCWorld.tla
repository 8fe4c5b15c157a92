------------------------------ MODULE MCWorld ------------------------------
(***************************************************************************)
(* TLC instance of World: two packages of which one is disabled, commented *)
(* or preceded by words, a terminal of one row or two for the list, and a  *)
(* command next to the editor.                                             *)
(***************************************************************************)
EXTENDS World

A == Piece("a", Unversioned)
B == Piece("b", Unversioned)

InitialLines ==
    {<<>>, <<<<Blank, A>>, <<B>>>>, <<<<Blank, Words>>, <<A, Words>>, <<B>>>>}
=============================================================================
