------------------------- MODULE MCRemotePipeline -------------------------
(***************************************************************************)
(* TLC instances of RemotePipeline: a list of four repositories in an      *)
(* order that is not alphabetical, with two workers per stage, and a list  *)
(* of two for the run that looks at one question.                          *)
(***************************************************************************)
EXTENDS RemotePipeline

FourRepos == <<4, 3, 1, 2>>
TwoRepos == <<2, 1>>
AllRepos == Repos
FirstIsSsh == Repos \ {1}
=============================================================================
