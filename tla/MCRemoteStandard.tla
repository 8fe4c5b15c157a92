------------------------- MODULE MCRemoteStandard -------------------------
(***************************************************************************)
(* TLC instances of RemoteStandard, in both work modes: a behaviour is one *)
(* of the persistent directory, with or without old checkouts, or of the   *)
(* temporary one.                                                          *)
(***************************************************************************)
EXTENDS RemoteStandard

VARIABLE workMode

Temp == INSTANCE RemoteStandard WITH Persistent <- FALSE

FourRepos == <<4, 3, 1, 2>>
FirstIsSsh == Repos \ {1}

allVars == <<vars, workMode>>

ModesInit ==
    \/ workMode = "persistent" /\ Init
    \/ workMode = "temp" /\ Temp!Init

MainOfMode ==
    /\ \/ workMode = "persistent" /\ Main
       \/ workMode = "temp" /\ Temp!Main
    /\ UNCHANGED workMode

ProcessOfMode(r) == Process(r) /\ UNCHANGED workMode

ModesNext ==
    \/ MainOfMode
    \/ \E r \in Repos : ProcessOfMode(r)
    \/ Returned /\ UNCHANGED workMode

ModesSpec ==
    /\ ModesInit /\ [][ModesNext]_allVars
    /\ WF_allVars(MainOfMode) /\ \A r \in Repos : WF_allVars(ProcessOfMode(r))

\* In temporary mode no checkout is left under tmpDir when the command decides
\* its result (RemoteStandard).
TempCheckoutsRemoved == workMode = "temp" => Temp!CheckoutsRemoved
=============================================================================
