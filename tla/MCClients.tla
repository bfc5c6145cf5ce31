----------------------------- MODULE MCClients ------------------------------
(* Parts that share no state, checked side by side: the clients of a run,   *)
(* the CI of its pull request, and the processes and agent servers it leaves *)
(* behind. An initial state chooses the part that moves.                     *)
EXTENDS GateDrive, CIMonitor, Leftovers

VARIABLE focus

clientsVars == <<focus, driveVars, ciVars, treesVars, serversVars>>

ClientsInit ==
    /\ focus \in {"drive", "ci", "trees", "servers"}
    /\ DriveInit /\ CIInit /\ TreesInit /\ ServersInit
    /\ focus # "drive" => noFix

ClientsNext ==
    \/ focus = "drive" /\ DriveNext /\ UNCHANGED <<focus, ciVars, treesVars, serversVars>>
    \/ focus = "ci" /\ CINext /\ UNCHANGED <<focus, driveVars, treesVars, serversVars>>
    \/ focus = "trees" /\ TreesNext /\ UNCHANGED <<focus, driveVars, ciVars, serversVars>>
    \/ focus = "servers" /\ ServersNext /\ UNCHANGED <<focus, driveVars, ciVars, treesVars>>

ClientsSpec == ClientsInit /\ [][ClientsNext]_clientsVars
=============================================================================
