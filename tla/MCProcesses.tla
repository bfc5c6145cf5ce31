---------------------------- MODULE MCProcesses -----------------------------
(* The daemon's process, its run manager and the capacity pools, checked    *)
(* with their liveness side by side: an initial state chooses the one that  *)
(* moves and the others stay in a state of their own.                       *)
EXTENDS DaemonControl, RunManager, MCCapacity

VARIABLE focus

\* Two commands are alike: each pair of operations in one order.
MCPairs == {<<"start", "start">>, <<"start", "stop">>, <<"start", "restart">>,
            <<"stop", "stop">>, <<"stop", "restart">>, <<"restart", "restart">>}

processVars == <<focus, daemonVars, runsVars, vars>>

Daemon == focus = "daemon"
Runner == focus = "runs"
Slots == focus = "capacity"

ProcessesInit ==
    /\ focus \in {"daemon", "runs", "capacity"}
    /\ DaemonInit /\ RunsInit /\ Init
    /\ <<does[1], does[2]>> \in MCPairs
    /\ ~Daemon => ~installed /\ \A c \in Commands : does[c] = "start"

ProcessesNext ==
    \/ Daemon /\ DaemonNext /\ UNCHANGED <<focus, runsVars, vars>>
    \/ Runner /\ RunsNext /\ UNCHANGED <<focus, daemonVars, vars>>
    \/ Slots /\ Next /\ UNCHANGED <<focus, daemonVars, runsVars>>

\* The fairness of each component's own specification, for the one that moves.
ProcessesSpec ==
    /\ ProcessesInit /\ [][ProcessesNext]_processVars
    /\ WF_daemonVars(Daemon /\ UnitKills)
    /\ \A c \in Commands : WF_daemonVars(Daemon /\ ~In(c, "idle") /\ CommandStep(c))
    /\ \A w \in Workers : WF_vars(Slots /\ Acquire(w)) /\ WF_vars(Slots /\ Wake(w))
    /\ \A c \in Callers : /\ WF_runsVars(Runner /\ HandlerMoves(c))
                          /\ SF_runsVars(Runner /\ TakeLock(c))

\* Every command of the daemon's and every push to it is answered, even when what it waits for
\* never stops.
CallersAreAnswered == CommandEnds /\ PushIsAnswered
=============================================================================
