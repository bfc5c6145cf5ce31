------------------------------- MODULE MCLive -------------------------------
(* The pipeline's executor under fairness, and the wizard that starts a run,  *)
(* checked side by side: an initial state chooses the part that moves.        *)
EXTENDS MCPipeline, Wizard

VARIABLE focus

liveVars == <<focus, vars, wizardVars>>

LiveInit ==
    /\ focus \in {"pipeline", "wizard"}
    /\ Init /\ WizardInit
    /\ focus = "wizard" => skips = CHOOSE S \in SkipSets : TRUE
    /\ focus = "pipeline" => mode = "keys" /\ repo.head = Default /\ repo.dirty /\ started[Topic] = "none"

LiveNext ==
    \/ focus = "pipeline" /\ Next /\ UNCHANGED <<focus, wizardVars>>
    \/ focus = "wizard" /\ WizardNext /\ UNCHANGED <<focus, vars>>

\* The fairness of the executor, while it is the part that moves.
LiveSpec ==
    /\ LiveInit /\ [][LiveNext]_liveVars
    /\ WF_vars(focus = "pipeline" /\ Executor /\ UNCHANGED <<focus, wizardVars>>)
=============================================================================
