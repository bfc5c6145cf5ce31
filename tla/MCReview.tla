------------------------------ MODULE MCReview ------------------------------
(* The pipeline without crashes, the findings of its review step, and the     *)
(* configuration it runs under, checked side by side: an initial state        *)
(* chooses the part that moves.                                               *)
EXTENDS MCPipeline, MCFindings, Config

VARIABLE focus

MCGateRules(v) == [NoGates EXCEPT !["slop"] = v, !["review"] = v, !["evidenceBranch"] = v]

\* Files of the default branch: strict, opting out of project instructions, and letting a branch
\* choose its commands; one a branch would like; and one that does not parse.
MCStrict == [EmptyFile EXCEPT !.commands = "trusted", !.agents = <<"acp:cursor", "codex", "cursor">>,
                              !.gates = MCGateRules("strict"), !.rerun = 9]
MCOptOut == [EmptyFile EXCEPT !.agents = <<"claude", "copilot">>, !.rerun = -1,
                              !.gates = [MCGateRules("strict") EXCEPT !["disableProjectSettings"] = "on"]]
MCOpen == [MCStrict EXCEPT !.allow = TRUE]
MCLoose == [EmptyFile EXCEPT !.commands = "pushed", !.agents = <<"copilot">>, !.rerun = 5,
                             !.gates = [f \in GateFields |-> "loose"],
                             !.prefs = [NoPrefs EXCEPT !["autoFix"] = "nine"],
                             !.localRoot = "pushed", !.allow = TRUE]
MCUnreadable == [Absent EXCEPT !.is = "bad"]

MCPairs == [none |-> <<Absent, Absent>>, open |-> <<Absent, MCOpen>>, optOut |-> <<MCOptOut, MCOptOut>>,
            split |-> <<MCStrict, MCOptOut>>, loose |-> <<MCLoose, Absent>>, unreadable |-> <<MCUnreadable, Absent>>]
MCTrusted == {"none", "open", "optOut", "split"}
MCPushed == {"loose", "unreadable"}
MCGlobals == [default |-> [EmptyGlobal EXCEPT !.is = "absent"], bad |-> [EmptyGlobal EXCEPT !.is = "bad"],
              own |-> [EmptyGlobal EXCEPT !.agents = <<"auto", "claude">>, !.overridden = {"codex"},
                                          !.localRoot = "data"]]
MCPaths == [one |-> [found |-> {"claude", "codex", "copilot", "acpx"}, broken |-> {"cursor-agent"}],
            two |-> [found |-> {"claude", "codex", "acpx", "cursor-agent"}, broken |-> {}]]

reviewVars == <<focus, vars, findingsVars, configVars>>

ReviewInit ==
    /\ focus \in {"pipeline", "findings", "config"}
    /\ Init /\ FindingsInit /\ ConfigInit
    /\ focus # "findings" => known = <<>>
    /\ hosted.files[1] = "open" /\ globalFile = "own" /\ installed = "two"

ReviewNext ==
    \/ focus = "pipeline" /\ Next /\ UNCHANGED <<focus, findingsVars, configVars>>
    \/ focus = "findings" /\ FindingsNext /\ UNCHANGED <<focus, vars, configVars>>
    \/ focus = "config" /\ ConfigNext /\ UNCHANGED <<focus, vars, findingsVars>>

ReviewSpec == ReviewInit /\ [][ReviewNext]_reviewVars
=============================================================================
