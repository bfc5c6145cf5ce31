------------------------------- MODULE MCHost -------------------------------
(* The parts around a run that share no state within one command, checked  *)
(* side by side: an initial state chooses the part that moves.             *)
EXTENDS BranchSync, Delivery, Lanes, GateRepo, Screen, AgentTurns, AgentAnswers

VARIABLE focus

\* A run whose rebased head was recorded while the gate stayed where it was.
MCStranded == {[NewRun(<<"a">>) EXCEPT !.status = "over", !.head = <<"o", "a">>, !.verified = v] : v \in BOOLEAN}

MCChain == <<"codex", "claude">>

\* Two invocations share a lane with a seat, and one of them falls back on another lane.
TwoOnASeat ==
    /\ \A l \in LaneSet : marks[l] = NoMark
    /\ inv = <<NewInv(MCChain), NewInv(<<"codex">>), Unasked>>

\* Three invocations share a lane without seats: one may note an outage late, while two probe.
ThreeOnALane == marks["codex"] = NoMark /\ \A i \in Invokers : inv[i] = NewInv(<<"claude">>)

\* Configurations with two adapters that resume sessions, with none, and with
\* sessions not reused.
MCSetups ==
    {[lanes |-> l, reuse |-> TRUE] : l \in {<<"codex", "claude">>, <<"pi">>, <<"copilot">>, <<"acp">>}}
    \cup {[lanes |-> <<"claude">>, reuse |-> FALSE]}

hostVars == <<focus, syncVars, deliveryVars, lanesVars, gateVars, screenVars, turnsVars, answersVars>>

HostInit ==
    /\ focus \in {"sync", "delivery", "lanes", "gate", "screen", "turns", "answers"}
    /\ SyncInit /\ DeliveryInit /\ LanesInit /\ GateInit /\ ScreenInit
    /\ TurnsInit /\ AnswersInit
    /\ focus = "sync" => upstream = Absent
    /\ focus # "sync" => Active
    /\ focus \notin {"sync", "delivery"} => upstream = Absent
    /\ TwoOnASeat \/ (focus = "lanes" /\ ThreeOnALane)
    /\ focus # "screen" => job = NewJob(0)
    /\ focus # "turns" => setup.lanes = <<"acp">>

HostNext ==
    \/ focus = "sync" /\ SyncNext
       /\ UNCHANGED <<focus, deliveryVars, lanesVars, gateVars, screenVars, turnsVars, answersVars>>
    \/ focus = "delivery" /\ DeliveryNext
       /\ UNCHANGED <<focus, syncVars, lanesVars, gateVars, screenVars, turnsVars, answersVars>>
    \/ focus = "lanes" /\ LanesNext
       /\ UNCHANGED <<focus, syncVars, deliveryVars, gateVars, screenVars, turnsVars, answersVars>>
    \/ focus = "gate" /\ GateNext
       /\ UNCHANGED <<focus, syncVars, deliveryVars, lanesVars, screenVars, turnsVars, answersVars>>
    \/ focus = "screen" /\ ScreenNext
       /\ UNCHANGED <<focus, syncVars, deliveryVars, lanesVars, gateVars, turnsVars, answersVars>>
    \/ focus = "turns" /\ TurnsNext
       /\ UNCHANGED <<focus, syncVars, deliveryVars, lanesVars, gateVars, screenVars, answersVars>>
    \/ focus = "answers" /\ AnswersNext
       /\ UNCHANGED <<focus, syncVars, deliveryVars, lanesVars, gateVars, screenVars, turnsVars>>

HostSpec == HostInit /\ [][HostNext]_hostVars

\* Nothing that a recovery, a rebase, a fix or a push moves on a branch loses
\* a commit that is still wanted, the screen offers what the run is at, and the
\* answer read in an agent's text is the one its author meant.
HostSafe ==
    /\ focus = "sync" => SyncSafe
    /\ focus = "delivery" => DeliverySafe
    /\ focus = "screen" => ScreenSafe
    /\ focus = "answers" => AnswerAsMeant
=============================================================================
