--------------------------- MODULE PipelineProofs ---------------------------
(***************************************************************************)
(* Proofs about Pipeline, for every number of commits, crashes and         *)
(* automatic fixes and every skip set, and about Config, for every set of  *)
(* files, agents and binaries.                                             *)
(*                                                                         *)
(* None of the safety properties is inductive.  That a review grants       *)
(* authority over the run's head, and that no later gate vouches for       *)
(* another one, follows from where the executor stands in the list of      *)
(* steps (Position) and from what a parked review recorded (Candidate);    *)
(* Position also gives what recovery and the loop rely on.  The response   *)
(* slot is followed through every place of the executor (Slot), the        *)
(* attempts in memory are tied to the durable ones (Budget), and the       *)
(* awaiting mark to the gate (Awaits).                                     *)
(*                                                                         *)
(* What a run delivers needs a second invariant (DeliveryInv): heads only  *)
(* grow, a grant stands on a completed review, and Push leaves its turn    *)
(* either having delivered the head every gate certifies or with the       *)
(* review gone stale, so that the run goes back to it.                     *)
(***************************************************************************)
EXTENDS Pipeline, Config, TLAPS

InStep == {"executing", "assessing", "proposing", "salvaged", "repairing", "unrepaired",
           "published", "settled"}
AtGate == {"waiting", "claiming", "answered", "resolving", "resuming"}
Busy == InStep \cup AtGate \cup {"returned"}

\* TypeOK in two parts: one for each prover.
Flags ==
    /\ awaiting \in BOOLEAN
    /\ dirty \in BOOLEAN
    /\ fixing \in BOOLEAN
    /\ waiting \in BOOLEAN
    /\ recovered \in BOOLEAN
    /\ atGate \in BOOLEAN

Data ==
    /\ runStatus \in RunStatuses
    /\ st \in [Steps -> StepStatuses]
    /\ cert \in [Steps -> Heads \cup {NoHead}]
    /\ runHead \in Heads
    /\ approved \in Heads \cup {NoHead}
    /\ autoFixes \in [Steps -> Nat]
    /\ roundHead \in Heads \cup {NoHead}
    /\ prState \in PRStates
    /\ wt \in Heads
    /\ remote \in Heads \cup {NoHead}
    /\ commits \in Heads
    /\ lineage \in [Heads -> SUBSET Heads]
    /\ forge \in PRStates
    /\ pc \in Places
    /\ cur \in 1..10
    /\ memHead \in Heads
    /\ prevHead \in Heads
    /\ attempts \in Nat
    /\ flow \in {"next", "restart", "skip_rest"}
    /\ ch \in Rulings \cup {"none"}
    /\ resp \in Rulings \cup {"none", "cancelled", "fatal", "reconciled"}
    /\ cause \in Causes \cup {"none"}
    /\ skips \in SUBSET Steps
    /\ reviewed \in SUBSET Heads
    /\ crashes \in Nat

\* Steps before the executor's are settled, steps after it untouched.
Position ==
    /\ pc = "start" => cur = 1 /\ \A s \in Steps : st[s] = "pending"
    /\ pc \in Busy => cur \in Steps
    /\ pc \in Busy \cup {"dispatch"} =>
           \A s \in Steps : s < cur => st[s] \in {"completed", "skipped"}
    /\ pc \in Busy => \A s \in Steps : s > cur => st[s] \in {"pending", "skipped"}
    /\ pc = "dispatch" => \A s \in Steps : s >= cur => st[s] \in {"pending", "skipped"}
    /\ pc \in InStep =>
           st[cur] \in {"running", "fixer_running"} \/ (cur = CI /\ st[cur] = "completed")
    /\ pc \in AtGate => st[cur] \in Parked \/ (cur = CI /\ st[cur] = "completed")
    /\ pc = "returned" => st[cur] \in {"completed", "skipped"}
    /\ pc \in {"repairing", "unrepaired"} => cur = CI
    /\ flow = "restart" => cur >= Review
    /\ pc = "down" => flow = "next"

\* The recorded head and what a parked review may hand over.
Candidate ==
    /\ memHead = runHead
    /\ pc = "published" => remote # NoHead
    /\ pc # "ended" /\ st[Review] \in Parked => roundHead \in {NoHead, runHead}

\* The response slot in every position, not only where a ruling is admitted.
Slot ==
    /\ pc \in {"waiting", "claiming"} /\ ch = "none" => waiting = TRUE
    /\ pc \in {"waiting", "claiming"} /\ ch # "none" => waiting = FALSE
    /\ pc \notin {"waiting", "claiming"} => waiting = FALSE /\ ch = "none"

\* Inside a step the attempts in memory are the durable ones.
Budget ==
    /\ AutoFixBudget
    /\ pc \in InStep \cup AtGate /\ atGate = FALSE => attempts = autoFixes[cur]
    /\ pc \in InStep \cup {"start", "dispatch", "returned"} => atGate = FALSE

\* awaiting_agent_since is set at the gate alone, or after a crash there.
Awaits ==
    /\ pc = "start" => awaiting = FALSE
    /\ awaiting = TRUE /\ runStatus = "running" =>
           pc \in {"waiting", "claiming", "answered", "resuming", "down"}
    /\ pc \in AtGate /\ st[cur] = "completed" => runStatus # "running"
    /\ awaiting = TRUE /\ pc = "down" /\ runStatus = "running" => \E g \in Steps : GateAt(g)

IInv == TypeOK /\ Position /\ Candidate /\ AuthorityCoversGates /\ Slot /\ Budget /\ Awaits

-----------------------------------------------------------------------------
(* Types.                                                                  *)

USE DEF vars, dbVars, headRow, roundRows, gitVars, treeVars, memVars, loopVars, turnVars, gateVars,
        modeVars, ghostVars

\* promoteRunHead writes well-typed rows.
LEMMA PromoteTypes ==
    ASSUME TypeOK, NEW h \in Heads, promoteRunHead(h)
    PROVE  /\ runHead' \in Heads
           /\ approved' \in Heads \cup {NoHead}
           /\ cert' \in [Steps -> Heads \cup {NoHead}]
BY DEF TypeOK, promoteRunHead

\* A new commit is a head, and so are its ancestors.
LEMMA CommitTypes ==
    ASSUME TypeOK, NEW base \in SUBSET Heads, NewCommit(base)
    PROVE  /\ commits + 1 \in Heads
           /\ commits' \in Heads
           /\ lineage' \in [Heads -> SUBSET Heads]
<1>1. commits + 1 \in Heads
  BY MaxHeadAssumption DEF TypeOK, NewCommit, Heads
<1>2. base \cup {commits + 1} \in SUBSET Heads
  BY <1>1
<1>. QED
  BY <1>1, <1>2 DEF TypeOK, NewCommit

\* A step that adopts its worktree's commits records a head.
LEMMA AdoptTypes ==
    ASSUME TypeOK, AdoptWork
    PROVE  /\ wt' \in Heads /\ memHead' \in Heads /\ commits' \in Heads
           /\ lineage' \in [Heads -> SUBSET Heads]
           /\ promoteRunHead(wt')
<1>1. lineage[wt] \in SUBSET Heads
  BY DEF TypeOK
<1>2. CASE wt' = commits + 1 /\ NewCommit(lineage[wt])
  BY <1>1, <1>2, CommitTypes DEF AdoptWork
<1>3. CASE wt' = wt /\ NoCommit
  BY <1>3 DEF AdoptWork, NoCommit, TypeOK
<1>. QED
  BY <1>2, <1>3 DEF AdoptWork

\* UpdateRunPRState writes well-typed rows.
LEMMA PRStateTypes ==
    ASSUME TypeOK, NEW observed \in PRStates, UpdateRunPRState(observed)
    PROVE  /\ prState' \in PRStates
           /\ st' \in [Steps -> StepStatuses]
           /\ runStatus' \in RunStatuses
<1>1. prState' \in PRStates
  BY DEF TypeOK, UpdateRunPRState, monotonicPRState
<1>2. st' \in [Steps -> StepStatuses]
  BY DEF TypeOK, UpdateRunPRState, StepStatuses
<1>3. runStatus' \in RunStatuses
  BY DEF TypeOK, UpdateRunPRState, RunStatuses
<1>. QED
  BY <1>1, <1>2, <1>3

\* A restart goes back to one of the required gates.
LEMMA EarliestStaleGate ==
    ASSUME StaleGates # {}
    PROVE  MinOf(StaleGates) \in RequiredGates
<1>1. StaleGates \subseteq RequiredGates
  BY DEF StaleGates
<1>2. \E x \in StaleGates : \A y \in StaleGates : x <= y
  <2>1. \A x \in StaleGates : x \in 3..5
    BY <1>1 DEF RequiredGates, Review, Test, Document
  <2>2. CASE 3 \in StaleGates
    BY <2>1, <2>2
  <2>3. CASE 3 \notin StaleGates /\ 4 \in StaleGates
    BY <2>1, <2>3
  <2>4. CASE 3 \notin StaleGates /\ 4 \notin StaleGates
    <3>1. \A x \in StaleGates : x = 5
      BY <2>1, <2>4
    <3>. QED
      BY <3>1
  <2>. QED
    BY <2>2, <2>3, <2>4
<1>. QED
  BY <1>1, <1>2 DEF MinOf

\* Every action keeps the types of the variables that are not flags.
LEMMA DataStep ==
    ASSUME TypeOK, Position, Candidate, [Next]_vars
    PROVE  Data'
<1>. USE DEF TypeOK, Data
<1>1. CASE Begin
  BY <1>1 DEF Begin, Places, RunStatuses, Active
<1>2. CASE DispatchFails
  BY <1>2 DEF DispatchFails, Places
<1>3. CASE DispatchSkip
  BY <1>3 DEF DispatchSkip, StepStatuses, InProgress, Parked, Steps
<1>4. CASE StartStep
  BY <1>4, LimitAssumption DEF StartStep, Places, StepStatuses, InProgress, Parked
<1>5. CASE LoopEnds
  BY <1>5 DEF LoopEnds, Places
<1>6. CASE RebaseMoves
  <2>1. /\ wt' \in Heads /\ commits' \in Heads
        /\ lineage' \in [Heads -> SUBSET Heads]
    BY <1>6, CommitTypes DEF RebaseMoves, NoCommit, TypeOK
  <2>2. /\ runHead' \in Heads /\ approved' \in Heads \cup {NoHead}
        /\ cert' \in [Steps -> Heads \cup {NoHead}]
    BY <1>6, <2>1, PromoteTypes DEF RebaseMoves
  <2>. QED
    BY <1>6, <2>1, <2>2 DEF RebaseMoves, TypeOK, Data, Places
<1>7. CASE CommitFixes
  <2>1. /\ wt' \in Heads /\ memHead' \in Heads /\ commits' \in Heads
        /\ lineage' \in [Heads -> SUBSET Heads]
        /\ promoteRunHead(wt')
    BY <1>7, AdoptTypes DEF CommitFixes
  <2>2. /\ runHead' \in Heads /\ approved' \in Heads \cup {NoHead}
        /\ cert' \in [Steps -> Heads \cup {NoHead}]
    BY <2>1, PromoteTypes
  <2>. QED
    BY <1>7, <2>1, <2>2 DEF CommitFixes, TypeOK, Data, Places
<1>8. CASE GuardRejectsFix
  BY <1>8 DEF GuardRejectsFix, Places
<1>9. CASE PushCommits
  BY <1>9, MaxHeadAssumption, SMTT(60) DEF PushCommits, NewCommit, NoCommit, Places, Heads
<1>10. CASE PushPublishes
  BY <1>10 DEF PushPublishes, Places
<1>11. CASE PushRecords
  BY <1>11 DEF PushRecords, promoteRunHead, Candidate, Places
<1>12. CASE PROpens
  BY <1>12 DEF PROpens, Places, PRStates, TerminalPR
<1>13. CASE CIPolls
  <2>1. /\ prState' \in PRStates /\ runStatus' \in RunStatuses
        /\ st' \in [Steps -> StepStatuses]
    BY <1>13, PRStateTypes DEF CIPolls, TypeOK
  <2>. QED
    BY <1>13, <2>1 DEF CIPolls, TypeOK, Data, Places
<1>14. CASE CIStartsRepair
  BY <1>14 DEF CIStartsRepair, Places
<1>15. CASE CIRepairs
  <2>1. /\ wt' \in Heads /\ memHead' \in Heads /\ commits' \in Heads
        /\ lineage' \in [Heads -> SUBSET Heads]
        /\ promoteRunHead(wt')
    BY <1>15, AdoptTypes, CommitTypes DEF CIRepairs
  <2>2. /\ runHead' \in Heads /\ approved' \in Heads \cup {NoHead}
        /\ cert' \in [Steps -> Heads \cup {NoHead}]
    BY <2>1, PromoteTypes
  <2>. QED
    BY <1>15, <2>1, <2>2 DEF CIRepairs, TypeOK, Data, Places
<1>16. CASE CIRepairsNothing
  BY <1>16 DEF CIRepairsNothing, Places
<1>17. CASE StepErrs
  BY <1>17 DEF StepErrs, Places, StepStatuses, InProgress, Parked
<1>18. CASE SeatBlocks
  BY <1>18 DEF SeatBlocks, Places, StepStatuses, InProgress, Parked, RunStatuses, Active
<1>19. CASE ReviewStops
  BY <1>19 DEF ReviewStops, RecordRound, Places, StepStatuses, InProgress, Parked
<1>20. CASE AutoFix
  BY <1>20 DEF AutoFix, RecordRound, Position, Busy, InStep, Steps, Places, StepStatuses,
     InProgress, Parked
<1>21. CASE Park
  BY <1>21 DEF Park, RecordRound, Places, StepStatuses, InProgress, Parked
<1>22. CASE StepDone
  BY <1>22 DEF StepDone, RecordRound, CompleteStep, Places, StepStatuses, InProgress, Parked
<1>23. CASE TakeRuling
  BY <1>23 DEF TakeRuling, WaitEnds, Places, Rulings
<1>24. CASE CancelWait
  BY <1>24 DEF CancelWait, WaitEnds, Places, Rulings
<1>25. CASE ReconcileFatal
  BY <1>25 DEF ReconcileFatal, WaitEnds, Places, Rulings
<1>26. CASE Reconcile
  <2>1. /\ prState' \in PRStates /\ runStatus' \in RunStatuses
        /\ st' \in [Steps -> StepStatuses]
    BY <1>26, PRStateTypes DEF Reconcile, TypeOK
  <2>. QED
    BY <1>26, <2>1 DEF Reconcile, TypeOK, Data, Places
<1>27. CASE Claim
  BY <1>27 DEF Claim, WaitEnds, Places, Rulings
<1>28. CASE ClearAwaiting
  BY <1>28 DEF ClearAwaiting, Places
<1>29. CASE ResolveApprove
  BY <1>29 DEF ResolveApprove, CompleteStep, LeaveGate, Position, Busy, AtGate, Places,
     StepStatuses, InProgress, Parked, Rulings, Steps
<1>30. CASE ResolveSkip
  BY <1>30 DEF ResolveSkip, LeaveGate, Position, Busy, AtGate, Places, StepStatuses, InProgress,
     Parked, Rulings, Steps
<1>31. CASE ResolveFails
  BY <1>31 DEF ResolveFails, Places, StepStatuses, InProgress, Parked, Rulings
<1>32. CASE ResolveFix
  BY <1>32 DEF ResolveFix, Position, Busy, AtGate, Steps, Places, StepStatuses, InProgress,
     Parked, Rulings
<1>33. CASE RestartStale
  <2>1. MinOf(StaleGates) \in RequiredGates
    BY <1>33, EarliestStaleGate DEF RestartStale
  <2>2. MinOf(StaleGates) \in 1..10
    BY <2>1 DEF RequiredGates, Review, Test, Document
  <2>. QED
    BY <1>33, <2>2 DEF RestartStale, ResetStepsFrom, ForgetStep, TypeOK, Data, Places, StepStatuses
<1>34. CASE RestartRequested
  BY <1>34 DEF RestartRequested, ResetStepsFrom, ForgetStep, Review, Places, StepStatuses,
     InProgress, Parked, Steps
<1>35. CASE NextStep
  BY <1>35 DEF NextStep, ForgetStep, Position, Busy, Places, Steps
<1>36. CASE SkipRest
  BY <1>36 DEF SkipRest, Places, StepStatuses, InProgress, Parked
<1>37. CASE CompleteRun
  BY <1>37 DEF CompleteRun, TerminalHead, promoteRunHead, Places, RunStatuses, Active
<1>38. CASE FailRun
  BY <1>38 DEF FailRun, TerminalHead, promoteRunHead, Places, RunStatuses, Active
<1>39. CASE ResumeReconciles
  BY <1>39 DEF ResumeReconciles, TerminalPR, UpdateRunPRState, WaitEnds, Active, InProgress,
     monotonicPRState, Parked, Places, StepStatuses, RunStatuses, PRStates, Rulings
<1>40. CASE ResumeFatal
  BY <1>40 DEF ResumeFatal, WaitEnds, Places, Rulings
<1>41. CASE ResumeWaits
  BY <1>41 DEF ResumeWaits, Places
<1>42. CASE \E a \in Rulings : Respond(a)
  BY <1>42 DEF Respond
<1>43. CASE \E c \in Causes : CancelRun(c)
  BY <1>43 DEF CancelRun
<1>44. CASE AgentLeavesWork
  BY <1>44, MaxHeadAssumption, SMTT(60) DEF AgentLeavesWork, NewCommit, Heads
<1>45. CASE Clobber
  BY <1>45, MaxHeadAssumption, SMTT(60) DEF Clobber, NewCommit, Heads
<1>46. CASE ForgeMoves
  BY <1>46 DEF ForgeMoves, TerminalPR, PRStates
<1>47. CASE Crash
  BY <1>47 DEF Crash, Places, Rulings, Steps
<1>48. CASE RecoverGate
  BY <1>48 DEF RecoverGate, GateAt, Parked, Places, Steps
<1>49. CASE RecoverFails
  BY <1>49 DEF RecoverFails, Active, InProgress, Parked, Places, StepStatuses, RunStatuses
<1>50. CASE RecoverNothing
  BY <1>50 DEF RecoverNothing, Active, Places
<1>51. CASE Over
  BY <1>51 DEF Over
<1>52. CASE UNCHANGED vars
  BY <1>52
<1>. QED
  BY <1>1, <1>2, <1>3, <1>4, <1>5, <1>6, <1>7, <1>8, <1>9, <1>10, <1>11, <1>12, <1>13, <1>14,
     <1>15, <1>16, <1>17, <1>18, <1>19, <1>20, <1>21, <1>22, <1>23, <1>24, <1>25, <1>26, <1>27,
     <1>28, <1>29, <1>30, <1>31, <1>32, <1>33, <1>34, <1>35, <1>36, <1>37, <1>38, <1>39, <1>40,
     <1>41, <1>42, <1>43, <1>44, <1>45, <1>46, <1>47, <1>48, <1>49, <1>50, <1>51, <1>52 DEF Next,
     Executor, Environment

\* Every action keeps the types of the flags.
LEMMA FlagsStep ==
    ASSUME TypeOK, [Next]_vars
    PROVE  Flags'
<1>. USE DEF TypeOK, Flags
<1>1. CASE StartStep
  BY <1>1, Zenon DEF StartStep
<1>2. CASE CommitFixes
  BY <1>2, Zenon DEF CommitFixes, AdoptWork, NewCommit, NoCommit, promoteRunHead
<1>3. CASE GuardRejectsFix
  BY <1>3, Zenon DEF GuardRejectsFix
<1>4. CASE PushCommits
  BY <1>4, Zenon DEF PushCommits, NewCommit, NoCommit
<1>5. CASE CIPolls
  BY <1>5, Zenon DEF CIPolls, UpdateRunPRState
<1>6. CASE CIRepairs
  BY <1>6, Zenon DEF CIRepairs, NewCommit, promoteRunHead, AdoptWork, NoCommit
<1>7. CASE SeatBlocks
  BY <1>7, Zenon DEF SeatBlocks
<1>8. CASE AutoFix
  BY <1>8, Zenon DEF AutoFix, RecordRound
<1>9. CASE Park
  BY <1>9, Zenon DEF Park, RecordRound
<1>10. CASE TakeRuling
  BY <1>10, Zenon DEF TakeRuling, WaitEnds
<1>11. CASE CancelWait
  BY <1>11, Zenon DEF CancelWait, WaitEnds
<1>12. CASE ReconcileFatal
  BY <1>12, Zenon DEF ReconcileFatal, WaitEnds
<1>13. CASE Reconcile
  BY <1>13, Zenon DEF Reconcile, UpdateRunPRState
<1>14. CASE Claim
  BY <1>14, Zenon DEF Claim, WaitEnds
<1>15. CASE ClearAwaiting
  BY <1>15, Zenon DEF ClearAwaiting
<1>16. CASE ResolveApprove
  BY <1>16, Zenon DEF ResolveApprove, CompleteStep, LeaveGate
<1>17. CASE ResolveSkip
  BY <1>17, Zenon DEF ResolveSkip, LeaveGate
<1>18. CASE ResolveFix
  BY <1>18, Zenon DEF ResolveFix
<1>19. CASE RestartStale
  BY <1>19, Zenon DEF RestartStale, ResetStepsFrom, ForgetStep
<1>20. CASE RestartRequested
  BY <1>20, Zenon DEF RestartRequested, ResetStepsFrom, ForgetStep
<1>21. CASE NextStep
  BY <1>21, Zenon DEF NextStep, ForgetStep
<1>22. CASE ResumeReconciles
  BY <1>22, Zenon DEF ResumeReconciles, UpdateRunPRState, WaitEnds
<1>23. CASE ResumeFatal
  BY <1>23, Zenon DEF ResumeFatal, WaitEnds
<1>24. CASE ResumeWaits
  BY <1>24, Zenon DEF ResumeWaits
<1>25. CASE \E a \in Rulings : Respond(a)
  BY <1>25, Zenon DEF Respond
<1>26. CASE AgentLeavesWork
  BY <1>26, Zenon DEF AgentLeavesWork, NewCommit
<1>27. CASE Crash
  BY <1>27, Zenon DEF Crash
<1>28. CASE RecoverGate
  BY <1>28, Zenon DEF RecoverGate
<1>29. CASE RecoverFails
  BY <1>29, Zenon DEF RecoverFails
<1>32. CASE Begin
  BY <1>32, Zenon DEF Begin
<1>33. CASE DispatchFails
  BY <1>33, Zenon DEF DispatchFails
<1>34. CASE DispatchSkip
  BY <1>34, Zenon DEF DispatchSkip
<1>35. CASE LoopEnds
  BY <1>35, Zenon DEF LoopEnds
<1>36. CASE RebaseMoves
  BY <1>36, Zenon DEF RebaseMoves, NewCommit, NoCommit, promoteRunHead
<1>37. CASE PushPublishes
  BY <1>37, Zenon DEF PushPublishes
<1>38. CASE PushRecords
  BY <1>38, Zenon DEF PushRecords, promoteRunHead
<1>39. CASE PROpens
  BY <1>39, Zenon DEF PROpens
<1>40. CASE CIStartsRepair
  BY <1>40, Zenon DEF CIStartsRepair
<1>41. CASE CIRepairsNothing
  BY <1>41, Zenon DEF CIRepairsNothing
<1>42. CASE StepErrs
  BY <1>42, Zenon DEF StepErrs, RecordRound
<1>43. CASE ReviewStops
  BY <1>43, Zenon DEF ReviewStops, RecordRound
<1>44. CASE StepDone
  BY <1>44, Zenon DEF StepDone, RecordRound, CompleteStep
<1>45. CASE ResolveFails
  BY <1>45, Zenon DEF ResolveFails
<1>46. CASE SkipRest
  BY <1>46, Zenon DEF SkipRest
<1>47. CASE CompleteRun
  BY <1>47, Zenon DEF CompleteRun, TerminalHead
<1>48. CASE FailRun
  BY <1>48, Zenon DEF FailRun, TerminalHead
<1>49. CASE Clobber
  BY <1>49, Zenon DEF Clobber
<1>50. CASE ForgeMoves
  BY <1>50, Zenon DEF ForgeMoves
<1>51. CASE RecoverNothing
  BY <1>51, Zenon DEF RecoverNothing
<1>52. CASE Over
  BY <1>52, Zenon DEF Over
<1>53. CASE \E c \in Causes : CancelRun(c)
  BY <1>53, Zenon DEF CancelRun
<1>31. CASE UNCHANGED vars
  BY <1>31, Zenon
<1>. QED
  BY <1>1, <1>2, <1>3, <1>4, <1>5, <1>6, <1>7, <1>8, <1>9, <1>10, <1>11, <1>12, <1>13, <1>14,
     <1>15, <1>16, <1>17, <1>18, <1>19, <1>20, <1>21, <1>22, <1>23, <1>24, <1>25, <1>26, <1>27,
     <1>28, <1>29, <1>32, <1>33, <1>34, <1>35, <1>36, <1>37, <1>38, <1>39, <1>40, <1>41, <1>42,
     <1>43, <1>44, <1>45, <1>46, <1>47, <1>48, <1>49, <1>50, <1>51, <1>52, <1>53, <1>31 DEF Next, Executor, Environment

-----------------------------------------------------------------------------
(* The inductive invariant, part by part.                                  *)

\* The executor's place in the list of steps.
LEMMA PositionStep ==
    ASSUME TypeOK, Position, [Next]_vars
    PROVE  Position'
<1>. USE DEF TypeOK, Position, InStep, AtGate, Busy, Parked, Steps, Review, CI
<1>1. CASE Begin
  BY <1>1 DEF Begin
<1>2. CASE DispatchFails
  BY <1>2 DEF DispatchFails
<1>3. CASE DispatchSkip
  BY <1>3 DEF DispatchSkip
<1>4. CASE StartStep
  BY <1>4 DEF StartStep
<1>5. CASE LoopEnds
  BY <1>5 DEF LoopEnds
<1>6. CASE RebaseMoves
  BY <1>6 DEF RebaseMoves, NewCommit, NoCommit, promoteRunHead, Rebase
<1>7. CASE CommitFixes
  BY <1>7 DEF CommitFixes, AdoptWork, NewCommit, NoCommit, promoteRunHead, Document
<1>8. CASE GuardRejectsFix
  BY <1>8 DEF GuardRejectsFix, Test, Document, Lint
<1>9. CASE PushCommits
  BY <1>9 DEF PushCommits, NewCommit, NoCommit, Push
<1>10. CASE PushPublishes
  BY <1>10 DEF PushPublishes, Push
<1>11. CASE PushRecords
  BY <1>11 DEF PushRecords, promoteRunHead
<1>12. CASE PROpens
  BY <1>12 DEF PROpens, PR
<1>13. CASE CIPolls
  BY <1>13 DEF CIPolls, TerminalPR, UpdateRunPRState, Active, InProgress, monotonicPRState
<1>14. CASE CIStartsRepair
  BY <1>14 DEF CIStartsRepair
<1>15. CASE CIRepairs
  BY <1>15 DEF CIRepairs, NewCommit, promoteRunHead, AdoptWork, NoCommit
<1>16. CASE CIRepairsNothing
  BY <1>16 DEF CIRepairsNothing
<1>17. CASE StepErrs
  BY <1>17 DEF StepErrs
<1>18. CASE SeatBlocks
  BY <1>18 DEF SeatBlocks, Rebase, Lint
<1>19. CASE ReviewStops
  BY <1>19 DEF ReviewStops, RecordRound
<1>20. CASE AutoFix
  BY <1>20 DEF AutoFix, RecordRound, Rebase, Test, Lint
<1>21. CASE Park
  BY <1>21 DEF Park, RecordRound, Rebase, Test, Document, Lint
<1>22. CASE StepDone
  BY <1>22 DEF StepDone, RecordRound, CompleteStep, Intent, Rebase, Test, Document, Lint, PR
<1>23. CASE TakeRuling
  BY <1>23 DEF TakeRuling, WaitEnds
<1>24. CASE CancelWait
  BY <1>24 DEF CancelWait, WaitEnds
<1>25. CASE ReconcileFatal
  BY <1>25 DEF ReconcileFatal, WaitEnds
<1>26. CASE Reconcile
  BY <1>26 DEF Reconcile, TerminalPR, UpdateRunPRState, Active, InProgress, monotonicPRState
<1>27. CASE Claim
  BY <1>27 DEF Claim, WaitEnds
<1>28. CASE ClearAwaiting
  BY <1>28 DEF ClearAwaiting
<1>29. CASE ResolveApprove
  BY <1>29 DEF ResolveApprove, CompleteStep, LeaveGate
<1>30. CASE ResolveSkip
  BY <1>30 DEF ResolveSkip, LeaveGate
<1>31. CASE ResolveFails
  BY <1>31 DEF ResolveFails
<1>32. CASE ResolveFix
  BY <1>32 DEF ResolveFix
<1>33. CASE RestartStale
  BY <1>33 DEF RestartStale, StaleGates, MinOf, ResetStepsFrom, ForgetStep, RequiredGates, Test,
     Document
<1>34. CASE RestartRequested
  BY <1>34 DEF RestartRequested, StaleGates, ResetStepsFrom, ForgetStep, RequiredGates, Test,
     Document
<1>35. CASE NextStep
  BY <1>35 DEF NextStep, StaleGates, ForgetStep, RequiredGates, Test, Document
<1>36. CASE SkipRest
  BY <1>36 DEF SkipRest, StaleGates, RequiredGates, Test, Document
<1>37. CASE CompleteRun
  BY <1>37 DEF CompleteRun, TerminalHead, promoteRunHead
<1>38. CASE FailRun
  BY <1>38 DEF FailRun, TerminalHead, promoteRunHead
<1>39. CASE ResumeReconciles
  BY <1>39 DEF ResumeReconciles, TerminalPR, UpdateRunPRState, WaitEnds, Active, InProgress,
     monotonicPRState
<1>40. CASE ResumeFatal
  BY <1>40 DEF ResumeFatal, WaitEnds
<1>41. CASE ResumeWaits
  BY <1>41 DEF ResumeWaits
<1>42. CASE Crash
  BY <1>42 DEF Crash
<1>43. CASE RecoverGate
  BY <1>43 DEF RecoverGate, GateAt
<1>44. CASE RecoverFails
  BY <1>44 DEF RecoverFails, Active, InProgress
<1>45. CASE RecoverNothing
  BY <1>45 DEF RecoverNothing, Active
<1>46. CASE (\E a \in Rulings : Respond(a)) \/ (\E c \in Causes : CancelRun(c)) \/
          AgentLeavesWork \/ Clobber \/ ForgeMoves \/ Over
  BY <1>46 DEF Respond, CancelRun, AgentLeavesWork, NewCommit, Clobber, ForgeMoves, Over
<1>47. CASE UNCHANGED vars
  BY <1>47
<1>. QED
  BY <1>1, <1>2, <1>3, <1>4, <1>5, <1>6, <1>7, <1>8, <1>9, <1>10, <1>11, <1>12, <1>13, <1>14,
     <1>15, <1>16, <1>17, <1>18, <1>19, <1>20, <1>21, <1>22, <1>23, <1>24, <1>25, <1>26, <1>27,
     <1>28, <1>29, <1>30, <1>31, <1>32, <1>33, <1>34, <1>35, <1>36, <1>37, <1>38, <1>39, <1>40,
     <1>41, <1>42, <1>43, <1>44, <1>45, <1>46, <1>47 DEF Next, Executor, Environment

\* The recorded head, and what a parked review hands over.
LEMMA CandidateStep ==
    ASSUME TypeOK, Position, Candidate, [Next]_vars
    PROVE  Candidate'
<1>. USE DEF TypeOK, Candidate, Position, InStep, AtGate, Busy, Parked, Steps, Review, CI
<1>1. CASE Begin
  BY <1>1 DEF Begin
<1>2. CASE DispatchFails
  BY <1>2 DEF DispatchFails
<1>3. CASE DispatchSkip
  BY <1>3 DEF DispatchSkip
<1>4. CASE StartStep
  BY <1>4 DEF StartStep
<1>5. CASE LoopEnds
  BY <1>5 DEF LoopEnds
<1>6. CASE RebaseMoves
  BY <1>6 DEF RebaseMoves, NewCommit, NoCommit, promoteRunHead, Rebase
<1>7. CASE CommitFixes
  BY <1>7 DEF CommitFixes, AdoptWork, NewCommit, NoCommit, promoteRunHead, Document
<1>8. CASE GuardRejectsFix
  BY <1>8 DEF GuardRejectsFix, Test, Document, Lint
<1>9. CASE PushCommits
  BY <1>9 DEF PushCommits, NewCommit, NoCommit, Push
<1>10. CASE PushPublishes
  BY <1>10, MaxHeadAssumption DEF PushPublishes, Heads, NoHead, Push
<1>11. CASE PushRecords
  BY <1>11 DEF PushRecords, promoteRunHead
<1>12. CASE PROpens
  BY <1>12 DEF PROpens, PR
<1>13. CASE CIPolls
  BY <1>13 DEF CIPolls, TerminalPR, UpdateRunPRState, Active, InProgress, monotonicPRState
<1>14. CASE CIStartsRepair
  BY <1>14 DEF CIStartsRepair
<1>15. CASE CIRepairs
  BY <1>15 DEF CIRepairs, NewCommit, promoteRunHead, AdoptWork, NoCommit
<1>16. CASE CIRepairsNothing
  BY <1>16 DEF CIRepairsNothing
<1>17. CASE StepErrs
  BY <1>17 DEF StepErrs
<1>18. CASE SeatBlocks
  BY <1>18 DEF SeatBlocks, Rebase, Lint
<1>19. CASE ReviewStops
  BY <1>19 DEF ReviewStops, RecordRound
<1>20. CASE AutoFix
  BY <1>20 DEF AutoFix, RecordRound, Rebase, Test, Lint
<1>21. CASE Park
  BY <1>21 DEF Park, RecordRound, Rebase, Test, Document, Lint
<1>22. CASE StepDone
  BY <1>22 DEF StepDone, RecordRound, CompleteStep, Intent, Rebase, Test, Document, Lint, PR
<1>23. CASE TakeRuling
  BY <1>23 DEF TakeRuling, WaitEnds
<1>24. CASE CancelWait
  BY <1>24 DEF CancelWait, WaitEnds
<1>25. CASE ReconcileFatal
  BY <1>25 DEF ReconcileFatal, WaitEnds
<1>26. CASE Reconcile
  BY <1>26 DEF Reconcile, TerminalPR, UpdateRunPRState, Active, InProgress, monotonicPRState
<1>27. CASE Claim
  BY <1>27 DEF Claim, WaitEnds
<1>28. CASE ClearAwaiting
  BY <1>28 DEF ClearAwaiting
<1>29. CASE ResolveApprove
  BY <1>29 DEF ResolveApprove, CompleteStep, LeaveGate
<1>30. CASE ResolveSkip
  BY <1>30 DEF ResolveSkip, LeaveGate
<1>31. CASE ResolveFails
  BY <1>31 DEF ResolveFails
<1>32. CASE ResolveFix
  BY <1>32 DEF ResolveFix
<1>33. CASE RestartStale
  BY <1>33 DEF RestartStale, StaleGates, MinOf, ResetStepsFrom, ForgetStep, RequiredGates, Test,
     Document
<1>34. CASE RestartRequested
  BY <1>34 DEF RestartRequested, StaleGates, ResetStepsFrom, ForgetStep, RequiredGates, Test,
     Document
<1>35. CASE NextStep
  BY <1>35 DEF NextStep, StaleGates, ForgetStep, RequiredGates, Test, Document
<1>36. CASE SkipRest
  BY <1>36 DEF SkipRest, StaleGates, RequiredGates, Test, Document
<1>37. CASE CompleteRun
  BY <1>37 DEF CompleteRun, TerminalHead, promoteRunHead
<1>38. CASE FailRun
  BY <1>38 DEF FailRun, TerminalHead, promoteRunHead
<1>39. CASE ResumeReconciles
  BY <1>39 DEF ResumeReconciles, TerminalPR, UpdateRunPRState, WaitEnds, Active, InProgress,
     monotonicPRState
<1>40. CASE ResumeFatal
  BY <1>40 DEF ResumeFatal, WaitEnds
<1>41. CASE ResumeWaits
  BY <1>41 DEF ResumeWaits
<1>42. CASE Crash
  BY <1>42 DEF Crash
<1>43. CASE RecoverGate
  BY <1>43 DEF RecoverGate, GateAt
<1>44. CASE RecoverFails
  BY <1>44 DEF RecoverFails, Active, InProgress
<1>45. CASE RecoverNothing
  BY <1>45 DEF RecoverNothing, Active
<1>46. CASE (\E a \in Rulings : Respond(a)) \/ (\E c \in Causes : CancelRun(c)) \/
          AgentLeavesWork \/ Clobber \/ ForgeMoves \/ Over
  BY <1>46 DEF Respond, CancelRun, AgentLeavesWork, NewCommit, Clobber, ForgeMoves, Over
<1>47. CASE UNCHANGED vars
  BY <1>47
<1>. QED
  BY <1>1, <1>2, <1>3, <1>4, <1>5, <1>6, <1>7, <1>8, <1>9, <1>10, <1>11, <1>12, <1>13, <1>14,
     <1>15, <1>16, <1>17, <1>18, <1>19, <1>20, <1>21, <1>22, <1>23, <1>24, <1>25, <1>26, <1>27,
     <1>28, <1>29, <1>30, <1>31, <1>32, <1>33, <1>34, <1>35, <1>36, <1>37, <1>38, <1>39, <1>40,
     <1>41, <1>42, <1>43, <1>44, <1>45, <1>46, <1>47 DEF Next, Executor, Environment

\* The review's authority is revoked with the head it was granted for.
LEMMA AuthorityStep ==
    ASSUME TypeOK, Position, Candidate, AuthorityCoversGates, [Next]_vars
    PROVE  AuthorityCoversGates'
<1>. USE DEF TypeOK, Candidate, AuthorityCoversGates, RequiredGates, Test, Document, Position,
        InStep, AtGate, Busy, Parked, Steps, Review, CI
<1>1. CASE DispatchSkip
  BY <1>1 DEF DispatchSkip
<1>2. CASE StartStep
  BY <1>2 DEF StartStep
<1>3. CASE RebaseMoves
  BY <1>3 DEF RebaseMoves, NewCommit, NoCommit, promoteRunHead, Rebase
<1>4. CASE CommitFixes
  BY <1>4 DEF CommitFixes, AdoptWork, NewCommit, NoCommit, promoteRunHead
<1>5. CASE PushRecords
  BY <1>5 DEF PushRecords, promoteRunHead
<1>6. CASE CIPolls
  BY <1>6 DEF CIPolls, TerminalPR, UpdateRunPRState, Active, InProgress, monotonicPRState
<1>7. CASE CIRepairs
  BY <1>7 DEF CIRepairs, NewCommit, promoteRunHead, AdoptWork, NoCommit
<1>8. CASE StepErrs
  BY <1>8 DEF StepErrs
<1>9. CASE SeatBlocks
  BY <1>9 DEF SeatBlocks, Rebase, Lint
<1>10. CASE ReviewStops
  BY <1>10 DEF ReviewStops, RecordRound
<1>11. CASE AutoFix
  BY <1>11 DEF AutoFix, RecordRound, Rebase, Lint
<1>12. CASE Park
  BY <1>12 DEF Park, RecordRound, Rebase, Lint
<1>13. CASE StepDone
  BY <1>13 DEF StepDone, RecordRound, CompleteStep, Intent, Rebase, Lint, PR
<1>14. CASE Reconcile
  BY <1>14 DEF Reconcile, TerminalPR, UpdateRunPRState, Active, InProgress, monotonicPRState
<1>15. CASE ResolveApprove
  BY <1>15 DEF ResolveApprove, CompleteStep, LeaveGate
<1>16. CASE ResolveSkip
  BY <1>16 DEF ResolveSkip, LeaveGate
<1>17. CASE ResolveFails
  BY <1>17 DEF ResolveFails
<1>18. CASE ResolveFix
  BY <1>18 DEF ResolveFix
<1>19. CASE RestartStale
  BY <1>19 DEF RestartStale, StaleGates, MinOf, ResetStepsFrom, ForgetStep
<1>20. CASE RestartRequested
  BY <1>20 DEF RestartRequested, StaleGates, ResetStepsFrom, ForgetStep
<1>21. CASE SkipRest
  BY <1>21 DEF SkipRest, StaleGates
<1>22. CASE CompleteRun
  BY <1>22 DEF CompleteRun, TerminalHead, promoteRunHead
<1>23. CASE FailRun
  BY <1>23 DEF FailRun, TerminalHead, promoteRunHead
<1>24. CASE ResumeReconciles
  BY <1>24 DEF ResumeReconciles, TerminalPR, UpdateRunPRState, WaitEnds, Active, InProgress,
     monotonicPRState
<1>25. CASE RecoverFails
  BY <1>25 DEF RecoverFails, Active, InProgress
<1>26. CASE Begin \/ DispatchFails \/ LoopEnds \/ GuardRejectsFix \/ PushCommits \/
          PushPublishes \/ PROpens \/ CIStartsRepair \/ CIRepairsNothing \/ TakeRuling \/
          CancelWait \/ ReconcileFatal \/ Claim \/ ClearAwaiting \/ NextStep \/ ResumeFatal \/
          ResumeWaits \/ (\E a \in Rulings : Respond(a)) \/ (\E c \in Causes : CancelRun(c)) \/
          AgentLeavesWork \/ Clobber \/ ForgeMoves \/ Crash \/ RecoverGate \/ RecoverNothing \/
          Over
  <2>1. UNCHANGED <<approved, runHead, reviewed, st, cert>>
    BY <1>26 DEF Begin, DispatchFails, LoopEnds, GuardRejectsFix, PushCommits, NewCommit,
       NoCommit, PushPublishes, PROpens, CIStartsRepair, CIRepairsNothing, TakeRuling, WaitEnds,
       CancelWait, ReconcileFatal, Claim, ClearAwaiting, NextStep, ForgetStep, ResumeFatal,
       ResumeWaits, Respond, CancelRun, AgentLeavesWork, Clobber, ForgeMoves, Crash, RecoverGate,
       RecoverNothing, Over
  <2>. QED
    BY <2>1
<1>27. CASE UNCHANGED vars
  BY <1>27
<1>. QED
  BY <1>1, <1>2, <1>3, <1>4, <1>5, <1>6, <1>7, <1>8, <1>9, <1>10, <1>11, <1>12, <1>13, <1>14,
     <1>15, <1>16, <1>17, <1>18, <1>19, <1>20, <1>21, <1>22, <1>23, <1>24, <1>25, <1>26, <1>27 DEF
     Next, Executor, Environment

\* A ruling is in the slot, or the gate is open, or the executor is not there.
LEMMA SlotStep ==
    ASSUME TypeOK, Slot, [Next]_vars
    PROVE  Slot'
<1>. USE DEF TypeOK, Slot
<1>1. CASE Begin
  BY <1>1 DEF Begin
<1>2. CASE DispatchFails
  BY <1>2 DEF DispatchFails
<1>3. CASE StartStep
  BY <1>3 DEF StartStep
<1>4. CASE LoopEnds
  BY <1>4 DEF LoopEnds
<1>5. CASE RebaseMoves
  BY <1>5 DEF RebaseMoves, NewCommit, NoCommit, promoteRunHead, Rebase, Review
<1>6. CASE CommitFixes
  BY <1>6 DEF CommitFixes, AdoptWork, NewCommit, NoCommit, promoteRunHead, Review, Document
<1>7. CASE GuardRejectsFix
  BY <1>7 DEF GuardRejectsFix, Review, Test, Document, Lint, CI
<1>8. CASE PushCommits
  BY <1>8 DEF PushCommits, NewCommit, NoCommit, Push
<1>9. CASE PushPublishes
  BY <1>9 DEF PushPublishes, Push
<1>10. CASE PushRecords
  BY <1>10 DEF PushRecords, promoteRunHead, Review
<1>11. CASE PROpens
  BY <1>11 DEF PROpens, PR
<1>12. CASE CIPolls
  BY <1>12 DEF CIPolls, TerminalPR, UpdateRunPRState, Active, InProgress, monotonicPRState,
     Parked, CI
<1>13. CASE CIStartsRepair
  BY <1>13 DEF CIStartsRepair, CI
<1>14. CASE CIRepairs
  BY <1>14 DEF CIRepairs, NewCommit, promoteRunHead, AdoptWork, NoCommit, Review
<1>15. CASE CIRepairsNothing
  BY <1>15 DEF CIRepairsNothing
<1>16. CASE StepErrs
  BY <1>16 DEF StepErrs
<1>17. CASE SeatBlocks
  BY <1>17 DEF SeatBlocks, Rebase, Lint
<1>18. CASE ReviewStops
  BY <1>18 DEF ReviewStops, RecordRound, Review
<1>19. CASE AutoFix
  BY <1>19 DEF AutoFix, RecordRound, Rebase, Review, Test, Lint
<1>20. CASE Park
  BY <1>20 DEF Park, RecordRound, Rebase, Review, Test, Document, Lint, CI
<1>21. CASE StepDone
  BY <1>21 DEF StepDone, RecordRound, CompleteStep, Intent, Rebase, Review, Test, Document, Lint,
     PR, CI
<1>22. CASE TakeRuling
  BY <1>22 DEF TakeRuling, WaitEnds
<1>23. CASE CancelWait
  BY <1>23 DEF CancelWait, WaitEnds
<1>24. CASE ReconcileFatal
  BY <1>24 DEF ReconcileFatal, WaitEnds, CI
<1>25. CASE Reconcile
  BY <1>25 DEF Reconcile, TerminalPR, UpdateRunPRState, Active, InProgress, monotonicPRState,
     Parked, CI
<1>26. CASE Claim
  BY <1>26 DEF Claim, WaitEnds
<1>27. CASE ClearAwaiting
  BY <1>27 DEF ClearAwaiting
<1>28. CASE ResolveApprove
  BY <1>28 DEF ResolveApprove, CompleteStep, LeaveGate, Review
<1>29. CASE ResolveSkip
  BY <1>29 DEF ResolveSkip, LeaveGate
<1>30. CASE ResolveFails
  BY <1>30 DEF ResolveFails
<1>31. CASE ResolveFix
  BY <1>31 DEF ResolveFix
<1>32. CASE RestartStale
  BY <1>32 DEF RestartStale, StaleGates, MinOf, ResetStepsFrom, ForgetStep, RequiredGates, Review,
     Test, Document
<1>33. CASE RestartRequested
  BY <1>33 DEF RestartRequested, StaleGates, ResetStepsFrom, ForgetStep, RequiredGates, Review,
     Test, Document
<1>34. CASE NextStep
  BY <1>34 DEF NextStep, StaleGates, ForgetStep, RequiredGates, Review, Test, Document
<1>35. CASE SkipRest
  BY <1>35 DEF SkipRest, StaleGates, RequiredGates, Review, Test, Document
<1>36. CASE CompleteRun
  BY <1>36 DEF CompleteRun, TerminalHead, promoteRunHead, Review
<1>37. CASE FailRun
  BY <1>37 DEF FailRun, TerminalHead, promoteRunHead, Review
<1>38. CASE ResumeReconciles
  BY <1>38 DEF ResumeReconciles, TerminalPR, UpdateRunPRState, WaitEnds, Active, InProgress,
     monotonicPRState, Parked, CI
<1>39. CASE ResumeFatal
  BY <1>39 DEF ResumeFatal, WaitEnds, CI
<1>40. CASE ResumeWaits
  BY <1>40 DEF ResumeWaits
<1>41. CASE \E a \in Rulings : Respond(a)
  BY <1>41 DEF Respond, Rulings
<1>42. CASE Crash
  BY <1>42 DEF Crash
<1>43. CASE RecoverGate
  BY <1>43 DEF RecoverGate, GateAt, Parked
<1>44. CASE RecoverFails
  BY <1>44 DEF RecoverFails, Active, InProgress, Parked
<1>45. CASE RecoverNothing
  BY <1>45 DEF RecoverNothing, Active
<1>46. CASE DispatchSkip \/ (\E c \in Causes : CancelRun(c)) \/ AgentLeavesWork \/ Clobber \/
          ForgeMoves \/ Over
  BY <1>46 DEF DispatchSkip, CancelRun, AgentLeavesWork, NewCommit, Clobber, ForgeMoves, Over
<1>47. CASE UNCHANGED vars
  BY <1>47
<1>. QED
  BY <1>1, <1>2, <1>3, <1>4, <1>5, <1>6, <1>7, <1>8, <1>9, <1>10, <1>11, <1>12, <1>13, <1>14,
     <1>15, <1>16, <1>17, <1>18, <1>19, <1>20, <1>21, <1>22, <1>23, <1>24, <1>25, <1>26, <1>27,
     <1>28, <1>29, <1>30, <1>31, <1>32, <1>33, <1>34, <1>35, <1>36, <1>37, <1>38, <1>39, <1>40,
     <1>41, <1>42, <1>43, <1>44, <1>45, <1>46, <1>47 DEF Next, Executor, Environment

\* No action spends an attempt the budget does not hold.
LEMMA BudgetStep ==
    ASSUME TypeOK, Position, Budget, [Next]_vars
    PROVE  Budget'
<1>. USE DEF TypeOK, Budget, AutoFixBudget, Position, InStep, AtGate, Busy, Parked, Steps, Review,
        CI
<1>1. CASE Begin
  BY <1>1 DEF Begin
<1>2. CASE DispatchFails
  BY <1>2 DEF DispatchFails
<1>3. CASE DispatchSkip
  BY <1>3 DEF DispatchSkip
<1>4. CASE StartStep
  BY <1>4 DEF StartStep
<1>5. CASE LoopEnds
  BY <1>5 DEF LoopEnds
<1>6. CASE RebaseMoves
  BY <1>6 DEF RebaseMoves, NewCommit, NoCommit, promoteRunHead, Rebase
<1>7. CASE CommitFixes
  BY <1>7 DEF CommitFixes, AdoptWork, NewCommit, NoCommit, promoteRunHead, Document
<1>8. CASE GuardRejectsFix
  BY <1>8 DEF GuardRejectsFix, Test, Document, Lint
<1>9. CASE PushCommits
  BY <1>9 DEF PushCommits, NewCommit, NoCommit, Push
<1>10. CASE PushPublishes
  BY <1>10 DEF PushPublishes, Push
<1>11. CASE PushRecords
  BY <1>11 DEF PushRecords, promoteRunHead
<1>12. CASE PROpens
  BY <1>12 DEF PROpens, PR
<1>13. CASE CIPolls
  BY <1>13 DEF CIPolls, TerminalPR, UpdateRunPRState, Active, InProgress, monotonicPRState
<1>14. CASE CIStartsRepair
  BY <1>14, LimitAssumption DEF CIStartsRepair
<1>15. CASE CIRepairs
  BY <1>15 DEF CIRepairs, NewCommit, promoteRunHead, AdoptWork, NoCommit
<1>16. CASE CIRepairsNothing
  BY <1>16 DEF CIRepairsNothing
<1>17. CASE StepErrs
  BY <1>17 DEF StepErrs
<1>18. CASE SeatBlocks
  BY <1>18 DEF SeatBlocks, Rebase, Lint
<1>19. CASE ReviewStops
  BY <1>19 DEF ReviewStops, RecordRound
<1>20. CASE AutoFix
  BY <1>20, LimitAssumption DEF AutoFix, RecordRound, Rebase, Test, Lint
<1>21. CASE Park
  BY <1>21 DEF Park, RecordRound, Rebase, Test, Document, Lint
<1>22. CASE StepDone
  BY <1>22 DEF StepDone, RecordRound, CompleteStep, Intent, Rebase, Test, Document, Lint, PR
<1>23. CASE TakeRuling
  BY <1>23 DEF TakeRuling, WaitEnds
<1>24. CASE CancelWait
  BY <1>24 DEF CancelWait, WaitEnds
<1>25. CASE ReconcileFatal
  BY <1>25 DEF ReconcileFatal, WaitEnds
<1>26. CASE Reconcile
  BY <1>26 DEF Reconcile, TerminalPR, UpdateRunPRState, Active, InProgress, monotonicPRState
<1>27. CASE Claim
  BY <1>27 DEF Claim, WaitEnds
<1>28. CASE ClearAwaiting
  BY <1>28 DEF ClearAwaiting
<1>29. CASE ResolveApprove
  BY <1>29 DEF ResolveApprove, CompleteStep, LeaveGate
<1>30. CASE ResolveSkip
  BY <1>30 DEF ResolveSkip, LeaveGate
<1>31. CASE ResolveFails
  BY <1>31 DEF ResolveFails
<1>32. CASE ResolveFix
  BY <1>32 DEF ResolveFix
<1>33. CASE RestartStale
  BY <1>33 DEF RestartStale, StaleGates, MinOf, ResetStepsFrom, ForgetStep, RequiredGates, Test,
     Document
<1>34. CASE RestartRequested
  BY <1>34 DEF RestartRequested, StaleGates, ResetStepsFrom, ForgetStep, RequiredGates, Test,
     Document
<1>35. CASE NextStep
  BY <1>35 DEF NextStep, StaleGates, ForgetStep, RequiredGates, Test, Document
<1>36. CASE SkipRest
  BY <1>36 DEF SkipRest, StaleGates, RequiredGates, Test, Document
<1>37. CASE CompleteRun
  BY <1>37 DEF CompleteRun, TerminalHead, promoteRunHead
<1>38. CASE FailRun
  BY <1>38 DEF FailRun, TerminalHead, promoteRunHead
<1>39. CASE ResumeReconciles
  BY <1>39 DEF ResumeReconciles, TerminalPR, UpdateRunPRState, WaitEnds, Active, InProgress,
     monotonicPRState
<1>40. CASE ResumeFatal
  BY <1>40 DEF ResumeFatal, WaitEnds
<1>41. CASE ResumeWaits
  BY <1>41 DEF ResumeWaits
<1>42. CASE Crash
  BY <1>42 DEF Crash
<1>43. CASE RecoverGate
  BY <1>43 DEF RecoverGate, GateAt
<1>44. CASE RecoverFails
  BY <1>44 DEF RecoverFails, Active, InProgress
<1>45. CASE RecoverNothing
  BY <1>45 DEF RecoverNothing, Active
<1>46. CASE (\E a \in Rulings : Respond(a)) \/ (\E c \in Causes : CancelRun(c)) \/
          AgentLeavesWork \/ Clobber \/ ForgeMoves \/ Over
  BY <1>46 DEF Respond, CancelRun, AgentLeavesWork, NewCommit, Clobber, ForgeMoves, Over
<1>47. CASE UNCHANGED vars
  BY <1>47
<1>. QED
  BY <1>1, <1>2, <1>3, <1>4, <1>5, <1>6, <1>7, <1>8, <1>9, <1>10, <1>11, <1>12, <1>13, <1>14,
     <1>15, <1>16, <1>17, <1>18, <1>19, <1>20, <1>21, <1>22, <1>23, <1>24, <1>25, <1>26, <1>27,
     <1>28, <1>29, <1>30, <1>31, <1>32, <1>33, <1>34, <1>35, <1>36, <1>37, <1>38, <1>39, <1>40,
     <1>41, <1>42, <1>43, <1>44, <1>45, <1>46, <1>47 DEF Next, Executor, Environment

\* The awaiting mark is set only where a parked step stands among settled ones.
LEMMA AwaitsStep ==
    ASSUME TypeOK, Position, Awaits, [Next]_vars
    PROVE  Awaits'
<1>. USE DEF TypeOK, Awaits, GateAt, Position, InStep, AtGate, Busy, Parked, Steps, Review, CI
<1>1. CASE Begin
  BY <1>1 DEF Begin
<1>2. CASE DispatchFails
  BY <1>2 DEF DispatchFails
<1>3. CASE DispatchSkip
  BY <1>3 DEF DispatchSkip
<1>4. CASE StartStep
  BY <1>4 DEF StartStep
<1>5. CASE LoopEnds
  BY <1>5 DEF LoopEnds
<1>6. CASE RebaseMoves
  BY <1>6 DEF RebaseMoves, NewCommit, NoCommit, promoteRunHead, Rebase
<1>7. CASE CommitFixes
  BY <1>7 DEF CommitFixes, AdoptWork, NewCommit, NoCommit, promoteRunHead, Document
<1>8. CASE GuardRejectsFix
  BY <1>8 DEF GuardRejectsFix, Test, Document, Lint
<1>9. CASE PushCommits
  BY <1>9 DEF PushCommits, NewCommit, NoCommit, Push
<1>10. CASE PushPublishes
  BY <1>10 DEF PushPublishes, Push
<1>11. CASE PushRecords
  BY <1>11 DEF PushRecords, promoteRunHead
<1>12. CASE PROpens
  BY <1>12 DEF PROpens, PR
<1>13. CASE CIPolls
  BY <1>13 DEF CIPolls, TerminalPR, UpdateRunPRState, Active, InProgress, monotonicPRState
<1>14. CASE CIStartsRepair
  BY <1>14 DEF CIStartsRepair
<1>15. CASE CIRepairs
  BY <1>15 DEF CIRepairs, NewCommit, promoteRunHead, AdoptWork, NoCommit
<1>16. CASE CIRepairsNothing
  BY <1>16 DEF CIRepairsNothing
<1>17. CASE StepErrs
  BY <1>17 DEF StepErrs
<1>18. CASE SeatBlocks
  BY <1>18 DEF SeatBlocks, Rebase, Lint
<1>19. CASE ReviewStops
  BY <1>19 DEF ReviewStops, RecordRound
<1>20. CASE AutoFix
  BY <1>20 DEF AutoFix, RecordRound, Rebase, Test, Lint
<1>21. CASE Park
  BY <1>21 DEF Park, RecordRound, Rebase, Test, Document, Lint
<1>22. CASE StepDone
  BY <1>22 DEF StepDone, RecordRound, CompleteStep, Intent, Rebase, Test, Document, Lint, PR
<1>23. CASE TakeRuling
  BY <1>23 DEF TakeRuling, WaitEnds
<1>24. CASE CancelWait
  BY <1>24 DEF CancelWait, WaitEnds
<1>25. CASE ReconcileFatal
  BY <1>25 DEF ReconcileFatal, WaitEnds
<1>26. CASE Reconcile
  BY <1>26 DEF Reconcile, TerminalPR, UpdateRunPRState, Active, InProgress, monotonicPRState
<1>27. CASE Claim
  BY <1>27 DEF Claim, WaitEnds
<1>28. CASE ClearAwaiting
  BY <1>28 DEF ClearAwaiting
<1>29. CASE ResolveApprove
  BY <1>29 DEF ResolveApprove, CompleteStep, LeaveGate
<1>30. CASE ResolveSkip
  BY <1>30 DEF ResolveSkip, LeaveGate
<1>31. CASE ResolveFails
  BY <1>31 DEF ResolveFails
<1>32. CASE ResolveFix
  BY <1>32 DEF ResolveFix
<1>33. CASE RestartStale
  BY <1>33 DEF RestartStale, StaleGates, MinOf, ResetStepsFrom, ForgetStep, RequiredGates, Test,
     Document
<1>34. CASE RestartRequested
  BY <1>34 DEF RestartRequested, StaleGates, ResetStepsFrom, ForgetStep, RequiredGates, Test,
     Document
<1>35. CASE NextStep
  BY <1>35 DEF NextStep, StaleGates, ForgetStep, RequiredGates, Test, Document
<1>36. CASE SkipRest
  BY <1>36 DEF SkipRest, StaleGates, RequiredGates, Test, Document
<1>37. CASE CompleteRun
  BY <1>37 DEF CompleteRun, TerminalHead, promoteRunHead
<1>38. CASE FailRun
  BY <1>38 DEF FailRun, TerminalHead, promoteRunHead
<1>39. CASE ResumeReconciles
  BY <1>39 DEF ResumeReconciles, TerminalPR, UpdateRunPRState, WaitEnds, Active, InProgress,
     monotonicPRState
<1>40. CASE ResumeFatal
  BY <1>40 DEF ResumeFatal, WaitEnds
<1>41. CASE ResumeWaits
  BY <1>41 DEF ResumeWaits
<1>42. CASE Crash
  BY <1>42 DEF Crash
<1>43. CASE RecoverGate
  BY <1>43 DEF RecoverGate
<1>44. CASE RecoverFails
  BY <1>44 DEF RecoverFails, Active, InProgress
<1>45. CASE RecoverNothing
  BY <1>45 DEF RecoverNothing, Active
<1>46. CASE (\E a \in Rulings : Respond(a)) \/ (\E c \in Causes : CancelRun(c)) \/
          AgentLeavesWork \/ Clobber \/ ForgeMoves \/ Over
  BY <1>46 DEF Respond, CancelRun, AgentLeavesWork, NewCommit, Clobber, ForgeMoves, Over
<1>47. CASE UNCHANGED vars
  BY <1>47
<1>. QED
  BY <1>1, <1>2, <1>3, <1>4, <1>5, <1>6, <1>7, <1>8, <1>9, <1>10, <1>11, <1>12, <1>13, <1>14,
     <1>15, <1>16, <1>17, <1>18, <1>19, <1>20, <1>21, <1>22, <1>23, <1>24, <1>25, <1>26, <1>27,
     <1>28, <1>29, <1>30, <1>31, <1>32, <1>33, <1>34, <1>35, <1>36, <1>37, <1>38, <1>39, <1>40,
     <1>41, <1>42, <1>43, <1>44, <1>45, <1>46, <1>47 DEF Next, Executor, Environment

-----------------------------------------------------------------------------
(* The theorems.                                                           *)

\* The parts of IInv hold initially.
LEMMA InitIInv == Init => IInv
<1>. SUFFICES ASSUME Init PROVE IInv
  OBVIOUS
<1>1. Flags
  BY Zenon DEF Init, Flags
<1>2. Data
  <2>1. 1 \in Heads /\ {1} \in SUBSET Heads
    BY MaxHeadAssumption DEF Heads
  <2>2. lineage \in [Heads -> SUBSET Heads]
    BY <2>1 DEF Init
  <2>. QED
    BY <2>1, <2>2, SkipAssumption DEF Init, Data, RunStatuses, Active, StepStatuses, PRStates, Places
<1>3. TypeOK
  BY <1>1, <1>2 DEF Flags, Data, TypeOK
<1>4. Position
  BY DEF Init, Position, InStep, AtGate, Busy, Steps, Review
<1>5. Candidate /\ AuthorityCoversGates
  BY DEF Init, Candidate, AuthorityCoversGates, Parked, Steps, Review
<1>6. Slot /\ Awaits
  BY DEF Init, Slot, Awaits, AtGate
<1>7. Budget
  BY LimitAssumption DEF Init, Budget, AutoFixBudget, InStep, AtGate
<1>. QED
  BY <1>3, <1>4, <1>5, <1>6, <1>7 DEF IInv

\* Every step keeps IInv.
LEMMA NextIInv ==
    ASSUME IInv, [Next]_vars
    PROVE  IInv'
<1>1. Flags' /\ Data'
  BY FlagsStep, DataStep DEF IInv
<1>2. TypeOK'
  BY <1>1 DEF Flags, Data, TypeOK
<1>3. Position' /\ Candidate' /\ AuthorityCoversGates'
  BY PositionStep, CandidateStep, AuthorityStep DEF IInv
<1>4. Slot' /\ Budget' /\ Awaits'
  BY SlotStep, BudgetStep, AwaitsStep DEF IInv
<1>. QED
  BY <1>2, <1>3, <1>4 DEF IInv

\* A parked gate stands among settled and untouched steps.
LEMMA GateFromPosition ==
    ASSUME IInv
    PROVE  ParkedGateIsRecoverable
<1>. SUFFICES ASSUME awaiting = TRUE, runStatus = "running"
              PROVE  \E g \in Steps : GateAt(g)
  BY Zenon DEF ParkedGateIsRecoverable, IInv, TypeOK
<1>1. CASE pc = "down"
  BY <1>1 DEF IInv, Awaits
<1>2. CASE pc \in {"waiting", "claiming", "answered", "resuming"}
  <2>1. cur \in Steps /\ GateAt(cur)
    BY <1>2 DEF IInv, Awaits, Position, Busy, InStep, AtGate, GateAt
  <2>. QED
    BY <2>1
<1>. QED
  BY <1>1, <1>2 DEF IInv, Awaits

\* IInv is an invariant of every behaviour of the executor.
THEOREM IInvHolds == Spec => []IInv
<1>1. Init => IInv
  BY InitIInv
<1>2. IInv /\ [Next]_vars => IInv'
  BY NextIInv
<1>. QED
  BY <1>1, <1>2, PTL DEF Spec

\* Every variable keeps its type: the executor never runs off its step list,
\* and a head it records is a commit.
THEOREM TypeCorrect == Spec => []TypeOK
<1>1. IInv => TypeOK
  BY DEF IInv
<1>. QED
  BY <1>1, IInvHolds, PTL

\* The push authority is about the recorded head, which a completed review
\* examined, and no completed required gate vouches for another commit.
THEOREM AuthorityHolds == Spec => []AuthorityCoversGates
<1>1. IInv => AuthorityCoversGates
  BY DEF IInv
<1>. QED
  BY <1>1, IInvHolds, PTL

\* dispatchableStepResult never refuses a row, whatever the restarts and crashes.
THEOREM DispatchIsClean == Spec => []DispatchesPending
<1>1. IInv => DispatchesPending
  BY DEF IInv, Position, DispatchesPending, Steps
<1>. QED
  BY <1>1, IInvHolds, PTL

\* The response slot is empty whenever a ruling is admitted, and holds the one
\* that a lost reconciliation must receive.
THEOREM SlotIsFree == Spec => []GateSlotFree
<1>1. IInv => GateSlotFree
  <2>. SUFFICES ASSUME IInv PROVE GateSlotFree
    OBVIOUS
  <2>1. waiting \in BOOLEAN
    BY Zenon DEF IInv, TypeOK
  <2>2. Slot
    BY DEF IInv
  <2>. QED
    BY <2>1, <2>2 DEF Slot, GateSlotFree
<1>. QED
  BY <1>1, IInvHolds, PTL

\* No sequence of restarts, recoveries and rulings spends more automatic fixes
\* on a step than its limit.
THEOREM BudgetHolds == Spec => []AutoFixBudget
<1>1. IInv => AutoFixBudget
  BY DEF IInv, Budget
<1>. QED
  BY <1>1, IInvHolds, PTL

\* A crash never loses a parked gate to an inconsistent step list.
THEOREM GateIsRecoverable == Spec => []ParkedGateIsRecoverable
<1>1. IInv => ParkedGateIsRecoverable
  BY GateFromPosition
<1>. QED
  BY <1>1, IInvHolds, PTL

\* The three together are what the loop, recovery and the rows' readers rely on.
THEOREM RowsAreConsistent == Spec => []RowsConsistent
<1>1. TypeOK /\ ParkedGateIsRecoverable /\ DispatchesPending => RowsConsistent
  BY DEF RowsConsistent
<1>. QED
  BY <1>1, TypeCorrect, GateIsRecoverable, DispatchIsClean, PTL

\* What one step may do to skipped rows.
SkipsKept == \A s \in Steps : st[s] = "skipped" => st'[s] = "skipped"

\* Only pending, running or parked rows are rewritten; a skipped one is neither.
LEMMA SkipsStep ==
    ASSUME TypeOK, Position, [Next]_vars
    PROVE  SkipsKept
<1>. USE DEF TypeOK, SkipsKept, Position, InStep, AtGate, Busy, Parked, Steps, Review, CI
<1>1. CASE DispatchSkip
  BY <1>1 DEF DispatchSkip
<1>2. CASE StartStep
  BY <1>2 DEF StartStep
<1>3. CASE CIPolls
  BY <1>3 DEF CIPolls, TerminalPR, UpdateRunPRState, Active, InProgress, monotonicPRState
<1>4. CASE StepErrs
  BY <1>4 DEF StepErrs
<1>5. CASE SeatBlocks
  BY <1>5 DEF SeatBlocks, Rebase, Lint
<1>6. CASE ReviewStops
  BY <1>6 DEF ReviewStops, RecordRound
<1>7. CASE AutoFix
  BY <1>7 DEF AutoFix, RecordRound, Rebase, Test, Lint
<1>8. CASE Park
  BY <1>8 DEF Park, RecordRound, Rebase, Test, Document, Lint
<1>9. CASE StepDone
  BY <1>9 DEF StepDone, RecordRound, CompleteStep, Intent, Rebase, Test, Document, Lint, PR
<1>10. CASE Reconcile
  BY <1>10 DEF Reconcile, TerminalPR, UpdateRunPRState, Active, InProgress, monotonicPRState
<1>11. CASE ResolveApprove
  BY <1>11 DEF ResolveApprove, CompleteStep, LeaveGate
<1>12. CASE ResolveSkip
  BY <1>12 DEF ResolveSkip, LeaveGate
<1>13. CASE ResolveFails
  BY <1>13 DEF ResolveFails
<1>14. CASE ResolveFix
  BY <1>14 DEF ResolveFix
<1>15. CASE RestartStale
  BY <1>15 DEF RestartStale, StaleGates, MinOf, ResetStepsFrom, ForgetStep, RequiredGates, Test,
     Document
<1>16. CASE RestartRequested
  BY <1>16 DEF RestartRequested, StaleGates, ResetStepsFrom, ForgetStep, RequiredGates, Test,
     Document
<1>17. CASE SkipRest
  BY <1>17 DEF SkipRest, StaleGates, RequiredGates, Test, Document
<1>18. CASE ResumeReconciles
  BY <1>18 DEF ResumeReconciles, TerminalPR, UpdateRunPRState, WaitEnds, Active, InProgress,
     monotonicPRState
<1>19. CASE RecoverFails
  BY <1>19 DEF RecoverFails, Active, InProgress
<1>20. CASE Begin \/ DispatchFails \/ LoopEnds \/ RebaseMoves \/ CommitFixes \/ GuardRejectsFix
          \/ PushCommits \/ PushPublishes \/ PushRecords \/ PROpens \/ CIStartsRepair \/ CIRepairs
          \/ CIRepairsNothing \/ TakeRuling \/ CancelWait \/ ReconcileFatal \/ Claim \/
          ClearAwaiting \/ NextStep \/ CompleteRun \/ FailRun \/ ResumeFatal \/ ResumeWaits \/ (\E
          a \in Rulings : Respond(a)) \/ (\E c \in Causes : CancelRun(c)) \/ AgentLeavesWork \/
          Clobber \/ ForgeMoves \/ Crash \/ RecoverGate \/ RecoverNothing \/ Over
  BY <1>20 DEF Begin, DispatchFails, LoopEnds, RebaseMoves, NewCommit, NoCommit, promoteRunHead,
     CommitFixes, AdoptWork, GuardRejectsFix, PushCommits, PushPublishes, PushRecords, PROpens,
     CIStartsRepair, CIRepairs, CIRepairsNothing, TakeRuling, WaitEnds, CancelWait,
     ReconcileFatal, Claim, ClearAwaiting, NextStep, ForgetStep, CompleteRun, TerminalHead,
     FailRun, ResumeFatal, ResumeWaits, Respond, CancelRun, AgentLeavesWork, Clobber, ForgeMoves,
     Crash, RecoverGate, RecoverNothing, Over
<1>21. CASE UNCHANGED vars
  BY <1>21
<1>. QED
  BY <1>1, <1>2, <1>3, <1>4, <1>5, <1>6, <1>7, <1>8, <1>9, <1>10, <1>11, <1>12, <1>13, <1>14,
     <1>15, <1>16, <1>17, <1>18, <1>19, <1>20, <1>21 DEF Next, Executor, Environment

\* A skipped step stays skipped through every restart and recovery.
THEOREM SkipsAreFinal == Spec => SkippedStaysSkipped
<1>1. IInv /\ [Next]_vars => SkipsKept
  BY SkipsStep DEF IInv
<1>. QED
  BY <1>1, IInvHolds, PTL DEF Spec, SkippedStaysSkipped, SkipsKept

\* What one step may do to the remote.
Publishes ==
    remote' # remote =>
        /\ approved \in reviewed
        /\ approved \in lineage'[remote']
        /\ \A g \in RequiredGates : st[g] = "completed" => cert[g] = memHead

\* Only Push moves the remote, and only under the review's authority.
LEMMA PublishesStep ==
    ASSUME IInv, Next
    PROVE  Publishes
<1>1. CASE PushPublishes
  <2>1. approved # NoHead /\ approved \in lineage[wt]
    BY <1>1 DEF PushPublishes, ReviewApproves, IsAncestor
  <2>2. approved \in lineage'[remote']
    BY <1>1, <2>1 DEF PushPublishes
  <2>. QED
    BY <2>1, <2>2 DEF Publishes, IInv, AuthorityCoversGates, Candidate
<1>2. CASE Begin \/ DispatchFails \/ DispatchSkip \/ StartStep \/ LoopEnds \/ RebaseMoves \/
         CommitFixes \/ GuardRejectsFix \/ PushCommits \/ PushRecords \/ PROpens \/ CIPolls \/ CIStartsRepair \/
         CIRepairs \/ CIRepairsNothing \/ StepErrs \/ SeatBlocks \/ ReviewStops \/ AutoFix \/ Park
         \/ StepDone \/ TakeRuling \/ CancelWait \/ ReconcileFatal \/ Reconcile \/ Claim \/
         ClearAwaiting \/ ResolveApprove \/ ResolveSkip \/ ResolveFails \/ ResolveFix \/
         RestartStale \/ RestartRequested \/ NextStep \/ SkipRest \/ CompleteRun \/ FailRun \/
         ResumeReconciles \/ ResumeFatal \/ ResumeWaits \/ (\E a \in Rulings : Respond(a)) \/ (\E
         c \in Causes : CancelRun(c)) \/ AgentLeavesWork \/ Clobber \/ ForgeMoves \/ Crash \/
         RecoverGate \/ RecoverFails \/ RecoverNothing \/ Over
  <2>1. remote' = remote
    BY <1>2 DEF Begin, DispatchFails, DispatchSkip, StartStep, LoopEnds, RebaseMoves, CommitFixes,
       AdoptWork, GuardRejectsFix, PushCommits, PushRecords, PROpens, CIPolls, CIStartsRepair, CIRepairs,
       CIRepairsNothing, StepErrs, SeatBlocks, ReviewStops, AutoFix, Park, StepDone, TakeRuling,
       CancelWait, ReconcileFatal, Reconcile, Claim, ClearAwaiting, ResolveApprove, ResolveSkip,
       ResolveFails, ResolveFix, RestartStale, RestartRequested, NextStep, SkipRest, CompleteRun,
       FailRun, ResumeReconciles, ResumeFatal, ResumeWaits, Respond, CancelRun, AgentLeavesWork,
       Clobber, ForgeMoves, Crash, RecoverGate, RecoverFails, RecoverNothing, Over
  <2>. QED
    BY <2>1 DEF Publishes
<1>. QED
  BY <1>1, <1>2 DEF Next, Executor, Environment

\* Push publishes only descendants of a reviewed commit, and never past a
\* completed required gate that ran on another head.
THEOREM PushIsCertified == Spec => PublishesOnlyCertified
<1>1. IInv /\ [Next]_vars => Publishes \/ UNCHANGED vars
  BY PublishesStep
<1>. QED
  BY <1>1, IInvHolds, PTL DEF Spec, PublishesOnlyCertified, Publishes

-----------------------------------------------------------------------------
(* What a run delivers.                                                    *)

\* Commits are numbered as they are created, so heads only grow; once moved, one is never seen again.
Grows ==
    /\ prevHead <= memHead /\ memHead <= wt /\ wt <= commits
    /\ pc = "published" => memHead <= remote /\ remote <= wt

\* A grant is a completed review's; a restart was asked for by a repair, which revoked it.
Grant ==
    /\ approved # NoHead => st[Review] = "completed"
    /\ flow = "restart" => pc \in {"settled", "returned", "failing", "ended"} /\ cur = CI /\ approved = NoHead
    /\ flow = "skip_rest" => pc \in {"returned", "completing", "ended"} /\ cur = Rebase
    /\ pc = "down" \/ atGate = TRUE => recovered = TRUE
    /\ crashes = 0 => recovered = FALSE

\* Neither Push nor PR ever waits at a gate.
Ungated ==
    /\ st[Push] \notin Parked /\ st[PR] \notin Parked
    /\ pc \in {"proposing", "salvaged"} => cur \in {Review, Test, Document, Lint, CI}

\* The remote has the run's head, reviewed, and no gate is stale; or the head moved off the review.
Delivered == remote = memHead /\ remote \in reviewed /\ StaleGates = {}
Moved == memHead # prevHead /\ st[Review] = "completed" /\ cert[Review] = NoHead

\* Push leaves its turn having delivered, or with the review gone stale.
PushTurn ==
    /\ pc = "published" => cur = Push /\ approved # NoHead
    /\ cur = Push /\ pc \in {"executing", "assessing", "published"} => prevHead = memHead
    /\ cur = Push /\ (pc = "settled" \/ (pc = "returned" /\ st[Push] = "completed")) =>
         st[Review] = "completed" /\ (Delivered \/ Moved)

\* Beyond Push.
Beyond ==
    /\ st[Push] = "completed" /\ (pc \in {"dispatch", "completing"} \/ (pc \in Busy /\ cur > Push) \/ st[CI] \in Parked)
         => st[Review] = "completed" /\ remote \in reviewed
    /\ st[Push] = "completed" /\ recovered = FALSE /\ pc \in {"dispatch", "completing"} => Delivered
    /\ st[Push] = "completed" /\ recovered = FALSE /\ pc \in Busy /\ cur > Push => Delivered \/ Moved

DeliveryInv == Grows /\ Grant /\ Ungated /\ PushTurn /\ Beyond

\* What Position says of the row of one step.
Stands(s) ==
    /\ s \in Steps /\ st \in [Steps -> StepStatuses] /\ cert \in [Steps -> Heads \union {NoHead}]
    /\ cur \in 1..10 /\ (pc \in Busy => cur \in Steps)
    /\ pc \in InStep /\ cur = s => st[s] \in {"running", "fixer_running"} \/ (s = CI /\ st[s] = "completed")
    /\ pc \in AtGate /\ cur = s => st[s] \in Parked \/ (s = CI /\ st[s] = "completed")
    /\ pc = "returned" /\ cur = s => st[s] \in {"completed", "skipped"}
    /\ pc \in Busy \union {"dispatch"} /\ s < cur => st[s] \in {"completed", "skipped"}
    /\ pc \in Busy /\ s > cur => st[s] \in {"pending", "skipped"}
    /\ pc = "dispatch" /\ s >= cur => st[s] \in {"pending", "skipped"}


\* It says so of every step.
LEMMA StandsAt ==
    ASSUME TypeOK, Position, NEW s \in Steps
    PROVE  Stands(s)
<1>1. st \in [Steps -> StepStatuses] /\ cert \in [Steps -> Heads \union {NoHead}] /\ cur \in 1..10
  BY DEF TypeOK
<1>2. pc \in Busy => cur \in Steps
  BY DEF Position
<1>3. pc \in AtGate => pc \in Busy
  BY DEF AtGate, Busy
<1>. QED
  BY <1>1, <1>2, <1>3 DEF Position, Stands, Steps, Busy

\* A grant stands on a completed review.
LEMMA GrantStep ==
    ASSUME TypeOK, Position, Candidate, Grows, Grant, [Next]_vars
    PROVE  Grant'
<1>1. Stands(Review)
  BY StandsAt DEF Steps, Review
<1>2. memHead = runHead /\ crashes \in Nat /\ memHead \in Nat /\ commits \in Nat /\ NoHead \notin Heads /\ (pc = "repairing" => cur = CI)
  BY DEF Candidate, TypeOK, Heads, NoHead, Position
<1>. USE <1>1, <1>2 DEF InStep, AtGate, Busy, Parked, Review, Test, Document, CI, Push, PR,
        Rebase, Intent, Lint, Stands, Grant
<1>3. CASE Begin
    BY <1>3 DEF Begin
<1>4. CASE DispatchFails
    BY <1>4 DEF DispatchFails
<1>5. CASE DispatchSkip
    BY <1>5 DEF DispatchSkip, NoHead
<1>6. CASE StartStep
    BY <1>6 DEF StartStep
<1>7. CASE LoopEnds
    BY <1>7 DEF LoopEnds
<1>8. CASE RebaseMoves
    BY <1>8 DEF RebaseMoves, NewCommit, NoCommit, promoteRunHead, NoHead
<1>9. CASE CommitFixes
    BY <1>9 DEF CommitFixes, AdoptWork, NewCommit, NoCommit, promoteRunHead, NoHead, Continuous,
     IsAncestor, CommittingPass
<1>10. CASE GuardRejectsFix
    BY <1>10 DEF GuardRejectsFix, Continuous, IsAncestor
<1>11. CASE PushCommits
    BY <1>11 DEF PushCommits, Continuous, IsAncestor, NewCommit, NoCommit
<1>12. CASE PushPublishes
    BY <1>12 DEF PushPublishes, ReviewApproves, NoHead, IsAncestor
<1>13. CASE PushRecords
    BY <1>13 DEF PushRecords, promoteRunHead, NoHead
<1>14. CASE PROpens
    BY <1>14 DEF PROpens, Continuous, IsAncestor
<1>15. CASE CIPolls
    BY <1>15 DEF CIPolls, UpdateRunPRState, monotonicPRState, InProgress, Active, TerminalPR,
     Continuous, IsAncestor
<1>16. CASE CIStartsRepair
    BY <1>16 DEF CIStartsRepair, Continuous, IsAncestor
<1>17. CASE CIRepairs
  <2>1. /\ promoteRunHead(wt') /\ cur = CI /\ cur' = cur /\ st' = st /\ pc = "repairing" /\ UNCHANGED <<atGate, recovered, crashes>>
        /\ \/ flow' = "restart" /\ pc' = "settled"
           \/ flow' = flow /\ pc' = "proposing"
    BY <1>17 DEF CIRepairs, AdoptWork
  <2>2. wt' # runHead
    <3>1. memHead <= wt /\ wt <= commits /\ wt \in Nat
      BY DEF Grows, TypeOK, Heads
    <3>2. wt' = commits + 1 \/ (wt' = wt /\ wt # memHead)
      BY <1>17 DEF CIRepairs, AdoptWork, NewCommit
    <3>. QED
      BY <3>1, <3>2
  <2>3. approved' = NoHead
    BY <2>1, <2>2 DEF promoteRunHead
  <2>. QED
    BY <2>1, <2>3
<1>18. CASE CIRepairsNothing
    BY <1>18 DEF CIRepairsNothing
<1>19. CASE StepErrs
    BY <1>19 DEF StepErrs
<1>20. CASE SeatBlocks
    BY <1>20 DEF SeatBlocks
<1>21. CASE ReviewStops
    BY <1>21 DEF ReviewStops, Reported, CanReport, Continuous, IsAncestor, RecordRound, NoHead
<1>22. CASE AutoFix
    BY <1>22 DEF AutoFix, RecordRound, NoHead, CanReport, Continuous, IsAncestor
<1>23. CASE Park
    BY <1>23 DEF Park, Reported, CanReport, Continuous, IsAncestor, RecordRound, NoHead
<1>24. CASE StepDone
    BY <1>24 DEF StepDone, CompleteStep, NoHead, RecordRound, CanReport, Continuous, IsAncestor
<1>25. CASE TakeRuling
    BY <1>25 DEF TakeRuling, WaitEnds
<1>26. CASE CancelWait
    BY <1>26 DEF CancelWait, WaitEnds
<1>27. CASE ReconcileFatal
    BY <1>27 DEF ReconcileFatal, Continuous, IsAncestor, WaitEnds
<1>28. CASE Reconcile
    BY <1>28 DEF Reconcile, UpdateRunPRState, monotonicPRState, InProgress, Active, TerminalPR,
     Continuous, IsAncestor
<1>29. CASE Claim
    BY <1>29 DEF Claim, WaitEnds
<1>30. CASE ClearAwaiting
    BY <1>30 DEF ClearAwaiting
<1>31. CASE ResolveApprove
    BY <1>31 DEF ResolveApprove, CompleteStep, NoHead, LeaveGate, NoCandidate
<1>32. CASE ResolveSkip
    BY <1>32 DEF ResolveSkip, LeaveGate, NoHead
<1>33. CASE ResolveFails
    BY <1>33 DEF ResolveFails, NoCandidate, NoHead
<1>34. CASE ResolveFix
    BY <1>34 DEF ResolveFix
<1>35. CASE RestartStale
    BY <1>35 DEF RestartStale, StaleGates, RequiredGates, ResetStepsFrom, NoHead, MinOf,
     ForgetStep
<1>36. CASE RestartRequested
    BY <1>36 DEF RestartRequested, StaleGates, RequiredGates, ResetStepsFrom, NoHead, ForgetStep
<1>37. CASE NextStep
    BY <1>37 DEF NextStep, ForgetStep, StaleGates, RequiredGates
<1>38. CASE SkipRest
    BY <1>38 DEF SkipRest, StaleGates, RequiredGates, NoHead
<1>39. CASE CompleteRun
    BY <1>39 DEF CompleteRun, TerminalHead, IsAncestor, promoteRunHead, NoHead
<1>40. CASE FailRun
    BY <1>40 DEF FailRun, TerminalHead, IsAncestor, promoteRunHead, NoHead
<1>41. CASE ResumeReconciles
    BY <1>41 DEF ResumeReconciles, UpdateRunPRState, monotonicPRState, InProgress, Active,
     TerminalPR, Continuous, IsAncestor, WaitEnds
<1>42. CASE ResumeFatal
    BY <1>42 DEF ResumeFatal, Continuous, IsAncestor, WaitEnds
<1>43. CASE ResumeWaits
    BY <1>43 DEF ResumeWaits
<1>44. CASE Crash
    BY <1>44 DEF Crash
<1>45. CASE RecoverGate
    BY <1>45 DEF RecoverGate, GateAt
<1>46. CASE RecoverFails
    BY <1>46 DEF RecoverFails, InProgress, Active
<1>47. CASE RecoverNothing
    BY <1>47 DEF RecoverNothing, Active
<1>48. CASE (\E a \in Rulings : Respond(a)) \/ (\E c \in Causes : CancelRun(c)) \/
          AgentLeavesWork \/ Clobber \/ ForgeMoves \/ Over
  <2>1. UNCHANGED <<approved, atGate, crashes, cur, flow, pc, recovered, st>>
        BY <1>48 DEF Respond, CancelRun, AgentLeavesWork, NewCommit, Clobber, ForgeMoves,
       TerminalPR, Over
    <2>. QED BY <2>1 DEF NoHead
<1>49. CASE UNCHANGED vars
  BY <1>49 DEF NoHead
<1>. QED
    BY <1>3, <1>4, <1>5, <1>6, <1>7, <1>8, <1>9, <1>10, <1>11, <1>12, <1>13, <1>14, <1>15,
     <1>16, <1>17, <1>18, <1>19, <1>20, <1>21, <1>22, <1>23, <1>24, <1>25, <1>26, <1>27, <1>28,
     <1>29, <1>30, <1>31, <1>32, <1>33, <1>34, <1>35, <1>36, <1>37, <1>38, <1>39, <1>40, <1>41,
     <1>42, <1>43, <1>44, <1>45, <1>46, <1>47, <1>48, <1>49 DEF Next, Executor, Environment

\* Push and PR never park.
LEMMA UngatedStep ==
    ASSUME TypeOK, Position, Ungated, [Next]_vars
    PROVE  Ungated'
<1>1. Stands(Push) /\ Stands(PR) /\ (pc = "repairing" => cur = CI)
  BY StandsAt DEF Steps, Push, PR, Position
<1>. USE <1>1 DEF InStep, AtGate, Busy, Parked, Review, Test, Document, CI, Push, PR, Rebase,
        Intent, Lint, Stands, Ungated
<1>2. CASE Begin
    BY <1>2 DEF Begin
<1>3. CASE DispatchFails
    BY <1>3 DEF DispatchFails
<1>4. CASE DispatchSkip
    BY <1>4 DEF DispatchSkip, NoHead
<1>5. CASE StartStep
    BY <1>5 DEF StartStep
<1>6. CASE LoopEnds
    BY <1>6 DEF LoopEnds
<1>7. CASE RebaseMoves
    BY <1>7 DEF RebaseMoves, NewCommit, NoCommit, promoteRunHead, NoHead
<1>8. CASE CommitFixes
    BY <1>8 DEF CommitFixes, AdoptWork, NewCommit, NoCommit, promoteRunHead, NoHead, Continuous,
     IsAncestor, CommittingPass
<1>9. CASE GuardRejectsFix
    BY <1>9 DEF GuardRejectsFix, Continuous, IsAncestor
<1>10. CASE PushCommits
    BY <1>10 DEF PushCommits, Continuous, IsAncestor, NewCommit, NoCommit
<1>11. CASE PushPublishes
    BY <1>11 DEF PushPublishes, ReviewApproves, NoHead, IsAncestor
<1>12. CASE PushRecords
    BY <1>12 DEF PushRecords, promoteRunHead, NoHead
<1>13. CASE PROpens
    BY <1>13 DEF PROpens, Continuous, IsAncestor
<1>14. CASE CIPolls
    BY <1>14 DEF CIPolls, UpdateRunPRState, monotonicPRState, InProgress, Active, TerminalPR,
     Continuous, IsAncestor
<1>15. CASE CIStartsRepair
    BY <1>15 DEF CIStartsRepair, Continuous, IsAncestor
<1>16. CASE CIRepairs
    BY <1>16 DEF CIRepairs, AdoptWork, NewCommit, NoCommit, promoteRunHead, NoHead
<1>17. CASE CIRepairsNothing
    BY <1>17 DEF CIRepairsNothing
<1>18. CASE StepErrs
    BY <1>18 DEF StepErrs
<1>19. CASE SeatBlocks
    BY <1>19 DEF SeatBlocks
<1>20. CASE ReviewStops
    BY <1>20 DEF ReviewStops, Reported, CanReport, Continuous, IsAncestor, RecordRound, NoHead
<1>21. CASE AutoFix
    BY <1>21 DEF AutoFix, RecordRound, NoHead, CanReport, Continuous, IsAncestor
<1>22. CASE Park
    BY <1>22 DEF Park, Reported, CanReport, Continuous, IsAncestor, RecordRound, NoHead
<1>23. CASE StepDone
    BY <1>23 DEF StepDone, CompleteStep, NoHead, RecordRound, CanReport, Continuous, IsAncestor
<1>24. CASE TakeRuling
    BY <1>24 DEF TakeRuling, WaitEnds
<1>25. CASE CancelWait
    BY <1>25 DEF CancelWait, WaitEnds
<1>26. CASE ReconcileFatal
    BY <1>26 DEF ReconcileFatal, Continuous, IsAncestor, WaitEnds
<1>27. CASE Reconcile
    BY <1>27 DEF Reconcile, UpdateRunPRState, monotonicPRState, InProgress, Active, TerminalPR,
     Continuous, IsAncestor
<1>28. CASE Claim
    BY <1>28 DEF Claim, WaitEnds
<1>29. CASE ClearAwaiting
    BY <1>29 DEF ClearAwaiting
<1>30. CASE ResolveApprove
    BY <1>30 DEF ResolveApprove, CompleteStep, NoHead, LeaveGate, NoCandidate
<1>31. CASE ResolveSkip
    BY <1>31 DEF ResolveSkip, LeaveGate, NoHead
<1>32. CASE ResolveFails
    BY <1>32 DEF ResolveFails, NoCandidate, NoHead
<1>33. CASE ResolveFix
    BY <1>33 DEF ResolveFix
<1>34. CASE RestartStale
    BY <1>34 DEF RestartStale, StaleGates, RequiredGates, ResetStepsFrom, NoHead, MinOf,
     ForgetStep
<1>35. CASE RestartRequested
    BY <1>35 DEF RestartRequested, StaleGates, RequiredGates, ResetStepsFrom, NoHead, ForgetStep
<1>36. CASE NextStep
    BY <1>36 DEF NextStep, ForgetStep, StaleGates, RequiredGates
<1>37. CASE SkipRest
    BY <1>37 DEF SkipRest, StaleGates, RequiredGates, NoHead
<1>38. CASE CompleteRun
    BY <1>38 DEF CompleteRun, TerminalHead, IsAncestor, promoteRunHead, NoHead
<1>39. CASE FailRun
    BY <1>39 DEF FailRun, TerminalHead, IsAncestor, promoteRunHead, NoHead
<1>40. CASE ResumeReconciles
    BY <1>40 DEF ResumeReconciles, UpdateRunPRState, monotonicPRState, InProgress, Active,
     TerminalPR, Continuous, IsAncestor, WaitEnds
<1>41. CASE ResumeFatal
    BY <1>41 DEF ResumeFatal, Continuous, IsAncestor, WaitEnds
<1>42. CASE ResumeWaits
    BY <1>42 DEF ResumeWaits
<1>43. CASE Crash
    BY <1>43 DEF Crash
<1>44. CASE RecoverGate
    BY <1>44 DEF RecoverGate, GateAt
<1>45. CASE RecoverFails
    BY <1>45 DEF RecoverFails, InProgress, Active
<1>46. CASE RecoverNothing
    BY <1>46 DEF RecoverNothing, Active
<1>47. CASE (\E a \in Rulings : Respond(a)) \/ (\E c \in Causes : CancelRun(c)) \/
          AgentLeavesWork \/ Clobber \/ ForgeMoves \/ Over
  <2>1. UNCHANGED <<cur, pc, st>>
        BY <1>47 DEF Respond, CancelRun, AgentLeavesWork, NewCommit, Clobber, ForgeMoves,
       TerminalPR, Over
    <2>. QED BY <2>1
<1>48. CASE UNCHANGED vars
  BY <1>48
<1>. QED
    BY <1>2, <1>3, <1>4, <1>5, <1>6, <1>7, <1>8, <1>9, <1>10, <1>11, <1>12, <1>13, <1>14, <1>15,
     <1>16, <1>17, <1>18, <1>19, <1>20, <1>21, <1>22, <1>23, <1>24, <1>25, <1>26, <1>27, <1>28,
     <1>29, <1>30, <1>31, <1>32, <1>33, <1>34, <1>35, <1>36, <1>37, <1>38, <1>39, <1>40, <1>41,
     <1>42, <1>43, <1>44, <1>45, <1>46, <1>47, <1>48 DEF Next, Executor, Environment

\* What was delivered stays delivered while the head, the remote and the gates stand.
LEMMA DeliveredStands ==
    ASSUME Delivered, memHead' = memHead, remote' = remote, reviewed \subseteq reviewed',
           \A g \in RequiredGates : st'[g] = "completed" => st[g] = "completed" /\ cert'[g] = cert[g]
    PROVE  Delivered'
BY DEF Delivered, StaleGates

\* A head that moved off the review stays so until the step returns.
LEMMA MovedStands ==
    ASSUME Moved, memHead' = memHead, prevHead' = prevHead, st'[Review] = st[Review], cert'[Review] = cert[Review]
    PROVE  Moved'
BY DEF Moved

\* Push leaves its turn having delivered, or with the review gone stale.
LEMMA PushTurnStep ==
    ASSUME TypeOK, Position, Candidate, AuthorityCoversGates, Grant, Ungated, PushTurn, [Next]_vars
    PROVE  PushTurn'
<1>1. Stands(Push) /\ Stands(Review)
  BY StandsAt DEF Steps, Push, Review
<1>2. /\ memHead \in Heads /\ remote \in Heads \union {NoHead} /\ NoHead \notin Heads /\ memHead = runHead
      /\ (pc = "repairing" => cur = CI) /\ (pc = "published" => remote # NoHead)
  BY DEF Position, Candidate, TypeOK, Heads, NoHead
<1>. USE <1>1, <1>2 DEF InStep, AtGate, Busy, Parked, Review, Test, Document, CI, Push, PR,
        Rebase, Intent, Lint, PushTurn, Stands, Ungated
<1>3. CASE Begin
    BY <1>3 DEF Begin
<1>4. CASE DispatchFails
    BY <1>4 DEF DispatchFails
<1>5. CASE DispatchSkip
    BY <1>5 DEF DispatchSkip, NoHead
<1>6. CASE StartStep
    BY <1>6 DEF StartStep
<1>7. CASE LoopEnds
    BY <1>7 DEF LoopEnds
<1>8. CASE RebaseMoves
    BY <1>8 DEF RebaseMoves, NewCommit, NoCommit, promoteRunHead, NoHead
<1>9. CASE CommitFixes
    BY <1>9 DEF CommitFixes, AdoptWork, NewCommit, NoCommit, promoteRunHead, NoHead, Continuous,
     IsAncestor, CommittingPass
<1>10. CASE GuardRejectsFix
    BY <1>10 DEF GuardRejectsFix, Continuous, IsAncestor
<1>11. CASE PushCommits
    BY <1>11 DEF PushCommits, Continuous, IsAncestor, NewCommit, NoCommit
<1>12. CASE PushPublishes
    BY <1>12 DEF PushPublishes, ReviewApproves, NoHead, IsAncestor
<1>13. CASE PushRecords
  <2>1. cur = Push /\ approved # NoHead /\ prevHead = memHead /\ st[Review] = "completed"
    BY <1>13 DEF PushRecords, Grant
  <2>2. /\ memHead' = remote /\ promoteRunHead(remote) /\ cur' = cur /\ pc' = "settled" /\ prevHead' = prevHead
        /\ st' = st /\ remote' = remote /\ reviewed' = reviewed
    BY <1>13 DEF PushRecords
  <2>3. CASE remote = runHead
    <3>1. cert' = cert /\ remote \in reviewed /\ \A g \in RequiredGates : st[g] = "completed" => cert[g] = runHead
      BY <2>1, <2>2, <2>3 DEF promoteRunHead, AuthorityCoversGates
    <3>2. Delivered'
      BY <2>2, <2>3, <3>1 DEF Delivered, StaleGates
    <3>. QED
      BY <2>1, <2>2, <3>2
  <2>4. CASE remote # runHead
    <3>1. cert'[Review] = NoHead
      BY <2>1, <2>2, <2>4 DEF promoteRunHead, Stands
    <3>2. Moved'
      BY <2>1, <2>2, <2>4, <3>1 DEF Moved
    <3>. QED
      BY <2>1, <2>2, <3>2
  <2>. QED
    BY <2>3, <2>4
<1>14. CASE PROpens
    BY <1>14 DEF PROpens, Continuous, IsAncestor
<1>15. CASE CIPolls
    BY <1>15 DEF CIPolls, UpdateRunPRState, monotonicPRState, InProgress, Active, TerminalPR,
     Continuous, IsAncestor
<1>16. CASE CIStartsRepair
    BY <1>16 DEF CIStartsRepair, Continuous, IsAncestor
<1>17. CASE CIRepairs
    BY <1>17 DEF CIRepairs, AdoptWork, NewCommit, NoCommit, promoteRunHead, NoHead
<1>18. CASE CIRepairsNothing
    BY <1>18 DEF CIRepairsNothing
<1>19. CASE StepErrs
    BY <1>19 DEF StepErrs
<1>20. CASE SeatBlocks
    BY <1>20 DEF SeatBlocks
<1>21. CASE ReviewStops
    BY <1>21 DEF ReviewStops, Reported, CanReport, Continuous, IsAncestor, RecordRound, NoHead
<1>22. CASE AutoFix
    BY <1>22 DEF AutoFix, RecordRound, NoHead, CanReport, Continuous, IsAncestor
<1>23. CASE Park
    BY <1>23 DEF Park, Reported, CanReport, Continuous, IsAncestor, RecordRound, NoHead
<1>24. CASE StepDone
  <2>1. pc' = "returned" /\ UNCHANGED <<cur, prevHead, memHead, remote>> /\ reviewed \subseteq reviewed'
    BY <1>24 DEF StepDone, CompleteStep
  <2>2. CASE cur # Push
    BY <2>1, <2>2
  <2>3. CASE cur = Push
    <3>1. pc = "settled" /\ CompleteStep("completed", NoHead)
      BY <1>24, <2>3 DEF StepDone
    <3>2. \A s \in Steps : s # Push => st'[s] = st[s] /\ cert'[s] = cert[s]
      BY <2>3, <3>1 DEF CompleteStep, Stands
    <3>3. \A g \in RequiredGates \union {Review} : st'[g] = st[g] /\ cert'[g] = cert[g]
      BY <3>2 DEF RequiredGates, Steps
    <3>4. (Delivered' \/ Moved') /\ st'[Review] = "completed"
      BY <2>1, <2>3, <3>1, <3>3, DeliveredStands, MovedStands
    <3>. QED
      BY <2>1, <3>4
  <2>. QED
    BY <2>2, <2>3
<1>25. CASE TakeRuling
    BY <1>25 DEF TakeRuling, WaitEnds
<1>26. CASE CancelWait
    BY <1>26 DEF CancelWait, WaitEnds
<1>27. CASE ReconcileFatal
    BY <1>27 DEF ReconcileFatal, Continuous, IsAncestor, WaitEnds
<1>28. CASE Reconcile
    BY <1>28 DEF Reconcile, UpdateRunPRState, monotonicPRState, InProgress, Active, TerminalPR,
     Continuous, IsAncestor
<1>29. CASE Claim
    BY <1>29 DEF Claim, WaitEnds
<1>30. CASE ClearAwaiting
    BY <1>30 DEF ClearAwaiting
<1>31. CASE ResolveApprove
    BY <1>31 DEF ResolveApprove, CompleteStep, NoHead, LeaveGate, NoCandidate
<1>32. CASE ResolveSkip
    BY <1>32 DEF ResolveSkip, LeaveGate, NoHead
<1>33. CASE ResolveFails
    BY <1>33 DEF ResolveFails, NoCandidate, NoHead
<1>34. CASE ResolveFix
    BY <1>34 DEF ResolveFix
<1>35. CASE RestartStale
    BY <1>35 DEF RestartStale, StaleGates, RequiredGates, ResetStepsFrom, NoHead, MinOf,
     ForgetStep
<1>36. CASE RestartRequested
    BY <1>36 DEF RestartRequested, StaleGates, RequiredGates, ResetStepsFrom, NoHead, ForgetStep
<1>37. CASE NextStep
    BY <1>37 DEF NextStep, ForgetStep, StaleGates, RequiredGates
<1>38. CASE SkipRest
    BY <1>38 DEF SkipRest, StaleGates, RequiredGates, NoHead
<1>39. CASE CompleteRun
    BY <1>39 DEF CompleteRun, TerminalHead, IsAncestor, promoteRunHead, NoHead
<1>40. CASE FailRun
    BY <1>40 DEF FailRun, TerminalHead, IsAncestor, promoteRunHead, NoHead
<1>41. CASE ResumeReconciles
    BY <1>41 DEF ResumeReconciles, UpdateRunPRState, monotonicPRState, InProgress, Active,
     TerminalPR, Continuous, IsAncestor, WaitEnds
<1>42. CASE ResumeFatal
    BY <1>42 DEF ResumeFatal, Continuous, IsAncestor, WaitEnds
<1>43. CASE ResumeWaits
    BY <1>43 DEF ResumeWaits
<1>44. CASE Crash
    BY <1>44 DEF Crash
<1>45. CASE RecoverGate
    BY <1>45 DEF RecoverGate, GateAt
<1>46. CASE RecoverFails
    BY <1>46 DEF RecoverFails, InProgress, Active
<1>47. CASE RecoverNothing
    BY <1>47 DEF RecoverNothing, Active
<1>48. CASE (\E a \in Rulings : Respond(a)) \/ (\E c \in Causes : CancelRun(c)) \/
          AgentLeavesWork \/ Clobber \/ ForgeMoves \/ Over
  <2>1. UNCHANGED <<approved, cert, cur, memHead, pc, prevHead, remote, reviewed, st>>
        BY <1>48 DEF Respond, CancelRun, AgentLeavesWork, NewCommit, Clobber, ForgeMoves,
       TerminalPR, Over
    <2>. QED BY <2>1 DEF Moved, NoHead, Delivered, StaleGates, RequiredGates
<1>49. CASE UNCHANGED vars
  BY <1>49 DEF Moved, NoHead, Delivered, StaleGates, RequiredGates
<1>. QED
    BY <1>3, <1>4, <1>5, <1>6, <1>7, <1>8, <1>9, <1>10, <1>11, <1>12, <1>13, <1>14, <1>15,
     <1>16, <1>17, <1>18, <1>19, <1>20, <1>21, <1>22, <1>23, <1>24, <1>25, <1>26, <1>27, <1>28,
     <1>29, <1>30, <1>31, <1>32, <1>33, <1>34, <1>35, <1>36, <1>37, <1>38, <1>39, <1>40, <1>41,
     <1>42, <1>43, <1>44, <1>45, <1>46, <1>47, <1>48, <1>49 DEF Next, Executor, Environment

\* Heads only grow.
LEMMA GrowsStep ==
    ASSUME TypeOK, Position, Candidate, Grows, [Next]_vars
    PROVE  Grows'
<1>1. /\ prevHead \in Nat /\ memHead \in Nat /\ wt \in Nat /\ commits \in Nat /\ remote \in Nat /\ memHead = runHead
      /\ (pc = "repairing" => cur = CI)
  BY DEF Position, Candidate, TypeOK, Heads, NoHead
<1>. USE <1>1 DEF Grows, InStep
<1>2. CASE Begin
    BY <1>2 DEF Begin
<1>3. CASE DispatchFails
    BY <1>3 DEF DispatchFails
<1>4. CASE StartStep
    BY <1>4 DEF StartStep
<1>5. CASE LoopEnds
    BY <1>5 DEF LoopEnds
<1>6. CASE RebaseMoves
    BY <1>6 DEF RebaseMoves, Rebase, NewCommit, NoCommit, promoteRunHead, NoHead, Review
<1>7. CASE CommitFixes
    BY <1>7 DEF CommitFixes, AdoptWork, NewCommit, NoCommit, promoteRunHead, NoHead, Review,
     Document, Continuous, IsAncestor, CommittingPass, Lint, Test
<1>8. CASE GuardRejectsFix
    BY <1>8 DEF GuardRejectsFix, Document, Continuous, IsAncestor, Review, CI, Lint, Test
<1>9. CASE PushCommits
    BY <1>9 DEF PushCommits, Continuous, IsAncestor, NewCommit, NoCommit, Push
<1>10. CASE PushPublishes
    BY <1>10 DEF PushPublishes, Push, ReviewApproves, NoHead, IsAncestor
<1>11. CASE PushRecords
    BY <1>11 DEF PushRecords, promoteRunHead, NoHead, Review
<1>12. CASE PROpens
    BY <1>12 DEF PROpens, Continuous, IsAncestor, PR
<1>13. CASE CIPolls
    BY <1>13 DEF CIPolls, UpdateRunPRState, monotonicPRState, CI, InProgress, Parked, Active,
     TerminalPR, Continuous, IsAncestor
<1>14. CASE CIStartsRepair
    BY <1>14 DEF CIStartsRepair, Continuous, IsAncestor, CI
<1>15. CASE CIRepairs
    BY <1>15 DEF CIRepairs, AdoptWork, NewCommit, NoCommit, promoteRunHead, NoHead, Review
<1>16. CASE CIRepairsNothing
    BY <1>16 DEF CIRepairsNothing
<1>17. CASE StepErrs
    BY <1>17 DEF StepErrs
<1>18. CASE SeatBlocks
    BY <1>18 DEF SeatBlocks, Rebase, Lint
<1>19. CASE ReviewStops
    BY <1>19 DEF ReviewStops, Reported, CanReport, Intent, Continuous, IsAncestor, Rebase, Lint,
     Review, Test, RecordRound, NoHead
<1>20. CASE AutoFix
    BY <1>20 DEF AutoFix, Rebase, Review, RecordRound, NoHead, CanReport, Intent, Continuous,
     IsAncestor, Lint, Test
<1>21. CASE Park
    BY <1>21 DEF Park, Rebase, Document, Reported, CanReport, Intent, Continuous, IsAncestor,
     Lint, Review, Test, CI, RecordRound, NoHead
<1>22. CASE StepDone
    BY <1>22 DEF StepDone, Intent, Rebase, Document, CompleteStep, NoHead, Review, CI,
     RecordRound, CanReport, Continuous, IsAncestor, Lint, Test, PR
<1>23. CASE TakeRuling
    BY <1>23 DEF TakeRuling, WaitEnds
<1>24. CASE CancelWait
    BY <1>24 DEF CancelWait, WaitEnds
<1>25. CASE ReconcileFatal
    BY <1>25 DEF ReconcileFatal, Continuous, IsAncestor, CI, WaitEnds
<1>26. CASE Reconcile
    BY <1>26 DEF Reconcile, UpdateRunPRState, monotonicPRState, CI, InProgress, Parked, Active,
     TerminalPR, Continuous, IsAncestor
<1>27. CASE Claim
    BY <1>27 DEF Claim, WaitEnds
<1>28. CASE ClearAwaiting
    BY <1>28 DEF ClearAwaiting
<1>29. CASE ResolveApprove
    BY <1>29 DEF ResolveApprove, CompleteStep, NoHead, Review, LeaveGate, NoCandidate
<1>30. CASE ResolveSkip
    BY <1>30 DEF ResolveSkip, LeaveGate, NoHead
<1>31. CASE ResolveFails
    BY <1>31 DEF ResolveFails, NoCandidate, NoHead, Review
<1>32. CASE ResolveFix
    BY <1>32 DEF ResolveFix
<1>33. CASE RestartStale
    BY <1>33 DEF RestartStale, StaleGates, RequiredGates, Document, Test, Review,
     ResetStepsFrom, NoHead, MinOf, ForgetStep
<1>34. CASE RestartRequested
    BY <1>34 DEF RestartRequested, StaleGates, RequiredGates, Document, Test, Review,
     ResetStepsFrom, NoHead, ForgetStep
<1>35. CASE NextStep
    BY <1>35 DEF NextStep, ForgetStep, StaleGates, RequiredGates, Document, Test, Review
<1>36. CASE SkipRest
    BY <1>36 DEF SkipRest, StaleGates, RequiredGates, Document, Test, Review, NoHead
<1>37. CASE CompleteRun
    BY <1>37 DEF CompleteRun, TerminalHead, IsAncestor, promoteRunHead, NoHead, Review
<1>38. CASE FailRun
    BY <1>38 DEF FailRun, TerminalHead, IsAncestor, promoteRunHead, NoHead, Review
<1>39. CASE ResumeReconciles
    BY <1>39 DEF ResumeReconciles, UpdateRunPRState, monotonicPRState, CI, InProgress, Parked,
     Active, TerminalPR, Continuous, IsAncestor, WaitEnds
<1>40. CASE ResumeFatal
    BY <1>40 DEF ResumeFatal, Continuous, IsAncestor, CI, WaitEnds
<1>41. CASE ResumeWaits
    BY <1>41 DEF ResumeWaits
<1>42. CASE AgentLeavesWork
    BY <1>42 DEF AgentLeavesWork, Document, NewCommit, Review, CI, Lint, PR, Test
<1>43. CASE Clobber
    BY <1>43 DEF Clobber, NewCommit
<1>44. CASE Crash
    BY <1>44 DEF Crash
<1>45. CASE RecoverGate
    BY <1>45 DEF RecoverGate, GateAt, Parked
<1>46. CASE RecoverFails
    BY <1>46 DEF RecoverFails, InProgress, Parked, Active
<1>47. CASE RecoverNothing
    BY <1>47 DEF RecoverNothing, Active
<1>48. CASE DispatchSkip \/ (\E a \in Rulings : Respond(a)) \/ (\E c \in Causes : CancelRun(c))
          \/ ForgeMoves \/ Over
  <2>1. UNCHANGED <<commits, memHead, pc, prevHead, remote, wt>>
        BY <1>48 DEF DispatchSkip, NoHead, Respond, CancelRun, ForgeMoves, TerminalPR, Over
    <2>. QED BY <2>1
<1>49. CASE UNCHANGED vars
  BY <1>49
<1>. QED
    BY <1>2, <1>3, <1>4, <1>5, <1>6, <1>7, <1>8, <1>9, <1>10, <1>11, <1>12, <1>13, <1>14, <1>15,
     <1>16, <1>17, <1>18, <1>19, <1>20, <1>21, <1>22, <1>23, <1>24, <1>25, <1>26, <1>27, <1>28,
     <1>29, <1>30, <1>31, <1>32, <1>33, <1>34, <1>35, <1>36, <1>37, <1>38, <1>39, <1>40, <1>41,
     <1>42, <1>43, <1>44, <1>45, <1>46, <1>47, <1>48, <1>49 DEF Next, Executor, Environment

\* What follows Push keeps what it delivered, or goes back to the review.
LEMMA BeyondStep ==
    ASSUME TypeOK, Position, Candidate, AuthorityCoversGates, Grows, Grant, Ungated, PushTurn, Beyond, [Next]_vars
    PROVE  Beyond'
<1>1. /\ Stands(Push) /\ Stands(PR) /\ Stands(CI) /\ Stands(Review) /\ Stands(Test) /\ Stands(Document)
  BY StandsAt DEF Steps, Push, PR, CI, Review, Test, Document
<1>2. /\ memHead = runHead /\ memHead \in Heads /\ NoHead \notin Heads /\ reviewed \subseteq Heads
      /\ RequiredGates = {Review, Test, Document} /\ (pc = "repairing" => cur = CI)
  BY DEF Position, Candidate, TypeOK, Heads, NoHead, RequiredGates
<1>3. pc = "start" => st[Push] # "completed" /\ st[CI] \notin Parked
  BY DEF Position, Parked, Steps, Push, CI
<1>. USE <1>1, <1>2, <1>3 DEF InStep, AtGate, Busy, Parked, Review, Test, Document, CI, Push,
        PR, Rebase, Intent, Lint, Beyond, Stands, Ungated
<1>4. CASE Begin
    BY <1>4, DeliveredStands, MovedStands DEF Begin
<1>5. CASE DispatchFails
    BY <1>5, DeliveredStands, MovedStands DEF DispatchFails
<1>6. CASE DispatchSkip
    BY <1>6, DeliveredStands, MovedStands DEF DispatchSkip, NoHead
<1>7. CASE StartStep
    BY <1>7, DeliveredStands, MovedStands DEF StartStep
<1>8. CASE LoopEnds
    BY <1>8, DeliveredStands, MovedStands DEF LoopEnds
<1>9. CASE RebaseMoves
    BY <1>9, DeliveredStands, MovedStands DEF RebaseMoves, NewCommit, NoCommit, promoteRunHead,
     NoHead
<1>10. CASE CommitFixes
    BY <1>10, DeliveredStands, MovedStands DEF CommitFixes, AdoptWork, NewCommit, NoCommit,
     promoteRunHead, NoHead, Continuous, IsAncestor, CommittingPass
<1>11. CASE GuardRejectsFix
    BY <1>11, DeliveredStands, MovedStands DEF GuardRejectsFix, Continuous, IsAncestor
<1>12. CASE PushCommits
    BY <1>12, DeliveredStands, MovedStands DEF PushCommits, Continuous, IsAncestor, NewCommit,
     NoCommit
<1>13. CASE PushPublishes
    BY <1>13, DeliveredStands, MovedStands DEF PushPublishes, ReviewApproves, NoHead, IsAncestor
<1>14. CASE PushRecords
  BY <1>14 DEF PushRecords, PushTurn, promoteRunHead
<1>15. CASE PROpens
    BY <1>15, DeliveredStands, MovedStands DEF PROpens, Continuous, IsAncestor
<1>16. CASE CIPolls
    BY <1>16, DeliveredStands, MovedStands DEF CIPolls, UpdateRunPRState, monotonicPRState,
     InProgress, Active, TerminalPR, Continuous, IsAncestor
<1>17. CASE CIStartsRepair
    BY <1>17, DeliveredStands, MovedStands DEF CIStartsRepair, Continuous, IsAncestor
<1>18. CASE CIRepairs
  <2>1. /\ promoteRunHead(wt') /\ memHead' = wt' /\ pc = "repairing" /\ pc' \in {"settled", "proposing"}
        /\ UNCHANGED <<cur, st, remote, reviewed, prevHead, recovered>>
    BY <1>18 DEF CIRepairs, AdoptWork
  <2>2. wt' > memHead
    <3>1. memHead <= wt /\ wt <= commits /\ wt \in Nat /\ memHead \in Nat /\ commits \in Nat
      BY DEF Grows, TypeOK, Heads
    <3>2. wt' = commits + 1 \/ (wt' = wt /\ wt # memHead)
      BY <1>18 DEF CIRepairs, AdoptWork, NewCommit
    <3>. QED
      BY <3>1, <3>2
  <2>3. st[Push] = "completed" => Moved'
    <3>1. SUFFICES ASSUME st[Push] = "completed" PROVE Moved'
      OBVIOUS
    <3>2. st[Review] = "completed"
      BY <2>1, <3>1
    <3>3. cert'[Review] = NoHead /\ memHead' # prevHead
      BY <2>1, <2>2, <3>2 DEF promoteRunHead, Grows, TypeOK, Heads
    <3>. QED
      BY <2>1, <3>2, <3>3 DEF Moved
  <2>. QED
    BY <2>1, <2>3
<1>19. CASE CIRepairsNothing
    BY <1>19, DeliveredStands, MovedStands DEF CIRepairsNothing
<1>20. CASE StepErrs
    BY <1>20, DeliveredStands, MovedStands DEF StepErrs
<1>21. CASE SeatBlocks
    BY <1>21, DeliveredStands, MovedStands DEF SeatBlocks
<1>22. CASE ReviewStops
    BY <1>22, DeliveredStands, MovedStands DEF ReviewStops, Reported, CanReport, Continuous,
     IsAncestor, RecordRound, NoHead
<1>23. CASE AutoFix
    BY <1>23, DeliveredStands, MovedStands DEF AutoFix, RecordRound, NoHead, CanReport,
     Continuous, IsAncestor
<1>24. CASE Park
    BY <1>24, DeliveredStands, MovedStands DEF Park, Reported, CanReport, Continuous,
     IsAncestor, RecordRound, NoHead
<1>25. CASE StepDone
    BY <1>25, DeliveredStands, MovedStands DEF StepDone, CompleteStep, NoHead, RecordRound,
     CanReport, Continuous, IsAncestor
<1>26. CASE TakeRuling
    BY <1>26, DeliveredStands, MovedStands DEF TakeRuling, WaitEnds
<1>27. CASE CancelWait
    BY <1>27, DeliveredStands, MovedStands DEF CancelWait, WaitEnds
<1>28. CASE ReconcileFatal
    BY <1>28, DeliveredStands, MovedStands DEF ReconcileFatal, Continuous, IsAncestor, WaitEnds
<1>29. CASE Reconcile
    BY <1>29, DeliveredStands, MovedStands DEF Reconcile, UpdateRunPRState, monotonicPRState,
     InProgress, Active, TerminalPR, Continuous, IsAncestor
<1>30. CASE Claim
    BY <1>30, DeliveredStands, MovedStands DEF Claim, WaitEnds
<1>31. CASE ClearAwaiting
    BY <1>31, DeliveredStands, MovedStands DEF ClearAwaiting
<1>32. CASE ResolveApprove
  <2>1. CASE atGate = TRUE
    BY <1>32, <2>1 DEF ResolveApprove, NoCandidate, LeaveGate, CompleteStep, Grant
  <2>2. CASE atGate = FALSE
    BY <1>32, <2>2, DeliveredStands, MovedStands DEF ResolveApprove, NoCandidate, LeaveGate, CompleteStep
  <2>. QED
    BY <2>1, <2>2 DEF TypeOK
<1>33. CASE ResolveSkip
  <2>1. CASE atGate = TRUE
    BY <1>33, <2>1 DEF ResolveSkip, LeaveGate, Grant
  <2>2. CASE atGate = FALSE
    BY <1>33, <2>2, DeliveredStands, MovedStands DEF ResolveSkip, LeaveGate
  <2>. QED
    BY <2>1, <2>2 DEF TypeOK
<1>34. CASE ResolveFails
    BY <1>34, DeliveredStands, MovedStands DEF ResolveFails, NoCandidate, NoHead
<1>35. CASE ResolveFix
  <2>1. CASE atGate = TRUE
    BY <1>35, <2>1 DEF ResolveFix, Grant
  <2>2. CASE atGate = FALSE
    BY <1>35, <2>2, DeliveredStands, MovedStands DEF ResolveFix
  <2>. QED
    BY <2>1, <2>2 DEF TypeOK
<1>36. CASE RestartStale
    BY <1>36, DeliveredStands, MovedStands DEF RestartStale, StaleGates, RequiredGates,
     ResetStepsFrom, NoHead, MinOf, ForgetStep
<1>37. CASE RestartRequested
    BY <1>37, DeliveredStands, MovedStands DEF RestartRequested, StaleGates, RequiredGates,
     ResetStepsFrom, NoHead, ForgetStep
<1>38. CASE NextStep
  <2>1. Moved => memHead # prevHead /\ StaleGates # {}
    BY DEF Moved, StaleGates
  <2>2. ~Moved /\ cur' = cur + 1 /\ pc' = "dispatch" /\ pc = "returned"
        /\ UNCHANGED <<st, cert, memHead, remote, reviewed, recovered>>
    BY <1>38, <2>1 DEF NextStep
  <2>3. Delivered => Delivered' /\ remote \in reviewed
    BY <2>2 DEF Delivered, StaleGates
  <2>4. CASE cur = Push
    BY <2>2, <2>3, <2>4 DEF PushTurn
  <2>5. CASE cur # Push
    BY <2>2, <2>3, <2>5
  <2>. QED
    BY <2>4, <2>5
<1>39. CASE SkipRest
  <2>1. cur = Rebase /\ pc' = "completing" /\ st'[Push] = "skipped"
    BY <1>39 DEF SkipRest, Grant, Steps
  <2>. QED
    BY <2>1
<1>40. CASE CompleteRun
    BY <1>40, DeliveredStands, MovedStands DEF CompleteRun, TerminalHead, IsAncestor,
     promoteRunHead, NoHead
<1>41. CASE FailRun
    BY <1>41, DeliveredStands, MovedStands DEF FailRun, TerminalHead, IsAncestor,
     promoteRunHead, NoHead
<1>42. CASE ResumeReconciles
    BY <1>42, DeliveredStands, MovedStands DEF ResumeReconciles, UpdateRunPRState,
     monotonicPRState, InProgress, Active, TerminalPR, Continuous, IsAncestor, WaitEnds
<1>43. CASE ResumeFatal
    BY <1>43, DeliveredStands, MovedStands DEF ResumeFatal, Continuous, IsAncestor, WaitEnds
<1>44. CASE ResumeWaits
    BY <1>44, DeliveredStands, MovedStands DEF ResumeWaits
<1>45. CASE \E a \in Rulings : Respond(a)
    BY <1>45, DeliveredStands, MovedStands DEF Respond
<1>46. CASE Crash
    BY <1>46, DeliveredStands, MovedStands DEF Crash
<1>47. CASE RecoverGate
  <2>1. PICK g \in Steps : GateAt(g) /\ cur' = g
    BY <1>47 DEF RecoverGate
  <2>2. recovered = TRUE /\ pc' = "resuming" /\ UNCHANGED <<st, cert, memHead, remote, reviewed, recovered>>
    BY <1>47 DEF RecoverGate, Grant
  <2>3. st[Push] = "completed" /\ g > Push => st[CI] \in Parked
    BY <2>1 DEF GateAt, Steps
  <2>4. st[CI] \in Parked /\ st[Push] = "completed" => st[Review] = "completed" /\ remote \in reviewed
    OBVIOUS
  <2>. QED
    BY <2>1, <2>2, <2>3, <2>4
<1>48. CASE RecoverFails
    BY <1>48, DeliveredStands, MovedStands DEF RecoverFails, InProgress, Active
<1>49. CASE RecoverNothing
    BY <1>49, DeliveredStands, MovedStands DEF RecoverNothing, Active
<1>50. CASE (\E c \in Causes : CancelRun(c)) \/ AgentLeavesWork \/ Clobber \/ ForgeMoves \/ Over
  <2>1. UNCHANGED <<cert, cur, memHead, pc, prevHead, recovered, remote, reviewed, st, waiting>>
        BY <1>50 DEF CancelRun, AgentLeavesWork, NewCommit, Clobber, ForgeMoves, TerminalPR,
       Over
    <2>. QED BY <2>1 DEF Delivered, StaleGates, RequiredGates, Moved, NoHead
<1>51. CASE UNCHANGED vars
  BY <1>51 DEF Delivered, StaleGates, RequiredGates, Moved, NoHead
<1>. QED
    BY <1>4, <1>5, <1>6, <1>7, <1>8, <1>9, <1>10, <1>11, <1>12, <1>13, <1>14, <1>15, <1>16,
     <1>17, <1>18, <1>19, <1>20, <1>21, <1>22, <1>23, <1>24, <1>25, <1>26, <1>27, <1>28, <1>29,
     <1>30, <1>31, <1>32, <1>33, <1>34, <1>35, <1>36, <1>37, <1>38, <1>39, <1>40, <1>41, <1>42,
     <1>43, <1>44, <1>45, <1>46, <1>47, <1>48, <1>49, <1>50, <1>51 DEF Next, Executor,
     Environment

\* Nothing is published when a run starts.
LEMMA InitDelivery == Init => DeliveryInv
<1>. SUFFICES ASSUME Init
              PROVE  DeliveryInv
  OBVIOUS
<1>1. Grows
  BY DEF Init, Grows
<1>2. Grant
  BY DEF Init, Grant
<1>3. Ungated /\ PushTurn /\ Beyond
  BY DEF Init, Ungated, PushTurn, Beyond, Parked, Steps, Push, PR, CI, Busy, InStep, AtGate
<1>. QED
  BY <1>1, <1>2, <1>3 DEF DeliveryInv

\* Every step keeps DeliveryInv.
LEMMA NextDelivery ==
    ASSUME IInv, DeliveryInv, [Next]_vars
    PROVE  DeliveryInv'
<1>1. Grows' /\ Grant' /\ Ungated'
  BY GrowsStep, GrantStep, UngatedStep DEF IInv, DeliveryInv
<1>2. PushTurn' /\ Beyond'
  BY PushTurnStep, BeyondStep DEF IInv, DeliveryInv
<1>. QED
  BY <1>1, <1>2 DEF DeliveryInv

\* DeliveryInv is an invariant of every behaviour of the executor.
THEOREM DeliveryInvHolds == Spec => []DeliveryInv
<1>1. Init => DeliveryInv
  BY InitDelivery
<1>2. IInv /\ DeliveryInv /\ [Next]_vars => DeliveryInv'
  BY NextDelivery
<1>. QED
  BY <1>1, <1>2, IInvHolds, PTL DEF Spec

\* Whatever crashes, recoveries, repairs and restarts there were, what a
\* completing run has published was examined by a completed review.
THEOREM PublishedIsReviewed == Spec => []PublishedWasReviewed
<1>1. DeliveryInv => PublishedWasReviewed
  BY DEF DeliveryInv, Beyond, PublishedWasReviewed
<1>. QED
  BY <1>1, DeliveryInvHolds, PTL

\* A run that no crash interrupted and that completes with a push behind it has
\* published exactly its head, and every completed required gate certifies it.
THEOREM DeliveryIsCertified == Spec => [](crashes = 0 => DeliveredHeadCertified)
<1>1. DeliveryInv => (crashes = 0 => DeliveredHeadCertified)
  BY DEF DeliveryInv, Grant, Beyond, Delivered, DeliveredHeadCertified
<1>. QED
  BY <1>1, DeliveryInvHolds, PTL

-----------------------------------------------------------------------------
(* The abstract promise.                                                   *)

\* What ReviewedPush speaks of.
promised == <<commits, lineage, runHead, approved, reviewed, remote>>

\* The commits there are, with one more or as they were.
Grown ==
    \/ UNCHANGED <<commits, lineage>>
    \/ /\ commits < MaxHead /\ commits' = commits + 1
       /\ \E base \in SUBSET Heads : lineage' = [lineage EXCEPT ![commits + 1] = base \cup {commits + 1}]

\* A head is recorded as promoteRunHead records it, on the commits there are or with a new one.
LEMMA WorkKeepsPromise ==
    ASSUME TypeOK, Grown, runHead' \in Heads, approved' = (IF runHead' = runHead THEN approved ELSE NoHead),
           UNCHANGED <<reviewed, remote>>
    PROVE  Promise!Work
<1>1. CASE UNCHANGED <<commits, lineage>>
  BY <1>1 DEF Promise!Work
<1>2. CASE /\ commits < MaxHead /\ commits' = commits + 1
           /\ \E base \in SUBSET Heads : lineage' = [lineage EXCEPT ![commits + 1] = base \cup {commits + 1}]
  <2>1. commits + 1 \in Heads \ (1..commits) /\ 1..commits' = (1..commits) \cup {commits + 1}
    BY <1>2, MaxHeadAssumption DEF TypeOK, Heads
  <2>. QED
    BY <1>2, <2>1 DEF Promise!Work
<1>. QED
  BY <1>1, <1>2 DEF Grown

\* NewCommit and NoCommit, on an ancestry of commits.
LEMMA CommitGrows ==
    ASSUME TypeOK, NEW base \in SUBSET Heads, NewCommit(base) \/ NoCommit
    PROVE  Grown
  BY DEF NewCommit, NoCommit, Grown

\* A completed review grants the recorded head.
LEMMA CompleteKeepsPromise ==
    ASSUME TypeOK, NEW status, NEW h \in {NoHead, runHead}, CompleteStep(status, h),
           UNCHANGED <<commits, lineage, runHead, remote>>
    PROVE  Promise!Examine \/ UNCHANGED promised
  BY DEF CompleteStep, Promise!Examine, promised

LEMMA StepKeepsPromise ==
    ASSUME IInv, DeliveryInv, [Next]_vars
    PROVE  Promise!PromiseNext \/ UNCHANGED promised
<1>0. TypeOK /\ Candidate /\ lineage[wt] \in SUBSET Heads /\ wt \in Heads /\ memHead = runHead /\ runHead \in Heads
  BY DEF IInv, TypeOK, Candidate
<1>. USE DEF Promise!PromiseNext
<1>1. CASE RebaseMoves
  <2>1. Grown /\ wt' \in Heads
    BY <1>0, <1>1, CommitGrows, CommitTypes DEF RebaseMoves, NoCommit
  <2>. QED
    BY <1>0, <1>1, <2>1, WorkKeepsPromise DEF RebaseMoves, promoteRunHead
<1>2. CASE CommitFixes
  <2>1. Grown /\ wt' \in Heads /\ promoteRunHead(wt')
    BY <1>0, <1>2, CommitGrows, AdoptTypes DEF CommitFixes, AdoptWork
  <2>. QED
    BY <1>0, <1>2, <2>1, WorkKeepsPromise DEF CommitFixes, promoteRunHead
<1>3. CASE PushCommits
  <2>1. Grown
    BY <1>0, <1>3, CommitGrows DEF PushCommits
  <2>. QED
    BY <1>0, <1>3, <2>1, WorkKeepsPromise DEF PushCommits
<1>4. CASE PushPublishes
  <2>1. wt \in 1..commits
    BY <1>0 DEF DeliveryInv, Grows, TypeOK, Heads
  <2>. QED
    BY <1>4, <2>1 DEF PushPublishes, ReviewApproves, IsAncestor, Promise!Deliver
<1>5. CASE PushRecords
  <2>1. remote \in Heads
    BY <1>0, <1>5 DEF PushRecords, TypeOK, Candidate
  <2>. QED
    BY <1>0, <1>5, <2>1, WorkKeepsPromise DEF PushRecords, promoteRunHead, Grown
<1>6. CASE CIRepairs
  <2>1. CASE AdoptWork
    <3>1. Grown /\ wt' \in Heads /\ promoteRunHead(wt')
      BY <1>0, <2>1, CommitGrows, AdoptTypes DEF AdoptWork
    <3>. QED
      BY <1>0, <1>6, <3>1, WorkKeepsPromise DEF CIRepairs, promoteRunHead
  <2>2. CASE NewCommit({}) /\ wt' = commits + 1 /\ promoteRunHead(wt')
    <3>1. Grown /\ wt' \in Heads
      BY <1>0, <2>2, CommitGrows, CommitTypes
    <3>. QED
      BY <1>0, <1>6, <2>2, <3>1, WorkKeepsPromise DEF CIRepairs, promoteRunHead
  <2>. QED
    BY <1>6, <2>1, <2>2 DEF CIRepairs
<1>7. CASE StepDone
  <2>1. \E status \in {"completed", "skipped"}, h \in {NoHead, runHead} : CompleteStep(status, h)
    BY <1>0, <1>7 DEF StepDone
  <2>. QED
    BY <1>0, <1>7, <2>1, CompleteKeepsPromise DEF StepDone
<1>8. CASE ResolveApprove
  <2>1. CASE cur = Review
    <3>1. roundHead \in {NoHead, runHead}
      BY <1>0, <1>8, <2>1 DEF ResolveApprove, IInv, Position, AtGate, Candidate, Review, CI
    <3>. QED
      BY <1>0, <1>8, <3>1, CompleteKeepsPromise DEF ResolveApprove
  <2>2. CASE cur # Review
    BY <1>8, <2>2 DEF ResolveApprove, CompleteStep, promised
  <2>. QED
    BY <2>1, <2>2
<1>9. CASE RestartStale
  BY <1>9 DEF RestartStale, ForgetStep, Promise!Revoke, promised
<1>10. CASE CompleteRun \/ FailRun
  BY <1>0, <1>10, WorkKeepsPromise DEF CompleteRun, FailRun, TerminalHead, promoteRunHead, Grown, promised
<1>11. CASE AgentLeavesWork
  <2>1. Grown
    BY <1>0, <1>11, CommitGrows DEF AgentLeavesWork, Grown
  <2>. QED
    BY <1>0, <1>11, <2>1, WorkKeepsPromise DEF AgentLeavesWork
<1>12. CASE Clobber
  BY <1>0, <1>12, CommitGrows, WorkKeepsPromise DEF Clobber
<1>13. CASE Begin \/ DispatchFails \/ DispatchSkip \/ StartStep \/ LoopEnds \/ GuardRejectsFix
         \/ PROpens \/ CIPolls \/ CIStartsRepair \/ CIRepairsNothing \/ StepErrs \/ SeatBlocks
         \/ ReviewStops \/ AutoFix \/ Park \/ TakeRuling \/ CancelWait \/ ReconcileFatal \/ Reconcile
         \/ Claim \/ ClearAwaiting \/ ResolveSkip \/ ResolveFails \/ ResolveFix \/ RestartRequested
         \/ NextStep \/ SkipRest \/ ResumeReconciles \/ ResumeFatal \/ ResumeWaits
         \/ (\E a \in Rulings : Respond(a)) \/ (\E c \in Causes : CancelRun(c)) \/ ForgeMoves \/ Crash
         \/ RecoverGate \/ RecoverFails \/ RecoverNothing \/ Over
  BY <1>13 DEF promised, Begin, DispatchFails, DispatchSkip, StartStep, LoopEnds, GuardRejectsFix,
     PROpens, CIPolls, CIStartsRepair, CIRepairsNothing, StepErrs, SeatBlocks, ReviewStops, AutoFix,
     Park, TakeRuling, CancelWait, ReconcileFatal, Reconcile, Claim, ClearAwaiting, ResolveSkip,
     ResolveFails, ResolveFix, RestartRequested, NextStep, SkipRest, ResumeReconciles, ResumeFatal,
     ResumeWaits, Respond, CancelRun, ForgeMoves, Crash, RecoverGate, RecoverFails, RecoverNothing,
     Over
<1>14. CASE UNCHANGED vars
  BY <1>14 DEF promised
<1>. QED
  BY <1>1, <1>2, <1>3, <1>4, <1>5, <1>6, <1>7, <1>8, <1>9, <1>10, <1>11, <1>12, <1>13, <1>14 DEF Next,
     Executor, Environment

\* The executor, its rows and the steps, with every restart, crash and recovery,
\* implement the promise: a review grants the recorded head, a head that moves
\* loses the grant, and the remote is moved only to what a granted head underlies.
THEOREM PipelineKeepsPromise == Spec => KeepsPromise
<1>1. Init => Promise!PromiseInit
  <2>. SUFFICES ASSUME Init
                PROVE  Promise!PromiseInit
    OBVIOUS
  <2>1. 1 \in Heads /\ 1..1 = {1}
    BY MaxHeadAssumption DEF Heads
  <2>. QED
    BY <2>1 DEF Init, Promise!PromiseInit
<1>2. IInv /\ DeliveryInv /\ [Next]_vars => [Promise!PromiseNext]_(Promise!promiseVars)
  <2>. SUFFICES ASSUME IInv, DeliveryInv, [Next]_vars
                PROVE  Promise!PromiseNext \/ UNCHANGED Promise!promiseVars
    OBVIOUS
  <2>1. UNCHANGED promised => UNCHANGED Promise!promiseVars
    BY DEF promised, Promise!promiseVars
  <2>. QED
    BY <2>1, StepKeepsPromise
<1>. QED
  BY <1>1, <1>2, IInvHolds, DeliveryInvHolds, PTL DEF Spec, KeepsPromise, Promise!PromiseSpec

\* Whatever any executor, recovered or not, has left on the remote descends
\* from a commit that a completed review examined, for as long as it stands there.
THEOREM RemoteDescends == Spec => []Promise!DeliveredDescends
<1>. DEFINE Inv == Promise!DeliveredDescends
<1>1. Init => Inv
  BY DEF Init, Promise!DeliveredDescends
<1>2. IInv /\ DeliveryInv /\ Inv /\ [Next]_vars => Inv'
  <2>. SUFFICES ASSUME IInv, DeliveryInv, Inv, [Next]_vars
                PROVE  Inv'
    OBVIOUS
  <2>0. TypeOK
    BY DEF IInv
  <2>1. CASE Promise!Work
    <3>1. 1..commits \subseteq 1..commits'
      BY <2>0, <2>1 DEF Promise!Work, TypeOK, Heads
    <3>2. \A h \in 1..commits : lineage'[h] = lineage[h]
      <4>1. CASE lineage' = lineage
        BY <4>1
      <4>2. ASSUME NEW new \in Heads \ (1..commits), NEW base \in SUBSET Heads,
                   lineage' = [lineage EXCEPT ![new] = base \cup {new}]
            PROVE  \A h \in 1..commits : lineage'[h] = lineage[h]
        <5>1. \A h \in 1..commits : h \in Heads /\ h # new
          BY <2>0, <4>2, MaxHeadAssumption DEF TypeOK, Heads
        <5>2. DOMAIN lineage = Heads
          BY <2>0 DEF TypeOK
        <5>. QED
          BY <4>2, <5>1, <5>2
      <4>. QED
        BY <2>1, <4>1, <4>2 DEF Promise!Work
    <3>. QED
      BY <2>1, <3>1, <3>2 DEF Promise!Work, Promise!DeliveredDescends
  <2>2. CASE Promise!Examine
    BY <2>2 DEF Promise!Examine, Promise!DeliveredDescends
  <2>3. CASE Promise!Revoke
    BY <2>3 DEF Promise!Revoke, Promise!DeliveredDescends
  <2>4. CASE Promise!Deliver
    <3>1. approved \in reviewed
      BY <2>4 DEF Promise!Deliver, IInv, AuthorityCoversGates
    <3>. QED
      BY <2>4, <3>1 DEF Promise!Deliver, Promise!DeliveredDescends
  <2>5. CASE UNCHANGED promised
    BY <2>5 DEF promised, Promise!DeliveredDescends
  <2>. QED
    BY <2>1, <2>2, <2>3, <2>4, <2>5, StepKeepsPromise DEF Promise!PromiseNext
<1>. QED
  BY <1>1, <1>2, IInvHolds, DeliveryInvHolds, PTL DEF Spec

-----------------------------------------------------------------------------
(* Config: what a run obeys.                                               *)
(*                                                                         *)
(* That a pin is fresh is not inductive: the ref it is read from belongs   *)
(* to all runs.  A start that has not pinned has every tip it may be told  *)
(* to fetch among what is live for it, so whichever run moves the ref,     *)
(* the ref stays live for it too (SeesTips).                               *)

\* What the default branch's pair of files says to those that trust it, and the chain of agents
\* that follows; neither needs more of the state than the commit's files.
TrustedSay(pair) == IF ~PairPresent(pair) \/ ~PairParses(pair) THEN EmptyFile ELSE PairConfig(pair)
SettingsOf(g, pushed, pair) ==
    Merge(LoadGlobal(g), EffectiveRepoConfig(PairConfig(pushed), TrustedSay(pair), TrustedSay(pair).allow))
ChainOf(g, pushed, pair, path) == ResolveAgent(SettingsOf(g, pushed, pair).agents, Paths[path])

\* What a pair of files forbids its agents.
OptOutHolds(pair, g, chain) ==
    PairConfig(pair).gates["disableProjectSettings"] = "on" =>
        \A a \in Range(chain) : a \in {"claude", "codex"} \ GlobalFiles[g].overridden

Commits == DOMAIN hosted.files

World ==
    /\ hosted.files \in Seq(TrustedPairs)
    /\ hosted.tip \in [Urls -> Commits]
    /\ cloneOrigin \in Urls
    /\ globalFile \in DOMAIN GlobalFiles
    /\ DOMAIN attempt = ConfigRuns
    /\ DOMAIN hosted = {"files", "tip"}

\* An attempt that has begun.
AttemptFields == {"pc", "recovering", "url", "pushed", "global", "path", "pinned", "chain", "session", "live"}
Shape(a, files) ==
    /\ DOMAIN a = AttemptFields
    /\ a.pc \in {"begun", "fetched", "pinned", "running", "edited", "interrupted"}
    /\ a.pushed \in PushedPairs
    /\ a.live \subseteq DOMAIN files

\* Until it pins, all that the default branch is or becomes at a remote it may be told of, and all
\* that a fetch of another run may leave in the shared ref, is live for it.
SeesTips(a, urls, tips, ref) ==
    /\ a.pc = "begun" => a.url \in urls
    /\ a.pc \in {"begun", "fetched"} => tips \subseteq a.live
    /\ a.pc = "fetched" => ref \in a.live
    /\ a.pc = "pinned" => a.pinned \in a.live \cup {NoPin}
    /\ a.recovering = TRUE => a.global \in DOMAIN GlobalFiles

Governed(a, files) ==
    a.pc \in {"running", "edited"} =>
        /\ a.global \in DOMAIN GlobalFiles
        /\ a.pinned \in a.live
        /\ PairParses(files[a.pinned])
        /\ OptOutHolds(files[a.pinned], a.global, a.chain)
        /\ a.session = "none" \/ a.session \in Range(a.chain)
        /\ a.pc = "running" => a.chain = ChainOf(a.global, a.pushed, files[a.pinned], a.path)

Standing(a, files, urls, tips, ref) ==
    a \in {Idle, Aborted} \/ (Shape(a, files) /\ SeesTips(a, urls, tips, ref) /\ Governed(a, files))

Foretold(p, files) ==
    p = NoPlan \/ /\ p.at[1] \in DOMAIN files
                  /\ p.chain = ChainOf(p.at[3], p.at[2], files[p.at[1]], p.at[4])

Attempts == \A r \in ConfigRuns : Standing(attempt[r], hosted.files, Sources, Tips, tracking)

ConfigInv == World /\ Attempts /\ Foretold(plan, hosted.files)

-----------------------------------------------------------------------------
(* Reading a file.                                                         *)

LEMMA Capped ==
    ASSUME NEW v \in Int, NEW w \in 0..MaxCIRerunTransient
    PROVE  RerunBudget(v, w) \in 0..MaxCIRerunTransient
<1>1. Max({v, 0}) \in Int /\ Max({v, 0}) >= 0 BY DEF Max
<1>2. ASSUME NEW m \in Int, m >= 0 PROVE Min({m, 5}) \in 0..5 BY <1>2 DEF Min
<1>3. Min({Max({v, 0}), 5}) \in 0..5 BY <1>1, <1>2
<1> QED BY <1>3 DEF RerunBudget, MaxCIRerunTransient

LEMMA SaidShapes ==
    ASSUME NEW p \in DOMAIN Pairs
    PROVE  /\ RepoFile(PairConfig(p))
           /\ RepoFile(TrustedSay(p))
           /\ PairParses(p) => TrustedSay(p) = PairConfig(p)
<1>1. RepoFile(EmptyFile)
  <2>1. RepoFile(Absent) BY DEF Absent, RepoFile, NotSet
  <2> QED BY <2>1 DEF EmptyFile, RepoFile
<1>2. RepoFile(Pairs[p][1]) /\ RepoFile(Pairs[p][2]) BY FilesAssumption
<1>3. Range(Pairs[p]) = {Pairs[p][1], Pairs[p][2]}
  <2>1. Pairs[p] = <<Pairs[p][1], Pairs[p][2]>> BY FilesAssumption
  <2> QED BY <2>1 DEF Range
<1>4. RepoFile(PairConfig(p)) BY <1>1, <1>2 DEF PairConfig
<1>5. ~PairPresent(p) => PairConfig(p) = EmptyFile BY <1>3 DEF PairConfig, PairPresent
<1> QED BY <1>1, <1>4, <1>5 DEF TrustedSay

\* The branch's preferences, the default branch's rules.
LEMMA Sifted ==
    ASSUME NEW own, NEW trusted, NEW allow \in BOOLEAN, RepoFile(own), RepoFile(trusted)
    PROVE  LET eff == EffectiveRepoConfig(own, trusted, allow)
           IN  /\ eff.gates = trusted.gates /\ eff.rerun = trusted.rerun
               /\ ~allow => eff.commands = trusted.commands /\ eff.agents = trusted.agents
BY DEF EffectiveRepoConfig, RepoFile, Absent

\* What does not depend on what the branch pushed.
LEMMA Ruled ==
    ASSUME NEW g, NEW pushed \in DOMAIN Pairs, NEW pair \in DOMAIN Pairs
    PROVE  LET is == SettingsOf(g, pushed, pair)
               say == TrustedSay(pair)
           IN  /\ is.gates = [f \in GateFields |-> Or(say.gates[f], DefaultGates[f])]
               /\ is.rerun = RerunBudget(say.rerun, RerunBudget(LoadGlobal(g).rerun, 0))
               /\ is.localRoot = Or(LoadGlobal(g).localRoot, "default")
               /\ is.unneutralized = LoadGlobal(g).overridden
               /\ ~say.allow => /\ is.commands = say.commands
                                /\ is.agents = IF say.agents # <<>> THEN say.agents
                                               ELSE LoadGlobal(g).agents
<1> DEFINE own == PairConfig(pushed)
           say == TrustedSay(pair)
           eff == EffectiveRepoConfig(own, say, say.allow)
<1>1. RepoFile(own) /\ RepoFile(say) BY SaidShapes
<1>2. say.allow \in BOOLEAN BY <1>1 DEF RepoFile
<1>3. /\ eff.gates = say.gates /\ eff.rerun = say.rerun
      /\ ~say.allow => eff.commands = say.commands /\ eff.agents = say.agents
  BY <1>1, <1>2, Sifted
<1>4. SettingsOf(g, pushed, pair) = Merge(LoadGlobal(g), eff) BY DEF SettingsOf
<1> HIDE DEF eff, say
<1> QED BY <1>3, <1>4 DEF Merge, say

\* The operator's file, when there is one.
LEMMA Loaded ==
    ASSUME NEW g \in DOMAIN GlobalFiles
    PROVE  LoadGlobal(g).rerun \in Int /\ LoadGlobal(g).overridden = GlobalFiles[g].overridden
<1>1. OperatorFile(GlobalFiles[g]) BY FilesAssumption
<1> DEFINE file == GlobalFiles[g]
<1>2. ASSUME file.is = "absent" PROVE LoadGlobal(g).rerun \in Int /\ LoadGlobal(g).overridden = file.overridden
  <2>1. file.overridden = {} BY <1>1, <1>2 DEF OperatorFile, Present
  <2>2. EmptyGlobal.rerun \in Int /\ EmptyGlobal.overridden = {} BY DEF EmptyGlobal, NotSet
  <2>3. DefaultGlobal.rerun = EmptyGlobal.rerun /\ DefaultGlobal.overridden = EmptyGlobal.overridden
    BY DEF DefaultGlobal, EmptyGlobal
  <2>4. LoadGlobal(g) = DefaultGlobal BY <1>2 DEF LoadGlobal
  <2> QED BY <2>1, <2>2, <2>3, <2>4
<1>3. ASSUME file.is # "absent" PROVE LoadGlobal(g).rerun \in Int /\ LoadGlobal(g).overridden = file.overridden
  <2>1. LoadGlobal(g) = [file EXCEPT !.agents = IF @ = <<>> THEN <<"auto">> ELSE @]
    BY <1>3 DEF LoadGlobal
  <2>2. LoadGlobal(g).rerun = file.rerun /\ LoadGlobal(g).overridden = file.overridden
    BY <1>1, <2>1 DEF OperatorFile, EmptyGlobal
  <2> QED BY <1>1, <2>2 DEF OperatorFile
<1> QED BY <1>2, <1>3

LEMMA Judged ==
    ASSUME World, NEW c \in Commits, NEW g, NEW pushed
    PROVE  /\ c # NoPin /\ hosted.files[c] \in TrustedPairs /\ hosted.files[c] \in DOMAIN Pairs
           /\ Resolved(g, pushed, c) = SettingsOf(g, pushed, hosted.files[c])
<1>1. hosted.files \in Seq(TrustedPairs) BY DEF World
<1>2. c \in 1..Len(hosted.files) BY <1>1 DEF Commits
<1>3. c # NoPin BY <1>2 DEF NoPin
<1>4. hosted.files[c] \in TrustedPairs BY <1>1, <1>2
<1>5. LoadTrusted(c) = TrustedSay(hosted.files[c]) BY <1>3 DEF LoadTrusted, TrustedSay, TrustedPair
<1> QED BY <1>3, <1>4, <1>5, FilesAssumption DEF Resolved, SettingsOf

\* What a launch decides is what the invariant keeps.
LEMMA Decided ==
    ASSUME World, NEW c \in Commits, NEW g \in DOMAIN GlobalFiles, NEW pushed \in PushedPairs, NEW path
    PROVE  LET out == Outcome(g, pushed, c, path)
               pair == hosted.files[c]
           IN  /\ out.chain = ChainOf(g, pushed, pair, path)
               /\ out.runs => PairParses(pair) /\ OptOutHolds(pair, g, out.chain)
<1> DEFINE out == Outcome(g, pushed, c, path)
           pair == hosted.files[c]
           cfg == SettingsOf(g, pushed, pair)
<1>1. pair \in DOMAIN Pairs /\ Resolved(g, pushed, c) = cfg BY Judged
<1>2. pushed \in DOMAIN Pairs BY FilesAssumption
<1>3. out.chain = ChainOf(g, pushed, pair, path) BY <1>1 DEF Outcome, ChainOf
<1>4. ASSUME out.runs PROVE PairParses(pair) /\ OptOutHolds(pair, g, out.chain)
  <2>1. PairParses(pair) /\ EnsureGateNeutralized(out.chain, cfg)
    BY <1>1, <1>4 DEF Outcome, TrustedReadable, TrustedPair
  <2>2. TrustedSay(pair) = PairConfig(pair) BY <1>1, <2>1, SaidShapes
  <2>3. /\ cfg.gates = [f \in GateFields |-> Or(PairConfig(pair).gates[f], DefaultGates[f])]
        /\ cfg.unneutralized = GlobalFiles[g].overridden
    BY <1>1, <1>2, <2>2, Ruled, Loaded
  <2>4. "disableProjectSettings" \in GateFields BY DEF GateFields
  <2>5. ASSUME PairConfig(pair).gates["disableProjectSettings"] = "on"
        PROVE  cfg.gates["disableProjectSettings"] = "on"
    BY <2>3, <2>4, <2>5 DEF Or, Unset
  <2> QED BY <2>1, <2>3, <2>5 DEF OptOutHolds, EnsureGateNeutralized, Neutralizes
<1> QED BY <1>3, <1>4

-----------------------------------------------------------------------------
(* What others do.                                                         *)

LEMMA Underway ==
    ASSUME NEW a, NEW files, NEW urls, NEW tips, NEW ref, Standing(a, files, urls, tips, ref),
           a.pc \notin {"idle", "aborted"}
    PROVE  Shape(a, files) /\ SeesTips(a, urls, tips, ref) /\ Governed(a, files)
<1>1. Idle.pc = "idle" /\ Aborted.pc = "aborted" BY DEF Idle, Aborted
<1> QED BY <1>1 DEF Standing

\* Commits land and a remote moves: what was read stays, and what a start may now fetch is live.
Lengthened(files, urls, tips, files2, urls2, tips2, new) ==
    /\ \A c \in DOMAIN files : c \in DOMAIN files2 /\ files2[c] = files[c]
    /\ urls \subseteq urls2
    /\ tips2 \subseteq tips \cup new
    /\ new \subseteq DOMAIN files2
Seeing(a, new) == IF a.pc \in {"begun", "fetched"} THEN [a EXCEPT !.live = @ \cup new] ELSE a

LEMMA Witnessed ==
    ASSUME NEW a, NEW files, NEW urls, NEW tips, NEW ref, Standing(a, files, urls, tips, ref),
           NEW files2, NEW urls2, NEW tips2, NEW new, Lengthened(files, urls, tips, files2, urls2, tips2, new)
    PROVE  Standing(Seeing(a, new), files2, urls2, tips2, ref)
<1> USE DEF Lengthened, Seeing
<1>1. CASE a \in {Idle, Aborted}
  <2>1. a.pc \notin {"begun", "fetched"} BY <1>1 DEF Idle, Aborted
  <2> QED BY <1>1, <2>1 DEF Standing
<1>2. CASE a \notin {Idle, Aborted}
  <2>1. Shape(a, files) /\ SeesTips(a, urls, tips, ref) /\ Governed(a, files)
    BY <1>2 DEF Standing
  <2>2. CASE a.pc \in {"begun", "fetched"}
    <3> DEFINE b == [a EXCEPT !.live = @ \cup new]
    <3>1. /\ DOMAIN b = AttemptFields
          /\ b.pc = a.pc /\ b.url = a.url /\ b.pushed = a.pushed /\ b.live = a.live \cup new
          /\ b.recovering = a.recovering /\ b.global = a.global
      BY <2>1 DEF Shape, AttemptFields
    <3> HIDE DEF b
    <3>2. Shape(b, files2) BY <2>1, <3>1 DEF Shape
    <3>3. SeesTips(b, urls2, tips2, ref) BY <2>1, <2>2, <3>1 DEF SeesTips
    <3>4. Governed(b, files2) BY <2>2, <3>1 DEF Governed
    <3>5. Standing(b, files2, urls2, tips2, ref) BY <3>2, <3>3, <3>4 DEF Standing
    <3> QED BY <2>2, <3>5 DEF b
  <2>3. CASE a.pc \notin {"begun", "fetched"}
    <3>1. Shape(a, files2) BY <2>1 DEF Shape
    <3>2. SeesTips(a, urls2, tips2, ref) BY <2>1, <2>3 DEF SeesTips
    <3>3. a.live \subseteq DOMAIN files BY <2>1 DEF Shape
    <3>4. a.pinned \in a.live => files2[a.pinned] = files[a.pinned] BY <3>3
    <3>5. Governed(a, files2) BY <2>1, <3>4 DEF Governed
    <3> QED BY <2>3, <3>1, <3>2, <3>5 DEF Standing
  <2> QED BY <2>2, <2>3
<1> QED BY <1>1, <1>2

\* A fetch of one run moves the ref of all.
LEMMA RefMoves ==
    ASSUME NEW a, NEW files, NEW urls, NEW tips, NEW ref, Standing(a, files, urls, tips, ref),
           NEW new \in tips
    PROVE  Standing(a, files, urls, tips, new)
BY DEF Standing, SeesTips

\* A daemon that dies.
LEMMA CutShort ==
    ASSUME NEW a, NEW files, NEW urls, NEW tips, NEW ref, Standing(a, files, urls, tips, ref)
    PROVE  Standing(IF a.pc \in {"running", "edited"} THEN [a EXCEPT !.pc = "interrupted"]
                    ELSE IF a.pc \in {"idle", "interrupted"} THEN a ELSE Aborted,
                    files, urls, tips, ref)
<1>1. CASE a.pc \in {"running", "edited"}
  <2> DEFINE b == [a EXCEPT !.pc = "interrupted"]
  <2>1. Shape(a, files) /\ SeesTips(a, urls, tips, ref) BY <1>1, Underway
  <2>2. /\ DOMAIN b = AttemptFields
        /\ b.pc = "interrupted" /\ b.pushed = a.pushed /\ b.live = a.live
        /\ b.recovering = a.recovering /\ b.global = a.global
    BY <2>1 DEF Shape, AttemptFields
  <2> HIDE DEF b
  <2>3. Shape(b, files) BY <2>1, <2>2 DEF Shape
  <2>4. SeesTips(b, urls, tips, ref) BY <2>1, <2>2 DEF SeesTips
  <2>5. Governed(b, files) BY <2>2 DEF Governed
  <2>6. Standing(b, files, urls, tips, ref) BY <2>3, <2>4, <2>5 DEF Standing
  <2> QED BY <1>1, <2>6 DEF b
<1>2. CASE a.pc \notin {"running", "edited"} BY <1>2 DEF Standing
<1> QED BY <1>1, <1>2

-----------------------------------------------------------------------------
(* What a run does.                                                        *)

LEMMA OneMoves ==
    ASSUME Attempts, DOMAIN attempt = ConfigRuns, NEW r \in ConfigRuns, NEW new,
           Becomes(r, new), UNCHANGED <<hosted, cloneOrigin, tracking>>,
           Standing(new, hosted.files, Sources, Tips, tracking)
    PROVE  Attempts' /\ DOMAIN attempt' = ConfigRuns
<1>1. Sources' = Sources BY DEF Sources
<1>2. Tips' = Tips BY <1>1 DEF Tips
<1>3. attempt' = [attempt EXCEPT ![r] = new] BY DEF Becomes
<1>4. \A q \in ConfigRuns : attempt'[q] = IF q = r THEN new ELSE attempt[q] BY <1>3
<1>5. \A q \in ConfigRuns : Standing(attempt'[q], hosted.files, Sources, Tips, tracking)
  BY <1>4 DEF Attempts
<1>6. Attempts' BY <1>1, <1>2, <1>5 DEF Attempts
<1>7. DOMAIN attempt' = ConfigRuns BY <1>3
<1> QED BY <1>6, <1>7

\* The tips are commits.
LEMMA TipsStand == World => Tips \subseteq Commits /\ Sources \subseteq Urls
<1> SUFFICES ASSUME World PROVE Tips \subseteq Commits /\ Sources \subseteq Urls OBVIOUS
<1>1. Sources \subseteq Urls BY DEF World, Sources, GateOrigin, Urls
<1>2. \A u \in Urls : hosted.tip[u] \in Commits BY DEF World
<1> QED BY <1>1, <1>2 DEF Tips

LEMMA StartStands ==
    ASSUME World, NEW pair \in PushedPairs, NEW url \in Sources
    PROVE  Standing([NewAttempt EXCEPT !.pushed = pair, !.live = Tips, !.url = url],
                    hosted.files, Sources, Tips, tracking)
<1> DEFINE b == [NewAttempt EXCEPT !.pushed = pair, !.live = Tips, !.url = url]
<1>1. /\ DOMAIN b = AttemptFields
      /\ b.pc = "begun" /\ b.recovering = FALSE /\ b.url = url /\ b.pushed = pair /\ b.live = Tips
  BY DEF NewAttempt, AttemptFields
<1> HIDE DEF b
<1>2. Shape(b, hosted.files) BY <1>1, TipsStand DEF Shape, Commits
<1>3. SeesTips(b, Sources, Tips, tracking) BY <1>1 DEF SeesTips
<1>4. Governed(b, hosted.files) BY <1>1 DEF Governed
<1>5. Standing(b, hosted.files, Sources, Tips, tracking) BY <1>2, <1>3, <1>4 DEF Standing
<1> QED BY <1>5 DEF b

LEMMA RecoveryStands ==
    ASSUME World, NEW a, Standing(a, hosted.files, Sources, Tips, tracking), a.pc = "interrupted"
    PROVE  Standing([a EXCEPT !.pc = "begun", !.recovering = TRUE, !.url = GateOrigin,
                              !.global = globalFile, !.live = Tips, !.pinned = NoPin],
                    hosted.files, Sources, Tips, tracking)
<1> DEFINE b == [a EXCEPT !.pc = "begun", !.recovering = TRUE, !.url = GateOrigin,
                          !.global = globalFile, !.live = Tips, !.pinned = NoPin]
<1>1. Shape(a, hosted.files) BY Underway
<1>2. /\ DOMAIN b = AttemptFields
      /\ b.pc = "begun" /\ b.url = GateOrigin /\ b.pushed = a.pushed /\ b.live = Tips
      /\ b.global = globalFile
  BY <1>1 DEF Shape, AttemptFields
<1> HIDE DEF b
<1>3. Shape(b, hosted.files) BY <1>1, <1>2, TipsStand DEF Shape, Commits
<1>4. GateOrigin \in Sources /\ globalFile \in DOMAIN GlobalFiles BY DEF Sources, World
<1>5. SeesTips(b, Sources, Tips, tracking) BY <1>2, <1>4 DEF SeesTips
<1>6. Governed(b, hosted.files) BY <1>2 DEF Governed
<1>7. Standing(b, hosted.files, Sources, Tips, tracking) BY <1>3, <1>5, <1>6 DEF Standing
<1> QED BY <1>7 DEF b

LEMMA FetchStands ==
    ASSUME NEW a, NEW files, NEW urls, NEW tips, NEW ref, Standing(a, files, urls, tips, ref),
           a.pc = "begun", NEW new \in tips
    PROVE  Standing([a EXCEPT !.pc = "fetched"], files, urls, tips, new)
<1> DEFINE b == [a EXCEPT !.pc = "fetched"]
<1>1. Shape(a, files) /\ SeesTips(a, urls, tips, ref) BY Underway
<1>2. /\ DOMAIN b = AttemptFields
      /\ b.pc = "fetched" /\ b.url = a.url /\ b.pushed = a.pushed /\ b.live = a.live
      /\ b.global = a.global /\ b.recovering = a.recovering
  BY <1>1 DEF Shape, AttemptFields
<1> HIDE DEF b
<1>3. Shape(b, files) BY <1>1, <1>2 DEF Shape
<1>4. SeesTips(b, urls, tips, new) BY <1>1, <1>2 DEF SeesTips
<1>5. Governed(b, files) BY <1>2 DEF Governed
<1>6. Standing(b, files, urls, tips, new) BY <1>3, <1>4, <1>5 DEF Standing
<1> QED BY <1>6 DEF b

\* A fetch that failed pins nothing; one that did not, a ref that was live.
LEMMA PinStands ==
    ASSUME NEW a, NEW files, NEW urls, NEW tips, NEW ref, Standing(a, files, urls, tips, ref), NEW pin,
           \/ a.pc = "begun" /\ pin = NoPin
           \/ a.pc = "fetched" /\ pin = ref
    PROVE  Standing([a EXCEPT !.pc = "pinned", !.pinned = pin], files, urls, tips, ref)
<1> DEFINE b == [a EXCEPT !.pc = "pinned", !.pinned = pin]
<1>1. Shape(a, files) /\ SeesTips(a, urls, tips, ref) BY Underway
<1>2. /\ DOMAIN b = AttemptFields
      /\ b.pc = "pinned" /\ b.pinned = pin /\ b.pushed = a.pushed /\ b.live = a.live
      /\ b.global = a.global /\ b.recovering = a.recovering
  BY <1>1 DEF Shape, AttemptFields
<1> HIDE DEF b
<1>3. Shape(b, files) BY <1>1, <1>2 DEF Shape
<1>4. pin \in a.live \cup {NoPin} BY <1>1 DEF SeesTips
<1>5. SeesTips(b, urls, tips, ref) BY <1>1, <1>2, <1>4 DEF SeesTips
<1>6. Governed(b, files) BY <1>2 DEF Governed
<1>7. Standing(b, files, urls, tips, ref) BY <1>3, <1>5, <1>6 DEF Standing
<1> QED BY <1>7 DEF b

LEMMA LaunchStands ==
    ASSUME World, NEW a, Standing(a, hosted.files, Sources, Tips, tracking), a.pc = "pinned", NEW g,
           g = IF a.recovering THEN a.global ELSE globalFile, NEW path,
           Outcome(g, a.pushed, a.pinned, path).runs,
           a.session = "none" \/ a.session \in Range(Outcome(g, a.pushed, a.pinned, path).chain)
    PROVE  Standing([a EXCEPT !.pc = "running", !.global = g, !.path = path,
                              !.chain = Outcome(g, a.pushed, a.pinned, path).chain],
                    hosted.files, Sources, Tips, tracking)
<1> DEFINE out == Outcome(g, a.pushed, a.pinned, path)
           b == [a EXCEPT !.pc = "running", !.global = g, !.path = path, !.chain = out.chain]
           pair == hosted.files[a.pinned]
<1>1. Shape(a, hosted.files) /\ SeesTips(a, Sources, Tips, tracking) BY Underway
<1>2. /\ DOMAIN b = AttemptFields
      /\ b.pc = "running" /\ b.pinned = a.pinned /\ b.pushed = a.pushed /\ b.live = a.live
      /\ b.global = g /\ b.recovering = a.recovering /\ b.path = path /\ b.session = a.session
      /\ b.chain = out.chain
  <2> HIDE DEF out
  <2> QED BY <1>1 DEF Shape, AttemptFields
<1>3. a.pinned # NoPin BY DEF Outcome, TrustedReadable
<1>4. a.pinned \in a.live /\ a.pinned \in Commits /\ a.pushed \in PushedPairs
  BY <1>1, <1>3 DEF SeesTips, Shape, Commits
<1>5. g \in DOMAIN GlobalFiles
  <2>1. a.recovering => a.recovering = TRUE OBVIOUS
  <2>2. globalFile \in DOMAIN GlobalFiles BY DEF World
  <2> QED BY <1>1, <2>1, <2>2 DEF SeesTips
<1>6. /\ out.chain = ChainOf(g, a.pushed, pair, path)
      /\ PairParses(pair) /\ OptOutHolds(pair, g, out.chain)
  BY <1>4, <1>5, Decided
<1>7. a.session = "none" \/ a.session \in Range(out.chain) OBVIOUS
<1> HIDE DEF b, out
<1>8. Shape(b, hosted.files) BY <1>1, <1>2 DEF Shape
<1>9. SeesTips(b, Sources, Tips, tracking) BY <1>2, <1>5 DEF SeesTips
<1>10. Governed(b, hosted.files) BY <1>2, <1>4, <1>5, <1>6, <1>7 DEF Governed
<1>11. Standing(b, hosted.files, Sources, Tips, tracking) BY <1>8, <1>9, <1>10 DEF Standing
<1> QED BY <1>11 DEF b, out

LEMMA ActStands ==
    ASSUME NEW a, NEW files, NEW urls, NEW tips, NEW ref, Standing(a, files, urls, tips, ref),
           a.pc = "running", NEW pair \in PushedPairs, NEW ag \in Range(a.chain)
    PROVE  Standing([a EXCEPT !.pc = "edited", !.pushed = pair, !.session = ag], files, urls, tips, ref)
<1> DEFINE b == [a EXCEPT !.pc = "edited", !.pushed = pair, !.session = ag]
<1>1. Shape(a, files) /\ SeesTips(a, urls, tips, ref) /\ Governed(a, files) BY Underway
<1>2. /\ DOMAIN b = AttemptFields
      /\ b.pc = "edited" /\ b.pinned = a.pinned /\ b.pushed = pair /\ b.live = a.live
      /\ b.global = a.global /\ b.recovering = a.recovering /\ b.session = ag /\ b.chain = a.chain
  BY <1>1 DEF Shape, AttemptFields
<1> HIDE DEF b
<1>3. Shape(b, files) BY <1>1, <1>2 DEF Shape
<1>4. SeesTips(b, urls, tips, ref) BY <1>1, <1>2 DEF SeesTips
<1>5. Governed(b, files) BY <1>1, <1>2 DEF Governed
<1>6. Standing(b, files, urls, tips, ref) BY <1>3, <1>4, <1>5 DEF Standing
<1> QED BY <1>6 DEF b

-----------------------------------------------------------------------------
(* The invariant, step by step.                                            *)

LEMMA ConfigStarts == ConfigInit => ConfigInv
<1> SUFFICES ASSUME ConfigInit PROVE ConfigInv OBVIOUS
<1>1. PICK pair \in TrustedPairs : hosted = [files |-> <<pair>>, tip |-> [u \in Urls |-> 1]]
  BY DEF ConfigInit
<1>2. hosted.files = <<pair>> /\ hosted.tip = [u \in Urls |-> 1] /\ DOMAIN hosted = {"files", "tip"}
  BY <1>1
<1>3. hosted.files \in Seq(TrustedPairs) /\ Commits = {1} BY <1>2 DEF Commits
<1>4. World BY <1>2, <1>3 DEF ConfigInit, World, Urls
<1>5. Attempts BY DEF ConfigInit, Attempts, Standing
<1>6. Foretold(plan, hosted.files) BY DEF ConfigInit, Foretold
<1> QED BY <1>4, <1>5, <1>6 DEF ConfigInv

\* A plan stands while files are added.
LEMMA PlanKept ==
    ASSUME NEW p, NEW files, Foretold(p, files), NEW files2,
           \A c \in DOMAIN files : c \in DOMAIN files2 /\ files2[c] = files[c]
    PROVE  Foretold(p, files2)
BY DEF Foretold

LEMMA LandsKeeps ==
    ASSUME ConfigInv, NEW u \in Urls, NEW pair \in TrustedPairs, Lands(u, pair)
    PROVE  ConfigInv'
<1> DEFINE n == Len(hosted.files) + 1
           new == IF u \in Sources THEN {n} ELSE {}
<1>1. World /\ Attempts /\ Foretold(plan, hosted.files) BY DEF ConfigInv
<1>2. hosted.files \in Seq(TrustedPairs) /\ hosted.tip \in [Urls -> Commits] BY <1>1 DEF World
<1>3. /\ hosted'.files = Append(hosted.files, pair)
      /\ hosted'.tip = [hosted.tip EXCEPT ![u] = n]
      /\ DOMAIN hosted' = {"files", "tip"}
  BY DEF Lands
<1>4. /\ attempt' = [r \in ConfigRuns |-> IF attempt[r].pc \in {"begun", "fetched"}
                                        THEN [attempt[r] EXCEPT !.live = @ \cup new] ELSE attempt[r]]
      /\ UNCHANGED <<cloneOrigin, globalFile, tracking, plan>>
  BY DEF Lands, Seen, surroundings
<1>5. /\ hosted'.files \in Seq(TrustedPairs) /\ n \in DOMAIN hosted'.files
      /\ \A c \in DOMAIN hosted.files : /\ c \in DOMAIN hosted'.files
                                        /\ hosted'.files[c] = hosted.files[c]
  BY <1>2, <1>3
<1>6. hosted'.tip \in [Urls -> DOMAIN hosted'.files] BY <1>2, <1>3, <1>5 DEF Commits
<1>7. World' BY <1>1, <1>3, <1>4, <1>5, <1>6 DEF World, Commits
<1>8. Sources' = Sources BY <1>4 DEF Sources
<1>9. Tips' \subseteq Tips \cup new
  <2>1. Sources \subseteq Urls BY <1>1, TipsStand
  <2>2. \A v \in Sources : hosted'.tip[v] \in Tips \cup new BY <1>2, <1>3, <2>1 DEF Tips
  <2> QED BY <1>8, <2>2 DEF Tips
<1>10. new \subseteq DOMAIN hosted'.files BY <1>5
<1> HIDE DEF new, n
<1>11. ASSUME NEW r \in ConfigRuns
       PROVE  Standing(attempt'[r], hosted'.files, Sources', Tips', tracking')
  <2>1. Standing(attempt[r], hosted.files, Sources, Tips, tracking) BY <1>1 DEF Attempts
  <2>2. attempt'[r] = Seeing(attempt[r], new) BY <1>4 DEF Seeing
  <2>3. Lengthened(hosted.files, Sources, Tips, hosted'.files, Sources', Tips', new)
    BY <1>5, <1>8, <1>9, <1>10 DEF Lengthened
  <2>4. Standing(attempt'[r], hosted'.files, Sources', Tips', tracking)
    BY <2>1, <2>2, <2>3, Witnessed
  <2> QED BY <1>4, <2>4
<1>12. Attempts' BY <1>11 DEF Attempts
<1>13. Foretold(plan', hosted'.files) BY <1>1, <1>4, <1>5, PlanKept
<1> QED BY <1>7, <1>12, <1>13 DEF ConfigInv

LEMMA MoveKeeps ==
    ASSUME ConfigInv, RemoteMoves
    PROVE  ConfigInv'
<1> DEFINE new == {hosted.tip["new"]}
<1>1. World /\ Attempts /\ Foretold(plan, hosted.files) BY DEF ConfigInv
<1>2. /\ attempt' = [r \in ConfigRuns |-> IF attempt[r].pc \in {"begun", "fetched"}
                                        THEN [attempt[r] EXCEPT !.live = @ \cup new] ELSE attempt[r]]
      /\ cloneOrigin = "old" /\ cloneOrigin' = "new"
      /\ UNCHANGED <<hosted, globalFile, tracking, plan>>
  BY DEF RemoteMoves, Seen
<1>3. new \subseteq DOMAIN hosted.files BY <1>1 DEF World, Urls, Commits
<1>4. World' BY <1>1, <1>2 DEF World, Commits, Urls
<1>5. Sources = {"old"} /\ Sources' = {"old", "new"} BY <1>2 DEF Sources, GateOrigin
<1>6. Tips' \subseteq Tips \cup new BY <1>2, <1>5 DEF Tips
<1> HIDE DEF new
<1>7. ASSUME NEW r \in ConfigRuns
      PROVE  Standing(attempt'[r], hosted'.files, Sources', Tips', tracking')
  <2>1. Standing(attempt[r], hosted.files, Sources, Tips, tracking) BY <1>1 DEF Attempts
  <2>2. attempt'[r] = Seeing(attempt[r], new) BY <1>2 DEF Seeing
  <2>3. Lengthened(hosted.files, Sources, Tips, hosted.files, Sources', Tips', new)
    BY <1>3, <1>5, <1>6 DEF Lengthened
  <2>4. Standing(attempt'[r], hosted.files, Sources', Tips', tracking)
    BY <2>1, <2>2, <2>3, Witnessed
  <2> QED BY <1>2, <2>4
<1>8. Attempts' BY <1>7 DEF Attempts
<1> QED BY <1>1, <1>2, <1>4, <1>8 DEF ConfigInv

LEMMA DeathKeeps ==
    ASSUME ConfigInv, DaemonDies
    PROVE  ConfigInv'
<1>1. World /\ Attempts /\ Foretold(plan, hosted.files) BY DEF ConfigInv
<1>2. /\ attempt' = [r \in ConfigRuns |->
             IF attempt[r].pc \in {"running", "edited"} THEN [attempt[r] EXCEPT !.pc = "interrupted"]
             ELSE IF attempt[r].pc \in {"idle", "interrupted"} THEN attempt[r] ELSE Aborted]
      /\ UNCHANGED <<hosted, cloneOrigin, globalFile, tracking, plan>>
  BY DEF DaemonDies, surroundings
<1>3. World' BY <1>1, <1>2 DEF World, Commits
<1>4. Sources' = Sources BY <1>2 DEF Sources
<1>5. Tips' = Tips BY <1>2, <1>4 DEF Tips
<1>6. ASSUME NEW r \in ConfigRuns
      PROVE  Standing(attempt'[r], hosted.files, Sources, Tips, tracking)
  <2>1. Standing(attempt[r], hosted.files, Sources, Tips, tracking) BY <1>1 DEF Attempts
  <2>2. attempt'[r] = IF attempt[r].pc \in {"running", "edited"} THEN [attempt[r] EXCEPT !.pc = "interrupted"]
                      ELSE IF attempt[r].pc \in {"idle", "interrupted"} THEN attempt[r] ELSE Aborted
    BY <1>2
  <2> QED BY <2>1, <2>2, CutShort
<1>7. Attempts' BY <1>2, <1>4, <1>5, <1>6 DEF Attempts
<1> QED BY <1>1, <1>2, <1>3, <1>7 DEF ConfigInv

LEMMA PlanKeeps ==
    ASSUME ConfigInv, NEW pair \in PushedPairs, PlanAxiRun(pair)
    PROVE  ConfigInv'
<1> DEFINE c == hosted.tip[cloneOrigin]
           out == Outcome(globalFile, pair, c, installed)
<1>1. World /\ Attempts BY DEF ConfigInv
<1>2. /\ plan' = [at |-> <<c, pair, globalFile, installed>>, chain |-> out.chain]
      /\ UNCHANGED <<hosted, cloneOrigin, globalFile, tracking, attempt>>
  BY DEF PlanAxiRun, surroundings
<1>3. World' BY <1>1, <1>2 DEF World, Commits
<1>4. Sources' = Sources BY <1>2 DEF Sources
<1>5. Tips' = Tips BY <1>2, <1>4 DEF Tips
<1>6. Attempts' BY <1>1, <1>2, <1>4, <1>5 DEF Attempts
<1>7. c \in Commits BY <1>1 DEF World
<1>8. globalFile \in DOMAIN GlobalFiles BY <1>1 DEF World
<1>9. out.chain = ChainOf(globalFile, pair, hosted.files[c], installed) BY <1>1, <1>7, <1>8, Decided
<1> HIDE DEF out, c
<1>10. Foretold(plan', hosted.files) BY <1>2, <1>7, <1>9 DEF Foretold, Commits
<1> QED BY <1>2, <1>3, <1>6, <1>10 DEF ConfigInv

\* An operator who edits or installs, and a run that moves alone.
LEMMA OperatorKeeps ==
    ASSUME ConfigInv, OperatorEdits \/ Installs
    PROVE  ConfigInv'
<1>1. globalFile' \in DOMAIN GlobalFiles /\ UNCHANGED <<hosted, cloneOrigin, tracking, attempt, plan>>
  BY DEF OperatorEdits, Installs, ConfigInv, World
<1>2. Sources' = Sources BY <1>1 DEF Sources
<1>3. Tips' = Tips BY <1>1, <1>2 DEF Tips
<1> QED BY <1>1, <1>2, <1>3 DEF ConfigInv, World, Commits, Attempts

LEMMA RunKeeps ==
    ASSUME ConfigInv, NEW r \in ConfigRuns, NEW new, Becomes(r, new),
           UNCHANGED <<hosted, cloneOrigin, globalFile, tracking, plan>>,
           Standing(new, hosted.files, Sources, Tips, tracking)
    PROVE  ConfigInv'
<1>1. Attempts /\ World /\ Foretold(plan, hosted.files) /\ DOMAIN attempt = ConfigRuns
  BY DEF ConfigInv, World
<1>2. Attempts' /\ DOMAIN attempt' = ConfigRuns BY <1>1, OneMoves
<1>3. World' BY <1>1, <1>2 DEF World, Commits
<1> QED BY <1>1, <1>2, <1>3 DEF ConfigInv

LEMMA FetchKeeps ==
    ASSUME ConfigInv, NEW r \in ConfigRuns, FetchRunDefaultBranch(r)
    PROVE  ConfigInv'
<1> DEFINE tip == hosted.tip[attempt[r].url]
<1>1. Attempts /\ World /\ Foretold(plan, hosted.files) BY DEF ConfigInv
<1>2. /\ attempt[r].pc = "begun" /\ tracking' = tip
      /\ attempt' = [attempt EXCEPT ![r] = [attempt[r] EXCEPT !.pc = "fetched"]]
      /\ UNCHANGED <<hosted, cloneOrigin, globalFile, plan>>
  BY DEF FetchRunDefaultBranch, At, Becomes, surroundings
<1>3. Standing(attempt[r], hosted.files, Sources, Tips, tracking) BY <1>1 DEF Attempts
<1>4. attempt[r].url \in Sources BY <1>2, <1>3, Underway DEF SeesTips
<1>5. tip \in Tips BY <1>4 DEF Tips
<1>6. Sources' = Sources BY <1>2 DEF Sources
<1>7. Tips' = Tips BY <1>2, <1>6 DEF Tips
<1> HIDE DEF tip
<1>8. ASSUME NEW q \in ConfigRuns
      PROVE  Standing(attempt'[q], hosted.files, Sources, Tips, tip)
  <2>1. Standing(attempt[q], hosted.files, Sources, Tips, tracking) BY <1>1 DEF Attempts
  <2>2. DOMAIN attempt = ConfigRuns BY <1>1 DEF World
  <2>3. CASE q = r
    <3>1. attempt'[q] = [attempt[q] EXCEPT !.pc = "fetched"] BY <1>2, <2>2, <2>3
    <3> QED BY <1>2, <1>5, <2>1, <2>3, <3>1, FetchStands
  <2>4. CASE q # r
    <3>1. attempt'[q] = attempt[q] BY <1>2, <2>2, <2>4
    <3> QED BY <1>5, <2>1, <3>1, RefMoves
  <2> QED BY <2>3, <2>4
<1>9. Attempts' BY <1>2, <1>6, <1>7, <1>8 DEF Attempts
<1>10. World' BY <1>1, <1>2 DEF World, Commits
<1> QED BY <1>1, <1>2, <1>9, <1>10 DEF ConfigInv

LEMMA ConfigSteps == ConfigInv /\ [ConfigNext]_configVars => ConfigInv'
<1> SUFFICES ASSUME ConfigInv, [ConfigNext]_configVars PROVE ConfigInv' OBVIOUS
<1>a. Attempts /\ World BY DEF ConfigInv
<1>b. ASSUME NEW r \in ConfigRuns PROVE Standing(attempt[r], hosted.files, Sources, Tips, tracking)
  BY <1>a DEF Attempts
<1>c. Standing(Aborted, hosted.files, Sources, Tips, tracking) BY DEF Standing
<1>1. ASSUME NEW u \in Urls, NEW pair \in TrustedPairs, Lands(u, pair) PROVE ConfigInv'
  BY <1>1, LandsKeeps
<1>2. CASE RemoteMoves BY <1>2, MoveKeeps
<1>3. CASE OperatorEdits \/ Installs BY <1>3, OperatorKeeps
<1>4. CASE DaemonDies BY <1>4, DeathKeeps
<1>5. ASSUME NEW pair \in PushedPairs, PlanAxiRun(pair) PROVE ConfigInv' BY <1>5, PlanKeeps
<1>6. ASSUME NEW r \in ConfigRuns, NEW pair \in PushedPairs, StartRun(r, pair) PROVE ConfigInv'
  <2>1. PICK refreshed \in BOOLEAN :
           Becomes(r, [NewAttempt EXCEPT !.pushed = pair, !.live = Tips,
                                         !.url = IF refreshed THEN cloneOrigin ELSE GateOrigin])
    BY <1>6 DEF StartRun
  <2>2. (IF refreshed THEN cloneOrigin ELSE GateOrigin) \in Sources BY DEF Sources
  <2>3. Standing([NewAttempt EXCEPT !.pushed = pair, !.live = Tips,
                                    !.url = IF refreshed THEN cloneOrigin ELSE GateOrigin],
                 hosted.files, Sources, Tips, tracking)
    BY <1>a, <2>2, StartStands
  <2>4. UNCHANGED <<hosted, cloneOrigin, globalFile, tracking, plan>> BY <1>6 DEF StartRun
  <2> QED BY <2>1, <2>3, <2>4, RunKeeps
<1>7. ASSUME NEW r \in ConfigRuns, BeginRecovery(r) PROVE ConfigInv'
  <2>1. UNCHANGED <<hosted, cloneOrigin, globalFile, tracking, plan>> BY <1>7 DEF BeginRecovery, surroundings
  <2>2. CASE ~GlobalParses(globalFile)
    <3>1. Becomes(r, Aborted) BY <1>7, <2>2 DEF BeginRecovery
    <3> QED BY <1>c, <2>1, <3>1, RunKeeps
  <2>3. CASE GlobalParses(globalFile)
    <3>1. attempt[r].pc = "interrupted" BY <1>7 DEF BeginRecovery, At
    <3>2. Standing([attempt[r] EXCEPT !.pc = "begun", !.recovering = TRUE, !.url = GateOrigin,
                                      !.global = globalFile, !.live = Tips, !.pinned = NoPin],
                   hosted.files, Sources, Tips, tracking)
      BY <1>a, <1>b, <3>1, RecoveryStands
    <3>3. Becomes(r, [attempt[r] EXCEPT !.pc = "begun", !.recovering = TRUE, !.url = GateOrigin,
                                        !.global = globalFile, !.live = Tips, !.pinned = NoPin])
      BY <1>7, <2>3 DEF BeginRecovery
    <3> QED BY <2>1, <3>2, <3>3, RunKeeps
  <2> QED BY <2>2, <2>3
<1>8. ASSUME NEW r \in ConfigRuns, FetchRunDefaultBranch(r) PROVE ConfigInv' BY <1>8, FetchKeeps
<1>9. ASSUME NEW r \in ConfigRuns, FetchFails(r) PROVE ConfigInv'
  <2>1. UNCHANGED <<hosted, cloneOrigin, globalFile, tracking, plan>> BY <1>9 DEF FetchFails, surroundings
  <2>2. Becomes(r, [attempt[r] EXCEPT !.pc = "pinned", !.pinned = NoPin]) BY <1>9 DEF FetchFails
  <2>3. attempt[r].pc = "begun" BY <1>9 DEF FetchFails, At
  <2>4. Standing([attempt[r] EXCEPT !.pc = "pinned", !.pinned = NoPin], hosted.files, Sources, Tips, tracking)
    BY <1>b, <2>3, PinStands
  <2> QED BY <2>1, <2>2, <2>4, RunKeeps
<1>10. ASSUME NEW r \in ConfigRuns, Pin(r) PROVE ConfigInv'
  <2>1. UNCHANGED <<hosted, cloneOrigin, globalFile, tracking, plan>> BY <1>10 DEF Pin, surroundings
  <2>2. Becomes(r, [attempt[r] EXCEPT !.pc = "pinned", !.pinned = tracking]) BY <1>10 DEF Pin
  <2>3. attempt[r].pc = "fetched" BY <1>10 DEF Pin, At
  <2>4. Standing([attempt[r] EXCEPT !.pc = "pinned", !.pinned = tracking], hosted.files, Sources, Tips, tracking)
    BY <1>b, <2>3, PinStands
  <2> QED BY <2>1, <2>2, <2>4, RunKeeps
<1>11. ASSUME NEW r \in ConfigRuns, Launch(r) PROVE ConfigInv'
  <2> DEFINE a == attempt[r]
             g == IF a.recovering THEN a.global ELSE globalFile
             out == Outcome(g, a.pushed, a.pinned, installed)
             ok == out.runs /\ (a.session = "none" \/ a.session \in Range(out.chain))
             new == [a EXCEPT !.pc = "running", !.global = g, !.path = installed, !.chain = out.chain]
  <2>1. UNCHANGED <<hosted, cloneOrigin, globalFile, tracking, plan>> BY <1>11 DEF Launch, surroundings
  <2>2. a.pc = "pinned" /\ Becomes(r, IF ok THEN new ELSE Aborted) BY <1>11 DEF Launch, At
  <2>3. CASE ok
    <3>1. Standing(new, hosted.files, Sources, Tips, tracking)
      BY <1>a, <1>b, <2>2, <2>3, LaunchStands
    <3> HIDE DEF new, ok
    <3>2. Becomes(r, new) BY <2>2, <2>3
    <3> QED BY <2>1, <3>1, <3>2, RunKeeps
  <2>4. CASE ~ok
    <3> HIDE DEF new, ok
    <3>1. Becomes(r, Aborted) BY <2>2, <2>4
    <3> QED BY <1>c, <2>1, <3>1, RunKeeps
  <2> QED BY <2>3, <2>4
<1>12. ASSUME NEW r \in ConfigRuns, AgentActs(r) PROVE ConfigInv'
  <2>1. UNCHANGED <<hosted, cloneOrigin, globalFile, tracking, plan>> BY <1>12 DEF AgentActs, surroundings
  <2>2. PICK pair \in PushedPairs, ag \in Range(attempt[r].chain) :
           Becomes(r, [attempt[r] EXCEPT !.pc = "edited", !.pushed = pair, !.session = ag])
    BY <1>12 DEF AgentActs
  <2>3. attempt[r].pc = "running" BY <1>12 DEF AgentActs, At
  <2>4. Standing([attempt[r] EXCEPT !.pc = "edited", !.pushed = pair, !.session = ag],
                 hosted.files, Sources, Tips, tracking)
    BY <1>b, <2>3, ActStands
  <2> QED BY <2>1, <2>2, <2>4, RunKeeps
<1>13. CASE UNCHANGED configVars
  <2>1. UNCHANGED <<hosted, cloneOrigin, globalFile, tracking, attempt, plan>> BY <1>13 DEF configVars
  <2>2. Sources' = Sources BY <2>1 DEF Sources
  <2>3. Tips' = Tips BY <2>1, <2>2 DEF Tips
  <2> QED BY <2>1, <2>2, <2>3 DEF ConfigInv, World, Commits, Attempts
<1>14. CASE Settles BY <1>13, <1>14 DEF Settles
<1> QED BY <1>1, <1>2, <1>3, <1>4, <1>5, <1>6, <1>7, <1>8, <1>9, <1>10, <1>11, <1>12, <1>13, <1>14
        DEF ConfigNext

-----------------------------------------------------------------------------
(* What the invariant means.                                               *)

LEMMA NoSay ==
    ASSUME ConfigInv, NEW r \in Obeying
    PROVE  BranchHasNoSay(attempt[r]) /\ PinIsFresh(attempt[r]) /\ RulesInForce(attempt[r])
<1> DEFINE a == attempt[r]
           pair == hosted.files[a.pinned]
           rules == PairConfig(pair)
<1>1. World /\ Shape(a, hosted.files) /\ Governed(a, hosted.files)
  <2>1. a.pc \in {"running", "edited"} /\ r \in ConfigRuns BY DEF Obeying
  <2>2. Standing(a, hosted.files, Sources, Tips, tracking) BY <2>1 DEF ConfigInv, Attempts
  <2> QED BY <2>1, <2>2, Underway DEF ConfigInv
<1>2. /\ a.pinned \in a.live /\ PairParses(pair) /\ OptOutHolds(pair, a.global, a.chain)
      /\ a.global \in DOMAIN GlobalFiles
  BY <1>1 DEF Governed, Obeying
<1>3. a.pinned \in Commits /\ a.pushed \in PushedPairs BY <1>1, <1>2 DEF Shape, Commits
<1>4. pair \in DOMAIN Pairs /\ TrustedSay(pair) = rules /\ RepoFile(rules)
  BY <1>1, <1>2, <1>3, Judged, SaidShapes
<1> DEFINE Fixed(cfg) ==
               /\ cfg.gates = [f \in GateFields |-> Or(rules.gates[f], DefaultGates[f])]
               /\ cfg.rerun = RerunBudget(rules.rerun, RerunBudget(LoadGlobal(a.global).rerun, 0))
               /\ cfg.localRoot = Or(LoadGlobal(a.global).localRoot, "default")
               /\ ~rules.allow => /\ cfg.commands = rules.commands
                                  /\ cfg.agents = IF rules.agents # <<>> THEN rules.agents
                                                  ELSE LoadGlobal(a.global).agents
<1>5. ASSUME NEW own \in PushedPairs PROVE Fixed(Resolved(a.global, own, a.pinned))
  <2>1. own \in DOMAIN Pairs BY FilesAssumption
  <2>2. Resolved(a.global, own, a.pinned) = SettingsOf(a.global, own, pair) BY <1>1, <1>3, Judged
  <2> HIDE DEF a, pair, rules
  <2> QED BY <1>4, <2>1, <2>2, Ruled
<1>6. PinIsFresh(a) BY <1>2 DEF PinIsFresh
<1>7. BranchHasNoSay(a)
  <2> HIDE DEF a, pair
  <2>1. PairConfig(TrustedPair(a.pinned)) = rules BY DEF TrustedPair, pair
  <2>2. ASSUME NEW other \in PushedPairs
        PROVE  LET is == Resolved(a.global, a.pushed, a.pinned)
                   would == Resolved(a.global, other, a.pinned)
               IN  /\ would.gates = is.gates /\ would.rerun = is.rerun /\ would.localRoot = is.localRoot
                   /\ rules.allow \/ (would.commands = is.commands /\ would.agents = is.agents)
    <3> DEFINE is == Resolved(a.global, a.pushed, a.pinned)
               would == Resolved(a.global, other, a.pinned)
    <3>1. Fixed(is) /\ Fixed(would) BY <1>3, <1>5
    <3> HIDE DEF rules, is, would
    <3>2. would.gates = is.gates /\ would.rerun = is.rerun /\ would.localRoot = is.localRoot BY <3>1
    <3>3. rules.allow \/ (would.commands = is.commands /\ would.agents = is.agents) BY <3>1
    <3> QED BY <3>2, <3>3 DEF is, would
  <2> HIDE DEF rules
  <2> QED BY <2>1, <2>2 DEF BranchHasNoSay
<1>8. RulesInForce(a)
  <2> DEFINE cfg == Resolved(a.global, a.pushed, a.pinned)
  <2>1. /\ cfg.gates = [f \in GateFields |-> Or(rules.gates[f], DefaultGates[f])]
        /\ cfg.rerun = RerunBudget(rules.rerun, RerunBudget(LoadGlobal(a.global).rerun, 0))
    BY <1>3, <1>5
  <2>2. RerunBudget(LoadGlobal(a.global).rerun, 0) \in 0..MaxCIRerunTransient
    <3>1. LoadGlobal(a.global).rerun \in Int /\ 0 \in 0..MaxCIRerunTransient
      BY <1>2, Loaded DEF MaxCIRerunTransient
    <3> QED BY <3>1, Capped
  <2>3. cfg.rerun \in 0..MaxCIRerunTransient BY <1>4, <2>1, <2>2, Capped DEF RepoFile
  <2>4. \A f \in Range(Pairs[pair]) : Present(f) => Parses(f) BY <1>2 DEF PairParses
  <2>5. \A f \in GateFields : rules.gates[f] # Unset => cfg.gates[f] = rules.gates[f] BY <2>1 DEF Or
  <2> HIDE DEF cfg
  <2> QED BY <1>2, <2>3, <2>4, <2>5 DEF RulesInForce, OptOutHolds, TrustedPair, cfg
<1> QED BY <1>6, <1>7, <1>8

LEMMA Kept ==
    ASSUME ConfigInv, NEW r \in Obeying
    PROVE  PromisesKept(attempt[r])
<1> DEFINE a == attempt[r]
<1>1. Governed(a, hosted.files) /\ Foretold(plan, hosted.files) /\ a.pc \in {"running", "edited"}
  <2>1. a.pc \in {"running", "edited"} /\ r \in ConfigRuns BY DEF Obeying
  <2>2. Standing(a, hosted.files, Sources, Tips, tracking) BY <2>1 DEF ConfigInv, Attempts
  <2> QED BY <2>1, <2>2, Underway DEF ConfigInv
<1>2. a.session = "none" \/ a.session \in Range(a.chain) BY <1>1 DEF Governed
<1>3. ASSUME a.pc = "running", plan # NoPlan, plan.at = <<a.pinned, a.pushed, a.global, a.path>>
      PROVE  plan.chain = a.chain
  <2>1. plan.chain = ChainOf(plan.at[3], plan.at[2], hosted.files[plan.at[1]], plan.at[4])
    BY <1>1, <1>3 DEF Foretold
  <2>2. a.chain = ChainOf(a.global, a.pushed, hosted.files[a.pinned], a.path)
    BY <1>1, <1>3 DEF Governed
  <2>3. plan.at[1] = a.pinned /\ plan.at[2] = a.pushed /\ plan.at[3] = a.global /\ plan.at[4] = a.path
    BY <1>3
  <2> HIDE DEF a
  <2> QED BY <2>1, <2>2, <2>3
<1> QED BY <1>2, <1>3 DEF PromisesKept

\* Whatever lands, moves, is edited, dies or recovers, every attempt stands: its pin was live, and
\* what it obeys was decided by the files of that pin.
THEOREM ConfigInvHolds == ConfigSpec => []ConfigInv
<1> QED BY ConfigStarts, ConfigSteps, PTL DEF ConfigSpec

\* A run is never judged, served or paid for by rules its branch made or that were withdrawn before
\* it began: the configuration loaded by startRun and by recovery holds for every set of files.
THEOREM ConfigIsTrusted == ConfigSpec => []ConfigTrusted
<1>1. ConfigInv => ConfigTrusted BY NoSay, Kept DEF ConfigTrusted
<1> QED BY <1>1, ConfigInvHolds, PTL
=============================================================================
