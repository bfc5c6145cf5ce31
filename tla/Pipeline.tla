------------------------------ MODULE Pipeline ------------------------------
(***************************************************************************)
(* One run of the validation pipeline: the executor goroutine              *)
(* (internal/pipeline/executor.go), the rows it keeps in the state         *)
(* database (internal/db), the head-moving part of the steps               *)
(* (internal/pipeline/steps), and what a daemon does with the run when it  *)
(* starts again after a crash (internal/daemon/manager.go).                *)
(*                                                                         *)
(* A step is its order in the pipeline, a commit is a number handed out in *)
(* creation order; lineage[h] is the set of h's ancestors, h included.     *)
(* What agents, linters and reviewers say is a nondeterministic choice     *)
(* among the outcomes the executor tells apart.  A write to the database   *)
(* is one action, so a crash may fall between any two of them; a database  *)
(* write that fails is not modelled.                                       *)
(*                                                                         *)
(* A step whose context is cancelled fails at its next git or agent call.  *)
(* Until then the cancellation has no effect, so an outcome produced after *)
(* it is the outcome produced just before it: the outcomes below require   *)
(* that the run is not cancelled.  The same holds for the continuity check *)
(* that opens a step and a reset of the worktree that comes after it.      *)
(***************************************************************************)
EXTENDS Integers, FiniteSets

CONSTANTS
    MaxHead,        \* bound: commits a behaviour may create
    MaxCrashes,     \* bound: crashes of the daemon
    AutoFixLimit,   \* config.AutoFixLimit, per step (0 under --no-fix)
    NoFix,          \* the run was started with --no-fix
    SkipSets        \* the sets of steps a run may be asked to skip

Intent == 1
Rebase == 2
Review == 3
Test == 4
Document == 5
Lint == 6
Push == 7
PR == 8
CI == 9

Steps == 1..9
Heads == 1..MaxHead
NoHead == 0

ASSUME MaxHeadAssumption == MaxHead \in Nat \ {0}
ASSUME MaxCrashesAssumption == MaxCrashes \in Nat
ASSUME LimitAssumption == AutoFixLimit \in [Steps -> Nat]
ASSUME NoFixAssumption == NoFix \in BOOLEAN /\ (NoFix => \A s \in Steps : AutoFixLimit[s] = 0)
ASSUME SkipAssumption == SkipSets \subseteq SUBSET Steps

VARIABLES
    \* rows of the database
    runStatus,   \* runs.status
    st,          \* step_results.status
    cert,        \* step_results.certified_head_sha
    runHead,     \* runs.head_sha
    approved,    \* runs.review_approved_head_sha
    awaiting,    \* runs.awaiting_agent_since is set
    autoFixes,   \* rounds selected by auto-fix, and step_results.ci_fix_attempts
    roundHead,   \* step_rounds.reviewed_head_sha of the latest review round
    prState,     \* runs.pr_state
    \* git and the forge
    wt,          \* HEAD of the run's worktree
    dirty,       \* the worktree has uncommitted changes
    remote,      \* the branch on the push target
    commits,     \* commits created so far
    lineage,     \* ancestors of each commit, itself included
    forge,       \* the pull request, as the provider knows it
    \* memory of the daemon, lost when it crashes
    pc,          \* where the executor goroutine is
    cur,         \* the step it is at; 10 when it is past the last
    memHead,     \* run.HeadSHA
    prevHead,    \* previousHeadSHA, taken when the step was started
    attempts,    \* autoFixAttempts
    fixing,      \* sctx.Fixing
    flow,        \* what the outcome asks for besides going on
    waiting,     \* e.waiting
    ch,          \* e.approvalCh, one slot
    resp,        \* how the wait for a ruling ended
    cause,       \* why the run's context was cancelled
    recovered,   \* this executor resumed the run: it has no skip set
    atGate,      \* inside Resume's own wait rather than executeStep's
    \* history of the behaviour
    skips,       \* the steps the run was asked to skip
    reviewed,    \* commits a completed review examined
    crashes

headRow == <<runHead, approved, cert>>
roundRows == <<autoFixes, roundHead>>
dbVars == <<runStatus, st, headRow, awaiting, roundRows, prState>>
treeVars == <<wt, dirty, commits, lineage>>
gitVars == <<treeVars, remote, forge>>
loopVars == <<cur, memHead, prevHead>>
turnVars == <<attempts, fixing, flow>>
gateVars == <<waiting, ch, resp>>
modeVars == <<cause, recovered, atGate>>
memVars == <<pc, loopVars, turnVars, gateVars, modeVars>>
ghostVars == <<skips, reviewed, crashes>>
vars == <<dbVars, gitVars, memVars, ghostVars>>

Active == {"starting", "running"}
RunStatuses == Active \cup {"completed", "failed", "cancelled", "blocked", "parked-nonconverging"}
Parked == {"parked", "parked_after_fix"}
InProgress == Parked \cup {"running", "fixer_running"}
StepStatuses == InProgress \cup {"pending", "completed", "skipped", "failed", "blocked"}
Rulings == {"approve", "skip", "abort", "fix"}
TerminalPR == {"merged", "closed"}
PRStates == TerminalPR \cup {"none", "open"}
Causes == {"cancelled", "shutdown"}

\* Executor positions.  "executing": inside step.Execute before it adopts a
\* commit, and CI's polling; "assessing": after the commit; "proposing": the
\* fix wants to change an existing test, so the step parks; "salvaged": the same
\* for a review that broke off without a verdict; "repairing" and "unrepaired":
\* CI's fix attempt, and its polling after a manual one that came to nothing;
\* "published": Push has moved the remote; "settled": the outcome is a plain
\* completion; "waiting", "claiming": the gate; "answered", "resolving": after
\* it; "returned": executeStep has returned; "down": no daemon.
Places == {"start", "dispatch", "executing", "assessing", "proposing", "salvaged", "repairing", "unrepaired",
           "published", "settled", "waiting", "claiming", "answered", "resolving", "returned",
           "completing", "failing", "nonconverging", "ended", "down", "resuming"}

TypeOK ==
    /\ runStatus \in RunStatuses
    /\ st \in [Steps -> StepStatuses]
    /\ cert \in [Steps -> Heads \cup {NoHead}]
    /\ runHead \in Heads
    /\ approved \in Heads \cup {NoHead}
    /\ awaiting \in BOOLEAN
    /\ autoFixes \in [Steps -> Nat]
    /\ roundHead \in Heads \cup {NoHead}
    /\ prState \in PRStates
    /\ wt \in Heads
    /\ dirty \in BOOLEAN
    /\ remote \in Heads \cup {NoHead}
    /\ commits \in Heads
    /\ lineage \in [Heads -> SUBSET Heads]
    /\ forge \in PRStates
    /\ pc \in Places
    /\ cur \in 1..10
    /\ memHead \in Heads
    /\ prevHead \in Heads
    /\ attempts \in Nat
    /\ fixing \in BOOLEAN
    /\ flow \in {"next", "restart", "skip_rest"}
    /\ waiting \in BOOLEAN
    /\ ch \in Rulings \cup {"none"}
    /\ resp \in Rulings \cup {"none", "cancelled", "fatal", "reconciled"}
    /\ cause \in Causes \cup {"none"}
    /\ recovered \in BOOLEAN
    /\ atGate \in BOOLEAN
    /\ skips \in SUBSET Steps
    /\ reviewed \in SUBSET Heads
    /\ crashes \in Nat

Init ==
    /\ runStatus = "starting"
    /\ st = [s \in Steps |-> "pending"]
    /\ cert = [s \in Steps |-> NoHead]
    /\ runHead = 1
    /\ approved = NoHead
    /\ awaiting = FALSE
    /\ autoFixes = [s \in Steps |-> 0]
    /\ roundHead = NoHead
    /\ prState = "none"
    /\ wt = 1
    /\ dirty = FALSE
    /\ remote = NoHead
    /\ commits = 1
    /\ lineage = [h \in Heads |-> IF h = 1 THEN {1} ELSE {}]
    /\ forge = "none"
    /\ pc = "start"
    /\ cur = 1
    /\ memHead = 1
    /\ prevHead = 1
    /\ attempts = 0
    /\ fixing = FALSE
    /\ flow = "next"
    /\ waiting = FALSE
    /\ ch = "none"
    /\ resp = "none"
    /\ cause = "none"
    /\ recovered = FALSE
    /\ atGate = FALSE
    /\ skips \in SkipSets
    /\ reviewed = {}
    /\ crashes = 0

-----------------------------------------------------------------------------
(* Commits and heads.                                                      *)

\* git merge-base --is-ancestor
IsAncestor(a, b) == a \in lineage[b]

\* assertPipelineHeadContinuity
Continuous == IsAncestor(memHead, wt)

\* A new commit whose ancestors are `base`.
NewCommit(base) ==
    /\ commits < MaxHead
    /\ commits' = commits + 1
    /\ lineage' = [lineage EXCEPT ![commits + 1] = base \cup {commits + 1}]

NoCommit == UNCHANGED <<commits, lineage>>
\* Mutant: a new head keeps the approval of the old one.
promoteRunHeadKeepsApproval(h) ==
    /\ runHead' = h
    /\ UNCHANGED <<approved, cert>>

\* promoteRunHead: the only writer of runs.head_sha.  A new head revokes what a
\* completed review said of the old one.
promoteRunHead(h) ==
    /\ runHead' = h
    /\ approved' = IF h = runHead THEN approved ELSE NoHead
    /\ cert' = IF h # runHead /\ st[Review] = "completed"
               THEN [cert EXCEPT ![Review] = NoHead] ELSE cert

\* A step that adopts what its worktree holds: a commit of the changes found
\* there (one the agent made in the turn included), or the commits the agent
\* made itself.
AdoptWork ==
    /\ \/ wt' = commits + 1 /\ NewCommit(lineage[wt])
       \/ wt # memHead /\ ~dirty /\ wt' = wt /\ NoCommit
    /\ dirty' = FALSE
    /\ memHead' = wt'
    /\ promoteRunHead(wt')

-----------------------------------------------------------------------------
(* Execute and executeRecoveredRemainder: the loop over the steps.         *)

Begin ==
    /\ pc = "start"
    /\ runStatus' = "running"
    /\ pc' = "dispatch"
    /\ UNCHANGED <<st, headRow, awaiting, roundRows, prState, gitVars, ghostVars>>
    /\ UNCHANGED <<loopVars, turnVars, gateVars, modeVars>>

\* The loop's own look at the context, and a row it may not dispatch.
DispatchFails ==
    /\ pc = "dispatch" /\ cur \in Steps
    /\ cause # "none" \/ st[cur] \notin {"pending", "skipped"}
    /\ pc' = "failing"
    /\ UNCHANGED <<dbVars, gitVars, ghostVars, loopVars, turnVars, gateVars, modeVars>>

\* A step already skipped, or one the run was asked to skip.  Only Execute
\* looks at the skip set: executeRecoveredRemainder does not.
DispatchSkip ==
    /\ pc = "dispatch" /\ cur \in Steps
    /\ cause = "none"
    /\ \/ st[cur] = "skipped" /\ UNCHANGED <<st, cert>>
       \/ /\ st[cur] = "pending" /\ cur \in skips /\ ~recovered
          /\ st' = [st EXCEPT ![cur] = "skipped"]
          /\ cert' = [cert EXCEPT ![cur] = NoHead]
    /\ cur' = cur + 1
    /\ UNCHANGED <<runStatus, runHead, approved, awaiting, roundRows, prState, gitVars, ghostVars>>
    /\ UNCHANGED <<pc, memHead, prevHead, turnVars, gateVars, modeVars>>
\* Mutant: a step that is run again starts with a full auto-fix budget.
StartStepForgetsFixes ==
    /\ pc = "dispatch" /\ cur \in Steps
    /\ cause = "none"
    /\ st[cur] = "pending" /\ (recovered \/ cur \notin skips)
    /\ st' = [st EXCEPT ![cur] = "running"]
    /\ prevHead' = memHead
    /\ attempts' = 0
    /\ fixing' = FALSE
    /\ flow' = "next"
    /\ pc' = "executing"
    /\ UNCHANGED <<runStatus, headRow, awaiting, roundRows, prState, gitVars, ghostVars>>
    /\ UNCHANGED <<cur, memHead, gateVars, modeVars>>

\* executionStateForStep recovers the auto-fix attempts the step already spent.
StartStep ==
    /\ pc = "dispatch" /\ cur \in Steps
    /\ cause = "none"
    /\ st[cur] = "pending" /\ (recovered \/ cur \notin skips)
    /\ st' = [st EXCEPT ![cur] = "running"]
    /\ prevHead' = memHead
    /\ attempts' = autoFixes[cur]
    /\ fixing' = FALSE
    /\ flow' = "next"
    /\ pc' = "executing"
    /\ UNCHANGED <<runStatus, headRow, awaiting, roundRows, prState, gitVars, ghostVars>>
    /\ UNCHANGED <<cur, memHead, gateVars, modeVars>>

\* Past the last step: the loop ends without another look at the context.
LoopEnds ==
    /\ pc = "dispatch" /\ cur \notin Steps
    /\ pc' = "completing"
    /\ UNCHANGED <<dbVars, gitVars, ghostVars, loopVars, turnVars, gateVars, modeVars>>

-----------------------------------------------------------------------------
(* step.Execute: what a step does to the worktree, the head and the remote *)
(* before it reports an outcome.                                           *)

\* The rebase replays the branch on a new base, a commit of another line, and
\* updateHeadSHA adopts whatever the worktree then holds.
RebaseMoves ==
    /\ pc = "executing" /\ cur = Rebase /\ cause = "none"
    /\ \/ NewCommit({}) /\ wt' = commits + 1
       \/ wt # memHead /\ wt' = wt /\ NoCommit
    /\ memHead' = wt'
    /\ promoteRunHead(wt')
    /\ pc' = "assessing"
    /\ UNCHANGED <<runStatus, st, awaiting, roundRows, prState, dirty, remote, forge, ghostVars>>
    /\ UNCHANGED <<cur, prevHead, turnVars, gateVars, modeVars>>

\* The passes that end in commitAgentFixes: a fix round of Review, Test or Lint,
\* and any pass of Document or of a Lint without a command.
CommittingPass == cur \in {Document, Lint} \/ (cur \in {Review, Test} /\ fixing)

\* commitAgentFixes.  The agent's answer may still propose a change of an
\* existing test (proposedTestFindings), which parks the step.
CommitFixes ==
    /\ pc = "executing" /\ cause = "none"
    /\ CommittingPass
    /\ Continuous
    /\ AdoptWork
    /\ pc' \in IF cur = Document THEN {"assessing"} ELSE {"assessing", "proposing"}
    /\ UNCHANGED <<runStatus, st, awaiting, roundRows, prState, remote, forge, ghostVars>>
    /\ UNCHANGED <<cur, prevHead, turnVars, gateVars, modeVars>>

\* guardFixTestCommits finds a changed test among the commits of a fix, or
\* guardFailedFix among those a failing step leaves: the worktree goes back to
\* the recorded head (untracked files survive) and the finding parks the step.
\* A review whose fix was rejected still reviews; one that broke off has no
\* reviewed commit to show.
GuardRejectsFix ==
    /\ \/ /\ pc \in {"executing", "assessing", "unrepaired"}
          /\ cur \in {Review, Test, Document, Lint, CI} /\ Continuous
       \/ pc = "repairing"
    /\ cause = "none"
    /\ wt' = memHead
    /\ dirty' \in {FALSE, dirty}
    /\ pc' \in IF cur # Review THEN {"proposing"}
                ELSE {"salvaged"} \cup {p \in {"proposing"} : pc = "executing" /\ fixing}
    /\ UNCHANGED <<dbVars, commits, lineage, remote, forge, ghostVars, loopVars, turnVars, gateVars, modeVars>>

\* An agent leaves changes behind, or commits them itself.  A pass that does
\* not end in commitAgentFixes adopts neither.
AgentLeavesWork ==
    /\ pc \in {"executing", "assessing", "repairing"} /\ cause = "none"
    /\ cur \in {Review, Test, Document, Lint, PR, CI}
    /\ \/ dirty' = TRUE /\ UNCHANGED <<wt, commits, lineage>>
       \/ wt' = commits + 1 /\ NewCommit(lineage[wt]) /\ dirty' = FALSE
    /\ UNCHANGED <<dbVars, remote, forge, memVars, ghostVars>>

\* Something outside the pipeline resets the worktree to another line.
Clobber ==
    /\ pc \notin {"start", "ended"}
    /\ NewCommit({})
    /\ wt' = commits + 1
    /\ UNCHANGED <<dbVars, dirty, remote, forge, memVars, ghostVars>>
\* Mutant: a run without a recorded approval may push.
ReviewApprovesByDefault(h) == approved = NoHead \/ IsAncestor(approved, h)

\* assertReviewApprovedPushHead, on the durable binding
ReviewApproves(h) == approved # NoHead /\ IsAncestor(approved, h)

\* PushStep.Execute: uncommitted changes (an agent's, or what the format command
\* just wrote) are committed first, whether or not the push is then allowed.
PushCommits ==
    /\ pc = "executing" /\ cur = Push /\ cause = "none"
    /\ Continuous
    /\ \/ wt' = commits + 1 /\ NewCommit(lineage[wt])
       \/ ~dirty /\ wt' = wt /\ NoCommit
    /\ dirty' = FALSE
    /\ pc' = "assessing"
    /\ UNCHANGED <<dbVars, remote, forge, loopVars, turnVars, gateVars, modeVars, ghostVars>>

\* The verified move of the remote.
PushPublishes ==
    /\ pc = "assessing" /\ cur = Push /\ cause = "none"
    /\ ReviewApproves(wt)
    /\ remote' = wt
    /\ pc' = "published"
    /\ UNCHANGED <<dbVars, treeVars, forge, loopVars, turnVars, gateVars, modeVars, ghostVars>>

\* The delivered commit becomes the run's head.
PushRecords ==
    /\ pc = "published"
    /\ memHead' = remote
    /\ promoteRunHead(remote)
    /\ pc' = "settled"
    /\ UNCHANGED <<runStatus, st, awaiting, roundRows, prState, gitVars, ghostVars>>
    /\ UNCHANGED <<cur, prevHead, turnVars, gateVars, modeVars>>

\* PRStep.Execute opens the pull request, or updates the one it opened.
PROpens ==
    /\ pc = "executing" /\ cur = PR /\ cause = "none"
    /\ Continuous
    /\ forge' = IF forge = "none" THEN "open" ELSE forge
    /\ pc' = "settled"
    /\ UNCHANGED <<dbVars, treeVars, remote, ghostVars, loopVars, turnVars, gateVars, modeVars>>

\* Merged is final; closed yields only to merged.
monotonicPRState(current, observed) ==
    IF current = "merged" \/ (current = "closed" /\ observed # "merged") THEN current ELSE observed

\* UpdateRunPRState with finalizeTerminalPRRun: one transaction.
UpdateRunPRState(observed) ==
    LET state == monotonicPRState(prState, observed)
        final == state \in TerminalPR
    IN  /\ prState' = state
        /\ st' = IF final /\ runStatus \in Active /\ st[CI] \in InProgress
                 THEN [st EXCEPT ![CI] = "completed"] ELSE st
        /\ runStatus' = IF final /\ runStatus \in Active THEN "completed" ELSE runStatus
        /\ awaiting' = IF final THEN FALSE ELSE awaiting

\* The CI monitor reads the pull request's state.
CIPolls ==
    /\ pc \in {"executing", "unrepaired"} /\ cur = CI /\ cause = "none"
    /\ Continuous
    /\ forge # "none"
    /\ UpdateRunPRState(forge)
    /\ pc' = IF forge \in TerminalPR THEN "settled" ELSE pc
    /\ UNCHANGED <<headRow, roundRows, gitVars, ghostVars, loopVars, turnVars, gateVars, modeVars>>

\* The monitor starts a repair: the one the user asked for, or an automatic
\* one, whose attempt is durable before the agent runs.
CIStartsRepair ==
    /\ pc \in {"executing", "unrepaired"} /\ cur = CI /\ cause = "none"
    /\ forge # "none"
    /\ Continuous
    /\ \/ pc = "executing" /\ fixing /\ UNCHANGED <<autoFixes, attempts>>
       \/ /\ pc = "unrepaired" \/ ~fixing
          /\ attempts < AutoFixLimit[CI]
          /\ attempts' = attempts + 1
          /\ autoFixes' = [autoFixes EXCEPT ![CI] = attempts + 1]
    /\ pc' = "repairing"
    /\ UNCHANGED <<runStatus, st, headRow, awaiting, roundHead, prState, gitVars, ghostVars>>
    /\ UNCHANGED <<loopVars, fixing, flow, gateVars, modeVars>>

\* recordLocalRepair: a fix, or a rebase that resolves a merge conflict.  The
\* outcome asks for a restart at Review, unless the agent also proposed a
\* change of an existing test.
CIRepairs ==
    /\ pc = "repairing" /\ cause = "none"
    /\ \/ AdoptWork
       \/ /\ NewCommit({}) /\ wt' = commits + 1 /\ dirty' = FALSE
          /\ memHead' = wt' /\ promoteRunHead(wt')
    /\ \/ flow' = "restart" /\ pc' = "settled"
       \/ flow' = flow /\ pc' = "proposing"
    /\ UNCHANGED <<runStatus, st, awaiting, roundRows, prState, remote, forge, ghostVars>>
    /\ UNCHANGED <<cur, prevHead, attempts, fixing, gateVars, modeVars>>

\* The repair changed nothing, or failed without a commit (handleCIRepairError):
\* the monitor polls on, and an automatic repair may be tried again.
CIRepairsNothing ==
    /\ pc = "repairing" /\ cause = "none"
    /\ wt = memHead
    /\ pc' = IF fixing THEN "unrepaired" ELSE "executing"
    /\ UNCHANGED <<dbVars, gitVars, ghostVars, loopVars, turnVars, gateVars, modeVars>>

-----------------------------------------------------------------------------
(* executeStep: what the executor makes of the outcome.                    *)

\* step.Execute returns an error, or the bookkeeping after it does (a cancelled
\* RetainRunInGate, an unpinned review): then the step's row is left as it is.
StepErrs ==
    /\ \/ /\ pc \in {"executing", "assessing", "repairing", "unrepaired", "published"}
          /\ st' = [st EXCEPT ![cur] = "failed"]
       \/ /\ pc \in {"executing", "assessing", "proposing", "salvaged", "unrepaired", "settled"}
          /\ st' = st
    /\ pc' = "failing"
    /\ UNCHANGED <<runStatus, headRow, awaiting, roundRows, prState, gitVars, ghostVars>>
    /\ UNCHANGED <<loopVars, turnVars, gateVars, modeVars>>

\* No seat for the agent: BlockStepForSeat ends the step and the run together.
SeatBlocks ==
    /\ pc \in {"executing", "assessing"} /\ cur \in Rebase..Lint /\ cause = "none"
    /\ runStatus = "running"
    /\ st' = [st EXCEPT ![cur] = "blocked"]
    /\ runStatus' = "blocked"
    /\ awaiting' = FALSE
    /\ pc' = "ended"
    /\ UNCHANGED <<headRow, roundRows, prState, gitVars, ghostVars, loopVars, turnVars, gateVars, modeVars>>

\* The step can report: its worktree passed the continuity check it opens with,
\* and a fix round left nothing in the worktree that it did not adopt.
CanReport ==
    /\ cause = "none"
    /\ cur \in {Intent, Rebase, Review} \/ Continuous
    /\ ~(pc = "executing" /\ fixing /\ cur \in {Review, Test, Lint} /\ (dirty \/ wt # memHead))

\* An outcome that changed tests force on the executor is already settled.
Reported == pc \in {"proposing", "salvaged"} \/ CanReport

\* The round row of a review names the commit it examined, if it examined one.
RecordRound ==
    roundHead' = IF cur # Review THEN roundHead
                 ELSE IF pc = "salvaged" THEN NoHead ELSE memHead

\* evaluateReviewConvergence stops a review that does not converge.
ReviewStops ==
    /\ pc \in {"executing", "assessing", "proposing", "salvaged"} /\ cur = Review /\ Reported
    /\ RecordRound
    /\ st' = [st EXCEPT ![cur] = "failed"]
    /\ pc' = "nonconverging"
    /\ UNCHANGED <<runStatus, headRow, awaiting, autoFixes, prState, gitVars, ghostVars>>
    /\ UNCHANGED <<loopVars, turnVars, gateVars, modeVars>>

\* Findings the agent may fix, within the step's budget.
AutoFix ==
    /\ \/ pc \in {"executing", "assessing"} /\ cur \in {Review, Test, Lint}
       \/ pc = "executing" /\ cur = Rebase
    /\ CanReport
    /\ attempts < AutoFixLimit[cur]
    /\ attempts' = attempts + 1
    /\ autoFixes' = [autoFixes EXCEPT ![cur] = @ + 1]
    /\ RecordRound
    /\ st' = [st EXCEPT ![cur] = "fixer_running"]
    /\ fixing' = TRUE
    /\ pc' = "executing"
    /\ UNCHANGED <<runStatus, headRow, awaiting, prState, gitVars, ghostVars>>
    /\ UNCHANGED <<loopVars, flow, gateVars, modeVars>>

\* ParkStepForApproval, with the gate opened under the same lock.
Park ==
    /\ \/ pc \in {"executing", "assessing"} /\ cur \in {Review, Test, Document, Lint}
       \/ pc = "executing" /\ cur = Rebase
       \/ pc \in {"executing", "unrepaired"} /\ cur = CI /\ forge # "none"
       \/ pc \in {"proposing", "salvaged"}
    /\ Reported
    /\ RecordRound
    /\ st' = [st EXCEPT ![cur] = IF fixing THEN "parked_after_fix" ELSE "parked"]
    /\ awaiting' = TRUE
    /\ waiting' = TRUE
    /\ pc' = "waiting"
    /\ UNCHANGED <<runStatus, headRow, autoFixes, prState, gitVars, ghostVars>>
    /\ UNCHANGED <<loopVars, turnVars, ch, resp, modeVars>>

\* The row of a step that is done.  A review's commit becomes the run's review
\* authority in the same transaction (CompleteReviewStep); a review without
\* one is certified like any other step and grants no authority.
CompleteStep(status, reviewedHead) ==
    /\ st' = [st EXCEPT ![cur] = status]
    /\ IF cur = Review /\ reviewedHead # NoHead
       THEN /\ cert' = [cert EXCEPT ![cur] = reviewedHead]
            /\ approved' = reviewedHead
            /\ reviewed' = reviewed \cup {reviewedHead}
       ELSE /\ cert' = [cert EXCEPT ![cur] = memHead]
            /\ UNCHANGED <<approved, reviewed>>

\* An outcome that needs nobody's ruling.
StepDone ==
    /\ \/ /\ pc = "settled" /\ CompleteStep("completed", NoHead) /\ flow' = flow
       \/ /\ pc \in {"executing", "assessing"} /\ cur \in {Review, Test, Document, Lint}
          /\ CanReport /\ CompleteStep("completed", memHead) /\ flow' = flow
       \/ /\ pc \in {"executing", "assessing"} /\ cur = Rebase
          /\ CanReport /\ wt = memHead
          /\ CompleteStep("completed", NoHead) /\ flow' \in {"next", "skip_rest"}
       \/ /\ pc = "executing" /\ cur = Intent
          /\ CompleteStep("completed", NoHead) /\ flow' = flow
       \/ /\ pc = "executing" /\ cur \in {Intent, PR, CI} /\ (CanReport \/ cur = Intent)
          /\ CompleteStep("skipped", NoHead) /\ flow' = flow
    /\ RecordRound
    /\ pc' = "returned"
    /\ UNCHANGED <<runStatus, runHead, awaiting, autoFixes, prState, gitVars, skips, crashes>>
    /\ UNCHANGED <<loopVars, attempts, fixing, gateVars, modeVars>>

-----------------------------------------------------------------------------
(* The approval gate.                                                      *)

\* RespondWithOverrides and AcceptResponse: the ruling is admitted under the
\* executor's lock and closes the gate to any other.
Respond(a) ==
    /\ waiting
    /\ ~(NoFix /\ a = "fix")
    /\ waiting' = FALSE
    /\ ch' = a
    /\ UNCHANGED <<dbVars, gitVars, pc, loopVars, turnVars, resp, modeVars, ghostVars>>
\* Mutant: the slot is not drained when the wait ends.
WaitEndsUndrained(how) ==
    /\ resp' = how
    /\ waiting' = FALSE
    /\ ch' = ch
    /\ pc' = "answered"

\* The wait ends, however it ends: the gate is closed and the slot drained.
WaitEnds(how) ==
    /\ resp' = how
    /\ waiting' = FALSE
    /\ ch' = "none"
    /\ pc' = "answered"

TakeRuling ==
    /\ pc = "waiting" /\ ch # "none"
    /\ WaitEnds(ch)
    /\ UNCHANGED <<dbVars, gitVars, loopVars, turnVars, modeVars, ghostVars>>
\* Mutant: the wait of a step that reconciles its gate ignores the context.
CancelWaitUnlessCI ==
    /\ pc = "waiting" /\ cause # "none" /\ cur # CI
    /\ WaitEnds("cancelled")
    /\ UNCHANGED <<dbVars, gitVars, loopVars, turnVars, modeVars, ghostVars>>

CancelWait ==
    /\ pc = "waiting" /\ cause # "none"
    /\ WaitEnds("cancelled")
    /\ UNCHANGED <<dbVars, gitVars, loopVars, turnVars, modeVars, ghostVars>>

\* CIStep.ReconcileApprovalGate on the timer: only CI reconciles its gate.  A
\* broken continuity is fatal; an open pull request keeps the gate.
ReconcileFatal ==
    /\ pc = "waiting" /\ cur = CI /\ cause = "none"
    /\ ~Continuous
    /\ WaitEnds("fatal")
    /\ UNCHANGED <<dbVars, gitVars, loopVars, turnVars, modeVars, ghostVars>>
\* Mutant: only a closed pull request supersedes the gate.
ReconcileClosedOnly ==
    /\ pc = "waiting" /\ cur = CI /\ cause = "none"
    /\ Continuous
    /\ forge # "none"
    /\ UpdateRunPRState(forge)
    /\ pc' = IF forge = "closed" THEN "claiming" ELSE pc
    /\ UNCHANGED <<headRow, roundRows, gitVars, loopVars, turnVars, gateVars, modeVars, ghostVars>>

Reconcile ==
    /\ pc = "waiting" /\ cur = CI /\ cause = "none"
    /\ Continuous
    /\ forge # "none"
    /\ UpdateRunPRState(forge)
    /\ pc' = IF forge \in TerminalPR THEN "claiming" ELSE pc
    /\ UNCHANGED <<headRow, roundRows, gitVars, loopVars, turnVars, gateVars, modeVars, ghostVars>>

\* claimGateReconciliation: a ruling admitted meanwhile wins.
Claim ==
    /\ pc = "claiming"
    /\ \/ waiting /\ WaitEnds("reconciled")
       \/ ~waiting /\ ch # "none" /\ WaitEnds(ch)
    /\ UNCHANGED <<dbVars, gitVars, loopVars, turnVars, modeVars, ghostVars>>

\* CompleteRunAwaitingAgent, before anything is done about the ruling.
ClearAwaiting ==
    /\ pc = "answered"
    /\ awaiting' = FALSE
    /\ pc' = "resolving"
    /\ UNCHANGED <<runStatus, st, headRow, roundRows, prState, gitVars, loopVars, turnVars, gateVars, modeVars, ghostVars>>

\* Where the executor goes once the gate's step is done: a gate resumed after a
\* crash goes straight on to the next step, without restartAfterStep.
LeaveGate ==
    /\ resp' = "none"
    /\ atGate' = FALSE
    /\ IF atGate THEN pc' = "dispatch" /\ cur' = cur + 1 ELSE pc' = "returned" /\ cur' = cur

\* Resume insists on the commit the parked review examined.
NoCandidate == atGate /\ cur = Review /\ roundHead = NoHead

ResolveApprove ==
    /\ pc = "resolving" /\ resp \in {"approve", "reconciled"}
    /\ ~NoCandidate
    /\ CompleteStep("completed", roundHead)
    /\ LeaveGate
    /\ UNCHANGED <<runStatus, runHead, awaiting, roundRows, prState, gitVars, skips, crashes>>
    /\ UNCHANGED <<memHead, prevHead, turnVars, waiting, ch, cause, recovered>>

ResolveSkip ==
    /\ pc = "resolving" /\ resp = "skip"
    /\ st' = [st EXCEPT ![cur] = "skipped"]
    /\ cert' = [cert EXCEPT ![cur] = NoHead]
    /\ LeaveGate
    /\ UNCHANGED <<runStatus, runHead, approved, awaiting, roundRows, prState, gitVars, ghostVars>>
    /\ UNCHANGED <<memHead, prevHead, turnVars, waiting, ch, cause, recovered>>

ResolveFails ==
    /\ pc = "resolving"
    /\ \/ resp \in {"abort", "cancelled", "fatal"} /\ st' = [st EXCEPT ![cur] = "failed"]
       \/ resp = "approve" /\ NoCandidate /\ st' = st
    /\ resp' = "none"
    /\ pc' = "failing"
    /\ UNCHANGED <<runStatus, headRow, awaiting, roundRows, prState, gitVars, ghostVars>>
    /\ UNCHANGED <<loopVars, turnVars, waiting, ch, modeVars>>

\* A fix round.  Resume starts the step anew; executeStep goes round its loop.
ResolveFix ==
    /\ pc = "resolving" /\ resp = "fix"
    /\ st' = [st EXCEPT ![cur] = IF atGate THEN "running" ELSE "fixer_running"]
    /\ fixing' = TRUE
    /\ prevHead' = IF atGate THEN memHead ELSE prevHead
    /\ attempts' = IF atGate THEN autoFixes[cur] ELSE attempts
    /\ resp' = "none"
    /\ atGate' = FALSE
    /\ pc' = "executing"
    /\ UNCHANGED <<runStatus, headRow, awaiting, roundRows, prState, gitVars, ghostVars>>
    /\ UNCHANGED <<cur, memHead, flow, waiting, ch, cause, recovered>>

-----------------------------------------------------------------------------
(* After a step, and the end of the run.                                   *)

RequiredGates == {Review, Test, Document}
\* Mutant: a gate without a certificate counts as current.
StaleGatesIfCertified ==
    {g \in RequiredGates : st[g] = "completed" /\ cert[g] \notin {NoHead, memHead}}

\* Completed gates whose certificate is not for the run's head.
StaleGates == {g \in RequiredGates : st[g] = "completed" /\ cert[g] # memHead}

MinOf(S) == CHOOSE x \in S : \A y \in S : x <= y
\* Mutants: the first stale gate alone is reset; it is the only one that is not;
\* skipped steps are reset with the others.
ResetOnly(s) ==
    /\ st' = [st EXCEPT ![s] = "pending"]
    /\ cert' = [cert EXCEPT ![s] = NoHead]
    /\ cur' = s
    /\ pc' = "dispatch"

ResetStepsAfter(s) ==
    /\ st' = [x \in Steps |-> IF x > s /\ st[x] # "skipped" THEN "pending" ELSE st[x]]
    /\ cert' = [x \in Steps |-> IF x > s /\ st[x] # "skipped" THEN NoHead ELSE cert[x]]
    /\ cur' = s
    /\ pc' = "dispatch"

ResetSkippedToo(s) ==
    /\ st' = [x \in Steps |-> IF x >= s THEN "pending" ELSE st[x]]
    /\ cert' = [x \in Steps |-> IF x >= s THEN NoHead ELSE cert[x]]
    /\ cur' = s
    /\ pc' = "dispatch"

\* ResetStepsFrom and ResetStepsFromOrder: skipped steps stay skipped.
ResetStepsFrom(s) ==
    /\ st' = [x \in Steps |-> IF x >= s /\ st[x] # "skipped" THEN "pending" ELSE st[x]]
    /\ cert' = [x \in Steps |-> IF x >= s /\ st[x] # "skipped" THEN NoHead ELSE cert[x]]
    /\ cur' = s
    /\ pc' = "dispatch"

\* The variables of executeStep's frame are gone once it has returned.
ForgetStep ==
    /\ prevHead' = memHead
    /\ attempts' = 0 /\ fixing' = FALSE /\ flow' = "next"

\* restartAfterStep: a head that moved sends the run back to the earliest gate
\* that does not cover it.
RestartStale ==
    /\ pc = "returned"
    /\ memHead # prevHead /\ StaleGates # {}
    /\ ResetStepsFrom(MinOf(StaleGates))
    /\ approved' = IF MinOf(StaleGates) <= Review THEN NoHead ELSE approved
    /\ ForgetStep
    /\ UNCHANGED <<runStatus, runHead, awaiting, roundRows, prState, gitVars, ghostVars>>
    /\ UNCHANGED <<memHead, gateVars, modeVars>>

\* prepareRestart, for a CI repair.
RestartRequested ==
    /\ pc = "returned"
    /\ ~(memHead # prevHead /\ StaleGates # {}) /\ flow = "restart"
    /\ ResetStepsFrom(Review)
    /\ ForgetStep
    /\ UNCHANGED <<runStatus, runHead, approved, awaiting, roundRows, prState, gitVars, ghostVars>>
    /\ UNCHANGED <<memHead, gateVars, modeVars>>

NextStep ==
    /\ pc = "returned"
    /\ ~(memHead # prevHead /\ StaleGates # {}) /\ flow = "next"
    /\ cur' = cur + 1
    /\ pc' = "dispatch"
    /\ ForgetStep
    /\ UNCHANGED <<dbVars, gitVars, memHead, gateVars, modeVars, ghostVars>>

\* Nothing is left to validate after the rebase.  skipRecoveredRemainder asks
\* that the rest be pending: it is, since no restart goes back to the rebase.
SkipRest ==
    /\ pc = "returned"
    /\ ~(memHead # prevHead /\ StaleGates # {}) /\ flow = "skip_rest"
    /\ st' = [x \in Steps |-> IF x > cur THEN "skipped" ELSE st[x]]
    /\ cert' = [x \in Steps |-> IF x > cur THEN NoHead ELSE cert[x]]
    /\ pc' = "completing"
    /\ UNCHANGED <<runStatus, runHead, approved, awaiting, roundRows, prState, gitVars, ghostVars>>
    /\ UNCHANGED <<loopVars, turnVars, gateVars, modeVars>>

\* reconcileTerminalRunHead: commits the worktree carries beyond the recorded
\* head are adopted if the branch ref allows it.
TerminalHead ==
    \/ UNCHANGED <<headRow, memHead>>
    \/ /\ wt # runHead /\ IsAncestor(runHead, wt)
       /\ promoteRunHead(wt) /\ memHead' = wt

CompleteRun ==
    /\ pc = "completing"
    /\ TerminalHead
    /\ runStatus' = "completed"
    /\ pc' = "ended"
    /\ UNCHANGED <<st, awaiting, roundRows, prState, gitVars, ghostVars>>
    /\ UNCHANGED <<cur, prevHead, turnVars, gateVars, modeVars>>

\* failRun writes the status whatever the row says.
FailRun ==
    /\ pc \in {"failing", "nonconverging"}
    /\ TerminalHead
    /\ runStatus' = IF cause = "cancelled" THEN "cancelled"
                    ELSE IF pc = "nonconverging" THEN "parked-nonconverging" ELSE "failed"
    /\ pc' = "ended"
    /\ UNCHANGED <<st, awaiting, roundRows, prState, gitVars, ghostVars>>
    /\ UNCHANGED <<cur, prevHead, turnVars, gateVars, modeVars>>

-----------------------------------------------------------------------------
(* The daemon around the run: cancellation, crashes, recovery.             *)

\* HandleCancel, cancelActiveRuns and Shutdown.
CancelRun(c) ==
    /\ pc \notin {"ended", "down"} /\ cause = "none"
    /\ cause' = c
    /\ UNCHANGED <<dbVars, gitVars, pc, loopVars, turnVars, gateVars, recovered, atGate, ghostVars>>

Crash ==
    /\ pc \notin {"ended", "down"} /\ crashes < MaxCrashes
    /\ crashes' = crashes + 1
    /\ pc' = "down"
    /\ cur' = 1 /\ memHead' = runHead /\ prevHead' = runHead
    /\ attempts' = 0 /\ fixing' = FALSE /\ flow' = "next"
    /\ waiting' = FALSE /\ ch' = "none" /\ resp' = "none"
    /\ cause' = "none" /\ recovered' = TRUE /\ atGate' = FALSE
    /\ UNCHANGED <<dbVars, gitVars, skips, reviewed>>

\* recoveredGate: one parked step, settled steps before it, untouched ones after.
\* The rest of its demands concern columns that are no state here: Park writes
\* the findings, the duration and a round with the same findings, and StartStep
\* the start.  The row of a gate whose agent left its pid behind, or whose round
\* could not be inserted, does not pass: such a run takes RecoverFails, which is
\* always open.
GateAt(g) ==
    /\ st[g] \in Parked
    /\ \A s \in Steps : s < g => st[s] \in {"completed", "skipped"}
    /\ \A s \in Steps : s > g => st[s] \in {"pending", "skipped"}

\* prepareRecoveredRun and Resume.
RecoverGate ==
    /\ pc = "down"
    /\ runStatus = "running" /\ awaiting /\ wt = runHead
    /\ \E g \in Steps : GateAt(g) /\ cur' = g
    /\ atGate' = TRUE
    /\ pc' = "resuming"
    /\ UNCHANGED <<dbVars, gitVars, memHead, prevHead, turnVars, gateVars, cause, recovered, ghostVars>>

\* RecoverStaleRunsExcept: a run that is not, or cannot be, resumed fails.
RecoverFails ==
    /\ pc = "down" /\ runStatus \in Active
    /\ st' = [s \in Steps |-> IF st[s] \in InProgress THEN "failed" ELSE st[s]]
    /\ runStatus' = "failed"
    /\ awaiting' = FALSE
    /\ pc' = "ended"
    /\ UNCHANGED <<headRow, roundRows, prState, gitVars, loopVars, turnVars, gateVars, modeVars, ghostVars>>

\* The crash found the run's row already terminal.
RecoverNothing ==
    /\ pc = "down" /\ runStatus \notin Active
    /\ pc' = "ended"
    /\ UNCHANGED <<dbVars, gitVars, loopVars, turnVars, gateVars, modeVars, ghostVars>>

\* Resume reconciles the gate once before it opens it again.
ResumeReconciles ==
    /\ pc = "resuming" /\ cur = CI /\ cause = "none" /\ Continuous
    /\ forge \in TerminalPR
    /\ UpdateRunPRState(forge)
    /\ WaitEnds("reconciled")
    /\ UNCHANGED <<headRow, roundRows, gitVars, loopVars, turnVars, modeVars, ghostVars>>

ResumeFatal ==
    /\ pc = "resuming" /\ cur = CI /\ cause = "none" /\ ~Continuous
    /\ WaitEnds("fatal")
    /\ UNCHANGED <<dbVars, gitVars, loopVars, turnVars, modeVars, ghostVars>>

\* The gate opens; the provider may have been unreachable.
ResumeWaits ==
    /\ pc = "resuming"
    /\ waiting' = TRUE
    /\ pc' = "waiting"
    /\ UNCHANGED <<dbVars, gitVars, loopVars, turnVars, ch, resp, modeVars, ghostVars>>

\* The pull request changes hands on the forge.
ForgeMoves ==
    /\ pc # "ended"
    /\ \/ forge = "open" /\ forge' \in TerminalPR
       \/ forge = "closed" /\ forge' = "open"
    /\ UNCHANGED <<dbVars, treeVars, remote, memVars, ghostVars>>

-----------------------------------------------------------------------------

\* The executor goroutine.
Executor ==
    \/ Begin \/ DispatchFails \/ DispatchSkip \/ StartStep \/ LoopEnds
    \/ RebaseMoves \/ CommitFixes \/ GuardRejectsFix \/ PushCommits \/ PushPublishes \/ PushRecords
    \/ PROpens \/ CIPolls \/ CIStartsRepair \/ CIRepairs \/ CIRepairsNothing
    \/ StepErrs \/ SeatBlocks \/ ReviewStops \/ AutoFix \/ Park \/ StepDone
    \/ TakeRuling \/ CancelWait \/ ReconcileFatal \/ Reconcile \/ Claim
    \/ ClearAwaiting \/ ResolveApprove \/ ResolveSkip \/ ResolveFails \/ ResolveFix
    \/ RestartStale \/ RestartRequested \/ NextStep \/ SkipRest
    \/ CompleteRun \/ FailRun
    \/ ResumeReconciles \/ ResumeFatal \/ ResumeWaits

\* Everything else: people, agents left running, the forge, the daemon process.
Environment ==
    \/ \E a \in Rulings : Respond(a)
    \/ \E c \in Causes : CancelRun(c)
    \/ AgentLeavesWork \/ Clobber \/ ForgeMoves
    \/ Crash \/ RecoverGate \/ RecoverFails \/ RecoverNothing

\* The run is over.
Over == pc = "ended" /\ UNCHANGED vars

Next == Executor \/ Environment \/ Over

Spec == Init /\ [][Next]_vars

\* The goroutine is scheduled, and git, agents and the provider answer a
\* cancelled call.
FairSpec == Spec /\ WF_vars(Executor)

-----------------------------------------------------------------------------
(* Properties.                                                             *)

\* The push authority (runs.review_approved_head_sha) is about the head the run
\* records now, a completed review examined that very commit, and no completed
\* required gate vouches for another one (promoteRunHead, CompleteReviewStep,
\* ResetStepsFromOrder).
AuthorityCoversGates ==
    approved # NoHead =>
        /\ approved = runHead
        /\ approved \in reviewed
        /\ \A g \in RequiredGates : st[g] = "completed" => cert[g] = runHead

\* Push moves the remote only to a descendant of a reviewed commit, and never
\* past a completed required gate that ran on another head than the run's
\* (push.go assertReviewApprovedPushHead).
PublishesOnlyCertified ==
    [][remote' # remote =>
        /\ approved \in reviewed
        /\ approved \in lineage'[remote']
        /\ \A g \in RequiredGates : st[g] = "completed" => cert[g] = memHead]_vars

\* A run that has pushed and is about to be marked completed by an executor
\* that was never interrupted has published exactly its head, a reviewed one,
\* and every completed required gate certifies that head (restartAfterStep).
DeliveredHeadCertified ==
    pc = "completing" /\ st[Push] = "completed" =>
        /\ remote = memHead
        /\ memHead \in reviewed
        /\ StaleGates = {}

\* Whatever crashes there were, what a completing run has published was examined
\* by a completed review.
PublishedWasReviewed ==
    pc = "completing" /\ st[Push] = "completed" => remote \in reviewed

\* A running run that waits for a ruling is one recoveredGate accepts: a crash
\* never loses a parked gate to an inconsistent step list.
ParkedGateIsRecoverable ==
    awaiting /\ runStatus = "running" => \E g \in Steps : GateAt(g)

\* The single-slot response channel is empty whenever the gate admits a ruling,
\* so enqueueResponse never blocks under the executor's lock, and a closed gate
\* that reconciliation lost has a ruling to receive (executor.go:191,
\* waitForApprovalOrReconcile).
GateSlotFree ==
    /\ waiting => ch = "none" /\ pc \in {"waiting", "claiming"}
    /\ pc = "claiming" /\ ~waiting => ch # "none"
    /\ ch # "none" => pc \in {"waiting", "claiming"}

\* Restarts and crashes never refill a step's auto-fix budget
\* (executionStateForStep, SetCIFixAttempts).
AutoFixBudget == \A s \in Steps : autoFixes[s] <= AutoFixLimit[s]

\* dispatchableStepResult never has cause to refuse a row.
DispatchesPending == pc = "dispatch" /\ cur \in Steps => st[cur] \in {"pending", "skipped"}

\* Whatever crashed or restarted, the rows are ones the loop dispatches and recovery accepts.
RowsConsistent == TypeOK /\ ParkedGateIsRecoverable /\ DispatchesPending

\* A skipped step stays skipped through restarts and recoveries
\* (ResetStepsFrom, ResetStepsFromOrder).
SkippedStaysSkipped == [][\A s \in Steps : st[s] = "skipped" => st'[s] = "skipped"]_vars

\* A cancelled run ends, wherever its executor was (unless the daemon dies).
CancelledRunEnds == cause # "none" ~> pc \in {"ended", "down"}

\* A CI gate whose pull request is merged closes without anybody's ruling
\* (waitForApprovalOrReconcile).
MergedGateCloses ==
    pc = "waiting" /\ cur = CI /\ forge = "merged" ~> pc # "waiting"

\* docs/reference/pipeline-steps.md:89: a late CI repair revokes the review's
\* authority, "so the repaired head must pass review again" before a run whose
\* pull request is still open is marked completed.
RepairedHeadReviewed ==
    pc = "completing" /\ st[CI] = "completed" /\ st[Review] = "completed" /\ prState \notin TerminalPR
        => memHead \in reviewed

\* What the run promises of the branch, whatever its steps, restarts and crashes.
Promise == INSTANCE ReviewedPush
    WITH made <- 1..commits, lines <- lineage, head <- runHead, grant <- approved,
         examined <- reviewed, delivered <- remote

\* The executor, the rows and the steps together keep the abstract promise: every
\* one of their writes is a step of it or changes nothing it speaks of.
KeepsPromise == Promise!PromiseSpec
=============================================================================
