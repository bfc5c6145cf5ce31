-------------------------------- MODULE Screen --------------------------------
(***************************************************************************)
(* What the terminal keeps about the gates of a run (internal/tui): the    *)
(* rows and findings it shows, the notes and findings its user adds at a   *)
(* gate, the diff of a fix it reads on demand, the ruling it sends, and    *)
(* the state it drops when a frame, a snapshot, a new connection or a      *)
(* rerun replaces what it shows.                                           *)
(*                                                                         *)
(* How frames reach the terminal and how a read can be torn is             *)
(* EventStream's subject.  Here the mailbox holds MaxFrames frames and     *)
(* folds what it cannot hold into a gap, and a snapshot is read at once.   *)
(* A set of findings is known by the round of its step that produced it.   *)
(* Cursor, selection, scrolling and drawing are left out.                  *)
(***************************************************************************)
EXTENDS Integers, Sequences, FiniteSets

CONSTANTS
    Kinds,       \* what findings call for: "ask" the user, a "fix", or nothing ("info")
    NSteps,      \* the steps, 1..NSteps in their order
    MaxRounds,   \* bound: rounds of a step
    MaxChanges,  \* bound: changes of the run while it is watched
    MaxFrames,   \* bound: frames held for the terminal
    MaxBreaks,   \* bound: lost connections, calls that fail, reruns
    MaxPresses   \* bound: keys the user presses that rule, edit or turn yolo on or off

ASSUME ScreenBounds ==
    /\ Kinds \subseteq {"ask", "fix", "info"}
    /\ {NSteps, MaxRounds, MaxChanges, MaxFrames} \subseteq Nat \ {0}
    /\ {MaxBreaks, MaxPresses} \subseteq Nat

Steps == 1..NSteps
Statuses == {"pending", "running", "parked", "fixed", "fixing", "completed"}
Gates == {"parked", "fixed"}     \* ParkedForApproval and ParkedAfterFix

NoFindings == [round |-> 0, kind |-> "info"]
FindingSets == {NoFindings} \cup [round : 1..MaxRounds, kind : {"ask", "fix", "info"}]

VARIABLES
    job,       \* the daemon's run
    gapped,    \* frames were folded into a gap
    frames,    \* the frames on their way
    m,         \* the Model
    reads,     \* get_step_diff calls in flight
    snapshot,  \* the get_run call in flight
    rulings,   \* respond calls in flight
    breaks, presses

daemonVars == <<job, gapped, frames>>
boundVars == <<breaks, presses>>
screenVars == <<daemonVars, m, reads, snapshot, rulings, boundVars>>

NewJob(no) == [no |-> no, rev |-> 0, over |-> FALSE,
               status |-> [s \in Steps |-> "pending"], found |-> [s \in Steps |-> NoFindings]]

NoSnapshot == [at |-> "idle", run |-> NewJob(0)]

\* of: the run and the round whose worktree a diff was read from.
Nothing == [no |-> 0, round |-> 0]
NoEditor == [kind |-> "none", step |-> 1, round |-> 0]

\* NewModel
NewModel(run) ==
    [no |-> run.no, rev |-> 0, done |-> run.over, status |-> run.status, found |-> run.found,
     count |-> [s \in Steps |-> run.found[s].round],            \* RoundCount
     edits |-> [s \in Steps |-> {}],                            \* findingInstructions, addedFindings
     editor |-> NoEditor,
     loaded |-> [s \in Steps |-> Nothing],                      \* stepDiffs, stepDiffLoaded
     fetching |-> [s \in Steps |-> FALSE], retryDiff |-> FALSE,
     pending |-> FALSE, again |-> FALSE, retryRead |-> FALSE,   \* of the reconciliation
     link |-> "down",                                           \* "lost" while streamClosed
     yolo |-> FALSE, yoloFixed |-> {}, yoloApproved |-> {}]

\* newest: of the latest stepDiffRequestID; mine: of the present subscriptionID.
Reads == [step : Steps, newest : BOOLEAN, mine : BOOLEAN, at : {"asked", "read", "shown", "failed"},
          of : [no : 0..MaxBreaks, round : 0..MaxRounds]]

\* A note, or a finding of the user's own: the round it was written about, and
\* whether another gate had been entered behind the open editor.
Edits == [kind : {"note", "added"}, round : 1..MaxRounds, late : BOOLEAN]

ScreenTypeOK ==
    /\ job.status \in [Steps -> Statuses] /\ job.found \in [Steps -> FindingSets]
    /\ gapped \in BOOLEAN /\ Len(frames) <= MaxFrames
    /\ m.status \in [Steps -> Statuses] /\ m.found \in [Steps -> FindingSets]
    /\ m.edits \in [Steps -> SUBSET Edits]
    /\ m.editor \in [kind : {"none", "note", "added"}, step : Steps, round : 0..MaxRounds]
    /\ m.link \in {"up", "lost", "down"} /\ m.yoloFixed \cup m.yoloApproved \subseteq Steps
    /\ reads \subseteq Reads /\ snapshot.at \in {"idle", "asked", "read", "failed"}

\* NewModel, for a run that has just begun or that waits at its first gate.
ScreenInit ==
    /\ \/ job = NewJob(0)
       \/ \E gate \in Gates, k \in {"ask", "fix"} :
            job = [NewJob(0) EXCEPT !.status[1] = gate, !.found[1] = [round |-> 1, kind |-> k]]
    /\ gapped = FALSE /\ frames = <<>>
    /\ m = NewModel(job)
    /\ reads = {} /\ snapshot = NoSnapshot /\ rulings = {}
    /\ breaks = 0 /\ presses = 0

-----------------------------------------------------------------------------
(* The daemon, as the terminal sees it: the rows are written and the event  *)
(* goes to the mailbox.                                                    *)

Publish(frame) ==
    IF gapped \/ m.link # "up" THEN UNCHANGED <<gapped, frames>>
    ELSE IF Len(frames) < MaxFrames THEN frames' = Append(frames, frame) /\ gapped' = gapped
    ELSE gapped' = TRUE /\ frames' = frames

Becomes(s, status, found) ==
    /\ ~job.over /\ job.rev < MaxChanges
    /\ job' = [job EXCEPT !.rev = @ + 1, !.status[s] = status, !.found[s] = found]
    /\ Publish([kind |-> "status", rev |-> job.rev + 1, step |-> s, status |-> status, found |-> found])
    /\ UNCHANGED <<m, reads, snapshot, boundVars>>

StepBegins(s) ==
    /\ job.status[s] = "pending" /\ \A t \in 1..s - 1 : job.status[t] = "completed"
    /\ Becomes(s, "running", job.found[s])
    /\ UNCHANGED rulings

\* A round ends at a gate, in a fix the executor starts itself, or with the step.
RoundEnds(s) ==
    /\ job.status[s] \in {"running", "fixing"}
    /\ LET round == job.found[s].round + 1
           gate == IF job.status[s] = "fixing" THEN "fixed" ELSE "parked"
       IN  \/ \E k \in Kinds : round <= MaxRounds /\ Becomes(s, gate, [round |-> round, kind |-> k])
           \/ /\ job.status[s] = "running" /\ round < MaxRounds
              /\ Becomes(s, "fixing", [round |-> round, kind |-> "fix"])
           \/ Becomes(s, "completed", job.found[s])
    /\ UNCHANGED rulings

Ruled(s, action) ==
    IF action = "fix" /\ job.found[s].round < MaxRounds
    THEN Becomes(s, "fixing", job.found[s])
    ELSE Becomes(s, "completed", job.found[s])

\* Another client rules at the gate.
OthersRule(s) ==
    /\ job.status[s] \in Gates
    /\ \E a \in {"approve", "fix"} : Ruled(s, a)
    /\ UNCHANGED rulings

\* HandleRespond: a ruling that meets a gate of its step is taken; a call that
\* fails ends in an errMsg.
TakeRuling ==
    \E r \in rulings :
        /\ rulings' = rulings \ {r}
        /\ IF ~job.over /\ job.no = r.no /\ job.status[r.step] \in Gates
           THEN Ruled(r.step, r.action)
           ELSE UNCHANGED <<daemonVars, m, reads, snapshot, boundVars>>

JobEnds ==
    /\ ~job.over
    /\ job' = [job EXCEPT !.rev = @ + 1, !.over = TRUE]
    /\ Publish([kind |-> "completed", rev |-> job.rev + 1, step |-> 1, status |-> "completed", found |-> NoFindings])
    /\ UNCHANGED <<m, reads, snapshot, rulings, boundVars>>

\* StepDiff: the worktree as it is when the call is served.
ServeDiff ==
    \E r \in {d \in reads : d.at = "asked"} :
        /\ \/ /\ reads' = (reads \ {r}) \cup
                    {[r EXCEPT !.at = "read", !.of = [no |-> job.no, round |-> job.found[r.step].round]]}
              /\ breaks' = breaks
           \/ /\ breaks < MaxBreaks
              /\ breaks' = breaks + 1
              /\ reads' = (reads \ {r}) \cup {[r EXCEPT !.at = "failed"]}
        /\ UNCHANGED <<daemonVars, m, snapshot, rulings, presses>>

\* get_run
ServeSnapshot ==
    /\ snapshot.at = "asked"
    /\ \/ snapshot' = [at |-> "read", run |-> job] /\ breaks' = breaks
       \/ breaks < MaxBreaks /\ breaks' = breaks + 1 /\ snapshot' = [snapshot EXCEPT !.at = "failed"]
    /\ UNCHANGED <<daemonVars, m, reads, rulings, presses>>

-----------------------------------------------------------------------------
(* What an update reads of a model, and what it makes of it.               *)

NoStep == 0

\* The first step at a gate.
awaitingStep(status) ==
    LET at == {s \in Steps : status[s] \in Gates}
    IN  IF at = {} THEN NoStep ELSE CHOOSE s \in at : \A t \in at : s <= t

stepInFixReview(x, s) == ~x.done /\ x.status[s] = "fixed"
hasFixReviewStep(x) == \E s \in Steps : stepInFixReview(x, s)

approvalReady(x, s) ==
    /\ ~x.pending /\ ~x.retryRead
    /\ x.status[s] = "fixed" => ~x.retryDiff /\ x.loaded[s] # Nothing /\ ~x.fetching[s]

reviewRetryAvailable(x) == x.retryRead \/ (x.retryDiff /\ hasFixReviewStep(x))

\* invalidateStepDiff, of every step in S.
invalidateStepDiff(x, S) ==
    [x EXCEPT !.loaded = [s \in Steps |-> IF s \in S THEN Nothing ELSE @[s]],
              !.fetching = [s \in Steps |-> s \notin S /\ @[s]],
              !.retryDiff = @ /\ hasFixReviewStep(x)]

invalidateInactiveStepDiffs(x) == invalidateStepDiff(x, {s \in Steps : ~stepInFixReview(x, s)})

requestStepDiff(x, s) ==
    [x EXCEPT !.loaded[s] = Nothing, !.fetching[s] = TRUE, !.retryDiff = FALSE]

\* What the calls in flight are after it: an invalidated or repeated request is
\* not the newest any more, and drainDiffFetches issues the new one.  What is
\* asked and outdated before it is served is left out: no one reads the answer.
Served(rs) == {r \in rs : r.at # "asked"}
Outdated(S) == {r \in reads : r.step \notin S} \cup
               {[r EXCEPT !.newest = FALSE] : r \in {q \in Served(reads) : q.step \in S}}
Requested(s) == {[step |-> s, newest |-> TRUE, mine |-> TRUE, at |-> "asked", of |-> Nothing]}

\* startResubscribe: what the old connection still brings is not of this one.
startResubscribe(x) ==
    [x EXCEPT !.link = "down", !.rev = 0, !.pending = FALSE, !.again = FALSE,
              !.loaded = [s \in Steps |-> Nothing], !.fetching = [s \in Steps |-> FALSE]]
Orphaned(rs) == {[r EXCEPT !.mine = FALSE] : r \in Served(rs)}

\* reconcileCmd: one read at a time.
reconcileCmd(x) ==
    IF x.pending THEN m' = [x EXCEPT !.again = TRUE] /\ UNCHANGED snapshot
    ELSE m' = [x EXCEPT !.pending = TRUE, !.retryRead = FALSE] /\ snapshot' = [NoSnapshot EXCEPT !.at = "asked"]

-----------------------------------------------------------------------------
(* Rulings.                                                                *)

Press == presses < MaxPresses /\ presses' = presses + 1

\* respondCmd; that a fix needs a selected finding is left to the user.
respondCmd(s, action) == rulings' = rulings \cup {[no |-> m.no, step |-> s, action |-> action]}

\* The keys a, f and s.
PressRuling ==
    LET s == awaitingStep(m.status) IN
    /\ m.editor = NoEditor /\ s # NoStep /\ approvalReady(m, s)
    /\ Press
    /\ \E a \in {"approve", "fix"} : respondCmd(s, a)
    /\ UNCHANGED <<daemonVars, m, reads, snapshot, breaks>>

\* maybeAutoApproveCmd, at the end of an update: one fix and one approval of a
\* step, and no ruling on findings that ask the user, unless a fix was made.
YoloRules(x) ==
    LET s == awaitingStep(x.status) IN
    /\ x.yolo /\ ~x.done /\ s # NoStep /\ s \notin x.yoloApproved /\ approvalReady(x, s)
    /\ x.status[s] = "parked" => x.found[s].kind # "ask"

YoloFixes(x) ==
    LET s == awaitingStep(x.status)
    IN  x.status[s] = "parked" /\ s \notin x.yoloFixed /\ x.found[s].kind = "fix"

maybeAutoApprove(x) ==
    LET s == awaitingStep(x.status) IN
    IF ~YoloRules(x) THEN m' = x /\ rulings' = rulings
    ELSE IF YoloFixes(x) THEN m' = [x EXCEPT !.yoloFixed = @ \cup {s}] /\ respondCmd(s, "fix")
    ELSE m' = [x EXCEPT !.yoloApproved = @ \cup {s}] /\ respondCmd(s, "approve")

\* The key y.
PressYolo ==
    /\ m.editor = NoEditor
    /\ Press
    /\ maybeAutoApprove([m EXCEPT !.yolo = ~@])
    /\ UNCHANGED <<daemonVars, reads, snapshot, breaks>>

-----------------------------------------------------------------------------
(* The editors.                                                            *)

\* The keys e and +.
OpenEditor ==
    LET s == awaitingStep(m.status) IN
    /\ m.editor = NoEditor /\ s # NoStep
    /\ Press
    /\ \E k \in {"note", "added"} :
        m' = [m EXCEPT !.editor = [kind |-> k, step |-> s, round |-> m.found[s].round]]
    /\ UNCHANGED <<daemonVars, reads, snapshot, rulings, breaks>>

\* saveInstruction and saveAddFinding: at the editor's step, whatever is shown now.
SaveEditor ==
    LET s == m.editor.step
        edit == [kind |-> m.editor.kind, round |-> m.editor.round, late |-> m.editor.round # m.found[s].round]
    IN  /\ m.editor # NoEditor
        /\ m' = [m EXCEPT !.edits[s] = {x \in @ : x.kind = "added" \/ edit.kind = "added"} \cup {edit},
                          !.editor = NoEditor]
        /\ UNCHANGED <<daemonVars, reads, snapshot, rulings, boundVars>>

\* esc
CloseEditor ==
    /\ m.editor # NoEditor
    /\ m' = [m EXCEPT !.editor = NoEditor]
    /\ UNCHANGED <<daemonVars, reads, snapshot, rulings, boundVars>>

\* A note that is emptied, or removeUserFinding.
RemoveEdit ==
    LET s == awaitingStep(m.status) IN
    /\ m.editor = NoEditor /\ s # NoStep
    /\ \E x \in m.edits[s] : m' = [m EXCEPT !.edits[s] = @ \ {x}]
    /\ UNCHANGED <<daemonVars, reads, snapshot, rulings, boundVars>>

-----------------------------------------------------------------------------
(* Messages.                                                               *)

\* applyEvent, for a gap: the diff on show is not trusted any more.
ApplyGap ==
    LET s == awaitingStep(m.status) IN
    /\ m.link = "up" /\ gapped /\ ~m.done
    /\ gapped' = FALSE
    /\ reconcileCmd(IF s # NoStep /\ m.status[s] = "fixed" THEN [m EXCEPT !.loaded[s] = Nothing] ELSE m)
    /\ UNCHANGED <<job, frames, reads, rulings, boundVars>>

\* EventStepStatusChanged and EventStepStarted: updateStepStatus, and what is
\* dropped when a gate is entered with its findings.  An open editor stays open.
ApplyStatus(f) ==
    LET s == f.step
        entered == f.status \in Gates /\ f.found # NoFindings
        x == [m EXCEPT !.rev = f.rev, !.status[s] = f.status,
                       !.found[s] = IF entered THEN f.found ELSE @,
                       !.edits[s] = IF entered THEN {} ELSE @]
    IN  IF f.status = "fixed"
        THEN maybeAutoApprove(requestStepDiff(x, s)) /\ reads' = Outdated({s}) \cup Requested(s)
        ELSE maybeAutoApprove(invalidateStepDiff(x, {s})) /\ reads' = Outdated({s})

\* EventRunCompleted
ApplyCompleted(f) ==
    /\ m' = invalidateInactiveStepDiffs([m EXCEPT !.rev = f.rev, !.done = TRUE])
    /\ reads' = Outdated(Steps) /\ rulings' = rulings

\* eventMsg
applyEvent ==
    /\ m.link = "up" /\ ~gapped /\ frames # <<>> /\ ~m.done
    /\ frames' = Tail(frames)
    /\ LET f == Head(frames) IN
       \/ f.rev <= m.rev /\ maybeAutoApprove(m) /\ reads' = reads
       \/ f.rev > m.rev /\ f.kind = "status" /\ ApplyStatus(f)
       \/ f.rev > m.rev /\ f.kind = "completed" /\ ApplyCompleted(f)
    /\ UNCHANGED <<job, gapped, snapshot, boundVars>>

\* sameGateState
sameGateState(old, new, run) ==
    IF old = NoStep \/ new = NoStep THEN old = new
    ELSE old = new /\ <<m.status[old], m.count[old], m.found[old]>> =
                      <<run.status[new], run.found[new].round, run.found[new]>>

\* reconcileGateState and clearGateState: the steps whose gate has changed.
ClearedGates(run) ==
    LET old == awaitingStep(m.status)
        new == awaitingStep(run.status)
    IN  IF sameGateState(old, new, run) THEN {} ELSE {old, new}

\* applySnapshot
applySnapshot(run) ==
    LET gone == ClearedGates(run)
        x == invalidateInactiveStepDiffs(
               [m EXCEPT !.rev = run.rev, !.status = run.status, !.found = run.found,
                         !.count = [s \in Steps |-> run.found[s].round],
                         !.done = @ \/ run.over, !.retryRead = FALSE,
                         !.edits = [s \in Steps |-> IF s \in gone THEN {} ELSE @[s]],
                         !.editor = IF @.step \in gone THEN NoEditor ELSE @])
        s == awaitingStep(run.status)
    IN  IF s # NoStep /\ run.status[s] = "fixed" THEN requestStepDiff(x, s) ELSE x

SnapshotReads(run) ==
    LET s == awaitingStep(run.status)
    IN  Outdated({t \in Steps : run.status[t] # "fixed" \/ m.done \/ t = s})
            \cup (IF s # NoStep /\ run.status[s] = "fixed" THEN Requested(s) ELSE {})

\* runReconciledMsg: an old snapshot is refused and asked for again; a stream
\* lost meanwhile is taken up.
Reconciled ==
    /\ snapshot.at = "read"
    /\ LET taken == snapshot.run.rev >= m.rev
           x == IF taken THEN applySnapshot(snapshot.run) ELSE m
           rs == IF taken THEN SnapshotReads(snapshot.run) ELSE reads
           once == m.again \/ ~taken
       IN  \/ /\ once
              /\ m' = [x EXCEPT !.again = FALSE, !.retryRead = FALSE]
              /\ reads' = rs /\ snapshot' = [NoSnapshot EXCEPT !.at = "asked"]
           \/ /\ ~once
              /\ snapshot' = NoSnapshot
              /\ IF m.link = "lost" /\ ~x.done
                 THEN m' = startResubscribe(x) /\ reads' = Orphaned(rs)
                 ELSE m' = [x EXCEPT !.pending = FALSE] /\ reads' = rs
    /\ UNCHANGED <<daemonVars, rulings, boundVars>>

\* runReconciledMsg, with an error.
ReconcileErrs ==
    /\ snapshot.at = "failed"
    /\ snapshot' = NoSnapshot
    /\ LET x == [m EXCEPT !.pending = FALSE, !.again = FALSE, !.retryRead = TRUE]
       IN  IF m.link = "lost" /\ ~m.done
           THEN m' = startResubscribe(x) /\ reads' = Orphaned(reads)
           ELSE m' = x /\ reads' = reads
    /\ UNCHANGED <<daemonVars, rulings, boundVars>>

\* stepDiffMsg: the answer is to the latest request, on the present connection.
diffAnswered(r) == r.mine /\ r.newest

StepDiffMsg ==
    \E r \in {d \in reads : d.at \in {"read", "failed"}} :
        /\ IF ~diffAnswered(r) THEN m' = m /\ reads' = reads \ {r}
           ELSE IF ~stepInFixReview(m, r.step)
           THEN m' = invalidateStepDiff(m, {r.step}) /\ reads' = Outdated({r.step}) \ {[r EXCEPT !.newest = FALSE]}
           ELSE IF r.at = "read"
           THEN /\ m' = [m EXCEPT !.fetching[r.step] = FALSE, !.retryDiff = FALSE, !.loaded[r.step] = r.of]
                /\ reads' = (reads \ {r}) \cup {[r EXCEPT !.at = "shown"]}
           ELSE /\ m' = [m EXCEPT !.fetching[r.step] = FALSE, !.retryDiff = TRUE, !.loaded[r.step] = Nothing]
                /\ reads' = reads \ {r}
        /\ UNCHANGED <<daemonVars, snapshot, rulings, boundVars>>

StepDiffReadyMsg ==
    \E r \in {d \in reads : d.at = "shown"} :
        /\ reads' = reads \ {r}
        /\ IF diffAnswered(r) THEN maybeAutoApprove(m) ELSE UNCHANGED <<m, rulings>>
        /\ UNCHANGED <<daemonVars, snapshot, boundVars>>

\* retryReviewCmd, the key r.
RetryDiff ==
    LET s == awaitingStep(m.status) IN
    /\ m.editor = NoEditor /\ m.retryDiff /\ ~m.retryRead /\ s # NoStep /\ m.status[s] = "fixed"
    /\ m' = requestStepDiff(m, s) /\ reads' = Outdated({s}) \cup Requested(s)
    /\ UNCHANGED <<daemonVars, snapshot, rulings, boundVars>>

RetryRead ==
    LET s == awaitingStep(m.status)
        both == m.retryDiff /\ s # NoStep /\ m.status[s] = "fixed"
    IN  /\ m.editor = NoEditor /\ m.retryRead
        /\ reconcileCmd(IF both THEN requestStepDiff([m EXCEPT !.retryRead = FALSE], s)
                        ELSE [m EXCEPT !.retryRead = FALSE])
        /\ reads' = IF both THEN Outdated({s}) \cup Requested(s) ELSE reads
        /\ UNCHANGED <<daemonVars, rulings, boundVars>>

-----------------------------------------------------------------------------
(* Connections and reruns.                                                 *)

\* subscriptionErrMsg: a read in flight is waited for.
StreamBreaks ==
    /\ m.link = "up" /\ ~m.done /\ breaks < MaxBreaks
    /\ breaks' = breaks + 1
    /\ gapped' = FALSE /\ frames' = <<>>
    /\ IF m.pending THEN m' = [m EXCEPT !.link = "lost"] /\ reads' = reads
       ELSE m' = startResubscribe(m) /\ reads' = Orphaned(reads)
    /\ UNCHANGED <<job, snapshot, rulings, presses>>

\* subscribeCmd and connectedMsg: a mailbox opens with a gap.
Connected ==
    /\ m.link = "down" /\ ~m.done
    /\ m' = [m EXCEPT !.link = "up"]
    /\ gapped' = TRUE /\ frames' = <<>>
    /\ UNCHANGED <<job, reads, snapshot, rulings, boundVars>>

\* The key r on an ended run, rerunStartedMsg and resetForRun: everything of the
\* old run goes; its request numbers start again, so that an old answer may
\* carry the number of a new request.
Rerun ==
    /\ m.done /\ job.over /\ ~reviewRetryAvailable(m) /\ m.editor = NoEditor /\ breaks < MaxBreaks
    /\ breaks' = breaks + 1
    /\ job' = NewJob(job.no + 1)
    /\ gapped' = FALSE /\ frames' = <<>>
    /\ m' = NewModel(job')
    /\ reads' = {[r EXCEPT !.mine = FALSE, !.newest = TRUE] : r \in Served(reads)}
    /\ snapshot' = NoSnapshot
    /\ UNCHANGED <<rulings, presses>>

-----------------------------------------------------------------------------

\* handleKey: an open editor takes the keys first.  A key that scrolls, moves a
\* cursor, selects or shows help leaves all of this alone.
handleKey ==
    \/ SaveEditor \/ CloseEditor
    \/ PressRuling \/ PressYolo \/ OpenEditor \/ RemoveEdit
    \/ RetryDiff \/ RetryRead \/ Rerun

ScreenNext ==
    \/ \E s \in Steps : StepBegins(s) \/ RoundEnds(s) \/ OthersRule(s)
    \/ TakeRuling \/ JobEnds \/ ServeDiff \/ ServeSnapshot
    \/ handleKey
    \/ ApplyGap \/ applyEvent \/ Reconciled \/ ReconcileErrs \/ StepDiffMsg \/ StepDiffReadyMsg
    \/ StreamBreaks \/ Connected

ScreenSpec == ScreenInit /\ [][ScreenNext]_screenVars

-----------------------------------------------------------------------------
(* Properties.                                                             *)

\* "The diff-readiness check still applies to post-fix approval" (commands.go):
\* when a fix on show may be ruled on, the diff that goes with it was read from
\* this run's worktree, in that round of the step or a later one.
DiffIsCurrent ==
    LET s == awaitingStep(m.status) IN
    s # NoStep /\ m.status[s] = "fixed" /\ approvalReady(m, s) /\ ~m.done =>
        m.loaded[s].no = m.no /\ m.loaded[s].round >= m.found[s].round

\* Notes and findings of the user never outlive the gate they were written at,
\* through frames, snapshots and new connections; but for what an editor saves
\* that was open when the next gate was announced.
EditsBelong ==
    LET s == awaitingStep(m.status) IN
    s # NoStep => \A x \in m.edits[s] : x.round = m.found[s].round \/ x.late

\* A gate that may not be ruled on yet will be, or its user is offered to retry.
GateNeverWedged ==
    LET s == awaitingStep(m.status) IN
    s # NoStep /\ ~m.done /\ ~approvalReady(m, s) =>
        \/ m.pending /\ snapshot.at # "idle"
        \/ \E r \in reads : r.step = s /\ r.newest /\ r.mine /\ r.at # "shown"
        \/ reviewRetryAvailable(m) \/ gapped \/ m.link # "up"

ScreenSafe == ScreenTypeOK /\ DiffIsCurrent /\ EditsBelong /\ GateNeverWedged
=============================================================================
