----------------------------- MODULE GateDrive ------------------------------
(***************************************************************************)
(* Rulings on a parked gate: internal/pipeline/respond.go on the daemon's  *)
(* side; on the client's side the loop of "axi run" that answers gates     *)
(* under --yes, "axi respond" with its idempotency key, and "axi abort"    *)
(* (internal/cli/axi_drive.go, axi_response.go, run_reconciler.go).        *)
(*                                                                         *)
(* The executor is Pipeline's subject: here a step of the run works, parks *)
(* with or without actionable findings, and takes one ruling.  A client's  *)
(* call may reach the daemon at any time after it was sent, the client may *)
(* die or lose the answer meanwhile, and the daemon may die and come back. *)
(* A wake-up of the drive loop only leads to a read of the run, so the     *)
(* loop may read at any time.                                              *)
(***************************************************************************)
EXTENDS Naturals, FiniteSets

CONSTANTS
    LastStep,              \* the run has steps 1..LastStep
    MaxYesFixRounds,       \* maxYesFixRoundsPerStep
    MaxRounds,             \* bound: rounds of a step
    MaxDrives,             \* bound: starts of the drive loop
    MaxKeys,               \* bound: rulings of "axi respond"
    MaxCrashes             \* bound: deaths of the daemon

ASSUME DriveAssumption ==
    /\ LastStep \in Nat \ {0}
    /\ MaxYesFixRounds \in Nat /\ MaxRounds \in Nat /\ MaxDrives \in Nat
    /\ MaxKeys \in Nat /\ MaxCrashes \in Nat

Steps == 1..LastStep
Parked == {"parked", "parked_after_fix"}
TerminalRun == {"completed", "failed", "cancelled"}

VARIABLES
    \* rows
    runStatus, noFix, step, status, rounds, fixRounds, actionable, receipts,
    \* the daemon
    exec,        \* "live", "none" (no executor for the run) or "down" (no daemon)
    waiting,     \* Executor.waiting
    chan,        \* approvalCh: a set of at most one ruling
    ctxDone,     \* the run's context is cancelled
    crashes,
    wire,        \* calls of the respond method not handled yet
    \* the drive loop
    dpc, yes, snap, pendingGate, fixedSteps, drives, dn,
    \* axi respond
    rpc, rkey, ruling, acceptedRound,
    \* axi abort
    apc,
    \* history
    applied      \* rulings the executor took, each with its gate

rows == <<runStatus, noFix, step, status, rounds, fixRounds, actionable>>
mem == <<exec, waiting, chan, ctxDone>>
loopMem == <<yes, snap, pendingGate, fixedSteps>>
drive == <<dpc, loopMem, drives, dn>>
respond == <<rpc, rkey, ruling, acceptedRound>>
driveVars == <<rows, receipts, mem, crashes, wire, drive, respond, apc, applied>>

NoSnap == [step |-> 0]
NoGate == <<0, "none", 0>>
NoRuling == [by |-> "none"]
NoFixes == [s \in Steps |-> 0]

\* A skip leaves the gate as an approval does.
Actions == {"approve", "fix"}

Rulings == [by : {"drive", "respond"}, n : Nat, step : Steps, action : Actions, saw : Nat]

DriveTypeOK ==
    /\ runStatus \in TerminalRun \cup {"running"}
    /\ step \in Steps /\ status \in Parked \cup {"running", "fixing"}
    /\ rounds \in 0..MaxRounds /\ fixRounds \in 0..rounds
    /\ exec \in {"live", "none", "down"} /\ waiting \in BOOLEAN
    /\ chan \subseteq Rulings /\ Cardinality(chan) <= 1
    /\ wire \subseteq Rulings
    /\ dpc \in {"idle", "next", "decide", "sent"}
    /\ yes \in BOOLEAN /\ fixedSteps \in [Steps -> Nat] /\ drives \in 0..MaxDrives
    /\ rpc \in {"idle", "sent", "unknown", "accepted"}
    /\ apc \in {"idle", "polling", "aborted", "noop", "unconfirmed"}

DriveInit ==
    /\ runStatus = "running" /\ noFix \in BOOLEAN
    /\ step = 1 /\ status = "running" /\ rounds = 0 /\ fixRounds = 0 /\ actionable = FALSE
    /\ receipts = {}
    /\ exec = "live" /\ waiting = FALSE /\ chan = {} /\ ctxDone = FALSE
    /\ crashes = 0 /\ wire = {}
    /\ dpc = "idle" /\ yes = FALSE /\ snap = NoSnap /\ pendingGate = NoGate
    /\ fixedSteps = NoFixes /\ drives = 0 /\ dn = 0
    /\ rpc = "idle" /\ rkey = 0 /\ ruling = NoRuling /\ acceptedRound = 0
    /\ apc = "idle"
    /\ applied = {}

-----------------------------------------------------------------------------
(* The executor at a step and its gate.                                    *)

Working == exec = "live" /\ runStatus = "running" /\ status \in {"running", "fixing"}

\* The park is written and the gate opened under one lock.
StepParks(findings) ==
    /\ Working /\ rounds < MaxRounds
    /\ rounds' = rounds + 1
    /\ fixRounds' = fixRounds + (IF status = "fixing" THEN 1 ELSE 0)
    /\ status' = IF status = "fixing" THEN "parked_after_fix" ELSE "parked"
    /\ actionable' = findings
    /\ waiting' = TRUE
    /\ UNCHANGED <<runStatus, noFix, step, receipts, exec, chan, ctxDone, crashes, wire,
                   drive, respond, apc, applied>>

\* The step is over: the next one starts, or the run completes.
StepOver ==
    IF step = LastStep
    THEN /\ runStatus' = "completed" /\ exec' = "none" /\ status' = "running"
         /\ UNCHANGED <<step, rounds, fixRounds, actionable>>
    ELSE /\ step' = step + 1 /\ status' = "running" /\ rounds' = 0 /\ fixRounds' = 0
         /\ actionable' = FALSE
         /\ UNCHANGED <<runStatus, exec>>

StepPasses ==
    /\ Working /\ StepOver
    /\ UNCHANGED <<noFix, receipts, waiting, chan, ctxDone, crashes, wire,
                   drive, respond, apc, applied>>

\* The executor takes the ruling and leaves the gate.
TakeRuling ==
    /\ exec = "live" /\ status \in Parked
    /\ \E r \in chan :
        /\ applied' = applied \cup
             {[ruling |-> r, step |-> step, round |-> rounds, dirty |-> actionable,
               funded |-> fixRounds]}
        /\ IF r.action = "fix"
           THEN status' = "fixing" /\ UNCHANGED <<runStatus, exec, step, rounds, fixRounds, actionable>>
           ELSE StepOver
    /\ chan' = {} /\ waiting' = FALSE
    /\ UNCHANGED <<noFix, receipts, ctxDone, crashes, wire, drive, respond, apc>>

\* The executor ends the run: its context was cancelled, or a step failed.
ExecutorEnds(outcome) ==
    /\ exec = "live" /\ runStatus = "running"
    /\ IF ctxDone THEN outcome = "cancelled" ELSE outcome = "failed" /\ Working
    /\ runStatus' = outcome
    /\ exec' = "none" /\ waiting' = FALSE /\ chan' = {}
    /\ UNCHANGED <<noFix, step, status, rounds, fixRounds, actionable, receipts, ctxDone, crashes,
                   wire, drive, respond, apc, applied>>

Crash ==
    /\ exec # "down" /\ crashes < MaxCrashes
    /\ crashes' = crashes + 1
    /\ exec' = "down" /\ waiting' = FALSE /\ chan' = {} /\ ctxDone' = FALSE /\ wire' = {}
    /\ UNCHANGED <<rows, receipts, drive, respond, apc, applied>>

\* The next daemon fails the runs that were not parked and serves; a parked run
\* gets its executor back, and its gate reopens at the same round.
Restart ==
    /\ exec = "down"
    /\ exec' = "none"
    /\ runStatus' = IF runStatus = "running" /\ status \notin Parked THEN "failed" ELSE runStatus
    /\ UNCHANGED <<noFix, step, status, rounds, fixRounds, actionable, receipts, waiting, chan, ctxDone,
                   crashes, wire, drive, respond, apc, applied>>

Reopen ==
    /\ exec = "none" /\ runStatus = "running"
    /\ exec' = "live" /\ waiting' = TRUE
    /\ UNCHANGED <<rows, receipts, chan, ctxDone, crashes, wire, drive, respond, apc, applied>>

-----------------------------------------------------------------------------
(* The respond method.                                                     *)

SameKey(r, q) == r.by = q.by /\ r.n = q.n

\* ReplayResponse: the key was accepted before, with this ruling or another.
Replayed(r) == \E q \in receipts : SameKey(r, q.ruling)
SameRuling(r) ==
    \E q \in receipts :
        SameKey(r, q.ruling) /\ q.ruling.step = r.step /\ q.ruling.action = r.action

\* Mutant: the receipt is looked up only when no executor is left.
AdmissibleForgetful(r) ==
    exec = "live" /\ waiting /\ r.step = step /\ ~(noFix /\ r.action = "fix")

\* AcceptResponse's checks: the gate is open, and it is this step's.
Admissible(r) ==
    /\ ~Replayed(r)
    /\ exec = "live" /\ waiting /\ r.step = step
    /\ ~(noFix /\ r.action = "fix")

\* The process is gone, and its memory with it.
LoopReturns == dpc' = "idle" /\ yes' = FALSE /\ snap' = NoSnap /\ pendingGate' = NoGate /\ fixedSteps' = NoFixes
RespondReturns == rpc' = "idle" /\ ruling' = NoRuling /\ acceptedRound' = 0

\* What the caller that still waits for this call is told.
AnswerDrive(r, ok) ==
    IF r.by = "drive" /\ dpc = "sent" /\ r.n = dn
    THEN IF ok THEN dpc' = "next" /\ UNCHANGED loopMem ELSE LoopReturns
    ELSE UNCHANGED <<dpc, loopMem>>

AnswerRespond(r, ok, round) ==
    IF r.by = "respond" /\ rpc = "sent" /\ r.n = rkey
    THEN IF ok THEN rpc' = "accepted" /\ acceptedRound' = round /\ UNCHANGED ruling
         ELSE RespondReturns
    ELSE UNCHANGED <<rpc, acceptedRound, ruling>>

ReceiptFor(r) == [ruling |-> r, step |-> step, round |-> rounds]

\* enqueueResponse closes the gate and fills the single-slot channel.
Enqueue(r) == waiting' = FALSE /\ chan' = chan \cup {r}

\* Receipt and hand-over happen under the lock the gate opens and closes under.
AcceptResponse(r) ==
    /\ exec # "down" /\ r \in wire
    /\ wire' = wire \ {r}
    /\ Admissible(r)
    /\ receipts' = receipts \cup {ReceiptFor(r)}
    /\ Enqueue(r)
    /\ AnswerDrive(r, TRUE) /\ AnswerRespond(r, TRUE, rounds)
    /\ UNCHANGED <<rows, exec, ctxDone, crashes, drives, dn, rkey, apc, applied>>

\* A replay returns the recorded acceptance, with or without an executor.
AnswerReplay(r) ==
    /\ exec # "down" /\ r \in wire /\ ~Admissible(r)
    /\ wire' = wire \ {r}
    /\ LET ok == Replayed(r) /\ SameRuling(r)
           q == CHOOSE q \in receipts : SameKey(r, q.ruling)
       IN  AnswerDrive(r, ok) /\ AnswerRespond(r, ok, IF ok THEN q.round ELSE acceptedRound)
    /\ UNCHANGED <<rows, receipts, mem, crashes, drives, dn, rkey, apc, applied>>

-----------------------------------------------------------------------------
(* The drive loop: driveRunWithReconciler.                                 *)

\* A loop attaches to the run; an earlier one is gone, with or without word.
DriveStarts(y) ==
    /\ dpc = "idle" /\ drives < MaxDrives /\ exec # "down" /\ runStatus = "running"
    /\ drives' = drives + 1
    /\ dpc' = "next" /\ yes' = y
    /\ snap' = NoSnap /\ pendingGate' = NoGate /\ fixedSteps' = NoFixes
    /\ UNCHANGED <<rows, receipts, mem, crashes, wire, dn, respond, apc, applied>>

\* runReconciler.Next: the run is read anew, after a reconnection if need be.
DriveReads ==
    /\ dpc = "next" /\ exec # "down"
    /\ snap' = [step |-> step, status |-> status, rounds |-> rounds, fixRounds |-> fixRounds,
                actionable |-> actionable, run |-> runStatus]
    /\ dpc' = "decide"
    /\ UNCHANGED <<rows, receipts, mem, crashes, wire, yes, pendingGate, fixedSteps, drives, dn,
                   respond, apc, applied>>

\* A log chunk wakes the loop with the run as it was last read.
DriveHearsLog ==
    /\ dpc = "next" /\ snap # NoSnap
    /\ dpc' = "decide"
    /\ UNCHANGED <<rows, receipts, mem, crashes, wire, yes, snap, pendingGate, fixedSteps, drives, dn,
                   respond, apc, applied>>

\* No daemon within the reconnection time: the loop returns an error.
DriveGivesUp ==
    /\ dpc = "next" /\ exec = "down"
    /\ LoopReturns
    /\ UNCHANGED <<rows, receipts, mem, crashes, wire, drives, dn, respond, apc, applied>>

GateKey == <<snap.step, snap.status, snap.fixRounds>>

\* Mutant: each loop has a budget of its own.
UsedOwnCount == fixedSteps[snap.step]

\* Persisted rounds or the loop's own count, whichever is higher.
Used == IF fixedSteps[snap.step] > snap.fixRounds THEN fixedSteps[snap.step] ELSE snap.fixRounds

\* gateResolution: approve, fix, or "none" for a gate handed back.
gateResolution ==
    CASE noFix \/ ~snap.actionable -> "approve"
      [] ~noFix /\ snap.actionable /\ Used < MaxYesFixRounds -> "fix"
      [] OTHER -> "none"

\* Nothing to decide: the loop waits for the next wake-up.
DriveWaits ==
    /\ dpc = "decide" /\ snap.run = "running"
    /\ IF snap.status \in Parked THEN yes /\ pendingGate = GateKey /\ pendingGate' = pendingGate
       ELSE pendingGate' = NoGate
    /\ dpc' = "next"
    /\ UNCHANGED <<rows, receipts, mem, crashes, wire, yes, snap, fixedSteps, drives, dn,
                   respond, apc, applied>>

\* A gate for somebody else to decide, or the run's end.
DriveReturns ==
    /\ dpc = "decide"
    /\ \/ snap.run # "running"
       \/ snap.status \in Parked /\ ~yes
       \/ snap.status \in Parked /\ yes /\ pendingGate # GateKey /\ gateResolution = "none"
    /\ LoopReturns
    /\ UNCHANGED <<rows, receipts, mem, crashes, wire, drives, dn, respond, apc, applied>>

\* The loop answers the gate it read, under a fresh key.
DriveAnswers ==
    /\ dpc = "decide" /\ snap.run = "running" /\ snap.status \in Parked
    /\ yes /\ pendingGate # GateKey /\ gateResolution # "none"
    /\ fixedSteps' = IF gateResolution = "fix" THEN [fixedSteps EXCEPT ![snap.step] = Used + 1] ELSE fixedSteps
    /\ dn' = dn + 1
    /\ wire' = wire \cup {[by |-> "drive", n |-> dn', step |-> snap.step, action |-> gateResolution, saw |-> snap.rounds]}
    /\ pendingGate' = GateKey
    /\ dpc' = "sent"
    /\ UNCHANGED <<rows, receipts, mem, crashes, yes, snap, drives, respond, apc, applied>>

\* The loop dies, or loses the answer and returns the error: the call may still arrive.
DriveDies ==
    /\ dpc # "idle"
    /\ LoopReturns
    /\ UNCHANGED <<rows, receipts, mem, crashes, wire, drives, dn, respond, apc, applied>>

\* The daemon died with the call: an error, and the loop returns it.
DriveCallBreaks ==
    /\ dpc = "sent" /\ \A r \in wire : ~(r.by = "drive" /\ r.n = dn)
    /\ LoopReturns
    /\ UNCHANGED <<rows, receipts, mem, crashes, wire, drives, dn, respond, apc, applied>>

-----------------------------------------------------------------------------
(* axi respond and axi abort.                                              *)

RespondSends(action) ==
    /\ rpc = "idle" /\ rkey < MaxKeys /\ exec # "down" /\ status \in Parked /\ runStatus = "running"
    /\ rkey' = rkey + 1
    /\ ruling' = [by |-> "respond", n |-> rkey', step |-> step, action |-> action, saw |-> rounds]
    /\ wire' = wire \cup {ruling'}
    /\ rpc' = "sent"
    /\ UNCHANGED <<rows, receipts, mem, crashes, drive, acceptedRound, apc, applied>>

\* The answer is lost: the ruling may have been accepted.
RespondLosesAnswer ==
    /\ rpc = "sent"
    /\ rpc' = "unknown"
    /\ UNCHANGED <<rows, receipts, mem, crashes, wire, drive, rkey, ruling, acceptedRound, apc, applied>>

\* The same ruling is sent again with the same key, as the error message asks.
RespondRetries ==
    /\ rpc = "unknown" /\ exec # "down"
    /\ wire' = wire \cup {ruling}
    /\ rpc' = "sent"
    /\ UNCHANGED <<rows, receipts, mem, crashes, drive, rkey, ruling, acceptedRound, apc, applied>>

\* waitStepLeavesAcceptedGate, then the loop without --yes.
RespondLeaves ==
    /\ rpc = "accepted" /\ exec # "down"
    /\ runStatus # "running" \/ step # ruling.step \/ status \notin Parked \/ rounds > acceptedRound
    /\ RespondReturns
    /\ UNCHANGED <<rows, receipts, mem, crashes, wire, drive, rkey, apc, applied>>

\* The cancel method needs an executor; without one the row decides.
Abort ==
    /\ apc = "idle"
    /\ \/ exec = "live" /\ ctxDone' = TRUE /\ apc' = "polling"
       \/ exec # "live" /\ apc' = (IF runStatus = "running" THEN "unconfirmed" ELSE "noop")
          /\ UNCHANGED ctxDone
    /\ UNCHANGED <<rows, receipts, exec, waiting, chan, crashes, wire, drive, respond, applied>>

waitForTerminalRun ==
    /\ apc = "polling"
    /\ \/ exec # "down" /\ runStatus # "running" /\ apc' = "aborted"
       \/ runStatus = "running" /\ apc' = "unconfirmed"
       \/ exec = "down" /\ apc' = "unconfirmed"
    /\ UNCHANGED <<rows, receipts, mem, crashes, wire, drive, respond, applied>>

-----------------------------------------------------------------------------

Executor ==
    \/ \E f \in BOOLEAN : StepParks(f)
    \/ StepPasses \/ TakeRuling
    \/ \E o \in {"cancelled", "failed"} : ExecutorEnds(o)

Daemon == Restart \/ Reopen
Serves(c) == \E r \in wire : r.by = c /\ (AcceptResponse(r) \/ AnswerReplay(r))
Loop == DriveWaits \/ DriveReturns \/ DriveAnswers \/ DriveCallBreaks

DriveNext ==
    \/ Executor \/ Crash \/ Daemon \/ (\E c \in {"drive", "respond"} : Serves(c))
    \/ (\E y \in BOOLEAN : DriveStarts(y)) \/ DriveReads \/ Loop \/ DriveHearsLog \/ DriveGivesUp \/ DriveDies
    \/ (\E a \in Actions : RespondSends(a))
    \/ RespondLosesAnswer \/ RespondRetries \/ RespondLeaves
    \/ Abort \/ waitForTerminalRun

DriveSpec == DriveInit /\ [][DriveNext]_driveVars

\* The executor works, the daemon comes back and serves, and the loop's
\* heartbeat reads the run again and again.
DriveFairSpec ==
    /\ DriveSpec
    /\ WF_driveVars(Executor) /\ WF_driveVars(Daemon) /\ WF_driveVars(Serves("drive"))
    /\ WF_driveVars(Loop) /\ SF_driveVars(DriveReads)

-----------------------------------------------------------------------------
(* Properties.                                                             *)

\* A ruling takes effect once, however often its call is repeated and wherever
\* the daemon died (AcceptResponse, ReplayResponse).
RulingTakenOnce ==
    \A a, b \in applied : SameKey(a.ruling, b.ruling) => a = b

\* A ruling takes effect on the round its receipt names, and only with one
\* (AcceptResponse holds the lock the gate opens and closes under).
ReceiptNamesRound ==
    \A a \in applied : \E q \in receipts :
        SameKey(a.ruling, q.ruling) /\ q.step = a.step /\ q.round = a.round

\* Another client answered the gate between the loop's read and its ruling.
Overtaken(a) == a.ruling.saw # a.round

\* --yes funds no fix beyond the step's budget, however often loops reattach,
\* unless another ruling came between what the loop read and what it answered.
YesKeepsBudget ==
    \A a \in applied :
        a.ruling.by = "drive" /\ a.ruling.action = "fix" /\ ~Overtaken(a) => a.funded < MaxYesFixRounds

\* --yes approves no actionable finding, with the same exception (gateResolution).
YesPassesNoFinding ==
    \A a \in applied :
        a.ruling.by = "drive" /\ a.ruling.action = "approve" /\ a.dirty => noFix \/ Overtaken(a)

\* What --yes answers by itself stays within its budget and passes no finding.
YesIsBounded == YesKeepsBudget /\ YesPassesNoFinding

\* A confirmed abort is final: the run has ended and takes no further ruling
\* (waitForTerminalRun).
AbortIsFinal == apc = "aborted" => runStatus \in TerminalRun /\ chan = {} /\ exec # "live"

\* A ruling takes effect once, on the round it was accepted for, and never after an abort
\* that was confirmed.
RulingsSettle == DriveTypeOK /\ RulingTakenOnce /\ ReceiptNamesRound /\ AbortIsFinal

\* axi_drive.go: "axi run" validates "blocking until a decision point or the
\* outcome": with an executor that works and a daemon that comes back when it
\* died, the loop returns.
DriveComesBack == dpc = "next" ~> dpc = "idle"
=============================================================================
