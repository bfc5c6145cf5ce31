---------------------------- MODULE EventStream ----------------------------
(***************************************************************************)
(* How a terminal follows a run: the executor writes state and announces   *)
(* it (internal/pipeline/executor.go), the daemon stamps a revision and    *)
(* keeps a bounded mailbox per subscriber (internal/daemon/manager.go,     *)
(* eventmailbox.go), a socket carries the frames (internal/ipc/client.go), *)
(* and the TUI applies them, or reads the run again when it is told that   *)
(* some were folded away (internal/tui).                                   *)
(*                                                                         *)
(* State is one version number per row: the run's row and the rows of its  *)
(* steps.  The content of a log frame, the diff of a fix review and the    *)
(* revision a gap frame carries are left out: nothing here reads them.     *)
(***************************************************************************)
EXTENDS Integers, Sequences, FiniteSets, SequencesExt

CONSTANTS
    MaxEvents,   \* mailboxMaxEvents
    MaxBytes,    \* mailboxMaxBytes, in units of a small frame
    Sizes,       \* sizes of a state frame, in the same unit
    WireCap,     \* frames the socket and the client's channel hold
    MaxTries,    \* maxResubscribeTries
    MaxWrites,   \* bound: state the executor writes before the run ends
    MaxLogs,     \* bound: log chunks
    MaxFaults    \* bound: broken connections, failed calls, daemon crashes

ASSUME BoundsAssumption ==
    /\ {MaxEvents, MaxBytes, WireCap} \subseteq Nat \ {0}
    /\ {MaxTries, MaxWrites, MaxLogs, MaxFaults} \subseteq Nat
    /\ Sizes \subseteq Nat \ {0}

Rows == {"run", "steps"}
Versions == 0..(MaxWrites + 1)

VARIABLES
    \* the executor and the database
    db,          \* version of each row
    writes,      \* versions written so far
    fin,         \* the version that ended the run, 0 while it is active
    alive,       \* an executor works on the run
    unsent,      \* what was written and not announced yet
    \* the daemon
    rev,         \* m.stateRevs
    finished,    \* m.completedRuns
    registered,  \* the mailbox is in m.subscribers
    ring, gap, closed,
    serving,     \* the goroutine that streams the mailbox
    \* the connection
    wire, wireEnd,
    \* the TUI's model
    link,        \* "connecting", "open", or "lost" when streamClosed
    armed,       \* a waitForEvent is outstanding
    view,        \* the version it shows of each row
    stateRev, done,
    pending,     \* reconcilePending
    again,       \* reconcileAgain
    retry,       \* reviewRetryReconcile
    tries,       \* resubscribeTries
    read,        \* the get_run call in flight
    dead,        \* the connection m.client calls on is gone: it is never redialled
    \* bounds
    logs, faults

dbVars == <<db, writes, fin, alive, unsent>>
boxVars == <<registered, ring, gap, closed>>
brokerVars == <<rev, finished>>
wireVars == <<wire, wireEnd, serving>>
linkVars == <<link, armed, tries>>
viewVars == <<view, stateRev, done>>
readVars == <<pending, again, retry, read>>
callVars == <<readVars, dead>>
vars == <<dbVars, boxVars, brokerVars, wireVars, linkVars, viewVars, callVars, logs, faults>>

Frame(kind, row, v) == [kind |-> kind, row |-> row, v |-> v, rev |-> 0, size |-> 1]
NoFrame == Frame("none", "none", 0)
GapFrame == Frame("gap", "none", 0)
LogFrame == Frame("log", "none", 0)

\* "changed": a frame that carries what was written; "reset": steps_reset, which
\* does not; "completed": run_completed.
Kinds == {"none", "gap", "log", "changed", "reset", "completed"}
Frames == [kind : Kinds, row : Rows \cup {"none"}, v : Versions, rev : Nat, size : Sizes \cup {1}]

NoRead == [at |-> "idle", rev |-> 0, got |-> [r \in Rows |-> 0]]
NewRead == [NoRead EXCEPT !.at = "asked"]

TypeOK ==
    /\ db \in [Rows -> Versions] /\ writes \in Versions /\ fin \in Versions
    /\ alive \in BOOLEAN /\ unsent \in Frames
    /\ rev \in Nat /\ finished \in BOOLEAN
    /\ registered \in BOOLEAN /\ ring \in Seq(Frames) /\ gap \in BOOLEAN /\ closed \in BOOLEAN
    /\ wire \in Seq(Frames) /\ wireEnd \in BOOLEAN /\ serving \in BOOLEAN
    /\ link \in {"connecting", "open", "lost"} /\ armed \in BOOLEAN /\ tries \in 0..MaxTries
    /\ view \in [Rows -> Versions] /\ stateRev \in Nat /\ done \in BOOLEAN
    /\ pending \in BOOLEAN /\ again \in BOOLEAN /\ retry \in BOOLEAN
    /\ read \in [at : {"idle", "asked", "sampled", "half", "answered", "failed"},
                 rev : Nat, got : [Rows -> Versions]]
    /\ dead \in BOOLEAN
    /\ logs \in 0..MaxLogs /\ faults \in 0..MaxFaults

\* NewModel, given the run as it was read before the TUI came up.
Init ==
    /\ db = [r \in Rows |-> 0] /\ writes = 0 /\ fin = 0 /\ alive = TRUE /\ unsent = NoFrame
    /\ rev = 0 /\ finished = FALSE
    /\ registered = FALSE /\ ring = <<>> /\ gap = FALSE /\ closed = TRUE
    /\ wire = <<>> /\ wireEnd = TRUE /\ serving = FALSE
    /\ link = "connecting" /\ armed = FALSE /\ tries = 0
    /\ view = db /\ stateRev = 0 /\ done = FALSE
    /\ pending = FALSE /\ again = FALSE /\ retry = FALSE /\ read = NoRead /\ dead = FALSE
    /\ logs = 0 /\ faults = 0

-----------------------------------------------------------------------------
(* The mailbox.                                                            *)

Bytes(s) == FoldSeq(LAMBDA e, n : n + e.size, 0, s)

hasRoom(s, size) == Len(s) < MaxEvents /\ Bytes(s) + size <= MaxBytes

\* The ring without its k oldest activity frames.
WithoutLogs(k) ==
    LET logsUpTo(i) == Cardinality({j \in 1..i : ring[j].kind = "log"})
        kept == {i \in DOMAIN ring : ring[i].kind # "log" \/ logsUpTo(i) > k}
        nth(n) == CHOOSE i \in kept : Cardinality({j \in kept : j <= i}) = n
    IN  [n \in 1..Cardinality(kept) |-> ring[nth(n)]]

\* evictActivityLocked: as few activity frames as make room, or all of them.
evictActivity(size) ==
    LET held == Cardinality({i \in DOMAIN ring : ring[i].kind = "log"})
        enough == {k \in 0..held : hasRoom(WithoutLogs(k), size)}
    IN  WithoutLogs(IF enough = {} THEN held ELSE CHOOSE k \in enough : \A j \in enough : k <= j)

\* publish, for a state frame: queued, or folded into the gap.
publish(e) ==
    LET kept == IF hasRoom(ring, e.size) THEN ring ELSE evictActivity(e.size)
    IN  IF gap THEN UNCHANGED <<ring, gap>>
        ELSE IF hasRoom(kept, e.size) THEN ring' = Append(kept, e) /\ gap' = gap
        ELSE ring' = kept /\ gap' = TRUE

\* release, and the mailbox's removal from m.subscribers.
release ==
    /\ ring' = <<>> /\ gap' = FALSE /\ closed' = TRUE /\ registered' = FALSE

-----------------------------------------------------------------------------
(* The executor: every producer writes, and only then announces.           *)

\* A change of the run's row or of a step's, or resetStepsFrom.
WriteRow ==
    /\ alive /\ fin = 0 /\ unsent = NoFrame
    /\ writes < MaxWrites
    /\ writes' = writes + 1
    /\ \E r \in Rows :
        /\ db' = [db EXCEPT ![r] = writes + 1]
        /\ unsent' \in {Frame("changed", r, writes + 1)}
                        \cup {e \in {Frame("reset", r, writes + 1)} : r = "steps"}
    /\ UNCHANGED <<fin, alive, boxVars, brokerVars, wireVars, linkVars, viewVars, callVars, logs, faults>>

\* completeRun and failRun; a panic, or a Resume that fails early, ends the run
\* without an event.
EndRun ==
    /\ alive /\ fin = 0 /\ unsent = NoFrame
    /\ writes' = writes + 1
    /\ db' = [db EXCEPT !["run"] = writes + 1]
    /\ fin' = writes + 1
    /\ unsent' \in {Frame("completed", "run", writes + 1), NoFrame}
    /\ UNCHANGED <<alive, boxVars, brokerVars, wireVars, linkVars, viewVars, callVars, logs, faults>>

\* broadcast
Broadcast ==
    /\ unsent # NoFrame
    /\ rev' = rev + 1
    /\ unsent' = NoFrame
    /\ IF registered
       THEN \E size \in Sizes : publish([unsent EXCEPT !.rev = rev + 1, !.size = size])
       ELSE UNCHANGED <<ring, gap>>
    /\ UNCHANGED <<db, writes, fin, alive, registered, closed, finished>>
    /\ UNCHANGED <<wireVars, linkVars, viewVars, callVars, logs, faults>>

\* publish, for a log chunk: dropped when there is no room.
EmitLog ==
    /\ alive /\ fin = 0 /\ registered /\ logs < MaxLogs
    /\ logs' = logs + 1
    /\ ring' = IF hasRoom(ring, 1) THEN Append(ring, LogFrame) ELSE ring
    /\ UNCHANGED <<dbVars, registered, gap, closed, brokerVars, wireVars, linkVars, viewVars, callVars, faults>>

\* closeSubscribers, when the executor has returned: a soft close.
closeSubscribers ==
    /\ alive /\ fin # 0 /\ unsent = NoFrame
    /\ alive' = FALSE
    /\ finished' = TRUE
    /\ registered' = FALSE
    /\ closed' = (closed \/ registered)
    /\ UNCHANGED <<db, writes, fin, unsent, rev, ring, gap, wireVars, linkVars, viewVars, callVars, logs, faults>>

-----------------------------------------------------------------------------
(* The stream, and what breaks it.                                         *)

\* next, and the send of what it returns: the gap goes ahead of the ring.
Send ==
    /\ serving /\ Len(wire) < WireCap
    /\ \/ gap /\ gap' = FALSE /\ ring' = ring /\ wire' = Append(wire, GapFrame)
       \/ /\ ~gap /\ ring # <<>>
          /\ gap' = gap /\ ring' = Tail(ring) /\ wire' = Append(wire, Head(ring))
    /\ UNCHANGED <<dbVars, registered, closed, brokerVars, wireEnd, serving, linkVars, viewVars, callVars, logs, faults>>

\* A mailbox that is closed and drained ends the stream.
StreamEnds ==
    /\ serving /\ closed /\ ~gap /\ ring = <<>>
    /\ serving' = FALSE
    /\ wireEnd' = TRUE
    /\ UNCHANGED <<dbVars, boxVars, brokerVars, wire, linkVars, viewVars, callVars, logs, faults>>

\* The connection breaks: what the client has not got from the socket is lost.
CutWire ==
    /\ serving' = FALSE
    /\ wireEnd' = TRUE
    /\ \E n \in 0..Len(wire) : wire' = SubSeq(wire, 1, n)
    /\ release

Disconnect ==
    /\ serving /\ faults < MaxFaults
    /\ faults' = faults + 1
    /\ CutWire
    /\ UNCHANGED <<dbVars, brokerVars, linkVars, viewVars, callVars, logs>>

\* A call that is being answered when the daemon goes away fails.
BreakCall == [read EXCEPT !.at = IF @ \in {"asked", "sampled", "half"} THEN "failed" ELSE @]

\* The daemon crashes and another starts: the revisions start again from 0, and
\* the run is resumed at its gate, or failed without an event.
RestartDaemon ==
    /\ faults < MaxFaults
    /\ faults' = faults + 1
    /\ CutWire
    /\ rev' = 0 /\ finished' = FALSE
    /\ unsent' = NoFrame
    /\ read' = BreakCall /\ dead' = TRUE
    /\ \/ fin = 0 /\ UNCHANGED <<db, writes, fin, alive>>
       \/ /\ fin = 0
          /\ writes' = writes + 1 /\ fin' = writes + 1
          /\ db' = [r \in Rows |-> writes + 1]
          /\ alive' = FALSE
       \/ fin # 0 /\ alive' = FALSE /\ UNCHANGED <<db, writes, fin>>
    /\ UNCHANGED <<linkVars, viewVars, pending, again, retry, logs>>

-----------------------------------------------------------------------------
(* get_run: the revision is sampled before the rows are read, the run's     *)
(* row before those of the steps.                                          *)

\* Mutant: the revision is the one of the moment the read is complete.
runSnapshotLate ==
    /\ read' = CASE read.at = "asked" -> [read EXCEPT !.at = "sampled"]
                 [] read.at = "sampled" -> [read EXCEPT !.at = "half", !.got["run"] = db["run"]]
                 [] read.at = "half" -> [read EXCEPT !.at = "answered", !.got["steps"] = db["steps"], !.rev = rev]

runSnapshot ==
    /\ read' = CASE read.at = "asked" -> [read EXCEPT !.at = "sampled", !.rev = rev]
                 [] read.at = "sampled" -> [read EXCEPT !.at = "half", !.got["run"] = db["run"]]
                 [] read.at = "half" -> [read EXCEPT !.at = "answered", !.got["steps"] = db["steps"]]

AnswerGetRun ==
    /\ read.at \in {"asked", "sampled", "half"} /\ ~dead
    /\ runSnapshot
    /\ UNCHANGED <<dbVars, boxVars, brokerVars, wireVars, linkVars, viewVars, pending, again, retry, dead, logs, faults>>

\* The daemon answers with an error, or reconcileTimeout ends the call: the
\* scanner that met the deadline reads nothing more.
GetRunFails ==
    /\ read.at \in {"asked", "sampled", "half"} /\ ~dead /\ faults < MaxFaults
    /\ faults' = faults + 1
    /\ read' = [read EXCEPT !.at = "failed"]
    /\ dead' \in BOOLEAN
    /\ UNCHANGED <<dbVars, boxVars, brokerVars, wireVars, linkVars, viewVars, pending, again, retry, logs>>

\* A call on a connection that is gone.
CallOnDeadConn ==
    /\ read.at = "asked" /\ dead
    /\ read' = [read EXCEPT !.at = "failed"]
    /\ UNCHANGED <<dbVars, boxVars, brokerVars, wireVars, linkVars, viewVars, pending, again, retry, dead, logs, faults>>

-----------------------------------------------------------------------------
(* The TUI.                                                                *)

\* reconcileCmd: one read at a time; a request that meets one asks for another.
reconcileCmd ==
    IF pending
    THEN again' = TRUE /\ UNCHANGED <<pending, retry, read>>
    ELSE pending' = TRUE /\ read' = NewRead /\ retry' = FALSE /\ again' = again

\* startResubscribe, with `spent` tries behind it.
startResubscribe(spent) ==
    IF spent >= MaxTries
    THEN link' = "lost" /\ tries' = spent /\ stateRev' = stateRev
    ELSE link' = "connecting" /\ tries' = spent + 1 /\ stateRev' = 0

\* subscriptionErrMsg: a read in flight is waited for.
subscriptionErr ==
    /\ armed' = FALSE
    /\ IF done THEN UNCHANGED <<link, tries, stateRev>>
       ELSE IF pending THEN link' = "lost" /\ UNCHANGED <<tries, stateRev>>
       ELSE startResubscribe(tries)

\* Subscribe: a mailbox that opens with a gap; closed at once for a run that
\* has completed.
Subscribe ==
    /\ link = "connecting"
    /\ link' = "open"
    /\ armed' = ~done
    /\ IF done THEN UNCHANGED <<boxVars, wireVars>>
       ELSE /\ ring' = <<>> /\ gap' = TRUE
            /\ closed' = finished /\ registered' = ~finished
            /\ wire' = <<>> /\ wireEnd' = FALSE /\ serving' = TRUE
    /\ UNCHANGED <<dbVars, brokerVars, tries, viewVars, callVars, logs, faults>>

SubscribeFails ==
    /\ link = "connecting" /\ faults < MaxFaults
    /\ faults' = faults + 1
    /\ subscriptionErr
    /\ UNCHANGED <<dbVars, boxVars, brokerVars, wireVars, view, done, callVars, logs>>

StreamLost ==
    /\ armed /\ wire = <<>> /\ wireEnd
    /\ subscriptionErr
    /\ UNCHANGED <<dbVars, boxVars, brokerVars, wireVars, view, done, callVars, logs, faults>>

\* applyEvent, for a state frame newer than the model.
applyState(e) ==
    /\ stateRev' = e.rev
    /\ view' = IF e.kind = "reset" THEN view ELSE [view EXCEPT ![e.row] = e.v]
    /\ done' = (done \/ e.kind = "completed")
    /\ IF e.kind = "reset" THEN reconcileCmd ELSE UNCHANGED readVars

\* eventMsg
applyEvent ==
    /\ armed /\ wire # <<>>
    /\ wire' = Tail(wire)
    /\ LET e == Head(wire) IN
       \/ e.kind = "gap" /\ reconcileCmd /\ UNCHANGED viewVars
       \/ e.kind = "log" /\ UNCHANGED <<readVars, viewVars>>
       \/ e.kind \notin {"gap", "log"} /\ e.rev <= stateRev /\ UNCHANGED <<readVars, viewVars>>
       \/ e.kind \notin {"gap", "log"} /\ e.rev > stateRev /\ applyState(e)
    /\ armed' = ~done'
    /\ UNCHANGED <<dbVars, boxVars, brokerVars, wireEnd, serving, link, tries, dead, logs, faults>>
\* Mutant: a snapshot is taken whatever the model holds.
acceptsAny(snapshot) == TRUE

\* applySnapshot refuses a snapshot older than the model.
accepts(snapshot) == snapshot.rev >= stateRev

\* Mutant: a stream lost during the read is not taken up again.
ReconciledStays ==
    /\ read.at = "answered"
    /\ LET taken == accepts(read)
           once == again \/ ~taken
       IN  /\ view' = IF taken THEN read.got ELSE view
           /\ done' = (done \/ (taken /\ fin # 0 /\ read.got["run"] = fin))
           /\ retry' = FALSE
           /\ again' = FALSE
           /\ pending' = once
           /\ read' = IF once THEN NewRead ELSE NoRead
           /\ link' = link /\ tries' = 0
           /\ stateRev' = IF taken THEN read.rev ELSE stateRev
    /\ UNCHANGED <<dbVars, boxVars, brokerVars, wireVars, armed, dead, logs, faults>>

\* runReconciledMsg, with a snapshot.
Reconciled ==
    /\ read.at = "answered"
    /\ LET taken == accepts(read)
           once == again \/ ~taken
       IN  /\ view' = IF taken THEN read.got ELSE view
           /\ done' = (done \/ (taken /\ fin # 0 /\ read.got["run"] = fin))
           /\ retry' = FALSE
           /\ again' = FALSE
           /\ pending' = once
           /\ read' = IF once THEN NewRead ELSE NoRead
           /\ IF ~once /\ link = "lost" /\ ~done'
              THEN startResubscribe(0)
              ELSE /\ link' = link /\ tries' = 0
                   /\ stateRev' = IF taken THEN read.rev ELSE stateRev
    /\ UNCHANGED <<dbVars, boxVars, brokerVars, wireVars, armed, dead, logs, faults>>

\* runReconciledMsg, with an error: the model asks its user to retry.
ReconcileErrs ==
    /\ read.at = "failed"
    /\ pending' = FALSE /\ again' = FALSE /\ retry' = TRUE /\ read' = NoRead
    /\ IF link = "lost" /\ ~done THEN startResubscribe(tries) ELSE UNCHANGED <<link, tries, stateRev>>
    /\ UNCHANGED <<dbVars, boxVars, brokerVars, wireVars, armed, view, done, dead, logs, faults>>

\* retryReviewCmd
RetryReview ==
    /\ retry
    /\ reconcileCmd
    /\ UNCHANGED <<dbVars, boxVars, brokerVars, wireVars, linkVars, viewVars, dead, logs, faults>>

-----------------------------------------------------------------------------

\* What goes on by itself: goroutines, the socket, the TUI's event loop.
Progress ==
    \/ Broadcast \/ closeSubscribers
    \/ Send \/ StreamEnds \/ AnswerGetRun \/ CallOnDeadConn
    \/ Subscribe \/ StreamLost \/ applyEvent \/ Reconciled \/ ReconcileErrs

Environment ==
    \/ WriteRow \/ EndRun \/ EmitLog
    \/ Disconnect \/ RestartDaemon \/ GetRunFails \/ SubscribeFails
    \/ RetryReview

Next == Progress \/ Environment

Spec == Init /\ [][Next]_vars

\* Every goroutine is scheduled, and the TUI's loop takes every message.
FairSpec ==
    /\ Spec
    /\ WF_vars(Broadcast \/ closeSubscribers)
    /\ WF_vars(Send \/ StreamEnds)
    /\ WF_vars(AnswerGetRun \/ CallOnDeadConn)
    /\ WF_vars(Subscribe) /\ WF_vars(applyEvent \/ StreamLost)
    /\ WF_vars(Reconciled \/ ReconcileErrs)

-----------------------------------------------------------------------------
(* Properties.                                                             *)

InStream == {wire[i] : i \in DOMAIN wire} \cup {ring[i] : i \in DOMAIN ring}

\* The read in flight will show row r as it is, or will be asked for again.
ReadWillShow(r) ==
    pending /\ \/ again \/ read.at \in {"asked", "failed"}
               \/ read.rev < stateRev
               \/ read.at = "sampled" \/ (read.at = "half" /\ r = "steps")
               \/ read.got[r] = db[r]

\* The TUI will hear of row r: a frame that carries the row and that the
\* revision guard lets through, or anything that makes it read the run again;
\* of an end without an event, by the end of the stream.
WillHear(r) ==
    \/ unsent # NoFrame \/ gap \/ wireEnd \/ retry
    \/ \E e \in InStream :
        \/ e.kind = "gap"
        \/ e.rev > stateRev /\ (e.kind = "reset" \/ (e.row = r /\ e.v = db[r]))
    \/ ReadWillShow(r)
    \/ r = "run" /\ fin # 0 /\ (alive \/ closed)

\* No transition is silently lost (eventmailbox.go: state is delivered or folded
\* into a gap; daemon.go: the revision is sampled before the read): whatever a
\* connected TUI does not show yet, something on its way will make it show.
NothingLost == link = "open" /\ ~done => \A r \in Rows : view[r] = db[r] \/ WillHear(r)

\* What a connected screen lacks is on its way, through every bound of the mailbox.
StreamSafe == TypeOK /\ NothingLost

\* applySnapshot: reads that race each other, the stream or a new connection
\* never move the screen backwards.  What a daemon answered before it went away
\* is excepted: its revisions say nothing to those of the next daemon.
ReadsNeverRegress == [][wire' = wire /\ ~dead => \A r \in Rows : view'[r] >= view[r]]_vars

\* startResubscribe has no try left.
GaveUp == link = "lost" /\ tries = MaxTries

\* Whatever breaks, a run that has ended is noticed: by its frame, by a gap and
\* a read, or by the gap a new subscription opens with.  A TUI whose calls
\* cannot be answered any more is excepted, and one out of tries.
EndIsNoticed == fin # 0 ~> done \/ dead \/ GaveUp
=============================================================================
