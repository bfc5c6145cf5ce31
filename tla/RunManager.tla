----------------------------- MODULE RunManager -----------------------------
(***************************************************************************)
(* The daemon's run manager (internal/daemon/manager.go) through the life  *)
(* of a daemon process (internal/daemon/daemon.go): starting a run for a   *)
(* push or a rerun, superseding the branch's previous run, cancelling,     *)
(* shutting down, crashing, and recovering when the next daemon starts.    *)
(*                                                                         *)
(* A push is served by a handler goroutine (a Caller), a run by a          *)
(* goroutine of its own.  The executor inside that goroutine is Pipeline's *)
(* subject; here it executes, may park at a gate, and ends with a terminal *)
(* row.  The stages of the set-up that can fail (retaining objects, adding *)
(* the worktree, the git identity, the configuration, the agent) are       *)
(* merged into the three that differ in what they clean up.  Runs are      *)
(* numbered in the order their rows are inserted.                          *)
(***************************************************************************)
EXTENDS Naturals, FiniteSets

CONSTANTS
    Callers,     \* concurrent IPC handlers
    Branches,    \* branches of one repository
    MaxRuns,     \* bound: runs ever created
    MaxStarts    \* bound: daemon processes ever started

Runs == 1..MaxRuns
None == 0

ASSUME RunsAssumption ==
    /\ None \notin Callers /\ None \notin Branches
    /\ MaxRuns \in Nat /\ MaxStarts \in Nat

VARIABLES
    \* durable: rows and files
    row,         \* runs.status, "none" before the insert
    branch,      \* runs.branch
    parked,      \* the row is parked at a gate: awaiting_agent_since is set
    wt,          \* the run's worktree directory exists
    \* the daemon process
    daemon,      \* its phase
    starts,      \* daemon processes started so far
    plans,       \* runs recoverableParkedRuns vouched for
    shuttingDown,
    stop,        \* how far Shutdown has come
    tracked,     \* keys of the executors, cancels and dones maps
    cause,       \* the cause the run's context was cancelled with
    gor,         \* the run's goroutine
    locks,        \* holder of the branch's mutex
    cpc,         \* where each handler is
    target,      \* the branch it starts a run for
    mine,        \* the run it has inserted
    waits,       \* runs whose done channel it waits for
    \* history
    abandoned,   \* superseded runs a handler stopped waiting for
    leaked       \* worktrees left by a failed set-up

rows == <<row, branch, parked>>
process == <<daemon, starts, plans>>
stopping == <<shuttingDown, stop>>
runMem == <<tracked, cause, gor>>
handlers == <<cpc, target, mine, waits>>
history == <<abandoned, leaked>>
runsVars == <<rows, wt, process, stopping, runMem, locks, handlers, history>>

ActiveRow == {"starting", "running"}
TerminalRow == {"completed", "failed", "cancelled"}
CancelCauses == {"superseded", "user", "shutdown"}

RunsTypeOK ==
    /\ row \in [Runs -> ActiveRow \cup TerminalRow \cup {"none"}]
    /\ branch \in [Runs -> Branches \cup {None}]
    /\ parked \in [Runs -> BOOLEAN]
    /\ wt \in [Runs -> BOOLEAN]
    /\ daemon \in {"down", "recovering", "cleaning", "resuming", "serving"}
    /\ starts \in 0..MaxStarts
    /\ plans \subseteq Runs
    /\ shuttingDown \in BOOLEAN
    /\ stop \in {"none", "flagged", "waiting", "over"}
    /\ tracked \subseteq Runs
    /\ cause \in [Runs -> CancelCauses \cup {"none"}]
    /\ gor \in [Runs -> {"none", "executing", "returned", "untracked", "gone"}]
    /\ locks \in [Branches -> Callers \cup {None}]
    /\ cpc \in [Callers -> {"idle", "admitted", "locked", "waiting", "clear", "inserted", "added", "guarded"}]
    /\ target \in [Callers -> Branches \cup {None}]
    /\ mine \in [Callers -> Runs \cup {None}]
    /\ waits \in [Callers -> SUBSET Runs]
    /\ abandoned \subseteq Runs
    /\ leaked \subseteq Runs

RunsInit ==
    /\ row = [r \in Runs |-> "none"]
    /\ branch = [r \in Runs |-> None]
    /\ parked = [r \in Runs |-> FALSE]
    /\ wt = [r \in Runs |-> FALSE]
    /\ daemon = "down" /\ starts = 0 /\ plans = {}
    /\ shuttingDown = FALSE /\ stop = "none"
    /\ tracked = {}
    /\ cause = [r \in Runs |-> "none"]
    /\ gor = [r \in Runs |-> "none"]
    /\ locks = [b \in Branches |-> None]
    /\ cpc = [c \in Callers |-> "idle"]
    /\ target = [c \in Callers |-> None]
    /\ mine = [c \in Callers |-> None]
    /\ waits = [c \in Callers |-> {}]
    /\ abandoned = {} /\ leaked = {}

\* A goroutine whose executor has not returned.
Executing(r) == gor[r] = "executing"

\* cancel(cause) of a context: only the first cause counts.
Cancelled(rs, why) ==
    [r \in Runs |-> IF r \in rs /\ cause[r] = "none" THEN why ELSE cause[r]]

-----------------------------------------------------------------------------
(* Starting a run: startRunWithIntentSource.                               *)

\* Bound: a run is left for this handler and for those admitted before it.
RunsLeft ==
    Cardinality({r \in Runs : row[r] = "none"})
        > Cardinality({c \in Callers : cpc[c] # "idle" /\ mine[c] = None})

\* The shutdown flag is read once, before the branch lock is taken.
Admit(c, b) ==
    /\ daemon = "serving" /\ cpc[c] = "idle" /\ RunsLeft
    /\ ~shuttingDown
    /\ cpc' = [cpc EXCEPT ![c] = "admitted"]
    /\ target' = [target EXCEPT ![c] = b]
    /\ UNCHANGED <<rows, wt, process, stopping, runMem, locks, mine, waits, history>>

TakeLock(c) ==
    /\ cpc[c] = "admitted" /\ locks[target[c]] = None
    /\ locks' = [locks EXCEPT ![target[c]] = c]
    /\ cpc' = [cpc EXCEPT ![c] = "locked"]
    /\ UNCHANGED <<rows, wt, process, stopping, runMem, target, mine, waits, history>>

\* Mutant: the rows are not filtered by branch's own status, only tracked ones.
CancelActiveSparesParked(c) ==
    LET old == {r \in tracked : row[r] \in ActiveRow /\ branch[r] = target[c] /\ ~parked[r]}
    IN  /\ cpc[c] = "locked"
        /\ cause' = Cancelled(old, "superseded")
        /\ waits' = [waits EXCEPT ![c] = old]
        /\ cpc' = [cpc EXCEPT ![c] = "waiting"]
        /\ UNCHANGED <<rows, wt, process, stopping, tracked, gor, locks, target, mine, history>>

\* cancelActiveRuns: cancel the branch's active runs this daemon tracks.
CancelActive(c) ==
    LET old == {r \in tracked : row[r] \in ActiveRow /\ branch[r] = target[c]}
    IN  /\ cpc[c] = "locked"
        /\ cause' = Cancelled(old, "superseded")
        /\ waits' = [waits EXCEPT ![c] = old]
        /\ cpc' = [cpc EXCEPT ![c] = "waiting"]
        /\ UNCHANGED <<rows, wt, process, stopping, tracked, gor, locks, target, mine, history>>

\* Every done channel is closed.
WaitDone(c) ==
    /\ cpc[c] = "waiting"
    /\ \A r \in waits[c] : gor[r] = "gone"
    /\ cpc' = [cpc EXCEPT ![c] = "clear"]
    /\ waits' = [waits EXCEPT ![c] = {}]
    /\ UNCHANGED <<rows, wt, process, stopping, runMem, locks, target, mine, history>>

\* Mutant: no time limit.
WaitTimeoutNever(c) ==
    /\ cpc[c] = "waiting" /\ waits[c] = {}
    /\ UNCHANGED runsVars

\* Thirty seconds have passed: the handler goes on all the same.
WaitTimeout(c) ==
    /\ cpc[c] = "waiting"
    /\ \E r \in waits[c] : gor[r] # "gone"
    /\ abandoned' = abandoned \cup {r \in waits[c] : gor[r] # "gone"}
    /\ cpc' = [cpc EXCEPT ![c] = "clear"]
    /\ waits' = [waits EXCEPT ![c] = {}]
    /\ UNCHANGED <<rows, wt, process, stopping, runMem, locks, target, mine, leaked>>

InsertRun(c) ==
    /\ cpc[c] = "clear"
    /\ \E r \in Runs :
         /\ row[r] = "none" /\ \A q \in Runs : q < r => row[q] # "none"
         /\ row' = [row EXCEPT ![r] = "starting"]
         /\ branch' = [branch EXCEPT ![r] = target[c]]
         /\ mine' = [mine EXCEPT ![c] = r]
    /\ cpc' = [cpc EXCEPT ![c] = "inserted"]
    /\ UNCHANGED <<parked, wt, process, stopping, runMem, locks, target, waits, history>>

\* The handler returns and its deferred unlock runs.
Return(c) ==
    /\ locks' = [locks EXCEPT ![target[c]] = None]
    /\ cpc' = [cpc EXCEPT ![c] = "idle"]
    /\ target' = [target EXCEPT ![c] = None]
    /\ mine' = [mine EXCEPT ![c] = None]

AddWorktree(c) ==
    /\ cpc[c] = "inserted"
    /\ wt' = [wt EXCEPT ![mine[c]] = TRUE]
    /\ cpc' = [cpc EXCEPT ![c] = "added"]
    /\ UNCHANGED <<rows, process, stopping, runMem, locks, target, mine, waits, history>>

\* The identity is copied and the clean-up is deferred.
Guard(c) ==
    /\ cpc[c] = "added"
    /\ cpc' = [cpc EXCEPT ![c] = "guarded"]
    /\ UNCHANGED <<rows, wt, process, stopping, runMem, locks, target, mine, waits, history>>

\* Mutant: a stage of the set-up returns without marking the row.
SetupFailsSilently(c) ==
    /\ cpc[c] \in {"inserted", "added", "guarded"}
    /\ row' = [row EXCEPT ![mine[c]] = IF cpc[c] = "guarded" THEN @ ELSE "failed"]
    /\ wt' = [wt EXCEPT ![mine[c]] = @ /\ cpc[c] # "guarded"]
    /\ leaked' = IF cpc[c] = "added" THEN leaked \cup {mine[c]} ELSE leaked
    /\ Return(c)
    /\ UNCHANGED <<branch, parked, process, stopping, runMem, waits, abandoned>>

\* A stage fails: UpdateRunError, and the worktree goes if its removal has been
\* deferred by then.
SetupFails(c) ==
    /\ cpc[c] \in {"inserted", "added", "guarded"}
    /\ row' = [row EXCEPT ![mine[c]] = "failed"]
    /\ wt' = [wt EXCEPT ![mine[c]] = @ /\ cpc[c] # "guarded"]
    /\ leaked' = IF cpc[c] = "added" THEN leaked \cup {mine[c]} ELSE leaked
    /\ Return(c)
    /\ UNCHANGED <<branch, parked, process, stopping, runMem, waits, abandoned>>

\* The run is tracked, its goroutine started and its id returned.
Launch(c) ==
    /\ cpc[c] = "guarded"
    /\ tracked' = tracked \cup {mine[c]}
    /\ gor' = [gor EXCEPT ![mine[c]] = "executing"]
    /\ Return(c)
    /\ UNCHANGED <<rows, wt, process, stopping, cause, waits, history>>

-----------------------------------------------------------------------------
(* The run's goroutine.                                                    *)

ExecutorBegins(r) ==
    /\ Executing(r) /\ row[r] = "starting"
    /\ row' = [row EXCEPT ![r] = "running"]
    /\ UNCHANGED <<branch, parked, wt, process, stopping, runMem, locks, handlers, history>>

\* A gate opens or is answered.
ExecutorParks(r) ==
    /\ Executing(r) /\ row[r] = "running" /\ cause[r] = "none"
    /\ parked' = [parked EXCEPT ![r] = ~@]
    /\ UNCHANGED <<row, branch, wt, process, stopping, runMem, locks, handlers, history>>

\* The statuses an executor can end with: a failure or a panic; a completion,
\* even one that outruns the cancellation; failRun's status for a cancellation,
\* which is "failed" when the daemon shuts down.
Outcomes(r) ==
    {"failed"} \cup (IF row[r] = "running" /\ ~parked[r] THEN {"completed"} ELSE {})
               \cup (IF cause[r] \in {"user", "superseded"} THEN {"cancelled"} ELSE {})

\* Execute or Resume returns, or panics, with the row settled.
ExecutorReturns(r) ==
    /\ Executing(r)
    /\ \E s \in Outcomes(r) : row' = [row EXCEPT ![r] = s]
    /\ parked' = [parked EXCEPT ![r] = FALSE]
    /\ gor' = [gor EXCEPT ![r] = "returned"]
    /\ UNCHANGED <<branch, wt, process, stopping, tracked, cause, locks, handlers, history>>

\* The deferred clean-up: subscribers, processes, objects, worktree, maps.
CleansUp(r) ==
    /\ gor[r] = "returned"
    /\ wt' = [wt EXCEPT ![r] = FALSE]
    /\ tracked' = tracked \ {r}
    /\ gor' = [gor EXCEPT ![r] = "untracked"]
    /\ UNCHANGED <<rows, process, stopping, cause, locks, handlers, history>>

\* close(done), then wg.Done.
ClosesDone(r) ==
    /\ gor[r] = "untracked"
    /\ gor' = [gor EXCEPT ![r] = "gone"]
    /\ UNCHANGED <<rows, wt, process, stopping, tracked, cause, locks, handlers, history>>

-----------------------------------------------------------------------------
(* Cancelling, shutting down, dying.                                       *)

HandleCancel(r) ==
    /\ daemon = "serving" /\ r \in tracked
    /\ cause' = Cancelled({r}, "user")
    /\ UNCHANGED <<rows, wt, process, stopping, tracked, gor, locks, handlers, history>>

ShutdownFlags ==
    /\ daemon = "serving" /\ stop = "none"
    /\ shuttingDown' = TRUE
    /\ stop' = "flagged"
    /\ UNCHANGED <<rows, wt, process, runMem, locks, handlers, history>>

\* The cancel functions are copied under the mutex, then called.
ShutdownCancels ==
    /\ stop = "flagged"
    /\ cause' = Cancelled(tracked, "shutdown")
    /\ stop' = "waiting"
    /\ UNCHANGED <<rows, wt, process, shuttingDown, tracked, gor, locks, handlers, history>>

\* The wait group is empty, or thirty seconds have passed.
ShutdownWaits ==
    /\ stop = "waiting"
    /\ stop' = "over"
    /\ UNCHANGED <<rows, wt, process, shuttingDown, runMem, locks, handlers, history>>

\* What a process takes with it when it is gone.
ProcessDies ==
    /\ daemon' = "down"
    /\ plans' = {}
    /\ shuttingDown' = FALSE /\ stop' = "none"
    /\ tracked' = {}
    /\ cause' = [r \in Runs |-> "none"]
    /\ gor' = [r \in Runs |-> "none"]
    /\ locks' = [b \in Branches |-> None]
    /\ cpc' = [c \in Callers |-> "idle"]
    /\ target' = [c \in Callers |-> None]
    /\ mine' = [c \in Callers |-> None]
    /\ waits' = [c \in Callers |-> {}]
    /\ UNCHANGED <<rows, wt, starts, history>>

\* runWithOptionsLocked returns: handlers still at work are not waited for.
Exit == daemon = "serving" /\ stop = "over" /\ ProcessDies

Crash == daemon # "down" /\ ProcessDies

-----------------------------------------------------------------------------
(* Starting again: recoverOnStartup, before the socket is bound.           *)

\* recoverableParkedRuns: parked, whole, and alone on its branch.
Recoverable ==
    {r \in Runs :
        /\ row[r] = "running" /\ parked[r] /\ wt[r]
        /\ \A q \in Runs : row[q] \in ActiveRow /\ branch[q] = branch[r] => q = r}

\* The singleton lock is taken; a plan may also fail on the agent, the
\* configuration or the head.
Start ==
    /\ daemon = "down" /\ starts < MaxStarts
    /\ starts' = starts + 1
    /\ plans' \in SUBSET Recoverable
    /\ daemon' = "recovering"
    /\ UNCHANGED <<rows, wt, stopping, runMem, locks, handlers, history>>

\* RecoverStaleRunsExcept, one transaction.
RecoverStale ==
    /\ daemon = "recovering"
    /\ row' = [r \in Runs |-> IF row[r] \in ActiveRow /\ r \notin plans THEN "failed" ELSE row[r]]
    /\ parked' = [r \in Runs |-> parked[r] /\ (row[r] \notin ActiveRow \/ r \in plans)]
    /\ daemon' = "cleaning"
    /\ UNCHANGED <<branch, wt, starts, plans, stopping, runMem, locks, handlers, history>>

\* cleanupOrphanWorktrees: only those whose row is not active.
CleanupOrphanWorktrees ==
    /\ daemon = "cleaning"
    /\ wt' = [r \in Runs |-> wt[r] /\ row[r] \in ActiveRow]
    /\ daemon' = "resuming"
    /\ UNCHANGED <<rows, starts, plans, stopping, runMem, locks, handlers, history>>

\* resumeRecoveredRuns, then the socket is bound.
ResumeRecovered ==
    /\ daemon = "resuming"
    /\ tracked' = plans
    /\ gor' = [r \in Runs |-> IF r \in plans THEN "executing" ELSE gor[r]]
    /\ daemon' = "serving"
    /\ plans' = {}
    /\ UNCHANGED <<rows, wt, starts, stopping, cause, locks, handlers, history>>

-----------------------------------------------------------------------------

Handler(c) ==
    \/ TakeLock(c) \/ CancelActive(c) \/ WaitDone(c) \/ WaitTimeout(c)
    \/ InsertRun(c) \/ AddWorktree(c) \/ Guard(c) \/ SetupFails(c) \/ Launch(c)

Goroutine(r) ==
    \/ ExecutorBegins(r) \/ ExecutorParks(r) \/ ExecutorReturns(r)
    \/ CleansUp(r) \/ ClosesDone(r)

Lifecycle ==
    \/ ShutdownFlags \/ ShutdownCancels \/ ShutdownWaits \/ Exit \/ Crash
    \/ Start \/ RecoverStale \/ CleanupOrphanWorktrees \/ ResumeRecovered

\* What a handler does next once it has the branch; a stage that fails is not
\* owed to it.
HandlerMoves(c) ==
    \/ CancelActive(c) \/ WaitDone(c) \/ WaitTimeout(c) \/ InsertRun(c)
    \/ AddWorktree(c) \/ Guard(c) \/ Launch(c)

RunsNext ==
    \/ \E c \in Callers, b \in Branches : Admit(c, b)
    \/ \E c \in Callers : Handler(c)
    \/ \E r \in Runs : Goroutine(r) \/ HandleCancel(r)
    \/ Lifecycle

RunsSpec == RunsInit /\ [][RunsNext]_runsVars

\* Handlers run; Go's mutex does not starve a waiter.  Nothing is assumed of an
\* executor: an agent may hang for ever.
FairRunsSpec ==
    /\ RunsSpec
    /\ \A c \in Callers : WF_runsVars(HandlerMoves(c)) /\ SF_runsVars(TakeLock(c))

-----------------------------------------------------------------------------

\* Two executors work on one branch only if the newer run's handler gave up
\* waiting for the older one, which had been told to stop
\* (startRunWithIntentSource, cancelActiveRuns, recoverableParkedRuns).
OnlyAbandonedOverlap ==
    \A r, q \in Runs :
        Executing(r) /\ Executing(q) /\ branch[r] = branch[q] /\ r < q =>
            r \in abandoned /\ cause[r] # "none"

\* While a daemon serves, a row that says its run is starting or running has a
\* handler or a goroutine that will settle it: no push, failure of the set-up,
\* crash or recovery leaves a run active for ever.
ActiveRowHasOwner ==
    daemon = "serving" =>
        \A r \in Runs : row[r] \in ActiveRow => Executing(r) \/ \E c \in Callers : mine[c] = r

\* No clean-up takes the worktree from under a run that executes, and a resumed
\* run finds its own (cleanupOrphanWorktrees, the goroutine's deferred clean-up).
ExecutesInItsWorktree == \A r \in Runs : Executing(r) => wt[r]

\* A finished goroutine leaves no worktree behind; startup removes those a
\* dead daemon left.
WorktreeHasOwner ==
    daemon = "serving" =>
        \A r \in Runs : wt[r] =>
            \/ gor[r] \in {"executing", "returned"}
            \/ \E c \in Callers : mine[c] = r
            \/ r \in leaked

\* Every active row and every worktree has somebody who will settle it, and no run executes
\* without its worktree.
RunsOwned == RunsTypeOK /\ ActiveRowHasOwner /\ ExecutesInItsWorktree /\ WorktreeHasOwner

\* A push that was admitted is answered, or the daemon dies, even when the run
\* it supersedes never stops (the thirty-second limit of cancelActiveRuns).
PushIsAnswered ==
    \A c \in Callers : cpc[c] # "idle" ~> cpc[c] = "idle"
=============================================================================
