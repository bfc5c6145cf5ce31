----------------------------- MODULE CIMonitor ------------------------------
(* The CI step of a run (steps/ci.go, ci_transient.go, ci_checks.go,        *)
(* ci_fix.go): polls of a pull request, reruns of checks the provider       *)
(* cancelled, repairs by the agent, and the readiness the run shows.        *)
(*                                                                          *)
(* The provider answers a poll from a rollup that lags behind its jobs.     *)
(* Attempts of a check on a head are numbered; the number stands for link   *)
(* and completion time. How much of the timeout is left is left open.       *)
(* lastFixedChecks is not modelled: whoever sets it returns through         *)
(* restartValidationOutcome, which clears it before anything reads it.      *)
EXTENDS Naturals

CONSTANTS
    Attestation,  \* the required attestation check
    Others,       \* the other checks of the pull request
    RerunLimit,   \* ci.rerun_transient
    FixLimit,     \* auto_fix.ci, 0 in a run without fixes
    MaxOmits,     \* bound on transitional rollups that omit a check
    MaxHeads      \* bound on repaired heads

ASSUME MonitorAssumption == RerunLimit \in Nat /\ FixLimit \in Nat /\ MaxOmits \in Nat /\ MaxHeads \in Nat \ {0}

Checks == Others \cup {Attestation}
Grace == 2    \* rerunRollupGracePolls

NoJob == [n |-> 0, res |-> "none"]
NoRoll == [at |-> 0, grace |-> 0, head |-> 0]

VARIABLES
    jobs,    \* attempts started of each check on the published head
    shown,   \* the latest attempt the rollup shows
    event,   \* the attempt that the publication of the attestation started
    omits,   \* rollups that omitted a check
    head,    \* the run's head
    row,     \* what is stored of the run and its step
    ci,    \* the step's memory and the poll in progress
    asked,   \* history: reruns requested of each check
    owed,    \* history: the first attempt on this head that answers a rerun the provider promised
    autos    \* history: repairs nobody asked for

forgeVars == <<jobs, shown, event, omits>>
ciVars == <<forgeVars, head, row, ci, asked, owed, autos>>

None == [c \in Checks |-> 0]
Pushed == [c \in Checks |-> 1]    \* a push starts an attempt of every check
NoView == [c \in Checks |-> NoJob]
NewStep == [pc |-> "wait", fixing |-> FALSE, tried |-> FALSE, last |-> "none", attempts |-> 0,
            spent |-> None, roll |-> [c \in Checks |-> NoRoll], merge |-> "clean", issued |-> FALSE,
            view |-> NoView, green |-> FALSE]   \* green: what the last poll found

CIInit ==
    /\ jobs = Pushed /\ shown = NoView /\ event = 0 /\ omits = 0
    /\ head = 1
    /\ row = [attempts |-> 0, spent |-> None, roll |-> NewStep.roll, ready |-> FALSE]
    /\ ci = NewStep
    /\ asked = None /\ owed = None /\ autos = 0

At(pc) == ci.pc = pc

-----------------------------------------------------------------------------
(* The provider, between polls *)

Provider == At("wait") /\ UNCHANGED <<head, row, ci, asked, owed, autos>>

\* The edit of the PR body that published the attestation reaches its workflow.
Publishes ==
    /\ event = 0 /\ event' = jobs[Attestation] + 1
    /\ jobs' = [jobs EXCEPT ![Attestation] = @ + 1]
    /\ UNCHANGED <<shown, omits>> /\ Provider

\* The rollup shows a later attempt, or the conclusion of the one it shows.
RollupShows(c, n, res) ==
    /\ n <= jobs[c]
    /\ n > shown[c].n \/ (n = shown[c].n /\ shown[c].res = "pending" /\ res # "pending")
    /\ shown' = [shown EXCEPT ![c] = [n |-> n, res |-> res]]
    /\ UNCHANGED <<jobs, event, omits>> /\ Provider

RollupOmits(c) ==
    /\ shown[c].n \in 1..(jobs[c] - 1) /\ omits < MaxOmits
    /\ shown' = [shown EXCEPT ![c].res = "none"] /\ omits' = omits + 1
    /\ UNCHANGED <<jobs, event>> /\ Provider

-----------------------------------------------------------------------------
(* A poll *)

Aside == UNCHANGED <<forgeVars, head, asked, owed, autos>>
Silent == row' = [row EXCEPT !.ready = FALSE]     \* clearCIMonitorReady
Done(s, pc) == [s EXCEPT !.pc = pc, !.view = NoView, !.merge = "clean", !.issued = FALSE]

\* The timeout counts from the last move of the base branch.
TimesOut ==
    /\ At("wait") /\ ci' = [ci EXCEPT !.pc = "parked"] /\ UNCHANGED row /\ Aside

\* GetPRState: merged or closed.
PRIsOver ==
    /\ At("wait") /\ ci' = [NewStep EXCEPT !.pc = "over"] /\ UNCHANGED row /\ Aside

ChecksUnreadable ==
    /\ At("wait") /\ ci' = [ci EXCEPT !.last = "none", !.green = FALSE] /\ Silent /\ Aside

\* filterExpectedStaleAttestationChecks: attempts from before this head's
\* publication do not count; until a later one shows, one is expected.
Filtered(c) ==
    IF c = Attestation /\ (event = 0 \/ shown[c].n < event \/ shown[c].res = "none")
    THEN [n |-> 0, res |-> "pending"] ELSE shown[c]

With(v, res) == {c \in Checks : v[c].res = res}
Tracked(roll) == {c \in Checks : roll[c].at # 0}

\* retireResolvedReruns: of another head, or answered by a verdict on a later attempt.
Retired(v) ==
    [c \in Checks |-> IF ci.roll[c].head # head \/ (v[c].res \in {"pass", "fail"} /\ v[c].n # ci.roll[c].at)
                      THEN NoRoll ELSE ci.roll[c]]

\* awaitingRollupPublication
Awaited(c, v, roll) == roll[c].at = v[c].n /\ roll[c].grace > 0

\* transientRerunCandidates: none beside a genuine failure.
Candidates(v, roll) ==
    IF With(v, "fail") # {} THEN {}
    ELSE {c \in With(v, "cancel") : ~Awaited(c, v, roll) /\ ci.spent[c] < RerunLimit}

\* persistRerunBudgetCandidate
Persisted(budget) == [row EXCEPT !.spent = budget.spent, !.roll = budget.roll]

\* The merge state ("unresolved" stands for an unreadable PR state, too), the
\* checks, their filter and the retirement of answered reruns.
Poll(merge) ==
    /\ At("wait")
    /\ LET v == [c \in Checks |-> Filtered(c)]
           roll == Retired(v)
           asks == With(v, "pending") = {} /\ merge # "conflict" /\ Candidates(v, roll) # {}
       IN  /\ ci' = [ci EXCEPT !.view = v, !.roll = roll, !.merge = merge, !.green = FALSE,
                                   !.pc = IF asks THEN "asking" ELSE "judge"]
           /\ row' = IF roll = ci.roll THEN row ELSE Persisted([ci EXCEPT !.roll = roll])
    /\ Aside

\* publishedBranchHead is unreadable: nothing is rerun.
BranchUnreadable ==
    /\ At("asking") /\ ci' = [ci EXCEPT !.pc = "judge"] /\ UNCHANGED row /\ Aside

\* The branch is no longer this run's.
BranchMoved == At("asking") /\ ci' = Done(ci, "parked") /\ Silent /\ Aside

Reservation(f, S) ==
    [f EXCEPT !.spent = [c \in Checks |-> IF c \in S THEN @[c] + 1 ELSE @[c]],
              !.roll = [c \in Checks |-> IF c \in S THEN [at |-> ci.view[c].n, grace |-> Grace, head |-> head] ELSE @[c]]]

\* Mutant: the budget is spent in memory only.
ReservesInMemory(S) == ci' = [Reservation(ci, S) EXCEPT !.pc = "judge"] /\ UNCHANGED row

\* spend and persistRerunBudget, before each request.
Reserves(S) ==
    ci' = [Reservation(ci, S) EXCEPT !.pc = "judge"] /\ row' = Persisted(Reservation(ci, S))

\* Every request is refused.
RerunsRefused ==
    /\ At("asking")
    /\ LET S == Candidates(ci.view, ci.roll)
       IN  Reserves(S) /\ asked' = [c \in Checks |-> IF c \in S THEN asked[c] + 1 ELSE asked[c]]
    /\ UNCHANGED <<forgeVars, head, owed, autos>>

\* Some of the requests promise another attempt.
RerunsStarted(accepted) ==
    /\ At("asking") /\ accepted # {}
    /\ LET S == Candidates(ci.view, ci.roll)
       IN  /\ accepted \subseteq S
           /\ ci' = [Reservation(ci, S) EXCEPT !.pc = "judge", !.issued = TRUE]
           /\ row' = Persisted(Reservation(ci, S))
           /\ asked' = [c \in Checks |-> IF c \in S THEN asked[c] + 1 ELSE asked[c]]
    /\ jobs' = [c \in Checks |-> IF c \in accepted THEN jobs[c] + 1 ELSE jobs[c]]
    /\ owed' = [c \in Checks |-> IF c \in accepted THEN ci.view[c].n + 1 ELSE owed[c]]
    /\ UNCHANGED <<shown, event, omits, head, autos>>

-----------------------------------------------------------------------------
(* The verdict of a poll *)

\* Mutant: only checks the rollup shows can be outstanding.
OutstandingShown == {c \in With(ci.view, "cancel") : ci.spent[c] > 0}

\* cancelledAfterRerun: checks cancelled after a rerun, and those whose rerun
\* is outstanding and that the rollup omits.
Outstanding ==
    {c \in With(ci.view, "cancel") : ci.spent[c] > 0}
        \cup {c \in Tracked(ci.roll) : ci.view[c].res = "none"}

\* Not merely the outcome the rerun was asked for.
Refreshed(c) == ci.view[c].res = "cancel" /\ ci.view[c].n # ci.roll[c].at

\* consumeRollupGrace
GraceSpent ==
    [c \in Checks |-> IF c \in Outstanding /\ ~Refreshed(c) /\ ci.roll[c].grace > 0
                      THEN [ci.roll[c] EXCEPT !.grace = @ - 1] ELSE ci.roll[c]]

Failing == With(ci.view, "fail")
Pending == With(ci.view, "pending")
Conflict == ci.merge = "conflict"
AfterRerun == {c \in Outstanding : Refreshed(c) \/ ci.roll[c].grace = 0}
Unresolved ==
    AfterRerun \cup (IF Pending = {} THEN {c \in With(ci.view, "cancel") : ci.spent[c] = 0} ELSE {})
Awaiting == Outstanding \ AfterRerun
HasIssues == Failing # {} \/ Conflict \/ Unresolved # {}

\* The memory after the verdict: grace is spent once per poll.
Judged(pc, msg) == [Done(ci, pc) EXCEPT !.roll = IF ci.issued THEN @ ELSE GraceSpent, !.last = msg]
Judging == At("judge") /\ Aside

\* logCIMonitorStatus writes readiness when the message changes.
Says(msg, green) ==
    /\ ci' = [Judged("wait", msg) EXCEPT !.green = green]
    /\ row' = IF msg = ci.last THEN row ELSE [row EXCEPT !.ready = green]

\* The reruns asked for in this poll run.
WaitsForReruns == Judging /\ ci.issued /\ Says("running", FALSE)

\* The rollup has not shown an earlier rerun yet.
WaitsForRollup ==
    /\ Judging /\ ~ci.issued /\ ~HasIssues /\ Awaiting # {}
    /\ ci' = Judged("wait", "running") /\ Silent

\* Issues, but checks that can still conclude.
WaitsForPending ==
    /\ Judging /\ ~ci.issued /\ HasIssues /\ Pending # {}
    /\ ci' = Judged("wait", "none") /\ Silent

Concluded == At("judge") /\ ~ci.issued /\ HasIssues /\ Pending = {}

\* Cancellations alone are for somebody to decide; so is what the budget of
\* repairs does not cover.
Escalates ==
    /\ Concluded
    /\ IF ci.fixing THEN ci.tried /\ ci.attempts >= FixLimit
       ELSE (Failing = {} /\ ~Conflict) \/ ci.attempts >= FixLimit
    /\ ci' = Judged("parked", "none") /\ Silent /\ Aside

\* The fix somebody asked for at the gate.
RepairsAsAsked ==
    /\ Concluded /\ ci.fixing /\ ~ci.tried
    /\ ci' = [Judged("asked", "none") EXCEPT !.tried = TRUE] /\ Silent /\ Aside

MayRepair ==
    /\ Concluded
    /\ ci.attempts < FixLimit
    /\ IF ci.fixing THEN ci.tried ELSE Failing # {} \/ Conflict

\* SetCIFixAttempts comes before the agent.
Repairs ==
    /\ MayRepair
    /\ ci' = [Judged("auto", "none") EXCEPT !.attempts = @ + 1]
    /\ row' = [row EXCEPT !.ready = FALSE, !.attempts = ci.attempts + 1] /\ autos' = autos + 1
    /\ UNCHANGED <<forgeVars, head, asked, owed>>

Blank == ~\E c \in Checks : ci.view[c].res # "none"

\* No issue, but PR, mergeability or checks are not known yet. (Without an
\* attestation to expect, no_ci makes a blank rollup ready.)
ReportsUnknown ==
    /\ Judging /\ ~ci.issued /\ ~HasIssues /\ Awaiting = {}
    /\ ci.merge = "unresolved" \/ Blank
    /\ ci' = Judged("wait", "none") /\ Silent

\* No issue: every check passed, or some still run.
Reports ==
    /\ Judging /\ ~ci.issued /\ ~HasIssues /\ Awaiting = {}
    /\ ci.merge = "clean" /\ ~Blank
    /\ IF Pending # {} \/ With(ci.view, "cancel") # {} THEN Says("running", FALSE) ELSE Says("passed", TRUE)

-----------------------------------------------------------------------------
(* Repairs, gates and deaths *)

\* autoFixCI: nothing changed, or the agent failed and left the head alone.
RepairsNothing ==
    /\ ci.pc \in {"asked", "auto"}
    /\ \/ ci' = [ci EXCEPT !.pc = IF At("asked") THEN "parked" ELSE "wait"]
       \/ ci' = [ci EXCEPT !.pc = "wait"]
    /\ UNCHANGED row /\ Aside

\* commitRepair, restartValidationOutcome: the steps from review on run again,
\* publish the head and its attestation, and CI starts over.
RepairsHead ==
    /\ ci.pc \in {"asked", "auto"} /\ head < MaxHeads
    /\ head' = head + 1
    /\ jobs' = Pushed /\ shown' = NoView /\ owed' = None /\ event' = 0
    /\ ci' = [NewStep EXCEPT !.attempts = ci.attempts, !.spent = row.spent, !.roll = row.roll]
    /\ UNCHANGED <<row, omits, asked, autos>>

\* A fix at the gate: Execute restores the budgets from the rows.
FixAsked ==
    /\ At("parked")
    /\ ci' = [NewStep EXCEPT !.fixing = TRUE, !.green = ci.green, !.spent = row.spent, !.roll = row.roll,
                               !.attempts = IF row.attempts > ci.attempts THEN row.attempts ELSE ci.attempts]
    /\ UNCHANGED row /\ Aside

\* The gate is approved, or ReconcileApprovalGate finds the PR merged or closed.
GateClears ==
    /\ At("parked") /\ ci' = [NewStep EXCEPT !.pc = "over"] /\ UNCHANGED row /\ Aside

\* The daemon dies, or the step fails: only a parked run is taken up again,
\* without the step's memory.
Dies ==
    /\ ci.pc # "over"
    /\ ci' = IF At("parked") THEN [NewStep EXCEPT !.pc = "parked", !.green = ci.green]
               ELSE [NewStep EXCEPT !.pc = "over"]
    /\ UNCHANGED row /\ Aside

CINext ==
    \/ \E c \in Checks : \/ RollupOmits(c)
                         \/ \E n \in 1..jobs[c], res \in {"pending", "pass", "fail", "cancel"} : RollupShows(c, n, res)
    \/ Publishes
    \/ TimesOut \/ PRIsOver \/ ChecksUnreadable
    \/ \E merge \in {"clean", "conflict", "unresolved"} : Poll(merge)
    \/ BranchUnreadable \/ BranchMoved \/ RerunsRefused \/ \E accepted \in SUBSET Checks : RerunsStarted(accepted)
    \/ WaitsForReruns \/ WaitsForRollup \/ WaitsForPending \/ Escalates \/ RepairsAsAsked \/ Repairs
    \/ ReportsUnknown \/ Reports
    \/ RepairsNothing \/ RepairsHead \/ FixAsked \/ GateClears \/ Dies

CISpec == CIInit /\ [][CINext]_ciVars

-----------------------------------------------------------------------------
(* Properties *)

CITypeOK ==
    /\ \A c \in Checks : /\ ci.roll[c].grace \in 0..Grace /\ row.roll[c].grace \in 0..Grace
                         /\ {owed[c], shown[c].n} \subseteq 0..jobs[c]
                         /\ ci.roll[c].at <= jobs[c] \/ ci.roll[c].head < head
    /\ ci.pc \in {"wait", "asking", "judge", "asked", "auto", "parked", "over"}
    /\ ci.last \in {"none", "running", "passed"}
    /\ row.ready \in BOOLEAN /\ head \in 1..MaxHeads

\* A check is rerun no more often than the configuration allows, through
\* refusals, gates, repaired heads and daemons that die at a gate
\* (checkRerunBudget).
RerunsWithinLimit == \A c \in Checks : asked[c] <= RerunLimit

\* The agent repairs unasked no more often than auto_fix.ci allows (SetCIFixAttempts).
RepairsWithinLimit == autos <= FixLimit

\* A poll finds a head green only if the attestation passed in an attempt at or
\* after its publication, and every check with a rerun of this head that the
\* provider promised shows a later attempt than the one the rerun was asked
\* for (cancelledAfterRerun, the filter).
GreenIsEarned ==
    [][ci'.green /\ ~ci.green =>
          /\ event # 0 /\ ci.view[Attestation].n >= event
          /\ \A c \in Checks : owed[c] <= ci.view[c].n]_ciVars

\* Between polls the run is ready exactly when the last poll found its head
\* green, although logCIMonitorStatus writes on changes of its message only.
ReadyIsCurrent == At("wait") => (row.ready <=> ci.green)

\* The monitor keeps to its rerun and repair limits and reports readiness as it is.
CISafe == CITypeOK /\ RerunsWithinLimit /\ RepairsWithinLimit /\ ReadyIsCurrent
=============================================================================
