------------------------------ MODULE Capacity ------------------------------
(***************************************************************************)
(* The admission pools every executor of one daemon shares                 *)
(* (internal/pipeline/capacity.go).  Reviews and suites (test, lint, and a *)
(* document step that also lints) draw on separate pools; an approval wait *)
(* holds neither.  A release or a reconfiguration closes the notification  *)
(* channel `changed` and makes a new one, which wakes every waiter.        *)
(*                                                                         *)
(* A worker is the goroutine of one run.  The channel is modelled by what  *)
(* a waiter can observe of it: signalled[w] says that the channel w took   *)
(* under the lock has been closed since.  Go's select may take either      *)
(* ready case, so a waiter that is both signalled and cancelled may do     *)
(* either.                                                                 *)
(***************************************************************************)
EXTENDS Integers, FiniteSets

CONSTANTS
    Workers,        \* goroutines that run one pipeline each
    ConfigLimits,   \* the values an operator may write for a limit
    DefaultLimits   \* config.DefaultConcurrency(), one limit per pool

Pools == {"reviews", "suites"}
NoPool == "none"

ASSUME WorkersAssumption == IsFiniteSet(Workers)
ASSUME ConfigAssumption == ConfigLimits \subseteq Int
ASSUME DefaultAssumption == DefaultLimits \in [Pools -> Nat \ {0}]

VARIABLES
    limits,     \* c.limits
    active,     \* c.active: slots in use, per pool
    pc,         \* where each worker is
    pool,       \* the pool the worker's current duty draws on
    cancelled,  \* the run's context has been cancelled
    signalled   \* the channel the worker waits on has been closed

vars == <<limits, active, pc, pool, cancelled, signalled>>

Steps == {"review", "test", "lint", "document", "other"}

\* "norun": no run; "between": between two executions, or parked at a gate;
\* "acquiring": about to take the lock; "waiting": in the select;
\* "executing": inside step.Execute, holding a slot if the duty is pooled.
Places == {"norun", "between", "acquiring", "waiting", "executing"}

TypeOK ==
    /\ limits \in [Pools -> Nat \ {0}]
    /\ active \in [Pools -> Nat]
    /\ pc \in [Workers -> Places]
    /\ pool \in [Workers -> Pools \cup {NoPool}]
    /\ cancelled \in [Workers -> BOOLEAN]
    /\ signalled \in [Workers -> BOOLEAN]

-----------------------------------------------------------------------------

\* A document step does the lint duty too when no lint command is configured.
Duty(step, lintCommand) ==
    IF step = "document" /\ ~lintCommand THEN "lint" ELSE step

PoolOf(duty) ==
    CASE duty = "review" -> "reviews"
      [] duty \in {"test", "lint"} -> "suites"
      [] OTHER -> NoPool

\* A limit that is zero or negative falls back to the default.
Effective(p, limit) == IF limit <= 0 THEN DefaultLimits[p] ELSE limit

\* close(c.changed); c.changed = make(chan struct{})
Notify == signalled' = [w \in Workers |-> signalled[w] \/ pc[w] = "waiting"]

Init ==
    /\ limits = DefaultLimits
    /\ active = [p \in Pools |-> 0]
    /\ pc = [w \in Workers |-> "norun"]
    /\ pool = [w \in Workers |-> NoPool]
    /\ cancelled = [w \in Workers |-> FALSE]
    /\ signalled = [w \in Workers |-> FALSE]

\* Mutant: the new limits are stored without closing the channel.
ConfigureSilently(new) ==
    /\ limits' = [p \in Pools |-> Effective(p, new[p])]
    /\ UNCHANGED <<active, pc, pool, cancelled, signalled>>

\* Run admission applies the operator's configuration; holders are not touched.
Configure(new) ==
    /\ limits' = [p \in Pools |-> Effective(p, new[p])]
    /\ Notify
    /\ UNCHANGED <<active, pc, pool, cancelled>>

StartRun(w) ==
    /\ pc[w] = "norun"
    /\ pc' = [pc EXCEPT ![w] = "between"]
    /\ UNCHANGED <<limits, active, pool, cancelled, signalled>>

\* The run's goroutine returns: its context dies with it.
EndRun(w) ==
    /\ pc[w] = "between"
    /\ pc' = [pc EXCEPT ![w] = "norun"]
    /\ cancelled' = [cancelled EXCEPT ![w] = FALSE]
    /\ UNCHANGED <<limits, active, pool, signalled>>

Cancel(w) ==
    /\ pc[w] # "norun"
    /\ ~cancelled[w]
    /\ cancelled' = [cancelled EXCEPT ![w] = TRUE]
    /\ UNCHANGED <<limits, active, pc, pool, signalled>>

\* executeWithCapacity: choose the duty and go for the slot.
BeginStep(w, step, lintCommand) ==
    /\ pc[w] = "between"
    /\ pc' = [pc EXCEPT ![w] = "acquiring"]
    /\ pool' = [pool EXCEPT ![w] = PoolOf(Duty(step, lintCommand))]
    /\ UNCHANGED <<limits, active, cancelled, signalled>>

\* Mutant: the select has no ctx.Done case.
AcquireCancelledOnlyUnderLock(w) ==
    /\ pc[w] = "acquiring"
    /\ cancelled[w]
    /\ pc' = [pc EXCEPT ![w] = "between"]
    /\ pool' = [pool EXCEPT ![w] = NoPool]
    /\ UNCHANGED <<limits, active, cancelled, signalled>>

\* Acquire returns an error, which fails the step and the run.
AcquireCancelled(w) ==
    /\ \/ pc[w] = "acquiring"
       \/ pc[w] = "waiting"
    /\ cancelled[w]
    /\ pc' = [pc EXCEPT ![w] = "between"]
    /\ pool' = [pool EXCEPT ![w] = NoPool]
    /\ signalled' = [signalled EXCEPT ![w] = FALSE]
    /\ UNCHANGED <<limits, active, cancelled>>

\* A duty without a pool is admitted at once, with a release that does nothing.
AcquireUnpooled(w) ==
    /\ pc[w] = "acquiring"
    /\ ~cancelled[w]
    /\ pool[w] = NoPool
    /\ pc' = [pc EXCEPT ![w] = "executing"]
    /\ UNCHANGED <<limits, active, pool, cancelled, signalled>>

\* Mutant: off by one.
AcquireOneMore(w) ==
    /\ pc[w] = "acquiring"
    /\ ~cancelled[w]
    /\ pool[w] # NoPool
    /\ active[pool[w]] <= limits[pool[w]]
    /\ active' = [active EXCEPT ![pool[w]] = @ + 1]
    /\ pc' = [pc EXCEPT ![w] = "executing"]
    /\ UNCHANGED <<limits, pool, cancelled, signalled>>

\* Under the lock: a free slot is taken.
AcquireSlot(w) ==
    /\ pc[w] = "acquiring"
    /\ ~cancelled[w]
    /\ pool[w] # NoPool
    /\ active[pool[w]] < limits[pool[w]]
    /\ active' = [active EXCEPT ![pool[w]] = @ + 1]
    /\ pc' = [pc EXCEPT ![w] = "executing"]
    /\ UNCHANGED <<limits, pool, cancelled, signalled>>

\* Under the lock: no slot, so the current channel is read before unlocking.
Wait(w) ==
    /\ pc[w] = "acquiring"
    /\ ~cancelled[w]
    /\ pool[w] # NoPool
    /\ ~(active[pool[w]] < limits[pool[w]])
    /\ pc' = [pc EXCEPT ![w] = "waiting"]
    /\ signalled' = [signalled EXCEPT ![w] = FALSE]
    /\ UNCHANGED <<limits, active, pool, cancelled>>

\* The channel was closed: loop back to the lock.
Wake(w) ==
    /\ pc[w] = "waiting"
    /\ signalled[w]
    /\ pc' = [pc EXCEPT ![w] = "acquiring"]
    /\ signalled' = [signalled EXCEPT ![w] = FALSE]
    /\ UNCHANGED <<limits, active, pool, cancelled>>

\* step.Execute returned (or panicked): the deferred release runs once.
Release(w) ==
    /\ pc[w] = "executing"
    /\ pc' = [pc EXCEPT ![w] = "between"]
    /\ pool' = [pool EXCEPT ![w] = NoPool]
    /\ IF pool[w] = NoPool
       THEN UNCHANGED <<active, signalled>>
       ELSE /\ active' = [active EXCEPT ![pool[w]] = @ - 1]
            /\ Notify
    /\ UNCHANGED <<limits, cancelled>>

Next ==
    \/ \E new \in [Pools -> ConfigLimits] : Configure(new)
    \/ \E w \in Workers :
          \/ StartRun(w)
          \/ EndRun(w)
          \/ Cancel(w)
          \/ \E step \in Steps, lintCommand \in BOOLEAN :
                BeginStep(w, step, lintCommand)
          \/ AcquireCancelled(w)
          \/ AcquireUnpooled(w)
          \/ AcquireSlot(w)
          \/ Wait(w)
          \/ Wake(w)
          \/ Release(w)

Acquire(w) ==
    AcquireCancelled(w) \/ AcquireUnpooled(w) \/ AcquireSlot(w) \/ Wait(w)

\* The Go scheduler runs a ready goroutine eventually: the lock is held for a
\* few instructions only and a closed channel stays ready.  Nothing is assumed
\* of the steps themselves, of operators or of cancellations.
Fairness == \A w \in Workers : WF_vars(Acquire(w)) /\ WF_vars(Wake(w))

Spec == Init /\ [][Next]_vars /\ Fairness

-----------------------------------------------------------------------------
(* Properties *)

Holders(p) == {w \in Workers : pc[w] = "executing" /\ pool[w] = p}

\* Every slot counted as active belongs to exactly one executing worker: no
\* path out of Acquire or step.Execute leaks a slot or gives one back twice.
SlotsMatchHolders == \A p \in Pools : active[p] = Cardinality(Holders(p))

\* A worker sleeps on an open channel only while its pool is full: no release
\* and no raised limit slips between its check of the pool and its select.
NoLostWakeup ==
    \A w \in Workers :
        pc[w] = "waiting" /\ ~signalled[w] => active[pool[w]] >= limits[pool[w]]

\* The pools' books are right: typed, one slot per executing worker, and nobody asleep
\* beside a free slot.
SlotsSafe == TypeOK /\ SlotsMatchHolders /\ NoLostWakeup

\* Only an admission within the limit in force lets a pool's holders grow, so
\* a lowered limit drains: above it the number of holders can only fall.
LoweredLimitDrains ==
    [][\A p \in Pools :
          Cardinality(Holders(p)') > Cardinality(Holders(p))
             => Cardinality(Holders(p)') <= limits[p]]_vars

\* A worker that asks for a slot of a pool that stays short of its limit is
\* not left waiting for ever.
AdmittedWhenSlotsStayFree ==
    \A w \in Workers, p \in Pools :
        <>[](active[p] < limits[p])
            => []<>~(pc[w] \in {"acquiring", "waiting"} /\ pool[w] = p)

\* Cancelling a run always frees it from the queue for a slot.
CancelledWaiterReturns ==
    \A w \in Workers :
        (pc[w] \in {"acquiring", "waiting"} /\ cancelled[w])
            ~> pc[w] \notin {"acquiring", "waiting"}

\* Nobody waits for ever for a slot that stays free or for a run that is cancelled.
WaitersReturn == AdmittedWhenSlotsStayFree /\ CancelledWaiterReturns

\* The pools without lock, counters and channel.
Admission == INSTANCE Pool
    WITH Users <- Workers, limit <- limits, holding <- [p \in Pools |-> Holders(p)]

\* The counters and the woken waiters admit exactly as a pool of slots does: nobody
\* is admitted above the limit in force, nobody holds two slots, and none is taken away.
AdmitsAsPool == Admission!PoolSpec
=============================================================================
