-------------------------------- MODULE Pool --------------------------------
(***************************************************************************)
(* What the admission of step executions promises (pipeline/capacity.go),  *)
(* without the lock, the counters and the channel that keep the promise:   *)
(* a pool admits a user while it has fewer holders than its limit; the     *)
(* limits may change at any time, and take nothing from a holder.          *)
(***************************************************************************)
EXTENDS Naturals, FiniteSets

CONSTANTS Users, Pools

VARIABLES
    limit,     \* the limit in force, per pool
    holding    \* who holds a slot, per pool

poolVars == <<limit, holding>>

Idle(u) == \A p \in Pools : u \notin holding[p]

PoolInit ==
    /\ limit \in [Pools -> Nat \ {0}]
    /\ holding = [p \in Pools |-> {}]

Resize == limit' \in [Pools -> Nat \ {0}] /\ UNCHANGED holding

Admit(u, p) ==
    /\ Idle(u) /\ Cardinality(holding[p]) < limit[p]
    /\ holding' = [holding EXCEPT ![p] = @ \cup {u}]
    /\ UNCHANGED limit

GiveBack(u, p) ==
    /\ u \in holding[p]
    /\ holding' = [holding EXCEPT ![p] = @ \ {u}]
    /\ UNCHANGED limit

PoolNext == Resize \/ \E u \in Users, p \in Pools : Admit(u, p) \/ GiveBack(u, p)

PoolSpec == PoolInit /\ [][PoolNext]_poolVars
=============================================================================
