---------------------------- MODULE MCCapacity ----------------------------
(* A small instance of Capacity for TLC. *)
EXTENDS Capacity

MCDefaultLimits == [p \in Pools |-> IF p = "reviews" THEN 2 ELSE 1]
===========================================================================
