---------------------------- MODULE ReviewedPush ----------------------------
(***************************************************************************)
(* What a run promises of the branch it delivers, without its steps, gates,*)
(* restarts, crashes and recoveries: a review examines the head that is    *)
(* recorded and grants a push of it, a head that moves loses the grant     *)
(* (db/run.go promoteRunHead, db/step.go CompleteReviewStep), and the      *)
(* remote is moved only to a commit the granted head is an ancestor of     *)
(* (steps/push.go assertReviewApprovedPushHead).                           *)
(***************************************************************************)
CONSTANTS Heads, NoHead

VARIABLES
    made,        \* the commits there are
    lines,       \* ancestors of each commit, itself included
    head,        \* the head the run records
    grant,       \* the head a push may rest on
    examined,    \* the commits completed reviews examined
    delivered    \* the branch on the remote

promiseVars == <<made, lines, head, grant, examined, delivered>>

PromiseInit ==
    /\ head \in Heads
    /\ made = {head}
    /\ lines = [h \in Heads |-> IF h = head THEN {head} ELSE {}]
    /\ grant = NoHead /\ examined = {} /\ delivered = NoHead

\* A commit is made, the head moves, or both; only a head that stays keeps its grant.
Work ==
    /\ \/ UNCHANGED <<made, lines>>
       \/ \E h \in Heads \ made, base \in SUBSET Heads :
             made' = made \cup {h} /\ lines' = [lines EXCEPT ![h] = base \cup {h}]
    /\ head' \in Heads
    /\ grant' = IF head' = head THEN grant ELSE NoHead
    /\ UNCHANGED <<examined, delivered>>

Examine ==
    /\ examined' = examined \cup {head}
    /\ grant' = head
    /\ UNCHANGED <<made, lines, head, delivered>>

Revoke == grant' = NoHead /\ UNCHANGED <<made, lines, head, examined, delivered>>

Deliver ==
    /\ grant # NoHead
    /\ delivered' \in made /\ grant \in lines[delivered']
    /\ UNCHANGED <<made, lines, head, grant, examined>>

PromiseNext == Work \/ Examine \/ Revoke \/ Deliver

PromiseSpec == PromiseInit /\ [][PromiseNext]_promiseVars

-----------------------------------------------------------------------------

\* Whatever stands on the remote, now or later, descends from an examined commit.
DeliveredDescends == delivered # NoHead => delivered \in made /\ \E e \in examined : e \in lines[delivered]
=============================================================================
