------------------------------ MODULE Delivery ------------------------------
(***************************************************************************)
(* What a run does to a branch, one write at a time: steps/rebase.go       *)
(* brings it up to date, a fix commit is recorded in three places          *)
(* (pipeline/uncertified.go, git/adopt.go, db/run.go) and steps/push.go    *)
(* sends it under a lease (steps/forcepush.go), while the user pushes to   *)
(* the gate, others push to the remote, and the daemon may die.            *)
(*                                                                         *)
(* A commit is the sequence of the changes of its history; a rebase that   *)
(* had conflicts is one the operator aborted or one that kept every change.*)
(***************************************************************************)
EXTENDS Naturals, Sequences, SequencesExt

CONSTANTS
    FixBound,      \* bound: commits the pipeline makes, at most 3
    ActBound       \* bound: what the user, others and a crash do

Absent == <<"none">>
FixName == <<"f", "g", "h">>

VARIABLES
    gateRef,     \* refs/heads/<branch> of the gate
    tracking,    \* refs/remotes/origin/<branch>: shared by every run of the gate
    upstream,    \* the branch at the push target
    trunk,       \* the default branch
    pass,        \* the run
    queued,      \* a push the gate has taken and no run was started for yet
    range,       \* the branch's row of uncertified_pipeline_ranges
    fixes, acts,
    reviewed,    \* history: changes in a head some review completed on
    owed,        \* history: changes a step recorded as the pipeline's own
    torn         \* history: the range was cut off from the ref (see FixesStayRanged)

deliveryVars == <<gateRef, tracking, upstream, trunk, pass, queued, range, fixes, acts,
                  reviewed, owed, torn>>
history == <<reviewed, owed, torn>>

NoPass == [pc |-> "over", base |-> Absent]
NoRange == [to |-> Absent]
NoPush == [new |-> Absent]

Mid(pc) == pass.pc = pc
Reaches(pc) == pass' = [pass EXCEPT !.pc = pc]

NewPass(old, new) ==
    [pc |-> "fetch", base |-> old, row |-> new, wt |-> new, force |-> FALSE, completed |-> FALSE,
     approved |-> Absent, lease |-> Absent, undo |-> NoRange, back |-> "review"]

DeliveryTypeOK ==
    /\ pass.pc \in {"over", "fetch", "rebase", "adopt", "row", "review", "fixing", "checks",
                    "push", "send", "bind", "ci"}
    /\ ~Mid("over") => IsPrefix(pass.row, pass.wt) \/ Mid("adopt") \/ Mid("row")
    /\ range = NoRange \/ (range.to # Absent /\ range.from # Absent)
    /\ fixes \in 0..FixBound /\ acts \in 0..ActBound /\ torn \in BOOLEAN

DeliveryInit ==
    /\ gateRef = <<"a">> /\ tracking = Absent /\ upstream \in {Absent, <<"a">>, <<"a", "z">>}
    /\ trunk = <<>>
    /\ pass = NewPass(Absent, <<"a">>)
    /\ queued = NoPush /\ range = NoRange /\ fixes = 0 /\ acts = 0
    /\ reviewed = {} /\ owed = {} /\ torn = FALSE

-----------------------------------------------------------------------------
(* The range and its recovery state (reconcileReviewFixSelection).         *)

Promoted(state) == IF state = "selected" THEN "delta" ELSE state

\* PersistUncertifiedPipelineRangeWithRollback: an unreviewed range of this
\* lineage is extended.
RangeTo(from, to) ==
    [from |-> IF range # NoRange /\ (IsPrefix(range.to, from) \/ IsPrefix(range.to, to))
              THEN range.from ELSE from,
     to |-> to,
     state |-> IF range = NoRange THEN "applied" ELSE Promoted(range.state)]

\* RemapUncertifiedPipelineRangeAfterRebase: as far behind the new head as behind the old.
Remapped(old, new) ==
    IF range = NoRange \/ IsPrefix(old, new) \/ ~IsPrefix(range.to, old) \/ IsPrefix(range.to, new)
    THEN range
    ELSE LET back(c) == SubSeq(new, 1, Len(new) - (Len(old) - Len(c)))
         IN  [range EXCEPT !.from = back(@), !.to = back(range.to)]

\* promoteRunHead fills a missing range for a review that had completed.
PromotedRange(old, new) ==
    IF pass.completed /\ range = NoRange /\ old # new
    THEN [from |-> old, to |-> new, state |-> "applied"] ELSE range

\* BindUncertifiedPipelineRange: the range a review of a head is told of.
Bound(c) == range # NoRange /\ IsPrefix(range.to, c)

\* PersistReviewFixSelection.
FixSelected ==
    [from |-> IF range # NoRange /\ IsPrefix(range.to, pass.row) THEN range.from ELSE pass.row,
     to |-> pass.row, state |-> "selected"]

-----------------------------------------------------------------------------
(* Rebase.                                                                 *)

\* isForcePushAgainstRemote
ForcePush ==
    /\ pass.base # Absent /\ ~IsPrefix(pass.base, pass.wt)
    /\ IF upstream # Absent THEN ~IsPrefix(upstream, pass.wt)
       ELSE tracking # Absent /\ ~IsPrefix(tracking, pass.wt)

\* A force push leaves the tracking ref as it was, for the lease of the push.
RebaseFetches ==
    /\ Mid("fetch")
    /\ tracking' = IF ForcePush \/ upstream = Absent THEN tracking ELSE upstream
    /\ pass' = [pass EXCEPT !.pc = "rebase", !.force = ForcePush]
    /\ UNCHANGED <<gateRef, upstream, trunk, queued, range, fixes, acts, history>>

\* shouldSkipRebase and tryRebase
Onto(c, t) ==
    IF t = Absent \/ IsPrefix(t, c) THEN c
    ELSE IF IsPrefix(c, t) THEN t
    ELSE t \o SelectSeq(c, LAMBDA x : x \notin ToSet(t))

Rebased == Onto(IF pass.force THEN pass.wt ELSE Onto(pass.wt, tracking), trunk)

\* updateHeadSHA: the range is moved to the new head first.
RebaseMoves ==
    /\ Mid("rebase")
    /\ pass' = [pass EXCEPT !.wt = Rebased, !.undo = range, !.back = "review",
                            !.pc = IF Rebased = pass.row THEN "review" ELSE "adopt"]
    /\ range' = IF Rebased = pass.row THEN range ELSE Remapped(pass.row, Rebased)
    /\ torn' = (torn \/ (range' # range /\ ToSet(SubSeq(pass.row, Len(range.to) + 1, Len(pass.row)))
                                            \cap (ToSet(tracking) \cup ToSet(trunk)) # {}))
    /\ UNCHANGED <<gateRef, tracking, upstream, trunk, queued, fixes, acts, reviewed, owed>>

-----------------------------------------------------------------------------
(* A new head: the range, the branch ref, the row.                         *)

\* AdoptBranchRef
CanAdopt(recorded, c) == gateRef = recorded \/ IsPrefix(gateRef, c)

HeadAdopted ==
    /\ Mid("adopt") /\ CanAdopt(pass.row, pass.wt)
    /\ gateRef' = pass.wt /\ Reaches("row")
    /\ UNCHANGED <<tracking, upstream, trunk, queued, range, fixes, acts, history>>

\* Mutant: the range stays.
UndoneNot == range

\* RestoreUncertifiedPipelineRangeIfCurrent
Undone == pass.undo

AdoptionRefused ==
    /\ Mid("adopt") /\ ~CanAdopt(pass.row, pass.wt)
    /\ range' = Undone
    /\ pass' = [NoPass EXCEPT !.base = pass.base]
    /\ UNCHANGED <<gateRef, tracking, upstream, trunk, queued, fixes, acts, history>>

\* The row's promotion revokes the approval.
RowPromoted ==
    /\ Mid("row")
    /\ range' = PromotedRange(pass.row, pass.wt)
    /\ pass' = [pass EXCEPT !.row = pass.wt, !.pc = pass.back, !.completed = FALSE, !.approved = Absent]
    /\ UNCHANGED <<gateRef, tracking, upstream, trunk, queued, fixes, acts, history>>

\* The agent's work, committed by the step or by the agent itself.
Commits(from, to) ==
    /\ Mid(from) /\ fixes < FixBound /\ fixes' = fixes + 1
    /\ pass' = [pass EXCEPT !.wt = Append(pass.row, FixName[fixes + 1]), !.pc = to]
    /\ UNCHANGED <<gateRef, tracking, upstream, trunk, queued, range, acts, history>>

\* commitAgentFixes and recordLocalRepair, once there is a commit.
FixRecorded ==
    /\ pass.pc \in {"fixing", "checks", "ci"} /\ pass.wt # pass.row
    /\ range' = RangeTo(pass.row, pass.wt)
    /\ pass' = [pass EXCEPT !.pc = "adopt", !.undo = range, !.back = "review"]
    /\ owed' = owed \cup (ToSet(pass.wt) \ ToSet(pass.row))
    /\ UNCHANGED <<gateRef, tracking, upstream, trunk, queued, fixes, acts, reviewed, torn>>

FixCommitted == \E pc \in {"fixing", "checks", "ci"} : Commits(pc, pc)

-----------------------------------------------------------------------------
(* Review.                                                                 *)

ReviewSelectsFix ==
    /\ Mid("review") /\ range' = FixSelected /\ Reaches("fixing")
    /\ UNCHANGED <<gateRef, tracking, upstream, trunk, queued, fixes, acts, history>>

ReviewFindsNoDelta ==
    /\ Mid("fixing") /\ pass.wt = pass.row /\ Reaches("review")
    /\ UNCHANGED <<gateRef, tracking, upstream, trunk, queued, range, fixes, acts, history>>

\* certifiedUncertifiedPipelineRange
Certifies(c) == range # NoRange /\ IsPrefix(range.to, c)

ReviewCompletes ==
    /\ Mid("review")
    /\ pass' = [pass EXCEPT !.pc = "checks", !.completed = TRUE, !.approved = pass.wt]
    /\ range' = IF Certifies(pass.wt) THEN NoRange ELSE range
    /\ reviewed' = reviewed \cup ToSet(pass.wt)
    /\ UNCHANGED <<gateRef, tracking, upstream, trunk, queued, fixes, acts, owed, torn>>

-----------------------------------------------------------------------------
(* Push.                                                                   *)

PushStarts ==
    /\ Mid("checks") /\ pass.wt = pass.row /\ Reaches("push")
    /\ UNCHANGED <<gateRef, tracking, upstream, trunk, queued, range, fixes, acts, history>>

\* The formatter's commit is on top of the approved head.
PushFormats == Mid("push") /\ pass.wt = pass.row /\ Commits("push", "push")

ApprovedPushHead == pass.approved # Absent /\ IsPrefix(pass.approved, pass.wt)

\* resolveForcePushDecision: the remote is where it was last seen, or everything
\* on it is in the new head or was in the run's base.
MayForce ==
    \/ upstream \in {Absent, pass.wt, tracking}
    \/ ToSet(upstream) \subseteq ToSet(pass.wt) \cup ToSet(pass.base)

PushDecides ==
    /\ Mid("push") /\ ApprovedPushHead /\ MayForce
    /\ pass' = [pass EXCEPT !.pc = "send", !.lease = upstream]
    /\ UNCHANGED <<gateRef, tracking, upstream, trunk, queued, range, fixes, acts, history>>

\* Mutant: the push is forced without the lease.
LeaseHoldsAlways == TRUE

LeaseHolds ==
    upstream = pass.lease \/ upstream = pass.wt \/ (pass.lease = Absent /\ IsPrefix(upstream, pass.wt))

PushSends ==
    /\ Mid("send") /\ LeaseHolds
    /\ upstream' = pass.wt /\ Reaches("bind")
    /\ UNCHANGED <<gateRef, tracking, trunk, queued, range, fixes, acts, history>>

\* The remote is read back, the binding written, the ref and the row moved.
PushRecorded ==
    /\ Mid("bind") /\ upstream = pass.wt /\ CanAdopt(pass.row, pass.wt)
    /\ gateRef' = pass.wt
    /\ range' = PromotedRange(pass.row, pass.wt)
    /\ pass' = [pass EXCEPT !.row = pass.wt, !.pc = "ci"]
    /\ UNCHANGED <<tracking, upstream, trunk, queued, fixes, acts, history>>

-----------------------------------------------------------------------------
(* How a run ends, and the next one.                                       *)

Over == [NoPass EXCEPT !.base = pass.base]

\* completeRun and failRun adopt what the worktree is ahead of the row.
PassEnds ==
    /\ ~Mid("over") /\ pass.pc \notin {"adopt", "row"}
    /\ pass' = Over
    /\ IF pass.wt # pass.row /\ IsPrefix(pass.row, pass.wt) /\ CanAdopt(pass.row, pass.wt)
       THEN gateRef' = pass.wt /\ range' = PromotedRange(pass.row, pass.wt)
       ELSE UNCHANGED <<gateRef, range>>
    /\ UNCHANGED <<tracking, upstream, trunk, queued, fixes, acts, history>>

Acting == acts < ActBound /\ acts' = acts + 1

DaemonDies ==
    /\ Acting /\ ~Mid("over") /\ pass' = Over
    /\ torn' = (torn \/ Mid("adopt"))
    /\ UNCHANGED <<gateRef, tracking, upstream, trunk, queued, range, fixes, reviewed, owed>>

\* An amended head, or the gate's own with more work.  A push of an ancestor of
\* the gate's head is left out: a run that is ending adopts its own head over it.
UserHeads == {c \in {<<"y">>} \cup (IF "x" \in ToSet(gateRef) THEN {} ELSE {Append(gateRef, "x")}) :
                 ~IsPrefix(c, gateRef)}

UserPushes ==
    /\ Acting /\ queued = NoPush
    /\ \E c \in UserHeads :
        /\ gateRef' = c /\ queued' = [old |-> gateRef, new |-> c]
    /\ UNCHANGED <<tracking, upstream, trunk, pass, range, fixes, history>>

\* A push supersedes the run that is still on.
NextPass ==
    /\ Mid("over") \/ queued # NoPush
    /\ IF queued # NoPush THEN pass' = NewPass(queued.old, queued.new)
       ELSE acts < ActBound /\ pass' = NewPass(pass.base, gateRef)
    /\ acts' = IF queued # NoPush THEN acts ELSE acts + 1
    /\ queued' = NoPush
    /\ torn' = (torn \/ Mid("adopt"))
    /\ UNCHANGED <<gateRef, tracking, upstream, trunk, range, fixes, reviewed, owed>>

OthersPush ==
    /\ Acting /\ upstream # Absent /\ "w" \notin ToSet(upstream)
    /\ upstream' = Append(upstream, "w")
    /\ UNCHANGED <<gateRef, tracking, trunk, pass, queued, range, fixes, history>>

TrunkMoves ==
    /\ Acting /\ trunk = <<>> /\ trunk' = <<"b">>
    /\ UNCHANGED <<gateRef, tracking, upstream, pass, queued, range, fixes, history>>

DeliveryNext ==
    \/ RebaseFetches \/ RebaseMoves \/ HeadAdopted \/ AdoptionRefused \/ RowPromoted
    \/ FixCommitted \/ FixRecorded \/ ReviewSelectsFix \/ ReviewFindsNoDelta \/ ReviewCompletes
    \/ PushStarts \/ PushFormats \/ PushDecides \/ PushSends \/ PushRecorded \/ PassEnds
    \/ DaemonDies \/ UserPushes \/ NextPass \/ OthersPush \/ TrunkMoves

DeliverySpec == DeliveryInit /\ [][DeliveryNext]_deliveryVars

-----------------------------------------------------------------------------
(* Properties.                                                             *)

\* A commit that a step made the head of the branch is in the range the next
\* review is given, until a review has completed on it: whatever fails, is
\* refused or is superseded in between.  (Not after a death between the range
\* and the ref, when the range names a commit the gate does not hold; nor after a
\* rebase that dropped a change behind the range, which the remap miscounts.)
FixesStayRanged ==
    Mid("adopt") \/ torn \/ \A f \in (owed \ reviewed) \cap ToSet(gateRef) :
        /\ Bound(gateRef)
        /\ f \in ToSet(SubSeq(range.to, Len(range.from) + 1, Len(range.to)))

\* A push the gate has taken is never overwritten by the run it supersedes.
GateKeepsPushes == queued # NoPush => IsPrefix(queued.new, gateRef)

\* No fix leaves the range its review is given, and no push that was taken is overwritten.
DeliverySafe == DeliveryTypeOK /\ FixesStayRanged /\ GateKeepsPushes

\* What a push to the remote drops was on no remote head but one an earlier fetch
\* had seen, or was part of the base the user rewrote.
Dropped == ToSet(upstream) \ (ToSet(upstream') \cup ToSet(pass.base))
PushKeepsUnseen == [][PushSends => Dropped \subseteq ToSet(tracking)]_deliveryVars

\* "leaving it stale is what lets the push step's content check catch that case":
\* no push drops a commit that others put on the branch.
PushKeepsOthers == [][PushSends => Dropped \cap {"z", "w"} = {}]_deliveryVars
=============================================================================
