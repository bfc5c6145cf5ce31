----------------------------- MODULE HostProofs -----------------------------
(***************************************************************************)
(* What the user's repository keeps.                                       *)
(*                                                                         *)
(* The branch a run delivers: no push the gate has taken is overwritten by *)
(* the run it supersedes, and what a push to the remote drops was seen     *)
(* there by an earlier fetch.  The first rests on where the head a run     *)
(* records lies with respect to the gate's ref (KeepsInv), the second on   *)
(* what the lease of a push may be (LeaseInv).                             *)
(*                                                                         *)
(* The gate of a checkout: a checkout keeps the gate made for it and every *)
(* push through it is admitted.  Both rest on what a command that is under *)
(* way owns, on records that name one path each and on hooks that are in   *)
(* order wherever the daemon has looked (RepoInv).                         *)
(***************************************************************************)
EXTENDS Delivery, GateRepo, TLAPS


\* A head that exists.  A branch that does not is Absent.
Real(c) == Len(c) \in Nat /\ Len(c) >= 1 /\ c[1] # "none"

PassFields == {"pc", "base", "row", "wt", "force", "completed", "approved", "lease", "undo", "back"}

PassWell ==
    Mid("over") \/ (DOMAIN pass = PassFields /\ Real(pass.row) /\ Real(pass.wt) /\ pass.back = "review")

HeadsInv ==
    /\ Real(gateRef) /\ trunk \in {<<>>, <<"b">>}
    /\ tracking = Absent \/ Real(tracking)
    /\ upstream = Absent \/ Real(upstream)
    /\ queued = NoPush \/ Real(queued.new)
    /\ PassWell

\* A branch the remote lost sight of was never seen there, and the lease of a
\* push under way is one that MayForce allowed.
LeaseInv ==
    /\ upstream = Absent => tracking = Absent
    /\ Mid("send") => \/ pass.lease \in {Absent, pass.wt, tracking}
                      \/ ToSet(pass.lease) \subseteq ToSet(pass.wt) \cup ToSet(pass.base)

\* The head a run records is in the gate's, until a push the gate takes moves it
\* off that head for good; but for a rebase that is not recorded yet, the
\* worktree is ahead of it.
RowInGate == queued = NoPush /\ ~Mid("over") => IsPrefix(IF Mid("row") THEN pass.wt ELSE pass.row, gateRef)
RowLeft ==
    queued # NoPush => /\ pass.pc \in {"fetch", "rebase"} => gateRef # pass.row
                       /\ Mid("adopt") => gateRef # pass.row \/ IsPrefix(pass.row, pass.wt)
WorkAhead == Mid("over") \/ Mid("adopt") \/ Mid("row") \/ IsPrefix(pass.row, pass.wt)
KeepsInv == GateKeepsPushes /\ RowInGate /\ RowLeft /\ WorkAhead

-----------------------------------------------------------------------------
(* Heads.                                                                  *)

\* A head is an extension of itself.
LEMMA PrefixSelf == ASSUME NEW c, Real(c) PROVE IsPrefix(c, c)
  BY DEF Real, IsPrefix

\* A head with another commit on top extends it and is a head.
LEMMA PrefixAppend ==
  ASSUME NEW c, NEW x, Real(c)
  PROVE  Real(Append(c, x)) /\ IsPrefix(c, Append(c, x))
  BY DEF Real, IsPrefix

\* Extending is transitive.
LEMMA PrefixTrans ==
  ASSUME NEW c, NEW d, NEW e, Real(c), Real(d), Real(e), IsPrefix(c, d), IsPrefix(d, e)
  PROVE  IsPrefix(c, e)
<1>1. \A i \in 1..Len(c) : c[i] = d[i]
  BY DEF Real, IsPrefix
<1>2. \A i \in 1..Len(d) : d[i] = e[i]
  BY DEF Real, IsPrefix
<1>3. \A i \in 1..Len(c) : c[i] = e[i]
  BY <1>1, <1>2 DEF Real, IsPrefix
<1>. QED
  BY <1>3 DEF Real, IsPrefix

\* What extends a head has its commits.
LEMMA PrefixKeeps ==
  ASSUME NEW c, NEW d, Real(c), Real(d), IsPrefix(c, d)
  PROVE  ToSet(c) \subseteq ToSet(d)
  BY DEF Real, IsPrefix, ToSet

\* A head is no absent branch.
LEMMA RealIsThere == ASSUME NEW c, Real(c) PROVE c # Absent
  BY DEF Real, Absent

\* What others made of a head stays a head when it is rebased.
LEMMA OntoReal ==
  ASSUME NEW c, NEW t, Real(c), t = Absent \/ t = <<>> \/ Real(t)
  PROVE  Real(Onto(c, t))
<1>1. CASE t = Absent \/ IsPrefix(t, c) \/ IsPrefix(c, t)
  <2>1. IsPrefix(c, t) => t # <<>>
    BY DEF Real, IsPrefix
  <2>2. t = Absent \/ IsPrefix(t, c) => Onto(c, t) = c
    BY DEF Onto
  <2>3. ~(t = Absent \/ IsPrefix(t, c)) => Onto(c, t) = t
    BY <1>1 DEF Onto
  <2>. QED
    BY <1>1, <2>1, <2>2, <2>3
<1>2. CASE ~(t = Absent \/ IsPrefix(t, c) \/ IsPrefix(c, t))
  <2>. DEFINE kept == SelectSeq(c, LAMBDA x : x \notin ToSet(t))
  <2>1. Onto(c, t) = t \o kept
    BY <1>2 DEF Onto
  <2>2. Len(kept) \in Nat
    OBVIOUS
  <2>3. t # <<>>
    BY <1>2 DEF Real, IsPrefix
  <2>. HIDE DEF kept
  <2>. QED
    BY <1>2, <2>1, <2>2, <2>3 DEF Real
<1>. QED
  BY <1>1, <1>2

-----------------------------------------------------------------------------
(* Every head is one that exists.                                          *)

LEMMA InitHeads == DeliveryInit => HeadsInv
  BY DEF DeliveryInit, HeadsInv, PassWell, PassFields, NewPass, Real, Absent, Mid

LEMMA NextHeads == HeadsInv /\ [DeliveryNext]_deliveryVars => HeadsInv'
<1>. SUFFICES ASSUME HeadsInv, [DeliveryNext]_deliveryVars
              PROVE  HeadsInv'
  OBVIOUS
<1>. USE DEF HeadsInv
<1>1. CASE RebaseFetches
  <2>1. PassWell'
    BY <1>1 DEF RebaseFetches, Reaches, Mid, PassWell, PassFields, Over, NoPass
  <2>. QED
    BY <1>1, <2>1 DEF RebaseFetches, PassWell, Mid
<1>2. CASE RebaseMoves
  <2>1. Real(Rebased)
    <3>1. Real(pass.wt)
      BY <1>2 DEF RebaseMoves, Mid, PassWell
    <3>2. Real(Onto(pass.wt, tracking))
      BY <3>1, OntoReal
    <3>3. trunk = <<>> \/ Real(trunk)
      BY DEF Real
    <3>. QED
      BY <3>1, <3>2, <3>3, OntoReal DEF Rebased
  <2>2. PassWell'
    BY <1>2, <2>1 DEF RebaseMoves, Mid, PassWell, PassFields
  <2>. QED
    BY <1>2, <2>2 DEF RebaseMoves
<1>3. CASE HeadAdopted
  <2>1. PassWell'
    BY <1>3 DEF HeadAdopted, Reaches, Mid, PassWell, PassFields, Over, NoPass
  <2>. QED
    BY <1>3, <2>1 DEF HeadAdopted, PassWell, Mid
<1>4. CASE AdoptionRefused
  <2>1. PassWell'
    BY <1>4 DEF AdoptionRefused, Reaches, Mid, PassWell, PassFields, Over, NoPass
  <2>. QED
    BY <1>4, <2>1 DEF AdoptionRefused, PassWell, Mid
<1>5. CASE RowPromoted
  <2>1. PassWell'
    BY <1>5 DEF RowPromoted, Reaches, Mid, PassWell, PassFields, Over, NoPass
  <2>. QED
    BY <1>5, <2>1 DEF RowPromoted, PassWell, Mid
<1>6. CASE FixCommitted
  <2>. PICK pc \in {"fixing", "checks", "ci"} : Commits(pc, pc)
    BY <1>6 DEF FixCommitted
  <2>1. ~Mid("over")
    BY DEF Commits, Mid
  <2>2. Real(pass.row)
    BY <2>1 DEF PassWell
  <2>3. Real(Append(pass.row, FixName[fixes + 1]))
    BY <2>2, PrefixAppend
  <2>4. PassWell'
    BY <2>1, <2>2, <2>3 DEF Commits, Mid, PassWell, PassFields
  <2>. QED
    BY <2>4 DEF Commits
<1>7. CASE FixRecorded
  <2>1. PassWell'
    BY <1>7 DEF FixRecorded, Reaches, Mid, PassWell, PassFields, Over, NoPass
  <2>. QED
    BY <1>7, <2>1 DEF FixRecorded, PassWell, Mid
<1>8. CASE ReviewSelectsFix
  <2>1. PassWell'
    BY <1>8 DEF ReviewSelectsFix, Reaches, Mid, PassWell, PassFields, Over, NoPass
  <2>. QED
    BY <1>8, <2>1 DEF ReviewSelectsFix, PassWell, Mid
<1>9. CASE ReviewFindsNoDelta
  <2>1. PassWell'
    BY <1>9 DEF ReviewFindsNoDelta, Reaches, Mid, PassWell, PassFields, Over, NoPass
  <2>. QED
    BY <1>9, <2>1 DEF ReviewFindsNoDelta, PassWell, Mid
<1>10. CASE ReviewCompletes
  <2>1. PassWell'
    BY <1>10 DEF ReviewCompletes, Reaches, Mid, PassWell, PassFields, Over, NoPass
  <2>. QED
    BY <1>10, <2>1 DEF ReviewCompletes, PassWell, Mid
<1>11. CASE PushStarts
  <2>1. PassWell'
    BY <1>11 DEF PushStarts, Reaches, Mid, PassWell, PassFields, Over, NoPass
  <2>. QED
    BY <1>11, <2>1 DEF PushStarts, PassWell, Mid
<1>12. CASE PushFormats
  <2>1. ~Mid("over")
    BY <1>12 DEF PushFormats, Mid
  <2>2. Real(pass.row)
    BY <2>1 DEF PassWell
  <2>3. Real(Append(pass.row, FixName[fixes + 1]))
    BY <2>2, PrefixAppend
  <2>4. PassWell'
    BY <1>12, <2>1, <2>2, <2>3 DEF PushFormats, Commits, Mid, PassWell, PassFields
  <2>. QED
    BY <1>12, <2>4 DEF PushFormats, Commits
<1>13. CASE PushDecides
  <2>1. PassWell'
    BY <1>13 DEF PushDecides, Reaches, Mid, PassWell, PassFields, Over, NoPass
  <2>. QED
    BY <1>13, <2>1 DEF PushDecides, PassWell, Mid
<1>14. CASE PushSends
  <2>1. PassWell'
    BY <1>14 DEF PushSends, Reaches, Mid, PassWell, PassFields, Over, NoPass
  <2>. QED
    BY <1>14, <2>1 DEF PushSends, PassWell, Mid
<1>15. CASE PushRecorded
  <2>1. PassWell'
    BY <1>15 DEF PushRecorded, Reaches, Mid, PassWell, PassFields, Over, NoPass
  <2>. QED
    BY <1>15, <2>1 DEF PushRecorded, PassWell, Mid
<1>16. CASE PassEnds
  <2>1. PassWell'
    BY <1>16 DEF PassEnds, Reaches, Mid, PassWell, PassFields, Over, NoPass
  <2>. QED
    BY <1>16, <2>1 DEF PassEnds, PassWell, Mid
<1>17. CASE DaemonDies
  <2>1. PassWell'
    BY <1>17 DEF DaemonDies, Reaches, Mid, PassWell, PassFields, Over, NoPass
  <2>. QED
    BY <1>17, <2>1 DEF DaemonDies, PassWell, Mid
<1>18. CASE UserPushes
  <2>. PICK c \in UserHeads : gateRef' = c /\ queued' = [old |-> gateRef, new |-> c]
    BY <1>18 DEF UserPushes
  <2>1. Real(<<"y">>) /\ Real(Append(gateRef, "x"))
    BY PrefixAppend DEF Real
  <2>2. Real(c)
    BY <2>1 DEF UserHeads
  <2>3. PassWell'
    BY <1>18 DEF UserPushes, PassWell, Mid
  <2>. QED
    BY <1>18, <2>2, <2>3 DEF UserPushes
<1>19. CASE NextPass
  <2>1. PassWell'
    BY <1>19 DEF NextPass, NewPass, NoPush, PassWell, PassFields
  <2>. QED
    BY <1>19, <2>1 DEF NextPass
<1>20. CASE OthersPush
  <2>1. Real(Append(upstream, "w"))
    BY <1>20, PrefixAppend DEF OthersPush
  <2>2. PassWell'
    BY <1>20 DEF OthersPush, PassWell, Mid
  <2>. QED
    BY <1>20, <2>1, <2>2 DEF OthersPush
<1>21. CASE TrunkMoves
  <2>1. PassWell'
    BY <1>21 DEF TrunkMoves, Reaches, Mid, PassWell, PassFields, Over, NoPass
  <2>. QED
    BY <1>21, <2>1 DEF TrunkMoves, PassWell, Mid
<1>22. CASE UNCHANGED deliveryVars
  BY <1>22 DEF deliveryVars, history, PassWell, Mid
<1>. QED
  BY <1>1, <1>2, <1>3, <1>4, <1>5, <1>6, <1>7, <1>8, <1>9, <1>10, <1>11, <1>12, <1>13, <1>14, <1>15, <1>16, <1>17, <1>18, <1>19, <1>20, <1>21, <1>22 DEF DeliveryNext
-----------------------------------------------------------------------------
(* What the lease of a push may be.                                        *)

LEMMA InitLease == DeliveryInit => LeaseInv
  BY DEF DeliveryInit, LeaseInv, NewPass, Mid

LEMMA NextLease == HeadsInv /\ LeaseInv /\ [DeliveryNext]_deliveryVars => LeaseInv'
<1>. SUFFICES ASSUME HeadsInv, LeaseInv, [DeliveryNext]_deliveryVars
              PROVE  LeaseInv'
  OBVIOUS
<1>. USE DEF HeadsInv
<1>1. CASE RebaseFetches
  BY <1>1 DEF RebaseFetches, Reaches, Mid, PassWell, PassFields, Over, NoPass, LeaseInv
<1>2. CASE RebaseMoves
  BY <1>2 DEF RebaseMoves, Reaches, Mid, PassWell, PassFields, Over, NoPass, LeaseInv
<1>3. CASE HeadAdopted
  BY <1>3 DEF HeadAdopted, Reaches, Mid, PassWell, PassFields, Over, NoPass, LeaseInv
<1>4. CASE AdoptionRefused
  BY <1>4 DEF AdoptionRefused, Reaches, Mid, PassWell, PassFields, Over, NoPass, LeaseInv
<1>5. CASE RowPromoted
  BY <1>5 DEF RowPromoted, Reaches, Mid, PassWell, PassFields, Over, NoPass, LeaseInv
<1>6. CASE FixCommitted
  BY <1>6 DEF FixCommitted, Commits, Reaches, Mid, PassWell, PassFields, Over, NoPass, LeaseInv
<1>7. CASE FixRecorded
  BY <1>7 DEF FixRecorded, Reaches, Mid, PassWell, PassFields, Over, NoPass, LeaseInv
<1>8. CASE ReviewSelectsFix
  BY <1>8 DEF ReviewSelectsFix, Reaches, Mid, PassWell, PassFields, Over, NoPass, LeaseInv
<1>9. CASE ReviewFindsNoDelta
  BY <1>9 DEF ReviewFindsNoDelta, Reaches, Mid, PassWell, PassFields, Over, NoPass, LeaseInv
<1>10. CASE ReviewCompletes
  BY <1>10 DEF ReviewCompletes, Reaches, Mid, PassWell, PassFields, Over, NoPass, LeaseInv
<1>11. CASE PushStarts
  BY <1>11 DEF PushStarts, Reaches, Mid, PassWell, PassFields, Over, NoPass, LeaseInv
<1>12. CASE PushFormats
  BY <1>12 DEF PushFormats, Commits, Reaches, Mid, PassWell, PassFields, Over, NoPass, LeaseInv
<1>13. CASE PushDecides
  BY <1>13 DEF PushDecides, MayForce, Reaches, Mid, PassWell, PassFields, Over, NoPass, LeaseInv
<1>14. CASE PushSends
  BY <1>14, RealIsThere DEF PushSends, Reaches, Mid, PassWell, PassFields, Over, NoPass, LeaseInv
<1>15. CASE PushRecorded
  BY <1>15 DEF PushRecorded, Reaches, Mid, PassWell, PassFields, Over, NoPass, LeaseInv
<1>16. CASE PassEnds
  BY <1>16 DEF PassEnds, Reaches, Mid, PassWell, PassFields, Over, NoPass, LeaseInv
<1>17. CASE DaemonDies
  BY <1>17 DEF DaemonDies, Reaches, Mid, PassWell, PassFields, Over, NoPass, LeaseInv
<1>18. CASE UserPushes
  BY <1>18 DEF UserPushes, Reaches, Mid, PassWell, PassFields, Over, NoPass, LeaseInv
<1>19. CASE NextPass
  BY <1>19 DEF NextPass, NewPass, Reaches, Mid, PassWell, PassFields, Over, NoPass, LeaseInv
<1>20. CASE OthersPush
  <2>1. Real(Append(upstream, "w"))
    BY <1>20, PrefixAppend DEF OthersPush
  <2>. QED
    BY <1>20, <2>1, RealIsThere DEF OthersPush, LeaseInv, Mid
<1>21. CASE TrunkMoves
  BY <1>21 DEF TrunkMoves, Reaches, Mid, PassWell, PassFields, Over, NoPass, LeaseInv
<1>22. CASE UNCHANGED deliveryVars
  BY <1>22 DEF deliveryVars, history, Reaches, Mid, PassWell, PassFields, Over, NoPass, LeaseInv
<1>. QED
  BY <1>1, <1>2, <1>3, <1>4, <1>5, <1>6, <1>7, <1>8, <1>9, <1>10, <1>11, <1>12, <1>13, <1>14, <1>15, <1>16, <1>17, <1>18, <1>19, <1>20, <1>21, <1>22 DEF DeliveryNext

-----------------------------------------------------------------------------
(* No push the gate has taken is overwritten.                              *)

LEMMA InitKeeps == DeliveryInit => KeepsInv
<1>. SUFFICES ASSUME DeliveryInit
              PROVE  KeepsInv
  OBVIOUS
<1>1. Real(<<"a">>)
  BY DEF Real
<1>2. IsPrefix(<<"a">>, <<"a">>)
  BY <1>1, PrefixSelf
<1>. QED
  BY <1>2 DEF DeliveryInit, KeepsInv, GateKeepsPushes, RowInGate, RowLeft, WorkAhead, NewPass, NoPush, Mid

LEMMA NextKeeps == HeadsInv /\ KeepsInv /\ [DeliveryNext]_deliveryVars => KeepsInv'
<1>. SUFFICES ASSUME HeadsInv, KeepsInv, [DeliveryNext]_deliveryVars
              PROVE  KeepsInv'
  OBVIOUS
<1>. USE DEF HeadsInv
<1>1. CASE RebaseFetches
  BY <1>1 DEF RebaseFetches, Reaches, Mid, PassWell, PassFields, Over, NoPass, KeepsInv, GateKeepsPushes, RowInGate, RowLeft, WorkAhead
<1>2. CASE RebaseMoves
  <2>1. Real(pass.wt) /\ Real(pass.row)
    BY <1>2 DEF RebaseMoves, Mid, PassWell
  <2>2. IsPrefix(pass.row, pass.row)
    BY <2>1, PrefixSelf
  <2>. QED
    BY <1>2, <2>2 DEF RebaseMoves, Reaches, Mid, PassWell, PassFields, Over, NoPass, KeepsInv, GateKeepsPushes, RowInGate, RowLeft, WorkAhead
<1>3. CASE HeadAdopted
  <2>1. Real(pass.row) /\ Real(pass.wt) /\ Mid("adopt") /\ pass'.pc = "row" /\ pass'.wt = pass.wt
    BY <1>3 DEF HeadAdopted, Reaches, Mid, PassWell, PassFields
  <2>2. GateKeepsPushes'
    <3>. SUFFICES ASSUME queued # NoPush
                  PROVE  IsPrefix(queued.new, pass.wt)
      BY <1>3 DEF HeadAdopted, GateKeepsPushes
    <3>1. Real(queued.new) /\ IsPrefix(queued.new, gateRef)
      BY DEF KeepsInv, GateKeepsPushes
    <3>2. IsPrefix(gateRef, pass.wt)
      BY <1>3, <2>1 DEF HeadAdopted, CanAdopt, KeepsInv, RowLeft
    <3>. QED
      BY <2>1, <3>1, <3>2, PrefixTrans
  <2>3. IsPrefix(pass.wt, pass.wt)
    BY <2>1, PrefixSelf
  <2>. QED
    BY <1>3, <2>1, <2>2, <2>3 DEF HeadAdopted, KeepsInv, RowInGate, RowLeft, WorkAhead, Mid
<1>4. CASE AdoptionRefused
  BY <1>4 DEF AdoptionRefused, Reaches, Mid, PassWell, PassFields, Over, NoPass, KeepsInv, GateKeepsPushes, RowInGate, RowLeft, WorkAhead
<1>5. CASE RowPromoted
  <2>1. Real(pass.wt)
    BY <1>5 DEF RowPromoted, Mid, PassWell
  <2>2. IsPrefix(pass.wt, pass.wt)
    BY <2>1, PrefixSelf
  <2>3. pass'.row = pass.wt /\ pass'.wt = pass.wt /\ Mid("row") /\ pass'.pc = "review"
    BY <1>5 DEF RowPromoted, Mid, PassWell, PassFields
  <2>. QED
    BY <1>5, <2>2, <2>3 DEF RowPromoted, Mid, KeepsInv, GateKeepsPushes, RowInGate, RowLeft, WorkAhead
<1>6. CASE FixCommitted
  <2>. PICK pc \in {"fixing", "checks", "ci"} : Commits(pc, pc)
    BY <1>6 DEF FixCommitted
  <2>1. Real(pass.row)
    BY DEF Commits, Mid, PassWell
  <2>2. IsPrefix(pass.row, Append(pass.row, FixName[fixes + 1]))
    BY <2>1, PrefixAppend
  <2>. QED
    BY <2>2 DEF Commits, Reaches, Mid, PassWell, PassFields, Over, NoPass, KeepsInv, GateKeepsPushes, RowInGate, RowLeft, WorkAhead
<1>7. CASE FixRecorded
  BY <1>7 DEF FixRecorded, Reaches, Mid, PassWell, PassFields, Over, NoPass, KeepsInv, GateKeepsPushes, RowInGate, RowLeft, WorkAhead
<1>8. CASE ReviewSelectsFix
  BY <1>8 DEF ReviewSelectsFix, Reaches, Mid, PassWell, PassFields, Over, NoPass, KeepsInv, GateKeepsPushes, RowInGate, RowLeft, WorkAhead
<1>9. CASE ReviewFindsNoDelta
  BY <1>9 DEF ReviewFindsNoDelta, Reaches, Mid, PassWell, PassFields, Over, NoPass, KeepsInv, GateKeepsPushes, RowInGate, RowLeft, WorkAhead
<1>10. CASE ReviewCompletes
  BY <1>10 DEF ReviewCompletes, Reaches, Mid, PassWell, PassFields, Over, NoPass, KeepsInv, GateKeepsPushes, RowInGate, RowLeft, WorkAhead
<1>11. CASE PushStarts
  BY <1>11 DEF PushStarts, Reaches, Mid, PassWell, PassFields, Over, NoPass, KeepsInv, GateKeepsPushes, RowInGate, RowLeft, WorkAhead
<1>12. CASE PushFormats
  <2>1. Real(pass.row)
    BY <1>12 DEF PushFormats, Mid, PassWell
  <2>2. IsPrefix(pass.row, Append(pass.row, FixName[fixes + 1]))
    BY <2>1, PrefixAppend
  <2>. QED
    BY <1>12, <2>2 DEF PushFormats, Commits, Reaches, Mid, PassWell, PassFields, Over, NoPass, KeepsInv, GateKeepsPushes, RowInGate, RowLeft, WorkAhead
<1>13. CASE PushDecides
  BY <1>13 DEF PushDecides, Reaches, Mid, PassWell, PassFields, Over, NoPass, KeepsInv, GateKeepsPushes, RowInGate, RowLeft, WorkAhead
<1>14. CASE PushSends
  BY <1>14 DEF PushSends, Reaches, Mid, PassWell, PassFields, Over, NoPass, KeepsInv, GateKeepsPushes, RowInGate, RowLeft, WorkAhead
<1>15. CASE PushRecorded
  <2>1. Real(pass.row) /\ Real(pass.wt) /\ IsPrefix(pass.row, pass.wt)
    BY <1>15 DEF PushRecorded, Mid, PassWell, KeepsInv, WorkAhead
  <2>2. GateKeepsPushes'
    <3>. SUFFICES ASSUME queued # NoPush
                  PROVE  IsPrefix(queued.new, pass.wt)
      BY <1>15 DEF PushRecorded, GateKeepsPushes
    <3>1. Real(queued.new) /\ IsPrefix(queued.new, gateRef)
      BY DEF KeepsInv, GateKeepsPushes
    <3>2. IsPrefix(gateRef, pass.wt)
      BY <1>15, <2>1 DEF PushRecorded, CanAdopt
    <3>. QED
      BY <2>1, <3>1, <3>2, PrefixTrans
  <2>3. IsPrefix(pass.wt, pass.wt)
    BY <2>1, PrefixSelf
  <2>. QED
    BY <1>15, <2>2, <2>3 DEF PushRecorded, PassWell, PassFields, Mid, KeepsInv, RowInGate, RowLeft, WorkAhead
<1>16. CASE PassEnds
  <2>1. GateKeepsPushes'
    <3>. SUFFICES ASSUME queued # NoPush, gateRef' # gateRef
                  PROVE  IsPrefix(queued.new, pass.wt)
      BY <1>16 DEF PassEnds, KeepsInv, GateKeepsPushes
    <3>1. Real(queued.new) /\ IsPrefix(queued.new, gateRef)
      BY DEF KeepsInv, GateKeepsPushes
    <3>2. IsPrefix(gateRef, pass.wt) /\ Real(pass.wt)
      BY <1>16 DEF PassEnds, CanAdopt, PassWell
    <3>. QED
      BY <3>1, <3>2, PrefixTrans
  <2>. QED
    BY <1>16, <2>1 DEF PassEnds, Reaches, Mid, PassWell, PassFields, Over, NoPass, KeepsInv, GateKeepsPushes, RowInGate, RowLeft, WorkAhead
<1>17. CASE DaemonDies
  BY <1>17 DEF DaemonDies, Reaches, Mid, PassWell, PassFields, Over, NoPass, KeepsInv, GateKeepsPushes, RowInGate, RowLeft, WorkAhead
<1>18. CASE UserPushes
  <2>. PICK c \in UserHeads : gateRef' = c /\ queued' = [old |-> gateRef, new |-> c]
    BY <1>18 DEF UserPushes
  <2>1. Real(<<"y">>) /\ Real(Append(gateRef, "x"))
    BY PrefixAppend DEF Real
  <2>2. Real(c) /\ ~IsPrefix(c, gateRef)
    BY <2>1 DEF UserHeads
  <2>3. queued = NoPush /\ queued' # NoPush /\ queued'.new = c /\ pass' = pass
    BY <1>18 DEF UserPushes, NoPush
  <2>4. GateKeepsPushes'
    BY <2>2, <2>3, PrefixSelf DEF GateKeepsPushes
  <2>5. ~Mid("over") /\ ~Mid("row") => c # pass.row
    BY <2>2, <2>3 DEF KeepsInv, RowInGate
  <2>6. RowLeft'
    BY <2>3, <2>5 DEF RowLeft, Mid
  <2>. QED
    BY <2>3, <2>4, <2>6 DEF KeepsInv, RowInGate, WorkAhead, Mid
<1>19. CASE NextPass
  <2>1. queued' = NoPush /\ gateRef' = gateRef /\ pass'.pc = "fetch" /\ pass'.wt = pass'.row
    BY <1>19 DEF NextPass, NewPass
  <2>2. Real(pass'.row) /\ IsPrefix(pass'.row, gateRef)
    BY <1>19, PrefixSelf DEF NextPass, NewPass, KeepsInv, GateKeepsPushes
  <2>3. IsPrefix(pass'.row, pass'.wt)
    BY <2>1, <2>2, PrefixSelf
  <2>. QED
    BY <2>1, <2>2, <2>3 DEF Mid, KeepsInv, GateKeepsPushes, RowInGate, RowLeft, WorkAhead
<1>20. CASE OthersPush
  BY <1>20 DEF OthersPush, Reaches, Mid, PassWell, PassFields, Over, NoPass, KeepsInv, GateKeepsPushes, RowInGate, RowLeft, WorkAhead
<1>21. CASE TrunkMoves
  BY <1>21 DEF TrunkMoves, Reaches, Mid, PassWell, PassFields, Over, NoPass, KeepsInv, GateKeepsPushes, RowInGate, RowLeft, WorkAhead
<1>22. CASE UNCHANGED deliveryVars
  BY <1>22 DEF deliveryVars, history, Reaches, Mid, PassWell, PassFields, Over, NoPass, KeepsInv, GateKeepsPushes, RowInGate, RowLeft, WorkAhead
<1>. QED
  BY <1>1, <1>2, <1>3, <1>4, <1>5, <1>6, <1>7, <1>8, <1>9, <1>10, <1>11, <1>12, <1>13, <1>14, <1>15, <1>16, <1>17, <1>18, <1>19, <1>20, <1>21, <1>22 DEF DeliveryNext

-----------------------------------------------------------------------------
(* Theorems.                                                               *)

\* The heads are heads, the lease of a push under way is one the decision
\* allowed, and the head a run records is the gate's or is left behind by a push.
THEOREM DeliveryInvHolds == DeliverySpec => [](HeadsInv /\ LeaseInv /\ KeepsInv)
<1>1. DeliveryInit => HeadsInv /\ LeaseInv /\ KeepsInv
  BY InitHeads, InitLease, InitKeeps
<1>2. HeadsInv /\ LeaseInv /\ KeepsInv /\ [DeliveryNext]_deliveryVars => (HeadsInv /\ LeaseInv /\ KeepsInv)'
  BY NextHeads, NextLease, NextKeeps
<1>. QED
  BY <1>1, <1>2, PTL DEF DeliverySpec

\* A push the gate has taken is never overwritten by the run it supersedes,
\* however often that run rebases, commits, records, ends or dies meanwhile.
THEOREM TakenPushesStay == DeliverySpec => []GateKeepsPushes
<1>1. KeepsInv => GateKeepsPushes
  BY DEF KeepsInv
<1>. QED
  BY <1>1, DeliveryInvHolds, PTL

\* What a push to the remote drops was on a remote head an earlier fetch had
\* seen, or was part of the base the user rewrote.
THEOREM PushesKeepUnseen == DeliverySpec => PushKeepsUnseen
<1>1. HeadsInv /\ LeaseInv /\ [DeliveryNext]_deliveryVars
        => [PushSends => Dropped \subseteq ToSet(tracking)]_deliveryVars
  <2>. SUFFICES ASSUME HeadsInv, LeaseInv, PushSends
                PROVE  Dropped \subseteq ToSet(tracking)
    OBVIOUS
  <2>1. upstream' = pass.wt /\ pass'.base = pass.base
    BY DEF PushSends, Reaches, Mid, HeadsInv, PassWell, PassFields
  <2>2. CASE upstream = pass.wt
    BY <2>1, <2>2 DEF Dropped
  <2>3. CASE upstream = pass.lease
    <3>1. \/ pass.lease \in {Absent, pass.wt, tracking}
          \/ ToSet(pass.lease) \subseteq ToSet(pass.wt) \cup ToSet(pass.base)
      BY DEF PushSends, LeaseInv
    <3>. QED
      BY <2>1, <2>3, <3>1 DEF Dropped, LeaseInv
  <2>4. CASE pass.lease = Absent /\ IsPrefix(upstream, pass.wt)
    <3>1. CASE upstream = Absent
      BY <2>1, <3>1 DEF Dropped, LeaseInv
    <3>2. CASE upstream # Absent
      <4>1. Real(upstream) /\ Real(pass.wt)
        BY <3>2 DEF HeadsInv, PassWell, PushSends, Mid
      <4>2. ToSet(upstream) \subseteq ToSet(pass.wt)
        BY <2>4, <4>1, PrefixKeeps
      <4>. QED
        BY <2>1, <4>2 DEF Dropped
    <3>. QED
      BY <3>1, <3>2
  <2>. QED
    BY <2>2, <2>3, <2>4 DEF PushSends, LeaseHolds
<1>. QED
  BY <1>1, DeliveryInvHolds, PTL DEF DeliverySpec, PushKeepsUnseen

-----------------------------------------------------------------------------
(* The gate: the inductive invariant *)



Remotes == Paths \cup {None, User}
Checkouts == [there : BOOLEAN, canon : Remotes, legacy : Remotes]
Gates == [there : BOOLEAN, pre : {"none", "managed", "stale", "user", "dead"},
          kept : {"none", "user", "self"}, post : {"none", "managed", "stale", "user", "dead"},
          pinned : BOOLEAN, hijacked : BOOLEAN, stamp : {"none", "now", "old"}, shared : BOOLEAN]
Places == {"idle", "find", "hooks", "canon", "legacy", "store", "record", "unwire", "drop", "forget"}
Commands == [op : {"none", "init", "eject"}, w : Paths \cup {0}, g : Paths \cup {0},
             fresh : BOOLEAN, pc : Places]

RepoTyped ==
    /\ dir \in [Paths -> Checkouts] /\ gates \in [Paths -> Gates]
    /\ rec \in [Paths -> Paths \cup {None}] /\ settled \in [Paths -> Paths \cup {None}]
    /\ cli \in Commands
    /\ server \in {"down", "migrating", "up"}
    /\ todo \subseteq Paths /\ tampered \subseteq Paths
    /\ budget \in [{"shifts", "tampers", "inits"} -> Nat]

OneRecord == \A g, h \in Paths : rec[g] = rec[h] /\ rec[g] # None => g = h

\* What a command has come to, and what nobody takes from it until it goes on.
Underway ==
    /\ cli.pc = "idle" <=> cli = Idle
    /\ cli.pc # "idle" => cli.w \in Paths /\ dir[cli.w].there = TRUE /\ settled[cli.w] = None
    /\ cli.pc \notin {"idle", "find"} =>
          /\ cli.g \in Paths
          /\ (cli.fresh = TRUE => cli.g = cli.w)
          /\ (cli.fresh = FALSE => rec[cli.g] = cli.w)
    /\ cli.pc \in {"canon", "legacy", "store", "record"} => gates[cli.g].there = TRUE
    /\ cli.pc \in {"legacy", "store", "record"} => dir[cli.w].canon = cli.g
    /\ cli.pc \in {"store", "record"} => dir[cli.w].legacy = cli.g
    /\ cli.pc = "store" => cli.fresh = TRUE
    /\ cli.pc \in {"unwire", "drop", "forget"} => cli.fresh = FALSE

\* A settled checkout is there, its record is its own, and so is a gate it made.
Settled ==
    \A w \in Paths :
        /\ settled[w] # None => dir[w].there = TRUE /\ rec[settled[w]] = w
        /\ settled[w] = w => gates[w].there = TRUE /\ dir[w].canon = w /\ dir[w].legacy = w

\* A gate git would run the hooks of; and one the daemon has seen to, in order
\* or with two hooks of the user's.
Armed(h) == h.pre = "managed" /\ h.post \in {"managed", "user"}
Hooked ==
    \A g \in Paths : gates[g].there = TRUE =>
        /\ gates[g].pinned = TRUE
        /\ (server = "up" \/ (server = "migrating" /\ g \notin todo)) /\ g \notin tampered
              => Armed(gates[g]) \/ Conflict(gates[g])

\* Every push was admitted and started its run, or could not.
Admitted == pushed \in {"none", "done"}

RepoInv == RepoTyped /\ OneRecord /\ Underway /\ Settled /\ Hooked /\ Admitted

-----------------------------------------------------------------------------
(* What the model's operators make of a gate, a checkout and a command *)

LEMMA BlankRecords ==
    /\ NoGate \in Gates /\ NoGate.there = FALSE
    /\ Idle \in Commands /\ Idle.pc = "idle"
    /\ NoDir \in Checkouts /\ NewDir \in Checkouts
    /\ \A r \in {None, User} : [NewDir EXCEPT !.canon = r] \in Checkouts
<1>1. NoGate \in Gates /\ NoGate.there = FALSE
  BY DEF NoGate, Gates
<1>2. Idle \in Commands /\ Idle.pc = "idle"
  BY DEF Idle, Commands, Places
<1>3. NoDir \in Checkouts /\ NewDir \in Checkouts
  BY DEF NoDir, NewDir, Checkouts, Remotes
<1>4. ASSUME NEW r \in {None, User} PROVE [NewDir EXCEPT !.canon = r] \in Checkouts
  <2>1. r \in Remotes
    BY DEF Remotes
  <2> QED BY <1>3, <2>1 DEF Checkouts
<1> QED BY <1>1, <1>2, <1>3, <1>4

LEMMA HooksInOrder ==
    ASSUME NEW h \in Gates
    PROVE  /\ Pinned(RearmPost(RearmPre(h))) \in Gates
           /\ Pinned(RearmPost(RearmPre(h))).there = h.there
           /\ Pinned(RearmPost(RearmPre(h))).pinned = TRUE
           /\ Pinned(RearmPost(RearmPre(h))).pre = "managed"
           /\ Pinned(RearmPost(RearmPre(h))).post \in {"managed", "user"}
           /\ "user" \in {h.pre, h.kept} => Pinned(RearmPost(RearmPre(h))).kept = "user"
<1>1. /\ RearmPre(h) \in Gates /\ RearmPre(h).there = h.there /\ RearmPre(h).pre = "managed"
      /\ "user" \in {h.pre, h.kept} => RearmPre(h).kept = "user"
  BY DEF RearmPre, Gates
<1>2. ASSUME NEW p \in Gates
      PROVE  /\ RearmPost(p) \in Gates /\ RearmPost(p).there = p.there /\ RearmPost(p).pre = p.pre
             /\ RearmPost(p).kept = p.kept /\ RearmPost(p).post \in {"managed", "user"}
  BY DEF RearmPost, Gates
<1>3. ASSUME NEW p \in Gates
      PROVE  /\ Pinned(p) \in Gates /\ Pinned(p).there = p.there /\ Pinned(p).pre = p.pre
             /\ Pinned(p).kept = p.kept /\ Pinned(p).post = p.post /\ Pinned(p).pinned = TRUE
  BY DEF Pinned, Gates
<1>4. RearmPost(RearmPre(h)) \in Gates
  BY <1>1, <1>2
<1> QED BY <1>1, <1>2, <1>3, <1>4

LEMMA StaleHooks ==
    ASSUME NEW h \in Gates
    PROVE  Stale(h) \in Gates /\ Stale(h).there = h.there /\ Stale(h).pinned = h.pinned
  BY DEF Stale, Gates

LEMMA GateCreated ==
    ASSUME NEW h \in Gates
    PROVE  /\ [h EXCEPT !.there = TRUE] \in Gates /\ [h EXCEPT !.there = TRUE].there = TRUE
           /\ [h EXCEPT !.there = TRUE].pre = h.pre /\ [h EXCEPT !.there = TRUE].kept = h.kept
           /\ [h EXCEPT !.shared = TRUE] \in Gates
           /\ [h EXCEPT !.shared = TRUE].there = h.there /\ [h EXCEPT !.shared = TRUE].pre = h.pre
           /\ [h EXCEPT !.shared = TRUE].kept = h.kept /\ [h EXCEPT !.shared = TRUE].post = h.post
           /\ [h EXCEPT !.shared = TRUE].pinned = h.pinned
  BY DEF Gates

LEMMA Tampered ==
    ASSUME NEW h \in Gates,
           NEW k \in {[h EXCEPT !.pre = "user"], [h EXCEPT !.post = "user"],
                      [h EXCEPT !.pre = "dead", !.post = "dead"], [h EXCEPT !.kept = "self"],
                      [h EXCEPT !.hijacked = TRUE]}
    PROVE  k \in Gates /\ k.there = h.there /\ k.pinned = h.pinned
  BY DEF Gates

LEMMA RemoteSet ==
    ASSUME NEW d \in Checkouts, NEW r \in Remotes
    PROVE  /\ [d EXCEPT !.canon = r] \in Checkouts
           /\ [d EXCEPT !.canon = r].there = d.there /\ [d EXCEPT !.canon = r].canon = r
           /\ [d EXCEPT !.canon = r].legacy = d.legacy
           /\ [d EXCEPT !.legacy = r] \in Checkouts
           /\ [d EXCEPT !.legacy = r].there = d.there /\ [d EXCEPT !.legacy = r].legacy = r
           /\ [d EXCEPT !.legacy = r].canon = d.canon
  BY DEF Checkouts

LEMMA StepTaken ==
    ASSUME cli \in Commands, NEW pc \in Places, GoTo(pc)
    PROVE  /\ cli' \in Commands /\ cli'.pc = pc
           /\ cli'.op = cli.op /\ cli'.w = cli.w /\ cli'.g = cli.g /\ cli'.fresh = cli.fresh
  BY DEF Commands, GoTo

\* A command that gives up takes along what it created, and nothing of a checkout
\* that was settled.
LEMMA GivesUp ==
    ASSUME RepoInv, NEW b \in BOOLEAN, cli.pc \notin {"idle", "find"}, GiveUp(b)
    PROVE  RepoInv'
<1>1. /\ cli' = Idle /\ UNCHANGED <<rec, server, todo, settled, tampered, pushed, budget>>
  BY DEF GiveUp
<1>2. cli \in Commands /\ cli.w \in Paths /\ cli.g \in Paths /\ settled[cli.w] = None
      /\ (cli.fresh = TRUE => cli.g = cli.w)
  BY DEF RepoInv, RepoTyped, Underway
<1>3. /\ gates' \in [Paths -> Gates] /\ \A g \in Paths : gates'[g] = gates[g] \/ (g = cli.w /\ gates'[g] = NoGate)
      /\ dir' \in [Paths -> Checkouts] /\ \A w \in Paths : w # cli.w => dir'[w] = dir[w]
      /\ dir'[cli.w].there = dir[cli.w].there
  <2>1. CASE cli.fresh
    <3>1. gates' = [gates EXCEPT ![cli.g] = NoGate]
      BY <2>1 DEF GiveUp
    <3> DEFINE c == IF b \/ dir[cli.w].canon = cli.g THEN None ELSE dir[cli.w].canon
               l == IF b \/ dir[cli.w].legacy = cli.g THEN None ELSE dir[cli.w].legacy
    <3>2. dir' = [dir EXCEPT ![cli.w] = [[dir[cli.w] EXCEPT !.canon = c] EXCEPT !.legacy = l]]
      <4>1. dir' = [dir EXCEPT ![cli.w].canon = IF b \/ @ = cli.g THEN None ELSE @,
                               ![cli.w].legacy = IF b \/ @ = cli.g THEN None ELSE @]
        BY <2>1 DEF GiveUp
      <4>2. dir \in [Paths -> Checkouts] /\ dir[cli.w] \in Checkouts
        BY <1>2 DEF RepoInv, RepoTyped
      <4>3. [dir[cli.w] EXCEPT !.canon = c].legacy = dir[cli.w].legacy
        BY <4>2 DEF Checkouts
      <4> QED BY <4>1, <4>2, <4>3, <1>2
    <3>3. dir[cli.w] \in Checkouts /\ c \in Remotes /\ l \in Remotes
      BY <1>2 DEF RepoInv, RepoTyped, Checkouts, Remotes
    <3> HIDE DEF c, l
    <3>4. /\ [[dir[cli.w] EXCEPT !.canon = c] EXCEPT !.legacy = l] \in Checkouts
          /\ [[dir[cli.w] EXCEPT !.canon = c] EXCEPT !.legacy = l].there = dir[cli.w].there
      <4>1. [dir[cli.w] EXCEPT !.canon = c] \in Checkouts /\ [dir[cli.w] EXCEPT !.canon = c].there = dir[cli.w].there
        BY <3>3, RemoteSet
      <4> QED BY <3>3, <4>1, RemoteSet
    <3>5. gates \in [Paths -> Gates] /\ dir \in [Paths -> Checkouts] /\ cli.g = cli.w
      BY <1>2, <2>1 DEF RepoInv, RepoTyped
    <3> QED BY <1>2, <3>1, <3>2, <3>4, <3>5, BlankRecords
  <2>2. CASE ~cli.fresh
    <3>1. gates' = gates /\ dir' = dir
      BY <2>2 DEF GiveUp
    <3> QED BY <3>1 DEF RepoInv, RepoTyped
  <2> QED BY <2>1, <2>2
<1>4. RepoTyped' /\ OneRecord' /\ Admitted'
  BY <1>1, <1>3, BlankRecords DEF RepoInv, RepoTyped, OneRecord, Admitted
<1>5. Underway'
  BY <1>1, BlankRecords DEF Underway
<1>6. Settled'
  <2>1. ASSUME NEW w \in Paths, settled[w] # None
        PROVE  w # cli.w /\ dir'[w] = dir[w] /\ gates'[w] = gates[w]
    BY <1>2, <1>3, <2>1
  <2>2. settled' = settled /\ rec' = rec /\ None \notin Paths
    BY <1>1, GateAssumption
  <2> QED BY <2>1, <2>2 DEF RepoInv, Settled
<1>7. Hooked'
  BY <1>1, <1>3, BlankRecords DEF RepoInv, Hooked, Armed, Conflict
<1> QED BY <1>4, <1>5, <1>6, <1>7 DEF RepoInv

-----------------------------------------------------------------------------
(* Every action keeps the invariant *)

\* MoveDir keeps the invariant.
LEMMA MoveDirKeeps ==
    ASSUME RepoInv, NEW w \in Paths, NEW v \in Paths, MoveDir(w, v)
    PROVE  RepoInv'
<1>1. (OneRecord /\ Hooked /\ Admitted)'
    BY DEF RepoInv, OneRecord, None, Hooked, Conflict, Armed, Admitted, MoveDir, NoDir,
      Spend
<1>2. RepoTyped'
  <2>1. (/\ gates \in [Paths -> Gates]
         /\ rec \in [Paths -> Paths \cup {None}]
         /\ cli \in Commands
         /\ server \in {"down", "migrating", "up"}
         /\ todo \subseteq Paths
         /\ tampered \subseteq Paths)'
        BY DEF RepoInv, RepoTyped, None, Gates, Checkouts, Remotes, User, Commands,
        Places, MoveDir, NoDir, Spend
  <2>2. (dir \in [Paths -> Checkouts])'
        BY DEF RepoInv, RepoTyped, None, Gates, Checkouts, Remotes, User, Commands,
        Places, MoveDir, NoDir, Spend
  <2>3. (settled \in [Paths -> Paths \cup {None}])'
        BY DEF RepoInv, RepoTyped, None, Gates, Checkouts, Remotes, User, Commands,
        Places, MoveDir, NoDir, Spend
  <2>4. (budget \in [{"shifts", "tampers", "inits"} -> Nat])'
        BY DEF RepoInv, RepoTyped, None, Gates, Checkouts, Remotes, User, Commands,
        Places, MoveDir, NoDir, Spend
    <2> QED BY <2>1, <2>2, <2>3, <2>4 DEF RepoTyped
<1>3. Underway'
  <2>1. (/\ cli.pc = "idle" <=> cli = Idle
         /\ cli.pc \notin {"idle", "find"} =>
               /\ cli.g \in Paths
               /\ (cli.fresh = TRUE => cli.g = cli.w)
               /\ (cli.fresh = FALSE => rec[cli.g] = cli.w)
         /\ cli.pc \in {"canon", "legacy", "store", "record"} => gates[cli.g].there = TRUE
         /\ cli.pc = "store" => cli.fresh = TRUE
         /\ cli.pc \in {"unwire", "drop", "forget"} => cli.fresh = FALSE)'
        BY DEF RepoInv, Underway, None, Idle, MoveDir, NoDir, Spend
  <2>2. (cli.pc # "idle" => cli.w \in Paths /\ dir[cli.w].there = TRUE /\ settled[cli.w] = None)'
        BY DEF RepoInv, Underway, None, Idle, RepoTyped, Gates, Checkouts, Remotes, User,
        Commands, Places, MoveDir, NoDir, Spend
  <2>3. (cli.pc \in {"legacy", "store", "record"} => dir[cli.w].canon = cli.g)'
        BY DEF RepoInv, Underway, None, Idle, RepoTyped, Gates, Checkouts, Remotes, User,
        Commands, Places, MoveDir, NoDir, Spend
  <2>4. (cli.pc \in {"store", "record"} => dir[cli.w].legacy = cli.g)'
        BY DEF RepoInv, Underway, None, Idle, RepoTyped, Gates, Checkouts, Remotes, User,
        Commands, Places, MoveDir, NoDir, Spend
    <2> QED BY <2>1, <2>2, <2>3, <2>4 DEF Underway
<1>4. Settled'
  <2>1. settled[v] = None
    BY DEF RepoInv, Settled, MoveDir, RepoTyped
  <2>2. ASSUME NEW x \in Paths, settled'[x] # None
        PROVE  settled'[x] = settled[x] /\ dir'[x] = dir[x]
    BY <2>1, <2>2 DEF RepoInv, RepoTyped, MoveDir
  <2> QED BY <2>2, GateAssumption DEF RepoInv, RepoTyped, Settled, MoveDir
<1> QED BY <1>1, <1>2, <1>3, <1>4 DEF RepoInv

\* CopyDir keeps the invariant.
LEMMA CopyDirKeeps ==
    ASSUME RepoInv, NEW w \in Paths, NEW v \in Paths, CopyDir(w, v)
    PROVE  RepoInv'
<1>1. (OneRecord /\ Hooked /\ Admitted)'
    BY DEF RepoInv, OneRecord, None, Hooked, Conflict, Armed, Admitted, CopyDir, Spend
<1>2. RepoTyped'
  <2>1. (/\ gates \in [Paths -> Gates]
         /\ rec \in [Paths -> Paths \cup {None}]
         /\ settled \in [Paths -> Paths \cup {None}]
         /\ cli \in Commands
         /\ server \in {"down", "migrating", "up"}
         /\ todo \subseteq Paths
         /\ tampered \subseteq Paths)'
        BY DEF RepoInv, RepoTyped, None, Gates, Checkouts, Remotes, User, Commands,
        Places, CopyDir, Spend
  <2>2. (dir \in [Paths -> Checkouts])'
        BY DEF RepoInv, RepoTyped, None, Gates, Checkouts, Remotes, User, Commands,
        Places, CopyDir, Spend
  <2>3. (budget \in [{"shifts", "tampers", "inits"} -> Nat])'
        BY DEF RepoInv, RepoTyped, None, Gates, Checkouts, Remotes, User, Commands,
        Places, CopyDir, Spend
    <2> QED BY <2>1, <2>2, <2>3 DEF RepoTyped
<1>3. Underway'
  <2>1. (/\ cli.pc = "idle" <=> cli = Idle
         /\ cli.pc \notin {"idle", "find"} =>
               /\ cli.g \in Paths
               /\ (cli.fresh = TRUE => cli.g = cli.w)
               /\ (cli.fresh = FALSE => rec[cli.g] = cli.w)
         /\ cli.pc \in {"canon", "legacy", "store", "record"} => gates[cli.g].there = TRUE
         /\ cli.pc = "store" => cli.fresh = TRUE
         /\ cli.pc \in {"unwire", "drop", "forget"} => cli.fresh = FALSE)'
        BY DEF RepoInv, Underway, None, Idle, CopyDir, Spend
  <2>2. (cli.pc # "idle" => cli.w \in Paths /\ dir[cli.w].there = TRUE /\ settled[cli.w] = None)'
        BY DEF RepoInv, Underway, None, Idle, CopyDir, Spend
  <2>3. (cli.pc \in {"legacy", "store", "record"} => dir[cli.w].canon = cli.g)'
        BY DEF RepoInv, Underway, None, Idle, CopyDir, Spend
  <2>4. (cli.pc \in {"store", "record"} => dir[cli.w].legacy = cli.g)'
        BY DEF RepoInv, Underway, None, Idle, CopyDir, Spend
    <2> QED BY <2>1, <2>2, <2>3, <2>4 DEF Underway
<1>4. Settled'
  <2>1. settled[v] = None
    BY DEF RepoInv, Settled, CopyDir, RepoTyped
  <2>2. ASSUME NEW x \in Paths, settled'[x] # None
        PROVE  settled'[x] = settled[x] /\ dir'[x] = dir[x]
    BY <2>1, <2>2 DEF RepoInv, RepoTyped, CopyDir
  <2> QED BY <2>2, GateAssumption DEF RepoInv, RepoTyped, Settled, CopyDir
<1> QED BY <1>1, <1>2, <1>3, <1>4 DEF RepoInv

\* CloneDir keeps the invariant.
LEMMA CloneDirKeeps ==
    ASSUME RepoInv, NEW w \in Paths, CloneDir(w)
    PROVE  RepoInv'
<1>1. (OneRecord /\ Hooked /\ Admitted)'
    BY DEF RepoInv, OneRecord, None, Hooked, Conflict, Armed, Admitted, CloneDir, Spend,
      User, NewDir, NoDir
<1>2. RepoTyped'
  <2>1. (/\ gates \in [Paths -> Gates]
         /\ rec \in [Paths -> Paths \cup {None}]
         /\ settled \in [Paths -> Paths \cup {None}]
         /\ cli \in Commands
         /\ server \in {"down", "migrating", "up"}
         /\ todo \subseteq Paths
         /\ tampered \subseteq Paths)'
        BY DEF RepoInv, RepoTyped, None, Gates, Checkouts, Remotes, User, Commands,
        Places, CloneDir, Spend, NewDir, NoDir
  <2>2. (dir \in [Paths -> Checkouts])'
    BY BlankRecords DEF RepoInv, RepoTyped, CloneDir
  <2>3. (budget \in [{"shifts", "tampers", "inits"} -> Nat])'
        BY DEF RepoInv, RepoTyped, None, Gates, Checkouts, Remotes, User, Commands,
        Places, CloneDir, Spend, NewDir, NoDir
    <2> QED BY <2>1, <2>2, <2>3 DEF RepoTyped
<1>3. Underway'
  <2>1. (/\ cli.pc = "idle" <=> cli = Idle
         /\ cli.pc \notin {"idle", "find"} =>
               /\ cli.g \in Paths
               /\ (cli.fresh = TRUE => cli.g = cli.w)
               /\ (cli.fresh = FALSE => rec[cli.g] = cli.w)
         /\ cli.pc \in {"canon", "legacy", "store", "record"} => gates[cli.g].there = TRUE
         /\ cli.pc = "store" => cli.fresh = TRUE
         /\ cli.pc \in {"unwire", "drop", "forget"} => cli.fresh = FALSE)'
        BY DEF RepoInv, Underway, None, Idle, CloneDir, Spend, User, NewDir, NoDir
  <2>2. (cli.pc # "idle" => cli.w \in Paths /\ dir[cli.w].there = TRUE /\ settled[cli.w] = None)'
        BY DEF RepoInv, Underway, None, Idle, CloneDir, Spend, User, NewDir, NoDir
  <2>3. (cli.pc \in {"legacy", "store", "record"} => dir[cli.w].canon = cli.g)'
        BY DEF RepoInv, Underway, None, Idle, CloneDir, Spend, User, NewDir, NoDir
  <2>4. (cli.pc \in {"store", "record"} => dir[cli.w].legacy = cli.g)'
        BY DEF RepoInv, Underway, None, Idle, CloneDir, Spend, User, NewDir, NoDir
    <2> QED BY <2>1, <2>2, <2>3, <2>4 DEF Underway
<1>4. Settled'
  <2>1. settled[w] = None
    BY DEF RepoInv, Settled, CloneDir, RepoTyped
  <2>2. ASSUME NEW x \in Paths, settled'[x] # None
        PROVE  settled'[x] = settled[x] /\ dir'[x] = dir[x]
    BY <2>1, <2>2 DEF RepoInv, RepoTyped, CloneDir
  <2> QED BY <2>2, GateAssumption DEF RepoInv, RepoTyped, Settled, CloneDir
<1> QED BY <1>1, <1>2, <1>3, <1>4 DEF RepoInv

\* BeginInit keeps the invariant.
LEMMA BeginInitKeeps ==
    ASSUME RepoInv, NEW w \in Paths, BeginInit(w)
    PROVE  RepoInv'
<1>1. (OneRecord /\ Hooked /\ Admitted)'
    BY DEF RepoInv, OneRecord, None, Hooked, Conflict, Armed, Admitted, BeginInit, Spend,
      Idle
<1>2. RepoTyped'
  <2>1. (/\ dir \in [Paths -> Checkouts]
         /\ gates \in [Paths -> Gates]
         /\ rec \in [Paths -> Paths \cup {None}]
         /\ server \in {"down", "migrating", "up"}
         /\ todo \subseteq Paths
         /\ tampered \subseteq Paths)'
        BY DEF RepoInv, RepoTyped, None, Gates, Checkouts, Remotes, User, Commands,
        Places, BeginInit, Spend, Idle
  <2>2. (settled \in [Paths -> Paths \cup {None}])'
        BY DEF RepoInv, RepoTyped, None, Gates, Checkouts, Remotes, User, Commands,
        Places, BeginInit, Spend, Idle
  <2>3. (cli \in Commands)'
    <3>1. cli' = [op |-> "init", w |-> w, g |-> 0, fresh |-> FALSE, pc |-> "find"]
      BY Zenon DEF BeginInit, Idle
    <3> QED BY <3>1 DEF Commands, Places
  <2>4. (budget \in [{"shifts", "tampers", "inits"} -> Nat])'
        BY DEF RepoInv, RepoTyped, None, Gates, Checkouts, Remotes, User, Commands,
        Places, BeginInit, Spend, Idle
    <2> QED BY <2>1, <2>2, <2>3, <2>4 DEF RepoTyped
<1>3. Underway'
  <2>1. (cli.pc = "idle" <=> cli = Idle)'
    <3>1. cli'.pc = "find"
      BY Zenon DEF BeginInit, Idle
    <3> QED BY <3>1, BlankRecords
  <2>2. (cli.pc # "idle" => cli.w \in Paths /\ dir[cli.w].there = TRUE /\ settled[cli.w] = None)'
        BY DEF RepoInv, Underway, None, Idle, RepoTyped, Gates, Checkouts, Remotes, User,
        Commands, Places, BeginInit, Spend
  <2>3. (cli.pc \notin {"idle", "find"} =>
           /\ cli.g \in Paths
           /\ (cli.fresh = TRUE => cli.g = cli.w)
           /\ (cli.fresh = FALSE => rec[cli.g] = cli.w))'
        BY DEF RepoInv, Underway, None, Idle, BeginInit, Spend
  <2>4. (cli.pc \in {"canon", "legacy", "store", "record"} => gates[cli.g].there = TRUE)'
        BY DEF RepoInv, Underway, None, Idle, BeginInit, Spend
  <2>5. (cli.pc \in {"legacy", "store", "record"} => dir[cli.w].canon = cli.g)'
        BY DEF RepoInv, Underway, None, Idle, BeginInit, Spend
  <2>6. (cli.pc \in {"store", "record"} => dir[cli.w].legacy = cli.g)'
        BY DEF RepoInv, Underway, None, Idle, BeginInit, Spend
  <2>7. (cli.pc = "store" => cli.fresh = TRUE)'
        BY DEF RepoInv, Underway, None, Idle, BeginInit, Spend
  <2>8. (cli.pc \in {"unwire", "drop", "forget"} => cli.fresh = FALSE)'
        BY DEF RepoInv, Underway, None, Idle, BeginInit, Spend
    <2> QED BY <2>1, <2>2, <2>3, <2>4, <2>5, <2>6, <2>7, <2>8 DEF Underway
<1>4. Settled'
  <2>1. ASSUME NEW x \in Paths, settled'[x] # None
        PROVE  settled'[x] = settled[x]
    BY <2>1 DEF RepoInv, RepoTyped, BeginInit
  <2> QED BY <2>1, GateAssumption DEF RepoInv, RepoTyped, Settled, BeginInit
<1> QED BY <1>1, <1>2, <1>3, <1>4 DEF RepoInv

\* BeginEject keeps the invariant.
LEMMA BeginEjectKeeps ==
    ASSUME RepoInv, NEW w \in Paths, BeginEject(w)
    PROVE  RepoInv'
<1>1. (OneRecord /\ Hooked /\ Admitted)'
    BY DEF RepoInv, OneRecord, None, Hooked, Conflict, Armed, Admitted, BeginEject, Spend,
      RecordOf, Idle
<1>2. RepoTyped'
  <2>1. (/\ dir \in [Paths -> Checkouts]
         /\ gates \in [Paths -> Gates]
         /\ rec \in [Paths -> Paths \cup {None}]
         /\ server \in {"down", "migrating", "up"}
         /\ todo \subseteq Paths
         /\ tampered \subseteq Paths)'
        BY DEF RepoInv, RepoTyped, None, Gates, Checkouts, Remotes, User, Commands,
        Places, BeginEject, Spend, RecordOf, Idle
  <2>2. (settled \in [Paths -> Paths \cup {None}])'
        BY DEF RepoInv, RepoTyped, None, Gates, Checkouts, Remotes, User, Commands,
        Places, BeginEject, Spend, RecordOf, Idle
  <2>3. (cli \in Commands)'
    <3>1. cli' = [op |-> "eject", w |-> w, g |-> cli'.g, fresh |-> FALSE, pc |-> "unwire"]
      BY Zenon DEF BeginEject, Idle
    <3>2. cli'.g \in Paths
      <4>1. cli'.g = CHOOSE g \in RecordOf(w) : TRUE
        BY Zenon DEF BeginEject, Idle
      <4>2. RecordOf(w) # {} /\ RecordOf(w) \subseteq Paths
        BY DEF BeginEject, RecordOf
      <4> QED BY <4>1, <4>2
    <3>3. \A k \in Paths : [op |-> "eject", w |-> w, g |-> k, fresh |-> FALSE, pc |-> "unwire"] \in Commands
      BY DEF Commands, Places
    <3> QED BY <3>1, <3>2, <3>3, Zenon
  <2>4. (budget \in [{"shifts", "tampers", "inits"} -> Nat])'
        BY DEF RepoInv, RepoTyped, None, Gates, Checkouts, Remotes, User, Commands,
        Places, BeginEject, Spend, RecordOf, Idle
    <2> QED BY <2>1, <2>2, <2>3, <2>4 DEF RepoTyped
<1>3. Underway'
  <2>1. (cli.pc = "idle" <=> cli = Idle)'
    <3>1. cli'.pc = "unwire"
      BY Zenon DEF BeginEject, Idle
    <3> QED BY <3>1, BlankRecords
  <2>2. (cli.pc # "idle" => cli.w \in Paths /\ dir[cli.w].there = TRUE /\ settled[cli.w] = None)'
        BY DEF RepoInv, Underway, None, Idle, RepoTyped, Gates, Checkouts, Remotes, User,
        Commands, Places, BeginEject, Spend, RecordOf
  <2>3. (cli.pc \notin {"idle", "find"} =>
           /\ cli.g \in Paths
           /\ (cli.fresh = TRUE => cli.g = cli.w)
           /\ (cli.fresh = FALSE => rec[cli.g] = cli.w))'
        BY DEF RepoInv, Underway, None, Idle, BeginEject, Spend, RecordOf
  <2>4. (cli.pc \in {"canon", "legacy", "store", "record"} => gates[cli.g].there = TRUE)'
        BY DEF RepoInv, Underway, None, Idle, BeginEject, Spend, RecordOf
  <2>5. (cli.pc \in {"legacy", "store", "record"} => dir[cli.w].canon = cli.g)'
        BY DEF RepoInv, Underway, None, Idle, BeginEject, Spend, RecordOf
  <2>6. (cli.pc \in {"store", "record"} => dir[cli.w].legacy = cli.g)'
        BY DEF RepoInv, Underway, None, Idle, BeginEject, Spend, RecordOf
  <2>7. (cli.pc = "store" => cli.fresh = TRUE)'
        BY DEF RepoInv, Underway, None, Idle, BeginEject, Spend, RecordOf
  <2>8. (cli.pc \in {"unwire", "drop", "forget"} => cli.fresh = FALSE)'
        BY DEF RepoInv, Underway, None, Idle, BeginEject, Spend, RecordOf
    <2> QED BY <2>1, <2>2, <2>3, <2>4, <2>5, <2>6, <2>7, <2>8 DEF Underway
<1>4. Settled'
  <2>1. ASSUME NEW x \in Paths, settled'[x] # None
        PROVE  settled'[x] = settled[x]
    BY <2>1 DEF RepoInv, RepoTyped, BeginEject
  <2> QED BY <2>1, GateAssumption DEF RepoInv, RepoTyped, Settled, BeginEject
<1> QED BY <1>1, <1>2, <1>3, <1>4 DEF RepoInv

\* PushFrom keeps the invariant.
LEMMA PushFromKeeps ==
    ASSUME RepoInv, NEW w \in Paths, PushFrom(w)
    PROVE  RepoInv'
<1>1. (RepoTyped /\ OneRecord /\ Underway /\ Settled /\ Hooked)'
    BY DEF RepoInv, RepoTyped, None, Gates, Checkouts, Remotes, User, Commands, Places,
      OneRecord, Underway, Idle, Settled, Hooked, Conflict, Armed, PushFrom, HooksRun,
      Admission
<1>2. Admitted'
  <2> DEFINE g == dir[w].canon
  <2>1. g \in Paths /\ gates[g].there = TRUE /\ HooksRun(gates[g])
    BY DEF PushFrom, RepoInv, RepoTyped, Gates, Hooked, HooksRun
  <2>2. ASSUME server = "up", g \notin tampered
        PROVE  Armed(gates[g]) \/ Conflict(gates[g])
    BY <2>1, <2>2 DEF RepoInv, Hooked
  <2>3. ASSUME settled[w] = g
        PROVE  rec[g] # None
    BY <2>1, <2>3, GateAssumption DEF RepoInv, Settled
  <2>4. ASSUME Admission(gates[g]) = "admitted"
        PROVE  server = "up" /\ ~Conflict(gates[g])
    BY <2>4 DEF Admission, Conflict
  <2>5. ASSUME Admission(gates[g]) = "unasked"
        PROVE  ~Armed(gates[g])
    BY <2>1, <2>5 DEF Admission, Armed
  <2> DEFINE heard == /\ HooksRun(gates[g]) /\ gates[g].post \in {"managed", "stale"}
                      /\ server = "up" /\ rec[g] # None
  <2>6. pushed' = IF Admission(gates[g]) = "admitted" /\ heard THEN "done"
                  ELSE IF Admission(gates[g]) = "admitted" /\ settled[w] = g /\ g \notin tampered
                          /\ gates[g].post # "user" THEN "stranded"
                  ELSE IF Admission(gates[g]) = "unasked" /\ server = "up" /\ g \notin tampered
                          /\ ~Conflict(gates[g]) THEN "slipped"
                  ELSE "done"
    BY Zenon DEF PushFrom
  <2>7. ASSUME Admission(gates[g]) = "admitted", settled[w] = g, g \notin tampered, gates[g].post # "user"
        PROVE  heard
    BY <2>1, <2>2, <2>3, <2>4, <2>7 DEF Armed
  <2>8. ASSUME Admission(gates[g]) = "unasked", server = "up", g \notin tampered
        PROVE  Conflict(gates[g])
    BY <2>2, <2>5, <2>8
  <2> HIDE DEF heard, g
  <2> QED BY <2>6, <2>7, <2>8, Zenon DEF Admitted
<1> QED BY <1>1, <1>2 DEF RepoInv

\* Tamper keeps the invariant.
LEMMA TamperKeeps ==
    ASSUME RepoInv, NEW g \in Paths, Tamper(g)
    PROVE  RepoInv'
<1>1. (OneRecord /\ Admitted)'
    BY DEF RepoInv, OneRecord, None, Admitted, Tamper, Spend
<1>2. RepoTyped'
  <2>1. (/\ dir \in [Paths -> Checkouts]
         /\ rec \in [Paths -> Paths \cup {None}]
         /\ settled \in [Paths -> Paths \cup {None}]
         /\ cli \in Commands
         /\ server \in {"down", "migrating", "up"}
         /\ todo \subseteq Paths)'
        BY DEF RepoInv, RepoTyped, None, Gates, Checkouts, Remotes, User, Commands,
        Places, Tamper, Spend
  <2>2. (gates \in [Paths -> Gates])'
    <3>1. PICK h \in Gates : /\ h.there = gates[g].there /\ h.pinned = gates[g].pinned
                             /\ gates' = [gates EXCEPT ![g] = h]
      BY Tampered DEF RepoInv, RepoTyped, Tamper
    <3> QED BY <3>1 DEF RepoInv, RepoTyped
  <2>3. (tampered \subseteq Paths)'
        BY DEF RepoInv, RepoTyped, None, Gates, Checkouts, Remotes, User, Commands,
        Places, Tamper, Spend
  <2>4. (budget \in [{"shifts", "tampers", "inits"} -> Nat])'
        BY DEF RepoInv, RepoTyped, None, Gates, Checkouts, Remotes, User, Commands,
        Places, Tamper, Spend
    <2> QED BY <2>1, <2>2, <2>3, <2>4 DEF RepoTyped
<1>3. Underway'
  <2>1. (/\ cli.pc = "idle" <=> cli = Idle
         /\ cli.pc # "idle" => cli.w \in Paths /\ dir[cli.w].there = TRUE /\ settled[cli.w] = None
         /\ cli.pc \notin {"idle", "find"} =>
               /\ cli.g \in Paths
               /\ (cli.fresh = TRUE => cli.g = cli.w)
               /\ (cli.fresh = FALSE => rec[cli.g] = cli.w)
         /\ cli.pc \in {"legacy", "store", "record"} => dir[cli.w].canon = cli.g
         /\ cli.pc \in {"store", "record"} => dir[cli.w].legacy = cli.g
         /\ cli.pc = "store" => cli.fresh = TRUE
         /\ cli.pc \in {"unwire", "drop", "forget"} => cli.fresh = FALSE)'
        BY DEF RepoInv, Underway, None, Idle, Tamper, Spend
  <2>2. (cli.pc \in {"canon", "legacy", "store", "record"} => gates[cli.g].there = TRUE)'
    <3>1. PICK h \in Gates : /\ h.there = gates[g].there /\ h.pinned = gates[g].pinned
                             /\ gates' = [gates EXCEPT ![g] = h]
      BY Tampered DEF RepoInv, RepoTyped, Tamper
    <3> QED BY <3>1 DEF RepoInv, RepoTyped, Underway, Tamper
    <2> QED BY <2>1, <2>2 DEF Underway
<1>4. Settled'
  <2>1. PICK h \in Gates : /\ h.there = gates[g].there /\ h.pinned = gates[g].pinned
                           /\ gates' = [gates EXCEPT ![g] = h]
    BY Tampered DEF RepoInv, RepoTyped, Tamper
  <2> QED BY <2>1 DEF RepoInv, RepoTyped, Settled, Tamper
<1>5. Hooked'
  <2>1. PICK h \in Gates : /\ h.there = gates[g].there /\ h.pinned = gates[g].pinned
                           /\ gates' = [gates EXCEPT ![g] = h]
    BY Tampered DEF RepoInv, RepoTyped, Tamper
  <2> QED BY <2>1 DEF RepoInv, RepoTyped, Hooked, Tamper
<1> QED BY <1>1, <1>2, <1>3, <1>4, <1>5 DEF RepoInv

\* MigrateGate keeps the invariant.
LEMMA MigrateGateKeeps ==
    ASSUME RepoInv, NEW g \in Paths, MigrateGate(g)
    PROVE  RepoInv'
<1>1. (OneRecord /\ Admitted)'
    BY DEF RepoInv, OneRecord, None, Admitted, MigrateGate, Conflict, RearmPre, Pinned,
      Current, RearmPost
<1>2. RepoTyped'
  <2>1. (/\ dir \in [Paths -> Checkouts]
         /\ rec \in [Paths -> Paths \cup {None}]
         /\ settled \in [Paths -> Paths \cup {None}]
         /\ cli \in Commands
         /\ server \in {"down", "migrating", "up"}
         /\ budget \in [{"shifts", "tampers", "inits"} -> Nat])'
        BY DEF RepoInv, RepoTyped, None, Gates, Checkouts, Remotes, User, Commands,
        Places, MigrateGate, Conflict, RearmPre, Pinned, Current, RearmPost
  <2>2. (gates \in [Paths -> Gates])'
    BY HooksInOrder DEF RepoInv, RepoTyped, MigrateGate
  <2>3. (todo \subseteq Paths)'
        BY DEF RepoInv, RepoTyped, None, Gates, Checkouts, Remotes, User, Commands,
        Places, MigrateGate, Conflict, RearmPre, Pinned, Current, RearmPost
  <2>4. (tampered \subseteq Paths)'
        BY DEF RepoInv, RepoTyped, None, Gates, Checkouts, Remotes, User, Commands,
        Places, MigrateGate, Conflict, RearmPre, Pinned, Current, RearmPost
    <2> QED BY <2>1, <2>2, <2>3, <2>4 DEF RepoTyped
<1>3. Underway'
  <2>1. (/\ cli.pc = "idle" <=> cli = Idle
         /\ cli.pc # "idle" => cli.w \in Paths /\ dir[cli.w].there = TRUE /\ settled[cli.w] = None
         /\ cli.pc \notin {"idle", "find"} =>
               /\ cli.g \in Paths
               /\ (cli.fresh = TRUE => cli.g = cli.w)
               /\ (cli.fresh = FALSE => rec[cli.g] = cli.w)
         /\ cli.pc \in {"legacy", "store", "record"} => dir[cli.w].canon = cli.g
         /\ cli.pc \in {"store", "record"} => dir[cli.w].legacy = cli.g
         /\ cli.pc = "store" => cli.fresh = TRUE
         /\ cli.pc \in {"unwire", "drop", "forget"} => cli.fresh = FALSE)'
        BY DEF RepoInv, Underway, None, Idle, MigrateGate, Conflict, RearmPre, Pinned,
        Current, RearmPost
  <2>2. (cli.pc \in {"canon", "legacy", "store", "record"} => gates[cli.g].there = TRUE)'
        BY DEF RepoInv, Underway, None, Idle, MigrateGate, Conflict, RearmPre, Pinned,
        Current, RearmPost
    <2> QED BY <2>1, <2>2 DEF Underway
<1>4. Settled'
    BY DEF RepoInv, Settled, None, MigrateGate, Conflict, RearmPre, Pinned, Current,
      RearmPost
<1>5. Hooked'
    BY DEF RepoInv, Hooked, Conflict, Armed, RepoTyped, None, Gates, Checkouts, Remotes,
      User, Commands, Places, MigrateGate, RearmPre, Pinned, Current, RearmPost
<1> QED BY <1>1, <1>2, <1>3, <1>4, <1>5 DEF RepoInv

\* Upgrade keeps the invariant.
LEMMA UpgradeKeeps ==
    ASSUME RepoInv, Upgrade
    PROVE  RepoInv'
<1>1. (OneRecord /\ Admitted)'
    BY DEF RepoInv, OneRecord, None, Admitted, Upgrade, Stale, Idle, Spend
<1>2. RepoTyped'
  <2>1. (/\ dir \in [Paths -> Checkouts]
         /\ rec \in [Paths -> Paths \cup {None}]
         /\ settled \in [Paths -> Paths \cup {None}]
         /\ cli \in Commands
         /\ server \in {"down", "migrating", "up"}
         /\ todo \subseteq Paths
         /\ tampered \subseteq Paths)'
        BY DEF RepoInv, RepoTyped, None, Gates, Checkouts, Remotes, User, Commands,
        Places, Upgrade, Stale, Idle, Spend
  <2>2. (gates \in [Paths -> Gates])'
    BY StaleHooks DEF RepoInv, RepoTyped, Upgrade
  <2>3. (budget \in [{"shifts", "tampers", "inits"} -> Nat])'
    BY DEF RepoInv, RepoTyped, Upgrade, Spend
    <2> QED BY <2>1, <2>2, <2>3 DEF RepoTyped
<1>3. Underway'
  <2>1. (/\ cli.pc = "idle" <=> cli = Idle
         /\ cli.pc # "idle" => cli.w \in Paths /\ dir[cli.w].there = TRUE /\ settled[cli.w] = None
         /\ cli.pc \notin {"idle", "find"} =>
               /\ cli.g \in Paths
               /\ (cli.fresh = TRUE => cli.g = cli.w)
               /\ (cli.fresh = FALSE => rec[cli.g] = cli.w)
         /\ cli.pc \in {"legacy", "store", "record"} => dir[cli.w].canon = cli.g
         /\ cli.pc \in {"store", "record"} => dir[cli.w].legacy = cli.g
         /\ cli.pc = "store" => cli.fresh = TRUE
         /\ cli.pc \in {"unwire", "drop", "forget"} => cli.fresh = FALSE)'
        BY DEF RepoInv, Underway, None, Idle, Upgrade, Stale, Spend
  <2>2. (cli.pc \in {"canon", "legacy", "store", "record"} => gates[cli.g].there = TRUE)'
    BY StaleHooks DEF RepoInv, RepoTyped, Underway, Upgrade
    <2> QED BY <2>1, <2>2 DEF Underway
<1>4. Settled'
  BY StaleHooks DEF RepoInv, RepoTyped, Settled, Upgrade
<1>5. Hooked'
  BY StaleHooks DEF RepoInv, RepoTyped, Hooked, Upgrade
<1> QED BY <1>1, <1>2, <1>3, <1>4, <1>5 DEF RepoInv

\* DaemonStarts keeps the invariant.
LEMMA DaemonStartsKeeps ==
    ASSUME RepoInv, DaemonStarts
    PROVE  RepoInv'
<1>1. (OneRecord /\ Underway /\ Settled /\ Admitted)'
    BY DEF RepoInv, OneRecord, None, Underway, Idle, Settled, Admitted, DaemonStarts
<1>2. RepoTyped'
  <2>1. (/\ dir \in [Paths -> Checkouts]
         /\ gates \in [Paths -> Gates]
         /\ rec \in [Paths -> Paths \cup {None}]
         /\ settled \in [Paths -> Paths \cup {None}]
         /\ cli \in Commands
         /\ tampered \subseteq Paths
         /\ budget \in [{"shifts", "tampers", "inits"} -> Nat])'
        BY DEF RepoInv, RepoTyped, None, Gates, Checkouts, Remotes, User, Commands,
        Places, DaemonStarts
  <2>2. (server \in {"down", "migrating", "up"})'
        BY DEF RepoInv, RepoTyped, None, Gates, Checkouts, Remotes, User, Commands,
        Places, DaemonStarts
  <2>3. (todo \subseteq Paths)'
        BY DEF RepoInv, RepoTyped, None, Gates, Checkouts, Remotes, User, Commands,
        Places, DaemonStarts
    <2> QED BY <2>1, <2>2, <2>3 DEF RepoTyped
<1>3. Hooked'
    BY DEF RepoInv, Hooked, Conflict, Armed, DaemonStarts
<1> QED BY <1>1, <1>2, <1>3 DEF RepoInv

\* DaemonServes keeps the invariant.
LEMMA DaemonServesKeeps ==
    ASSUME RepoInv, DaemonServes
    PROVE  RepoInv'
<1>1. (OneRecord /\ Underway /\ Settled /\ Admitted)'
    BY DEF RepoInv, OneRecord, None, Underway, Idle, Settled, Admitted, DaemonServes
<1>2. RepoTyped'
  <2>1. (/\ dir \in [Paths -> Checkouts]
         /\ gates \in [Paths -> Gates]
         /\ rec \in [Paths -> Paths \cup {None}]
         /\ settled \in [Paths -> Paths \cup {None}]
         /\ cli \in Commands
         /\ todo \subseteq Paths
         /\ tampered \subseteq Paths
         /\ budget \in [{"shifts", "tampers", "inits"} -> Nat])'
        BY DEF RepoInv, RepoTyped, None, Gates, Checkouts, Remotes, User, Commands,
        Places, DaemonServes
  <2>2. (server \in {"down", "migrating", "up"})'
        BY DEF RepoInv, RepoTyped, None, Gates, Checkouts, Remotes, User, Commands,
        Places, DaemonServes
    <2> QED BY <2>1, <2>2 DEF RepoTyped
<1>3. Hooked'
    BY DEF RepoInv, Hooked, Conflict, Armed, DaemonServes
<1> QED BY <1>1, <1>2, <1>3 DEF RepoInv

\* DaemonStops keeps the invariant.
LEMMA DaemonStopsKeeps ==
    ASSUME RepoInv, DaemonStops
    PROVE  RepoInv'
<1>1. (OneRecord /\ Underway /\ Settled /\ Admitted)'
    BY DEF RepoInv, OneRecord, None, Underway, Idle, Settled, Admitted, DaemonStops
<1>2. RepoTyped'
  <2>1. (/\ dir \in [Paths -> Checkouts]
         /\ gates \in [Paths -> Gates]
         /\ rec \in [Paths -> Paths \cup {None}]
         /\ settled \in [Paths -> Paths \cup {None}]
         /\ cli \in Commands
         /\ tampered \subseteq Paths
         /\ budget \in [{"shifts", "tampers", "inits"} -> Nat])'
        BY DEF RepoInv, RepoTyped, None, Gates, Checkouts, Remotes, User, Commands,
        Places, DaemonStops
  <2>2. (server \in {"down", "migrating", "up"})'
        BY DEF RepoInv, RepoTyped, None, Gates, Checkouts, Remotes, User, Commands,
        Places, DaemonStops
  <2>3. (todo \subseteq Paths)'
        BY DEF RepoInv, RepoTyped, None, Gates, Checkouts, Remotes, User, Commands,
        Places, DaemonStops
    <2> QED BY <2>1, <2>2, <2>3 DEF RepoTyped
<1>3. Hooked'
    BY DEF RepoInv, Hooked, Conflict, Armed, DaemonStops
<1> QED BY <1>1, <1>2, <1>3 DEF RepoInv

\* The gate found is the checkout's by its record, relocated to it or fresh.
LEMMA FindGateKeeps ==
    ASSUME RepoInv, FindGate
    PROVE  RepoInv'
<1>1. /\ cli \in Commands /\ cli.w \in Paths /\ dir[cli.w].there = TRUE /\ settled[cli.w] = None
      /\ UNCHANGED <<dir, gates, server, todo, settled, tampered, pushed, budget>>
  BY DEF RepoInv, RepoTyped, Underway, FindGate
<1>2. CASE cli' = Idle /\ rec' = rec
  <2>1. RepoTyped' /\ OneRecord' /\ Admitted'
    BY <1>1, <1>2, BlankRecords DEF RepoInv, RepoTyped, OneRecord, Admitted
  <2>2. Underway'
    BY <1>2, BlankRecords DEF Underway
  <2>3. Settled' /\ Hooked'
    BY <1>1, <1>2 DEF RepoInv, Settled, Hooked, Armed, Conflict
  <2> QED BY <2>1, <2>2, <2>3 DEF RepoInv
<1>3. CASE ~(cli' = Idle /\ rec' = rec)
  <2> DEFINE known == RecordOf(cli.w) \cup Relocated(cli.w)
             g == IF known = {} THEN cli.w ELSE CHOOSE k \in known : TRUE
  <2>1. /\ rec' = (IF known = {} THEN rec ELSE [rec EXCEPT ![g] = cli.w])
        /\ cli' = [cli EXCEPT !.g = g, !.fresh = known = {}, !.pc = "hooks"] \/ cli' = Idle
    BY <1>3, Zenon DEF FindGate
  <2>2. \A k \in known : k \in Paths /\ rec[k] # None /\ (rec[k] = cli.w \/ (RecordOf(cli.w) = {} /\ ~dir[rec[k]].there))
    BY <1>1, GateAssumption DEF RecordOf, Relocated
  <2>3. known # {} => g \in known
    OBVIOUS
  <2>4. g \in Paths
    BY <1>1, <2>2, <2>3
  <2>5. ASSUME NEW x \in Paths, settled[x] # None, known # {}
        PROVE  settled[x] # g
    <3>1. rec[settled[x]] = x /\ dir[x].there = TRUE /\ x # cli.w
      BY <1>1, <2>5 DEF RepoInv, Settled
    <3> QED BY <2>2, <2>3, <2>5, <3>1
  <2>6. OneRecord'
    <3>1. CASE known = {}
      BY <2>1, <3>1 DEF RepoInv, OneRecord
    <3>2. CASE known # {}
      <4>1. rec' = [rec EXCEPT ![g] = cli.w] /\ rec \in [Paths -> Paths \cup {None}]
        BY <2>1, <3>2 DEF RepoInv, RepoTyped
      <4>2. ASSUME NEW k \in Paths, rec[k] = cli.w
            PROVE  k = g
        <5>1. k \in RecordOf(cli.w)
          BY <4>2 DEF RecordOf
        <5>2. rec[g] = cli.w
          BY <2>2, <2>3, <3>2, <5>1
        <5> QED BY <1>1, <2>4, <4>2, <5>2, GateAssumption DEF RepoInv, OneRecord
      <4> HIDE DEF g, known
      <4> QED BY <2>4, <4>1, <4>2 DEF RepoInv, OneRecord
    <3> QED BY <3>1, <3>2
  <2>7. Settled'
    <3>1. ASSUME NEW x \in Paths, settled[x] # None
          PROVE  rec'[settled[x]] = rec[settled[x]]
      <4>1. settled[x] \in Paths
        BY <3>1 DEF RepoInv, RepoTyped
      <4> HIDE DEF g, known
      <4> QED BY <2>1, <2>4, <2>5, <3>1, <4>1 DEF RepoInv, RepoTyped
    <3> HIDE DEF g, known
    <3> QED BY <1>1, <3>1 DEF RepoInv, Settled
  <2>8. rec' \in [Paths -> Paths \cup {None}]
    <3> HIDE DEF g, known
    <3> QED BY <1>1, <2>1, <2>4 DEF RepoInv, RepoTyped
  <2>9. CASE cli' = Idle
    <3>1. RepoTyped' /\ Admitted'
      BY <1>1, <2>8, <2>9, BlankRecords DEF RepoInv, RepoTyped, Admitted
    <3>2. Underway'
      BY <2>9, BlankRecords DEF Underway
    <3>3. Hooked'
      BY <1>1 DEF RepoInv, Hooked, Armed, Conflict
    <3> QED BY <2>6, <2>7, <3>1, <3>2, <3>3 DEF RepoInv
  <2>10. CASE cli' = [cli EXCEPT !.g = g, !.fresh = known = {}, !.pc = "hooks"]
    <3>1. cli' \in Commands /\ cli'.pc = "hooks" /\ cli'.w = cli.w /\ cli'.g = g /\ cli'.fresh = (known = {})
      <4>1. (known = {}) \in BOOLEAN
        OBVIOUS
      <4> HIDE DEF g, known
      <4> QED BY <1>1, <2>4, <2>10, <4>1 DEF Commands, Places
    <3>2. known = {} => g = cli.w
      OBVIOUS
    <3>3. known # {} => rec'[g] = cli.w
      <4> HIDE DEF g, known
      <4> QED BY <2>1, <2>4 DEF RepoInv, RepoTyped
    <3> HIDE DEF g, known
    <3>4. RepoTyped' /\ Admitted'
      BY <1>1, <2>8, <3>1 DEF RepoInv, RepoTyped, Admitted
    <3>5. Underway'
      BY <1>1, <2>4, <3>1, <3>2, <3>3, BlankRecords DEF Underway
    <3>6. Hooked'
      BY <1>1 DEF RepoInv, Hooked, Armed, Conflict
    <3> QED BY <2>6, <2>7, <3>4, <3>5, <3>6 DEF RepoInv
  <2> HIDE DEF g, known
  <2> QED BY <2>1, <2>9, <2>10
<1> QED BY <1>2, <1>3

\* Provisioning puts the hooks in order, or gives up on two hooks of the user's.
LEMMA ProvisionHooksKeeps ==
    ASSUME RepoInv, ProvisionHooks
    PROVE  RepoInv'
<1>1. /\ cli \in Commands /\ cli.pc = "hooks" /\ cli.w \in Paths /\ cli.g \in Paths
      /\ gates[cli.g] \in Gates
  BY DEF RepoInv, RepoTyped, Underway, ProvisionHooks
<1>2. CASE GiveUp(FALSE)
  BY <1>1, <1>2, GivesUp
<1>3. CASE ~GiveUp(FALSE)
  <2> DEFINE h == Pinned(RearmPost(RearmPre([gates[cli.g] EXCEPT !.there = TRUE])))
  <2>1. /\ gates' = [gates EXCEPT ![cli.g] = h] /\ GoTo("canon")
        /\ UNCHANGED <<dir, rec, server, todo, settled, tampered, pushed, budget>>
    BY <1>3 DEF ProvisionHooks
  <2>2. h \in Gates /\ h.there = TRUE /\ h.pinned = TRUE /\ Armed(h)
    BY <1>1, GateCreated, HooksInOrder DEF Armed
  <2> HIDE DEF h
  <2>3. /\ cli' \in Commands /\ cli'.pc = "canon"
        /\ cli'.op = cli.op /\ cli'.w = cli.w /\ cli'.g = cli.g /\ cli'.fresh = cli.fresh
    BY <1>1, <2>1, StepTaken DEF Places
  <2>4. RepoTyped' /\ OneRecord' /\ Admitted'
    BY <1>1, <2>1, <2>2, <2>3 DEF RepoInv, RepoTyped, OneRecord, Admitted
  <2>5. Underway'
    BY <1>1, <2>1, <2>2, <2>3, BlankRecords DEF RepoInv, RepoTyped, Underway
  <2>6. Settled' /\ Hooked'
    BY <1>1, <2>1, <2>2 DEF RepoInv, RepoTyped, Settled, Hooked
  <2> QED BY <2>4, <2>5, <2>6 DEF RepoInv
<1> QED BY <1>2, <1>3

\* The canonical remote names the gate.
LEMMA WireCanonicalKeeps ==
    ASSUME RepoInv, WireCanonical
    PROVE  RepoInv'
<1>1. /\ cli \in Commands /\ cli.pc = "canon" /\ cli.w \in Paths /\ cli.g \in Paths
      /\ dir[cli.w] \in Checkouts /\ settled[cli.w] = None
  BY DEF RepoInv, RepoTyped, Underway, WireCanonical
<1>2. CASE GiveUp(FALSE)
  BY <1>1, <1>2, GivesUp
<1>3. CASE ~GiveUp(FALSE)
  <2>1. /\ dir' = [dir EXCEPT ![cli.w] = [dir[cli.w] EXCEPT !.canon = cli.g]] /\ GoTo("legacy")
        /\ UNCHANGED <<rec, gates, server, todo, settled, tampered, pushed, budget>>
    BY <1>3 DEF WireCanonical
  <2>2. /\ dir' \in [Paths -> Checkouts] /\ \A w \in Paths : w # cli.w => dir'[w] = dir[w]
        /\ dir'[cli.w].there = dir[cli.w].there /\ dir'[cli.w].canon = cli.g
        /\ dir'[cli.w].legacy = dir[cli.w].legacy
    <3>1. cli.g \in Remotes
      BY <1>1 DEF Remotes
    <3>2. dir \in [Paths -> Checkouts]
      BY DEF RepoInv, RepoTyped
    <3> QED BY <1>1, <2>1, <3>1, <3>2, RemoteSet
  <2>3. /\ cli' \in Commands /\ cli'.pc = ("legacy")
        /\ cli'.op = cli.op /\ cli'.w = cli.w /\ cli'.g = cli.g /\ cli'.fresh = cli.fresh
    <3>1. ("legacy") \in Places
      BY DEF Places
    <3> QED BY <1>1, <2>1, <3>1, StepTaken
  <2>4. RepoTyped' /\ OneRecord' /\ Admitted' /\ Hooked'
    BY <2>1, <2>2, <2>3 DEF RepoInv, RepoTyped, OneRecord, Admitted, Hooked, Armed, Conflict
  <2>5. Underway'
    BY <1>1, <2>1, <2>2, <2>3, BlankRecords DEF RepoInv, RepoTyped, Underway, Commands
  <2>6. Settled'
    <3>1. ASSUME NEW x \in Paths, settled[x] # None
          PROVE  dir'[x] = dir[x]
      BY <1>1, <2>2, <3>1
    <3>2. settled' = settled /\ rec' = rec /\ gates' = gates
      BY <2>1
    <3>3. \A x \in Paths : settled[x] = x => settled[x] # None
      BY GateAssumption
    <3> QED BY <3>1, <3>2, <3>3 DEF RepoInv, Settled
  <2> QED BY <2>4, <2>5, <2>6 DEF RepoInv
<1> QED BY <1>2, <1>3

\* The legacy remote names it, too.
LEMMA WireLegacyKeeps ==
    ASSUME RepoInv, WireLegacy
    PROVE  RepoInv'
<1>1. /\ cli \in Commands /\ cli.pc = "legacy" /\ cli.w \in Paths /\ cli.g \in Paths
      /\ dir[cli.w] \in Checkouts /\ settled[cli.w] = None
  BY DEF RepoInv, RepoTyped, Underway, WireLegacy
<1>2. CASE GiveUp(FALSE)
  BY <1>1, <1>2, GivesUp
<1>3. CASE ~GiveUp(FALSE)
  <2>1. /\ dir' = [dir EXCEPT ![cli.w] = [dir[cli.w] EXCEPT !.legacy = cli.g]] /\ GoTo(IF cli.fresh THEN "store" ELSE "record")
        /\ UNCHANGED <<rec, gates, server, todo, settled, tampered, pushed, budget>>
    BY <1>3 DEF WireLegacy
  <2>2. /\ dir' \in [Paths -> Checkouts] /\ \A w \in Paths : w # cli.w => dir'[w] = dir[w]
        /\ dir'[cli.w].there = dir[cli.w].there /\ dir'[cli.w].legacy = cli.g
        /\ dir'[cli.w].canon = dir[cli.w].canon
    <3>1. cli.g \in Remotes
      BY <1>1 DEF Remotes
    <3>2. dir \in [Paths -> Checkouts]
      BY DEF RepoInv, RepoTyped
    <3> QED BY <1>1, <2>1, <3>1, <3>2, RemoteSet
  <2>3. /\ cli' \in Commands /\ cli'.pc = (IF cli.fresh THEN "store" ELSE "record")
        /\ cli'.op = cli.op /\ cli'.w = cli.w /\ cli'.g = cli.g /\ cli'.fresh = cli.fresh
    <3>1. (IF cli.fresh THEN "store" ELSE "record") \in Places
      BY DEF Places
    <3> QED BY <1>1, <2>1, <3>1, StepTaken
  <2>4. RepoTyped' /\ OneRecord' /\ Admitted' /\ Hooked'
    BY <2>1, <2>2, <2>3 DEF RepoInv, RepoTyped, OneRecord, Admitted, Hooked, Armed, Conflict
  <2>5. Underway'
    BY <1>1, <2>1, <2>2, <2>3, BlankRecords DEF RepoInv, RepoTyped, Underway, Commands
  <2>6. Settled'
    <3>1. ASSUME NEW x \in Paths, settled[x] # None
          PROVE  dir'[x] = dir[x]
      BY <1>1, <2>2, <3>1
    <3>2. settled' = settled /\ rec' = rec /\ gates' = gates
      BY <2>1
    <3>3. \A x \in Paths : settled[x] = x => settled[x] # None
      BY GateAssumption
    <3> QED BY <3>1, <3>2, <3>3 DEF RepoInv, Settled
  <2> QED BY <2>4, <2>5, <2>6 DEF RepoInv
<1> QED BY <1>2, <1>3

\* A fresh gate borrows from the upstream's pool.
LEMMA AttachStoreKeeps ==
    ASSUME RepoInv, AttachStore
    PROVE  RepoInv'
<1>1. /\ cli \in Commands /\ cli.pc = "store" /\ cli.w \in Paths /\ cli.g \in Paths
      /\ gates[cli.g] \in Gates
  BY DEF RepoInv, RepoTyped, Underway, AttachStore
<1>2. CASE GiveUp(TRUE)
  BY <1>1, <1>2, GivesUp
<1>3. CASE ~GiveUp(TRUE)
  <2>1. /\ gates' = [gates EXCEPT ![cli.g] = [gates[cli.g] EXCEPT !.shared = TRUE]] /\ GoTo("record")
        /\ UNCHANGED <<dir, rec, server, todo, settled, tampered, pushed, budget>>
    BY <1>3 DEF AttachStore
  <2>2. /\ gates' \in [Paths -> Gates]
        /\ \A g \in Paths : /\ gates'[g].there = gates[g].there /\ gates'[g].pinned = gates[g].pinned
                            /\ gates'[g].pre = gates[g].pre /\ gates'[g].kept = gates[g].kept
                            /\ gates'[g].post = gates[g].post
    <3>1. gates \in [Paths -> Gates]
      BY DEF RepoInv, RepoTyped
    <3> QED BY <1>1, <2>1, <3>1, GateCreated
  <2>3. /\ cli' \in Commands /\ cli'.pc = "record"
        /\ cli'.op = cli.op /\ cli'.w = cli.w /\ cli'.g = cli.g /\ cli'.fresh = cli.fresh
    BY <1>1, <2>1, StepTaken DEF Places
  <2>4. RepoTyped' /\ OneRecord' /\ Admitted'
    BY <2>1, <2>2, <2>3 DEF RepoInv, RepoTyped, OneRecord, Admitted
  <2>5. Underway'
    BY <1>1, <2>1, <2>2, <2>3, BlankRecords DEF RepoInv, Underway
  <2>6. Settled'
    BY <2>1, <2>2 DEF RepoInv, Settled
  <2>7. Hooked'
    BY <2>1, <2>2 DEF RepoInv, Hooked, Armed, Conflict
  <2> QED BY <2>4, <2>5, <2>6, <2>7 DEF RepoInv
<1> QED BY <1>2, <1>3

\* The record settles the checkout, unless another stands in its place.
LEMMA RecordGateKeeps ==
    ASSUME RepoInv, RecordGate
    PROVE  RepoInv'
<1>1. /\ cli \in Commands /\ cli.pc = "record" /\ cli.w \in Paths /\ cli.g \in Paths
      /\ (cli.fresh = TRUE => cli.g = cli.w) /\ (cli.fresh = FALSE => rec[cli.g] = cli.w)
      /\ dir[cli.w].there = TRUE /\ dir[cli.w].canon = cli.g /\ dir[cli.w].legacy = cli.g
      /\ gates[cli.g].there = TRUE
  BY DEF RepoInv, RepoTyped, Underway, RecordGate
<1>2. CASE GiveUp(TRUE)
  BY <1>1, <1>2, GivesUp
<1>3. CASE ~GiveUp(TRUE)
  <2>1. /\ ~(cli.fresh /\ (rec[cli.g] # None \/ RecordOf(cli.w) # {}))
        /\ rec' = [rec EXCEPT ![cli.g] = cli.w] /\ settled' = [settled EXCEPT ![cli.w] = cli.g]
        /\ cli' = Idle /\ UNCHANGED <<dir, gates, server, todo, tampered, pushed, budget>>
    BY <1>3 DEF RecordGate
  <2>2. rec[cli.g] = cli.w \/ (rec[cli.g] = None /\ \A g \in Paths : rec[g] # cli.w)
    BY <1>1, <2>1 DEF Commands, RecordOf
  <2>3. RepoTyped' /\ Admitted'
    BY <1>1, <2>1, BlankRecords DEF RepoInv, RepoTyped, Admitted
  <2>4. OneRecord'
    BY <1>1, <2>1, <2>2, GateAssumption DEF RepoInv, RepoTyped, OneRecord
  <2>5. Underway'
    BY <2>1, BlankRecords DEF Underway
  <2>6. ASSUME NEW x \in Paths, x # cli.w, settled[x] # None
        PROVE  settled[x] \in Paths /\ settled[x] # cli.g
    <3>1. rec[settled[x]] = x /\ settled[x] \in Paths
      BY <2>6 DEF RepoInv, RepoTyped, Settled
    <3> QED BY <1>1, <2>2, <2>6, <3>1, GateAssumption
  <2>7. Settled'
    <3>1. ASSUME NEW x \in Paths, x # cli.w, settled[x] # None
          PROVE  rec'[settled[x]] = rec[settled[x]] /\ settled'[x] = settled[x]
      BY <1>1, <2>1, <2>6, <3>1 DEF RepoInv, RepoTyped
    <3>2. settled'[cli.w] = cli.g /\ rec'[cli.g] = cli.w
      BY <1>1, <2>1 DEF RepoInv, RepoTyped
    <3>3. \A x \in Paths : x # cli.w => settled'[x] = settled[x]
      BY <1>1, <2>1 DEF RepoInv, RepoTyped
    <3> QED BY <1>1, <2>1, <3>1, <3>2, <3>3, GateAssumption DEF RepoInv, Settled
  <2>8. Hooked'
    BY <2>1 DEF RepoInv, Hooked, Armed, Conflict
  <2> QED BY <2>3, <2>4, <2>5, <2>7, <2>8 DEF RepoInv
<1> QED BY <1>2, <1>3

\* Unwire keeps the invariant.
LEMMA UnwireKeeps ==
    ASSUME RepoInv, Unwire
    PROVE  RepoInv'
<1>1. (OneRecord /\ Hooked /\ Admitted)'
    BY DEF RepoInv, OneRecord, None, Hooked, Conflict, Armed, Admitted, Unwire, GoTo
<1>2. RepoTyped'
  <2>1. (/\ gates \in [Paths -> Gates]
         /\ rec \in [Paths -> Paths \cup {None}]
         /\ settled \in [Paths -> Paths \cup {None}]
         /\ server \in {"down", "migrating", "up"}
         /\ todo \subseteq Paths
         /\ tampered \subseteq Paths
         /\ budget \in [{"shifts", "tampers", "inits"} -> Nat])'
        BY DEF RepoInv, RepoTyped, None, Gates, Checkouts, Remotes, User, Commands,
        Places, Unwire, GoTo
  <2>2. (dir \in [Paths -> Checkouts])'
        BY DEF RepoInv, RepoTyped, None, Gates, Checkouts, Remotes, User, Commands,
        Places, Underway, Idle, Unwire, GoTo
  <2>3. (cli \in Commands)'
        BY DEF RepoInv, RepoTyped, None, Gates, Checkouts, Remotes, User, Commands,
        Places, Unwire, GoTo
    <2> QED BY <2>1, <2>2, <2>3 DEF RepoTyped
<1>3. Underway'
  <2>1. (cli.pc = "idle" <=> cli = Idle)'
        BY DEF RepoInv, Underway, None, Idle, Unwire, GoTo
  <2>2. (cli.pc # "idle" => cli.w \in Paths /\ dir[cli.w].there = TRUE /\ settled[cli.w] = None)'
        BY DEF RepoInv, Underway, None, Idle, RepoTyped, Gates, Checkouts, Remotes, User,
        Commands, Places, Unwire, GoTo
  <2>3. (cli.pc \notin {"idle", "find"} =>
           /\ cli.g \in Paths
           /\ (cli.fresh = TRUE => cli.g = cli.w)
           /\ (cli.fresh = FALSE => rec[cli.g] = cli.w))'
        BY DEF RepoInv, Underway, None, Idle, Unwire, GoTo
  <2>4. (cli.pc \in {"canon", "legacy", "store", "record"} => gates[cli.g].there = TRUE)'
        BY DEF RepoInv, Underway, None, Idle, Unwire, GoTo
  <2>5. (cli.pc \in {"legacy", "store", "record"} => dir[cli.w].canon = cli.g)'
        BY DEF RepoInv, Underway, None, Idle, Unwire, GoTo
  <2>6. (cli.pc \in {"store", "record"} => dir[cli.w].legacy = cli.g)'
        BY DEF RepoInv, Underway, None, Idle, Unwire, GoTo
  <2>7. (cli.pc = "store" => cli.fresh = TRUE)'
        BY DEF RepoInv, Underway, None, Idle, Unwire, GoTo
  <2>8. (cli.pc \in {"unwire", "drop", "forget"} => cli.fresh = FALSE)'
        BY DEF RepoInv, Underway, None, Idle, Unwire, GoTo
    <2> QED BY <2>1, <2>2, <2>3, <2>4, <2>5, <2>6, <2>7, <2>8 DEF Underway
<1>4. Settled'
    BY DEF RepoInv, Settled, None, RepoTyped, Gates, Checkouts, Remotes, User, Commands,
      Places, Unwire, GoTo
<1> QED BY <1>1, <1>2, <1>3, <1>4 DEF RepoInv

\* DropGate keeps the invariant.
LEMMA DropGateKeeps ==
    ASSUME RepoInv, DropGate
    PROVE  RepoInv'
<1>1. (OneRecord /\ Admitted)'
    BY DEF RepoInv, OneRecord, None, Admitted, DropGate, NoGate, GoTo
<1>2. RepoTyped'
  <2>1. (/\ dir \in [Paths -> Checkouts]
         /\ rec \in [Paths -> Paths \cup {None}]
         /\ settled \in [Paths -> Paths \cup {None}]
         /\ server \in {"down", "migrating", "up"}
         /\ todo \subseteq Paths
         /\ tampered \subseteq Paths
         /\ budget \in [{"shifts", "tampers", "inits"} -> Nat])'
        BY DEF RepoInv, RepoTyped, None, Gates, Checkouts, Remotes, User, Commands,
        Places, DropGate, NoGate, GoTo
  <2>2. (gates \in [Paths -> Gates])'
        BY DEF RepoInv, RepoTyped, None, Gates, Checkouts, Remotes, User, Commands,
        Places, Underway, Idle, DropGate, NoGate, GoTo
  <2>3. (cli \in Commands)'
        BY DEF RepoInv, RepoTyped, None, Gates, Checkouts, Remotes, User, Commands,
        Places, DropGate, NoGate, GoTo
    <2> QED BY <2>1, <2>2, <2>3 DEF RepoTyped
<1>3. Underway'
  <2>1. (cli.pc = "idle" <=> cli = Idle)'
        BY DEF RepoInv, Underway, None, Idle, DropGate, NoGate, GoTo
  <2>2. (cli.pc # "idle" => cli.w \in Paths /\ dir[cli.w].there = TRUE /\ settled[cli.w] = None)'
        BY DEF RepoInv, Underway, None, Idle, DropGate, NoGate, GoTo
  <2>3. (cli.pc \notin {"idle", "find"} =>
           /\ cli.g \in Paths
           /\ (cli.fresh = TRUE => cli.g = cli.w)
           /\ (cli.fresh = FALSE => rec[cli.g] = cli.w))'
        BY DEF RepoInv, Underway, None, Idle, DropGate, NoGate, GoTo
  <2>4. (cli.pc \in {"canon", "legacy", "store", "record"} => gates[cli.g].there = TRUE)'
        BY DEF RepoInv, Underway, None, Idle, DropGate, NoGate, GoTo
  <2>5. (cli.pc \in {"legacy", "store", "record"} => dir[cli.w].canon = cli.g)'
        BY DEF RepoInv, Underway, None, Idle, DropGate, NoGate, GoTo
  <2>6. (cli.pc \in {"store", "record"} => dir[cli.w].legacy = cli.g)'
        BY DEF RepoInv, Underway, None, Idle, DropGate, NoGate, GoTo
  <2>7. (cli.pc = "store" => cli.fresh = TRUE)'
        BY DEF RepoInv, Underway, None, Idle, DropGate, NoGate, GoTo
  <2>8. (cli.pc \in {"unwire", "drop", "forget"} => cli.fresh = FALSE)'
        BY DEF RepoInv, Underway, None, Idle, DropGate, NoGate, GoTo
    <2> QED BY <2>1, <2>2, <2>3, <2>4, <2>5, <2>6, <2>7, <2>8 DEF Underway
<1>4. Settled'
  <2>1. /\ cli.g \in Paths /\ rec[cli.g] = cli.w /\ settled[cli.w] = None
        /\ gates' = [gates EXCEPT ![cli.g] = NoGate]
        /\ UNCHANGED <<dir, rec, settled>>
    BY DEF RepoInv, Underway, DropGate
  <2>2. \A x \in Paths : settled[x] = x => x # cli.g
    BY <2>1, GateAssumption DEF RepoInv, RepoTyped, Settled
  <2> QED BY <2>1, <2>2 DEF RepoInv, RepoTyped, Settled
<1>5. Hooked'
    BY DEF RepoInv, Hooked, Conflict, Armed, DropGate, NoGate, GoTo
<1> QED BY <1>1, <1>2, <1>3, <1>4, <1>5 DEF RepoInv

\* ForgetRecord keeps the invariant.
LEMMA ForgetRecordKeeps ==
    ASSUME RepoInv, ForgetRecord
    PROVE  RepoInv'
<1>1. (Hooked /\ Admitted)'
    BY DEF RepoInv, Hooked, Conflict, Armed, Admitted, ForgetRecord, None, Idle
<1>2. RepoTyped'
  <2>1. (/\ dir \in [Paths -> Checkouts]
         /\ gates \in [Paths -> Gates]
         /\ settled \in [Paths -> Paths \cup {None}]
         /\ server \in {"down", "migrating", "up"}
         /\ todo \subseteq Paths
         /\ tampered \subseteq Paths
         /\ budget \in [{"shifts", "tampers", "inits"} -> Nat])'
        BY DEF RepoInv, RepoTyped, None, Gates, Checkouts, Remotes, User, Commands,
        Places, ForgetRecord, Idle
  <2>2. (rec \in [Paths -> Paths \cup {None}])'
        BY DEF RepoInv, RepoTyped, None, Gates, Checkouts, Remotes, User, Commands,
        Places, Underway, Idle, ForgetRecord
  <2>3. (cli \in Commands)'
        BY DEF RepoInv, RepoTyped, None, Gates, Checkouts, Remotes, User, Commands,
        Places, ForgetRecord, Idle
    <2> QED BY <2>1, <2>2, <2>3 DEF RepoTyped
<1>3. OneRecord'
    BY DEF RepoInv, OneRecord, None, ForgetRecord, Idle
<1>4. Underway'
  <2>1. (cli.pc = "idle" <=> cli = Idle)'
        BY DEF RepoInv, Underway, None, Idle, ForgetRecord
  <2>2. (cli.pc # "idle" => cli.w \in Paths /\ dir[cli.w].there = TRUE /\ settled[cli.w] = None)'
        BY DEF RepoInv, Underway, None, Idle, ForgetRecord
  <2>3. (cli.pc \notin {"idle", "find"} =>
           /\ cli.g \in Paths
           /\ (cli.fresh = TRUE => cli.g = cli.w)
           /\ (cli.fresh = FALSE => rec[cli.g] = cli.w))'
        BY DEF RepoInv, Underway, None, Idle, ForgetRecord
  <2>4. (cli.pc \in {"canon", "legacy", "store", "record"} => gates[cli.g].there = TRUE)'
        BY DEF RepoInv, Underway, None, Idle, ForgetRecord
  <2>5. (cli.pc \in {"legacy", "store", "record"} => dir[cli.w].canon = cli.g)'
        BY DEF RepoInv, Underway, None, Idle, ForgetRecord
  <2>6. (cli.pc \in {"store", "record"} => dir[cli.w].legacy = cli.g)'
        BY DEF RepoInv, Underway, None, Idle, ForgetRecord
  <2>7. (cli.pc = "store" => cli.fresh = TRUE)'
        BY DEF RepoInv, Underway, None, Idle, ForgetRecord
  <2>8. (cli.pc \in {"unwire", "drop", "forget"} => cli.fresh = FALSE)'
        BY DEF RepoInv, Underway, None, Idle, ForgetRecord
    <2> QED BY <2>1, <2>2, <2>3, <2>4, <2>5, <2>6, <2>7, <2>8 DEF Underway
<1>5. Settled'
    BY DEF RepoInv, Settled, None, RepoTyped, Gates, Checkouts, Remotes, User, Commands,
      Places, Underway, Idle, ForgetRecord
<1> QED BY <1>1, <1>2, <1>3, <1>4, <1>5 DEF RepoInv

\* Killed keeps the invariant.
LEMMA KilledKeeps ==
    ASSUME RepoInv, Killed
    PROVE  RepoInv'
<1>1. (OneRecord /\ Settled /\ Hooked /\ Admitted)'
    BY DEF RepoInv, OneRecord, None, Settled, Hooked, Conflict, Armed, Admitted, Killed,
      Idle
<1>2. RepoTyped'
  <2>1. (/\ dir \in [Paths -> Checkouts]
         /\ gates \in [Paths -> Gates]
         /\ rec \in [Paths -> Paths \cup {None}]
         /\ settled \in [Paths -> Paths \cup {None}]
         /\ server \in {"down", "migrating", "up"}
         /\ todo \subseteq Paths
         /\ tampered \subseteq Paths
         /\ budget \in [{"shifts", "tampers", "inits"} -> Nat])'
        BY DEF RepoInv, RepoTyped, None, Gates, Checkouts, Remotes, User, Commands,
        Places, Killed, Idle
  <2>2. (cli \in Commands)'
        BY DEF RepoInv, RepoTyped, None, Gates, Checkouts, Remotes, User, Commands,
        Places, Killed, Idle
    <2> QED BY <2>1, <2>2 DEF RepoTyped
<1>3. Underway'
  <2>1. (cli.pc = "idle" <=> cli = Idle)'
        BY DEF RepoInv, Underway, None, Idle, Killed
  <2>2. (cli.pc # "idle" => cli.w \in Paths /\ dir[cli.w].there = TRUE /\ settled[cli.w] = None)'
        BY DEF RepoInv, Underway, None, Idle, Killed
  <2>3. (cli.pc \notin {"idle", "find"} =>
           /\ cli.g \in Paths
           /\ (cli.fresh = TRUE => cli.g = cli.w)
           /\ (cli.fresh = FALSE => rec[cli.g] = cli.w))'
        BY DEF RepoInv, Underway, None, Idle, Killed
  <2>4. (cli.pc \in {"canon", "legacy", "store", "record"} => gates[cli.g].there = TRUE)'
        BY DEF RepoInv, Underway, None, Idle, Killed
  <2>5. (cli.pc \in {"legacy", "store", "record"} => dir[cli.w].canon = cli.g)'
        BY DEF RepoInv, Underway, None, Idle, Killed
  <2>6. (cli.pc \in {"store", "record"} => dir[cli.w].legacy = cli.g)'
        BY DEF RepoInv, Underway, None, Idle, Killed
  <2>7. (cli.pc = "store" => cli.fresh = TRUE)'
        BY DEF RepoInv, Underway, None, Idle, Killed
  <2>8. (cli.pc \in {"unwire", "drop", "forget"} => cli.fresh = FALSE)'
        BY DEF RepoInv, Underway, None, Idle, Killed
    <2> QED BY <2>1, <2>2, <2>3, <2>4, <2>5, <2>6, <2>7, <2>8 DEF Underway
<1> QED BY <1>1, <1>2, <1>3 DEF RepoInv

-----------------------------------------------------------------------------
(* The gate repository as a whole *)

\* One checkout, no gate, no command, no daemon.
LEMMA InitRepo ==
    ASSUME GateInit
    PROVE  RepoInv
<1>1. RepoTyped
  <2>1. dir \in [Paths -> Checkouts] /\ gates \in [Paths -> Gates] /\ cli \in Commands
    BY BlankRecords DEF GateInit
  <2>2. budget \in [{"shifts", "tampers", "inits"} -> Nat]
    BY GateAssumption DEF GateInit
  <2> QED BY <2>1, <2>2 DEF GateInit, RepoTyped
<1>2. OneRecord /\ Admitted
  BY DEF GateInit, OneRecord, Admitted
<1>3. Underway
  BY BlankRecords DEF GateInit, Underway
<1>4. Settled
  BY GateAssumption DEF GateInit, Settled
<1>5. Hooked
  BY BlankRecords DEF GateInit, Hooked
<1> QED BY <1>1, <1>2, <1>3, <1>4, <1>5 DEF RepoInv

\* A step in which nothing happens keeps the invariant.
LEMMA IdleGateKeeps ==
    ASSUME RepoInv, UNCHANGED gateVars
    PROVE  RepoInv'
  BY DEF RepoInv, RepoTyped, OneRecord, Underway, Idle, Settled, Hooked, Armed, Conflict,
     Admitted, gateVars

LEMMA RepoNextKeeps ==
    ASSUME RepoInv, [GateNext]_gateVars
    PROVE  RepoInv'
<1>1. ASSUME NEW w \in Paths, NEW v \in Paths, MoveDir(w, v) \/ CopyDir(w, v)
      PROVE  RepoInv'
  BY <1>1, MoveDirKeeps, CopyDirKeeps
<1>2. ASSUME NEW w \in Paths, CloneDir(w) \/ BeginInit(w) \/ BeginEject(w) \/ PushFrom(w)
      PROVE  RepoInv'
  BY <1>2, CloneDirKeeps, BeginInitKeeps, BeginEjectKeeps, PushFromKeeps
<1>3. ASSUME NEW g \in Paths, Tamper(g) \/ MigrateGate(g)
      PROVE  RepoInv'
  BY <1>3, TamperKeeps, MigrateGateKeeps
<1>4. CASE Upgrade \/ DaemonStarts \/ DaemonServes \/ DaemonStops
  BY <1>4, UpgradeKeeps, DaemonStartsKeeps, DaemonServesKeeps, DaemonStopsKeeps
<1>5. CASE FindGate \/ ProvisionHooks \/ WireCanonical \/ WireLegacy \/ AttachStore \/ RecordGate
  BY <1>5, FindGateKeeps, ProvisionHooksKeeps, WireCanonicalKeeps, WireLegacyKeeps,
     AttachStoreKeeps, RecordGateKeeps
<1>6. CASE Unwire \/ DropGate \/ ForgetRecord \/ Killed
  BY <1>6, UnwireKeeps, DropGateKeeps, ForgetRecordKeeps, KilledKeeps
<1>7. CASE UNCHANGED gateVars
  BY <1>7, IdleGateKeeps
<1> QED BY <1>1, <1>2, <1>3, <1>4, <1>5, <1>6, <1>7 DEF GateNext

\* The inductive invariant of the gate repository holds throughout: whatever
\* becomes of checkouts, copies, commands and the daemon, a settled checkout has
\* its record and its gate, and the hooks of a gate the daemon has seen to are in
\* order (gate.go, hook.go, migrateGateConfigs).
THEOREM GateInvHolds == GateSpec => []RepoInv
<1>1. GateInit => RepoInv
  BY InitRepo
<1>2. RepoInv /\ [GateNext]_gateVars => RepoInv'
  BY RepoNextKeeps
<1> QED BY <1>1, <1>2, PTL DEF GateSpec

\* A checkout that was initialised where it stands keeps its gate, its record and
\* its remotes, and no push gets past admission or fails to start its run, for any
\* number of checkouts and any number of moves, copies, tamperings and commands.
THEOREM GateIsSafe == GateSpec => []GateSafe
<1>1. RepoInv => GateSafe
  <2> SUFFICES ASSUME RepoInv PROVE GateSafe
    OBVIOUS
  <2>1. GateTypeOK
    <3>1. \A g, h \in Paths : rec[g] = rec[h] /\ rec[g] # None => g = h
      BY DEF RepoInv, OneRecord
    <3>2. \A w \in Paths : {dir[w].canon, dir[w].legacy} \subseteq Paths \cup {None, User}
      BY DEF RepoInv, RepoTyped, Checkouts, Remotes
    <3>3. \A g \in Paths : gates[g].pre \in {"none", "managed", "stale", "user", "dead"}
                           /\ gates[g].kept \in {"none", "user", "self"}
      BY DEF RepoInv, RepoTyped, Gates
    <3> QED BY <3>1, <3>2, <3>3 DEF RepoInv, RepoTyped, Admitted, GateTypeOK
  <2>2. OwnGateStays
    BY GateAssumption DEF RepoInv, Settled, OwnGateStays, Wired
  <2>3. PushesAreAdmitted
    BY DEF RepoInv, Admitted, PushesAreAdmitted
  <2> QED BY <2>1, <2>2, <2>3 DEF GateSafe
<1> QED BY <1>1, GateInvHolds, PTL

\* Giving up a command leaves every hook where it was, or removes the gate.
LEMMA HookStaysOrGateGoes ==
    ASSUME RepoInv, NEW b \in BOOLEAN, cli.pc \notin {"idle", "find"}, GiveUp(b),
           NEW g \in Paths, gates'[g].there
    PROVE  gates'[g] = gates[g]
<1>1. gates \in [Paths -> Gates] /\ cli.g \in Paths
  BY DEF RepoInv, RepoTyped, Underway
<1>2. CASE cli.fresh
  BY <1>1, <1>2, BlankRecords DEF GiveUp
<1>3. CASE ~cli.fresh
  BY <1>3 DEF GiveUp
<1> QED BY <1>2, <1>3

\* One step keeps a hook of the user's, as the hook or behind the managed one.
LEMMA HookStays ==
    ASSUME RepoInv, [GateNext]_gateVars, NEW g \in Paths, gates[g].there, gates'[g].there,
           budget'["tampers"] = budget["tampers"], "user" \in {gates[g].pre, gates[g].kept}
    PROVE  "user" \in {gates'[g].pre, gates'[g].kept}
<1>1. gates \in [Paths -> Gates] /\ budget \in [{"shifts", "tampers", "inits"} -> Nat]
  BY DEF RepoInv, RepoTyped
<1>2. CASE gates' = gates
  BY <1>2
<1>3. ASSUME NEW k \in Paths, MigrateGate(k)
      PROVE  "user" \in {gates'[g].pre, gates'[g].kept}
  BY <1>1, <1>3, HooksInOrder DEF MigrateGate
<1>4. CASE ProvisionHooks
  <2>1. CASE GiveUp(FALSE)
    BY <1>4, <2>1, HookStaysOrGateGoes DEF ProvisionHooks
  <2>2. CASE ~GiveUp(FALSE)
    <3>1. gates' = [gates EXCEPT ![cli.g] = Pinned(RearmPost(RearmPre([gates[cli.g] EXCEPT !.there = TRUE])))]
      BY <1>4, <2>2 DEF ProvisionHooks
    <3> DEFINE h == [gates[cli.g] EXCEPT !.there = TRUE]
    <3>2. CASE g = cli.g
      <4>1. h \in Gates /\ h.pre = gates[g].pre /\ h.kept = gates[g].kept
        BY <1>1, <3>2, GateCreated
      <4> HIDE DEF h
      <4>2. Pinned(RearmPost(RearmPre(h))).kept = "user"
        BY <4>1, HooksInOrder
      <4>3. gates'[g] = Pinned(RearmPost(RearmPre(h)))
        BY <1>1, <3>1, <3>2 DEF h
      <4> QED BY <4>2, <4>3
    <3>3. CASE g # cli.g
      BY <1>1, <3>1, <3>3
    <3> QED BY <3>2, <3>3
  <2> QED BY <2>1, <2>2
<1>5. CASE WireCanonical \/ WireLegacy
  <2>1. CASE GiveUp(FALSE)
    BY <1>5, <2>1, HookStaysOrGateGoes DEF WireCanonical, WireLegacy
  <2>2. CASE ~GiveUp(FALSE)
    BY <1>2, <1>5, <2>2 DEF WireCanonical, WireLegacy
  <2> QED BY <2>1, <2>2
<1>6. CASE AttachStore
  <2>1. CASE GiveUp(TRUE)
    BY <1>6, <2>1, HookStaysOrGateGoes DEF AttachStore
  <2>2. CASE ~GiveUp(TRUE)
    <3>1. gates' = [gates EXCEPT ![cli.g] = [gates[cli.g] EXCEPT !.shared = TRUE]]
      BY <1>6, <2>2 DEF AttachStore
    <3> QED BY <1>1, <3>1, GateCreated
  <2> QED BY <2>1, <2>2
<1>7. CASE RecordGate
  <2>1. CASE GiveUp(TRUE)
    BY <1>7, <2>1, HookStaysOrGateGoes DEF RecordGate
  <2>2. CASE ~GiveUp(TRUE)
    BY <1>2, <1>7, <2>2 DEF RecordGate
  <2> QED BY <2>1, <2>2
<1>8. CASE DropGate
  <2>1. cli.g \in Paths /\ gates' = [gates EXCEPT ![cli.g] = NoGate]
    BY <1>8 DEF RepoInv, Underway, DropGate
  <2> QED BY <1>1, <2>1, BlankRecords
<1>9. ASSUME NEW k \in Paths, Tamper(k)
      PROVE  FALSE
  <2>1. budget'["tampers"] = budget["tampers"] - 1
    BY <1>1, <1>9 DEF Tamper, Spend
  <2> QED BY <1>1, <2>1
<1>10. CASE Upgrade
  <2>1. budget'["tampers"] = budget["tampers"] - 1
    BY <1>1, <1>10 DEF Upgrade, Spend
  <2> QED BY <1>1, <2>1
<1>11. ASSUME NEW w \in Paths, NEW v \in Paths,
             MoveDir(w, v) \/ CopyDir(w, v) \/ CloneDir(w) \/ BeginInit(w) \/ BeginEject(w) \/ PushFrom(w)
       PROVE  gates' = gates
  BY <1>11 DEF MoveDir, CopyDir, CloneDir, BeginInit, BeginEject, PushFrom
<1>12. CASE DaemonStarts \/ DaemonServes \/ DaemonStops \/ FindGate \/ Unwire \/ ForgetRecord \/ Killed
            \/ UNCHANGED gateVars
  BY <1>2, <1>12 DEF DaemonStarts, DaemonServes, DaemonStops, FindGate, Unwire, ForgetRecord, Killed,
     gateVars
<1> QED BY <1>2, <1>3, <1>4, <1>5, <1>6, <1>7, <1>8, <1>9, <1>10, <1>11, <1>12 DEF GateNext

\* A hook of the user's outlives every refresh, by init or by a start of the
\* daemon, for as long as its gate is there and others leave the hooks alone.
THEOREM HooksOutlive == GateSpec => UserHookKept
<1>1. RepoInv /\ [GateNext]_gateVars
        => [\A g \in Paths : (gates[g].there /\ gates'[g].there /\ budget'["tampers"] = budget["tampers"])
              => ("user" \in {gates[g].pre, gates[g].kept} => "user" \in {gates'[g].pre, gates'[g].kept})]_gateVars
  BY HookStays
<1> QED BY <1>1, GateInvHolds, PTL DEF GateSpec, UserHookKept
=============================================================================
