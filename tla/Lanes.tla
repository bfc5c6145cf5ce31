------------------------------- MODULE Lanes --------------------------------
(* Agent invocations: a fallback chain over the configured lanes           *)
(* (agent/fallback.go), each lane guarded by a persisted mark of its quota  *)
(* outage (agent/lanehealth.go, lanehealth/store.go) and, where it has a    *)
(* pool, by a seat leased for the turn (agent/quartermaster.go).            *)
(*                                                                          *)
(* Several invocations, of one or several daemons, share the marks file and *)
(* the seats. Reads of the file take no lock; writes are whole and take it. *)
EXTENDS Naturals, Sequences

CONSTANTS
    Invokers,     \* invocations
    Chain,        \* the configured lanes, in order
    Leased,       \* the lanes whose pool the quartermaster serves
    LastTick,     \* bound on the clock
    Probe,        \* ProbeInterval, in ticks
    Ttl           \* life of a lease, in ticks

LaneSet == {Chain[i] : i \in 1..Len(Chain)}

ASSUME LanesAssumption ==
    /\ Chain \in Seq(LaneSet) /\ Chain # <<>> /\ Leased \subseteq LaneSet
    /\ LastTick \in Nat \ {0} /\ Probe \in Nat \ {0} /\ Ttl \in Nat
    /\ 0 \notin Invokers

NoMark == [until |-> 0, observed |-> 0, probe |-> 0]
NoSeat == [by |-> 0, exp |-> 0]
Ends == {"ok", "failed", "exhausted", "cancelled"}

VARIABLES
    clock,    \* wall clock; 0 is the zero time
    marks,    \* lane-health.json: the outage of each lane
    seats,    \* the quartermaster's account of each pool's one seat
    inv,      \* the invocations
    claims    \* history: the time of the last probe through each lane's mark that the file still knows

lanesVars == <<clock, marks, seats, inv, claims>>

NewInv(cands) ==
    [pc |-> "check", cands |-> cands, at |-> 1, started |-> 0, now |-> 0,
     seat |-> FALSE, why |-> "none", end |-> "none", out |-> 0, stranded |-> FALSE, cancelled |-> FALSE]

\* The whole chain, or the one lane that owns the session to be resumed.
Candidates == {Chain} \cup {<<l>> : l \in LaneSet}

\* An invocation that is not made.
Unasked == [NewInv(Chain) EXCEPT !.pc = "over", !.end = "cancelled"]

\* What earlier runs left: rows with and without times, past their reset and not.
EarlierMarks == [until : {1, LastTick + 1}, observed : {0, 1}, probe : {0}]

LanesInit ==
    /\ clock = 1
    /\ marks \in [LaneSet -> {NoMark} \cup EarlierMarks]
    /\ seats = [l \in Leased |-> NoSeat]
    /\ inv \in [Invokers -> {NewInv(c) : c \in Candidates} \cup {Unasked}]
    /\ claims = [l \in LaneSet |-> 0]

Lane(i) == inv[i].cands[inv[i].at]
Live(l, now) == marks[l].until > now
At(i, pc) == inv[i].pc = pc
Move(i, r) == inv' = [inv EXCEPT ![i] = r]

\* Time passes; the quartermaster frees the seats whose lease ran out.
LanesTick ==
    /\ clock < LastTick
    /\ clock' = clock + 1
    /\ seats' = [l \in Leased |-> IF seats[l].exp <= clock + 1 THEN NoSeat ELSE seats[l]]
    /\ UNCHANGED <<marks, inv, claims>>

\* The step that asked is cancelled or times out.
Interrupt(i) ==
    /\ ~inv[i].cancelled /\ ~At(i, "over")
    /\ Move(i, [inv[i] EXCEPT !.cancelled = TRUE])
    /\ UNCHANGED <<clock, marks, seats, claims>>

-----------------------------------------------------------------------------
(* The mark of a lane *)

Reference(m) == IF m.probe > m.observed THEN m.probe ELSE m.observed

\* Every write prunes the marks whose reset has come.
Pruned(f) == [l \in LaneSet |-> IF f[l].until <= clock THEN NoMark ELSE f[l]]

\* What a claim does to a mark: nothing, start its probe clock, or probe.
ProbeDecision(m, now) ==
    IF m.until <= now THEN "no"
    ELSE IF Reference(m) = 0 THEN "start"
    ELSE IF Reference(m) + Probe > now THEN "no" ELSE "probe"

TurnPc(l) == IF l \in Leased THEN "acquire" ELSE "run"

\* What the fallback chain does with the end of one lane's turn: `why` is
\* "ok", "out" (a quota outage), "unavailable", or any other error.
Chained(i, why) ==
    LET r == [inv[i] EXCEPT !.started = 0, !.now = 0, !.why = "none",
                            !.out = @ + (IF why = "out" THEN 1 ELSE 0)]
        last == r.at = Len(r.cands)
        end == IF why = "ok" THEN "ok"
               ELSE IF last /\ r.out = Len(r.cands) THEN "exhausted"
               ELSE IF r.cancelled THEN "cancelled" ELSE "failed"
    IN  IF why \in {"out", "unavailable"} /\ ~last /\ ~r.cancelled
          THEN [r EXCEPT !.pc = "check", !.at = @ + 1]
          ELSE [r EXCEPT !.pc = "over", !.end = end]

\* The mark is read without the lock. A lane that is out is skipped unless the
\* same lock-free read says a probe is due.
CheckLane(i) ==
    /\ At(i, "check")
    /\ LET l == Lane(i)
           r == [inv[i] EXCEPT !.started = clock]
       IN  Move(i, IF ~Live(l, clock) THEN [r EXCEPT !.pc = TurnPc(l)]
                   ELSE IF ProbeDecision(marks[l], clock) = "no" THEN Chained(i, "out")
                   ELSE [r EXCEPT !.pc = "claim", !.now = clock])
    /\ UNCHANGED <<clock, marks, seats, claims>>

\* Mutant: a claim trusts the lock-free read.
ClaimProbeUnchecked(i) ==
    /\ At(i, "claim")
    /\ claims' = [claims EXCEPT ![Lane(i)] = inv[i].now]
    /\ Move(i, [inv[i] EXCEPT !.pc = TurnPc(Lane(i))])
    /\ marks' = Pruned([marks EXCEPT ![Lane(i)].probe = inv[i].now])
    /\ UNCHANGED <<clock, seats>>

\* The claim is decided again under the lock, at the time read before it; a
\* lock or a write that fails keeps the lane skipped.
ClaimProbe(i) ==
    /\ At(i, "claim")
    /\ LET l == Lane(i)
           d == ProbeDecision(marks[l], inv[i].now)
           written == Pruned([marks EXCEPT ![l].probe = inv[i].now])
       IN  \/ /\ d = "probe"
              /\ claims' = [claims EXCEPT ![l] = inv[i].now]
              /\ Move(i, [inv[i] EXCEPT !.pc = TurnPc(l)])
              /\ marks' = written
           \/ /\ Move(i, Chained(i, "out"))
              /\ marks' \in {marks} \cup IF d = "start" THEN {written} ELSE {}
              /\ UNCHANGED claims
    /\ UNCHANGED <<clock, seats>>

-----------------------------------------------------------------------------
(* The seat of a turn *)

Free(l) == seats[l] = NoSeat

\* The leased account's home, from the registry or the default place, is bound
\* into the environment; when it is not there the seat goes back at once.
BoundHome(r) == {[r EXCEPT !.pc = "run"], [r EXCEPT !.pc = "release", !.why = "error"]}

\* Acquire. An answer without a lease is a refusal, which the chain passes
\* over, and so is a deadline; any other failure of the command, or a lease
\* without an account, is not. The seat may have been taken all the same: by a
\* command killed after the grant, by a grant without an id, or by one whose
\* hand-back failed.
AcquireSeat(i) ==
    /\ At(i, "acquire")
    /\ LET l == Lane(i)
           taken == [seats EXCEPT ![l] = [by |-> i, exp |-> clock + Ttl]]
       IN  \/ /\ Free(l) /\ ~inv[i].cancelled
              /\ seats' = taken
              /\ \E r \in BoundHome([inv[i] EXCEPT !.seat = TRUE]) : Move(i, r)
           \/ \E took \in BOOLEAN, why \in {"unavailable", "error"} :
                /\ took => Free(l)
                /\ seats' = IF took THEN taken ELSE seats
                /\ Move(i, [Chained(i, why) EXCEPT !.stranded = @ \/ took])
    /\ UNCHANGED <<clock, marks, claims>>

TurnEnds == {"ok", "quota", "unavailable", "error"}

\* The turn itself; its retries of a transient failure only take time.
AgentTurn(i) ==
    /\ At(i, "run")
    /\ \E e \in TurnEnds :
         Move(i, [inv[i] EXCEPT !.pc = IF Lane(i) \in Leased THEN "release" ELSE "judge", !.why = e])
    /\ UNCHANGED <<clock, marks, seats, claims>>

\* Mutant: a lease is given back only after a turn.
ReleaseSeatAfterTurn(i) ==
    /\ At(i, "release")
    /\ Move(i, [inv[i] EXCEPT !.seat = FALSE, !.pc = "judge"])
    /\ UNCHANGED <<clock, marks, seats, claims>>

\* The seat goes back whatever the turn's end and whether or not the step was
\* cancelled. A release that fails is an error of the turn: a completed turn
\* is lost with it, a quota banner is still read in the joined text.
ReleaseSeat(i) ==
    /\ At(i, "release")
    /\ LET mine == seats[Lane(i)].by = i
       IN  \/ /\ seats' = IF mine THEN [seats EXCEPT ![Lane(i)] = NoSeat] ELSE seats
              /\ Move(i, [inv[i] EXCEPT !.seat = FALSE, !.pc = "judge"])
           \/ /\ UNCHANGED seats
              /\ Move(i, [inv[i] EXCEPT !.seat = FALSE, !.stranded = TRUE, !.pc = "judge",
                                        !.why = IF @ = "ok" THEN "error" ELSE @])
    /\ UNCHANGED <<clock, marks, claims>>

-----------------------------------------------------------------------------
(* What the lane's health learns from the turn *)

\* The reset the banner states, when it is one that can be trusted, or the
\* default cooldown.
Cooldowns == 1..2

\* A completed turn drops the marks observed by its start, a cancelled turn
\* says nothing, a quota banner is read, at this time, as an outage.
Judge(i) ==
    /\ At(i, "judge")
    /\ \/ /\ inv[i].why = "ok"
          /\ LET m == marks[Lane(i)]
             IN  Move(i, IF m # NoMark /\ m.observed <= inv[i].started
                           THEN [inv[i] EXCEPT !.pc = "clear"] ELSE Chained(i, "ok"))
       \/ /\ inv[i].why \in {"unavailable", "error"} /\ Move(i, Chained(i, inv[i].why))
       \/ /\ inv[i].why = "quota"
          /\ Move(i, IF inv[i].cancelled THEN Chained(i, "error") ELSE [inv[i] EXCEPT !.pc = "mark", !.now = clock])
    /\ UNCHANGED <<clock, marks, seats, claims>>

\* The outage is written once the lock is had, in place of the lane's row
\* whatever that says by then; a write that fails is ignored. A probe claimed
\* since the outage was read is forgotten with the row.
MarkLane(i) ==
    /\ At(i, "mark")
    /\ Move(i, Chained(i, "out"))
    /\ \/ UNCHANGED <<marks, claims>>
       \/ /\ \E u \in Cooldowns :
                marks' = Pruned([marks EXCEPT ![Lane(i)] = [until |-> inv[i].now + u, observed |-> inv[i].now, probe |-> 0]])
          /\ claims' = IF claims[Lane(i)] > inv[i].now THEN [claims EXCEPT ![Lane(i)] = 0] ELSE claims
    /\ UNCHANGED <<clock, seats>>

\* The clearing is decided again under the lock.
ClearMark(i) ==
    /\ At(i, "clear")
    /\ Move(i, Chained(i, "ok"))
    /\ marks' = LET m == marks[Lane(i)]
                IN  IF m # NoMark /\ m.observed <= inv[i].started
                      THEN Pruned([marks EXCEPT ![Lane(i)] = NoMark]) ELSE Pruned(marks)
    /\ UNCHANGED <<clock, seats, claims>>

LanesNext ==
    \/ LanesTick
    \/ \E i \in Invokers :
         \/ Interrupt(i) \/ CheckLane(i) \/ ClaimProbe(i) \/ AcquireSeat(i)
         \/ AgentTurn(i) \/ ReleaseSeat(i) \/ Judge(i) \/ MarkLane(i) \/ ClearMark(i)

LanesSpec == LanesInit /\ [][LanesNext]_lanesVars
-----------------------------------------------------------------------------
(* Properties *)

\* Times and seats stay in range, and one seat is one invocation's.
LanesTypeOK ==
    /\ clock \in 1..LastTick
    /\ marks \in [LaneSet -> [until : 0..LastTick + 2, observed : 0..LastTick, probe : 0..LastTick]]
    /\ seats \in [Leased -> [by : {0} \cup Invokers, exp : 0..LastTick + Ttl]]
    /\ \A i \in Invokers : inv[i].at \in 1..Len(inv[i].cands) /\ inv[i].out \in 0..inv[i].at

\* A seat still held is held by a turn under way, or by an invocation whose
\* acquire or release went wrong: then it waits for its lease to run out
\* (releaseError surfaces it). No other end of a turn leaks an account.
SeatsAccounted ==
    \A l \in Leased :
      ~Free(l) => \/ inv[seats[l].by].seat
                  \/ inv[seats[l].by].stranded

\* A mark disappears only when its reset has come, when a turn that began no
\* earlier than the outage was observed succeeded, or when an outage read
\* before took its place late: a turn authorised before the quota ran out does
\* not reopen the lane to everyone (ClearObservedBefore).
FreshMarkKept ==
    [][\A l \in LaneSet :
         (marks[l].until > clock /\ marks'[l] = NoMark) =>
           \E i \in Invokers : /\ Lane(i) = l
                               /\ \/ At(i, "clear") /\ inv'[i].pc # "clear" /\ inv[i].started >= marks[l].observed
                                  \/ At(i, "mark") /\ inv'[i].pc # "mark" /\ inv[i].now < clock]_lanesVars

\* Two probes of a lane are an interval apart, however many invocations ask at
\* once (ClaimProbe decides again under the lock), as long as no outage that
\* was read before the first of them is written between the two.
ProbesSpaced ==
    [][\A i \in Invokers :
         (At(i, "claim") /\ inv'[i].pc = TurnPc(Lane(i)) /\ claims[Lane(i)] # 0)
           => inv[i].now >= claims[Lane(i)] + Probe]_lanesVars

\* Marks and probes of a lane move under its lock only as their times allow.
MarksMove == FreshMarkKept /\ ProbesSpaced

\* An invocation that met a quota outage and was not cancelled fails only
\* after its last lane, and says that every lane is out only if all were
\* (fallbackAgent.Run).
OutageFallsThrough ==
    \A i \in Invokers :
      At(i, "over") =>
        /\ (inv[i].end = "exhausted") = (inv[i].out = Len(inv[i].cands))
        /\ (inv[i].end = "failed" /\ inv[i].out = inv[i].at) => inv[i].at = Len(inv[i].cands)

\* Seats are accounted for and an outage falls through to the last lane.
LanesSafe == LanesTypeOK /\ SeatsAccounted /\ OutageFallsThrough
=============================================================================
