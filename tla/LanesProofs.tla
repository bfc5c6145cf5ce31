----------------------------- MODULE LanesProofs -----------------------------
(* Proofs about agent invocations that share the marks of quota outages and *)
(* the seats of account pools, for any number of invocations and lanes,     *)
(* about the fixer's session over any number of turns, events and restarts, *)
(* and about what the terminal shows of the run they work for, over any     *)
(* number of changes, frames, reads, lost connections and reruns.           *)
EXTENDS Lanes, AgentTurns, Screen, TLAPS, SequenceTheorems, WellFoundedInduction

Invocations ==
    [pc : {"check", "claim", "acquire", "run", "release", "judge", "mark", "clear", "over"},
     cands : Candidates, at : Nat, started : 0..LastTick, now : 0..LastTick,
     seat : BOOLEAN, why : TurnEnds \union {"none"}, end : Ends \union {"none"}, out : Nat,
     stranded : BOOLEAN, cancelled : BOOLEAN]

\* What one invocation keeps to: its place in the chain, the outages it met, and where it has a seat.
Sound(r) ==
    /\ r.at \in 1..Len(r.cands)
    /\ r.pc # "over" => r.out < r.at
    /\ r.pc = "over" =>
          /\ r.out <= r.at
          /\ r.end = "exhausted" <=> r.out = Len(r.cands)
          /\ r.end = "failed" /\ r.out = r.at => r.at = Len(r.cands)
    /\ r.pc \in {"acquire", "release"} => r.cands[r.at] \in Leased
    /\ r.seat = TRUE => r.pc \in {"run", "release"} /\ r.cands[r.at] \in Leased
    /\ r.pc = "release" => r.why \in TurnEnds

LanesTyped ==
    /\ clock \in 1..LastTick
    /\ marks \in [LaneSet -> [until : 0..LastTick + 2, observed : 0..LastTick, probe : 0..LastTick]]
    /\ seats \in [Leased -> {NoSeat} \union [by : Invokers, exp : 0..LastTick + Ttl]]
    /\ inv \in [Invokers -> Invocations]
    /\ claims \in [LaneSet -> Nat]

Invoked == \A i \in Invokers : Sound(inv[i]) /\ inv[i].now <= clock

\* A seat is its taker's, unless it was given up for lost.
Seated ==
    \A l \in Leased : ~Free(l) =>
        \/ inv[seats[l].by].stranded = TRUE
        \/ inv[seats[l].by].seat = TRUE /\ Lane(seats[l].by) = l

\* A mark remembers the last probe through it, and a new mark is no older than it.
Probed == \A l \in LaneSet : claims[l] <= clock /\ (marks[l] = NoMark \/ claims[l] <= Reference(marks[l]))

LanesInv == LanesTyped /\ Invoked /\ Seated /\ Probed

\* The clock is bounded by a number.
LEMMA Bounds ==
    /\ LastTick \in Nat \ {0} /\ Probe \in Nat \ {0} /\ Ttl \in Nat
    /\ 0 \in 0..LastTick /\ 1 \in 1..LastTick /\ 0 \notin Invokers /\ Leased \subseteq LaneSet
BY LanesAssumption

-----------------------------------------------------------------------------
(* One invocation moves.                                                     *)

\* A lane of a chain is a configured one.
LEMMA LanesOfChains ==
    ASSUME NEW c \in Candidates
    PROVE  Len(c) \in Nat /\ \A k \in 1..Len(c) : c[k] \in LaneSet
BY LanesAssumption DEF Candidates, LaneSet

\* A move changes one invocation.
LEMMA InvocationMoves ==
    ASSUME LanesTyped, NEW i \in Invokers, NEW r \in Invocations, Move(i, r)
    PROVE  /\ inv' \in [Invokers -> Invocations] /\ inv'[i] = r
           /\ \A j \in Invokers : j # i => inv'[j] = inv[j]
BY DEF LanesTyped, Move

\* What an end of a turn makes of an invocation.
Passes(c, r) ==
    /\ c \in Invocations /\ Sound(c)
    /\ c.cands = r.cands /\ c.seat = FALSE /\ c.stranded = r.stranded /\ c.now = 0
    /\ c.pc \in {"check", "over"}

\* The end of a turn leaves the invocation at its next lane, or at its end.
LEMMA ChainedPasses ==
    ASSUME LanesTyped, NEW i \in Invokers, Sound(inv[i]), inv[i].pc \notin {"run", "release", "over"},
           NEW why \in {"ok", "out", "unavailable", "error"}
    PROVE  Passes(Chained(i, why), inv[i])
<1> DEFINE r == inv[i]
           met == r.out + (IF why = "out" THEN 1 ELSE 0)
           s == [r EXCEPT !.started = 0, !.now = 0, !.why = "none",
                          !.out = @ + (IF why = "out" THEN 1 ELSE 0)]
           last == s.at = Len(s.cands)
           end == IF why = "ok" THEN "ok"
                  ELSE IF last /\ s.out = Len(s.cands) THEN "exhausted"
                  ELSE IF s.cancelled THEN "cancelled" ELSE "failed"
           on == [s EXCEPT !.pc = "check", !.at = @ + 1]
           over == [s EXCEPT !.pc = "over", !.end = end]
<1>1. r \in Invocations /\ r.cands \in Candidates /\ Len(r.cands) \in Nat /\ r.at \in 1..Len(r.cands) /\ r.out < r.at /\ r.seat = FALSE
  BY LanesOfChains DEF LanesTyped, Sound, Invocations
<1>2. Chained(i, why) = IF why \in {"out", "unavailable"} /\ ~last /\ ~s.cancelled THEN on ELSE over
  BY DEF Chained
<1>3. /\ s \in Invocations /\ s.pc = r.pc /\ s.cands = r.cands /\ s.at = r.at /\ s.seat = FALSE /\ s.now = 0
      /\ s.stranded = r.stranded /\ s.cancelled = r.cancelled /\ s.out = met /\ met \in Nat /\ met <= r.at
      /\ why # "out" => met < r.at
  <2>1. met \in Nat /\ met <= r.at /\ (why # "out" => met < r.at)
    BY <1>1 DEF Invocations
  <2> HIDE DEF r
  <2>2. /\ s.pc = r.pc /\ s.cands = r.cands /\ s.at = r.at /\ s.seat = FALSE /\ s.now = 0
        /\ s.stranded = r.stranded /\ s.cancelled = r.cancelled /\ s.out = met
    BY <1>1 DEF Invocations
  <2>3. s \in Invocations
    <3> HIDE DEF met
    <3>1. [r EXCEPT !.started = 0, !.now = 0, !.why = "none", !.out = met] \in Invocations
      BY <1>1, <2>1, Bounds DEF Invocations
    <3>2. s = [r EXCEPT !.started = 0, !.now = 0, !.why = "none", !.out = met]
      BY DEF s, met
    <3> HIDE DEF s
    <3> QED BY <3>1, <3>2, Zenon
  <2> QED BY <2>1, <2>2, <2>3
<1> HIDE DEF r, s
<1>4. CASE why \in {"out", "unavailable"} /\ ~last /\ ~s.cancelled
  <2>1. /\ on \in Invocations /\ on.pc = "check" /\ on.at = r.at + 1 /\ on.cands = r.cands /\ on.seat = FALSE
        /\ on.stranded = r.stranded /\ on.now = 0 /\ on.out = met
    <3>1. /\ on.pc = "check" /\ on.at = r.at + 1 /\ on.cands = r.cands /\ on.seat = FALSE
          /\ on.stranded = r.stranded /\ on.now = 0 /\ on.out = met
      BY <1>3 DEF Invocations
    <3>2. on \in Invocations
      <4>1. s.at + 1 \in Nat
        BY <1>1, <1>3
      <4> QED BY <1>3, <4>1 DEF Invocations
    <3> QED BY <3>1, <3>2
  <2>2. on.at \in 1..Len(on.cands) /\ on.out < on.at
    BY <1>1, <1>3, <1>4, <2>1
  <2> QED BY <1>2, <1>4, <2>1, <2>2 DEF Passes, Sound, r
<1>5. CASE ~(why \in {"out", "unavailable"} /\ ~last /\ ~s.cancelled)
  <2>1. end \in Ends
    BY DEF Ends
  <2> HIDE DEF end
  <2>2. /\ over \in Invocations /\ over.pc = "over" /\ over.at = r.at /\ over.cands = r.cands /\ over.seat = FALSE
        /\ over.stranded = r.stranded /\ over.now = 0 /\ over.out = met /\ over.end = end
    BY <1>1, <1>3, <2>1 DEF Invocations
  <2>3. end = "exhausted" <=> met = Len(r.cands)
    BY <1>1, <1>3 DEF end
  <2>4. end = "failed" /\ met = r.at => r.at = Len(r.cands)
    BY <1>1, <1>3, <1>5 DEF end
  <2> QED BY <1>1, <1>2, <1>3, <1>5, <2>2, <2>3, <2>4 DEF Passes, Sound, r
<1> QED BY <1>4, <1>5

\* An invocation that moves soundly keeps the others as they were.
LEMMA StepIsSound ==
    ASSUME LanesTyped, Invoked, NEW i \in Invokers, NEW r \in Invocations, Move(i, r),
           Sound(r), r.now <= clock, clock' = clock
    PROVE  inv' \in [Invokers -> Invocations] /\ Invoked'
BY InvocationMoves DEF Invoked

\* With the seats untouched, a move that keeps its seat, or gives it up for lost, is accounted for.
LEMMA SeatsStand ==
    ASSUME LanesTyped, Seated, NEW i \in Invokers, NEW r \in Invocations, Move(i, r), UNCHANGED seats,
           inv[i].stranded = TRUE => r.stranded = TRUE,
           inv[i].seat = TRUE => \/ r.stranded = TRUE
                                 \/ r.seat = TRUE /\ r.cands[r.at] = Lane(i)
    PROVE  Seated'
<1>1. inv'[i] = r /\ \A j \in Invokers : j # i => inv'[j] = inv[j]
  BY InvocationMoves
<1> SUFFICES ASSUME NEW l \in Leased, seats[l] # NoSeat
             PROVE  \/ inv'[seats[l].by].stranded = TRUE
                    \/ inv'[seats[l].by].seat = TRUE /\ Lane(seats[l].by)' = l
  BY DEF Seated, Free
<1>2. seats[l].by \in Invokers
  BY DEF LanesTyped
<1>3. \/ inv[seats[l].by].stranded = TRUE
      \/ inv[seats[l].by].seat = TRUE /\ Lane(seats[l].by) = l
  BY DEF Seated, Free
<1>4. CASE seats[l].by = i
  BY <1>1, <1>3, <1>4 DEF Lane
<1>5. CASE seats[l].by # i
  BY <1>1, <1>2, <1>3, <1>5 DEF Lane
<1> QED BY <1>4, <1>5

-----------------------------------------------------------------------------
(* One write of the marks.                                                   *)

Marks == [until : 0..LastTick + 2, observed : 0..LastTick, probe : 0..LastTick]

\* A write keeps a mark or drops it, and drops none whose reset is to come.
Trims(f, g) ==
    /\ g \in [LaneSet -> Marks]
    /\ \A l \in LaneSet : /\ g[l] = f[l] \/ (g[l] = NoMark /\ f[l].until <= clock)

\* The empty mark is a mark.
LEMMA NoMarkIsMark == NoMark \in Marks
BY Bounds DEF NoMark, Marks

\* Pruning drops only the marks whose reset has come.
LEMMA PruningTrims ==
    ASSUME NEW f \in [LaneSet -> Marks]
    PROVE  Trims(f, Pruned(f))
BY NoMarkIsMark DEF Trims, Pruned

\* The lane an invocation is at is a configured one.
LEMMA LaneIsConfigured ==
    ASSUME LanesTyped, NEW i \in Invokers, Sound(inv[i])
    PROVE  Lane(i) \in LaneSet
BY LanesOfChains DEF LanesTyped, Sound, Invocations, Lane

\* What a mark refers to is its later time.
LEMMA References ==
    ASSUME NEW mk \in Marks
    PROVE  /\ Reference(mk) \in Nat /\ mk.probe <= Reference(mk) /\ mk.observed <= Reference(mk)
           /\ mk.until \in Nat /\ mk.probe \in Nat /\ mk.observed \in Nat
BY Bounds DEF Reference, Marks

-----------------------------------------------------------------------------
(* The steps.                                                                *)

\* Initially, no seat is taken and every invocation is at its first lane.
LEMMA LanesStart == LanesInit => LanesInv
<1> SUFFICES ASSUME LanesInit PROVE LanesInv
  OBVIOUS
<1>1. clock = 1 /\ clock \in 1..LastTick /\ claims \in [LaneSet -> Nat] /\ \A l \in LaneSet : claims[l] = 0
  BY Bounds DEF LanesInit
<1>2. \A c \in Candidates : NewInv(c) \in Invocations /\ Sound(NewInv(c)) /\ NewInv(c).now = 0
  <2> SUFFICES ASSUME NEW c \in Candidates PROVE NewInv(c) \in Invocations /\ Sound(NewInv(c)) /\ NewInv(c).now = 0
    OBVIOUS
  <2>1. Len(c) \in Nat /\ Len(c) >= 1
    <3>1. Len(Chain) \in Nat /\ Len(Chain) # 0
      BY LanesAssumption, EmptySeq
    <3>2. \A l \in LaneSet : Len(<<l>>) = 1
      OBVIOUS
    <3> QED BY <3>1, <3>2 DEF Candidates
  <2>2. NewInv(c) \in Invocations
    BY Bounds DEF NewInv, Invocations
  <2> QED BY <2>1, <2>2 DEF NewInv, Sound
<1>3. inv \in [Invokers -> Invocations] /\ Invoked
  <2>1. Unasked \in Invocations /\ Sound(Unasked) /\ Unasked.now = 0
    <3> DEFINE n == NewInv(Chain)
    <3>1. Chain \in Candidates /\ n \in Invocations /\ Sound(n) /\ n.now = 0
      BY <1>2 DEF Candidates
    <3>2. n.pc = "check" /\ n.out = 0 /\ n.at = 1 /\ n.cands = Chain /\ n.seat = FALSE
      BY DEF NewInv
    <3>3. Unasked = [n EXCEPT !.pc = "over", !.end = "cancelled"]
      BY DEF Unasked
    <3> HIDE DEF n
    <3>4. /\ Unasked \in Invocations /\ Unasked.pc = "over" /\ Unasked.end = "cancelled" /\ Unasked.now = 0
          /\ Unasked.out = 0 /\ Unasked.at = 1 /\ Unasked.cands = Chain /\ Unasked.seat = FALSE
      BY <3>1, <3>2, <3>3 DEF Invocations, Ends
    <3>5. 1 \in 1..Len(Chain) /\ Len(Chain) # 0
      BY <3>1, <3>2 DEF Sound
    <3> QED BY <3>4, <3>5 DEF Sound
  <2>2. inv \in [Invokers -> {NewInv(c) : c \in Candidates} \cup {Unasked}]
    BY DEF LanesInit
  <2>3. \A i \in Invokers : inv[i] \in Invocations /\ Sound(inv[i]) /\ inv[i].now = 0
    BY <1>2, <2>1, <2>2
  <2>4. inv \in [Invokers -> Invocations]
    BY <2>2, <2>3
  <2> QED BY <1>1, <2>3, <2>4 DEF Invoked
<1>4. marks \in [LaneSet -> Marks]
  <2>1. EarlierMarks \subseteq Marks
    <3>1. {1, LastTick + 1} \subseteq 0..LastTick + 2 /\ {0, 1} \subseteq 0..LastTick /\ {0} \subseteq 0..LastTick
      BY Bounds
    <3> QED BY <3>1 DEF EarlierMarks, Marks
  <2> QED BY <2>1, NoMarkIsMark DEF LanesInit
<1>5. seats \in [Leased -> {NoSeat} \union [by : Invokers, exp : 0..LastTick + Ttl]] /\ Seated
  BY DEF LanesInit, Seated, Free
<1>6. Probed
  BY <1>1, <1>4, References DEF Probed
<1> QED BY <1>1, <1>3, <1>4, <1>5, <1>6 DEF LanesInv, LanesTyped, Marks

\* Time passes, and leases run out.
LEMMA TickKeeps == LanesInv /\ LanesTick => LanesInv'
<1> SUFFICES ASSUME LanesInv, LanesTick PROVE LanesInv'
  OBVIOUS
<1>1. clock' = clock + 1 /\ clock' \in 1..LastTick /\ clock \in Nat
  BY Bounds DEF LanesInv, LanesTyped, LanesTick
<1>2. /\ seats' \in [Leased -> {NoSeat} \union [by : Invokers, exp : 0..LastTick + Ttl]]
      /\ \A l \in Leased : seats'[l] = seats[l] \/ seats'[l] = NoSeat
  BY DEF LanesInv, LanesTyped, LanesTick
<1>3. Seated'
  BY <1>2 DEF LanesInv, Seated, LanesTick, Free, Lane
<1>4. Invoked'
  <2>1. \A i \in Invokers : inv[i].now \in Nat
    BY Bounds DEF LanesInv, LanesTyped, Invocations
  <2> QED BY <1>1, <2>1 DEF LanesInv, Invoked, LanesTick, Sound
<1>5. Probed'
  <2>1. \A l \in LaneSet : claims[l] \in Nat
    BY DEF LanesInv, LanesTyped
  <2> QED BY <1>1, <2>1 DEF LanesInv, Probed, LanesTick, Reference
<1> QED BY <1>1, <1>2, <1>3, <1>4, <1>5 DEF LanesInv, LanesTyped, LanesTick

\* What a step leaves alone stays as it was.
LEMMA MarksStand == ASSUME Probed, UNCHANGED <<clock, marks, claims>> PROVE Probed'
BY DEF Probed, Reference

\* A step of one invocation that writes no mark and takes no seat.
Quiet(i, r) ==
    /\ r \in Invocations /\ Sound(r) /\ Move(i, r) /\ r.now <= clock
    /\ inv[i].stranded = TRUE => r.stranded = TRUE
    /\ inv[i].seat = TRUE => \/ r.stranded = TRUE
                             \/ r.seat = TRUE /\ r.cands[r.at] = Lane(i)
    /\ UNCHANGED <<clock, marks, seats, claims>>

\* A quiet step keeps the invariant.
LEMMA QuietKeeps == ASSUME LanesInv, NEW i \in Invokers, NEW r, Quiet(i, r) PROVE LanesInv'
<1>1. inv' \in [Invokers -> Invocations] /\ Invoked'
  BY StepIsSound DEF LanesInv, Quiet
<1>2. Seated'
  BY SeatsStand DEF LanesInv, Quiet
<1>3. Probed'
  BY MarksStand DEF LanesInv, Quiet
<1> QED BY <1>1, <1>2, <1>3 DEF LanesInv, LanesTyped, Quiet

\* What an invocation is known to be when it moves.
LEMMA Underway ==
    ASSUME LanesInv, NEW i \in Invokers
    PROVE  /\ inv[i] \in Invocations /\ Sound(inv[i]) /\ inv[i].now <= clock
           /\ clock \in 1..LastTick /\ clock \in Nat /\ Lane(i) = inv[i].cands[inv[i].at]
           /\ inv[i].now \in Nat /\ inv[i].now \in 0..LastTick /\ Lane(i) \in LaneSet
BY Bounds, LaneIsConfigured DEF LanesInv, LanesTyped, Invoked, Invocations, Lane

\* A turn that is over and hands on is a quiet step.
LEMMA HandsOnQuietly ==
    ASSUME LanesInv, NEW i \in Invokers, inv[i].pc \notin {"run", "release", "over"},
           NEW why \in {"ok", "out", "unavailable", "error"}, Move(i, Chained(i, why)),
           UNCHANGED <<clock, marks, seats, claims>>
    PROVE  Quiet(i, Chained(i, why))
<1>1. Passes(Chained(i, why), inv[i])
  BY ChainedPasses DEF LanesInv, Invoked
<1>2. inv[i].seat # TRUE
  BY Underway DEF Sound
<1> DEFINE c == Chained(i, why)
<1>3. /\ c \in Invocations /\ Sound(c) /\ c.now = 0 /\ c.stranded = inv[i].stranded /\ Move(i, c)
  BY <1>1 DEF Passes
<1> HIDE DEF c
<1>4. c.now <= clock
  BY <1>3, Underway
<1>5. Quiet(i, c)
  BY <1>2, <1>3, <1>4 DEF Quiet
<1> QED BY <1>5 DEF c

\* A step is cancelled.
LEMMA InterruptKeeps == ASSUME LanesInv, NEW i \in Invokers, Interrupt(i) PROVE LanesInv'
<1> DEFINE r == [inv[i] EXCEPT !.cancelled = TRUE]
<1>1. r \in Invocations
  BY Underway DEF Invocations
<1>2. /\ r.pc = inv[i].pc /\ r.cands = inv[i].cands /\ r.at = inv[i].at /\ r.now = inv[i].now /\ r.seat = inv[i].seat
      /\ r.out = inv[i].out /\ r.end = inv[i].end /\ r.why = inv[i].why /\ r.stranded = inv[i].stranded
  BY Underway DEF Invocations
<1>3. Move(i, r) /\ UNCHANGED <<clock, marks, seats, claims>>
  BY DEF Interrupt
<1> HIDE DEF r
<1>4. Sound(r)
  BY <1>2, Underway DEF Sound
<1>5. Quiet(i, r)
  BY <1>1, <1>2, <1>3, <1>4, Underway DEF Quiet
<1> QED BY <1>5, QuietKeeps

\* The mark of a lane is read.
LEMMA CheckKeeps == ASSUME LanesInv, NEW i \in Invokers, CheckLane(i) PROVE LanesInv'
<1> DEFINE l == Lane(i)
           r == [inv[i] EXCEPT !.started = clock]
           turn == [r EXCEPT !.pc = TurnPc(l)]
           claim == [r EXCEPT !.pc = "claim", !.now = clock]
<1>1. /\ inv[i].pc = "check" /\ UNCHANGED <<clock, marks, seats, claims>>
      /\ Move(i, turn) \/ Move(i, Chained(i, "out")) \/ Move(i, claim)
  BY DEF CheckLane, At
<1>2. inv[i].seat # TRUE
  BY <1>1, Underway DEF Sound
<1>3. /\ r \in Invocations /\ r.cands = inv[i].cands /\ r.at = inv[i].at /\ r.now = inv[i].now /\ r.seat = inv[i].seat
      /\ r.out = inv[i].out /\ r.stranded = inv[i].stranded
  <2>1. clock \in 0..LastTick
    BY Underway, Bounds
  <2> QED BY <2>1, Underway DEF Invocations
<1> HIDE DEF r
<1>4. CASE Move(i, turn)
  <2>1. TurnPc(l) \in {"acquire", "run"} /\ (TurnPc(l) = "acquire" => l \in Leased)
    BY DEF TurnPc
  <2> DEFINE pc == TurnPc(l)
  <2> HIDE DEF pc
  <2>2. /\ turn \in Invocations /\ turn.pc = pc /\ turn.cands = r.cands /\ turn.at = r.at /\ turn.now = r.now
        /\ turn.seat = r.seat /\ turn.out = r.out /\ turn.stranded = r.stranded
    BY <1>3, <2>1 DEF Invocations, pc
  <2> HIDE DEF turn
  <2>3. Quiet(i, turn)
    BY <1>1, <1>2, <1>3, <1>4, <2>1, <2>2, Underway DEF Quiet, Sound, pc
  <2> QED BY <2>3, QuietKeeps
<1>5. CASE Move(i, Chained(i, "out"))
  BY <1>1, <1>5, HandsOnQuietly, QuietKeeps
<1>6. CASE Move(i, claim)
  <2>1. clock \in 0..LastTick /\ clock <= clock
    BY Underway, Bounds
  <2>2. /\ claim \in Invocations /\ claim.pc = "claim" /\ claim.cands = r.cands /\ claim.at = r.at /\ claim.now = clock
        /\ claim.seat = r.seat /\ claim.out = r.out /\ claim.stranded = r.stranded
    BY <1>3, <2>1 DEF Invocations
  <2> HIDE DEF claim
  <2>3. Quiet(i, claim)
    BY <1>1, <1>2, <1>3, <1>6, <2>1, <2>2, Underway DEF Quiet, Sound
  <2> QED BY <2>3, QuietKeeps
<1> QED BY <1>1, <1>4, <1>5, <1>6

\* The turn itself.
LEMMA TurnKeeps == ASSUME LanesInv, NEW i \in Invokers, AgentTurn(i) PROVE LanesInv'
<1> DEFINE ends(pc, e) == [inv[i] EXCEPT !.pc = pc, !.why = e]
<1>1. inv[i].pc = "run" /\ UNCHANGED <<clock, marks, seats, claims>>
  BY DEF AgentTurn, At
<1>2. PICK e \in TurnEnds : \/ Lane(i) \in Leased /\ Move(i, ends("release", e))
                            \/ Lane(i) \notin Leased /\ Move(i, ends("judge", e))
  BY DEF AgentTurn
<1>3. ASSUME NEW pc \in {"release", "judge"}, Move(i, ends(pc, e)),
             (pc = "release") = (Lane(i) \in Leased)
      PROVE  LanesInv'
  <2> DEFINE r == ends(pc, e)
  <2>1. /\ r \in Invocations /\ r.pc = pc /\ r.cands = inv[i].cands /\ r.at = inv[i].at /\ r.why = e
        /\ r.now = inv[i].now /\ r.seat = inv[i].seat /\ r.out = inv[i].out /\ r.stranded = inv[i].stranded
    BY Underway DEF Invocations
  <2> HIDE DEF r
  <2>2. inv[i].seat = TRUE => pc = "release"
    BY <1>1, <1>3, Underway DEF Sound
  <2>3. Quiet(i, r)
    BY <1>1, <1>3, <2>1, <2>2, Underway DEF Quiet, Sound, r
  <2> QED BY <2>3, QuietKeeps
<1> HIDE DEF ends
<1>4. CASE Lane(i) \in Leased /\ Move(i, ends("release", e))
  BY <1>3, <1>4
<1>5. CASE Lane(i) \notin Leased /\ Move(i, ends("judge", e))
  BY <1>3, <1>5
<1> QED BY <1>2, <1>4, <1>5

-----------------------------------------------------------------------------
(* The steps that take or give back a seat.                                  *)

\* Acquire: the lane's seat is taken and kept, taken and lost, or refused.
LEMMA AcquireKeeps == ASSUME LanesInv, NEW i \in Invokers, AcquireSeat(i) PROVE LanesInv'
<1> DEFINE l == Lane(i)
           taken == [seats EXCEPT ![l] = [by |-> i, exp |-> clock + Ttl]]
           r == [inv[i] EXCEPT !.seat = TRUE]
<1>1. /\ inv[i].pc = "acquire" /\ UNCHANGED <<clock, marks, claims>> /\ l \in Leased
      /\ \/ seats' = taken /\ \E q \in BoundHome(r) : Move(i, q)
         \/ \E took \in BOOLEAN, why \in {"unavailable", "error"} :
               /\ took => Free(l)
               /\ seats' = IF took THEN taken ELSE seats
               /\ Move(i, [Chained(i, why) EXCEPT !.stranded = @ \/ took])
  BY Underway DEF AcquireSeat, At, Sound
<1>2. inv[i].seat # TRUE
  BY <1>1, Underway DEF Sound
<1>3. /\ taken \in [Leased -> {NoSeat} \union [by : Invokers, exp : 0..LastTick + Ttl]]
      /\ taken[l].by = i /\ \A k \in Leased : k # l => taken[k] = seats[k]
  <2>1. clock + Ttl \in 0..LastTick + Ttl
    BY Underway, Bounds
  <2> DEFINE e == clock + Ttl
  <2> HIDE DEF e, l
  <2> QED BY <1>1, <2>1 DEF LanesInv, LanesTyped, e
\* Whoever now has the seat, by the state it is in.
<1>4. ASSUME NEW q \in Invocations, Sound(q), q.now <= clock, Move(i, q),
             inv[i].stranded = TRUE => q.stranded = TRUE,
             \/ seats' = taken /\ (q.stranded = TRUE \/ (q.seat = TRUE /\ q.cands[q.at] = l))
             \/ seats' = seats
      PROVE  LanesInv'
  <2>1. inv' \in [Invokers -> Invocations] /\ Invoked' /\ Probed'
    BY <1>1, <1>4, StepIsSound, MarksStand DEF LanesInv
  <2>2. inv'[i] = q /\ \A j \in Invokers : j # i => inv'[j] = inv[j]
    BY <1>4, InvocationMoves DEF LanesInv
  <2>3. Seated'
    <3>1. CASE seats' = seats
      BY <1>2, <1>4, <3>1, SeatsStand DEF LanesInv
    <3>2. CASE seats' = taken
      <4> HIDE DEF taken
      <4> SUFFICES ASSUME NEW k \in Leased, seats'[k] # NoSeat
                   PROVE  \/ inv'[seats'[k].by].stranded = TRUE
                          \/ inv'[seats'[k].by].seat = TRUE /\ inv'[seats'[k].by].cands[inv'[seats'[k].by].at] = k
        BY DEF Seated, Free, Lane
      <4>1. CASE k = l
        <5>1. seats'[k].by = i
          BY <1>3, <3>2, <4>1
        <5>2. CASE q.stranded = TRUE
          BY <2>2, <5>1, <5>2
        <5>3. CASE seats' = seats /\ q.stranded # TRUE
          BY <1>2, <1>4, <5>1, <5>3, SeatsStand DEF LanesInv, Seated, Free, Lane
        <5>4. CASE q.seat = TRUE /\ q.cands[q.at] = l
          BY <2>2, <4>1, <5>1, <5>4 DEF Lane
        <5> QED BY <1>4, <5>2, <5>3, <5>4
      <4>2. CASE k # l
        <5>1. seats'[k] = seats[k]
          BY <1>3, <3>2, <4>2
        <5>2. \/ inv[seats[k].by].stranded = TRUE
              \/ inv[seats[k].by].seat = TRUE /\ Lane(seats[k].by) = k
          BY <5>1 DEF LanesInv, Seated, Free
        <5>3. seats[k].by \in Invokers
          BY <5>1 DEF LanesInv, LanesTyped
        <5>4. CASE seats[k].by = i
          BY <1>2, <1>4, <2>2, <5>1, <5>2, <5>4
        <5>5. CASE seats[k].by # i
          BY <2>2, <5>1, <5>2, <5>3, <5>5 DEF Lane
        <5> QED BY <5>4, <5>5
      <4> QED BY <4>1, <4>2
    <3> QED BY <1>4, <3>1, <3>2
  <2>4. seats' \in [Leased -> {NoSeat} \union [by : Invokers, exp : 0..LastTick + Ttl]]
    BY <1>3, <1>4 DEF LanesInv, LanesTyped
  <2> QED BY <1>1, <2>1, <2>3, <2>4 DEF LanesInv, LanesTyped
<1>5. CASE seats' = taken /\ \E q \in BoundHome(r) : Move(i, q)
  <2>1. PICK q \in BoundHome(r) : Move(i, q)
    BY <1>5
  <2>2. /\ r \in Invocations /\ r.cands = inv[i].cands /\ r.at = inv[i].at /\ r.now = inv[i].now /\ r.seat = TRUE
        /\ r.out = inv[i].out /\ r.stranded = inv[i].stranded
    <3>1. r \in Invocations
      BY Underway, Zenon DEF Invocations
    <3> QED BY <3>1, Underway DEF Invocations
  <2> HIDE DEF r
  <2>3. q = [r EXCEPT !.pc = "run"] \/ q = [r EXCEPT !.pc = "release", !.why = "error"]
    BY <2>1 DEF BoundHome
  <2>4. /\ q \in Invocations /\ q.cands = inv[i].cands /\ q.at = inv[i].at /\ q.now = inv[i].now /\ q.seat = TRUE
        /\ q.out = inv[i].out /\ q.stranded = inv[i].stranded /\ q.pc \in {"run", "release"}
        /\ (q.pc = "release" => q.why \in TurnEnds)
    BY <2>2, <2>3 DEF Invocations, TurnEnds
  <2>5. Sound(q)
    BY <1>1, <2>4, Underway DEF Sound
  <2>6. q.cands[q.at] = l
    BY <2>4, Underway
  <2> HIDE DEF l, taken
  <2> QED BY <1>4, <1>5, <2>1, <2>4, <2>5, <2>6, Underway
<1>6. ASSUME NEW took \in BOOLEAN, NEW why \in {"unavailable", "error"},
             seats' = IF took THEN taken ELSE seats,
             Move(i, [Chained(i, why) EXCEPT !.stranded = @ \/ took])
      PROVE  LanesInv'
  <2> DEFINE c == Chained(i, why)
             q == [c EXCEPT !.stranded = @ \/ took]
  <2>1. /\ c \in Invocations /\ Sound(c) /\ c.now = 0 /\ c.stranded = inv[i].stranded
        /\ c.pc \in {"check", "over"}
    BY <1>1, ChainedPasses, Underway DEF LanesInv, Passes
  <2> HIDE DEF c
  <2>2. /\ q \in Invocations /\ (c.stranded = TRUE => q.stranded = TRUE) /\ (took = TRUE => q.stranded = TRUE)
    <3>1. c.stranded \in BOOLEAN /\ (c.stranded \/ took) \in BOOLEAN
      BY <2>1 DEF Invocations
    <3> DEFINE b == c.stranded \/ took
    <3>2. q = [c EXCEPT !.stranded = b]
      OBVIOUS
    <3>3. (c.stranded = TRUE => b = TRUE) /\ (took = TRUE => b = TRUE)
      BY <3>1
    <3> HIDE DEF b, q
    <3>4. b \in BOOLEAN
      BY <3>1 DEF b
    <3>5. [c EXCEPT !.stranded = b] \in Invocations /\ [c EXCEPT !.stranded = b].stranded = b
      BY <2>1, <3>4, Zenon DEF Invocations
    <3> QED BY <3>2, <3>3, <3>5
  <2>3. /\ q.pc = c.pc /\ q.cands = c.cands /\ q.at = c.at /\ q.now = c.now /\ q.seat = c.seat
        /\ q.out = c.out /\ q.end = c.end /\ q.why = c.why
    BY <2>1 DEF Invocations
  <2>4. Move(i, q)
    BY <1>6 DEF c
  <2> HIDE DEF q
  <2>5. Sound(q)
    BY <2>1, <2>3 DEF Sound
  <2>6. q.now <= clock
    BY <2>1, <2>3, Underway
  <2> HIDE DEF taken, l
  <2>7. inv[i].stranded = TRUE => q.stranded = TRUE
    BY <2>1, <2>2
  <2>8. CASE took = TRUE
    <3>1. seats' = taken /\ q.stranded = TRUE
      BY <1>6, <2>2, <2>8
    <3> QED BY <1>4, <2>2, <2>4, <2>5, <2>6, <2>7, <3>1
  <2>9. CASE took = FALSE
    <3>1. seats' = seats
      BY <1>6, <2>9
    <3> QED BY <1>4, <2>2, <2>4, <2>5, <2>6, <2>7, <3>1
  <2> QED BY <2>8, <2>9
<1> HIDE DEF taken, l, r
<1> QED BY <1>1, <1>5, <1>6

\* The seat is given back, or given up for lost.
LEMMA ReleaseKeeps == ASSUME LanesInv, NEW i \in Invokers, ReleaseSeat(i) PROVE LanesInv'
<1> DEFINE l == Lane(i)
           freed == IF seats[l].by = i THEN [seats EXCEPT ![l] = NoSeat] ELSE seats
           back == [inv[i] EXCEPT !.seat = FALSE, !.pc = "judge"]
           why == IF inv[i].why = "ok" THEN "error" ELSE inv[i].why
           lost == [inv[i] EXCEPT !.seat = FALSE, !.stranded = TRUE, !.pc = "judge", !.why = why]
<1>1. /\ inv[i].pc = "release" /\ UNCHANGED <<clock, marks, claims>> /\ l \in Leased
      /\ \/ seats' = freed /\ Move(i, back)
         \/ seats' = seats /\ Move(i, lost)
  BY Underway DEF ReleaseSeat, At, Sound
<1>2. CASE seats' = freed /\ Move(i, back)
  <2>1. [inv[i] EXCEPT !.seat = FALSE] \in Invocations
    BY Underway, Zenon DEF Invocations
  <2> DEFINE c == [inv[i] EXCEPT !.seat = FALSE]
  <2>2. back = [c EXCEPT !.pc = "judge"]
    BY Underway DEF Invocations
  <2>3. /\ c.cands = inv[i].cands /\ c.at = inv[i].at /\ c.now = inv[i].now /\ c.seat = FALSE
        /\ c.out = inv[i].out /\ c.stranded = inv[i].stranded
    BY Underway DEF Invocations
  <2> HIDE DEF c, back
  <2>4. /\ back \in Invocations /\ back.pc = "judge" /\ back.cands = inv[i].cands /\ back.at = inv[i].at
        /\ back.now = inv[i].now /\ back.seat = FALSE /\ back.out = inv[i].out /\ back.stranded = inv[i].stranded
    BY <2>1, <2>2, <2>3 DEF Invocations, c
  <2>5. Sound(back)
    BY <1>1, <2>4, Underway DEF Sound
  <2>6. inv' \in [Invokers -> Invocations] /\ Invoked' /\ Probed'
    BY <1>1, <1>2, <2>4, <2>5, Underway, StepIsSound, MarksStand DEF LanesInv
  <2>7. inv'[i] = back /\ \A j \in Invokers : j # i => inv'[j] = inv[j]
    BY <1>2, <2>4, InvocationMoves DEF LanesInv
  <2>8. /\ freed \in [Leased -> {NoSeat} \union [by : Invokers, exp : 0..LastTick + Ttl]]
        /\ \A k \in Leased : freed[k] = NoSeat \/ (freed[k] = seats[k] /\ (k = l => seats[k].by # i))
    <3> HIDE DEF l
    <3> QED BY <1>1 DEF LanesInv, LanesTyped
  <2> HIDE DEF freed
  <2>9. Seated'
    <3> SUFFICES ASSUME NEW k \in Leased, seats'[k] # NoSeat
                 PROVE  \/ inv'[seats'[k].by].stranded = TRUE
                        \/ inv'[seats'[k].by].seat = TRUE /\ inv'[seats'[k].by].cands[inv'[seats'[k].by].at] = k
      BY DEF Seated, Free, Lane
    <3>1. seats'[k] = seats[k] /\ seats[k] # NoSeat /\ (k = l => seats[k].by # i)
      BY <1>2, <2>8
    <3>2. seats[k].by \in Invokers
      BY <3>1 DEF LanesInv, LanesTyped
    <3>3. \/ inv[seats[k].by].stranded = TRUE
          \/ inv[seats[k].by].seat = TRUE /\ Lane(seats[k].by) = k
      BY <3>1 DEF LanesInv, Seated, Free
    <3>4. CASE seats[k].by = i
      BY <2>4, <2>7, <3>1, <3>3, <3>4
    <3>5. CASE seats[k].by # i
      BY <2>7, <3>1, <3>2, <3>3, <3>5 DEF Lane
    <3> QED BY <3>4, <3>5
  <2> QED BY <1>1, <1>2, <2>6, <2>8, <2>9 DEF LanesInv, LanesTyped
<1>3. CASE seats' = seats /\ Move(i, lost)
  <2> DEFINE c == [inv[i] EXCEPT !.seat = FALSE]
             d == [c EXCEPT !.stranded = TRUE]
  <2>1. c \in Invocations
    BY Underway, Zenon DEF Invocations
  <2>2. /\ c.cands = inv[i].cands /\ c.at = inv[i].at /\ c.now = inv[i].now /\ c.seat = FALSE /\ c.out = inv[i].out
    BY Underway DEF Invocations
  <2>3. lost = [d EXCEPT !.pc = "judge", !.why = why]
    BY Underway DEF Invocations
  <2>4. why \in TurnEnds
    BY <1>1, Underway DEF Sound, TurnEnds
  <2> HIDE DEF c, why, lost
  <2>5. d \in Invocations
    BY <2>1, Zenon DEF Invocations
  <2>6. /\ d.cands = inv[i].cands /\ d.at = inv[i].at /\ d.now = inv[i].now /\ d.seat = FALSE /\ d.out = inv[i].out
        /\ d.stranded = TRUE
    BY <2>1, <2>2 DEF Invocations
  <2> HIDE DEF d
  <2>7. /\ lost \in Invocations /\ lost.pc = "judge" /\ lost.cands = inv[i].cands /\ lost.at = inv[i].at
        /\ lost.now = inv[i].now /\ lost.seat = FALSE /\ lost.out = inv[i].out /\ lost.stranded = TRUE
    BY <2>3, <2>4, <2>5, <2>6 DEF Invocations
  <2>8. Sound(lost)
    BY <1>1, <2>7, Underway DEF Sound
  <2>9. Quiet(i, lost)
    BY <1>1, <1>3, <2>7, <2>8, Underway DEF Quiet
  <2> QED BY <2>9, QuietKeeps
<1> HIDE DEF freed, back, lost
<1> QED BY <1>1, <1>2, <1>3

-----------------------------------------------------------------------------
(* The steps that write a mark.                                              *)

\* A step of an invocation without a seat that writes marks no older than the probes through them.
LEMMA WriterKeeps ==
    ASSUME LanesInv, NEW i \in Invokers, NEW r \in Invocations, Sound(r), Move(i, r), r.now <= clock,
           inv[i].stranded = TRUE => r.stranded = TRUE, inv[i].seat # TRUE, UNCHANGED <<clock, seats>>,
           marks' \in [LaneSet -> Marks], claims' \in [LaneSet -> Nat],
           \A l \in LaneSet : /\ claims'[l] <= clock
                              /\ marks'[l] = NoMark \/ claims'[l] <= Reference(marks'[l])
    PROVE  LanesInv'
<1>1. inv' \in [Invokers -> Invocations] /\ Invoked'
  BY StepIsSound DEF LanesInv
<1>2. Seated'
  BY SeatsStand DEF LanesInv
<1>3. Probed'
  BY DEF Probed, Reference
<1> QED BY <1>1, <1>2, <1>3 DEF LanesInv, LanesTyped, Marks

\* What a claim decides.
LEMMA Decisions ==
    ASSUME NEW mk \in Marks, NEW now \in Nat
    PROVE  /\ ProbeDecision(mk, now) = "probe" => mk.until > now /\ Reference(mk) + Probe <= now
           /\ ProbeDecision(mk, now) = "start" => mk.until > now /\ Reference(mk) = 0
BY References, Bounds DEF ProbeDecision

\* The probe of a lane is claimed, its clock started, or the lane skipped.
LEMMA ClaimKeeps == ASSUME LanesInv, NEW i \in Invokers, ClaimProbe(i) PROVE LanesInv'
<1> DEFINE l == Lane(i)
           now == inv[i].now
           d == ProbeDecision(marks[l], now)
           dated == [marks EXCEPT ![l].probe = now]
           written == Pruned(dated)
           turn == [inv[i] EXCEPT !.pc = TurnPc(l)]
<1>1. /\ inv[i].pc = "claim" /\ UNCHANGED <<clock, seats>>
      /\ \/ /\ d = "probe" /\ marks' = written /\ claims' = [claims EXCEPT ![l] = now] /\ Move(i, turn)
         \/ /\ Move(i, Chained(i, "out")) /\ claims' = claims
            /\ marks' = marks \/ (d = "start" /\ marks' = written)
  BY DEF ClaimProbe, At
<1>2. /\ inv[i].seat # TRUE /\ now \in 0..LastTick /\ now \in Nat /\ now <= clock /\ l \in LaneSet
      /\ clock \in Nat /\ marks \in [LaneSet -> Marks] /\ claims \in [LaneSet -> Nat]
      /\ \A k \in LaneSet : claims[k] <= clock /\ (marks[k] = NoMark \/ claims[k] <= Reference(marks[k]))
  <2>1. now \in 0..LastTick
    BY Underway DEF Invocations
  <2> QED BY <1>1, <2>1, Underway DEF Sound, LanesInv, LanesTyped, Marks, Probed
<1> HIDE DEF l, now
<1>3. /\ dated \in [LaneSet -> Marks] /\ \A k \in LaneSet : k # l => dated[k] = marks[k]
      /\ \/ Reference(dated[l]) >= now /\ Reference(dated[l]) >= Reference(marks[l])
         \/ Reference(marks[l]) > now
  <2>1. /\ dated \in [LaneSet -> Marks] /\ \A k \in LaneSet : k # l => dated[k] = marks[k]
        /\ dated[l].probe = now /\ dated[l].observed = marks[l].observed
    BY <1>2 DEF Marks
  <2>2. marks[l] \in Marks /\ dated[l] \in Marks
    BY <1>2, <2>1
  <2>3. marks[l].probe \in Nat /\ marks[l].observed \in Nat
    BY <2>2, References
  <2> QED BY <1>2, <2>1, <2>3 DEF Reference
<1>4. Trims(dated, written) /\ written \in [LaneSet -> Marks]
  BY <1>3, PruningTrims DEF Trims
<1>5. marks[l] \in Marks /\ Reference(marks[l]) \in Nat /\ claims[l] \in Nat /\ claims[l] <= clock
  BY <1>2, References
<1> HIDE DEF d, dated, written
<1>6. CASE d = "probe" /\ marks' = written /\ claims' = [claims EXCEPT ![l] = now] /\ Move(i, turn)
  <2>1. Reference(marks[l]) + Probe <= now
    BY <1>2, <1>5, <1>6, Decisions DEF d
  <2>2. Reference(dated[l]) >= now
    BY <1>2, <1>3, <1>5, <2>1, Bounds
  <2>3. TurnPc(l) \in {"acquire", "run"} /\ (TurnPc(l) = "acquire" => l \in Leased)
    BY DEF TurnPc
  <2> DEFINE pc == TurnPc(l)
  <2> HIDE DEF pc
  <2>4. /\ turn \in Invocations /\ turn.pc = pc /\ turn.cands = inv[i].cands /\ turn.at = inv[i].at
        /\ turn.now = inv[i].now /\ turn.seat = inv[i].seat /\ turn.out = inv[i].out
        /\ turn.stranded = inv[i].stranded
    BY <2>3, Underway DEF Invocations, pc
  <2> HIDE DEF turn
  <2>5. Sound(turn)
    BY <1>1, <2>3, <2>4, Underway DEF Sound, pc, l
  <2>6. claims' \in [LaneSet -> Nat]
    BY <1>2, <1>6
  <2>7. \A k \in LaneSet : claims'[k] <= clock /\ (marks'[k] = NoMark \/ claims'[k] <= Reference(marks'[k]))
    <3> SUFFICES ASSUME NEW k \in LaneSet
                 PROVE  claims'[k] <= clock /\ (marks'[k] = NoMark \/ claims'[k] <= Reference(marks'[k]))
      OBVIOUS
    <3>1. marks'[k] = dated[k] \/ marks'[k] = NoMark
      BY <1>4, <1>6 DEF Trims
    <3>2. CASE k = l
      <4>1. claims'[k] = now
        BY <1>2, <1>6, <3>2
      <4>2. Reference(dated[l]) \in Nat
        BY <1>2, <1>3, References
      <4> QED BY <1>2, <2>2, <3>1, <3>2, <4>1, <4>2
    <3>3. CASE k # l
      <4>1. claims'[k] = claims[k]
        BY <1>2, <1>6, <3>3
      <4> QED BY <1>2, <1>3, <3>1, <3>3, <4>1
    <3> QED BY <3>2, <3>3
  <2> QED BY <1>1, <1>2, <1>4, <1>6, <2>4, <2>5, <2>6, <2>7, Underway, WriterKeeps
<1>7. CASE /\ Move(i, Chained(i, "out")) /\ claims' = claims
           /\ marks' = marks \/ (d = "start" /\ marks' = written)
  <2> DEFINE c == Chained(i, "out")
  <2>1. /\ c \in Invocations /\ Sound(c) /\ c.now = 0 /\ c.stranded = inv[i].stranded
    BY <1>1, ChainedPasses, Underway DEF LanesInv, Passes
  <2> HIDE DEF c
  <2>2. marks' \in [LaneSet -> Marks]
    BY <1>2, <1>4, <1>7
  <2>3. \A k \in LaneSet : claims'[k] <= clock /\ (marks'[k] = NoMark \/ claims'[k] <= Reference(marks'[k]))
    <3>1. CASE marks' = marks
      BY <1>2, <1>7, <3>1
    <3>2. CASE d = "start" /\ marks' = written
      <4>1. Reference(marks[l]) = 0 /\ marks[l].until > now
        BY <1>2, <1>5, <3>2, Decisions DEF d
      <4>2. marks[l] # NoMark
        BY <1>2, <4>1 DEF NoMark
      <4>3. claims[l] = 0
        BY <1>2, <1>5, <4>1, <4>2
      <4>4. Reference(dated[l]) \in Nat
        BY <1>2, <1>3, References
      <4> SUFFICES ASSUME NEW k \in LaneSet
                   PROVE  claims[k] <= clock /\ (marks'[k] = NoMark \/ claims[k] <= Reference(marks'[k]))
        BY <1>7
      <4>5. marks'[k] = dated[k] \/ marks'[k] = NoMark
        BY <1>4, <3>2 DEF Trims
      <4>6. CASE k = l
        BY <1>5, <4>3, <4>4, <4>5, <4>6
      <4>7. CASE k # l
        BY <1>2, <1>3, <4>5, <4>7
      <4> QED BY <4>6, <4>7
    <3> QED BY <1>7, <3>1, <3>2
  <2>4. Move(i, c) /\ claims' \in [LaneSet -> Nat] /\ c.now <= clock
    BY <1>2, <1>7, <2>1 DEF c
  <2> QED BY <1>1, <1>2, <2>1, <2>2, <2>3, <2>4, WriterKeeps
<1> HIDE DEF turn
<1> QED BY <1>1, <1>6, <1>7

\* The turn's end is judged.
LEMMA JudgeKeeps == ASSUME LanesInv, NEW i \in Invokers, Judge(i) PROVE LanesInv'
<1> DEFINE clear == [inv[i] EXCEPT !.pc = "clear"]
           out == [inv[i] EXCEPT !.pc = "mark", !.now = clock]
<1>1. /\ inv[i].pc = "judge" /\ UNCHANGED <<clock, marks, seats, claims>>
      /\ \/ Move(i, clear) \/ Move(i, out)
         \/ \E why \in {"ok", "out", "unavailable", "error"} : Move(i, Chained(i, why))
  BY DEF Judge, At
<1>2. inv[i].seat # TRUE
  BY <1>1, Underway DEF Sound
<1>3. CASE Move(i, clear)
  <2>1. /\ clear \in Invocations /\ clear.pc = "clear" /\ clear.cands = inv[i].cands /\ clear.at = inv[i].at
        /\ clear.now = inv[i].now /\ clear.seat = inv[i].seat /\ clear.out = inv[i].out
        /\ clear.stranded = inv[i].stranded
    BY Underway DEF Invocations
  <2> HIDE DEF clear
  <2>2. Quiet(i, clear)
    BY <1>1, <1>2, <1>3, <2>1, Underway DEF Quiet, Sound
  <2> QED BY <2>2, QuietKeeps
<1>4. CASE \E why \in {"ok", "out", "unavailable", "error"} : Move(i, Chained(i, why))
  BY <1>1, <1>4, HandsOnQuietly, QuietKeeps
<1>5. CASE Move(i, out)
  <2>1. clock \in 0..LastTick /\ clock <= clock
    BY Underway, Bounds
  <2>2. /\ out \in Invocations /\ out.pc = "mark" /\ out.cands = inv[i].cands /\ out.at = inv[i].at
        /\ out.now = clock /\ out.seat = inv[i].seat /\ out.out = inv[i].out /\ out.stranded = inv[i].stranded
    BY <2>1, Underway DEF Invocations
  <2> HIDE DEF out
  <2>3. Quiet(i, out)
    BY <1>1, <1>2, <1>5, <2>1, <2>2, Underway DEF Quiet, Sound
  <2> QED BY <2>3, QuietKeeps
<1> QED BY <1>1, <1>3, <1>4, <1>5

\* What the mark of an outage read at one of the times is.
LEMMA NewMarks ==
    ASSUME NEW now \in 0..LastTick, NEW u \in Cooldowns
    PROVE  /\ [until |-> now + u, observed |-> now, probe |-> 0] \in Marks
           /\ Reference([until |-> now + u, observed |-> now, probe |-> 0]) = now
<1>1. now + u \in 0..LastTick + 2 /\ now \in Nat
  BY Bounds DEF Cooldowns
<1> QED BY <1>1, Bounds DEF Marks, Reference

\* The outage is written, maybe late, or the write fails; a probe claimed since it was read is forgotten.
LEMMA MarkKeeps == ASSUME LanesInv, NEW i \in Invokers, MarkLane(i) PROVE LanesInv'
<1> DEFINE l == Lane(i)
           now == inv[i].now
           new(u) == [until |-> now + u, observed |-> now, probe |-> 0]
           kept == IF claims[l] > now THEN [claims EXCEPT ![l] = 0] ELSE claims
           c == Chained(i, "out")
<1>1. /\ inv[i].pc = "mark" /\ UNCHANGED <<clock, seats>> /\ Move(i, c)
      /\ \/ UNCHANGED <<marks, claims>>
         \/ claims' = kept /\ \E u \in Cooldowns : marks' = Pruned([marks EXCEPT ![l] = new(u)])
  BY DEF MarkLane, At
<1>2. inv[i].seat # TRUE
  BY <1>1, Underway DEF Sound
<1>3. CASE UNCHANGED <<marks, claims>>
  BY <1>1, <1>3, HandsOnQuietly, QuietKeeps
<1>4. CASE claims' = kept /\ \E u \in Cooldowns : marks' = Pruned([marks EXCEPT ![l] = new(u)])
  <2>1. PICK u \in Cooldowns : marks' = Pruned([marks EXCEPT ![l] = new(u)])
    BY <1>4
  <2>2. /\ l \in LaneSet /\ clock \in Nat /\ now \in Nat /\ now <= clock
        /\ marks \in [LaneSet -> Marks] /\ claims \in [LaneSet -> Nat]
    BY Underway DEF Marks, LanesInv, LanesTyped
  <2>3. new(u) \in Marks /\ Reference(new(u)) = now
    BY Underway, NewMarks
  <2> DEFINE n == new(u)
             f == [marks EXCEPT ![l] = n]
  <2>4. marks' = Pruned(f) /\ n \in Marks /\ Reference(n) = now
    BY <2>1, <2>3
  <2>5. \A k \in LaneSet : claims[k] <= clock /\ (marks[k] = NoMark \/ claims[k] <= Reference(marks[k]))
    BY DEF LanesInv, Probed
  <2> HIDE DEF n, l, now
  <2>6. f \in [LaneSet -> Marks] /\ f[l] = n /\ \A k \in LaneSet : k # l => f[k] = marks[k]
    BY <2>2, <2>4
  <2> HIDE DEF f
  <2>7. Trims(f, marks') /\ marks' \in [LaneSet -> Marks]
    BY <2>4, <2>6, PruningTrims DEF Trims
  <2>8. kept \in [LaneSet -> Nat] /\ kept[l] <= now /\ kept[l] <= clock /\ \A k \in LaneSet : k # l => kept[k] = claims[k]
    BY <2>2
  <2> HIDE DEF kept
  <2>9. \A k \in LaneSet : claims'[k] <= clock /\ (marks'[k] = NoMark \/ claims'[k] <= Reference(marks'[k]))
    <3> SUFFICES ASSUME NEW k \in LaneSet
                 PROVE  kept[k] <= clock /\ (marks'[k] = NoMark \/ kept[k] <= Reference(marks'[k]))
      BY <1>4
    <3>1. marks'[k] = f[k] \/ marks'[k] = NoMark
      BY <2>7 DEF Trims
    <3>2. CASE k = l
      BY <2>4, <2>6, <2>8, <3>1, <3>2
    <3>3. CASE k # l
      BY <2>5, <2>6, <2>8, <3>1, <3>3
    <3> QED BY <3>2, <3>3
  <2>10. /\ c \in Invocations /\ Sound(c) /\ c.now = 0 /\ c.stranded = inv[i].stranded
    BY <1>1, ChainedPasses, Underway DEF LanesInv, Passes
  <2> HIDE DEF c
  <2>11. c.now <= clock /\ claims' \in [LaneSet -> Nat]
    BY <1>4, <2>2, <2>8, <2>10
  <2> QED BY <1>1, <1>2, <2>7, <2>9, <2>10, <2>11, WriterKeeps
<1> HIDE DEF c, kept
<1> QED BY <1>1, <1>3, <1>4

\* The mark is cleared, or found to be newer than the turn.
LEMMA ClearKeeps == ASSUME LanesInv, NEW i \in Invokers, ClearMark(i) PROVE LanesInv'
<1> DEFINE l == Lane(i)
           f == IF marks[l] # NoMark /\ marks[l].observed <= inv[i].started
                  THEN [marks EXCEPT ![l] = NoMark] ELSE marks
           c == Chained(i, "ok")
<1>1. inv[i].pc = "clear" /\ UNCHANGED <<clock, seats, claims>> /\ Move(i, c) /\ marks' = Pruned(f)
  BY DEF ClearMark, At
<1>2. inv[i].seat # TRUE /\ l \in LaneSet /\ clock \in Nat /\ marks \in [LaneSet -> Marks] /\ claims \in [LaneSet -> Nat]
  BY <1>1, Underway DEF Sound, LanesInv, LanesTyped, Marks
<1>3. /\ c \in Invocations /\ Sound(c) /\ c.now = 0 /\ c.stranded = inv[i].stranded
  BY <1>1, ChainedPasses, Underway DEF LanesInv, Passes
<1> HIDE DEF c, l
<1>4. f \in [LaneSet -> Marks] /\ \A k \in LaneSet : f[k] = marks[k] \/ f[k] = NoMark
  BY <1>2, NoMarkIsMark
<1> HIDE DEF f
<1>5. Trims(f, marks') /\ marks' \in [LaneSet -> Marks]
  BY <1>1, <1>4, PruningTrims DEF Trims
<1>6. \A k \in LaneSet : marks'[k] = marks[k] \/ marks'[k] = NoMark
  BY <1>4, <1>5 DEF Trims
<1>7. \A k \in LaneSet : claims[k] <= clock /\ (marks'[k] = NoMark \/ claims[k] <= Reference(marks'[k]))
  BY <1>6 DEF LanesInv, Probed
<1>8. c.now <= clock
  BY <1>2, <1>3
<1> QED BY <1>1, <1>2, <1>3, <1>5, <1>7, <1>8, WriterKeeps

-----------------------------------------------------------------------------
(* The theorems.                                                             *)

\* No step of an invocation and no tick breaks the invariant.
LEMMA LanesStepKeeps == LanesInv /\ [LanesNext]_lanesVars => LanesInv'
<1> SUFFICES ASSUME LanesInv, [LanesNext]_lanesVars PROVE LanesInv'
  OBVIOUS
<1>1. CASE LanesTick
  BY <1>1, TickKeeps
<1>2. ASSUME NEW i \in Invokers, Interrupt(i) PROVE LanesInv'
  BY <1>2, InterruptKeeps
<1>3. ASSUME NEW i \in Invokers, CheckLane(i) PROVE LanesInv'
  BY <1>3, CheckKeeps
<1>4. ASSUME NEW i \in Invokers, ClaimProbe(i) PROVE LanesInv'
  BY <1>4, ClaimKeeps
<1>5. ASSUME NEW i \in Invokers, AcquireSeat(i) PROVE LanesInv'
  BY <1>5, AcquireKeeps
<1>6. ASSUME NEW i \in Invokers, AgentTurn(i) PROVE LanesInv'
  BY <1>6, TurnKeeps
<1>7. ASSUME NEW i \in Invokers, ReleaseSeat(i) PROVE LanesInv'
  BY <1>7, ReleaseKeeps
<1>8. ASSUME NEW i \in Invokers, Judge(i) PROVE LanesInv'
  BY <1>8, JudgeKeeps
<1>9. ASSUME NEW i \in Invokers, ClearMark(i) PROVE LanesInv'
  BY <1>9, ClearKeeps
<1>10. ASSUME NEW i \in Invokers, MarkLane(i) PROVE LanesInv'
  BY <1>10, MarkKeeps
<1>11. CASE UNCHANGED lanesVars
  BY <1>11 DEF LanesInv, LanesTyped, Invoked, Seated, Probed, Free, Lane, Reference, Sound, lanesVars
<1> QED BY <1>1, <1>2, <1>3, <1>4, <1>5, <1>6, <1>7, <1>8, <1>9, <1>10, <1>11 DEF LanesNext

\* The inductive invariant: whatever the lanes, the invocations and the times.
THEOREM LanesInvHolds == LanesSpec => []LanesInv
<1>1. LanesInit => LanesInv
  BY LanesStart
<1>2. LanesInv /\ [LanesNext]_lanesVars => LanesInv'
  BY LanesStepKeeps
<1> QED BY <1>1, <1>2, PTL DEF LanesSpec

\* Every seat held is accounted for, and an outage falls through to the last
\* lane: an invocation says that every lane is out only when all were.
THEOREM LanesAreSafe == LanesSpec => []LanesSafe
<1>1. LanesInv => LanesSafe
  <2> SUFFICES ASSUME LanesInv PROVE LanesTypeOK /\ SeatsAccounted /\ OutageFallsThrough
    BY DEF LanesSafe
  <2>1. LanesTypeOK
    <3>1. seats \in [Leased -> [by : {0} \union Invokers, exp : 0..LastTick + Ttl]]
      <4>1. 0 \in 0..LastTick + Ttl
        BY Bounds
      <4>2. NoSeat \in [by : {0} \union Invokers, exp : 0..LastTick + Ttl]
        BY <4>1 DEF NoSeat
      <4>3. [by : Invokers, exp : 0..LastTick + Ttl] \subseteq [by : {0} \union Invokers, exp : 0..LastTick + Ttl]
        OBVIOUS
      <4> QED BY <4>2, <4>3 DEF LanesInv, LanesTyped
    <3>2. ASSUME NEW i \in Invokers PROVE inv[i].at \in 1..Len(inv[i].cands) /\ inv[i].out \in 0..inv[i].at
      <4>1. inv[i].at \in Nat /\ inv[i].out \in Nat /\ Sound(inv[i])
        BY Underway DEF Invocations
      <4> QED BY <4>1 DEF Sound
    <3> QED BY <3>1, <3>2 DEF LanesInv, LanesTyped, LanesTypeOK
  <2>2. SeatsAccounted
    <3> SUFFICES ASSUME NEW l \in Leased, ~Free(l)
                 PROVE  inv[seats[l].by].seat \/ inv[seats[l].by].stranded
      BY DEF SeatsAccounted
    <3> QED BY DEF LanesInv, Seated
  <2>3. OutageFallsThrough
    BY Underway DEF OutageFallsThrough, At, Sound
  <2> QED BY <2>1, <2>2, <2>3
<1> QED BY <1>1, LanesInvHolds, PTL

\* What a write of the marks keeps: a mark whose reset is to come, unless it was dropped before the pruning.
LEMMA PruningKeepsFresh ==
    ASSUME clock \in Nat, NEW f \in [LaneSet -> Marks], NEW g, Trims(f, g), NEW l \in LaneSet, f[l].until > clock
    PROVE  g[l] # NoMark
<1>1. f[l] # NoMark
  BY DEF NoMark
<1>2. f[l].until \in Nat
  BY References
<1> QED BY <1>1, <1>2 DEF Trims

\* A mark whose reset is to come is dropped by no step but a clearing that may, or an outage written late.
LEMMA FreshStep ==
    ASSUME LanesInv, [LanesNext]_lanesVars, NEW l \in LaneSet, marks[l].until > clock, marks'[l] = NoMark
    PROVE  \E i \in Invokers :
              /\ Lane(i) = l
              /\ \/ At(i, "clear") /\ inv'[i].pc # "clear" /\ inv[i].started >= marks[l].observed
                 \/ At(i, "mark") /\ inv'[i].pc # "mark" /\ inv[i].now < clock
<1>1. clock \in Nat /\ marks \in [LaneSet -> Marks] /\ marks[l] # NoMark
  BY Bounds DEF LanesInv, LanesTyped, Marks, NoMark
<1>2. marks' # marks
  BY <1>1
<1>3. ASSUME NEW i \in Invokers, ClaimProbe(i) PROVE FALSE
  <2> DEFINE f == [marks EXCEPT ![Lane(i)].probe = inv[i].now]
  <2>1. marks' = Pruned(f)
    BY <1>2, <1>3 DEF ClaimProbe
  <2>2. inv[i].now \in 0..LastTick /\ Lane(i) \in LaneSet
    BY Underway DEF Invocations
  <2>3. f \in [LaneSet -> Marks] /\ f[l].until = marks[l].until
    <3> DEFINE k == Lane(i)
               now == inv[i].now
    <3> HIDE DEF k, now
    <3> QED BY <1>1, <2>2 DEF Marks, k, now
  <2> HIDE DEF f
  <2> QED BY <1>1, <2>1, <2>3, PruningTrims, PruningKeepsFresh
<1>4. ASSUME NEW i \in Invokers, MarkLane(i)
      PROVE  At(i, "mark") /\ inv'[i].pc # "mark" /\ Lane(i) = l /\ inv[i].now < clock
  <2> DEFINE now == inv[i].now
             new(u) == [until |-> now + u, observed |-> now, probe |-> 0]
  <2>1. At(i, "mark") /\ Move(i, Chained(i, "out")) /\ \E u \in Cooldowns : marks' = Pruned([marks EXCEPT ![Lane(i)] = new(u)])
    BY <1>2, <1>4 DEF MarkLane
  <2>2. inv'[i].pc # "mark"
    <3>1. inv'[i] = Chained(i, "out")
      BY <2>1 DEF Move, LanesInv, LanesTyped
    <3>2. Passes(Chained(i, "out"), inv[i])
      BY <2>1, ChainedPasses, Underway DEF LanesInv, At
    <3> QED BY <3>1, <3>2 DEF Passes
  <2>3. PICK u \in Cooldowns : marks' = Pruned([marks EXCEPT ![Lane(i)] = new(u)])
    BY <2>1
  <2>4. Lane(i) \in LaneSet /\ now \in Nat /\ now <= clock /\ new(u) \in Marks
    BY Underway, NewMarks
  <2>5. new(u).until > now
    BY <2>4 DEF Cooldowns
  <2> DEFINE n == new(u)
             f == [marks EXCEPT ![Lane(i)] = n]
  <2>6. marks' = Pruned(f) /\ n \in Marks /\ n.until > now
    BY <2>3, <2>4, <2>5
  <2> HIDE DEF n
  <2>7. f \in [LaneSet -> Marks] /\ f[Lane(i)] = n /\ (l # Lane(i) => f[l] = marks[l])
    BY <1>1, <2>4, <2>6
  <2> HIDE DEF f, now
  <2>8. f[l].until <= clock
    BY <1>1, <2>6, <2>7, PruningTrims, PruningKeepsFresh, References
  <2>9. l = Lane(i)
    BY <1>1, <2>7, <2>8, References
  <2>10. now < clock
    <3>1. n.until <= clock /\ n.until \in Nat
      BY <2>6, <2>7, <2>8, <2>9, References
    <3> QED BY <1>1, <2>4, <2>6, <3>1
  <2> QED BY <2>1, <2>2, <2>9, <2>10 DEF now
<1>5. ASSUME NEW i \in Invokers, ClearMark(i)
      PROVE  /\ At(i, "clear") /\ inv'[i].pc # "clear"
             /\ Lane(i) = l /\ inv[i].started >= marks[l].observed
  <2>1. At(i, "clear") /\ Move(i, Chained(i, "ok"))
    BY <1>5 DEF ClearMark
  <2>2. inv'[i].pc # "clear"
    <3>1. inv'[i] = Chained(i, "ok")
      BY <2>1 DEF Move, LanesInv, LanesTyped
    <3>2. Passes(Chained(i, "ok"), inv[i])
      BY <2>1, ChainedPasses, Underway DEF LanesInv, At
    <3> QED BY <3>1, <3>2 DEF Passes
  <2> DEFINE mk == marks[Lane(i)]
  <2>3. CASE mk # NoMark /\ mk.observed <= inv[i].started
    <3> DEFINE f == [marks EXCEPT ![Lane(i)] = NoMark]
    <3>1. marks' = Pruned(f)
      BY <1>5, <2>3 DEF ClearMark
    <3>2. f \in [LaneSet -> Marks] /\ (l # Lane(i) => f[l] = marks[l])
      BY <1>1, NoMarkIsMark
    <3> HIDE DEF f
    <3>3. l = Lane(i)
      BY <1>1, <3>1, <3>2, PruningTrims, PruningKeepsFresh
    <3>4. inv[i].started \in Nat /\ marks[l].observed \in Nat
      <4>1. inv[i].started \in Nat
        BY Underway, Bounds DEF Invocations
      <4> QED BY <1>1, <4>1, References
    <3> QED BY <2>1, <2>2, <2>3, <3>3, <3>4
  <2>4. CASE ~(mk # NoMark /\ mk.observed <= inv[i].started)
    <3>1. marks' = Pruned(marks)
      BY <1>5, <2>4 DEF ClearMark
    <3> QED BY <1>1, <3>1, PruningTrims, PruningKeepsFresh
  <2> QED BY <2>3, <2>4
<1>6. \/ \E i \in Invokers : ClaimProbe(i)
      \/ \E i \in Invokers : MarkLane(i)
      \/ \E i \in Invokers : ClearMark(i)
  BY <1>2 DEF LanesNext, lanesVars, LanesTick, Interrupt, CheckLane, AcquireSeat, AgentTurn, ReleaseSeat, Judge
<1> QED BY <1>3, <1>4, <1>5, <1>6

\* A probe is claimed an interval after the last one through the mark.
LEMMA ProbeStep ==
    ASSUME LanesInv, [LanesNext]_lanesVars, NEW i \in Invokers,
           At(i, "claim"), inv'[i].pc = TurnPc(Lane(i)), claims[Lane(i)] # 0
    PROVE  inv[i].now >= claims[Lane(i)] + Probe
<1>1. inv[i].pc = "claim" /\ inv'[i].pc # "claim" /\ inv'[i].pc \notin {"check", "over"}
  BY DEF At, TurnPc
<1>2. ClaimProbe(i)
  <2>1. PICK j \in Invokers : \/ Interrupt(j) \/ CheckLane(j) \/ ClaimProbe(j) \/ AcquireSeat(j) \/ AgentTurn(j)
                              \/ ReleaseSeat(j) \/ Judge(j) \/ MarkLane(j) \/ ClearMark(j)
    BY <1>1 DEF LanesNext, lanesVars, LanesTick
  <2>2. \E r : Move(j, r)
    BY <2>1 DEF Interrupt, CheckLane, ClaimProbe, AcquireSeat, AgentTurn, ReleaseSeat, Judge, MarkLane, ClearMark
  <2>3. j = i
    BY <1>1, <2>2 DEF Move, LanesInv, LanesTyped
  <2>4. ClaimProbe(i) \/ Interrupt(i)
    BY <1>1, <2>1, <2>3 DEF CheckLane, AcquireSeat, AgentTurn, ReleaseSeat, Judge, MarkLane, ClearMark, At
  <2>5. ~Interrupt(i)
    BY <1>1, Underway DEF Interrupt, Move, Invocations, LanesInv, LanesTyped
  <2> QED BY <2>4, <2>5
<1>3. ~Move(i, Chained(i, "out"))
  <2>1. Passes(Chained(i, "out"), inv[i])
    BY <1>1, ChainedPasses, Underway DEF LanesInv
  <2>2. Chained(i, "out").pc \in {"check", "over"}
    BY <2>1 DEF Passes
  <2> QED BY <1>1, <2>2 DEF Move, LanesInv, LanesTyped
<1> DEFINE l == Lane(i)
           now == inv[i].now
<1>4. ProbeDecision(marks[l], now) = "probe"
  BY <1>2, <1>3 DEF ClaimProbe
<1>5. now \in Nat /\ l \in LaneSet /\ marks[l] \in Marks /\ claims[l] \in Nat
      /\ (marks[l] = NoMark \/ claims[l] <= Reference(marks[l]))
  BY Underway DEF LanesInv, LanesTyped, Marks, Probed
<1> HIDE DEF l, now
<1>6. marks[l].until > now /\ Reference(marks[l]) + Probe <= now /\ Reference(marks[l]) \in Nat
  BY <1>4, <1>5, Decisions, References
<1>7. marks[l] # NoMark
  BY <1>5, <1>6 DEF NoMark
<1> QED BY <1>5, <1>6, <1>7, Bounds DEF l, now

\* The marks move only as their times allow, though an outage is written after
\* a wait: one observed after a turn began outlives that turn's success, and
\* two probes of a lane are an interval apart however many invocations, of
\* however many daemons, ask, unless an outage read before the first one has
\* been written over it.
THEOREM MarksMoveSoundly == LanesSpec => MarksMove
<1> DEFINE Respected == \A l \in LaneSet :
                     (marks[l].until > clock /\ marks'[l] = NoMark) =>
                       \E i \in Invokers :
                          /\ Lane(i) = l
                          /\ \/ At(i, "clear") /\ inv'[i].pc # "clear" /\ inv[i].started >= marks[l].observed
                             \/ At(i, "mark") /\ inv'[i].pc # "mark" /\ inv[i].now < clock
           Spaced == \A i \in Invokers :
                       (At(i, "claim") /\ inv'[i].pc = TurnPc(Lane(i)) /\ claims[Lane(i)] # 0)
                         => inv[i].now >= claims[Lane(i)] + Probe
<1>1. LanesInv /\ [LanesNext]_lanesVars => Respected
  BY FreshStep
<1>2. LanesInv /\ [LanesNext]_lanesVars => Spaced
  BY ProbeStep
<1>3. LanesSpec => [][Respected]_lanesVars
  BY <1>1, LanesInvHolds, PTL DEF LanesSpec
<1>4. LanesSpec => [][Spaced]_lanesVars
  BY <1>2, LanesInvHolds, PTL DEF LanesSpec
<1> QED BY <1>3, <1>4 DEF MarksMove, FreshMarkKept, ProbesSpaced

-----------------------------------------------------------------------------
(* The fixer's session (AgentTurns).                                         *)

TurnRecords ==
    [pc : {"idle", "lane", "run", "over"}, session : Nat, had : Nat, again : BOOLEAN, durable : BOOLEAN,
     cands : Seq(Adapters), at : Nat, tries : Nat, cancelled : BOOLEAN,
     end : {"none", "ok", "failed", "cancelled", "lost"}]
HeardRecords ==
    [text : {"none", "answer", "prose"}, verdict : {"none", "good", "bad", "bare"}, sid : Nat, raw : Nat, n : Nat]

\* Every identity in use has been minted.
TurnsTyped ==
    /\ setup \in Setups /\ nMinted \in 0..MaxSessions /\ nTurns \in Nat
    /\ fixTurn \in TurnRecords /\ heard \in HeardRecords
    /\ mintedBy \in [Sessions -> Adapters]
    /\ spent \in [Sessions -> Nat] /\ lastRaw \in [Sessions -> Nat] /\ billed \in [Sessions -> Nat]
    /\ blank \subseteq Sessions /\ refused \subseteq 1..nMinted
    /\ fixerId \in 0..nMinted /\ fixerRow \in 0..nMinted /\ fixTurn.session \in 0..nMinted /\ heard.sid \in 0..nMinted

\* The lanes asked are the configured ones or the session's owner; the session
\* resumed is the one in memory until the turn gives it up.
Asking ==
    /\ fixTurn.at \in 1..Len(fixTurn.cands)
    /\ fixTurn.pc \in {"lane", "run"} =>
         /\ fixTurn.cands = LanesFor(fixTurn.session)
         /\ fixTurn.session # NoSession => fixTurn.session = fixerId
         /\ fixTurn.had # NoSession => fixTurn.again = TRUE \/ fixTurn.session # NoSession
    /\ fixTurn.end = "failed" => fixTurn.had = NoSession \/ fixTurn.again = TRUE

\* A session an attempt names is the one resumed or a new one, of its adapter.
Naming ==
    /\ fixTurn.pc # "run" => heard = Unheard
    /\ heard.sid # NoSession =>
         /\ mintedBy[heard.sid] = Adapter
         /\ heard.sid = fixTurn.session \/ (fixTurn.session = NoSession /\ heard.sid \notin refused)

\* A thread's counter runs from its latest row to what it has used; the
\* messages of the others add up.
Charging ==
    /\ heard.sid = NoSession => heard.raw = 0
    /\ \A s \in Sessions :
         /\ s > nMinted => lastRaw[s] = 0 /\ billed[s] = 0
         /\ mintedBy[s] = "codex" =>
              /\ lastRaw[s] <= spent[s] /\ lastRaw[s] <= billed[s]
              /\ s \notin blank => billed[s] = lastRaw[s]
              /\ heard.sid = s /\ heard.raw # 0 => lastRaw[s] <= heard.raw /\ heard.raw <= spent[s]
         /\ mintedBy[s] # "codex" /\ s \notin blank =>
              billed[s] + (IF heard.sid = s THEN heard.raw ELSE 0) <= spent[s]

TurnsInv == TurnsTyped /\ Asking /\ Naming /\ DeadIsDropped /\ Charging

-----------------------------------------------------------------------------
(* What an attempt, its row and its failure do to the session.               *)

LEMMA TurnBounds ==
    /\ MaxSessions \in Nat /\ MaxTurns \in Nat /\ NoSession = 0 /\ 0 \notin Sessions
    /\ \A n \in 0..MaxSessions : n # 0 => n \in Sessions
    /\ "acp" \in Adapters
BY TurnsAssumption DEF NoSession, Sessions, Adapters

\* There is a lane to ask: a configured one, or the session's owner.
LEMMA LanesToAsk ==
    ASSUME TurnsTyped, NEW s \in 0..nMinted
    PROVE  LanesFor(s) \in Seq(Adapters) /\ Len(LanesFor(s)) \in Nat \ {0}
           /\ (s # NoSession => Len(LanesFor(s)) = 1 /\ LanesFor(s)[1] = mintedBy[s])
<1>1. setup.lanes \in Seq(Adapters) /\ setup.lanes # <<>>
  BY TurnsAssumption DEF TurnsTyped
<1>2. Len(setup.lanes) \in Nat \ {0}
  BY <1>1, EmptySeq
<1>3. CASE s = NoSession
  BY <1>1, <1>2, <1>3 DEF LanesFor
<1>4. CASE s # NoSession
  <2>1. mintedBy[s] \in Adapters
    BY <1>4, TurnBounds DEF TurnsTyped
  <2> QED BY <1>4, <2>1 DEF LanesFor
<1> QED BY <1>3, <1>4

LEMMA TurnsAtRest == NoTurn \in TurnRecords /\ Unheard \in HeardRecords /\ NoTurn.at \in 1..Len(NoTurn.cands)
<1>1. <<"acp">> \in Seq(Adapters) /\ Len(<<"acp">>) = 1
  BY TurnBounds
<1> QED BY <1>1, TurnBounds DEF NoTurn, Unheard, TurnRecords, HeardRecords

\* The fields of a turn and of what was heard.
LEMMA TurnFields ==
    ASSUME TurnsTyped
    PROVE  /\ fixTurn.pc \in {"idle", "lane", "run", "over"} /\ fixTurn.had \in Nat /\ fixTurn.again \in BOOLEAN
           /\ fixTurn.cands \in Seq(Adapters) /\ fixTurn.at \in Nat /\ fixTurn.tries \in Nat
           /\ fixTurn.session \in Nat /\ heard.raw \in Nat /\ heard.sid \in Nat
           /\ fixTurn.durable \in BOOLEAN /\ fixTurn.cancelled \in BOOLEAN
BY DEF TurnsTyped, TurnRecords, HeardRecords

\* The adapter asked is the owner of a session that is resumed or named.
LEMMA OwnerAsked ==
    ASSUME TurnsInv, fixTurn.pc \in {"lane", "run"}
    PROVE  /\ fixTurn.session # NoSession => Adapter = mintedBy[fixTurn.session]
           /\ Adapter \in Adapters
<1>1. fixTurn.cands = LanesFor(fixTurn.session) /\ fixTurn.at \in 1..Len(fixTurn.cands)
  BY DEF TurnsInv, Asking
<1>2. TurnsTyped /\ fixTurn.session \in 0..nMinted
  BY DEF TurnsInv, TurnsTyped
<1>3. fixTurn.cands \in Seq(Adapters)
  BY <1>2, TurnFields
<1>4. Adapter \in Adapters
  BY <1>1, <1>3 DEF Adapter
<1>5. CASE fixTurn.session # NoSession
  BY <1>1, <1>2, <1>5, LanesToAsk DEF Adapter
<1> QED BY <1>4, <1>5

\* A row charges its session with what is new.
LEMMA RowCharges ==
    ASSUME TurnsInv, fixTurn.pc \in {"lane", "run"}, NEW a \in BOOLEAN, RecordAttempt(a),
           fixTurn.pc = "lane" => a = FALSE,
           UNCHANGED <<nMinted, mintedBy, spent>>, heard' = Unheard
    PROVE  /\ Charging' /\ blank' \subseteq Sessions
           /\ lastRaw' \in [Sessions -> Nat] /\ billed' \in [Sessions -> Nat]
<1> DEFINE key == RowKey(a)
           raw == IF a THEN heard.raw ELSE 0
           due == PerRoundTokens(raw, lastRaw[key], Adapter = "codex")
<1>1. TurnsTyped /\ Charging /\ Naming
  BY DEF TurnsInv
<1>2. heard'.sid = NoSession /\ heard'.raw = 0
  BY DEF Unheard
<1>3. /\ spent \in [Sessions -> Nat] /\ lastRaw \in [Sessions -> Nat] /\ billed \in [Sessions -> Nat]
      /\ blank \subseteq Sessions /\ nMinted \in 0..MaxSessions /\ heard.raw \in Nat
  BY <1>1, TurnFields DEF TurnsTyped
<1>4. CASE UNCHANGED ledger
  <2>1. lastRaw' = lastRaw /\ billed' = billed /\ blank' = blank
    BY <1>4 DEF ledger
  <2> QED BY <2>1, <1>1, <1>2, <1>3, TurnBounds DEF Charging
<1>5. CASE /\ key # NoSession
           /\ lastRaw' = [lastRaw EXCEPT ![key] = raw]
           /\ billed' = [billed EXCEPT ![key] = @ + due]
           /\ blank' = IF raw = 0 THEN blank \cup {key} ELSE blank
  <2>1. key \in 0..nMinted /\ key \in Sessions
    BY <1>1, <1>3, <1>5, TurnBounds DEF RowKey, TurnsTyped
  <2>2. Adapter = mintedBy[key]
    BY <1>1, <1>5, OwnerAsked DEF RowKey, Naming
  <2>3. raw \in Nat /\ (raw # 0 => heard.sid = key /\ raw = heard.raw)
    BY <1>1, <1>3 DEF Charging, RowKey
  <2>4. due \in Nat
    BY <2>1, <2>3, <1>3 DEF PerRoundTokens
  <2> HIDE DEF key, raw, due
  <2>5. lastRaw' \in [Sessions -> Nat] /\ billed' \in [Sessions -> Nat] /\ blank' \subseteq Sessions
    BY <1>3, <1>5, <2>1, <2>3, <2>4
  <2>6. /\ \A s \in Sessions \ {key} : lastRaw'[s] = lastRaw[s] /\ billed'[s] = billed[s] /\ (s \in blank' <=> s \in blank)
        /\ lastRaw'[key] = raw /\ billed'[key] = billed[key] + due
        /\ (key \in blank' <=> key \in blank \/ raw = 0)
    BY <1>3, <1>5, <2>1
  <2>7. ASSUME NEW s \in Sessions
        PROVE  /\ s > nMinted => lastRaw'[s] = 0 /\ billed'[s] = 0
               /\ mintedBy[s] = "codex" =>
                    /\ lastRaw'[s] <= spent[s] /\ lastRaw'[s] <= billed'[s]
                    /\ s \notin blank' => billed'[s] = lastRaw'[s]
               /\ mintedBy[s] # "codex" /\ s \notin blank' => billed'[s] <= spent[s]
    <3>1. /\ s > nMinted => lastRaw[s] = 0 /\ billed[s] = 0
          /\ mintedBy[s] = "codex" =>
              /\ lastRaw[s] <= spent[s] /\ lastRaw[s] <= billed[s]
              /\ s \notin blank => billed[s] = lastRaw[s]
              /\ heard.sid = s /\ heard.raw # 0 => lastRaw[s] <= heard.raw /\ heard.raw <= spent[s]
          /\ mintedBy[s] # "codex" /\ s \notin blank =>
              billed[s] + (IF heard.sid = s THEN heard.raw ELSE 0) <= spent[s]
      BY <1>1 DEF Charging
    <3>2. spent[s] \in Nat /\ lastRaw[s] \in Nat /\ billed[s] \in Nat
      BY <1>3
    <3>3. CASE s # key
      BY <3>1, <3>2, <3>3, <2>6, <1>3
    <3>4. CASE s = key /\ mintedBy[s] = "codex"
      <4>1. due = IF lastRaw[s] = 0 \/ raw < lastRaw[s] THEN raw ELSE raw - lastRaw[s]
        BY <2>2, <3>4 DEF due, PerRoundTokens
      <4> QED BY <4>1, <3>1, <3>2, <3>4, <2>1, <2>3, <2>6, <1>3
    <3>5. CASE s = key /\ mintedBy[s] # "codex"
      <4>1. due = raw
        BY <2>2, <3>5 DEF due, PerRoundTokens
      <4> QED BY <4>1, <3>1, <3>2, <3>5, <2>1, <2>3, <2>6, <1>3
    <3> QED BY <3>3, <3>4, <3>5
  <2> QED BY <2>5, <2>7, <1>2, <1>3, TurnBounds DEF Charging
<1> QED BY <1>4, <1>5 DEF RecordAttempt

\* The turn stays at its lane, or moves to the next, and nothing else changes.
LEMMA LaneAskedAgain ==
    ASSUME NEW t \in TurnRecords, NEW u, u = [t EXCEPT !.pc = "lane", !.tries = @ + 1]
    PROVE  /\ u \in TurnRecords /\ u.pc = "lane" /\ u.session = t.session /\ u.had = t.had
           /\ u.again = t.again /\ u.cands = t.cands /\ u.at = t.at /\ u.end = t.end
<1>1. t.tries \in Nat /\ t.tries + 1 \in Nat
  BY DEF TurnRecords
<1>2. u \in TurnRecords
  BY <1>1 DEF TurnRecords
<1> QED BY <1>2 DEF TurnRecords

LEMMA NextLaneAsked ==
    ASSUME NEW t \in TurnRecords, NEW u, u = [t EXCEPT !.pc = "lane", !.tries = 0, !.at = @ + 1]
    PROVE  /\ u \in TurnRecords /\ u.pc = "lane" /\ u.session = t.session /\ u.had = t.had
           /\ u.again = t.again /\ u.cands = t.cands /\ u.at = t.at + 1 /\ u.end = t.end
<1>1. t.at \in Nat /\ t.at + 1 \in Nat
  BY DEF TurnRecords
<1>2. u \in TurnRecords
  BY <1>1 DEF TurnRecords
<1> QED BY <1>2 DEF TurnRecords

\* A failed lane is asked again, passed over for the next, or the session is
\* given up: what was resumed stays in memory until then.
LEMMA LaneFailsSoundly ==
    ASSUME TurnsInv, fixTurn.pc \in {"lane", "run"}, NEW r \in BOOLEAN, NEW u \in BOOLEAN, LaneFails(r, u),
           UNCHANGED <<setup, nMinted, mintedBy>>, heard' = Unheard
    PROVE  /\ fixTurn' \in TurnRecords /\ fixTurn'.session \in 0..nMinted /\ refused' \subseteq 1..nMinted
           /\ fixerId' \in 0..nMinted /\ fixerRow' \in 0..nMinted
           /\ Asking' /\ Naming' /\ DeadIsDropped'
<1>1. TurnsTyped /\ Asking /\ DeadIsDropped
  BY DEF TurnsInv
<1>2. /\ fixTurn \in TurnRecords /\ fixTurn.session \in 0..nMinted /\ refused \subseteq 1..nMinted
      /\ fixerId \in 0..nMinted /\ fixerRow \in 0..nMinted /\ 0 \notin refused /\ nMinted \in Nat
  BY <1>1, TurnBounds DEF TurnsTyped
<1>3. /\ fixTurn.at \in 1..Len(fixTurn.cands) /\ fixTurn.cands = LanesFor(fixTurn.session)
      /\ fixTurn.session # NoSession => fixTurn.session = fixerId
      /\ fixTurn.had # NoSession => fixTurn.again = TRUE \/ fixTurn.session # NoSession
      /\ fixTurn.end = "failed" => fixTurn.had = NoSession \/ fixTurn.again = TRUE
  BY <1>1 DEF Asking
<1>4. \A s : LanesFor(s)' = LanesFor(s)
  BY DEF LanesFor
<1>5. Len(fixTurn.cands) \in Nat /\ LanesFor(NoSession) \in Seq(Adapters) /\ Len(LanesFor(NoSession)) \in Nat \ {0}
  <2>1. NoSession \in 0..nMinted
    BY <1>2 DEF NoSession
  <2> QED BY <2>1, <1>1, <1>2, <1>3, LanesToAsk
<1>6. Naming'
  BY DEF Naming, Unheard
<1>a. CASE /\ fixTurn' = [fixTurn EXCEPT !.pc = "lane", !.tries = @ + 1]
           /\ UNCHANGED <<fixerId, fixerRow, refused, sticky>>
  <2>1. /\ fixTurn' \in TurnRecords /\ fixTurn'.pc = "lane" /\ fixTurn'.session = fixTurn.session
        /\ fixTurn'.had = fixTurn.had /\ fixTurn'.again = fixTurn.again /\ fixTurn'.cands = fixTurn.cands
        /\ fixTurn'.at = fixTurn.at /\ fixTurn'.end = fixTurn.end
    BY <1>a, <1>2, LaneAskedAgain
  <2> QED BY <2>1, <1>a, <1>1, <1>2, <1>3, <1>4, <1>6 DEF Asking, DeadIsDropped
<1>b. CASE /\ fixTurn.at < Len(fixTurn.cands)
           /\ fixTurn' = [fixTurn EXCEPT !.pc = "lane", !.tries = 0, !.at = @ + 1]
           /\ UNCHANGED <<fixerId, fixerRow, refused, sticky>>
  <2>1. /\ fixTurn' \in TurnRecords /\ fixTurn'.pc = "lane" /\ fixTurn'.session = fixTurn.session
        /\ fixTurn'.had = fixTurn.had /\ fixTurn'.again = fixTurn.again /\ fixTurn'.cands = fixTurn.cands
        /\ fixTurn'.at = fixTurn.at + 1 /\ fixTurn'.end = fixTurn.end
    BY <1>b, <1>2, NextLaneAsked
  <2> QED BY <2>1, <1>b, <1>1, <1>2, <1>3, <1>4, <1>5, <1>6 DEF Asking, DeadIsDropped
<1>c. CASE fixTurn.session # NoSession /\ fixTurn' = Fresh(fixTurn) /\ Forget
  <2>1. /\ fixTurn' \in TurnRecords /\ fixTurn'.pc = "lane" /\ fixTurn'.session = NoSession
        /\ fixTurn'.again = TRUE /\ fixTurn'.cands = LanesFor(NoSession) /\ fixTurn'.at = 1
    BY <1>c, <1>2, <1>5 DEF TurnRecords, Fresh, NoSession
  <2>2. fixerId' = NoSession /\ fixerRow' \in {fixerRow, NoSession} /\ refused' = refused \cup {fixTurn.session}
        /\ sticky' = IF fixerRow' # NoSession THEN sticky \cup {fixerRow'} ELSE sticky
    BY <1>c DEF Forget, StoreSession
  <2>3. refused' \subseteq 1..nMinted /\ fixerId' \in 0..nMinted /\ fixerRow' \in 0..nMinted /\ 0 \notin refused'
    <3>1. fixTurn.session \in 1..nMinted
      BY <1>c, <1>2 DEF NoSession
    <3>2. refused' \subseteq 1..nMinted
      BY <3>1, <2>2, <1>2
    <3>3. 0 \notin refused' /\ 0 \in 0..nMinted
      BY <3>2, <1>2
    <3> QED BY <3>2, <3>3, <2>2, <1>2 DEF NoSession
  <2>4. DeadIsDropped'
    BY <2>2, <2>3 DEF DeadIsDropped, NoSession
  <2>5. Asking'
    BY <2>1, <1>4, <1>5 DEF Asking
  <2> QED BY <2>1, <2>3, <2>4, <2>5, <1>2, <1>6 DEF NoSession
<1>d. CASE /\ fixTurn' = [fixTurn EXCEPT !.pc = "over", !.end = IF fixTurn.cancelled THEN "cancelled" ELSE "failed"]
           /\ fixTurn.session = NoSession \/ fixTurn.cancelled
           /\ UNCHANGED <<fixerId, fixerRow, refused, sticky>>
  <2>1. /\ fixTurn' \in TurnRecords /\ fixTurn'.pc = "over" /\ fixTurn'.session = fixTurn.session
        /\ fixTurn'.had = fixTurn.had /\ fixTurn'.again = fixTurn.again /\ fixTurn'.cands = fixTurn.cands
        /\ fixTurn'.at = fixTurn.at /\ (fixTurn'.end = "failed" => ~fixTurn.cancelled)
    BY <1>d, <1>2 DEF TurnRecords
  <2> QED BY <2>1, <1>d, <1>1, <1>2, <1>3, <1>6 DEF Asking, DeadIsDropped
<1> QED BY <1>a, <1>b, <1>c, <1>d DEF LaneFails

-----------------------------------------------------------------------------
(* Every action keeps the invariant.                                         *)

\* An action that leaves the rows and what was heard alone charges nothing.
LEMMA RowsStand ==
    ASSUME Charging, UNCHANGED <<nMinted, mintedBy, spent, lastRaw, billed, blank, heard>>
    PROVE  Charging'
BY DEF Charging

LEMMA TurnsStart == TurnsInit => TurnsInv
<1> SUFFICES ASSUME TurnsInit PROVE TurnsInv
  OBVIOUS
<1>1. TurnsTyped
  BY TurnBounds, TurnsAtRest DEF TurnsInit, TurnsTyped, NoTurn, Unheard
<1>2. Asking
  BY TurnsAtRest DEF TurnsInit, Asking, NoTurn
<1>3. Naming
  BY DEF TurnsInit, Naming, Unheard, NoTurn
<1>4. Charging
  BY TurnBounds DEF TurnsInit, Charging, Unheard
<1> QED BY <1>1, <1>2, <1>3, <1>4 DEF TurnsInv, TurnsInit, DeadIsDropped

LEMMA BeginKeeps == ASSUME TurnsInv, BeginFix PROVE TurnsInv'
<1>1. TurnsTyped /\ Asking /\ Naming /\ DeadIsDropped /\ Charging
  BY DEF TurnsInv
<1>2. PICK d \in BOOLEAN :
        LET s == IF d THEN fixerId ELSE NoSession
        IN  fixTurn' = [NoTurn EXCEPT !.pc = "lane", !.session = s, !.had = s, !.durable = d, !.cands = LanesFor(s)]
  BY DEF BeginFix
<1> DEFINE s == IF d THEN fixerId ELSE NoSession
<1>3. s \in 0..nMinted /\ (s # NoSession => s = fixerId)
  BY <1>1 DEF TurnsTyped, NoSession
<1>4. LanesFor(s) \in Seq(Adapters) /\ Len(LanesFor(s)) \in Nat \ {0}
  BY <1>1, <1>3, LanesToAsk
<1>5. UNCHANGED <<setup, fixerId, fixerRow, heard, nMinted, mintedBy, spent, lastRaw, billed, blank, refused, sticky>>
      /\ nTurns' = nTurns + 1
  BY DEF BeginFix, ledger
<1>6. fixTurn' = [NoTurn EXCEPT !.pc = "lane", !.session = s, !.had = s, !.durable = d, !.cands = LanesFor(s)]
  BY <1>2
<1> HIDE DEF s
<1>7. /\ fixTurn' \in TurnRecords /\ fixTurn'.session = s /\ fixTurn'.had = s /\ fixTurn'.cands = LanesFor(s)
      /\ fixTurn'.pc = "lane" /\ fixTurn'.at = 1 /\ fixTurn'.end = "none"
  <2>1. s \in Nat /\ NoTurn \in TurnRecords
    BY <1>1, <1>3, TurnBounds, TurnsAtRest DEF TurnsTyped
  <2>2. fixTurn' \in TurnRecords
    BY <2>1, <1>4, <1>6 DEF TurnRecords
  <2>3. NoTurn.at = 1 /\ NoTurn.end = "none"
    BY DEF NoTurn
  <2> QED BY <2>1, <2>2, <2>3, <1>6 DEF TurnRecords
<1>8. TurnsTyped'
  BY <1>1, <1>3, <1>5, <1>7 DEF TurnsTyped
<1>9. LanesFor(s)' = LanesFor(s)
  BY <1>5 DEF LanesFor, s
<1>10. Asking'
  BY <1>3, <1>4, <1>5, <1>7 DEF Asking, LanesFor
<1>11. heard = Unheard
  BY <1>1 DEF BeginFix, TurnIs, Naming
<1>12. Naming'
  BY <1>5, <1>11 DEF Naming, Unheard
<1>13. Charging' /\ DeadIsDropped'
  BY <1>1, <1>5, RowsStand DEF DeadIsDropped
<1> QED BY <1>8, <1>10, <1>12, <1>13 DEF TurnsInv

LEMMA CancelKeeps == ASSUME TurnsInv, CancelTurn PROVE TurnsInv'
<1>1. TurnsTyped /\ Asking /\ Naming /\ DeadIsDropped /\ Charging
  BY DEF TurnsInv
<1>2. UNCHANGED <<setup, fixerId, fixerRow, heard, nTurns, nMinted, mintedBy, spent, lastRaw, billed, blank, refused, sticky>>
  BY DEF CancelTurn, ledger
<1>3. /\ fixTurn' \in TurnRecords /\ fixTurn'.pc = fixTurn.pc /\ fixTurn'.session = fixTurn.session
      /\ fixTurn'.had = fixTurn.had /\ fixTurn'.again = fixTurn.again /\ fixTurn'.cands = fixTurn.cands
      /\ fixTurn'.at = fixTurn.at /\ fixTurn'.end = fixTurn.end
  BY <1>1 DEF CancelTurn, TurnsTyped, TurnRecords
<1>4. TurnsTyped'
  BY <1>1, <1>2, <1>3 DEF TurnsTyped
<1>5. Asking'
  BY <1>1, <1>2, <1>3 DEF Asking, LanesFor
<1>6. Naming'
  BY <1>1, <1>2, <1>3 DEF Naming, Adapter
<1>7. Charging' /\ DeadIsDropped'
  BY <1>1, <1>2, RowsStand DEF DeadIsDropped
<1> QED BY <1>4, <1>5, <1>6, <1>7 DEF TurnsInv

LEMMA SpawnKeeps == ASSUME TurnsInv, SpawnAgent PROVE TurnsInv'
<1>1. TurnsTyped /\ Asking /\ Naming /\ DeadIsDropped /\ Charging
  BY DEF TurnsInv
<1>2. UNCHANGED <<setup, nTurns, nMinted, mintedBy, spent>> /\ fixTurn.pc = "lane"
  BY DEF SpawnAgent, TurnIs
<1>3. CASE /\ fixTurn' = [fixTurn EXCEPT !.pc = "run"]
           /\ heard' = [Unheard EXCEPT !.sid = IF Adapter = "claude" THEN fixTurn.session ELSE NoSession]
           /\ UNCHANGED <<fixerId, fixerRow, ledger, refused, sticky>>
  <2>1. /\ fixTurn' \in TurnRecords /\ fixTurn'.pc = "run" /\ fixTurn'.session = fixTurn.session
        /\ fixTurn'.had = fixTurn.had /\ fixTurn'.again = fixTurn.again /\ fixTurn'.cands = fixTurn.cands
        /\ fixTurn'.at = fixTurn.at /\ fixTurn'.end = fixTurn.end
    BY <1>1, <1>3 DEF TurnsTyped, TurnRecords
  <2>2. heard' \in HeardRecords /\ heard'.raw = 0 /\ heard'.sid \in {fixTurn.session, NoSession} /\ heard'.sid \in 0..nMinted
    BY <1>1, <1>3, TurnFields DEF HeardRecords, Unheard, NoSession, TurnsTyped
  <2>3. lastRaw' = lastRaw /\ billed' = billed /\ blank' = blank /\ refused' = refused /\ sticky' = sticky
        /\ fixerId' = fixerId /\ fixerRow' = fixerRow
    BY <1>3 DEF ledger
  <2>4. TurnsTyped'
    BY <1>1, <1>2, <2>1, <2>2, <2>3 DEF TurnsTyped
  <2>5. Asking'
    BY <1>1, <1>2, <2>1, <2>3 DEF Asking, LanesFor
  <2>6. Naming'
    BY <1>2, <2>1, <2>2, OwnerAsked DEF Naming, Adapter
  <2>7. Charging'
    <3>1. heard.raw = 0 /\ heard.sid = NoSession
      BY <1>1, <1>2 DEF Naming, Unheard
    <3> QED BY <3>1, <1>1, <1>2, <2>2, <2>3, TurnBounds DEF Charging, TurnsTyped
  <2>8. DeadIsDropped'
    BY <1>1, <2>3 DEF DeadIsDropped
  <2> QED BY <2>4, <2>5, <2>6, <2>7, <2>8 DEF TurnsInv
<1>4. CASE /\ RecordAttempt(FALSE) /\ \E f \in Failures("exited") : LaneFails(f.retry, f.unavailable)
           /\ heard' = Unheard
  <2>1. PICK f \in Failures("exited") : LaneFails(f.retry, f.unavailable)
    BY <1>4
  <2>2. f.retry \in BOOLEAN /\ f.unavailable \in BOOLEAN
    BY DEF Failures
  <2>3. /\ fixTurn' \in TurnRecords /\ fixTurn'.session \in 0..nMinted /\ refused' \subseteq 1..nMinted
        /\ fixerId' \in 0..nMinted /\ fixerRow' \in 0..nMinted /\ Asking' /\ Naming' /\ DeadIsDropped'
    BY <1>2, <1>4, <2>1, <2>2, LaneFailsSoundly
  <2>4. /\ Charging' /\ blank' \subseteq Sessions
        /\ lastRaw' \in [Sessions -> Nat] /\ billed' \in [Sessions -> Nat]
    BY <1>2, <1>4, RowCharges
  <2>5. TurnsTyped'
    BY <1>1, <1>2, <1>4, <2>3, <2>4, TurnsAtRest DEF TurnsTyped, Unheard, NoSession
  <2> QED BY <2>3, <2>4, <2>5 DEF TurnsInv
<1> QED BY <1>3, <1>4 DEF SpawnAgent

\* An event may mint a session, and then names it.
LEMMA NamesStand ==
    ASSUME TurnsInv, fixTurn.pc = "run", NEW r \in Sessions, Named(r)
    PROVE  /\ nMinted' \in 0..MaxSessions /\ nMinted <= nMinted' /\ r \in 1..nMinted'
           /\ mintedBy' \in [Sessions -> Adapters] /\ mintedBy'[r] = Adapter
           /\ \A s \in Sessions \ {r} : mintedBy'[s] = mintedBy[s]
           /\ r = fixTurn.session \/ (fixTurn.session = NoSession /\ r > nMinted)
<1>1. /\ TurnsTyped /\ nMinted \in 0..MaxSessions /\ mintedBy \in [Sessions -> Adapters]
      /\ fixTurn.session \in 0..nMinted /\ MaxSessions \in Nat
  BY TurnBounds DEF TurnsInv, TurnsTyped
<1>2. Adapter \in Adapters /\ (fixTurn.session # NoSession => Adapter = mintedBy[fixTurn.session])
  BY OwnerAsked
<1>3. CASE fixTurn.session # NoSession /\ r = fixTurn.session /\ UNCHANGED <<nMinted, mintedBy>>
  BY <1>1, <1>2, <1>3 DEF NoSession
<1>4. CASE /\ fixTurn.session = NoSession /\ nMinted < MaxSessions /\ r = nMinted + 1
           /\ nMinted' = r /\ mintedBy' = [mintedBy EXCEPT ![r] = Adapter]
  BY <1>1, <1>2, <1>4
<1> QED BY <1>3, <1>4 DEF Named

\* What one event changes: a name where there was none, or what was said and
\* used.
Told ==
    /\ heard' \in HeardRecords /\ spent' \in [Sessions -> Nat]
    /\ \A s \in Sessions : spent[s] <= spent'[s]
    /\ \/ heard'.sid = heard.sid /\ UNCHANGED <<nMinted, mintedBy>>
       \/ heard.sid = NoSession /\ heard'.sid \in Sessions /\ Named(heard'.sid)
    /\ heard'.sid = NoSession => heard'.raw = heard.raw
    /\ Adapter = "codex" =>
         \/ heard'.raw = heard.raw
         \/ heard.sid # NoSession /\ heard'.sid = heard.sid /\ heard'.raw = spent[heard.sid] /\ spent' = spent
    /\ (Adapter # "codex" /\ heard'.sid \in Sessions)
         => heard'.raw + spent[heard'.sid] = heard.raw + spent'[heard'.sid]

LEMMA EventsTell == ASSUME TurnsInv, HearEvent PROVE Told
<1>1. /\ heard \in HeardRecords /\ spent \in [Sessions -> Nat] /\ heard.raw \in Nat /\ heard.n \in Nat
      /\ heard.sid \in Nat /\ heard.text \in {"none", "answer", "prose"} /\ heard.verdict \in {"none", "good", "bad", "bare"}
      /\ heard.sid # NoSession => heard.sid \in Sessions
  BY TurnBounds DEF TurnsInv, TurnsTyped, HeardRecords
<1>2. \A h \in HeardRecords : Hear(h) =>
        /\ heard' \in HeardRecords /\ heard'.sid = h.sid /\ heard'.raw = h.raw
  <2>1. SUFFICES ASSUME NEW h \in HeardRecords, Hear(h)
                 PROVE  heard' \in HeardRecords /\ heard'.sid = h.sid /\ heard'.raw = h.raw
    OBVIOUS
  <2>2. h.n + 1 \in Nat
    BY DEF HeardRecords
  <2> QED BY <2>1, <2>2 DEF Hear, HeardRecords
<1>3. ASSUME SameNames, UNCHANGED spent, heard' \in HeardRecords, heard'.sid = heard.sid, heard'.raw = heard.raw
      PROVE  Told
  BY <1>1, <1>3 DEF Told, SameNames
<1>4. ASSUME NEW say \in Says, NEW v \in {"none", "good", "bad"}, NEW h, Hear(h),
             \/ h = [heard EXCEPT !.text = say] \/ h = [heard EXCEPT !.verdict = v]
             \/ h = [heard EXCEPT !.text = say, !.verdict = v]
      PROVE  heard' \in HeardRecords /\ heard'.sid = heard.sid /\ heard'.raw = heard.raw
  <2>1. h \in HeardRecords /\ h.sid = heard.sid /\ h.raw = heard.raw
    BY <1>1, <1>4 DEF HeardRecords, Says
  <2> QED BY <2>1, <1>2, <1>4
<1>5. \A say \in Says : Kept(say) \in Says
  BY DEF Kept, Says
<1>a. CASE Adapter = "codex" /\ HearCodex
  <2>1. CASE heard.sid = NoSession /\ (\E s \in Sessions : Named(s) /\ Hear([heard EXCEPT !.sid = s])) /\ UNCHANGED spent
    <3>1. PICK s \in Sessions : Named(s) /\ Hear([heard EXCEPT !.sid = s])
      BY <2>1
    <3>2. [heard EXCEPT !.sid = s] \in HeardRecords /\ [heard EXCEPT !.sid = s].sid = s
          /\ [heard EXCEPT !.sid = s].raw = heard.raw
      BY <1>1 DEF HeardRecords, Sessions
    <3>3. heard' \in HeardRecords /\ heard'.sid = s /\ heard'.raw = heard.raw
      BY <3>1, <3>2, <1>2
    <3> QED BY <3>1, <3>3, <2>1, <1>1, <1>a DEF Told
  <2>2. CASE \E say \in Says : Hear([heard EXCEPT !.text = say]) /\ Works(heard.sid) /\ SameNames
    <3>1. heard' \in HeardRecords /\ heard'.sid = heard.sid /\ heard'.raw = heard.raw
      BY <2>2, <1>4
    <3>2. spent' \in [Sessions -> Nat] /\ (\A s \in Sessions : spent[s] <= spent'[s])
      BY <2>2, <1>1 DEF Works
    <3> QED BY <3>1, <3>2, <2>2, <1>a DEF Told, SameNames
  <2>3. CASE /\ heard.sid # NoSession /\ heard.raw = 0
             /\ Hear([heard EXCEPT !.raw = spent[heard.sid]]) /\ SameNames /\ UNCHANGED spent
    <3>1. spent[heard.sid] \in Nat
      BY <2>3, <1>1
    <3>2. [heard EXCEPT !.raw = spent[heard.sid]] \in HeardRecords
          /\ [heard EXCEPT !.raw = spent[heard.sid]].sid = heard.sid
          /\ [heard EXCEPT !.raw = spent[heard.sid]].raw = spent[heard.sid]
      BY <1>1, <3>1 DEF HeardRecords
    <3>3. heard' \in HeardRecords /\ heard'.sid = heard.sid /\ heard'.raw = spent[heard.sid]
      BY <2>3, <3>2, <1>2
    <3> QED BY <3>3, <2>3, <1>1, <1>a DEF Told, SameNames
  <2> QED BY <2>1, <2>2, <2>3, <1>a DEF HearCodex
<1>b. CASE Adapter = "claude" /\ HearClaude
  <2>1. PICK s \in Sessions :
          /\ IF heard.sid = NoSession THEN Named(s) ELSE s = heard.sid /\ SameNames
          /\ \/ Hear([heard EXCEPT !.sid = s, !.raw = @ + 1]) /\ Works(s)
             \/ \E v \in {"good", "bad", "bare"} : Hear([heard EXCEPT !.sid = s, !.verdict = v]) /\ UNCHANGED spent
    BY <1>b DEF HearClaude
  <2>2. s \in Nat /\ s # NoSession
    BY TurnBounds DEF Sessions
  <2>3. CASE Hear([heard EXCEPT !.sid = s, !.raw = @ + 1]) /\ Works(s)
    <3>1. [heard EXCEPT !.sid = s, !.raw = @ + 1] \in HeardRecords
          /\ [heard EXCEPT !.sid = s, !.raw = @ + 1].sid = s /\ [heard EXCEPT !.sid = s, !.raw = @ + 1].raw = heard.raw + 1
      <4>1. heard.raw + 1 \in Nat
        BY <1>1
      <4>2. [heard EXCEPT !.sid = s, !.raw = @ + 1] \in HeardRecords
        BY <4>1, <1>1, <2>2 DEF HeardRecords
      <4> QED BY <4>1, <4>2, <1>1, <2>2 DEF HeardRecords
    <3>2. heard' \in HeardRecords /\ heard'.sid = s /\ heard'.raw = heard.raw + 1
      BY <2>3, <3>1, <1>2
    <3>3. spent' = [spent EXCEPT ![s] = @ + 1]
      BY <2>2, <2>3 DEF Works
    <3>4. spent' \in [Sessions -> Nat] /\ (\A x \in Sessions : spent[x] <= spent'[x]) /\ spent'[s] = spent[s] + 1
      BY <3>3, <1>1
    <3>5. heard'.raw + spent[heard'.sid] = heard.raw + spent'[heard'.sid]
      BY <3>2, <3>4, <1>1
    <3> QED BY <3>2, <3>4, <3>5, <2>1, <2>2, <1>b DEF Told, SameNames
  <2>4. CASE \E v \in {"good", "bad", "bare"} : Hear([heard EXCEPT !.sid = s, !.verdict = v]) /\ UNCHANGED spent
    <3>1. PICK v \in {"good", "bad", "bare"} : Hear([heard EXCEPT !.sid = s, !.verdict = v])
      BY <2>4
    <3>2. [heard EXCEPT !.sid = s, !.verdict = v] \in HeardRecords
          /\ [heard EXCEPT !.sid = s, !.verdict = v].sid = s /\ [heard EXCEPT !.sid = s, !.verdict = v].raw = heard.raw
      BY <1>1, <2>2 DEF HeardRecords
    <3>3. heard' \in HeardRecords /\ heard'.sid = s /\ heard'.raw = heard.raw
      BY <3>1, <3>2, <1>2
    <3> QED BY <3>3, <2>1, <2>2, <2>4, <1>1, <1>b DEF Told, SameNames
  <2> QED BY <2>1, <2>3, <2>4
<1>c. CASE HearCopilot
  <2>1. CASE \E say \in Says : Hear([heard EXCEPT !.text = Kept(say)])
    BY <2>1, <1>c, <1>3, <1>4, <1>5 DEF HearCopilot
  <2>2. CASE \E v \in {"good", "bad"} : Hear([heard EXCEPT !.verdict = v])
    <3>1. PICK v \in {"good", "bad"} : Hear([heard EXCEPT !.verdict = v])
      BY <2>2
    <3>2. [heard EXCEPT !.verdict = v] \in HeardRecords /\ [heard EXCEPT !.verdict = v].sid = heard.sid
          /\ [heard EXCEPT !.verdict = v].raw = heard.raw
      BY <1>1 DEF HeardRecords
    <3>3. heard' \in HeardRecords /\ heard'.sid = heard.sid /\ heard'.raw = heard.raw
      BY <3>1, <3>2, <1>2
    <3> QED BY <3>3, <1>c, <1>3 DEF HearCopilot
  <2> QED BY <2>1, <2>2, <1>c DEF HearCopilot
<1>d. CASE HearPi
  BY <1>d, <1>3, <1>4 DEF HearPi
<1>e. CASE HearAcp
  BY <1>e, <1>3, <1>4, <1>5 DEF HearAcp
<1> QED BY <1>a, <1>b, <1>c, <1>d, <1>e DEF HearEvent

LEMMA HearKeeps == ASSUME TurnsInv, HearEvent PROVE TurnsInv'
<1>1. TurnsTyped /\ Asking /\ Naming /\ DeadIsDropped /\ Charging
  BY DEF TurnsInv
<1>2. /\ UNCHANGED <<setup, fixerId, fixerRow, fixTurn, nTurns, lastRaw, billed, blank, refused, sticky>>
      /\ fixTurn.pc = "run"
  BY DEF HearEvent, TurnIs, ledger
<1>3. Told
  BY EventsTell
<1>4. /\ nMinted \in 0..MaxSessions /\ nMinted' \in 0..MaxSessions /\ nMinted <= nMinted' /\ MaxSessions \in Nat
      /\ mintedBy' \in [Sessions -> Adapters] /\ (\A s \in Sessions : s <= nMinted => mintedBy'[s] = mintedBy[s])
      /\ heard'.sid \in 0..nMinted'
  <2>1. CASE heard'.sid = heard.sid /\ UNCHANGED <<nMinted, mintedBy>>
    BY <1>1, <2>1, TurnBounds DEF TurnsTyped
  <2>2. CASE heard'.sid \in Sessions /\ Named(heard'.sid)
    <3>1. fixTurn.session # NoSession => Adapter = mintedBy[fixTurn.session]
      BY <1>2, OwnerAsked
    <3> QED BY <1>1, <1>2, <2>2, <3>1, NamesStand, TurnBounds DEF TurnsTyped
  <2> QED BY <2>1, <2>2, <1>3 DEF Told
<1>5. fixTurn.session \in 0..nMinted /\ refused \subseteq 1..nMinted /\ fixerId \in 0..nMinted /\ fixerRow \in 0..nMinted
  BY <1>1 DEF TurnsTyped
<1>6. TurnsTyped'
  BY <1>1, <1>2, <1>3, <1>4, <1>5 DEF TurnsTyped, Told
<1>7. Asking'
  <2>1. LanesFor(fixTurn.session)' = LanesFor(fixTurn.session)
    BY <1>2, <1>4, <1>5, TurnBounds DEF LanesFor
  <2> QED BY <2>1, <1>1, <1>2 DEF Asking
<1>8. Naming'
  <2>1. Adapter' = Adapter
    BY <1>2 DEF Adapter
  <2>2. CASE heard'.sid = heard.sid /\ UNCHANGED <<nMinted, mintedBy>>
    BY <2>1, <2>2, <1>1, <1>2 DEF Naming
  <2>3. CASE heard'.sid \in Sessions /\ Named(heard'.sid)
    <3>1. /\ mintedBy'[heard'.sid] = Adapter
          /\ heard'.sid = fixTurn.session \/ (fixTurn.session = NoSession /\ heard'.sid > nMinted)
      BY <1>2, <2>3, NamesStand
    <3> QED BY <3>1, <2>1, <1>2, <1>4, <1>5 DEF Naming
  <2> QED BY <2>2, <2>3, <1>3 DEF Told
<1>9. Charging'
  <2>1. heard'.sid = NoSession => heard'.raw = 0
    BY <1>1, <1>3 DEF Told, Charging, Named, Sessions
  <2>2. ASSUME NEW s \in Sessions
        PROVE  /\ s > nMinted' => lastRaw[s] = 0 /\ billed[s] = 0
               /\ mintedBy'[s] = "codex" =>
                    /\ lastRaw[s] <= spent'[s] /\ lastRaw[s] <= billed[s]
                    /\ s \notin blank => billed[s] = lastRaw[s]
                    /\ heard'.sid = s /\ heard'.raw # 0 => lastRaw[s] <= heard'.raw /\ heard'.raw <= spent'[s]
               /\ mintedBy'[s] # "codex" /\ s \notin blank =>
                    billed[s] + (IF heard'.sid = s THEN heard'.raw ELSE 0) <= spent'[s]
    <3>1. /\ s > nMinted => lastRaw[s] = 0 /\ billed[s] = 0
          /\ mintedBy[s] = "codex" =>
              /\ lastRaw[s] <= spent[s] /\ lastRaw[s] <= billed[s]
              /\ s \notin blank => billed[s] = lastRaw[s]
              /\ heard.sid = s /\ heard.raw # 0 => lastRaw[s] <= heard.raw /\ heard.raw <= spent[s]
          /\ mintedBy[s] # "codex" /\ s \notin blank =>
              billed[s] + (IF heard.sid = s THEN heard.raw ELSE 0) <= spent[s]
          /\ heard.sid = NoSession => heard.raw = 0
      BY <1>1 DEF Charging
    <3>2. /\ spent[s] \in Nat /\ spent'[s] \in Nat /\ spent[s] <= spent'[s] /\ lastRaw[s] \in Nat /\ billed[s] \in Nat
          /\ heard.raw \in Nat /\ heard'.raw \in Nat /\ s \in Nat /\ s # NoSession
      BY <1>1, <1>3, TurnFields, TurnBounds DEF Told, TurnsTyped, HeardRecords, Sessions
    <3>3. s <= nMinted => mintedBy'[s] = mintedBy[s]
      BY <1>4
    <3>4. heard'.sid = s => mintedBy'[s] = Adapter
      BY <1>2, <1>8, <3>2 DEF Naming, Adapter
    <3>5. /\ Adapter = "codex" /\ heard'.sid = s =>
               \/ heard'.raw = heard.raw
               \/ heard.sid = s /\ heard'.raw = spent[s] /\ spent' = spent
          /\ Adapter # "codex" /\ heard'.sid = s => heard'.raw + spent[s] = heard.raw + spent'[s]
          /\ heard'.sid = s => heard.sid = s \/ heard.sid = NoSession
      BY <1>3 DEF Told
    <3>6. nMinted \in Nat /\ nMinted' \in Nat /\ nMinted <= nMinted'
      BY <1>4
    <3>7. CASE s > nMinted
      <4>1. heard.sid # s
        BY <1>1, <3>6, <3>7 DEF TurnsTyped
      <4> QED BY <3>1, <3>2, <3>4, <3>5, <3>6, <3>7, <4>1
    <3>8. CASE s <= nMinted /\ mintedBy[s] = "codex"
      BY <3>1, <3>2, <3>3, <3>4, <3>5, <3>6, <3>8
    <3>9. CASE s <= nMinted /\ mintedBy[s] # "codex"
      BY <3>1, <3>2, <3>3, <3>4, <3>5, <3>6, <3>9
    <3> QED BY <3>2, <3>6, <3>7, <3>8, <3>9
  <2> QED BY <2>1, <2>2, <1>2 DEF Charging
<1>10. DeadIsDropped'
  BY <1>1, <1>2 DEF DeadIsDropped
<1> QED BY <1>6, <1>7, <1>8, <1>9, <1>10 DEF TurnsInv

LEMMA EndKeeps == ASSUME TurnsInv, EndAgent PROVE TurnsInv'
<1>1. TurnsTyped /\ Asking /\ Naming /\ DeadIsDropped /\ Charging
  BY DEF TurnsInv
<1>2. UNCHANGED <<setup, nTurns, nMinted, mintedBy, spent>> /\ heard' = Unheard /\ fixTurn.pc = "run"
  BY DEF EndAgent, TurnIs
<1>3. PICK good \in BOOLEAN :
        LET how == IF good THEN Outcome ELSE "exited"
        IN  /\ RecordAttempt(how = "ok")
            /\ \/ /\ how = "ok" /\ Remember
                  /\ fixTurn' = [fixTurn EXCEPT !.pc = "over", !.end = "ok"]
                  /\ UNCHANGED <<refused, sticky>>
               \/ \E f \in Failures(how) : LaneFails(f.retry, f.unavailable)
  BY DEF EndAgent
<1> DEFINE how == IF good THEN Outcome ELSE "exited"
<1>4. RecordAttempt(how = "ok")
  BY <1>3
<1> HIDE DEF how
<1>5. /\ Charging' /\ blank' \subseteq Sessions
      /\ lastRaw' \in [Sessions -> Nat] /\ billed' \in [Sessions -> Nat]
  <2>1. (how = "ok") \in BOOLEAN
    OBVIOUS
  <2> QED BY <2>1, <1>2, <1>4, RowCharges
<1>6. CASE /\ Remember
           /\ fixTurn' = [fixTurn EXCEPT !.pc = "over", !.end = "ok"]
           /\ UNCHANGED <<refused, sticky>>
  <2>1. /\ fixTurn' \in TurnRecords /\ fixTurn'.pc = "over" /\ fixTurn'.session = fixTurn.session
        /\ fixTurn'.cands = fixTurn.cands /\ fixTurn'.at = fixTurn.at /\ fixTurn'.end = "ok"
    BY <1>1, <1>6 DEF TurnsTyped, TurnRecords
  <2>2. /\ fixerId' \in {fixerId, heard.sid} /\ fixerRow' \in {fixerRow, heard.sid}
        /\ heard.sid = NoSession \/ heard.sid = fixerId => fixerId' = fixerId /\ fixerRow' = fixerRow
    BY <1>6 DEF Remember, StoreSession
  <2>3. fixerId' \in 0..nMinted /\ fixerRow' \in 0..nMinted
    BY <2>2, <1>1 DEF TurnsTyped
  <2>4. heard.sid \notin {NoSession, fixerId} => heard.sid \notin refused
    BY <1>1, <1>2 DEF Naming, Asking
  <2>5. DeadIsDropped'
    BY <2>2, <2>4, <1>1, <1>6 DEF DeadIsDropped
  <2>6. TurnsTyped'
    BY <1>1, <1>2, <1>5, <1>6, <2>1, <2>3, TurnsAtRest DEF TurnsTyped, Unheard, NoSession
  <2>7. Asking'
    BY <1>1, <2>1 DEF Asking
  <2>8. Naming'
    BY <1>2 DEF Naming, Unheard
  <2> QED BY <2>5, <2>6, <2>7, <2>8, <1>5 DEF TurnsInv
<1>7. CASE \E f \in Failures(how) : LaneFails(f.retry, f.unavailable)
  <2>1. PICK f \in Failures(how) : LaneFails(f.retry, f.unavailable)
    BY <1>7
  <2>2. f.retry \in BOOLEAN /\ f.unavailable \in BOOLEAN
    BY DEF Failures
  <2>3. /\ fixTurn' \in TurnRecords /\ fixTurn'.session \in 0..nMinted /\ refused' \subseteq 1..nMinted
        /\ fixerId' \in 0..nMinted /\ fixerRow' \in 0..nMinted /\ Asking' /\ Naming' /\ DeadIsDropped'
    BY <1>2, <2>1, <2>2, LaneFailsSoundly
  <2>4. TurnsTyped'
    BY <1>1, <1>2, <1>5, <2>3, TurnsAtRest DEF TurnsTyped, Unheard, NoSession
  <2> QED BY <2>3, <2>4, <1>5 DEF TurnsInv
<1>8. \/ /\ Remember
         /\ fixTurn' = [fixTurn EXCEPT !.pc = "over", !.end = "ok"]
         /\ UNCHANGED <<refused, sticky>>
      \/ \E f \in Failures(how) : LaneFails(f.retry, f.unavailable)
  BY <1>3 DEF how
<1> QED BY <1>6, <1>7, <1>8

LEMMA NextTurnKeeps == ASSUME TurnsInv, NextTurn PROVE TurnsInv'
<1>1. TurnsTyped /\ Asking /\ Naming /\ DeadIsDropped /\ Charging
  BY DEF TurnsInv
<1>2. UNCHANGED <<setup, fixerId, fixerRow, heard, nTurns, nMinted, mintedBy, spent, lastRaw, billed, blank, refused, sticky>>
      /\ fixTurn' = NoTurn /\ fixTurn.pc = "over"
  BY DEF NextTurn, TurnIs, ledger
<1>3. NoTurn.pc = "idle" /\ NoTurn.session = 0 /\ NoTurn.end = "none"
  BY DEF NoTurn, NoSession
<1>4. TurnsTyped'
  BY <1>1, <1>2, <1>3, TurnsAtRest, TurnBounds DEF TurnsTyped
<1>5. Asking'
  BY <1>2, <1>3, TurnsAtRest DEF Asking
<1>6. Naming'
  BY <1>1, <1>2 DEF Naming, Unheard
<1>7. Charging' /\ DeadIsDropped'
  BY <1>1, <1>2, RowsStand DEF DeadIsDropped
<1> QED BY <1>4, <1>5, <1>6, <1>7 DEF TurnsInv

LEMMA RestartKeeps == ASSUME TurnsInv, RestartParked PROVE TurnsInv'
<1>1. TurnsTyped /\ Asking /\ Naming /\ DeadIsDropped /\ Charging
  BY DEF TurnsInv
<1>2. /\ UNCHANGED <<fixerRow, heard, nTurns, nMinted, mintedBy, spent, lastRaw, billed, blank, refused, sticky>>
      /\ fixTurn.pc = "idle" /\ setup' \in Setups /\ fixerId' \in {fixerRow, NoSession}
      /\ fixTurn' \in {fixTurn, [NoTurn EXCEPT !.pc = "over", !.end = "lost"]}
  BY DEF RestartParked, TurnIs, ledger
<1>3. /\ fixTurn' \in TurnRecords /\ fixTurn'.session \in 0..nMinted /\ fixTurn'.pc \in {"idle", "over"}
      /\ fixTurn'.at \in 1..Len(fixTurn'.cands)
      /\ fixTurn'.end = "failed" => fixTurn'.had = NoSession \/ fixTurn'.again = TRUE
  <2>1. CASE fixTurn' = fixTurn
    BY <2>1, <1>1, <1>2 DEF TurnsTyped, Asking
  <2>2. CASE fixTurn' = [NoTurn EXCEPT !.pc = "over", !.end = "lost"]
    <3>1. NoTurn \in TurnRecords /\ NoTurn.session = 0 /\ 0 \in 0..nMinted
      BY <1>1, TurnsAtRest, TurnBounds DEF NoTurn, NoSession, TurnsTyped
    <3>2. /\ fixTurn' \in TurnRecords /\ fixTurn'.session = 0 /\ fixTurn'.pc = "over" /\ fixTurn'.end = "lost"
          /\ fixTurn'.at = NoTurn.at /\ fixTurn'.cands = NoTurn.cands
      BY <2>2, <3>1 DEF TurnRecords
    <3> QED BY <3>1, <3>2, TurnsAtRest
  <2> QED BY <2>1, <2>2, <1>2
<1>4. heard = Unheard
  BY <1>1, <1>2 DEF Naming
<1>5. TurnsTyped'
  BY <1>1, <1>2, <1>3, TurnBounds DEF TurnsTyped, NoSession
<1>6. Asking'
  BY <1>3 DEF Asking
<1>7. Naming'
  BY <1>2, <1>4 DEF Naming, Unheard
<1>8. DeadIsDropped'
  <2>1. NoSession \notin refused
    BY <1>1 DEF TurnsTyped, NoSession
  <2> QED BY <2>1, <1>1, <1>2 DEF DeadIsDropped
<1>9. Charging'
  BY <1>1, <1>2, RowsStand
<1> QED BY <1>5, <1>6, <1>7, <1>8, <1>9 DEF TurnsInv

LEMMA TurnsStepKeeps == TurnsInv /\ [TurnsNext]_turnsVars => TurnsInv'
<1>1. TurnsInv /\ TurnsNext => TurnsInv'
  BY BeginKeeps, CancelKeeps, SpawnKeeps, HearKeeps, EndKeeps, NextTurnKeeps, RestartKeeps DEF TurnsNext
<1>2. TurnsInv /\ UNCHANGED turnsVars => TurnsInv'
  BY DEF turnsVars, ledger, TurnsInv, TurnsTyped, Asking, Naming, DeadIsDropped, Charging, LanesFor, Adapter
<1> QED BY <1>1, <1>2

LEMMA TurnsInvIsSafe == TurnsInv => TurnsSafe
<1> SUFFICES ASSUME TurnsInv PROVE TurnsSafe
  OBVIOUS
<1>1. TurnsTyped /\ Asking /\ Naming /\ DeadIsDropped /\ Charging
  BY DEF TurnsInv
<1>2. TurnsTypeOK
  BY <1>1, TurnBounds DEF TurnsTypeOK, TurnsTyped, Asking
<1>3. OnlyOwnerResumes
  BY OwnerAsked DEF OnlyOwnerResumes
<1>4. FreshBeforeFailing
  BY <1>1 DEF FreshBeforeFailing, Asking
<1>5. UsageAccounted
  <2>1. ASSUME NEW s \in Sessions
        PROVE  /\ mintedBy[s] = "codex" => lastRaw[s] <= billed[s]
               /\ s \notin blank => billed[s] <= spent[s]
    <3>1. spent[s] \in Nat /\ billed[s] \in Nat /\ heard.raw \in Nat /\ lastRaw[s] \in Nat
      BY <1>1, TurnFields DEF TurnsTyped
    <3> QED BY <3>1, <1>1 DEF Charging
  <2> QED BY <2>1 DEF UsageAccounted
<1> QED BY <1>1, <1>2, <1>3, <1>4, <1>5 DEF TurnsSafe

\* What a fixer's turns keep to, whatever lanes fail, restarts happen and
\* configurations change.
THEOREM TurnsInvHolds == TurnsSpec => []TurnsInv
<1>1. TurnsInit => TurnsInv
  BY TurnsStart
<1>2. TurnsInv /\ [TurnsNext]_turnsVars => TurnsInv'
  BY TurnsStepKeeps
<1> QED BY <1>1, <1>2, PTL DEF TurnsSpec

\* A session is resumed only by its owner, given up only for a fresh one, never
\* kept once its resume failed, and charged for what it used and no more.
THEOREM TurnsAreSafe == TurnsSpec => []TurnsSafe
<1>1. TurnsInv => TurnsSafe
  BY TurnsInvIsSafe
<1> QED BY <1>1, TurnsInvHolds, PTL

-----------------------------------------------------------------------------
(* The screen.                                                             *)

JobRecords ==
    [no : 0..MaxBreaks, rev : Nat, over : BOOLEAN, status : [Steps -> Statuses], found : [Steps -> FindingSets]]
FrameRecords ==
    [kind : {"status", "completed"}, rev : Nat, step : Steps, status : Statuses, found : FindingSets]
Origins == [no : 0..MaxBreaks, round : 0..MaxRounds]
Screens ==
    [no : 0..MaxBreaks, rev : Nat, done : BOOLEAN, status : [Steps -> Statuses], found : [Steps -> FindingSets],
     count : [Steps -> 0..MaxRounds], edits : [Steps -> SUBSET Edits],
     editor : [kind : {"none", "note", "added"}, step : Steps, round : 0..MaxRounds],
     loaded : [Steps -> Origins], fetching : [Steps -> BOOLEAN], retryDiff : BOOLEAN,
     pending : BOOLEAN, again : BOOLEAN, retryRead : BOOLEAN, link : {"up", "lost", "down"},
     yolo : BOOLEAN, yoloFixed : SUBSET Steps, yoloApproved : SUBSET Steps]

ScreenTyped ==
    /\ job \in JobRecords /\ job.no <= breaks
    /\ gapped \in BOOLEAN /\ frames \in Seq(FrameRecords) /\ Len(frames) <= MaxFrames
    /\ m \in Screens
    /\ reads \subseteq Reads
    /\ snapshot \in [at : {"idle", "asked", "read", "failed"}, run : JobRecords]
    /\ rulings \subseteq [no : 0..MaxBreaks, step : Steps, action : {"approve", "fix"}]
    /\ breaks \in 0..MaxBreaks /\ presses \in 0..MaxPresses

Sent == {frames[i] : i \in DOMAIN frames}

\* A step begins when all before it are completed.
InTurn(status) == \A s, t \in Steps : s < t /\ status[t] # "pending" => status[s] = "completed"

\* A gate shows the findings of a round.
GatesShow(status, found) == \A s \in Steps : status[s] \in Gates => found[s].round >= 1

\* No step shows a later round than the run has come to.
NoLater(found) == \A s \in Steps : found[s].round <= job.found[s].round

\* The run, and what is read of it or on its way.
RunSound ==
    /\ InTurn(job.status) /\ GatesShow(job.status, job.found)
    /\ snapshot.at = "read" =>
        /\ snapshot.run.no = job.no /\ snapshot.run.rev <= job.rev
        /\ InTurn(snapshot.run.status) /\ GatesShow(snapshot.run.status, snapshot.run.found)
        /\ NoLater(snapshot.run.found)
    /\ \A f \in Sent :
        /\ f.rev >= 1 /\ f.rev <= job.rev
        /\ f.found.round <= job.found[f.step].round
        /\ f.status \in Gates => f.found.round >= 1
    /\ \A i, j \in DOMAIN frames : i < j => frames[i].rev < frames[j].rev
    /\ m.link # "up" => frames = <<>> /\ ~gapped

\* The screen is the run's, if not its latest state.
Shown ==
    /\ m.no = job.no /\ m.rev <= job.rev
    /\ GatesShow(m.status, m.found) /\ NoLater(m.found)
    /\ m.pending <=> snapshot.at # "idle"
    /\ m.editor = NoEditor \/ (m.editor.kind # "none" /\ m.editor.round >= 1)

\* A diff that is held, or brought by an answer that counts, is of no earlier round.
DiffsCurrent ==
    /\ \A s \in Steps : m.loaded[s] # Nothing =>
        m.loaded[s].no = m.no /\ m.loaded[s].round >= m.found[s].round
    /\ \A r \in reads : diffAnswered(r) /\ r.at \in {"read", "shown"} =>
        r.of.no = m.no /\ r.of.round >= m.found[r.step].round

\* What is noted at a gate is of its round.
Noted == \A s \in Steps : m.status[s] \in Gates =>
            \A x \in m.edits[s] : x.round = m.found[s].round \/ x.late

\* Nothing but the frames on their way is going to change the screen.
Followed == m.link = "up" /\ ~gapped /\ ~m.pending /\ ~m.retryRead /\ ~m.done

\* Every change after rev is on its way.
Coming(rev) == \A k \in rev + 1..job.rev : \E f \in Sent : f.rev = k

\* The statuses of the run at each of its revisions.
After(f, status) == IF f.kind = "status" THEN [status EXCEPT ![f.step] = f.status] ELSE status
Past(h) ==
    /\ h \in [Nat -> [Steps -> Statuses]]
    /\ \A k \in 0..job.rev : InTurn(h[k])
    /\ h[job.rev] = job.status
    /\ \A f \in Sent : h[f.rev] = After(f, h[f.rev - 1])
    /\ snapshot.at = "read" => snapshot.run.status = h[snapshot.run.rev]
    /\ Followed => m.status = h[m.rev]

Followable ==
    /\ Followed => Coming(m.rev)
    /\ m.link = "up" /\ ~gapped /\ ~m.done /\ ~m.again /\ snapshot.at = "read" /\ snapshot.run.rev >= m.rev =>
        Coming(snapshot.run.rev)

\* A diff that is missing is asked for, or its user may ask.
DiffsAsked ==
    Followed /\ ~m.retryDiff =>
        \A s \in Steps : m.status[s] = "fixed" /\ (m.loaded[s] = Nothing \/ m.fetching[s]) =>
            \E r \in reads : r.step = s /\ diffAnswered(r) /\ r.at # "shown"

ScreenInv ==
    /\ ScreenTyped /\ RunSound /\ Shown /\ DiffsCurrent /\ Noted
    /\ \E h : Past(h)
    /\ Followable /\ DiffsAsked

-----------------------------------------------------------------------------
(* Steps, rounds and gates.                                                *)

LEMMA ScreenNumbers ==
    /\ Kinds \subseteq {"ask", "fix", "info"}
    /\ NSteps \in Nat \ {0} /\ MaxRounds \in Nat \ {0} /\ MaxChanges \in Nat \ {0} /\ MaxFrames \in Nat \ {0}
    /\ MaxBreaks \in Nat /\ MaxPresses \in Nat
    /\ Steps \subseteq Nat \ {0} /\ 1 \in Steps
<1>1. NSteps \in Nat \ {0}
    BY ScreenBounds
<1>2. Steps \subseteq Nat \ {0} /\ 1 \in Steps
    BY <1>1 DEF Steps
<1> QED BY <1>1, <1>2, ScreenBounds

\* A set of numbers has a least one.
LEMMA Least ==
    ASSUME NEW T, T \subseteq Nat, T # {}
    PROVE  \E n \in T : \A k \in T : n <= k
<1> DEFINE R == OpToRel(<, Nat)
<1>1. IsWellFoundedOn(R, Nat)
    BY NatLessThanWellFounded
<1>2. \A x \in Nat, y \in Nat : <<x, y>> \in R <=> x < y
    BY DEF OpToRel
<1> HIDE DEF R
<1>3. PICK n \in T : \A k \in T : ~(<<k, n>> \in R)
    BY <1>1, WFMin
<1>4. \A k \in T : k \in Nat /\ n \in Nat
    OBVIOUS
<1>5. \A k \in T : ~(k < n)
    BY <1>2, <1>3, <1>4
<1>6. \A k \in T : n <= k
    BY <1>4, <1>5
<1> QED BY <1>6

LEMMA FirstAtGate ==
    ASSUME NEW status
    PROVE  LET s == awaitingStep(status) IN
           \/ s = NoStep /\ \A t \in Steps : status[t] \notin Gates
           \/ s \in Steps /\ s # NoStep /\ status[s] \in Gates
<1> DEFINE at == {s \in Steps : status[s] \in Gates}
           s == awaitingStep(status)
<1>1. CASE at = {}
    <2>1. s = NoStep
        BY <1>1 DEF awaitingStep
    <2>2. \A t \in Steps : status[t] \notin Gates
        BY <1>1
    <2> QED BY <2>1, <2>2
<1>2. CASE at # {}
    <2>1. at \subseteq Nat
        BY ScreenNumbers
    <2>2. \E n \in at : \A k \in at : n <= k
        BY <1>2, <2>1, Least
    <2>3. s = CHOOSE n \in at : \A k \in at : n <= k
        BY <1>2 DEF awaitingStep
    <2> HIDE DEF at, s
    <2>4. s \in at
        BY <2>2, <2>3
    <2>5. s \in Steps /\ status[s] \in Gates
        BY <2>4 DEF at
    <2>6. s # NoStep
        BY <2>5, ScreenNumbers DEF NoStep
    <2> QED BY <2>5, <2>6 DEF s
<1> QED BY <1>1, <1>2

\* In a run, one step at most is at a gate.
LEMMA OneGate ==
    ASSUME NEW status, InTurn(status), NEW t \in Steps, status[t] \in Gates
    PROVE  awaitingStep(status) = t
<1> DEFINE s == awaitingStep(status)
<1>1. s \in Steps /\ status[s] \in Gates
    BY FirstAtGate
<1>2. s \in Nat /\ t \in Nat
    BY <1>1, ScreenNumbers
<1> HIDE DEF s
<1>3. ~(s < t)
    BY <1>1 DEF InTurn, Gates
<1>4. ~(t < s)
    BY <1>1 DEF InTurn, Gates
<1>5. s = t
    BY <1>2, <1>3, <1>4
<1> QED BY <1>5 DEF s

\* A step that moves in its turn leaves the others in theirs.
LEMMA MovesInTurn ==
    ASSUME NEW status \in [Steps -> Statuses], InTurn(status), NEW s \in Steps, NEW new,
           status[s] # "completed",
           status[s] # "pending" \/ \A t \in Steps : t < s => status[t] = "completed"
    PROVE  InTurn([status EXCEPT ![s] = new])
<1> DEFINE st == [status EXCEPT ![s] = new]
<1>1. \A t \in Steps : t # s => st[t] = status[t]
    OBVIOUS
<1> HIDE DEF st
<1> SUFFICES ASSUME NEW a \in Steps, NEW b \in Steps, a < b, st[b] # "pending"
             PROVE  st[a] = "completed"
    BY DEF InTurn, st
<1>2. a \in Nat /\ b \in Nat /\ s \in Nat
    BY ScreenNumbers
<1>3. CASE a # s /\ b # s
    BY <1>1, <1>3 DEF InTurn
<1>4. CASE b = s
    <2>1. a # s
        BY <1>2, <1>4
    <2>2. status[a] = "completed"
        <3>1. CASE status[s] # "pending"
            BY <1>4, <3>1 DEF InTurn
        <3>2. CASE \A t \in Steps : t < s => status[t] = "completed"
            BY <1>4, <3>2
        <3> QED BY <3>1, <3>2
    <2> QED BY <2>1, <2>2, <1>1
<1>5. CASE a = s /\ b # s
    <2>1. status[b] # "pending"
        BY <1>1, <1>5
    <2>2. status[s] = "completed"
        BY <2>1, <1>5 DEF InTurn
    <2> QED BY <2>2
<1> QED BY <1>3, <1>4, <1>5

-----------------------------------------------------------------------------
(* Frames.                                                                 *)

\* Publish: the frame is the newest under way, or the mailbox has a gap.
LEMMA PublishSends ==
    ASSUME ScreenTyped, NEW f \in FrameRecords, Publish(f)
    PROVE  /\ gapped' \in BOOLEAN /\ frames' \in Seq(FrameRecords) /\ Len(frames') <= MaxFrames
           /\ Sent \subseteq Sent' /\ Sent' \subseteq Sent \cup {f}
           /\ m.link = "up" /\ ~gapped' => ~gapped /\ f \in Sent'
           /\ m.link # "up" => frames' = frames /\ gapped' = gapped
           /\ (\A g \in Sent : g.rev < f.rev) /\ (\A i, j \in DOMAIN frames : i < j => frames[i].rev < frames[j].rev)
                => (\A i, j \in DOMAIN frames' : i < j => frames'[i].rev < frames'[j].rev)
<1>1. frames \in Seq(FrameRecords) /\ gapped \in BOOLEAN /\ Len(frames) <= MaxFrames /\ Len(frames) \in Nat
    BY DEF ScreenTyped
<1>2. CASE UNCHANGED <<gapped, frames>> /\ (gapped \/ m.link # "up")
    BY <1>1, <1>2 DEF Sent
<1>3. CASE gapped' = TRUE /\ frames' = frames /\ m.link = "up"
    BY <1>1, <1>3 DEF Sent
<1>4. CASE m.link = "up" /\ ~gapped /\ Len(frames) < MaxFrames /\ frames' = Append(frames, f) /\ gapped' = gapped
    <2> DEFINE n == Len(frames)
    <2>1. /\ frames' \in Seq(FrameRecords) /\ Len(frames') = n + 1 /\ frames'[n + 1] = f
          /\ \A i \in 1..n : frames'[i] = frames[i]
        BY <1>1, <1>4
    <2>2. DOMAIN frames = 1..n /\ DOMAIN frames' = 1..(n + 1) /\ n \in Nat
        BY <1>1, <2>1
    <2>3. Len(frames') <= MaxFrames
        BY <1>1, <1>4, <2>1, ScreenNumbers
    <2>4. Sent \subseteq Sent' /\ Sent' \subseteq Sent \cup {f} /\ f \in Sent'
        <3>1. ASSUME NEW i \in DOMAIN frames PROVE frames[i] \in Sent'
            <4>1. i \in DOMAIN frames' /\ frames'[i] = frames[i]
                BY <2>1, <2>2, <3>1
            <4> QED BY <4>1 DEF Sent
        <3>2. ASSUME NEW i \in DOMAIN frames' PROVE frames'[i] \in Sent \cup {f}
            <4>1. CASE i = n + 1
                BY <4>1, <2>1
            <4>2. CASE i # n + 1
                <5>1. i \in DOMAIN frames /\ frames'[i] = frames[i]
                    BY <2>1, <2>2, <4>2, <3>2
                <5> QED BY <5>1 DEF Sent
            <4> QED BY <4>1, <4>2
        <3>3. n + 1 \in DOMAIN frames'
            BY <2>2
        <3>4. f \in Sent'
            BY <3>3, <2>1 DEF Sent
        <3> QED BY <3>1, <3>2, <3>4 DEF Sent
    <2>5. ASSUME \A g \in Sent : g.rev < f.rev, \A i, j \in DOMAIN frames : i < j => frames[i].rev < frames[j].rev,
                 NEW i \in DOMAIN frames', NEW j \in DOMAIN frames', i < j
          PROVE  frames'[i].rev < frames'[j].rev
        <3>1. i \in DOMAIN frames /\ frames'[i] = frames[i] /\ frames[i] \in Sent
            BY <2>1, <2>2, <2>5 DEF Sent
        <3>2. CASE j = n + 1
            BY <3>1, <3>2, <2>1, <2>5
        <3>3. CASE j # n + 1
            <4>1. j \in DOMAIN frames /\ frames'[j] = frames[j]
                BY <2>1, <2>2, <2>5, <3>3
            <4> QED BY <4>1, <3>1, <2>5
        <3> QED BY <3>2, <3>3
    <2>6. (\A g \in Sent : g.rev < f.rev) /\ (\A i, j \in DOMAIN frames : i < j => frames[i].rev < frames[j].rev)
            => (\A i, j \in DOMAIN frames' : i < j => frames'[i].rev < frames'[j].rev)
        BY <2>5
    <2>7. gapped' \in BOOLEAN /\ ~gapped
        BY <1>1, <1>4
    <2>8. frames' \in Seq(FrameRecords) /\ m.link = "up"
        BY <2>1, <1>4
    <2> HIDE DEF n
    <2> QED BY <2>3, <2>4, <2>6, <2>7, <2>8
<1> QED BY <1>1, <1>2, <1>3, <1>4 DEF Publish

\* The frame taken is the oldest.
LEMMA TakesOldest ==
    ASSUME ScreenTyped, RunSound, frames # <<>>, frames' = Tail(frames)
    PROVE  LET f == Head(frames) IN
           /\ f \in FrameRecords /\ f \in Sent
           /\ frames' \in Seq(FrameRecords) /\ Len(frames') <= MaxFrames
           /\ Sent = Sent' \cup {f}
           /\ \A g \in Sent' : f.rev < g.rev
           /\ \A i, j \in DOMAIN frames' : i < j => frames'[i].rev < frames'[j].rev
<1> DEFINE f == Head(frames)
           n == Len(frames)
<1>1. frames \in Seq(FrameRecords) /\ Len(frames) <= MaxFrames /\ MaxFrames \in Nat
    BY ScreenNumbers DEF ScreenTyped
<1>2. /\ n \in Nat \ {0} /\ f = frames[1] /\ f \in FrameRecords
      /\ frames' \in Seq(FrameRecords) /\ Len(frames') = n - 1
      /\ \A i \in 1..n - 1 : frames'[i] = frames[i + 1]
    BY <1>1
<1>3. DOMAIN frames = 1..n /\ DOMAIN frames' = 1..n - 1
    BY <1>1, <1>2
<1> HIDE DEF f, n
<1>4. \A i \in DOMAIN frames' : i + 1 \in DOMAIN frames /\ frames'[i] = frames[i + 1] /\ i \in Nat /\ 1 < i + 1
    BY <1>2, <1>3
<1>5. 1 \in DOMAIN frames
    BY <1>2, <1>3
<1>6. f \in Sent
    BY <1>2, <1>5 DEF Sent
<1>7. Sent' \subseteq Sent
    BY <1>4 DEF Sent
<1>8. Sent \subseteq Sent' \cup {f}
    <2> SUFFICES ASSUME NEW i \in DOMAIN frames
                 PROVE  frames[i] \in Sent' \cup {f}
        BY DEF Sent
    <2>1. CASE i = 1
        BY <2>1, <1>2
    <2>2. CASE i # 1
        <3>1. i - 1 \in DOMAIN frames' /\ frames'[i - 1] = frames[i]
            BY <2>2, <1>2, <1>3
        <3> QED BY <3>1 DEF Sent
    <2> QED BY <2>1, <2>2
<1>9. \A g \in Sent' : f.rev < g.rev
    BY <1>2, <1>4, <1>5 DEF Sent, RunSound
<1>10. \A i, j \in DOMAIN frames' : i < j => frames'[i].rev < frames'[j].rev
    BY <1>4 DEF RunSound
<1>11. Len(frames') <= MaxFrames
    BY <1>1, <1>2 DEF n
<1> QED BY <1>2, <1>6, <1>7, <1>8, <1>9, <1>10, <1>11 DEF f

-----------------------------------------------------------------------------
(* What the helpers make of a model and of the calls in flight.            *)

\* y has of the run what x has, and reads it alike.
Abreast(x, y) ==
    /\ y.no = x.no /\ y.rev = x.rev /\ y.done = x.done /\ y.status = x.status /\ y.found = x.found
    /\ y.pending = x.pending /\ y.again = x.again /\ y.retryRead = x.retryRead /\ y.link = x.link

\* All that a model shows and knows but its diffs.
Alike(x, y) == Abreast(x, y) /\ y.count = x.count /\ y.edits = x.edits /\ y.editor = x.editor

LEMMA Invalidates ==
    ASSUME NEW x \in Screens, NEW S
    PROVE  LET y == invalidateStepDiff(x, S) IN
           /\ y \in Screens /\ Alike(x, y)
           /\ \A t \in Steps : y.loaded[t] = IF t \in S THEN Nothing ELSE x.loaded[t]
           /\ \A t \in Steps : t \notin S => y.fetching[t] = x.fetching[t]
           /\ y.retryDiff = (x.retryDiff /\ hasFixReviewStep(x))
<1> DEFINE y == invalidateStepDiff(x, S)
<1>1. /\ x.loaded \in [Steps -> Origins] /\ x.fetching \in [Steps -> BOOLEAN] /\ x.retryDiff \in BOOLEAN
      /\ Nothing \in Origins
    BY ScreenNumbers DEF Screens, Nothing, Origins
<1>2. (x.retryDiff /\ hasFixReviewStep(x)) \in BOOLEAN
    BY <1>1 DEF hasFixReviewStep
<1>3. [s \in Steps |-> IF s \in S THEN Nothing ELSE x.loaded[s]] \in [Steps -> Origins]
    BY <1>1
<1>4. [s \in Steps |-> s \notin S /\ x.fetching[s]] \in [Steps -> BOOLEAN]
    BY <1>1
<1>5. y = [x EXCEPT !.loaded = [s \in Steps |-> IF s \in S THEN Nothing ELSE x.loaded[s]],
                    !.fetching = [s \in Steps |-> s \notin S /\ x.fetching[s]],
                    !.retryDiff = x.retryDiff /\ hasFixReviewStep(x)]
    BY DEF invalidateStepDiff, Screens
<1> HIDE DEF y
<1>6. y \in Screens
    BY <1>2, <1>3, <1>4, <1>5 DEF Screens
<1>7. /\ Alike(x, y) /\ y.loaded = [s \in Steps |-> IF s \in S THEN Nothing ELSE x.loaded[s]]
      /\ y.fetching = [s \in Steps |-> s \notin S /\ x.fetching[s]]
      /\ y.retryDiff = (x.retryDiff /\ hasFixReviewStep(x))
    BY <1>5 DEF Screens, Alike, Abreast
<1>8. \A t \in Steps : t \notin S => y.fetching[t] = x.fetching[t]
    BY <1>1, <1>7
<1>9. \A t \in Steps : y.loaded[t] = IF t \in S THEN Nothing ELSE x.loaded[t]
    BY <1>7
<1> QED BY <1>6, <1>7, <1>8, <1>9 DEF y

LEMMA Requests ==
    ASSUME NEW x \in Screens, NEW s \in Steps
    PROVE  LET y == requestStepDiff(x, s) IN
           /\ y \in Screens /\ Alike(x, y) /\ y.retryDiff = FALSE
           /\ \A t \in Steps : y.loaded[t] = IF t = s THEN Nothing ELSE x.loaded[t]
<1> DEFINE y == requestStepDiff(x, s)
<1>1. Nothing \in Origins
    BY ScreenNumbers DEF Nothing, Origins
<1>2. y \in Screens
    BY <1>1 DEF Screens, requestStepDiff
<1>3. Alike(x, y) /\ y.loaded = [x.loaded EXCEPT ![s] = Nothing] /\ y.retryDiff = FALSE
    BY DEF Screens, requestStepDiff, Alike, Abreast
<1>4. x.loaded \in [Steps -> Origins]
    BY DEF Screens
<1> HIDE DEF y
<1>5. \A t \in Steps : y.loaded[t] = IF t = s THEN Nothing ELSE x.loaded[t]
    BY <1>3, <1>4
<1> QED BY <1>2, <1>3, <1>5 DEF y

LEMMA NewRequest ==
    ASSUME NEW s \in Steps
    PROVE  /\ Requested(s) \subseteq Reads /\ Requested(s) # {}
           /\ \A r \in Requested(s) : r.step = s /\ diffAnswered(r) /\ r.at = "asked"
<1>1. Nothing \in Origins
    BY ScreenNumbers DEF Nothing, Origins
<1> QED BY <1>1 DEF Requested, Reads, Origins, diffAnswered

\* Of the calls of the steps in S, the answers do not count any more.
LEMMA Outdates ==
    ASSUME reads \subseteq Reads, NEW S
    PROVE  /\ Outdated(S) \subseteq Reads
           /\ \A r \in Outdated(S) : diffAnswered(r) => r \in reads /\ r.step \notin S
           /\ \A r \in reads : r.step \notin S => r \in Outdated(S)
<1>1. \A r \in reads : /\ [r EXCEPT !.newest = FALSE] \in Reads
                       /\ ~diffAnswered([r EXCEPT !.newest = FALSE])
    BY DEF Reads, diffAnswered
<1> QED BY <1>1 DEF Outdated, Served

\* No answer to a call of the old connection counts.
LEMMA Orphans ==
    ASSUME NEW rs, rs \subseteq Reads
    PROVE  Orphaned(rs) \subseteq Reads /\ \A r \in Orphaned(rs) : ~diffAnswered(r)
<1>1. \A r \in Reads : /\ [r EXCEPT !.mine = FALSE] \in Reads
                       /\ ~diffAnswered([r EXCEPT !.mine = FALSE])
    BY DEF Reads, diffAnswered
<1> QED BY <1>1 DEF Orphaned, Served

LEMMA Resubscribes ==
    ASSUME NEW x \in Screens
    PROVE  LET y == startResubscribe(x) IN
           /\ y \in Screens
           /\ y.no = x.no /\ y.rev = 0 /\ y.status = x.status /\ y.found = x.found /\ y.done = x.done
           /\ y.edits = x.edits /\ y.editor = x.editor /\ y.pending = FALSE /\ y.link = "down"
           /\ \A t \in Steps : y.loaded[t] = Nothing
<1>1. Nothing \in Origins
    BY ScreenNumbers DEF Nothing, Origins
<1>2. /\ [s \in Steps |-> Nothing] \in [Steps -> Origins]
      /\ [s \in Steps |-> FALSE] \in [Steps -> BOOLEAN]
    BY <1>1
<1>3. startResubscribe(x) \in Screens
    BY <1>2 DEF Screens, startResubscribe
<1> QED BY <1>3 DEF Screens, startResubscribe

\* maybeAutoApproveCmd may send a ruling, and remembers it.
LEMMA AutoApproves ==
    ASSUME NEW x \in Screens, x.no \in 0..MaxBreaks, maybeAutoApprove(x),
           rulings \subseteq [no : 0..MaxBreaks, step : Steps, action : {"approve", "fix"}], m.no \in 0..MaxBreaks
    PROVE  /\ m' \in Screens /\ Alike(x, m')
           /\ m'.loaded = x.loaded /\ m'.fetching = x.fetching /\ m'.retryDiff = x.retryDiff
           /\ rulings' \subseteq [no : 0..MaxBreaks, step : Steps, action : {"approve", "fix"}]
<1> DEFINE s == awaitingStep(x.status)
<1>1. CASE m' = x /\ rulings' = rulings
    BY <1>1 DEF Alike, Abreast
<1>2. CASE YoloRules(x)
    <2>1. s \in Steps
        BY <1>2, FirstAtGate DEF YoloRules
    <2> HIDE DEF s
    <2>2. /\ m' = [x EXCEPT !.yoloFixed = @ \cup {s}] \/ m' = [x EXCEPT !.yoloApproved = @ \cup {s}]
             \/ m' = x
          /\ respondCmd(s, "fix") \/ respondCmd(s, "approve") \/ rulings' = rulings
        BY <1>2 DEF maybeAutoApprove, s
    <2>3. m' \in Screens /\ Alike(x, m') /\ m'.loaded = x.loaded /\ m'.fetching = x.fetching /\ m'.retryDiff = x.retryDiff
        BY <2>1, <2>2 DEF Screens, Alike, Abreast
    <2>4. rulings' \subseteq [no : 0..MaxBreaks, step : Steps, action : {"approve", "fix"}]
        BY <2>1, <2>2 DEF respondCmd
    <2> QED BY <2>3, <2>4
<1> QED BY <1>1, <1>2 DEF maybeAutoApprove

\* NewJob is a run, NoSnapshot a call and NewModel a model.
LEMMA FreshRun ==
    /\ \A no \in 0..MaxBreaks : NewJob(no) \in JobRecords
    /\ NoSnapshot \in [at : {"idle", "asked", "read", "failed"}, run : JobRecords] /\ NoSnapshot.at = "idle"
    /\ LET asked == [NoSnapshot EXCEPT !.at = "asked"] IN
       /\ asked \in [at : {"idle", "asked", "read", "failed"}, run : JobRecords] /\ asked.at = "asked"
<1>1. NoFindings \in FindingSets /\ "pending" \in Statuses /\ 0 \in Nat /\ 0 \in 0..MaxBreaks
    BY ScreenNumbers DEF FindingSets, Statuses
<1>2. \A no \in 0..MaxBreaks : NewJob(no) \in JobRecords
    BY <1>1 DEF NewJob, JobRecords
<1>3. NewJob(0) \in JobRecords
    BY <1>1, <1>2
<1> QED BY <1>2, <1>3 DEF NoSnapshot

-----------------------------------------------------------------------------
(* The run moves.                                                          *)

\* One revision of the run, and its frame.
LEMMA RunMoves ==
    ASSUME ScreenInv, NEW f \in FrameRecords, Publish(f),
           job' \in JobRecords, job'.no = job.no, job'.rev = job.rev + 1, f.rev = job.rev + 1,
           job'.status = After(f, job.status), InTurn(job'.status), GatesShow(job'.status, job'.found),
           \A s \in Steps : job.found[s].round <= job'.found[s].round,
           f.found.round <= job'.found[f.step].round, f.status \in Gates => f.found.round >= 1,
           rulings' \subseteq rulings,
           UNCHANGED <<m, reads, snapshot, boundVars>>
    PROVE  ScreenInv'
<1>1. /\ ScreenTyped /\ RunSound /\ Shown /\ Followable
      /\ m' = m /\ reads' = reads /\ snapshot' = snapshot /\ breaks' = breaks /\ presses' = presses
    BY DEF ScreenInv, boundVars
<1>2. /\ gapped' \in BOOLEAN /\ frames' \in Seq(FrameRecords) /\ Len(frames') <= MaxFrames
      /\ Sent \subseteq Sent' /\ Sent' \subseteq Sent \cup {f}
      /\ m.link = "up" /\ ~gapped' => ~gapped /\ f \in Sent'
      /\ m.link # "up" => frames' = frames /\ gapped' = gapped
    BY <1>1, PublishSends
<1>3. job.rev \in Nat /\ job'.rev \in Nat /\ m.rev \in Nat /\ snapshot.run.rev \in Nat
    BY <1>1 DEF ScreenTyped, JobRecords, Screens
<1>4. \A g \in Sent : g \in FrameRecords
    BY <1>1 DEF ScreenTyped, Sent
<1>5. \A g \in Sent : g.rev \in Nat /\ g.rev >= 1 /\ g.rev <= job.rev /\ g.step \in Steps /\ g.found.round \in Nat
    BY <1>1, <1>4, ScreenNumbers DEF RunSound, FrameRecords, FindingSets, NoFindings
<1>6. ScreenTyped'
    BY <1>1, <1>2 DEF ScreenTyped
<1>7. /\ \A s \in Steps : job.found[s].round \in Nat /\ job'.found[s].round \in Nat
      /\ \A s \in Steps : m.found[s].round \in Nat /\ snapshot.run.found[s].round \in Nat
    <2>1. /\ job.found \in [Steps -> FindingSets] /\ job'.found \in [Steps -> FindingSets]
          /\ m.found \in [Steps -> FindingSets] /\ snapshot.run.found \in [Steps -> FindingSets]
        BY <1>1 DEF ScreenTyped, JobRecords, Screens
    <2>2. \A x \in FindingSets : x.round \in Nat
        BY ScreenNumbers DEF FindingSets, NoFindings
    <2> QED BY <2>1, <2>2
<1>8. \A found : NoLater(found) /\ (\A s \in Steps : found[s].round \in Nat) => NoLater(found)'
    BY <1>7 DEF NoLater
<1>9. RunSound'
    <2>1. snapshot.at = "read" =>
            /\ snapshot.run.no = job'.no /\ snapshot.run.rev <= job'.rev
            /\ InTurn(snapshot.run.status) /\ GatesShow(snapshot.run.status, snapshot.run.found)
            /\ NoLater(snapshot.run.found)'
        BY <1>1, <1>3, <1>7, <1>8 DEF RunSound
    <2>2. \A g \in Sent' : /\ g.rev >= 1 /\ g.rev <= job'.rev
                           /\ g.found.round <= job'.found[g.step].round
                           /\ g.status \in Gates => g.found.round >= 1
        <3>1. \A g \in Sent : /\ g.rev >= 1 /\ g.rev <= job'.rev
                              /\ g.found.round <= job'.found[g.step].round
                              /\ g.status \in Gates => g.found.round >= 1
            BY SMTT(30), <1>1, <1>3, <1>5, <1>7 DEF RunSound
        <3>2. f.rev >= 1 /\ f.rev <= job'.rev
            BY <1>3
        <3> QED BY <3>1, <3>2, <1>2
    <2>3. \A i, j \in DOMAIN frames' : i < j => frames'[i].rev < frames'[j].rev
        <3>1. \A g \in Sent : g.rev < f.rev
            BY <1>3, <1>5
        <3>2. \A i, j \in DOMAIN frames : i < j => frames[i].rev < frames[j].rev
            BY <1>1 DEF RunSound
        <3> QED BY <3>1, <3>2, <1>1, PublishSends
    <2>4. m.link # "up" => frames' = <<>> /\ ~gapped'
        BY <1>1, <1>2 DEF RunSound
    <2> QED BY <1>1, <2>1, <2>2, <2>3, <2>4 DEF RunSound
<1>10. Shown'
    <2>1. NoLater(m.found)'
        BY <1>1, <1>7, <1>8 DEF Shown
    <2> QED BY <1>1, <1>3, <2>1 DEF Shown
<1>11. DiffsCurrent' /\ Noted'
    BY <1>1 DEF ScreenInv, DiffsCurrent, Noted, diffAnswered
<1>12. Followed' => Followed
    BY <1>1, <1>2 DEF Followed
<1>13. \A rev \in Nat : m.link = "up" /\ ~gapped' /\ Coming(rev) => Coming(rev)'
    <2> SUFFICES ASSUME NEW rev \in Nat, m.link = "up", ~gapped', Coming(rev), NEW k \in rev + 1..job'.rev
                 PROVE  \E g \in Sent' : g.rev = k
        BY DEF Coming
    <2>1. CASE k = job'.rev
        BY <2>1, <1>2
    <2>2. CASE k # job'.rev
        <3>1. k \in rev + 1..job.rev
            BY <2>2, <1>3
        <3> QED BY <3>1, <1>2 DEF Coming
    <2> QED BY <2>1, <2>2
<1>14. Followable'
    <2>1. Followed' => Coming(m.rev)'
        BY <1>1, <1>3, <1>12, <1>13 DEF Followable, Followed
    <2>2. m.link = "up" /\ ~gapped' /\ ~m.done /\ ~m.again /\ snapshot.at = "read" /\ snapshot.run.rev >= m.rev =>
            Coming(snapshot.run.rev)'
        BY <1>1, <1>2, <1>3, <1>13 DEF Followable
    <2> QED BY <1>1, <2>1, <2>2 DEF Followable
<1>15. DiffsAsked'
    BY <1>1, <1>12 DEF ScreenInv, DiffsAsked, diffAnswered
<1>16. \E h : Past(h)'
    <2>1. PICK h : Past(h)
        BY DEF ScreenInv
    <2>2. h \in [Nat -> [Steps -> Statuses]] /\ job'.status \in [Steps -> Statuses]
        BY <2>1 DEF Past, JobRecords
    <2>3. PICK g : /\ g \in [Nat -> [Steps -> Statuses]] /\ g[job.rev + 1] = job'.status
                   /\ \A k \in Nat : k # job.rev + 1 => g[k] = h[k]
        <3>1. LET g == [h EXCEPT ![job.rev + 1] = job'.status] IN
              /\ g \in [Nat -> [Steps -> Statuses]] /\ g[job.rev + 1] = job'.status
              /\ \A k \in Nat : k # job.rev + 1 => g[k] = h[k]
            BY <2>2, <1>3
        <3> QED BY <3>1
    <2>4. \A k \in 0..job.rev : g[k] = h[k]
        BY <2>3, <1>3
    <2>5. \A k \in 0..job'.rev : InTurn(g[k])
        BY <2>1, <2>3, <2>4, <1>3 DEF Past
    <2>6. \A e \in Sent' : g[e.rev] = After(e, g[e.rev - 1])
        <3>1. ASSUME NEW e \in Sent PROVE g[e.rev] = After(e, g[e.rev - 1])
            <4>1. e.rev \in 0..job.rev /\ e.rev - 1 \in 0..job.rev
                BY <1>3, <1>5
            <4>2. h[e.rev] = After(e, h[e.rev - 1])
                BY <2>1 DEF Past
            <4> QED BY <4>1, <4>2, <2>4
        <3>2. g[f.rev] = After(f, g[f.rev - 1])
            <4>1. f.rev - 1 = job.rev /\ job.rev \in 0..job.rev
                BY <1>3
            <4>2. g[job.rev] = job.status
                BY <4>1, <2>1, <2>4 DEF Past
            <4> QED BY <4>1, <4>2, <2>3
        <3> QED BY <3>1, <3>2, <1>2
    <2>7. snapshot.at = "read" => snapshot.run.status = g[snapshot.run.rev]
        BY <1>1, <1>3, <2>1, <2>4 DEF Past, RunSound
    <2>8. Followed' => m.status = g[m.rev]
        BY <1>1, <1>3, <1>12, <2>1, <2>4 DEF Past, Shown
    <2>9. g[job'.rev] = job'.status
        BY <2>3
    <2>10. Past(g)'
        BY <1>1, <2>3, <2>5, <2>6, <2>7, <2>8, <2>9 DEF Past
    <2> QED BY <2>10
<1> QED BY <1>6, <1>9, <1>10, <1>11, <1>14, <1>15, <1>16 DEF ScreenInv

\* A step of the run whose turn it is moves.
LEMMA StepMoves ==
    ASSUME ScreenInv, NEW s \in Steps, NEW status \in Statuses, NEW found \in FindingSets,
           Becomes(s, status, found),
           job.status[s] # "completed",
           job.status[s] # "pending" \/ \A t \in Steps : t < s => job.status[t] = "completed",
           job.found[s].round <= found.round, status \in Gates => found.round >= 1,
           rulings' \subseteq rulings
    PROVE  ScreenInv'
<1> DEFINE f == [kind |-> "status", rev |-> job.rev + 1, step |-> s, status |-> status, found |-> found]
<1>1. /\ job \in JobRecords /\ Publish(f) /\ UNCHANGED <<m, reads, snapshot, boundVars>>
      /\ job' = [job EXCEPT !.rev = @ + 1, !.status[s] = status, !.found[s] = found]
      /\ InTurn(job.status) /\ GatesShow(job.status, job.found)
    BY DEF Becomes, ScreenInv, ScreenTyped, RunSound
<1>2. f \in FrameRecords /\ f.rev = job.rev + 1 /\ f.step = s /\ f.status = status /\ f.found = found /\ f.kind = "status"
    BY <1>1 DEF FrameRecords, JobRecords
<1> HIDE DEF f
<1>3. /\ job' \in JobRecords /\ job'.no = job.no /\ job'.rev = job.rev + 1
      /\ job'.status = [job.status EXCEPT ![s] = status] /\ job'.found = [job.found EXCEPT ![s] = found]
    <2>1. /\ job.rev + 1 \in Nat /\ [job.status EXCEPT ![s] = status] \in [Steps -> Statuses]
          /\ [job.found EXCEPT ![s] = found] \in [Steps -> FindingSets]
        BY <1>1 DEF JobRecords
    <2>2. job' = [no |-> job.no, rev |-> job.rev + 1, over |-> job.over,
                  status |-> [job.status EXCEPT ![s] = status], found |-> [job.found EXCEPT ![s] = found]]
        BY <1>1 DEF JobRecords
    <2>3. job'.no = job.no /\ job'.rev = job.rev + 1
        BY <2>2
    <2>4. job'.status = [job.status EXCEPT ![s] = status] /\ job'.found = [job.found EXCEPT ![s] = found]
        BY <2>2
    <2>5. job' \in JobRecords
        BY <1>1, <2>1, <2>2 DEF JobRecords
    <2> QED BY <2>3, <2>4, <2>5
<1>4. job.status \in [Steps -> Statuses] /\ job.found \in [Steps -> FindingSets]
    BY <1>1 DEF JobRecords
<1>5. job'.status = After(f, job.status)
    BY <1>2, <1>3 DEF After
<1>6. InTurn(job'.status)
    BY <1>1, <1>3, <1>4, MovesInTurn
<1>7. GatesShow(job'.status, job'.found)
    BY <1>1, <1>3, <1>4 DEF GatesShow
<1>8. \A t \in Steps : job.found[t].round <= job'.found[t].round
    <2>1. \A x \in FindingSets : x.round \in Nat
        BY ScreenNumbers DEF FindingSets, NoFindings
    <2> QED BY <2>1, <1>3, <1>4
<1>9. f.found.round <= job'.found[f.step].round
    <2>1. found.round \in Nat
        BY ScreenNumbers DEF FindingSets, NoFindings
    <2> QED BY <2>1, <1>2, <1>3, <1>4
<1> QED BY <1>1, <1>2, <1>3, <1>5, <1>6, <1>7, <1>8, <1>9, RunMoves

LEMMA RoundsAreNumbers ==
    ASSUME ScreenTyped, NEW s \in Steps
    PROVE  /\ job.found[s] \in FindingSets /\ job.found[s].round \in Nat /\ job.status[s] \in Statuses
           /\ \A k \in {"ask", "fix", "info"}, n \in 1..MaxRounds :
                [round |-> n, kind |-> k] \in FindingSets
<1>1. job.found \in [Steps -> FindingSets] /\ job.status \in [Steps -> Statuses]
    BY DEF ScreenTyped, JobRecords
<1>2. \A x \in FindingSets : x.round \in Nat
    BY ScreenNumbers DEF FindingSets, NoFindings
<1> QED BY <1>1, <1>2 DEF FindingSets

LEMMA StepBeginsKeeps ==
    ASSUME ScreenInv, NEW s \in Steps, StepBegins(s)
    PROVE  ScreenInv'
<1>1. ScreenTyped /\ s \in Nat \ {0} /\ job.status[s] = "pending"
    BY ScreenNumbers DEF ScreenInv, StepBegins
<1>2. \A t \in Steps : t < s => job.status[t] = "completed"
    <2>1. \A t \in Steps : t < s => t \in 1..s - 1
        BY <1>1, ScreenNumbers
    <2> QED BY <2>1 DEF StepBegins
<1>3. job.found[s] \in FindingSets /\ job.found[s].round \in Nat
    BY <1>1, RoundsAreNumbers
<1>4. "running" \in Statuses /\ "running" \notin Gates /\ Becomes(s, "running", job.found[s]) /\ rulings' = rulings
    BY DEF Statuses, Gates, StepBegins
<1>5. job.found[s].round <= job.found[s].round /\ job.status[s] # "completed" /\ rulings' \subseteq rulings
    BY <1>1, <1>3, <1>4
<1>6. job.status[s] # "pending" \/ \A t \in Steps : t < s => job.status[t] = "completed"
    BY <1>2
<1> DEFINE found == job.found[s]
<1> HIDE DEF found
<1>7. found \in FindingSets /\ job.found[s].round <= found.round /\ Becomes(s, "running", found)
    BY <1>3, <1>4, <1>5 DEF found
<1> QED BY <1>4, <1>5, <1>6, <1>7, StepMoves

LEMMA RoundEndsKeeps ==
    ASSUME ScreenInv, NEW s \in Steps, RoundEnds(s)
    PROVE  ScreenInv'
<1> DEFINE round == job.found[s].round + 1
           gate == IF job.status[s] = "fixing" THEN "fixed" ELSE "parked"
<1>1. /\ ScreenTyped /\ job.status[s] # "pending" /\ job.status[s] # "completed" /\ rulings' = rulings
      /\ job.found[s] \in FindingSets /\ job.found[s].round \in Nat
    BY RoundsAreNumbers DEF ScreenInv, RoundEnds
<1>2. round \in Nat /\ round >= 1 /\ job.found[s].round <= round
    BY <1>1
<1>3. gate \in Statuses /\ "fixing" \in Statuses /\ "completed" \in Statuses
      /\ "fixing" \notin Gates /\ "completed" \notin Gates
    BY DEF Statuses, Gates
<1>4. ASSUME NEW k \in Kinds, round <= MaxRounds, Becomes(s, gate, [round |-> round, kind |-> k])
      PROVE  ScreenInv'
    <2>1. [round |-> round, kind |-> k] \in FindingSets /\ [round |-> round, kind |-> k].round = round
        <3>1. round \in 1..MaxRounds /\ k \in {"ask", "fix", "info"}
            BY <1>2, <1>4, ScreenNumbers
        <3> QED BY <3>1, <1>1, RoundsAreNumbers
    <2> HIDE DEF round, gate
    <2> QED BY <2>1, <1>1, <1>2, <1>3, <1>4, StepMoves
<1>5. ASSUME round < MaxRounds, Becomes(s, "fixing", [round |-> round, kind |-> "fix"])
      PROVE  ScreenInv'
    <2>1. [round |-> round, kind |-> "fix"] \in FindingSets /\ [round |-> round, kind |-> "fix"].round = round
        <3>1. round \in 1..MaxRounds
            BY <1>2, <1>5, ScreenNumbers
        <3> QED BY <3>1, <1>1, RoundsAreNumbers
    <2> HIDE DEF round
    <2> QED BY <2>1, <1>1, <1>2, <1>3, <1>5, StepMoves
<1>6. ASSUME Becomes(s, "completed", job.found[s])
      PROVE  ScreenInv'
    BY <1>1, <1>3, <1>6, StepMoves
<1> QED BY <1>4, <1>5, <1>6 DEF RoundEnds

LEMMA RuledKeeps ==
    ASSUME ScreenInv, NEW s \in Steps, job.status[s] \in Gates, NEW a, Ruled(s, a), rulings' \subseteq rulings
    PROVE  ScreenInv'
<1>1. /\ ScreenTyped /\ job.status[s] # "pending" /\ job.status[s] # "completed"
      /\ job.found[s] \in FindingSets /\ job.found[s].round \in Nat
    BY RoundsAreNumbers DEF ScreenInv, Gates
<1>2. /\ "fixing" \in Statuses /\ "completed" \in Statuses
      /\ "fixing" \notin Gates /\ "completed" \notin Gates
    BY DEF Statuses, Gates
<1>3. Becomes(s, "fixing", job.found[s]) \/ Becomes(s, "completed", job.found[s])
    BY DEF Ruled
<1> QED BY <1>1, <1>2, <1>3, StepMoves

LEMMA JobEndsKeeps ==
    ASSUME ScreenInv, JobEnds
    PROVE  ScreenInv'
<1> DEFINE f == [kind |-> "completed", rev |-> job.rev + 1, step |-> 1, status |-> "completed", found |-> NoFindings]
<1>1. /\ ScreenTyped /\ job \in JobRecords /\ Publish(f) /\ rulings' = rulings
      /\ UNCHANGED <<m, reads, snapshot, boundVars>>
      /\ job' = [job EXCEPT !.rev = @ + 1, !.over = TRUE]
      /\ InTurn(job.status) /\ GatesShow(job.status, job.found)
    BY DEF JobEnds, ScreenInv, ScreenTyped, RunSound
<1>2. /\ f \in FrameRecords /\ f.rev = job.rev + 1 /\ f.kind = "completed" /\ f.status \notin Gates
      /\ f.found.round = 0 /\ f.step \in Steps
    BY <1>1, ScreenNumbers DEF FrameRecords, JobRecords, FindingSets, NoFindings, Statuses, Gates
<1> HIDE DEF f
<1>3. /\ job' \in JobRecords /\ job'.no = job.no /\ job'.rev = job.rev + 1
      /\ job'.status = job.status /\ job'.found = job.found
    <2>1. job' = [no |-> job.no, rev |-> job.rev + 1, over |-> TRUE, status |-> job.status, found |-> job.found]
        BY <1>1 DEF JobRecords
    <2>2. job'.no = job.no /\ job'.rev = job.rev + 1 /\ job'.status = job.status /\ job'.found = job.found
        BY <2>1
    <2>3. job.rev + 1 \in Nat
        BY <1>1 DEF JobRecords
    <2>4. job' \in JobRecords
        BY <1>1, <2>1, <2>3 DEF JobRecords
    <2> QED BY <2>2, <2>4
<1>4. job'.status = After(f, job.status)
    BY <1>2, <1>3 DEF After
<1>5. \A s \in Steps : job.found[s].round \in Nat
    BY <1>1, RoundsAreNumbers
<1>6. \A s \in Steps : job.found[s].round <= job'.found[s].round
    BY <1>3, <1>5
<1>7. f.found.round <= job'.found[f.step].round
    BY <1>2, <1>3, <1>5
<1> QED BY <1>1, <1>2, <1>3, <1>4, <1>6, <1>7, RunMoves

-----------------------------------------------------------------------------
(* The user edits and rules; calls are served.                             *)

EditorSound(x) == x.editor = NoEditor \/ (x.editor.kind # "none" /\ x.editor.round >= 1)

Rulings == [no : 0..MaxBreaks, step : Steps, action : {"approve", "fix"}]

\* Nothing changes but edits, rulings and answers that were shown.
LEMMA EditsKeep ==
    ASSUME ScreenInv, UNCHANGED <<daemonVars, snapshot>>,
           breaks' \in 0..MaxBreaks, breaks <= breaks', presses' \in 0..MaxPresses,
           m' \in Screens, Abreast(m, m'),
           m'.loaded = m.loaded, m'.fetching = m.fetching, m'.retryDiff = m.retryDiff,
           reads' \subseteq reads, \A r \in reads : r.at # "shown" => r \in reads',
           rulings' \subseteq Rulings, EditorSound(m'), Noted'
    PROVE  ScreenInv'
<1>1. /\ ScreenTyped /\ RunSound /\ Shown /\ Followable /\ DiffsCurrent /\ DiffsAsked
      /\ job' = job /\ gapped' = gapped /\ frames' = frames /\ snapshot' = snapshot
    BY DEF ScreenInv, daemonVars
<1>2. ScreenTyped'
    <2>1. job'.no <= breaks'
        <3>1. job.no \in Nat /\ breaks \in Nat /\ breaks' \in Nat /\ job.no <= breaks
            BY <1>1, ScreenNumbers DEF ScreenTyped, JobRecords
        <3> QED BY <3>1, <1>1
    <2> QED BY <1>1, <2>1 DEF ScreenTyped, Rulings
<1>3. /\ Sent' = Sent /\ (Followed' <=> Followed)
      /\ \A rev : Coming(rev)' <=> Coming(rev)
      /\ \A found : NoLater(found)' <=> NoLater(found)
    BY <1>1 DEF Sent, Followed, Abreast, Coming, NoLater
<1>4. RunSound'
    BY <1>1, <1>3 DEF RunSound, Abreast
<1>5. Shown'
    BY <1>1, <1>3 DEF Shown, Abreast, EditorSound
<1>6. DiffsCurrent'
    BY <1>1 DEF DiffsCurrent, diffAnswered, Abreast
<1>7. Followable'
    BY <1>1, <1>3 DEF Followable, Abreast
<1>8. DiffsAsked'
    BY <1>1, <1>3 DEF DiffsAsked, diffAnswered, Abreast
<1>9. \E h : Past(h)'
    <2>1. PICK h : Past(h)
        BY DEF ScreenInv
    <2>2. Past(h)'
        BY <1>1, <1>3, <2>1 DEF Past, Abreast
    <2> QED BY <2>2
<1> QED BY <1>2, <1>4, <1>5, <1>6, <1>7, <1>8, <1>9 DEF ScreenInv

\* What the invariant says of the screen itself.
LEMMA ScreenFacts ==
    ASSUME ScreenInv
    PROVE  /\ m \in Screens /\ m.no \in 0..MaxBreaks /\ reads \subseteq Reads /\ rulings \subseteq Rulings
           /\ breaks \in 0..MaxBreaks /\ presses \in 0..MaxPresses
           /\ Press => presses' \in 0..MaxPresses
           /\ EditorSound(m)
           /\ Noted
<1>1. /\ m \in Screens /\ reads \subseteq Reads /\ rulings \subseteq Rulings
      /\ breaks \in 0..MaxBreaks /\ presses \in 0..MaxPresses
      /\ EditorSound(m)
      /\ Noted
    BY DEF ScreenInv, ScreenTyped, Shown, Rulings, EditorSound
<1>2. m.no \in 0..MaxBreaks
    BY <1>1 DEF Screens
<1>3. Press => presses' \in 0..MaxPresses
    BY <1>1, ScreenNumbers DEF Press
<1> QED BY <1>1, <1>2, <1>3

LEMMA AlikeNoted ==
    ASSUME ScreenInv, Alike(m, m')
    PROVE  Noted' /\ EditorSound(m')
BY ScreenFacts DEF Noted, Alike, Abreast, EditorSound

LEMMA YoloKeeps ==
    ASSUME ScreenInv, UNCHANGED <<daemonVars, snapshot, breaks>>, presses' \in 0..MaxPresses,
           NEW x \in Screens, Alike(m, x), x.loaded = m.loaded, x.fetching = m.fetching, x.retryDiff = m.retryDiff,
           maybeAutoApprove(x),
           reads' \subseteq reads, \A r \in reads : r.at # "shown" => r \in reads'
    PROVE  ScreenInv'
<1>1. x.no \in 0..MaxBreaks /\ m.no \in 0..MaxBreaks /\ rulings \subseteq Rulings
    BY ScreenFacts DEF Screens
<1>2. /\ m' \in Screens /\ Alike(x, m') /\ rulings' \subseteq Rulings
      /\ m'.loaded = x.loaded /\ m'.fetching = x.fetching /\ m'.retryDiff = x.retryDiff
    BY <1>1, AutoApproves DEF Rulings
<1>3. Alike(m, m') /\ Abreast(m, m')
    BY <1>2 DEF Alike, Abreast
<1>4. breaks' \in 0..MaxBreaks /\ breaks <= breaks'
    BY ScreenFacts, ScreenNumbers
<1> QED BY <1>2, <1>3, <1>4, AlikeNoted, EditsKeep

LEMMA UserRulesKeeps ==
    ASSUME ScreenInv, PressRuling \/ PressYolo
    PROVE  ScreenInv'
<1>1. /\ m \in Screens /\ presses' \in 0..MaxPresses /\ breaks \in Nat /\ breaks \in 0..MaxBreaks
      /\ UNCHANGED <<daemonVars, snapshot, breaks, reads>>
    BY ScreenFacts DEF PressRuling, PressYolo
<1>2. CASE PressRuling
    <2>1. m' = m /\ Alike(m, m') /\ Abreast(m, m')
        BY <1>2 DEF PressRuling, Alike, Abreast
    <2>2. rulings' \subseteq Rulings
        <3>1. awaitingStep(m.status) \in Steps
            BY <1>2, FirstAtGate DEF PressRuling
        <3> QED BY <1>2, <3>1, ScreenFacts DEF PressRuling, respondCmd, Rulings
    <2>3. breaks <= breaks'
        BY <1>1
    <2> QED BY <1>1, <2>1, <2>2, <2>3, AlikeNoted, EditsKeep
<1>3. CASE PressYolo
    <2> DEFINE x == [m EXCEPT !.yolo = ~@]
    <2>1. /\ x \in Screens /\ Alike(m, x)
          /\ x.loaded = m.loaded /\ x.fetching = m.fetching /\ x.retryDiff = m.retryDiff
        BY <1>1 DEF Screens, Alike, Abreast
    <2>2. maybeAutoApprove(x)
        BY <1>3 DEF PressYolo
    <2> HIDE DEF x
    <2>3. UNCHANGED <<daemonVars, snapshot, breaks>> /\ reads' = reads
        BY <1>1
    <2> QED BY <1>1, <2>1, <2>2, <2>3, YoloKeeps
<1> QED BY <1>2, <1>3

LEMMA UserEditsKeeps ==
    ASSUME ScreenInv, OpenEditor \/ SaveEditor \/ CloseEditor \/ RemoveEdit
    PROVE  ScreenInv'
<1> DEFINE s == awaitingStep(m.status)
<1>1. /\ m \in Screens /\ rulings' = rulings /\ rulings \subseteq Rulings /\ Noted /\ EditorSound(m)
      /\ breaks \in 0..MaxBreaks /\ breaks <= breaks /\ breaks' = breaks /\ presses' \in 0..MaxPresses
      /\ UNCHANGED <<daemonVars, snapshot>> /\ reads' = reads
    BY ScreenFacts, ScreenNumbers DEF OpenEditor, SaveEditor, CloseEditor, RemoveEdit, boundVars
<1>2. /\ m' \in Screens /\ Abreast(m, m')
      /\ m'.loaded = m.loaded /\ m'.fetching = m.fetching /\ m'.retryDiff = m.retryDiff
      /\ EditorSound(m')
      /\ Noted'
    <2>1. CASE OpenEditor
        <3>1. s \in Steps /\ m.status[s] \in Gates
            BY <2>1, FirstAtGate DEF OpenEditor
        <3>2. m.found[s] \in FindingSets /\ m.found[s].round >= 1 /\ m.found[s].round \in 0..MaxRounds
            <4>1. m.found \in [Steps -> FindingSets]
                BY <1>1 DEF Screens
            <4>2. \A x \in FindingSets : x.round \in 0..MaxRounds
                BY ScreenNumbers DEF FindingSets, NoFindings
            <4> QED BY <3>1, <4>1, <4>2 DEF ScreenInv, Shown, GatesShow
        <3>3. PICK k \in {"note", "added"} :
                m' = [m EXCEPT !.editor = [kind |-> k, step |-> s, round |-> m.found[s].round]]
            BY <2>1 DEF OpenEditor
        <3> HIDE DEF s
        <3>4. m' \in Screens
            BY <1>1, <3>1, <3>2, <3>3 DEF Screens
        <3>5. Abreast(m, m') /\ m'.edits = m.edits /\ m'.editor.round = m.found[s].round
              /\ m'.loaded = m.loaded /\ m'.fetching = m.fetching /\ m'.retryDiff = m.retryDiff
            BY <1>1, <3>3 DEF Screens, Abreast
        <3>6. Noted'
            BY <1>1, <3>5 DEF Noted, Abreast
        <3>7. EditorSound(m')
            BY <1>1, <3>2, <3>3 DEF EditorSound, Screens
        <3> QED BY <3>4, <3>5, <3>6, <3>7
    <2>2. CASE SaveEditor
        <3> DEFINE t == m.editor.step
                   edit == [kind |-> m.editor.kind, round |-> m.editor.round, late |-> m.editor.round # m.found[t].round]
                   kept == {x \in m.edits[t] : x.kind = "added" \/ edit.kind = "added"} \cup {edit}
        <3>1. m' = [m EXCEPT !.edits[t] = kept, !.editor = NoEditor] /\ m.editor # NoEditor
            BY <2>2 DEF SaveEditor
        <3>2. t \in Steps /\ m.edits \in [Steps -> SUBSET Edits]
              /\ m.editor \in [kind : {"none", "note", "added"}, step : Steps, round : 0..MaxRounds]
            BY <1>1 DEF Screens
        <3>3. m.editor.kind \in {"note", "added"} /\ m.editor.round \in 1..MaxRounds
            <4>1. m.editor.kind # "none" /\ m.editor.round >= 1
                BY <1>1, <3>1 DEF EditorSound
            <4> QED BY <4>1, <3>2, ScreenNumbers
        <3>4. /\ edit \in Edits
              /\ edit.round = m.found[t].round \/ edit.late
              /\ kept \subseteq m.edits[t] \cup {edit}
            <4>1. edit \in Edits
                BY <3>3 DEF Edits
            <4>2. edit.round = m.found[t].round \/ edit.late
                OBVIOUS
            <4> QED BY <4>1, <4>2
        <3> HIDE DEF t, edit, kept
        <3>5. kept \in SUBSET Edits /\ [m.edits EXCEPT ![t] = kept] \in [Steps -> SUBSET Edits]
            <4>1. m.edits[t] \subseteq Edits
                BY <3>2
            <4>2. kept \in SUBSET Edits
                BY <4>1, <3>4
            <4>3. [m.edits EXCEPT ![t] = kept] \in [Steps -> SUBSET Edits]
                BY <4>2, <3>2
            <4> QED BY <4>2, <4>3
        <3>6. NoEditor \in [kind : {"none", "note", "added"}, step : Steps, round : 0..MaxRounds]
            BY ScreenNumbers DEF NoEditor
        <3>7. m' = [m EXCEPT !.edits = [m.edits EXCEPT ![t] = kept], !.editor = NoEditor]
            BY <1>1, <3>1 DEF Screens
        <3>8. m' \in Screens
            BY <1>1, <3>5, <3>6, <3>7 DEF Screens
        <3>9. Abreast(m, m') /\ m'.edits = [m.edits EXCEPT ![t] = kept] /\ m'.editor = NoEditor
              /\ m'.loaded = m.loaded /\ m'.fetching = m.fetching /\ m'.retryDiff = m.retryDiff
            BY <1>1, <3>7 DEF Screens, Abreast
        <3>10. Noted'
            BY <1>1, <3>2, <3>4, <3>9 DEF Noted, Abreast
        <3> QED BY <3>8, <3>9, <3>10 DEF EditorSound
    <2>3. CASE CloseEditor
        <3>1. m' = [m EXCEPT !.editor = NoEditor]
            BY <2>3 DEF CloseEditor
        <3>2. NoEditor \in [kind : {"none", "note", "added"}, step : Steps, round : 0..MaxRounds]
            BY ScreenNumbers DEF NoEditor
        <3>3. m' \in Screens
            BY <1>1, <3>1, <3>2 DEF Screens
        <3>4. Abreast(m, m') /\ m'.edits = m.edits /\ m'.editor = NoEditor
              /\ m'.loaded = m.loaded /\ m'.fetching = m.fetching /\ m'.retryDiff = m.retryDiff
            BY <1>1, <3>1 DEF Screens, Abreast
        <3>5. Noted'
            BY <1>1, <3>4 DEF Noted, Abreast
        <3> QED BY <3>3, <3>4, <3>5 DEF EditorSound
    <2>4. CASE RemoveEdit
        <3>1. s \in Steps /\ m.edits \in [Steps -> SUBSET Edits]
            BY <1>1, <2>4, FirstAtGate DEF RemoveEdit, Screens
        <3>2. PICK x \in m.edits[s] : m' = [m EXCEPT !.edits[s] = @ \ {x}]
            BY <2>4 DEF RemoveEdit
        <3> HIDE DEF s
        <3>3. m' = [m EXCEPT !.edits = [m.edits EXCEPT ![s] = m.edits[s] \ {x}]]
            BY <1>1, <3>2 DEF Screens
        <3>4. [m.edits EXCEPT ![s] = m.edits[s] \ {x}] \in [Steps -> SUBSET Edits]
            BY <3>1
        <3>5. m' \in Screens
            BY <1>1, <3>3, <3>4 DEF Screens
        <3>6. Abreast(m, m') /\ m'.edits = [m.edits EXCEPT ![s] = m.edits[s] \ {x}] /\ m'.editor = m.editor
              /\ m'.loaded = m.loaded /\ m'.fetching = m.fetching /\ m'.retryDiff = m.retryDiff
            BY <1>1, <3>3 DEF Screens, Abreast
        <3>7. Noted'
            BY <1>1, <3>1, <3>6 DEF Noted, Abreast
        <3>8. EditorSound(m')
            BY <3>6, ScreenFacts DEF EditorSound
        <3> QED BY <3>5, <3>6, <3>7, <3>8
    <2> QED BY <2>1, <2>2, <2>3, <2>4
<1> QED BY <1>1, <1>2, EditsKeep

LEMMA TakeRulingKeeps ==
    ASSUME ScreenInv, TakeRuling
    PROVE  ScreenInv'
<1>1. PICK r \in rulings :
        /\ rulings' = rulings \ {r}
        /\ IF ~job.over /\ job.no = r.no /\ job.status[r.step] \in Gates
           THEN Ruled(r.step, r.action)
           ELSE UNCHANGED <<daemonVars, m, reads, snapshot, boundVars>>
    BY DEF TakeRuling
<1>2. r.step \in Steps /\ rulings' \subseteq rulings
    BY <1>1, ScreenFacts DEF Rulings
<1>3. CASE job.status[r.step] \in Gates /\ Ruled(r.step, r.action)
    BY <1>2, <1>3, RuledKeeps
<1>4. CASE UNCHANGED <<daemonVars, m, reads, snapshot, boundVars>>
    <2>1. /\ m' = m /\ Alike(m, m') /\ Abreast(m, m') /\ reads' = reads /\ m \in Screens
          /\ UNCHANGED <<daemonVars, snapshot>> /\ breaks' = breaks /\ presses' = presses
          /\ rulings' \subseteq Rulings /\ breaks \in 0..MaxBreaks /\ presses \in 0..MaxPresses
        BY <1>2, <1>4, ScreenFacts DEF Alike, Abreast, boundVars
    <2>2. breaks <= breaks'
        BY <2>1, ScreenNumbers
    <2> QED BY <2>1, <2>2, AlikeNoted, EditsKeep
<1> QED BY <1>1, <1>3, <1>4

\* The diff served is that of the round the run has come to.
LEMMA ServeDiffKeeps ==
    ASSUME ScreenInv, ServeDiff
    PROVE  ScreenInv'
<1>1. /\ UNCHANGED <<daemonVars, m, snapshot, rulings, presses>> /\ breaks' \in 0..MaxBreaks /\ breaks <= breaks'
      /\ ScreenTyped /\ Shown /\ DiffsCurrent /\ DiffsAsked
    BY ScreenFacts, ScreenNumbers DEF ServeDiff, ScreenInv
<1>2. PICK r \in reads, q \in Reads :
        /\ r.at = "asked" /\ reads' = (reads \ {r}) \cup {q}
        /\ q.step = r.step
        /\ diffAnswered(q) <=> diffAnswered(r)
        /\ q.at \in {"read", "failed"}
        /\ q.at = "read" => q.of.no = job.no /\ q.of.round = job.found[r.step].round
    <2>1. PICK r \in reads :
            /\ r.at = "asked"
            /\ \/ reads' = (reads \ {r}) \cup
                     {[r EXCEPT !.at = "read", !.of = [no |-> job.no, round |-> job.found[r.step].round]]}
               \/ reads' = (reads \ {r}) \cup {[r EXCEPT !.at = "failed"]}
        BY DEF ServeDiff
    <2>2. r \in Reads /\ r.step \in Steps
        BY <2>1, ScreenFacts DEF Reads
    <2>3. [no |-> job.no, round |-> job.found[r.step].round] \in [no : 0..MaxBreaks, round : 0..MaxRounds]
        <3>1. job.no \in 0..MaxBreaks /\ job.found \in [Steps -> FindingSets]
            BY <1>1 DEF ScreenTyped, JobRecords
        <3>2. \A x \in FindingSets : x.round \in 0..MaxRounds
            BY ScreenNumbers DEF FindingSets, NoFindings
        <3> QED BY <2>2, <3>1, <3>2
    <2>4. CASE reads' = (reads \ {r}) \cup
                     {[r EXCEPT !.at = "read", !.of = [no |-> job.no, round |-> job.found[r.step].round]]}
        <3> DEFINE q == [r EXCEPT !.at = "read", !.of = [no |-> job.no, round |-> job.found[r.step].round]]
        <3>1. q \in Reads /\ q.step = r.step /\ q.newest = r.newest /\ q.mine = r.mine /\ q.at = "read"
              /\ q.of.no = job.no /\ q.of.round = job.found[r.step].round
            BY <2>2, <2>3 DEF Reads
        <3> HIDE DEF q
        <3>2. diffAnswered(q) <=> diffAnswered(r)
            BY <3>1 DEF diffAnswered
        <3>3. reads' = (reads \ {r}) \cup {q}
            BY <2>4 DEF q
        <3> QED BY <2>1, <3>1, <3>2, <3>3
    <2>5. CASE reads' = (reads \ {r}) \cup {[r EXCEPT !.at = "failed"]}
        <3> DEFINE q == [r EXCEPT !.at = "failed"]
        <3>1. q \in Reads /\ q.step = r.step /\ q.newest = r.newest /\ q.mine = r.mine /\ q.at = "failed"
            BY <2>2 DEF Reads
        <3> HIDE DEF q
        <3>2. diffAnswered(q) <=> diffAnswered(r)
            BY <3>1 DEF diffAnswered
        <3>3. reads' = (reads \ {r}) \cup {q}
            BY <2>5 DEF q
        <3> QED BY <2>1, <3>1, <3>2, <3>3
    <2> QED BY <2>1, <2>4, <2>5
<1>3. /\ job' = job /\ gapped' = gapped /\ frames' = frames /\ m' = m /\ snapshot' = snapshot
      /\ rulings' = rulings /\ presses' = presses
    BY <1>1 DEF daemonVars
<1>4. ScreenTyped'
    <2>1. job'.no <= breaks'
        <3>1. job.no \in Nat /\ breaks \in Nat /\ breaks' \in Nat /\ job.no <= breaks
            BY <1>1, ScreenNumbers DEF ScreenTyped, JobRecords
        <3> QED BY <3>1, <1>1, <1>3
    <2>2. reads' \subseteq Reads
        BY <1>2, ScreenFacts
    <2> QED BY <1>1, <1>3, <2>1, <2>2 DEF ScreenTyped
<1>5. DiffsCurrent'
    <2>1. r.step \in Steps
        BY <1>2, ScreenFacts DEF Reads
    <2>2. job.no = m.no /\ job.found[r.step].round >= m.found[r.step].round
        <3>1. m.found[r.step].round \in Nat /\ job.found[r.step].round \in Nat
            <4>1. \A x \in FindingSets : x.round \in Nat
                BY ScreenNumbers DEF FindingSets, NoFindings
            <4>2. m.found \in [Steps -> FindingSets] /\ job.found \in [Steps -> FindingSets]
                BY <1>1 DEF ScreenTyped, Screens, JobRecords
            <4> QED BY <2>1, <4>1, <4>2
        <3> QED BY <1>1, <2>1, <3>1 DEF Shown, NoLater
    <2>3. \A p \in reads' : (diffAnswered(p) /\ p.at \in {"read", "shown"}) =>
            p.of.no = m.no /\ p.of.round >= m.found[p.step].round
        <3>1. \A p \in reads : (diffAnswered(p) /\ p.at \in {"read", "shown"}) =>
                p.of.no = m.no /\ p.of.round >= m.found[p.step].round
            BY <1>1 DEF DiffsCurrent
        <3>2. q.at \in {"read", "shown"} => q.of.no = m.no /\ q.of.round >= m.found[q.step].round
            <4>1. q.at \in {"read", "shown"} => q.at = "read"
                BY <1>2
            <4> QED BY <4>1, <1>2, <2>2
        <3> QED BY <3>1, <3>2, <1>2
    <2> QED BY <1>1, <1>3, <2>3 DEF DiffsCurrent, diffAnswered
<1>6. DiffsAsked'
    <2>1. Followed' <=> Followed
        BY <1>3 DEF Followed
    <2>2. \A p \in reads : diffAnswered(p) /\ p.at # "shown" =>
            \E o \in reads' : o.step = p.step /\ diffAnswered(o) /\ o.at # "shown"
        BY <1>2
    <2> QED BY <1>1, <1>3, <2>1, <2>2 DEF DiffsAsked, diffAnswered
<1>7. RunSound' /\ Shown' /\ Noted' /\ Followable' /\ \E h : Past(h)'
    <2>1. RunSound'
        BY <1>3 DEF ScreenInv, RunSound, Sent, NoLater
    <2>2. Shown' /\ Noted'
        BY <1>3 DEF ScreenInv, Shown, Noted, NoLater
    <2>3. Followable'
        BY <1>3 DEF ScreenInv, Followable, Followed, Coming, Sent
    <2>4. PICK h : Past(h)
        BY DEF ScreenInv
    <2>5. Past(h)'
        BY <1>3, <2>4 DEF Past, Sent, Followed
    <2> QED BY <2>1, <2>2, <2>3, <2>5
<1> QED BY <1>4, <1>5, <1>6, <1>7 DEF ScreenInv

\* The run is read: every later change will come as a frame, or behind a gap.
LEMMA ServeSnapshotKeeps ==
    ASSUME ScreenInv, ServeSnapshot
    PROVE  ScreenInv'
<1>1. /\ ScreenTyped /\ RunSound /\ Shown
      /\ job' = job /\ gapped' = gapped /\ frames' = frames /\ m' = m /\ reads' = reads
      /\ rulings' = rulings /\ presses' = presses
      /\ snapshot.at = "asked" /\ snapshot'.at \in {"read", "failed"} /\ (snapshot'.at = "read" => snapshot'.run = job)
      /\ snapshot' \in [at : {"idle", "asked", "read", "failed"}, run : JobRecords]
    BY DEF ServeSnapshot, ScreenInv, daemonVars, ScreenTyped
<1>2. breaks' \in 0..MaxBreaks /\ breaks <= breaks'
    BY ScreenFacts, ScreenNumbers DEF ServeSnapshot
<1>3. ScreenTyped'
    <2>1. job'.no <= breaks'
        <3>1. job.no \in Nat /\ breaks \in Nat /\ breaks' \in Nat /\ job.no <= breaks
            BY <1>1, <1>2, ScreenNumbers DEF ScreenTyped, JobRecords
        <3> QED BY <3>1, <1>1, <1>2
    <2> QED BY <1>1, <1>2, <2>1 DEF ScreenTyped
<1>4. job.rev \in Nat /\ \A s \in Steps : job.found[s].round \in Nat
    BY <1>1, RoundsAreNumbers DEF ScreenTyped, JobRecords
<1>5. RunSound'
    <2>1. job.rev <= job.rev /\ NoLater(job.found)
        BY <1>4 DEF NoLater
    <2>2. Sent' = Sent /\ (snapshot'.at = "read" => \A s \in Steps : snapshot'.run.found[s].round <= job'.found[s].round)
        BY <1>1, <2>1 DEF Sent, NoLater
    <2> QED BY <1>1, <2>1, <2>2 DEF RunSound, NoLater
<1>6. Shown' /\ Noted' /\ DiffsCurrent'
    BY <1>1 DEF ScreenInv, Shown, Noted, NoLater, DiffsCurrent, diffAnswered
<1>7. Followed' <=> Followed
    BY <1>1 DEF Followed
<1>8. Followable'
    <2>1. Coming(job.rev)
        BY <1>4 DEF Coming
    <2>2. Sent' = Sent /\ \A rev : Coming(rev)' <=> Coming(rev)
        BY <1>1 DEF Sent, Coming
    <2>3. Followed' => Coming(m.rev)
        BY <1>7 DEF ScreenInv, Followable
    <2>4. snapshot'.at = "read" => Coming(snapshot'.run.rev)
        BY <1>1, <2>1
    <2> QED BY <1>1, <2>2, <2>3, <2>4 DEF Followable
<1>9. DiffsAsked'
    BY <1>1, <1>7 DEF ScreenInv, DiffsAsked, diffAnswered
<1>10. \E h : Past(h)'
    <2>1. PICK h : Past(h)
        BY DEF ScreenInv
    <2>2. Past(h)'
        BY <1>1, <1>7, <2>1 DEF Past, Sent
    <2> QED BY <2>2
<1> QED BY <1>3, <1>5, <1>6, <1>8, <1>9, <1>10 DEF ScreenInv

-----------------------------------------------------------------------------
(* Messages.                                                               *)

\* The run stays, and no frame or read run is new.
LEMMA ScreenMoves ==
    ASSUME ScreenInv, job' = job, breaks' \in 0..MaxBreaks, breaks <= breaks', presses' \in 0..MaxPresses,
           gapped' \in BOOLEAN, frames' \in Seq(FrameRecords), Len(frames') <= MaxFrames, Sent' \subseteq Sent,
           \A i, j \in DOMAIN frames' : i < j => frames'[i].rev < frames'[j].rev,
           m'.link # "up" => frames' = <<>> /\ ~gapped',
           reads' \subseteq Reads, rulings' \subseteq Rulings,
           snapshot' \in [at : {"idle", "asked", "read", "failed"}, run : JobRecords],
           snapshot'.at = "read" => snapshot' = snapshot,
           m' \in Screens, m'.no = m.no, m'.rev <= job.rev,
           GatesShow(m'.status, m'.found), NoLater(m'.found),
           m'.pending <=> snapshot'.at # "idle", EditorSound(m'),
           DiffsCurrent', Noted', Followable', DiffsAsked',
           \A h : Past(h) /\ Followed' => m'.status = h[m'.rev]
    PROVE  ScreenInv'
<1>1. ScreenTyped /\ RunSound /\ Shown
    BY DEF ScreenInv
<1>2. ScreenTyped'
    <2>1. job'.no <= breaks'
        <3>1. job.no \in Nat /\ breaks \in Nat /\ breaks' \in Nat /\ job.no <= breaks
            BY <1>1, ScreenNumbers DEF ScreenTyped, JobRecords
        <3> QED BY <3>1, <1>1
    <2> QED BY <1>1, <2>1 DEF ScreenTyped, Rulings
<1>3. \A found : NoLater(found) => (\A s \in Steps : found[s].round <= job'.found[s].round)
    BY DEF NoLater
<1>4. RunSound'
    <2>1. snapshot'.at = "read" =>
            /\ snapshot'.run.no = job'.no /\ snapshot'.run.rev <= job'.rev
            /\ InTurn(snapshot'.run.status) /\ GatesShow(snapshot'.run.status, snapshot'.run.found)
            /\ \A s \in Steps : snapshot'.run.found[s].round <= job'.found[s].round
        BY <1>1, <1>3 DEF RunSound
    <2>2. \A f \in Sent' : /\ f.rev >= 1 /\ f.rev <= job'.rev
                           /\ f.found.round <= job'.found[f.step].round
                           /\ f.status \in Gates => f.found.round >= 1
        BY <1>1 DEF RunSound
    <2> QED BY <1>1, <2>1, <2>2 DEF RunSound, NoLater
<1>5. Shown'
    BY <1>1, <1>3 DEF Shown, NoLater, EditorSound
<1>6. \E h : Past(h)'
    <2>1. PICK h : Past(h)
        BY DEF ScreenInv
    <2>2. \A f \in Sent' : h[f.rev] = After(f, h[f.rev - 1])
        BY <2>1 DEF Past
    <2>3. snapshot'.at = "read" => snapshot'.run.status = h[snapshot'.run.rev]
        BY <2>1 DEF Past
    <2>4. Followed' => m'.status = h[m'.rev]
        BY <2>1
    <2>5. Past(h)'
        BY <2>1, <2>2, <2>3, <2>4 DEF Past
    <2> QED BY <2>5
<1> QED BY <1>2, <1>4, <1>5, <1>6 DEF ScreenInv

\* reconcileCmd: a read is asked for, or will be.
LEMMA ReadIsAsked ==
    ASSUME ScreenInv, NEW x \in Screens, x.pending = m.pending, reconcileCmd(x)
    PROVE  /\ m' \in Screens /\ m'.pending = TRUE
           /\ m'.no = x.no /\ m'.rev = x.rev /\ m'.done = x.done /\ m'.status = x.status /\ m'.found = x.found
           /\ m'.edits = x.edits /\ m'.editor = x.editor /\ m'.link = x.link
           /\ m'.loaded = x.loaded
           /\ snapshot' \in [at : {"idle", "asked", "read", "failed"}, run : JobRecords]
           /\ snapshot'.at # "idle" /\ (m'.again \/ snapshot'.at # "read")
           /\ snapshot'.at = "read" => snapshot' = snapshot
<1>1. /\ snapshot \in [at : {"idle", "asked", "read", "failed"}, run : JobRecords]
      /\ m.pending <=> snapshot.at # "idle"
      /\ x.pending \in BOOLEAN
    BY DEF ScreenInv, ScreenTyped, Shown, Screens
<1>2. CASE x.pending
    <2>1. m' = [x EXCEPT !.again = TRUE] /\ snapshot' = snapshot
        BY <1>2 DEF reconcileCmd
    <2>2. /\ m' \in Screens /\ m'.pending = x.pending /\ m'.again = TRUE
          /\ m'.no = x.no /\ m'.rev = x.rev /\ m'.done = x.done /\ m'.status = x.status /\ m'.found = x.found
          /\ m'.edits = x.edits /\ m'.editor = x.editor /\ m'.link = x.link /\ m'.loaded = x.loaded
        BY <2>1 DEF Screens
    <2> QED BY <1>1, <1>2, <2>1, <2>2
<1>3. CASE ~x.pending
    <2>1. m' = [x EXCEPT !.pending = TRUE, !.retryRead = FALSE] /\ snapshot' = [NoSnapshot EXCEPT !.at = "asked"]
        BY <1>3 DEF reconcileCmd
    <2>2. /\ m' \in Screens /\ m'.pending = TRUE
          /\ m'.no = x.no /\ m'.rev = x.rev /\ m'.done = x.done /\ m'.status = x.status /\ m'.found = x.found
          /\ m'.edits = x.edits /\ m'.editor = x.editor /\ m'.link = x.link /\ m'.loaded = x.loaded
        BY <2>1 DEF Screens
    <2>3. snapshot' \in [at : {"idle", "asked", "read", "failed"}, run : JobRecords] /\ snapshot'.at = "asked"
        BY <2>1, FreshRun
    <2> QED BY <2>2, <2>3
<1> QED BY <1>2, <1>3

LEMMA ApplyGapKeeps ==
    ASSUME ScreenInv, ApplyGap
    PROVE  ScreenInv'
<1> DEFINE s == awaitingStep(m.status)
           x == IF s # NoStep /\ m.status[s] = "fixed" THEN [m EXCEPT !.loaded[s] = Nothing] ELSE m
<1>1. /\ gapped' = FALSE /\ m.link = "up" /\ job' = job /\ frames' = frames /\ reads' = reads /\ rulings' = rulings
      /\ breaks' = breaks /\ presses' = presses /\ reconcileCmd(x)
    BY DEF ApplyGap, boundVars
<1>2. /\ ScreenTyped /\ RunSound /\ Shown /\ DiffsCurrent /\ Noted /\ m \in Screens /\ EditorSound(m)
      /\ reads \subseteq Reads /\ rulings \subseteq Rulings
      /\ breaks \in 0..MaxBreaks /\ breaks <= breaks /\ presses \in 0..MaxPresses
    BY ScreenFacts, ScreenNumbers DEF ScreenInv
<1>3. /\ x \in Screens /\ Alike(m, x)
      /\ \A t \in Steps : x.loaded[t] \in {Nothing, m.loaded[t]}
    <2>1. m.loaded \in [Steps -> Origins] /\ Nothing \in Origins
        BY <1>2, ScreenNumbers DEF Screens, Nothing, Origins
    <2>2. CASE s # NoStep /\ m.status[s] = "fixed"
        <3>1. s \in Steps
            BY <2>2, FirstAtGate
        <3>2. x = [m EXCEPT !.loaded = [m.loaded EXCEPT ![s] = Nothing]]
            BY <2>2, <1>2 DEF Screens
        <3> HIDE DEF s, x
        <3>3. [m.loaded EXCEPT ![s] = Nothing] \in [Steps -> Origins]
            BY <2>1
        <3>4. x \in Screens
            BY <1>2, <3>2, <3>3 DEF Screens
        <3>5. Alike(m, x) /\ x.loaded = [m.loaded EXCEPT ![s] = Nothing]
            BY <1>2, <3>2 DEF Screens, Alike, Abreast
        <3>6. \A t \in Steps : x.loaded[t] \in {Nothing, m.loaded[t]}
            BY <2>1, <3>1, <3>5
        <3> QED BY <3>4, <3>5, <3>6
    <2>3. CASE ~(s # NoStep /\ m.status[s] = "fixed")
        <3>1. x = m
            BY <2>3
        <3> QED BY <3>1, <1>2 DEF Alike, Abreast
    <2> QED BY <2>2, <2>3
<1> HIDE DEF x, s
<1>4. /\ m' \in Screens /\ m'.pending = TRUE
      /\ m'.no = m.no /\ m'.rev = m.rev /\ m'.done = m.done /\ m'.status = m.status /\ m'.found = m.found
      /\ m'.edits = m.edits /\ m'.editor = m.editor /\ m'.link = m.link /\ m'.loaded = x.loaded
      /\ snapshot' \in [at : {"idle", "asked", "read", "failed"}, run : JobRecords]
      /\ snapshot'.at # "idle" /\ (m'.again \/ snapshot'.at # "read")
      /\ snapshot'.at = "read" => snapshot' = snapshot
    BY <1>1, <1>3, ReadIsAsked DEF Alike, Abreast
<1>5. ~Followed'
    BY <1>4 DEF Followed
<1>6. DiffsCurrent' /\ Noted' /\ EditorSound(m')
    <2>1. \A t \in Steps : m'.loaded[t] # Nothing => m'.loaded[t].no = m'.no /\ m'.loaded[t].round >= m'.found[t].round
        BY <1>2, <1>3, <1>4 DEF DiffsCurrent
    <2>2. \A r \in reads : diffAnswered(r) /\ r.at \in {"read", "shown"} =>
            r.of.no = m'.no /\ r.of.round >= m'.found[r.step].round
        BY <1>2, <1>4 DEF DiffsCurrent
    <2>3. DiffsCurrent'
        BY <1>1, <2>1, <2>2 DEF DiffsCurrent, diffAnswered
    <2> QED BY <1>2, <1>4, <2>3 DEF Noted, EditorSound
<1>7. Followable' /\ DiffsAsked'
    BY <1>4, <1>5 DEF Followable, DiffsAsked
<1>8. Sent' = Sent /\ frames \in Seq(FrameRecords) /\ Len(frames) <= MaxFrames
    BY <1>1, <1>2 DEF Sent, ScreenTyped
<1>9. /\ GatesShow(m'.status, m'.found) /\ NoLater(m'.found) /\ m'.rev <= job.rev
      /\ \A i, j \in DOMAIN frames : i < j => frames[i].rev < frames[j].rev
    BY <1>2, <1>4 DEF Shown, RunSound
<1>10. m'.pending <=> snapshot'.at # "idle"
    BY <1>4
<1>11. m'.link = "up"
    BY <1>1, <1>4
<1> QED BY <1>1, <1>2, <1>4, <1>5, <1>6, <1>7, <1>8, <1>9, <1>10, <1>11, ScreenMoves

\* What applyEvent takes, and what it leaves of the frames.
LEMMA EventTaken ==
    ASSUME ScreenInv, applyEvent
    PROVE  LET f == Head(frames) IN
           /\ f \in FrameRecords /\ f \in Sent /\ Sent = Sent' \cup {f} /\ \A g \in Sent' : f.rev < g.rev
           /\ f.rev \in Nat /\ f.rev >= 1 /\ f.rev <= job.rev /\ f.step \in Steps
           /\ \A g \in Sent : g.rev \in Nat
           /\ frames' \in Seq(FrameRecords) /\ Len(frames') <= MaxFrames
           /\ \A i, j \in DOMAIN frames' : i < j => frames'[i].rev < frames'[j].rev
           /\ job' = job /\ gapped' = gapped /\ gapped = FALSE /\ snapshot' = snapshot /\ m.link = "up" /\ ~m.done
           /\ breaks' = breaks /\ presses' = presses
           /\ ScreenTyped /\ RunSound /\ Shown /\ DiffsCurrent /\ Noted /\ DiffsAsked /\ Followable
           /\ job.rev \in Nat /\ m.rev \in Nat /\ m.rev <= job.rev /\ snapshot.run.rev \in Nat
<1>1. ScreenTyped /\ RunSound /\ Shown /\ DiffsCurrent /\ Noted /\ DiffsAsked /\ Followable
    BY DEF ScreenInv
<1>2. /\ job' = job /\ gapped' = gapped /\ ~gapped /\ snapshot' = snapshot /\ m.link = "up" /\ ~m.done
      /\ breaks' = breaks /\ presses' = presses /\ frames # <<>> /\ frames' = Tail(frames)
    BY DEF applyEvent, boundVars
<1>3. gapped = FALSE
    BY <1>1, <1>2 DEF ScreenTyped
<1>4. LET f == Head(frames) IN
      /\ f \in FrameRecords /\ f \in Sent /\ Sent = Sent' \cup {f} /\ \A g \in Sent' : f.rev < g.rev
      /\ frames' \in Seq(FrameRecords) /\ Len(frames') <= MaxFrames
      /\ \A i, j \in DOMAIN frames' : i < j => frames'[i].rev < frames'[j].rev
    BY <1>1, <1>2, TakesOldest
<1>5. \A g \in Sent : g \in FrameRecords /\ g.rev \in Nat /\ g.step \in Steps
    <2>1. \A g \in Sent : g \in FrameRecords
        BY <1>1 DEF ScreenTyped, Sent
    <2> QED BY <2>1 DEF FrameRecords
<1>6. job.rev \in Nat /\ m.rev \in Nat /\ snapshot.run.rev \in Nat /\ m.rev <= job.rev
    BY <1>1 DEF ScreenTyped, JobRecords, Screens, Shown
<1>7. \A g \in Sent : g.rev >= 1 /\ g.rev <= job.rev
    BY <1>1 DEF RunSound
<1> QED BY <1>1, <1>2, <1>3, <1>4, <1>5, <1>6, <1>7

\* A frame of what is shown already.
LEMMA OldEventKeeps ==
    ASSUME ScreenInv, applyEvent, Head(frames).rev <= m.rev, maybeAutoApprove(m), reads' = reads
    PROVE  ScreenInv'
<1> DEFINE f == Head(frames)
<1>1. /\ f.rev \in Nat /\ Sent = Sent' \cup {f} /\ \A g \in Sent' : f.rev < g.rev
      /\ frames' \in Seq(FrameRecords) /\ Len(frames') <= MaxFrames
      /\ \A i, j \in DOMAIN frames' : i < j => frames'[i].rev < frames'[j].rev
      /\ job' = job /\ gapped' = gapped /\ gapped = FALSE /\ snapshot' = snapshot /\ m.link = "up"
      /\ breaks' = breaks /\ presses' = presses
      /\ ScreenTyped /\ Shown /\ DiffsCurrent /\ Noted /\ DiffsAsked /\ Followable
      /\ m.rev \in Nat /\ m.rev <= job.rev /\ snapshot.run.rev \in Nat /\ job.rev \in Nat /\ f.rev <= m.rev
    BY EventTaken
<1> HIDE DEF f
<1>2. /\ m \in Screens /\ m.no \in 0..MaxBreaks /\ reads \subseteq Reads /\ rulings \subseteq Rulings
      /\ breaks \in 0..MaxBreaks /\ breaks <= breaks /\ presses \in 0..MaxPresses
      /\ Alike(m, m)
    BY ScreenFacts, ScreenNumbers DEF Alike, Abreast
<1>3. /\ m' \in Screens /\ Alike(m, m') /\ Abreast(m, m') /\ rulings' \subseteq Rulings
      /\ m'.loaded = m.loaded /\ m'.fetching = m.fetching /\ m'.retryDiff = m.retryDiff
    BY <1>2, AutoApproves DEF Rulings, Alike
<1>4. Noted' /\ EditorSound(m')
    BY <1>3, AlikeNoted
<1>5. \A rev \in Nat : rev >= m.rev /\ Coming(rev) => Coming(rev)'
    <2> SUFFICES ASSUME NEW rev \in Nat, rev >= m.rev, Coming(rev), NEW k \in rev + 1..job'.rev
                 PROVE  \E g \in Sent' : g.rev = k
        BY DEF Coming
    <2>1. k \in rev + 1..job.rev /\ k \in Nat /\ k # f.rev
        BY <1>1
    <2>2. PICK g \in Sent : g.rev = k
        BY <2>1 DEF Coming
    <2> QED BY <1>1, <2>1, <2>2
<1>6. Followed' <=> Followed
    BY <1>1, <1>3 DEF Followed, Abreast
<1>7. Followable'
    <2>1. Followed' => Coming(m.rev)'
        <3>1. m'.rev = m.rev
            BY <1>3 DEF Abreast
        <3>2. Followed' => Coming(m.rev) /\ m.rev >= m.rev
            BY <1>1, <1>6 DEF Followable
        <3> QED BY <3>1, <3>2, <1>1, <1>5 DEF Coming
    <2>2. m.link = "up" /\ ~gapped /\ ~m.done /\ ~m.again /\ snapshot.at = "read" /\ snapshot.run.rev >= m.rev =>
            Coming(snapshot.run.rev)'
        BY <1>1, <1>5 DEF Followable
    <2> QED BY <1>1, <1>3, <2>1, <2>2 DEF Followable, Abreast
<1>8. DiffsCurrent' /\ DiffsAsked'
    BY <1>1, <1>3, <1>6 DEF DiffsCurrent, DiffsAsked, diffAnswered, Abreast
<1>9. \A h : Past(h) /\ Followed' => m'.status = h[m'.rev]
    BY <1>3, <1>6 DEF Past, Abreast
<1>10. m'.no = m.no /\ m'.rev = m.rev /\ m'.status = m.status /\ m'.found = m.found /\ m'.pending = m.pending
       /\ m'.link = "up"
    BY <1>1, <1>3 DEF Abreast
<1>11. /\ GatesShow(m'.status, m'.found) /\ NoLater(m'.found) /\ (m'.pending <=> snapshot'.at # "idle")
       /\ snapshot \in [at : {"idle", "asked", "read", "failed"}, run : JobRecords]
    BY <1>1, <1>10 DEF Shown, ScreenTyped
<1> QED BY <1>1, <1>2, <1>3, <1>4, <1>7, <1>8, <1>9, <1>10, <1>11, ScreenMoves

\* The next change of a run that is followed.
LEMMA NextInLine ==
    ASSUME ScreenInv, applyEvent, Followed, Head(frames).rev > m.rev
    PROVE  LET f == Head(frames) IN
           /\ f.rev = m.rev + 1
           /\ \A h : Past(h) => h[f.rev] = After(f, m.status) /\ InTurn(h[f.rev])
<1> DEFINE f == Head(frames)
<1>1. /\ f.rev \in Nat /\ Sent = Sent' \cup {f} /\ \A g \in Sent' : f.rev < g.rev
      /\ \A g \in Sent : g.rev \in Nat
      /\ m.rev \in Nat /\ job.rev \in Nat /\ f.rev <= job.rev /\ Followable /\ f \in Sent /\ f.rev > m.rev
    BY EventTaken
<1> HIDE DEF f
<1>2. Coming(m.rev) /\ m.rev + 1 \in m.rev + 1..job.rev
    BY <1>1 DEF Followable
<1>3. PICK g \in Sent : g.rev = m.rev + 1
    BY <1>2 DEF Coming
<1>4. f.rev = m.rev + 1
    BY <1>1, <1>3
<1>5. ASSUME NEW h, Past(h)
      PROVE  h[f.rev] = After(f, m.status) /\ InTurn(h[f.rev])
    <2>1. h[f.rev] = After(f, h[f.rev - 1]) /\ m.status = h[m.rev]
        BY <1>1, <1>5 DEF Past
    <2>2. f.rev - 1 = m.rev /\ f.rev \in 0..job.rev
        BY <1>1, <1>4
    <2>3. h[f.rev - 1] = m.status
        BY <2>1, <2>2
    <2>4. InTurn(h[f.rev])
        BY <1>5, <2>2 DEF Past
    <2> QED BY <2>1, <2>3, <2>4
<1> QED BY <1>4, <1>5 DEF f

\* The frames that are left lead on from the one taken.
LEMMA LeadsOn ==
    ASSUME ScreenInv, applyEvent, Head(frames).rev > m.rev,
           m'.link = m.link, m'.rev = Head(frames).rev, m'.pending = m.pending, m'.retryRead = m.retryRead,
           m'.again = m.again, m'.done => Head(frames).kind = "completed", m'.done \/ m'.done = m.done
    PROVE  Followable' /\ (Followed' => Followed)
<1>1. PICK f :
      /\ f = Head(frames)
      /\ f.rev \in Nat /\ Sent = Sent' \cup {f} /\ \A g \in Sent' : f.rev < g.rev
      /\ job' = job /\ gapped' = gapped /\ snapshot' = snapshot /\ ~m.done
      /\ m.rev \in Nat /\ job.rev \in Nat /\ Followable /\ snapshot.run.rev \in Nat /\ f.rev > m.rev
    BY EventTaken
<1>2. m'.rev = f.rev
    BY <1>1
<1>3. Followed' => Followed
    BY <1>1 DEF Followed
<1>4. \A rev \in Nat : Coming(rev) /\ rev <= f.rev => Coming(f.rev)'
    <2> SUFFICES ASSUME NEW rev \in Nat, Coming(rev), rev <= f.rev, NEW k \in f.rev + 1..job'.rev
                 PROVE  \E g \in Sent' : g.rev = k
        BY DEF Coming
    <2>1. k \in rev + 1..job.rev /\ k # f.rev
        BY <1>1
    <2>2. PICK g \in Sent : g.rev = k
        BY <2>1 DEF Coming
    <2> QED BY <1>1, <2>1, <2>2
<1>5. \A rev \in Nat : Coming(rev) /\ rev >= f.rev => Coming(rev)'
    <2> SUFFICES ASSUME NEW rev \in Nat, Coming(rev), rev >= f.rev, NEW k \in rev + 1..job'.rev
                 PROVE  \E g \in Sent' : g.rev = k
        BY DEF Coming
    <2>1. k \in rev + 1..job.rev /\ k # f.rev
        BY <1>1
    <2>2. PICK g \in Sent : g.rev = k
        BY <2>1 DEF Coming
    <2> QED BY <1>1, <2>1, <2>2
<1>6. Followed' => Coming(f.rev)'
    BY <1>1, <1>3, <1>4 DEF Followable
<1>7. m'.link = "up" /\ ~gapped' /\ ~m'.done /\ ~m'.again /\ snapshot.at = "read" /\ snapshot.run.rev >= f.rev =>
        Coming(snapshot.run.rev)'
    <2> SUFFICES ASSUME m'.link = "up", ~gapped', ~m'.done, ~m'.again, snapshot.at = "read", snapshot.run.rev >= f.rev
                 PROVE  Coming(snapshot.run.rev)'
        OBVIOUS
    <2>1. snapshot.run.rev >= m.rev
        BY <1>1
    <2>2. Coming(snapshot.run.rev)
        BY <1>1, <2>1 DEF Followable
    <2> QED BY <1>1, <1>5, <2>2
<1> QED BY <1>1, <1>2, <1>3, <1>6, <1>7 DEF Followable

LEMMA ApplyStatusKeeps ==
    ASSUME ScreenInv, applyEvent, Head(frames).rev > m.rev, Head(frames).kind = "status", ApplyStatus(Head(frames))
    PROVE  ScreenInv'
<1> DEFINE f == Head(frames)
           s == f.step
           entered == f.status \in Gates /\ f.found # NoFindings
           x == [m EXCEPT !.rev = f.rev, !.status[s] = f.status,
                          !.found[s] = IF entered THEN f.found ELSE @,
                          !.edits[s] = IF entered THEN {} ELSE @]
           y == IF f.status = "fixed" THEN requestStepDiff(x, s) ELSE invalidateStepDiff(x, {s})
<1>1. /\ f \in FrameRecords /\ f.rev \in Nat /\ f \in Sent /\ Sent' \subseteq Sent
      /\ frames' \in Seq(FrameRecords) /\ Len(frames') <= MaxFrames
      /\ \A i, j \in DOMAIN frames' : i < j => frames'[i].rev < frames'[j].rev
      /\ job' = job /\ gapped' = gapped /\ gapped = FALSE /\ snapshot' = snapshot /\ m.link = "up" /\ ~m.done
      /\ breaks' = breaks /\ presses' = presses
      /\ ScreenTyped /\ RunSound /\ Shown /\ DiffsCurrent /\ Noted /\ DiffsAsked
      /\ job.rev \in Nat /\ m.rev \in Nat /\ f.rev <= job.rev /\ f.rev > m.rev /\ f.kind = "status"
    BY EventTaken
<1>2. /\ m \in Screens /\ m.no \in 0..MaxBreaks /\ reads \subseteq Reads /\ rulings \subseteq Rulings /\ EditorSound(m)
      /\ breaks \in 0..MaxBreaks /\ breaks <= breaks /\ presses \in 0..MaxPresses
    BY ScreenFacts, ScreenNumbers
<1>3. /\ maybeAutoApprove(y)
      /\ IF f.status = "fixed" THEN reads' = Outdated({s}) \cup Requested(s) ELSE reads' = Outdated({s})
    BY DEF ApplyStatus
<1>4. /\ f.step \in Steps /\ f.status \in Statuses /\ f.found \in FindingSets
      /\ f.found.round <= job.found[f.step].round /\ (f.status \in Gates => f.found.round >= 1)
    BY <1>1 DEF FrameRecords, RunSound
<1> HIDE DEF f
<1>4a. entered <=> f.status \in Gates
    BY <1>4 DEF NoFindings
<1> HIDE DEF entered
<1>5. /\ m.status \in [Steps -> Statuses] /\ m.found \in [Steps -> FindingSets] /\ m.edits \in [Steps -> SUBSET Edits]
    BY <1>2 DEF Screens
<1>6. x = [m EXCEPT !.rev = f.rev, !.status = [m.status EXCEPT ![s] = f.status],
                    !.found = [m.found EXCEPT ![s] = IF f.status \in Gates THEN f.found ELSE m.found[s]],
                    !.edits = [m.edits EXCEPT ![s] = IF f.status \in Gates THEN {} ELSE m.edits[s]]]
    BY <1>2, <1>4a DEF Screens
<1> HIDE DEF x
<1>7. /\ [m.status EXCEPT ![s] = f.status] \in [Steps -> Statuses]
      /\ [m.found EXCEPT ![s] = IF f.status \in Gates THEN f.found ELSE m.found[s]] \in [Steps -> FindingSets]
      /\ [m.edits EXCEPT ![s] = IF f.status \in Gates THEN {} ELSE m.edits[s]] \in [Steps -> SUBSET Edits]
    BY <1>4, <1>5
<1>8. x \in Screens
    BY <1>1, <1>2, <1>6, <1>7 DEF Screens
<1>9. /\ x.no = m.no /\ x.rev = f.rev /\ x.done = m.done /\ x.status = [m.status EXCEPT ![s] = f.status]
      /\ x.found = [m.found EXCEPT ![s] = IF f.status \in Gates THEN f.found ELSE m.found[s]]
      /\ x.edits = [m.edits EXCEPT ![s] = IF f.status \in Gates THEN {} ELSE m.edits[s]]
      /\ x.editor = m.editor /\ x.pending = m.pending /\ x.again = m.again /\ x.retryRead = m.retryRead
      /\ x.link = m.link /\ x.loaded = m.loaded /\ x.fetching = m.fetching /\ x.retryDiff = m.retryDiff
    BY <1>2, <1>6 DEF Screens
<1>10. /\ y \in Screens /\ Alike(x, y)
       /\ \A t \in Steps : y.loaded[t] = IF t = s THEN Nothing ELSE m.loaded[t]
       /\ f.status # "fixed" => /\ \A t \in Steps : t # s => y.fetching[t] = m.fetching[t]
                                /\ y.retryDiff = (m.retryDiff /\ hasFixReviewStep(x))
    <2>1. CASE f.status = "fixed"
        <3>1. y = requestStepDiff(x, s)
            BY <2>1
        <3> HIDE DEF y
        <3>2. s \in Steps
            BY <1>4
        <3> HIDE DEF s
        <3>3. /\ y \in Screens /\ Alike(x, y)
              /\ \A t \in Steps : y.loaded[t] = IF t = s THEN Nothing ELSE x.loaded[t]
            BY <3>1, <3>2, <1>8, Requests
        <3> QED BY <2>1, <3>3, <1>9
    <2>2. CASE f.status # "fixed"
        <3>1. y = invalidateStepDiff(x, {s})
            BY <2>2
        <3> HIDE DEF y
        <3>2. /\ y \in Screens /\ Alike(x, y)
              /\ \A t \in Steps : y.loaded[t] = IF t \in {s} THEN Nothing ELSE x.loaded[t]
              /\ \A t \in Steps : t \notin {s} => y.fetching[t] = x.fetching[t]
              /\ y.retryDiff = (x.retryDiff /\ hasFixReviewStep(x))
            BY <3>1, <1>8, Invalidates
        <3> QED BY <3>2, <1>9
    <2> QED BY <2>1, <2>2
<1> HIDE DEF y
<1>11. /\ m' \in Screens /\ Alike(y, m') /\ rulings' \subseteq Rulings
       /\ m'.loaded = y.loaded /\ m'.fetching = y.fetching /\ m'.retryDiff = y.retryDiff
    <2>1. y.no \in 0..MaxBreaks
        BY <1>10 DEF Screens
    <2> QED BY <2>1, <1>2, <1>3, <1>10, AutoApproves DEF Rulings
<1>12. /\ m'.no = m.no /\ m'.rev = f.rev /\ m'.done = m.done /\ m'.status = x.status /\ m'.found = x.found
       /\ m'.edits = x.edits /\ m'.editor = m.editor /\ m'.pending = m.pending /\ m'.again = m.again
       /\ m'.retryRead = m.retryRead /\ m'.link = m.link
    BY <1>9, <1>10, <1>11 DEF Alike, Abreast
<1>13. /\ m'.status[s] = f.status /\ \A t \in Steps : t # s => m'.status[t] = m.status[t]
       /\ f.status \in Gates => m'.found[s] = f.found /\ m'.edits[s] = {}
       /\ f.status \notin Gates => m'.found[s] = m.found[s] /\ m'.edits[s] = m.edits[s]
       /\ \A t \in Steps : t # s => m'.found[t] = m.found[t] /\ m'.edits[t] = m.edits[t]
    BY <1>4, <1>5, <1>9, <1>12
<1>14. /\ reads' \subseteq Reads
       /\ \A r \in reads' : diffAnswered(r) /\ r.at # "asked" => r \in reads /\ r.step # s
       /\ \A r \in reads : r.step # s => r \in reads'
       /\ f.status = "fixed" => \E r \in reads' : r.step = s /\ diffAnswered(r) /\ r.at = "asked"
    <2>1. /\ Outdated({s}) \subseteq Reads
          /\ \A r \in Outdated({s}) : diffAnswered(r) => r \in reads /\ r.step \notin {s}
          /\ \A r \in reads : r.step \notin {s} => r \in Outdated({s})
        BY <1>2, Outdates
    <2>2. /\ Requested(s) \subseteq Reads
          /\ \A r \in Requested(s) : r.step = s /\ diffAnswered(r) /\ r.at = "asked"
          /\ Requested(s) # {}
        BY <1>4, NewRequest
    <2> QED BY <1>3, <2>1, <2>2
<1>15. GatesShow(m'.status, m'.found)
    BY <1>1, <1>4, <1>13 DEF GatesShow, Shown
<1>16. NoLater(m'.found)
    BY <1>1, <1>4, <1>13 DEF NoLater, Shown
<1>17. Noted'
    BY <1>1, <1>4, <1>13 DEF Noted
<1>18. DiffsCurrent'
    <2>1. \A t \in Steps : m'.loaded[t] # Nothing => m'.loaded[t].no = m'.no /\ m'.loaded[t].round >= m'.found[t].round
        BY <1>1, <1>10, <1>11, <1>12, <1>13 DEF DiffsCurrent
    <2>2. \A r \in reads' : diffAnswered(r) /\ r.at \in {"read", "shown"} =>
            r.of.no = m'.no /\ r.of.round >= m'.found[r.step].round
        <3> SUFFICES ASSUME NEW r \in reads', diffAnswered(r), r.at \in {"read", "shown"}
                     PROVE  r.of.no = m'.no /\ r.of.round >= m'.found[r.step].round
            OBVIOUS
        <3>1. r \in reads /\ r.step # s /\ r.step \in Steps
            BY <1>2, <1>14 DEF Reads
        <3> QED BY <3>1, <1>1, <1>12, <1>13 DEF DiffsCurrent
    <2> QED BY <2>1, <2>2 DEF DiffsCurrent, diffAnswered
<1>19. Followable' /\ (Followed' => Followed)
    <2>1. m'.rev = Head(frames).rev
        BY <1>12 DEF f
    <2>2. ~m'.done /\ Head(frames).rev > m.rev
        BY <1>1, <1>12
    <2> QED BY <2>1, <2>2, <1>12, LeadsOn
<1>20. \A h : Past(h) /\ Followed' => m'.status = h[m'.rev] /\ InTurn(m'.status)
    <2> SUFFICES ASSUME NEW h, Past(h), Followed'
                 PROVE  m'.status = h[m'.rev] /\ InTurn(m'.status)
        OBVIOUS
    <2>1. Followed
        BY <1>19
    <2>2. h[f.rev] = After(f, m.status) /\ InTurn(h[f.rev])
        BY <2>1, NextInLine DEF f
    <2>3. After(f, m.status) = [m.status EXCEPT ![s] = f.status]
        BY <1>1 DEF After
    <2> QED BY <2>2, <2>3, <1>9, <1>12
<1>21. DiffsAsked'
    <2> SUFFICES ASSUME Followed', ~m'.retryDiff, NEW t \in Steps, m'.status[t] = "fixed",
                        m'.loaded[t] = Nothing \/ m'.fetching[t]
                 PROVE  \E r \in reads' : r.step = t /\ diffAnswered(r) /\ r.at # "shown"
        BY DEF DiffsAsked, diffAnswered
    <2>1. CASE t = s
        BY <2>1, <1>13, <1>14
    <2>2. CASE t # s
        <3>1. PICK h : Past(h)
            BY DEF ScreenInv
        <3>2. InTurn(m'.status)
            BY <1>20, <3>1
        <3>3. f.status # "fixed"
            <4> SUFFICES ASSUME f.status = "fixed"
                         PROVE  FALSE
                OBVIOUS
            <4>1. m'.status[s] \in Gates /\ m'.status[t] \in Gates
                BY <1>13 DEF Gates
            <4>2. awaitingStep(m'.status) = s /\ awaitingStep(m'.status) = t
                BY <3>2, <4>1, <1>4, OneGate
            <4> QED BY <4>2, <2>2
        <3>4. m.status[t] = "fixed" /\ (m.loaded[t] = Nothing \/ m.fetching[t])
            BY <2>2, <3>3, <1>10, <1>11, <1>13
        <3>5. ~m.retryDiff
            <4>1. hasFixReviewStep(x)
                BY <1>1, <1>9, <1>12, <2>2 DEF hasFixReviewStep, stepInFixReview
            <4> QED BY <4>1, <3>3, <1>10, <1>11
        <3>6. PICK r \in reads : r.step = t /\ diffAnswered(r) /\ r.at # "shown"
            BY <1>1, <1>19, <3>4, <3>5 DEF DiffsAsked
        <3> QED BY <3>6, <2>2, <1>14
    <2> QED BY <2>1, <2>2
<1>22. EditorSound(m') /\ (m'.pending <=> snapshot'.at # "idle")
       /\ snapshot \in [at : {"idle", "asked", "read", "failed"}, run : JobRecords]
    BY <1>1, <1>2, <1>12 DEF EditorSound, Shown, ScreenTyped
<1>23. m'.link = "up" /\ m'.rev <= job.rev
    BY <1>1, <1>12
<1> QED BY <1>1, <1>2, <1>11, <1>12, <1>14, <1>15, <1>16, <1>17, <1>18, <1>19, <1>20, <1>21, <1>22, <1>23, ScreenMoves

LEMMA ApplyCompletedKeeps ==
    ASSUME ScreenInv, applyEvent, Head(frames).rev > m.rev, Head(frames).kind = "completed",
           ApplyCompleted(Head(frames))
    PROVE  ScreenInv'
<1> DEFINE f == Head(frames)
           x == [m EXCEPT !.rev = f.rev, !.done = TRUE]
<1>1. /\ f.rev \in Nat /\ Sent' \subseteq Sent
      /\ frames' \in Seq(FrameRecords) /\ Len(frames') <= MaxFrames
      /\ \A i, j \in DOMAIN frames' : i < j => frames'[i].rev < frames'[j].rev
      /\ job' = job /\ gapped' = gapped /\ gapped = FALSE /\ snapshot' = snapshot /\ m.link = "up"
      /\ breaks' = breaks /\ presses' = presses
      /\ ScreenTyped /\ Shown /\ DiffsCurrent /\ Noted
      /\ f.rev <= job.rev
    BY EventTaken
<1>2. /\ m \in Screens /\ reads \subseteq Reads /\ rulings \subseteq Rulings /\ EditorSound(m)
      /\ breaks \in 0..MaxBreaks /\ breaks <= breaks /\ presses \in 0..MaxPresses
    BY ScreenFacts, ScreenNumbers
<1>3. m' = invalidateInactiveStepDiffs(x) /\ reads' = Outdated(Steps) /\ rulings' = rulings
    BY DEF ApplyCompleted
<1> HIDE DEF f
<1>4. x \in Screens
    BY <1>1, <1>2 DEF Screens
<1>5. /\ x.no = m.no /\ x.rev = f.rev /\ x.done = TRUE /\ x.status = m.status /\ x.found = m.found
      /\ x.edits = m.edits /\ x.editor = m.editor /\ x.pending = m.pending /\ x.link = m.link /\ x.loaded = m.loaded
    BY <1>2 DEF Screens
<1> HIDE DEF x
<1>6. /\ m' \in Screens /\ Alike(x, m')
      /\ \A t \in Steps : m'.loaded[t] \in {Nothing, m.loaded[t]}
    BY <1>3, <1>4, <1>5, Invalidates DEF invalidateInactiveStepDiffs
<1>7. /\ m'.no = m.no /\ m'.rev = f.rev /\ m'.done = TRUE /\ m'.status = m.status /\ m'.found = m.found
      /\ m'.edits = m.edits /\ m'.editor = m.editor /\ m'.pending = m.pending /\ m'.link = m.link
    BY <1>5, <1>6 DEF Alike, Abreast
<1>8. reads' \subseteq Reads /\ \A r \in reads' : ~diffAnswered(r)
    <2>1. Outdated(Steps) \subseteq Reads /\ \A r \in Outdated(Steps) : diffAnswered(r) => r.step \notin Steps
        BY <1>2, Outdates
    <2>2. \A r \in Reads : r.step \in Steps
        BY DEF Reads
    <2> QED BY <1>3, <2>1, <2>2
<1>9. DiffsCurrent'
    <2>1. \A t \in Steps : m'.loaded[t] # Nothing => m'.loaded[t].no = m'.no /\ m'.loaded[t].round >= m'.found[t].round
        BY <1>1, <1>6, <1>7 DEF DiffsCurrent
    <2> QED BY <1>8, <2>1 DEF DiffsCurrent, diffAnswered
<1>10. Noted' /\ EditorSound(m') /\ (m'.pending <=> snapshot'.at # "idle")
       /\ GatesShow(m'.status, m'.found) /\ NoLater(m'.found)
       /\ snapshot \in [at : {"idle", "asked", "read", "failed"}, run : JobRecords]
    BY <1>1, <1>2, <1>7 DEF Noted, EditorSound, Shown, ScreenTyped
<1>11. ~Followed' /\ Followable' /\ DiffsAsked'
    BY <1>7 DEF Followed, Followable, DiffsAsked
<1>12. m'.link = "up" /\ m'.rev <= job.rev
    BY <1>1, <1>7
<1> QED BY <1>1, <1>2, <1>3, <1>6, <1>7, <1>8, <1>9, <1>10, <1>11, <1>12, ScreenMoves

LEMMA ApplyEventKeeps ==
    ASSUME ScreenInv, applyEvent
    PROVE  ScreenInv'
BY OldEventKeeps, ApplyStatusKeeps, ApplyCompletedKeeps DEF applyEvent

-----------------------------------------------------------------------------
(* Reads of the run.                                                       *)

\* A snapshot leaves no diff of a gate that is not the run's, and asks for that
\* of the one that is.
LEMMA SnapshotApplied ==
    ASSUME ScreenInv, snapshot.at = "read"
    PROVE  LET run == snapshot.run
               y == applySnapshot(run)
           IN  /\ y \in Screens /\ y.no = m.no /\ y.rev = run.rev /\ y.status = run.status /\ y.found = run.found
               /\ y.pending = m.pending /\ y.again = m.again /\ y.link = m.link /\ (m.done => y.done)
               /\ EditorSound(y)
               /\ \A t \in Steps : y.loaded[t] = Nothing
               /\ \A t \in Steps : run.status[t] \in Gates =>
                    \A e \in y.edits[t] : e.round = run.found[t].round \/ e.late
               /\ SnapshotReads(run) \subseteq Reads
               /\ \A r \in SnapshotReads(run) : diffAnswered(r) => r.at = "asked"
               /\ \A t \in Steps : run.status[t] = "fixed" =>
                    \E r \in SnapshotReads(run) : r.step = t /\ diffAnswered(r) /\ r.at = "asked"
<1> DEFINE run == snapshot.run
           gone == ClearedGates(run)
           s == awaitingStep(run.status)
           b == [m EXCEPT !.rev = run.rev, !.status = run.status, !.found = run.found,
                          !.count = [t \in Steps |-> run.found[t].round],
                          !.done = m.done \/ run.over, !.retryRead = FALSE,
                          !.edits = [t \in Steps |-> IF t \in gone THEN {} ELSE m.edits[t]],
                          !.editor = IF m.editor.step \in gone THEN NoEditor ELSE m.editor]
           off == {t \in Steps : ~stepInFixReview(b, t)}
           x == invalidateStepDiff(b, off)
           y == applySnapshot(run)
<1>1. /\ m \in Screens /\ EditorSound(m) /\ Noted /\ reads \subseteq Reads
      /\ run \in JobRecords /\ InTurn(run.status)
    BY ScreenFacts DEF ScreenInv, ScreenTyped, RunSound
<1>2. /\ run.rev \in Nat /\ run.over \in BOOLEAN /\ run.status \in [Steps -> Statuses] /\ run.found \in [Steps -> FindingSets]
      /\ m.done \in BOOLEAN /\ m.edits \in [Steps -> SUBSET Edits]
      /\ m.editor \in [kind : {"none", "note", "added"}, step : Steps, round : 0..MaxRounds]
    BY <1>1 DEF JobRecords, Screens
<1>3. y = IF s # NoStep /\ run.status[s] = "fixed" THEN requestStepDiff(x, s) ELSE x
    BY <1>1 DEF applySnapshot, invalidateInactiveStepDiffs, Screens
<1> HIDE DEF y, gone, run
<1>4. b \in Screens
    <2>1. \A z \in FindingSets : z.round \in 0..MaxRounds
        BY ScreenNumbers DEF FindingSets, NoFindings
    <2>2. [t \in Steps |-> run.found[t].round] \in [Steps -> 0..MaxRounds]
        BY <1>2, <2>1
    <2>3. [t \in Steps |-> IF t \in gone THEN {} ELSE m.edits[t]] \in [Steps -> SUBSET Edits]
        BY <1>2
    <2>4. (IF m.editor.step \in gone THEN NoEditor ELSE m.editor)
            \in [kind : {"none", "note", "added"}, step : Steps, round : 0..MaxRounds]
        BY <1>2, ScreenNumbers DEF NoEditor
    <2>5. (m.done \/ run.over) \in BOOLEAN
        BY <1>2
    <2> QED BY ZenonT(30), <1>1, <1>2, <2>2, <2>3, <2>4, <2>5 DEF Screens
<1>5. /\ b.no = m.no /\ b.rev = run.rev /\ b.status = run.status /\ b.found = run.found
      /\ m.done => b.done
      /\ b.pending = m.pending /\ b.again = m.again /\ b.link = m.link
      /\ b.edits = [t \in Steps |-> IF t \in gone THEN {} ELSE m.edits[t]]
      /\ b.editor = IF m.editor.step \in gone THEN NoEditor ELSE m.editor
    BY <1>1 DEF Screens
<1> HIDE DEF b
<1>6. /\ x \in Screens /\ Alike(b, x) /\ \A t \in Steps : x.loaded[t] = IF t \in off THEN Nothing ELSE b.loaded[t]
    BY <1>4, Invalidates
<1>7. \A t \in Steps : run.status[t] \in Gates => s = t /\ s # NoStep
    <2>1. \A t \in Steps : t # NoStep
        BY ScreenNumbers DEF NoStep
    <2> QED BY <1>1, <2>1, OneGate
<1>8. \A t \in Steps : t \notin off => run.status[t] = "fixed" /\ s = t /\ s # NoStep
    BY <1>5, <1>7 DEF stepInFixReview, Gates
<1>9. s \in Steps \/ s = NoStep
    BY FirstAtGate
<1> HIDE DEF off, x, s
<1>10. y \in Screens /\ Alike(b, y) /\ \A t \in Steps : y.loaded[t] = Nothing
    <2>1. CASE s # NoStep /\ run.status[s] = "fixed"
        <3>1. s \in Steps /\ y = requestStepDiff(x, s)
            BY <1>3, <1>9, <2>1
        <3>2. /\ y \in Screens /\ Alike(x, y)
              /\ \A t \in Steps : y.loaded[t] = IF t = s THEN Nothing ELSE x.loaded[t]
            BY <3>1, <1>6, Requests
        <3>3. \A t \in Steps : y.loaded[t] = Nothing
            BY <3>2, <1>6, <1>8
        <3>4. Alike(b, y)
            BY <3>2, <1>6 DEF Alike, Abreast
        <3> QED BY <3>2, <3>3, <3>4
    <2>2. CASE ~(s # NoStep /\ run.status[s] = "fixed")
        <3>1. y = x
            BY <1>3, <2>2
        <3>2. \A t \in Steps : t \in off
            BY <1>8, <2>2
        <3> QED BY <3>1, <3>2, <1>6
    <2> QED BY <2>1, <2>2
<1>11. /\ y.no = m.no /\ y.rev = run.rev /\ y.status = run.status /\ y.found = run.found
       /\ y.pending = m.pending /\ y.again = m.again /\ y.link = m.link /\ (m.done => y.done)
       /\ y.edits = b.edits /\ y.editor = b.editor
    BY <1>5, <1>10 DEF Alike, Abreast
<1>12. EditorSound(y)
    BY <1>1, <1>5, <1>11 DEF EditorSound
<1>13. \A t \in Steps : run.status[t] \in Gates =>
            \A e \in y.edits[t] : e.round = run.found[t].round \/ e.late
    <2> SUFFICES ASSUME NEW t \in Steps, run.status[t] \in Gates, NEW e \in y.edits[t]
                 PROVE  e.round = run.found[t].round \/ e.late
        OBVIOUS
    <2>1. t \notin gone /\ e \in m.edits[t]
        BY <1>5, <1>11
    <2> DEFINE old == awaitingStep(m.status)
    <2>2. sameGateState(old, s, run)
        BY <2>1, <1>7 DEF gone, ClearedGates, s
    <2>3. s = t /\ s # NoStep
        BY <1>7
    <2> HIDE DEF old
    <2>4. old = t /\ m.status[t] = run.status[t] /\ m.found[t] = run.found[t]
        BY <2>2, <2>3 DEF sameGateState
    <2> QED BY <2>1, <2>4, <1>1 DEF Noted
<1> DEFINE T == {t \in Steps : run.status[t] # "fixed" \/ m.done \/ t = s}
<1>14. SnapshotReads(run) = Outdated(T) \cup (IF s # NoStep /\ run.status[s] = "fixed" THEN Requested(s) ELSE {})
    BY DEF SnapshotReads, s
<1>15. /\ Outdated(T) \subseteq Reads
       /\ \A r \in Outdated(T) : ~diffAnswered(r)
    <2>1. /\ Outdated(T) \subseteq Reads
          /\ \A r \in Outdated(T) : diffAnswered(r) => r \in reads /\ r.step \notin T
        BY <1>1, Outdates
    <2>2. \A r \in reads : r.step \in Steps
        BY <1>1 DEF Reads
    <2>3. \A t \in Steps : t \in T
        BY <1>7 DEF Gates
    <2> QED BY <2>1, <2>2, <2>3
<1> HIDE DEF T
<1>16. s \in Steps => Requested(s) \subseteq Reads /\ Requested(s) # {}
                      /\ \A r \in Requested(s) : r.step = s /\ diffAnswered(r) /\ r.at = "asked"
    BY NewRequest
<1>17. /\ SnapshotReads(run) \subseteq Reads
       /\ \A r \in SnapshotReads(run) : diffAnswered(r) => r.at = "asked"
    BY <1>9, <1>14, <1>15, <1>16
<1>18. \A t \in Steps : run.status[t] = "fixed" =>
            \E r \in SnapshotReads(run) : r.step = t /\ diffAnswered(r) /\ r.at = "asked"
    BY <1>7, <1>14, <1>16 DEF Gates
<1> QED BY <1>10, <1>11, <1>12, <1>13, <1>17, <1>18 DEF y, run

\* What a read that came back leaves to show.
LEMMA ReadTaken ==
    ASSUME ScreenInv, snapshot.at = "read"
    PROVE  LET taken == snapshot.run.rev >= m.rev
               x == IF taken THEN applySnapshot(snapshot.run) ELSE m
               rs == IF taken THEN SnapshotReads(snapshot.run) ELSE reads
           IN  /\ x \in Screens /\ x.no = m.no /\ x.rev <= job.rev /\ x.pending = TRUE /\ x.link = m.link
               /\ GatesShow(x.status, x.found) /\ NoLater(x.found) /\ EditorSound(x)
               /\ \A t \in Steps : x.status[t] \in Gates =>
                    \A e \in x.edits[t] : e.round = x.found[t].round \/ e.late
               /\ \A t \in Steps : x.loaded[t] # Nothing =>
                    x.loaded[t].no = m.no /\ x.loaded[t].round >= x.found[t].round
               /\ rs \subseteq Reads
               /\ \A r \in rs : diffAnswered(r) /\ r.at \in {"read", "shown"} =>
                    r.of.no = m.no /\ r.of.round >= x.found[r.step].round
               /\ taken => /\ x.rev = snapshot.run.rev /\ x.status = snapshot.run.status /\ (m.done => x.done)
                           /\ x.again = m.again
                           /\ \A t \in Steps : x.status[t] = "fixed" =>
                                \E r \in rs : r.step = t /\ diffAnswered(r) /\ r.at = "asked"
<1> DEFINE run == snapshot.run
           y == applySnapshot(run)
<1>1. /\ ScreenTyped /\ RunSound /\ Shown /\ DiffsCurrent /\ Noted /\ m \in Screens /\ EditorSound(m)
      /\ reads \subseteq Reads
    BY ScreenFacts DEF ScreenInv
<1>2. m.pending = TRUE
    BY <1>1 DEF Shown, Screens
<1>3. CASE run.rev >= m.rev
    <2>1. /\ y \in Screens /\ y.no = m.no /\ y.rev = run.rev /\ y.status = run.status /\ y.found = run.found
          /\ y.pending = m.pending /\ y.again = m.again /\ y.link = m.link /\ (m.done => y.done)
          /\ EditorSound(y)
          /\ \A t \in Steps : y.loaded[t] = Nothing
          /\ \A t \in Steps : run.status[t] \in Gates =>
               \A e \in y.edits[t] : e.round = run.found[t].round \/ e.late
          /\ SnapshotReads(run) \subseteq Reads
          /\ \A r \in SnapshotReads(run) : diffAnswered(r) => r.at = "asked"
          /\ \A t \in Steps : run.status[t] = "fixed" =>
               \E r \in SnapshotReads(run) : r.step = t /\ diffAnswered(r) /\ r.at = "asked"
        BY SnapshotApplied
    <2>2. run.rev <= job.rev /\ GatesShow(run.status, run.found) /\ NoLater(run.found)
        BY <1>1 DEF RunSound
    <2> HIDE DEF y, run
    <2> QED BY <1>2, <1>3, <2>1, <2>2 DEF y, run
<1>4. CASE ~(run.rev >= m.rev)
    <2>1. /\ m.rev <= job.rev /\ GatesShow(m.status, m.found) /\ NoLater(m.found)
        BY <1>1 DEF Shown
    <2> QED BY <1>1, <1>2, <1>4, <2>1 DEF DiffsCurrent, Noted
<1> QED BY <1>3, <1>4

LEMMA ReconciledKeeps ==
    ASSUME ScreenInv, Reconciled
    PROVE  ScreenInv'
<1> DEFINE taken == snapshot.run.rev >= m.rev
           x == IF taken THEN applySnapshot(snapshot.run) ELSE m
           rs == IF taken THEN SnapshotReads(snapshot.run) ELSE reads
           once == m.again \/ ~taken
<1>1. \/ /\ once
         /\ m' = [x EXCEPT !.again = FALSE, !.retryRead = FALSE]
         /\ reads' = rs /\ snapshot' = [NoSnapshot EXCEPT !.at = "asked"]
      \/ /\ ~once
         /\ snapshot' = NoSnapshot
         /\ IF m.link = "lost" /\ ~x.done
            THEN m' = startResubscribe(x) /\ reads' = Orphaned(rs)
            ELSE m' = [x EXCEPT !.pending = FALSE] /\ reads' = rs
    BY DEF Reconciled
<1>2. /\ snapshot.at = "read" /\ job' = job /\ gapped' = gapped /\ frames' = frames /\ rulings' = rulings
      /\ breaks' = breaks /\ presses' = presses
    BY DEF Reconciled, daemonVars, boundVars
<1>3. /\ x \in Screens /\ x.no = m.no /\ x.rev <= job.rev /\ x.pending = TRUE /\ x.link = m.link
      /\ GatesShow(x.status, x.found) /\ NoLater(x.found) /\ EditorSound(x)
      /\ \A t \in Steps : x.status[t] \in Gates =>
           \A e \in x.edits[t] : e.round = x.found[t].round \/ e.late
      /\ \A t \in Steps : x.loaded[t] # Nothing =>
           x.loaded[t].no = m.no /\ x.loaded[t].round >= x.found[t].round
      /\ rs \subseteq Reads
      /\ \A r \in rs : diffAnswered(r) /\ r.at \in {"read", "shown"} =>
           r.of.no = m.no /\ r.of.round >= x.found[r.step].round
      /\ taken => /\ x.rev = snapshot.run.rev /\ x.status = snapshot.run.status /\ (m.done => x.done)
                  /\ x.again = m.again
                  /\ \A t \in Steps : x.status[t] = "fixed" =>
                       \E r \in rs : r.step = t /\ diffAnswered(r) /\ r.at = "asked"
    BY <1>2, ReadTaken
<1> HIDE DEF x, rs
<1>4. /\ ScreenTyped /\ RunSound /\ Followable /\ rulings \subseteq Rulings
      /\ breaks \in 0..MaxBreaks /\ breaks <= breaks /\ presses \in 0..MaxPresses
      /\ frames \in Seq(FrameRecords) /\ Len(frames) <= MaxFrames /\ Sent' = Sent
      /\ gapped' \in BOOLEAN /\ (m.link # "up" => frames = <<>> /\ ~gapped)
      /\ \A i, j \in DOMAIN frames : i < j => frames[i].rev < frames[j].rev
    BY <1>2, ScreenFacts, ScreenNumbers DEF ScreenInv, ScreenTyped, RunSound, Sent
<1>5. CASE once /\ m' = [x EXCEPT !.again = FALSE, !.retryRead = FALSE]
               /\ reads' = rs /\ snapshot' = [NoSnapshot EXCEPT !.at = "asked"]
    <2>1. /\ m' \in Screens /\ m'.no = x.no /\ m'.rev = x.rev /\ m'.pending = TRUE /\ m'.link = x.link
          /\ m'.status = x.status /\ m'.found = x.found /\ m'.editor = x.editor /\ m'.edits = x.edits
          /\ m'.loaded = x.loaded
        BY <1>3, <1>5 DEF Screens
    <2>2. /\ snapshot' \in [at : {"idle", "asked", "read", "failed"}, run : JobRecords] /\ snapshot'.at = "asked"
        BY <1>5, FreshRun
    <2>3. ~Followed' /\ Followable' /\ DiffsAsked'
        BY <2>1, <2>2 DEF Followed, Followable, DiffsAsked
    <2>4. DiffsCurrent' /\ Noted' /\ EditorSound(m')
        BY <1>3, <1>5, <2>1 DEF DiffsCurrent, Noted, EditorSound, diffAnswered
    <2>5. m'.pending <=> snapshot'.at # "idle"
        BY <2>1, <2>2
    <2>6. /\ m'.no = m.no /\ m'.rev <= job.rev /\ GatesShow(m'.status, m'.found) /\ NoLater(m'.found)
          /\ m'.link = m.link /\ reads' \subseteq Reads /\ snapshot'.at # "read"
        BY <1>3, <1>5, <2>1, <2>2
    <2>7. m'.link # "up" => frames' = <<>> /\ ~gapped'
        BY <1>2, <1>4, <2>6
    <2> QED BY <1>2, <1>4, <2>1, <2>2, <2>3, <2>4, <2>5, <2>6, <2>7, ScreenMoves
<1>6. CASE ~once /\ snapshot' = NoSnapshot /\ m.link = "lost" /\ m' = startResubscribe(x) /\ reads' = Orphaned(rs)
    <2>1. /\ m' \in Screens
          /\ m'.no = x.no /\ m'.rev = 0 /\ m'.status = x.status /\ m'.found = x.found /\ m'.done = x.done
          /\ m'.edits = x.edits /\ m'.editor = x.editor /\ m'.pending = FALSE /\ m'.link = "down"
          /\ \A t \in Steps : m'.loaded[t] = Nothing
        BY <1>3, <1>6, Resubscribes
    <2>2. reads' \subseteq Reads /\ \A r \in reads' : ~diffAnswered(r)
        BY <1>3, <1>6, Orphans
    <2>3. snapshot' \in [at : {"idle", "asked", "read", "failed"}, run : JobRecords] /\ snapshot'.at = "idle"
        BY <1>6, FreshRun
    <2>4. ~Followed' /\ Followable' /\ DiffsAsked'
        BY <2>1, <2>3 DEF Followed, Followable, DiffsAsked
    <2>5. DiffsCurrent' /\ Noted' /\ EditorSound(m')
        BY <1>3, <2>1, <2>2 DEF DiffsCurrent, Noted, EditorSound, diffAnswered
    <2>6. m'.pending <=> snapshot'.at # "idle"
        BY <2>1, <2>3
    <2>7. m'.no = m.no /\ GatesShow(m'.status, m'.found) /\ NoLater(m'.found) /\ snapshot'.at # "read"
        BY <1>3, <2>1, <2>3
    <2>8. m'.rev <= job.rev
        <3>1. job.rev \in Nat
            BY <1>4 DEF ScreenTyped, JobRecords
        <3> QED BY <3>1, <2>1
    <2>9. frames' = <<>> /\ ~gapped'
        BY <1>2, <1>4, <1>6
    <2> QED BY <1>2, <1>4, <2>1, <2>2, <2>3, <2>4, <2>5, <2>6, <2>7, <2>8, <2>9, ScreenMoves
<1>7. CASE ~once /\ snapshot' = NoSnapshot /\ m' = [x EXCEPT !.pending = FALSE] /\ reads' = rs
    <2>1. /\ m' \in Screens /\ m'.no = x.no /\ m'.rev = x.rev /\ m'.pending = FALSE /\ m'.link = x.link
          /\ m'.status = x.status /\ m'.found = x.found /\ m'.editor = x.editor /\ m'.edits = x.edits
          /\ m'.loaded = x.loaded /\ m'.done = x.done
        BY <1>3, <1>7 DEF Screens
    <2>2. snapshot' \in [at : {"idle", "asked", "read", "failed"}, run : JobRecords] /\ snapshot'.at = "idle"
        BY <1>7, FreshRun
    <2>3. taken /\ ~m.again
        BY <1>1, <1>7
    <2>4. Followed' => m.link = "up" /\ ~gapped /\ ~m.done
        BY <1>2, <1>3, <2>1, <2>3 DEF Followed
    <2>5. Followable'
        <3>1. Followed' => Coming(snapshot.run.rev)
            BY <1>1, <1>2, <1>4, <2>3, <2>4 DEF Followable
        <3>2. m'.rev = snapshot.run.rev
            BY <1>3, <2>1, <2>3
        <3>3. Followed' => Coming(m.rev)'
            BY <3>1, <3>2, <1>2, <1>4 DEF Coming
        <3> QED BY <3>3, <2>2 DEF Followable
    <2>6. \A h : Past(h) /\ Followed' => m'.status = h[m'.rev]
        BY <1>2, <1>3, <2>1, <2>3 DEF Past
    <2>7. DiffsAsked'
        BY <1>3, <1>7, <2>1, <2>3 DEF DiffsAsked, diffAnswered
    <2>8. DiffsCurrent' /\ Noted' /\ EditorSound(m')
        BY <1>3, <1>7, <2>1 DEF DiffsCurrent, Noted, EditorSound, diffAnswered
    <2>9. m'.pending <=> snapshot'.at # "idle"
        BY <2>1, <2>2
    <2>10. /\ m'.no = m.no /\ m'.rev <= job.rev /\ GatesShow(m'.status, m'.found) /\ NoLater(m'.found)
           /\ m'.link = m.link /\ reads' \subseteq Reads /\ snapshot'.at # "read"
        BY <1>3, <1>7, <2>1, <2>2
    <2>11. m'.link # "up" => frames' = <<>> /\ ~gapped'
        BY <1>2, <1>4, <2>10
    <2> QED BY <1>2, <1>4, <2>1, <2>2, <2>5, <2>6, <2>7, <2>8, <2>9, <2>10, <2>11, ScreenMoves
<1> QED BY <1>1, <1>5, <1>6, <1>7

LEMMA ReconcileErrsKeeps ==
    ASSUME ScreenInv, ReconcileErrs
    PROVE  ScreenInv'
<1> DEFINE x == [m EXCEPT !.pending = FALSE, !.again = FALSE, !.retryRead = TRUE]
<1>1. /\ snapshot.at = "failed" /\ job' = job /\ gapped' = gapped /\ frames' = frames /\ rulings' = rulings
      /\ breaks' = breaks /\ presses' = presses /\ snapshot' = NoSnapshot
      /\ \/ m.link = "lost" /\ m' = startResubscribe(x) /\ reads' = Orphaned(reads)
         \/ m' = x /\ reads' = reads
    BY DEF ReconcileErrs, daemonVars, boundVars
<1>2. /\ ScreenTyped /\ RunSound /\ Shown /\ DiffsCurrent /\ Noted /\ rulings \subseteq Rulings
      /\ m \in Screens /\ EditorSound(m) /\ reads \subseteq Reads
      /\ breaks \in 0..MaxBreaks /\ breaks <= breaks /\ presses \in 0..MaxPresses
      /\ frames \in Seq(FrameRecords) /\ Len(frames) <= MaxFrames /\ Sent' = Sent
      /\ gapped' \in BOOLEAN /\ (m.link # "up" => frames = <<>> /\ ~gapped)
      /\ \A i, j \in DOMAIN frames : i < j => frames[i].rev < frames[j].rev
    BY <1>1, ScreenFacts, ScreenNumbers DEF ScreenInv, ScreenTyped, RunSound, Sent
<1>3. /\ x \in Screens /\ x.no = m.no /\ x.rev = m.rev /\ x.pending = FALSE /\ x.link = m.link
      /\ x.status = m.status /\ x.found = m.found /\ x.editor = m.editor /\ x.edits = m.edits
      /\ x.loaded = m.loaded /\ x.retryRead = TRUE
    BY <1>2 DEF Screens
<1> HIDE DEF x
<1>4. snapshot' \in [at : {"idle", "asked", "read", "failed"}, run : JobRecords] /\ snapshot'.at = "idle"
    BY <1>1, FreshRun
<1>5. /\ m' \in Screens /\ m'.no = m.no /\ m'.rev <= job.rev /\ m'.pending = FALSE
      /\ m'.status = m.status /\ m'.found = m.found /\ m'.editor = m.editor /\ m'.edits = m.edits
      /\ m'.link # "up" \/ m'.retryRead
      /\ m'.link # "up" => frames' = <<>> /\ ~gapped'
      /\ \A t \in Steps : m'.loaded[t] \in {Nothing, m.loaded[t]}
      /\ reads' \subseteq Reads /\ \A r \in reads' : diffAnswered(r) => r \in reads
    <2>1. CASE m.link = "lost" /\ m' = startResubscribe(x) /\ reads' = Orphaned(reads)
        <3>1. /\ m' \in Screens
              /\ m'.no = x.no /\ m'.rev = 0 /\ m'.status = x.status /\ m'.found = x.found /\ m'.done = x.done
              /\ m'.edits = x.edits /\ m'.editor = x.editor /\ m'.pending = FALSE /\ m'.link = "down"
              /\ \A t \in Steps : m'.loaded[t] = Nothing
            BY <1>3, <2>1, Resubscribes
        <3>2. reads' \subseteq Reads /\ \A r \in reads' : ~diffAnswered(r)
            BY <1>2, <2>1, Orphans
        <3>3. m'.rev <= job.rev
            <4>1. job.rev \in Nat
                BY <1>2 DEF ScreenTyped, JobRecords
            <4> QED BY <4>1, <3>1
        <3> QED BY <1>1, <1>2, <1>3, <2>1, <3>1, <3>2, <3>3
    <2>2. CASE m' = x /\ reads' = reads
        <3>1. m.rev <= job.rev
            BY <1>2 DEF Shown
        <3> QED BY <1>1, <1>2, <1>3, <2>2, <3>1
    <2> QED BY <1>1, <2>1, <2>2
<1>6. ~Followed' /\ Followable' /\ DiffsAsked'
    BY <1>4, <1>5 DEF Followed, Followable, DiffsAsked
<1>7. DiffsCurrent'
    <2>1. \A t \in Steps : m'.loaded[t] # Nothing => m'.loaded[t].no = m'.no /\ m'.loaded[t].round >= m'.found[t].round
        BY <1>2, <1>5 DEF DiffsCurrent
    <2>2. \A r \in reads' : diffAnswered(r) /\ r.at \in {"read", "shown"} =>
            r.of.no = m'.no /\ r.of.round >= m'.found[r.step].round
        BY <1>2, <1>5 DEF DiffsCurrent
    <2> QED BY <2>1, <2>2 DEF DiffsCurrent, diffAnswered
<1>8. /\ Noted' /\ EditorSound(m') /\ (m'.pending <=> snapshot'.at # "idle")
      /\ GatesShow(m'.status, m'.found) /\ NoLater(m'.found)
    BY <1>2, <1>4, <1>5 DEF Noted, EditorSound, Shown
<1> QED BY <1>1, <1>2, <1>4, <1>5, <1>6, <1>7, <1>8, ScreenMoves

-----------------------------------------------------------------------------
(* Diffs, connections, reruns.                                             *)

LEMMA StepDiffMsgKeeps ==
    ASSUME ScreenInv, StepDiffMsg
    PROVE  ScreenInv'
<1>1. PICK r \in reads :
        /\ r.at \in {"read", "failed"}
        /\ \/ ~diffAnswered(r) /\ m' = m /\ reads' = reads \ {r}
           \/ /\ ~stepInFixReview(m, r.step) /\ m' = invalidateStepDiff(m, {r.step})
              /\ reads' = Outdated({r.step}) \ {[r EXCEPT !.newest = FALSE]}
           \/ /\ diffAnswered(r) /\ stepInFixReview(m, r.step) /\ r.at = "read"
              /\ m' = [m EXCEPT !.fetching[r.step] = FALSE, !.retryDiff = FALSE, !.loaded[r.step] = r.of]
              /\ reads' = (reads \ {r}) \cup {[r EXCEPT !.at = "shown"]}
           \/ /\ m' = [m EXCEPT !.fetching[r.step] = FALSE, !.retryDiff = TRUE, !.loaded[r.step] = Nothing]
              /\ reads' = reads \ {r}
        /\ UNCHANGED <<daemonVars, snapshot, rulings, boundVars>>
    BY DEF StepDiffMsg
<1>2. /\ ScreenTyped /\ RunSound /\ Shown /\ DiffsCurrent /\ Noted /\ Followable /\ DiffsAsked /\ rulings \subseteq Rulings
      /\ m \in Screens /\ EditorSound(m) /\ reads \subseteq Reads
      /\ job' = job /\ gapped' = gapped /\ frames' = frames /\ rulings' = rulings /\ snapshot' = snapshot
      /\ breaks' = breaks /\ presses' = presses
      /\ breaks \in 0..MaxBreaks /\ breaks <= breaks /\ presses \in 0..MaxPresses
      /\ frames \in Seq(FrameRecords) /\ Len(frames) <= MaxFrames /\ Sent' = Sent
      /\ gapped' \in BOOLEAN /\ (m.link # "up" => frames = <<>> /\ ~gapped)
      /\ \A i, j \in DOMAIN frames : i < j => frames[i].rev < frames[j].rev
      /\ snapshot \in [at : {"idle", "asked", "read", "failed"}, run : JobRecords]
    BY <1>1, ScreenFacts, ScreenNumbers DEF ScreenInv, ScreenTyped, RunSound, Sent, daemonVars, boundVars
<1> DEFINE s == r.step
<1>3. /\ r \in Reads /\ s \in Steps /\ r.of \in Origins /\ m.loaded \in [Steps -> Origins]
      /\ m.fetching \in [Steps -> BOOLEAN] /\ Nothing \in Origins
    BY <1>2, ScreenNumbers DEF Reads, Screens, Origins, Nothing
<1> HIDE DEF s
\* what every outcome has in common
<1>4. /\ m' \in Screens /\ Alike(m, m')
      /\ \A t \in Steps : t # s => m'.loaded[t] = m.loaded[t] /\ m'.fetching[t] = m.fetching[t]
      /\ m'.loaded[s] \in {Nothing, m.loaded[s]} \/ (diffAnswered(r) /\ r.at = "read" /\ m'.loaded[s] = r.of)
      /\ reads' \subseteq Reads
      /\ \A q \in reads' : diffAnswered(q) => q \in reads \/ (diffAnswered(r) /\ r.at = "read" /\ q.step = s /\ q.of = r.of)
      /\ \A q \in reads : q.step # s => q \in reads'
      /\ Followed /\ ~m'.retryDiff =>
            \/ ~m.retryDiff /\ ~diffAnswered(r) /\ m' = m /\ reads' = reads \ {r}
            \/ ~m.retryDiff /\ m.status[s] # "fixed"
            \/ m.status[s] = "fixed" /\ m'.loaded[s] = r.of /\ diffAnswered(r) /\ r.at = "read" /\ ~m'.fetching[s]
            \/ \A t \in Steps : m.status[t] # "fixed"
    <2>1. CASE ~diffAnswered(r) /\ m' = m /\ reads' = reads \ {r}
        <3>1. \A q \in reads : q.step # s => q \in reads'
            BY <2>1 DEF s
        <3> QED BY <1>2, <2>1, <3>1 DEF Alike, Abreast
    <2>2. CASE /\ ~stepInFixReview(m, r.step) /\ m' = invalidateStepDiff(m, {r.step})
               /\ reads' = Outdated({r.step}) \ {[r EXCEPT !.newest = FALSE]}
        <3>1. /\ m' \in Screens /\ Alike(m, m')
              /\ \A t \in Steps : m'.loaded[t] = IF t \in {s} THEN Nothing ELSE m.loaded[t]
              /\ \A t \in Steps : t \notin {s} => m'.fetching[t] = m.fetching[t]
              /\ m'.retryDiff = (m.retryDiff /\ hasFixReviewStep(m))
            BY <1>2, <2>2, Invalidates DEF s
        <3>2. /\ Outdated({s}) \subseteq Reads
              /\ \A q \in Outdated({s}) : diffAnswered(q) => q \in reads /\ q.step \notin {s}
              /\ \A q \in reads : q.step \notin {s} => q \in Outdated({s})
            BY <1>2, Outdates
        <3>3. [r EXCEPT !.newest = FALSE].step = s
            BY <1>3 DEF Reads, s
        <3>4. /\ reads' \subseteq Reads
              /\ \A q \in reads' : diffAnswered(q) => q \in reads
              /\ \A q \in reads : q.step # s => q \in reads'
            BY <2>2, <3>2, <3>3 DEF s
        <3>5. Followed /\ ~m'.retryDiff =>
                \/ ~m.retryDiff /\ m.status[s] # "fixed"
                \/ \A t \in Steps : m.status[t] # "fixed"
            <4>1. Followed => m.status[s] # "fixed"
                BY <2>2 DEF stepInFixReview, Followed, s
            <4>2. Followed /\ ~hasFixReviewStep(m) => \A t \in Steps : m.status[t] # "fixed"
                BY DEF hasFixReviewStep, stepInFixReview, Followed
            <4> QED BY <4>1, <4>2, <3>1
        <3> QED BY <1>3, <3>1, <3>4, <3>5
    <2>3. CASE /\ diffAnswered(r) /\ stepInFixReview(m, r.step) /\ r.at = "read"
               /\ m' = [m EXCEPT !.fetching[r.step] = FALSE, !.retryDiff = FALSE, !.loaded[r.step] = r.of]
               /\ reads' = (reads \ {r}) \cup {[r EXCEPT !.at = "shown"]}
        <3>1. m' = [m EXCEPT !.fetching = [m.fetching EXCEPT ![s] = FALSE], !.retryDiff = FALSE,
                             !.loaded = [m.loaded EXCEPT ![s] = r.of]]
            BY <1>2, <2>3 DEF Screens, s
        <3>2. [m.fetching EXCEPT ![s] = FALSE] \in [Steps -> BOOLEAN] /\ [m.loaded EXCEPT ![s] = r.of] \in [Steps -> Origins]
            BY <1>3
        <3>3. m' \in Screens
            BY <1>2, <3>1, <3>2 DEF Screens
        <3>4. Alike(m, m') /\ m'.fetching = [m.fetching EXCEPT ![s] = FALSE] /\ m'.loaded = [m.loaded EXCEPT ![s] = r.of]
            BY <1>2, <3>1 DEF Screens, Alike, Abreast
        <3>5. /\ [r EXCEPT !.at = "shown"] \in Reads /\ [r EXCEPT !.at = "shown"].step = s
              /\ [r EXCEPT !.at = "shown"].of = r.of
            BY <1>3 DEF Reads, s
        <3>6. /\ reads' \subseteq Reads
              /\ \A q \in reads' : q \in reads \/ (q.step = s /\ q.of = r.of)
              /\ \A q \in reads : q.step # s => q \in reads'
            BY <1>2, <2>3, <3>5 DEF s
        <3>7. m.status[s] = "fixed"
            BY <2>3 DEF stepInFixReview, s
        <3>8. /\ m'.loaded[s] = r.of /\ ~m'.fetching[s]
              /\ \A t \in Steps : t # s => m'.loaded[t] = m.loaded[t] /\ m'.fetching[t] = m.fetching[t]
            BY <1>3, <3>4
        <3> QED BY <2>3, <3>3, <3>4, <3>6, <3>7, <3>8
    <2>4. CASE /\ m' = [m EXCEPT !.fetching[r.step] = FALSE, !.retryDiff = TRUE, !.loaded[r.step] = Nothing]
               /\ reads' = reads \ {r}
        <3>1. m' = [m EXCEPT !.fetching = [m.fetching EXCEPT ![s] = FALSE], !.retryDiff = TRUE,
                             !.loaded = [m.loaded EXCEPT ![s] = Nothing]]
            BY <1>2, <2>4 DEF Screens, s
        <3>2. [m.fetching EXCEPT ![s] = FALSE] \in [Steps -> BOOLEAN] /\ [m.loaded EXCEPT ![s] = Nothing] \in [Steps -> Origins]
            BY <1>3
        <3>3. m' \in Screens
            BY <1>2, <3>1, <3>2 DEF Screens
        <3>4. Alike(m, m') /\ m'.fetching = [m.fetching EXCEPT ![s] = FALSE] /\ m'.loaded = [m.loaded EXCEPT ![s] = Nothing]
              /\ m'.retryDiff = TRUE
            BY <1>2, <3>1 DEF Screens, Alike, Abreast
        <3>5. \A q \in reads : q.step # s => q \in reads'
            BY <2>4 DEF s
        <3>6. /\ m'.loaded[s] = Nothing
              /\ \A t \in Steps : t # s => m'.loaded[t] = m.loaded[t] /\ m'.fetching[t] = m.fetching[t]
            BY <1>3, <3>4
        <3>7. reads' \subseteq Reads /\ \A q \in reads' : q \in reads
            BY <1>2, <2>4
        <3> QED BY <3>3, <3>4, <3>5, <3>6, <3>7
    <2> QED BY <1>1, <2>1, <2>2, <2>3, <2>4
<1>5. /\ m'.no = m.no /\ m'.rev = m.rev /\ m'.done = m.done /\ m'.status = m.status /\ m'.found = m.found
      /\ m'.pending = m.pending /\ m'.again = m.again /\ m'.retryRead = m.retryRead /\ m'.link = m.link
      /\ Noted' /\ EditorSound(m')
    BY <1>4, AlikeNoted DEF Alike, Abreast
<1>6. Followed' <=> Followed
    BY <1>2, <1>5 DEF Followed
<1>7. diffAnswered(r) /\ r.at = "read" => r.of.no = m.no /\ r.of.round >= m.found[s].round
    BY <1>2 DEF DiffsCurrent, s
<1>8. DiffsCurrent'
    <2>1. \A t \in Steps : m'.loaded[t] # Nothing => m'.loaded[t].no = m'.no /\ m'.loaded[t].round >= m'.found[t].round
        <3> SUFFICES ASSUME NEW t \in Steps, m'.loaded[t] # Nothing
                     PROVE  m'.loaded[t].no = m'.no /\ m'.loaded[t].round >= m'.found[t].round
            OBVIOUS
        <3>1. CASE m'.loaded[t] = m.loaded[t]
            BY <3>1, <1>2, <1>5 DEF DiffsCurrent
        <3>2. CASE t = s /\ diffAnswered(r) /\ r.at = "read" /\ m'.loaded[t] = r.of
            BY <3>2, <1>5, <1>7
        <3> QED BY <3>1, <3>2, <1>4
    <2>2. \A q \in reads' : diffAnswered(q) /\ q.at \in {"read", "shown"} =>
            q.of.no = m'.no /\ q.of.round >= m'.found[q.step].round
        BY <1>2, <1>4, <1>5, <1>7 DEF DiffsCurrent
    <2> QED BY <2>1, <2>2 DEF DiffsCurrent, diffAnswered
<1>9. Followable'
    BY <1>2, <1>5, <1>6 DEF Followable, Coming
<1>10. DiffsAsked'
    <2> SUFFICES ASSUME Followed', ~m'.retryDiff, NEW t \in Steps, m'.status[t] = "fixed",
                        m'.loaded[t] = Nothing \/ m'.fetching[t]
                 PROVE  \E q \in reads' : q.step = t /\ diffAnswered(q) /\ q.at # "shown"
        BY DEF DiffsAsked, diffAnswered
    <2>1. Followed /\ m.status[t] = "fixed"
        BY <1>5, <1>6
    <2>2. CASE ~m.retryDiff /\ ~diffAnswered(r) /\ m' = m /\ reads' = reads \ {r}
        <3>1. PICK q \in reads : q.step = t /\ diffAnswered(q) /\ q.at # "shown"
            BY <1>2, <2>1, <2>2 DEF DiffsAsked
        <3> QED BY <2>2, <3>1
    <2>3. CASE ~m.retryDiff /\ m.status[s] # "fixed"
        <3>1. t # s /\ (m.loaded[t] = Nothing \/ m.fetching[t])
            BY <1>4, <2>1, <2>3
        <3>2. PICK q \in reads : q.step = t /\ diffAnswered(q) /\ q.at # "shown"
            BY <1>2, <2>1, <2>3, <3>1 DEF DiffsAsked
        <3> QED BY <3>1, <3>2, <1>4
    <2>4. CASE m.status[s] = "fixed" /\ m'.loaded[s] = r.of /\ diffAnswered(r) /\ r.at = "read" /\ ~m'.fetching[s]
        <3>1. PICK h : Past(h)
            BY DEF ScreenInv
        <3>2. InTurn(m.status)
            <4>1. m.status = h[m.rev]
                BY <2>1, <3>1 DEF Past
            <4>2. m.rev \in 0..job.rev
                BY <1>2 DEF Shown, Screens, ScreenTyped, JobRecords
            <4> QED BY <3>1, <4>1, <4>2 DEF Past
        <3>3. t = s
            <4>1. m.status[s] \in Gates /\ m.status[t] \in Gates
                BY <2>1, <2>4 DEF Gates
            <4>2. awaitingStep(m.status) = s /\ awaitingStep(m.status) = t
                BY <1>3, <3>2, <4>1, OneGate
            <4> QED BY <4>2
        <3>4. m.found[s].round \in Nat /\ m.found[s].round >= 1
            <4>1. m.found[s] \in FindingSets
                BY <1>2, <1>3 DEF Screens
            <4>2. m.found[s].round \in Nat
                BY <4>1, ScreenNumbers DEF FindingSets, NoFindings
            <4>3. m.found[s].round >= 1
                BY <1>2, <1>3, <2>4 DEF Shown, GatesShow, Gates
            <4> QED BY <4>2, <4>3
        <3>5. r.of # Nothing
            <4>1. r.of.round >= m.found[s].round /\ r.of.round \in 0..MaxRounds
                BY <1>3, <1>7, <2>4 DEF Origins
            <4>2. r.of.round # 0
                BY <3>4, <4>1, ScreenNumbers
            <4> QED BY <4>2 DEF Nothing
        <3> QED BY <2>4, <3>3, <3>5
    <2>5. CASE \A u \in Steps : m.status[u] # "fixed"
        BY <2>1, <2>5
    <2> QED BY <1>4, <2>1, <2>2, <2>3, <2>4, <2>5
<1>11. \A h : Past(h) /\ Followed' => m'.status = h[m'.rev]
    BY <1>5, <1>6 DEF Past
<1>12. /\ GatesShow(m'.status, m'.found) /\ NoLater(m'.found) /\ (m'.pending <=> snapshot'.at # "idle") /\ m'.rev <= job.rev
    BY <1>2, <1>5 DEF Shown
<1>13. m'.link # "up" => frames' = <<>> /\ ~gapped'
    BY <1>2, <1>5
<1> QED BY <1>2, <1>4, <1>5, <1>8, <1>9, <1>10, <1>11, <1>12, <1>13, ScreenMoves

LEMMA StepDiffReadyKeeps ==
    ASSUME ScreenInv, StepDiffReadyMsg
    PROVE  ScreenInv'
<1>1. PICK r \in reads : /\ r.at = "shown" /\ reads' = reads \ {r}
                         /\ maybeAutoApprove(m) \/ UNCHANGED <<m, rulings>>
                         /\ UNCHANGED <<daemonVars, snapshot, boundVars>>
    BY DEF StepDiffReadyMsg
<1>2. /\ reads' \subseteq reads /\ \A q \in reads : q.at # "shown" => q \in reads'
      /\ UNCHANGED <<daemonVars, snapshot, breaks>> /\ presses' = presses
    BY <1>1 DEF boundVars
<1>3. /\ m \in Screens /\ Alike(m, m) /\ presses \in 0..MaxPresses /\ rulings \subseteq Rulings
      /\ breaks \in 0..MaxBreaks /\ breaks <= breaks
    BY ScreenFacts, ScreenNumbers DEF Alike, Abreast
<1>4. CASE maybeAutoApprove(m)
    BY <1>2, <1>3, <1>4, YoloKeeps
<1>5. CASE UNCHANGED <<m, rulings>>
    <2>1. m' = m /\ rulings' = rulings /\ breaks' = breaks /\ UNCHANGED <<daemonVars, snapshot>>
        BY <1>2, <1>5
    <2>2. Alike(m, m') /\ Abreast(m, m')
        BY <2>1 DEF Alike, Abreast
    <2>3. Noted' /\ EditorSound(m')
        BY <2>2, AlikeNoted
    <2> QED BY <1>2, <1>3, <2>1, <2>2, <2>3, EditsKeep
<1> QED BY <1>1, <1>4, <1>5

\* A diff that is asked for again counts for what it will be, not for what it was.
LEMMA AskedAgain ==
    ASSUME ScreenInv, NEW s \in Steps
    PROVE  LET rs == Outdated({s}) \cup Requested(s) IN
           /\ rs \subseteq Reads
           /\ \A r \in rs : diffAnswered(r) /\ r.at \in {"read", "shown"} => r \in reads
           /\ \E r \in rs : r.step = s /\ diffAnswered(r) /\ r.at = "asked"
<1>1. reads \subseteq Reads
    BY ScreenFacts
<1>2. /\ Outdated({s}) \subseteq Reads
      /\ \A r \in Outdated({s}) : diffAnswered(r) => r \in reads
    BY <1>1, Outdates
<1>3. /\ Requested(s) \subseteq Reads /\ Requested(s) # {}
      /\ \A r \in Requested(s) : r.step = s /\ diffAnswered(r) /\ r.at = "asked"
    BY NewRequest
<1>4. PICK q \in Requested(s) : q.step = s /\ diffAnswered(q) /\ q.at = "asked"
    BY <1>3
<1> QED BY <1>2, <1>3, <1>4

LEMMA RetryDiffKeeps ==
    ASSUME ScreenInv, RetryDiff
    PROVE  ScreenInv'
<1> DEFINE s == awaitingStep(m.status)
<1>1. /\ s \in Steps /\ m.status[s] \in Gates
      /\ m' = requestStepDiff(m, s) /\ reads' = Outdated({s}) \cup Requested(s)
      /\ job' = job /\ gapped' = gapped /\ frames' = frames /\ snapshot' = snapshot /\ rulings' = rulings
      /\ breaks' = breaks /\ presses' = presses
    BY FirstAtGate DEF RetryDiff, daemonVars, boundVars
<1> HIDE DEF s
<1>2. /\ ScreenTyped /\ RunSound /\ Shown /\ DiffsCurrent /\ Noted /\ Followable /\ rulings \subseteq Rulings
      /\ m \in Screens
      /\ breaks \in 0..MaxBreaks /\ breaks <= breaks /\ presses \in 0..MaxPresses
      /\ frames \in Seq(FrameRecords) /\ Len(frames) <= MaxFrames /\ Sent' = Sent
      /\ gapped' \in BOOLEAN /\ (m.link # "up" => frames = <<>> /\ ~gapped)
      /\ \A i, j \in DOMAIN frames : i < j => frames[i].rev < frames[j].rev
      /\ snapshot \in [at : {"idle", "asked", "read", "failed"}, run : JobRecords]
    BY <1>1, ScreenFacts, ScreenNumbers DEF ScreenInv, ScreenTyped, RunSound, Sent
<1>3. /\ m' \in Screens /\ Alike(m, m')
      /\ \A t \in Steps : m'.loaded[t] = IF t = s THEN Nothing ELSE m.loaded[t]
    BY <1>1, <1>2, Requests
<1>4. /\ reads' \subseteq Reads
      /\ \A r \in reads' : diffAnswered(r) /\ r.at \in {"read", "shown"} => r \in reads
      /\ \E r \in reads' : r.step = s /\ diffAnswered(r) /\ r.at = "asked"
    BY <1>1, AskedAgain
<1>5. /\ m'.no = m.no /\ m'.rev = m.rev /\ m'.done = m.done /\ m'.status = m.status /\ m'.found = m.found
      /\ m'.pending = m.pending /\ m'.again = m.again /\ m'.retryRead = m.retryRead /\ m'.link = m.link
      /\ Noted' /\ EditorSound(m')
    BY <1>3, AlikeNoted DEF Alike, Abreast
<1>6. Followed' <=> Followed
    BY <1>1, <1>5 DEF Followed
<1>7. DiffsCurrent'
    <2>1. \A t \in Steps : m'.loaded[t] # Nothing => m'.loaded[t].no = m'.no /\ m'.loaded[t].round >= m'.found[t].round
        BY <1>2, <1>3, <1>5 DEF DiffsCurrent
    <2>2. \A r \in reads' : diffAnswered(r) /\ r.at \in {"read", "shown"} =>
            r.of.no = m'.no /\ r.of.round >= m'.found[r.step].round
        BY <1>2, <1>4, <1>5 DEF DiffsCurrent
    <2> QED BY <2>1, <2>2 DEF DiffsCurrent, diffAnswered
<1>8. Followable'
    BY <1>1, <1>2, <1>5, <1>6 DEF Followable, Coming
<1>9. DiffsAsked'
    <2> SUFFICES ASSUME Followed', NEW t \in Steps, m'.status[t] = "fixed"
                 PROVE  \E r \in reads' : r.step = t /\ diffAnswered(r) /\ r.at # "shown"
        BY DEF DiffsAsked, diffAnswered
    <2>1. Followed /\ m.status[t] \in Gates
        BY <1>5, <1>6 DEF Gates
    <2>2. InTurn(m.status)
        <3>1. PICK h : Past(h)
            BY DEF ScreenInv
        <3>2. m.status = h[m.rev]
            BY <2>1, <3>1 DEF Past
        <3>3. m.rev \in 0..job.rev
            BY <1>2 DEF Shown, Screens, ScreenTyped, JobRecords
        <3> QED BY <3>1, <3>2, <3>3 DEF Past
    <2>3. t = s
        BY <2>1, <2>2, OneGate DEF s
    <2> QED BY <1>4, <2>3
<1>10. \A h : Past(h) /\ Followed' => m'.status = h[m'.rev]
    BY <1>5, <1>6 DEF Past
<1>11. /\ GatesShow(m'.status, m'.found) /\ NoLater(m'.found) /\ (m'.pending <=> snapshot'.at # "idle") /\ m'.rev <= job.rev
    BY <1>1, <1>2, <1>5 DEF Shown
<1>12. m'.link # "up" => frames' = <<>> /\ ~gapped'
    BY <1>1, <1>2, <1>5
<1> QED BY <1>1, <1>2, <1>3, <1>4, <1>5, <1>7, <1>8, <1>9, <1>10, <1>11, <1>12, ScreenMoves

LEMMA RetryReadKeeps ==
    ASSUME ScreenInv, RetryRead
    PROVE  ScreenInv'
<1> DEFINE s == awaitingStep(m.status)
           n == [m EXCEPT !.retryRead = FALSE]
<1>1. /\ job' = job /\ gapped' = gapped /\ frames' = frames /\ rulings' = rulings
      /\ breaks' = breaks /\ presses' = presses
      /\ \/ s \in Steps /\ reconcileCmd(requestStepDiff(n, s)) /\ reads' = Outdated({s}) \cup Requested(s)
         \/ reconcileCmd(n) /\ reads' = reads
    BY FirstAtGate DEF RetryRead, daemonVars, boundVars
<1>2. /\ ScreenTyped /\ RunSound /\ Shown /\ DiffsCurrent /\ Noted /\ rulings \subseteq Rulings
      /\ m \in Screens /\ EditorSound(m) /\ reads \subseteq Reads
      /\ breaks \in 0..MaxBreaks /\ breaks <= breaks /\ presses \in 0..MaxPresses
      /\ frames \in Seq(FrameRecords) /\ Len(frames) <= MaxFrames /\ Sent' = Sent
      /\ gapped' \in BOOLEAN /\ (m.link # "up" => frames = <<>> /\ ~gapped)
      /\ \A i, j \in DOMAIN frames : i < j => frames[i].rev < frames[j].rev
    BY <1>1, ScreenFacts, ScreenNumbers DEF ScreenInv, ScreenTyped, RunSound, Sent
<1>3. /\ n \in Screens /\ n.no = m.no /\ n.rev = m.rev /\ n.done = m.done /\ n.status = m.status /\ n.found = m.found
      /\ n.edits = m.edits /\ n.editor = m.editor /\ n.pending = m.pending /\ n.link = m.link /\ n.loaded = m.loaded
    BY <1>2 DEF Screens
<1> HIDE DEF s, n
<1>4. PICK x \in Screens :
        /\ reconcileCmd(x)
        /\ x.no = m.no /\ x.rev = m.rev /\ x.done = m.done /\ x.status = m.status /\ x.found = m.found
        /\ x.edits = m.edits /\ x.editor = m.editor /\ x.pending = m.pending /\ x.link = m.link
        /\ \A t \in Steps : x.loaded[t] \in {Nothing, m.loaded[t]}
        /\ reads' \subseteq Reads
        /\ \A r \in reads' : diffAnswered(r) /\ r.at \in {"read", "shown"} => r \in reads
    <2>1. CASE s \in Steps /\ reconcileCmd(requestStepDiff(n, s)) /\ reads' = Outdated({s}) \cup Requested(s)
        <3> DEFINE x == requestStepDiff(n, s)
        <3>1. /\ x \in Screens /\ Alike(n, x)
              /\ \A t \in Steps : x.loaded[t] = IF t = s THEN Nothing ELSE n.loaded[t]
            BY <1>3, <2>1, Requests
        <3>2. /\ reads' \subseteq Reads
              /\ \A r \in reads' : diffAnswered(r) /\ r.at \in {"read", "shown"} => r \in reads
            BY <2>1, AskedAgain
        <3>3. reconcileCmd(x)
            BY <2>1
        <3> HIDE DEF x
        <3>4. /\ x.no = m.no /\ x.rev = m.rev /\ x.done = m.done /\ x.status = m.status /\ x.found = m.found
              /\ x.edits = m.edits /\ x.editor = m.editor /\ x.pending = m.pending /\ x.link = m.link
              /\ \A t \in Steps : x.loaded[t] \in {Nothing, m.loaded[t]}
            BY <1>3, <3>1 DEF Alike, Abreast
        <3> QED BY <3>1, <3>2, <3>3, <3>4
    <2>2. CASE reconcileCmd(n) /\ reads' = reads
        BY <1>2, <1>3, <2>2
    <2> QED BY <1>1, <2>1, <2>2
<1>5. /\ m' \in Screens /\ m'.pending = TRUE
      /\ m'.no = m.no /\ m'.rev = m.rev /\ m'.done = m.done /\ m'.status = m.status /\ m'.found = m.found
      /\ m'.edits = m.edits /\ m'.editor = m.editor /\ m'.link = m.link /\ m'.loaded = x.loaded
      /\ snapshot' \in [at : {"idle", "asked", "read", "failed"}, run : JobRecords]
      /\ snapshot'.at # "idle" /\ (m'.again \/ snapshot'.at # "read")
      /\ snapshot'.at = "read" => snapshot' = snapshot
    BY <1>4, ReadIsAsked
<1>6. ~Followed'
    BY <1>5 DEF Followed
<1>7. DiffsCurrent' /\ Noted' /\ EditorSound(m')
    <2>1. \A t \in Steps : m'.loaded[t] # Nothing => m'.loaded[t].no = m'.no /\ m'.loaded[t].round >= m'.found[t].round
        BY <1>2, <1>4, <1>5 DEF DiffsCurrent
    <2>2. \A r \in reads' : diffAnswered(r) /\ r.at \in {"read", "shown"} =>
            r.of.no = m'.no /\ r.of.round >= m'.found[r.step].round
        BY <1>2, <1>4, <1>5 DEF DiffsCurrent
    <2>3. DiffsCurrent'
        BY <2>1, <2>2 DEF DiffsCurrent, diffAnswered
    <2> QED BY <1>2, <1>5, <2>3 DEF Noted, EditorSound
<1>8. Followable' /\ DiffsAsked'
    BY <1>5, <1>6 DEF Followable, DiffsAsked
<1>9. GatesShow(m'.status, m'.found) /\ NoLater(m'.found) /\ m'.rev <= job.rev /\ (m'.pending <=> snapshot'.at # "idle")
    BY <1>2, <1>5 DEF Shown
<1>10. m'.link # "up" => frames' = <<>> /\ ~gapped'
    BY <1>1, <1>2, <1>5
<1> QED BY <1>1, <1>2, <1>4, <1>5, <1>6, <1>7, <1>8, <1>9, <1>10, ScreenMoves

LEMMA ConnectionKeeps ==
    ASSUME ScreenInv, StreamBreaks \/ Connected
    PROVE  ScreenInv'
<1>1. /\ job' = job /\ snapshot' = snapshot /\ rulings' = rulings /\ presses' = presses /\ frames' = <<>>
      /\ breaks' \in 0..MaxBreaks /\ breaks <= breaks'
    BY ScreenFacts, ScreenNumbers DEF StreamBreaks, Connected, boundVars
<1>2. /\ ScreenTyped /\ RunSound /\ Shown /\ DiffsCurrent /\ Noted /\ rulings \subseteq Rulings
      /\ m \in Screens /\ EditorSound(m) /\ reads \subseteq Reads
      /\ presses \in 0..MaxPresses
      /\ snapshot \in [at : {"idle", "asked", "read", "failed"}, run : JobRecords]
    BY ScreenFacts DEF ScreenInv, ScreenTyped
<1>3. /\ m' \in Screens /\ m'.no = m.no /\ m'.rev \in {0, m.rev} /\ m'.status = m.status /\ m'.found = m.found
      /\ m'.editor = m.editor /\ m'.edits = m.edits
      /\ m'.pending <=> snapshot.at # "idle"
      /\ \A t \in Steps : m'.loaded[t] \in {Nothing, m.loaded[t]}
      /\ reads' \subseteq Reads /\ \A r \in reads' : diffAnswered(r) => r \in reads
      /\ gapped' = (m'.link = "up")
    <2>1. m.pending <=> snapshot.at # "idle"
        BY <1>2 DEF Shown
    <2>2. CASE StreamBreaks /\ m.pending
        <3>1. m' = [m EXCEPT !.link = "lost"] /\ reads' = reads /\ gapped' = FALSE
            BY <2>2 DEF StreamBreaks
        <3>2. /\ m' \in Screens /\ m'.no = m.no /\ m'.rev = m.rev /\ m'.status = m.status /\ m'.found = m.found
              /\ m'.editor = m.editor /\ m'.edits = m.edits /\ m'.pending = m.pending /\ m'.loaded = m.loaded
              /\ m'.link = "lost"
            BY <1>2, <3>1 DEF Screens
        <3> QED BY <1>2, <2>1, <3>1, <3>2
    <2>3. CASE StreamBreaks /\ ~m.pending
        <3>1. m' = startResubscribe(m) /\ reads' = Orphaned(reads) /\ gapped' = FALSE
            BY <2>3 DEF StreamBreaks
        <3>2. /\ m' \in Screens
              /\ m'.no = m.no /\ m'.rev = 0 /\ m'.status = m.status /\ m'.found = m.found
              /\ m'.edits = m.edits /\ m'.editor = m.editor /\ m'.pending = FALSE /\ m'.link = "down"
              /\ \A t \in Steps : m'.loaded[t] = Nothing
            BY <1>2, <3>1, Resubscribes
        <3>3. reads' \subseteq Reads /\ \A r \in reads' : ~diffAnswered(r)
            BY <1>2, <3>1, Orphans
        <3> QED BY <2>1, <2>3, <3>1, <3>2, <3>3
    <2>4. CASE Connected
        <3>1. m' = [m EXCEPT !.link = "up"] /\ reads' = reads /\ gapped' = TRUE
            BY <2>4 DEF Connected
        <3>2. /\ m' \in Screens /\ m'.no = m.no /\ m'.rev = m.rev /\ m'.status = m.status /\ m'.found = m.found
              /\ m'.editor = m.editor /\ m'.edits = m.edits /\ m'.pending = m.pending /\ m'.loaded = m.loaded
              /\ m'.link = "up"
            BY <1>2, <3>1 DEF Screens
        <3> QED BY <1>2, <2>1, <3>1, <3>2
    <2> QED BY <2>2, <2>3, <2>4
<1>4. /\ frames' \in Seq(FrameRecords) /\ Len(frames') <= MaxFrames /\ Sent' \subseteq Sent
      /\ \A i, j \in DOMAIN frames' : i < j => frames'[i].rev < frames'[j].rev
    <2>1. <<>> \in Seq(FrameRecords) /\ Len(<<>>) = 0 /\ DOMAIN <<>> = {}
        OBVIOUS
    <2>2. MaxFrames \in Nat /\ 0 <= MaxFrames
        BY ScreenNumbers
    <2> QED BY <1>1, <2>1, <2>2 DEF Sent
<1>5. ~Followed' /\ Followable' /\ DiffsAsked'
    BY <1>3 DEF Followed, Followable, DiffsAsked
<1>6. DiffsCurrent' /\ Noted' /\ EditorSound(m')
    <2>1. \A t \in Steps : m'.loaded[t] # Nothing => m'.loaded[t].no = m'.no /\ m'.loaded[t].round >= m'.found[t].round
        BY <1>2, <1>3 DEF DiffsCurrent
    <2>2. \A r \in reads' : diffAnswered(r) /\ r.at \in {"read", "shown"} =>
            r.of.no = m'.no /\ r.of.round >= m'.found[r.step].round
        BY <1>2, <1>3 DEF DiffsCurrent
    <2>3. DiffsCurrent'
        BY <2>1, <2>2 DEF DiffsCurrent, diffAnswered
    <2> QED BY <1>2, <1>3, <2>3 DEF Noted, EditorSound
<1>7. GatesShow(m'.status, m'.found) /\ NoLater(m'.found)
    BY <1>2, <1>3 DEF Shown
<1>8. m'.rev <= job.rev
    <2>1. job.rev \in Nat /\ m.rev <= job.rev
        BY <1>2 DEF Shown, ScreenTyped, JobRecords
    <2> QED BY <1>3, <2>1
<1>9. gapped' \in BOOLEAN
    BY <1>3
<1>10. m'.link # "up" => frames' = <<>> /\ ~gapped'
    BY <1>1, <1>3
<1> QED BY <1>1, <1>2, <1>3, <1>4, <1>5, <1>6, <1>7, <1>8, <1>9, <1>10, ScreenMoves

\* A screen that has just been made of its run, whose state is the first it reads.
FreshScreen ==
    /\ job \in JobRecords /\ job.no <= breaks /\ job.rev = 0 /\ ~job.over
    /\ InTurn(job.status) /\ GatesShow(job.status, job.found)
    /\ gapped = FALSE /\ frames = <<>> /\ snapshot = NoSnapshot
    /\ m = NewModel(job)
    /\ reads \subseteq Reads /\ \A r \in reads : ~diffAnswered(r)
    /\ rulings \subseteq Rulings
    /\ breaks \in 0..MaxBreaks /\ presses \in 0..MaxPresses

LEMMA FreshIsSound == FreshScreen => ScreenInv
<1> SUFFICES ASSUME FreshScreen
             PROVE  ScreenInv
    OBVIOUS
<1>1. /\ job \in JobRecords /\ job.no <= breaks /\ job.rev = 0 /\ ~job.over
      /\ InTurn(job.status) /\ GatesShow(job.status, job.found)
      /\ gapped = FALSE /\ frames = <<>> /\ snapshot = NoSnapshot
      /\ m = NewModel(job)
      /\ reads \subseteq Reads /\ \A r \in reads : ~diffAnswered(r)
      /\ rulings \subseteq Rulings
      /\ breaks \in 0..MaxBreaks /\ presses \in 0..MaxPresses
    BY DEF FreshScreen
<1>2. /\ job.no \in 0..MaxBreaks /\ job.over \in BOOLEAN /\ job.status \in [Steps -> Statuses]
      /\ job.found \in [Steps -> FindingSets]
    BY <1>1 DEF JobRecords
<1>3. \A s \in Steps : job.found[s].round \in 0..MaxRounds /\ job.found[s].round <= job.found[s].round
    <2>1. \A x \in FindingSets : x.round \in 0..MaxRounds
        BY ScreenNumbers DEF FindingSets, NoFindings
    <2>2. \A n \in 0..MaxRounds : n <= n
        BY ScreenNumbers
    <2> QED BY <1>2, <2>1, <2>2
<1>4. m \in Screens
    <2>1. Nothing \in Origins /\ NoEditor \in [kind : {"none", "note", "added"}, step : Steps, round : 0..MaxRounds]
        BY ScreenNumbers DEF Nothing, Origins, NoEditor
    <2>2. /\ [s \in Steps |-> job.found[s].round] \in [Steps -> 0..MaxRounds]
          /\ [s \in Steps |-> {}] \in [Steps -> SUBSET Edits]
          /\ [s \in Steps |-> Nothing] \in [Steps -> Origins]
          /\ [s \in Steps |-> FALSE] \in [Steps -> BOOLEAN]
        BY <1>3, <2>1
    <2> QED BY <1>1, <1>2, <2>1, <2>2 DEF NewModel, Screens
<1>5. /\ m.no = job.no /\ m.rev = 0 /\ m.status = job.status /\ m.found = job.found /\ m.editor = NoEditor
      /\ m.pending = FALSE /\ m.link = "down"
      /\ \A s \in Steps : m.edits[s] = {} /\ m.loaded[s] = Nothing
    BY <1>1 DEF NewModel
<1>6. snapshot \in [at : {"idle", "asked", "read", "failed"}, run : JobRecords] /\ snapshot.at = "idle"
    BY <1>1, FreshRun
<1>7. frames \in Seq(FrameRecords) /\ Len(frames) <= MaxFrames /\ Sent = {} /\ DOMAIN frames = {}
    <2>1. <<>> \in Seq(FrameRecords) /\ Len(<<>>) = 0 /\ DOMAIN <<>> = {}
        OBVIOUS
    <2>2. 0 <= MaxFrames
        BY ScreenNumbers
    <2> QED BY <1>1, <2>1, <2>2 DEF Sent
<1>8. ScreenTyped
    BY <1>1, <1>4, <1>6, <1>7 DEF ScreenTyped, Rulings
<1>9. RunSound
    BY <1>1, <1>6, <1>7 DEF RunSound
<1>10. Shown
    <2>1. NoLater(m.found)
        BY <1>3, <1>5 DEF NoLater
    <2> QED BY <1>1, <1>5, <1>6, <2>1 DEF Shown
<1>11. DiffsCurrent /\ Noted
    BY <1>1, <1>5 DEF DiffsCurrent, Noted
<1>12. ~Followed /\ Followable /\ DiffsAsked
    BY <1>5 DEF Followed, Followable, DiffsAsked
<1>13. Past([k \in Nat |-> job.status])
    <2>1. 0..job.rev \subseteq Nat /\ job.rev \in Nat
        BY <1>1
    <2> QED BY <1>1, <1>2, <1>6, <1>7, <1>12, <2>1 DEF Past
<1> QED BY <1>8, <1>9, <1>10, <1>11, <1>12, <1>13 DEF ScreenInv

LEMMA NewJobs ==
    ASSUME NEW no \in 0..MaxBreaks
    PROVE  LET j == NewJob(no) IN
           /\ j \in JobRecords /\ j.no = no /\ j.rev = 0 /\ ~j.over
           /\ InTurn(j.status) /\ GatesShow(j.status, j.found)
           /\ \A gate \in Gates, k \in {"ask", "fix"} :
                LET g == [j EXCEPT !.status[1] = gate, !.found[1] = [round |-> 1, kind |-> k]] IN
                /\ g \in JobRecords /\ g.no = no /\ g.rev = 0 /\ ~g.over
                /\ InTurn(g.status) /\ GatesShow(g.status, g.found)
<1> DEFINE j == NewJob(no)
<1>1. /\ j \in JobRecords /\ j.no = no /\ j.rev = 0 /\ ~j.over
      /\ j.status = [s \in Steps |-> "pending"] /\ j.found = [s \in Steps |-> NoFindings]
    BY FreshRun DEF NewJob
<1> HIDE DEF j
<1>2. InTurn(j.status) /\ GatesShow(j.status, j.found)
    BY <1>1 DEF InTurn, GatesShow, Gates
<1>3. ASSUME NEW gate \in Gates, NEW k \in {"ask", "fix"}
      PROVE  LET g == [j EXCEPT !.status[1] = gate, !.found[1] = [round |-> 1, kind |-> k]] IN
             /\ g \in JobRecords /\ g.no = no /\ g.rev = 0 /\ ~g.over
             /\ InTurn(g.status) /\ GatesShow(g.status, g.found)
    <2> DEFINE g == [j EXCEPT !.status[1] = gate, !.found[1] = [round |-> 1, kind |-> k]]
               st == [j.status EXCEPT ![1] = gate]
               fd == [j.found EXCEPT ![1] = [round |-> 1, kind |-> k]]
    <2>1. 1 \in Steps /\ gate \in Statuses /\ [round |-> 1, kind |-> k] \in FindingSets /\ NoFindings \in FindingSets
        BY ScreenNumbers DEF Gates, Statuses, FindingSets
    <2>2. /\ st \in [Steps -> Statuses] /\ fd \in [Steps -> FindingSets]
          /\ st[1] = gate /\ fd[1].round = 1
          /\ \A s \in Steps : s # 1 => st[s] = "pending" /\ fd[s] = NoFindings
        BY <1>1, <2>1 DEF Statuses
    <2>3. /\ g \in JobRecords /\ g.no = no /\ g.rev = 0 /\ ~g.over /\ g.status = st /\ g.found = fd
        BY <1>1, <2>2 DEF JobRecords
    <2> HIDE DEF g, st, fd
    <2>4. InTurn(st)
        <3> SUFFICES ASSUME NEW s \in Steps, NEW t \in Steps, s < t, st[t] # "pending"
                     PROVE  FALSE
            BY DEF InTurn
        <3>1. t = 1
            BY <2>2
        <3> QED BY <3>1, ScreenNumbers
    <2>5. GatesShow(st, fd)
        BY <2>2 DEF GatesShow, Gates
    <2> QED BY <2>3, <2>4, <2>5 DEF g
<1> QED BY <1>1, <1>2, <1>3 DEF j

LEMMA RerunKeeps ==
    ASSUME ScreenInv, Rerun
    PROVE  ScreenInv'
<1>1. /\ breaks' = breaks + 1 /\ breaks < MaxBreaks /\ job' = NewJob(job.no + 1)
      /\ gapped' = FALSE /\ frames' = <<>> /\ m' = NewModel(job')
      /\ reads' = {[r EXCEPT !.mine = FALSE, !.newest = TRUE] : r \in Served(reads)}
      /\ snapshot' = NoSnapshot /\ rulings' = rulings /\ presses' = presses
    BY DEF Rerun
<1>2. /\ job.no \in 0..MaxBreaks /\ job.no <= breaks /\ reads \subseteq Reads /\ rulings \subseteq Rulings
      /\ breaks \in 0..MaxBreaks /\ presses \in 0..MaxPresses
    BY ScreenFacts DEF ScreenInv, ScreenTyped, JobRecords
<1>3. breaks' \in 0..MaxBreaks /\ job.no + 1 \in 0..MaxBreaks /\ job.no + 1 <= breaks'
    <2>1. breaks' = breaks + 1 /\ breaks < MaxBreaks
        BY <1>1
    <2>2. job.no \in Nat /\ job.no <= breaks /\ breaks \in Nat /\ MaxBreaks \in Nat
        BY <1>2, ScreenNumbers
    <2> QED BY <2>1, <2>2
<1>4. /\ job' \in JobRecords /\ job'.no = job.no + 1 /\ job'.rev = 0 /\ ~job'.over
      /\ InTurn(job'.status) /\ GatesShow(job'.status, job'.found)
    BY <1>1, <1>3, NewJobs
<1>5. reads' \subseteq Reads /\ \A r \in reads' : ~diffAnswered(r)
    <2>1. \A r \in Reads : /\ [r EXCEPT !.mine = FALSE, !.newest = TRUE] \in Reads
                           /\ ~diffAnswered([r EXCEPT !.mine = FALSE, !.newest = TRUE])
        BY DEF Reads, diffAnswered
    <2> QED BY <1>1, <1>2, <2>1 DEF Served
<1>6. FreshScreen'
    BY <1>1, <1>2, <1>3, <1>4, <1>5 DEF FreshScreen, diffAnswered
<1> QED BY <1>6, FreshIsSound, PTL

\* The invariant holds at the start and at every step.
LEMMA ScreenStarts == ScreenInit => ScreenInv
<1> SUFFICES ASSUME ScreenInit
             PROVE  ScreenInv
    OBVIOUS
<1>1. 0 \in 0..MaxBreaks /\ 0 \in 0..MaxPresses /\ 0 <= 0
    BY ScreenNumbers
<1>2. /\ job \in JobRecords /\ job.no = 0 /\ job.rev = 0 /\ ~job.over
      /\ InTurn(job.status) /\ GatesShow(job.status, job.found)
    <2>1. CASE job = NewJob(0)
        BY <1>1, <2>1, NewJobs
    <2>2. ASSUME NEW gate \in Gates, NEW k \in {"ask", "fix"},
                 job = [NewJob(0) EXCEPT !.status[1] = gate, !.found[1] = [round |-> 1, kind |-> k]]
          PROVE  /\ job \in JobRecords /\ job.no = 0 /\ job.rev = 0 /\ ~job.over
                 /\ InTurn(job.status) /\ GatesShow(job.status, job.found)
        <3> DEFINE g == [NewJob(0) EXCEPT !.status[1] = gate, !.found[1] = [round |-> 1, kind |-> k]]
        <3>1. /\ g \in JobRecords /\ g.no = 0 /\ g.rev = 0 /\ ~g.over
              /\ InTurn(g.status) /\ GatesShow(g.status, g.found)
            BY ZenonT(30), <1>1, <2>2, NewJobs
        <3>2. job = g
            BY <2>2
        <3> HIDE DEF g
        <3> QED BY <3>1, <3>2
    <2> QED BY <2>1, <2>2 DEF ScreenInit
<1>3. FreshScreen
    BY <1>1, <1>2 DEF ScreenInit, FreshScreen
<1> QED BY <1>3, FreshIsSound

LEMMA OthersRuleKeeps ==
    ASSUME ScreenInv, NEW s \in Steps, OthersRule(s)
    PROVE  ScreenInv'
<1>1. PICK a \in {"approve", "fix"} : Ruled(s, a)
    BY DEF OthersRule
<1>2. job.status[s] \in Gates /\ rulings' \subseteq rulings
    BY DEF OthersRule
<1> QED BY <1>1, <1>2, RuledKeeps

LEMMA ScreenStutters ==
    ASSUME ScreenInv, UNCHANGED screenVars
    PROVE  ScreenInv'
<1>1. /\ job' = job /\ gapped' = gapped /\ frames' = frames /\ m' = m /\ reads' = reads /\ snapshot' = snapshot
      /\ rulings' = rulings /\ breaks' = breaks /\ presses' = presses
    BY DEF screenVars, daemonVars, boundVars
<1>2. Alike(m, m') /\ Abreast(m, m') /\ UNCHANGED <<daemonVars, snapshot>>
    BY <1>1 DEF Alike, Abreast, daemonVars
<1>3. /\ m \in Screens /\ rulings \subseteq Rulings /\ breaks \in 0..MaxBreaks /\ breaks <= breaks
      /\ presses \in 0..MaxPresses
    BY ScreenFacts, ScreenNumbers
<1> QED BY <1>1, <1>2, <1>3, AlikeNoted, EditsKeep

LEMMA ScreenStepKeeps ==
    ASSUME ScreenInv, [ScreenNext]_screenVars
    PROVE  ScreenInv'
<1>1. ASSUME NEW s \in Steps, StepBegins(s) \/ RoundEnds(s) \/ OthersRule(s)
      PROVE  ScreenInv'
    BY <1>1, StepBeginsKeeps, RoundEndsKeeps, OthersRuleKeeps
<1>2. CASE TakeRuling
    BY <1>2, TakeRulingKeeps
<1>3. CASE JobEnds
    BY <1>3, JobEndsKeeps
<1>4. CASE ServeDiff
    BY <1>4, ServeDiffKeeps
<1>5. CASE ServeSnapshot
    BY <1>5, ServeSnapshotKeeps
<1>6. CASE handleKey
    BY <1>6, UserRulesKeeps, UserEditsKeeps, RetryDiffKeeps, RetryReadKeeps, RerunKeeps DEF handleKey
<1>7. CASE ApplyGap
    BY <1>7, ApplyGapKeeps
<1>8. CASE applyEvent
    BY <1>8, ApplyEventKeeps
<1>9. CASE Reconciled \/ ReconcileErrs
    BY <1>9, ReconciledKeeps, ReconcileErrsKeeps
<1>10. CASE StepDiffMsg \/ StepDiffReadyMsg
    BY <1>10, StepDiffMsgKeeps, StepDiffReadyKeeps
<1>11. CASE StreamBreaks \/ Connected
    BY <1>11, ConnectionKeeps
<1>12. CASE UNCHANGED screenVars
    BY <1>12, ScreenStutters
<1> QED BY <1>1, <1>2, <1>3, <1>4, <1>5, <1>6, <1>7, <1>8, <1>9, <1>10, <1>11, <1>12 DEF ScreenNext

\* The screen follows its run: frames on their way and reads in flight lead from
\* what is shown to what the run has come to, every diff held is of the round
\* shown or a later one, and one that is missing has been asked for.
THEOREM ScreenInvHolds == ScreenSpec => []ScreenInv
<1>1. ScreenInv /\ [ScreenNext]_screenVars => ScreenInv'
    BY ScreenStepKeeps
<1> QED BY <1>1, ScreenStarts, PTL DEF ScreenSpec

LEMMA ScreenKeepsSafe == ScreenInv => ScreenSafe
<1> SUFFICES ASSUME ScreenInv
             PROVE  ScreenSafe
    OBVIOUS
<1> DEFINE s == awaitingStep(m.status)
<1>1. /\ ScreenTyped /\ Shown /\ DiffsCurrent /\ Noted /\ DiffsAsked /\ m \in Screens /\ reads \subseteq Reads
    BY ScreenFacts DEF ScreenInv
<1>2. s # NoStep => s \in Steps /\ m.status[s] \in Gates
    BY FirstAtGate
<1>3. ScreenTypeOK
    <2>1. /\ job.status \in [Steps -> Statuses] /\ job.found \in [Steps -> FindingSets]
          /\ gapped \in BOOLEAN /\ Len(frames) <= MaxFrames
          /\ reads \subseteq Reads /\ snapshot.at \in {"idle", "asked", "read", "failed"}
        BY <1>1 DEF ScreenTyped, JobRecords
    <2>2. /\ m.status \in [Steps -> Statuses] /\ m.found \in [Steps -> FindingSets]
          /\ m.edits \in [Steps -> SUBSET Edits]
          /\ m.editor \in [kind : {"none", "note", "added"}, step : Steps, round : 0..MaxRounds]
          /\ m.link \in {"up", "lost", "down"} /\ m.yoloFixed \cup m.yoloApproved \subseteq Steps
        BY <1>1 DEF Screens
    <2> QED BY <2>1, <2>2 DEF ScreenTypeOK
<1> HIDE DEF s
<1>4. s # NoStep /\ m.status[s] = "fixed" /\ approvalReady(m, s) /\ ~m.done =>
        m.loaded[s].no = m.no /\ m.loaded[s].round >= m.found[s].round
    BY <1>1, <1>2 DEF approvalReady, DiffsCurrent
<1>5. s # NoStep => \A x \in m.edits[s] : x.round = m.found[s].round \/ x.late
    BY <1>1, <1>2 DEF Noted
<1>6. s # NoStep /\ ~m.done /\ ~approvalReady(m, s) =>
        \/ m.pending /\ snapshot.at # "idle"
        \/ \E r \in reads : r.step = s /\ r.newest /\ r.mine /\ r.at # "shown"
        \/ reviewRetryAvailable(m) \/ gapped \/ m.link # "up"
    <2> SUFFICES ASSUME s # NoStep, ~m.done, ~approvalReady(m, s), ~m.pending, ~m.retryRead, ~gapped, m.link = "up",
                        ~reviewRetryAvailable(m)
                 PROVE  \E r \in reads : r.step = s /\ r.newest /\ r.mine /\ r.at # "shown"
        <3>1. m.pending => snapshot.at # "idle"
            BY <1>1 DEF Shown
        <3>2. m.pending \in BOOLEAN /\ m.retryRead \in BOOLEAN
            BY <1>1 DEF Screens
        <3> QED BY <3>1, <3>2 DEF reviewRetryAvailable
    <2>1. /\ m.status[s] = "fixed" /\ s \in Steps
          /\ m.retryDiff \/ m.loaded[s] = Nothing \/ m.fetching[s]
        BY <1>2 DEF approvalReady
    <2>2. ~m.retryDiff
        BY <2>1 DEF reviewRetryAvailable, hasFixReviewStep, stepInFixReview
    <2>3. Followed
        BY DEF Followed
    <2> QED BY <1>1, <2>1, <2>2, <2>3 DEF DiffsAsked, diffAnswered
<1> QED BY <1>3, <1>4, <1>5, <1>6 DEF s, ScreenSafe, DiffIsCurrent, EditsBelong, GateNeverWedged

\* No fix may be ruled on beside a diff of an earlier round or another run, no
\* note outlives its gate, and a gate that may not be ruled on yet will be or
\* offers a retry (model.go, commands.go).
THEOREM ScreenIsSafe == ScreenSpec => []ScreenSafe
BY ScreenInvHolds, ScreenKeepsSafe, PTL
=============================================================================
