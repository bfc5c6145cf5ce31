--------------------------- MODULE ClientsProofs ----------------------------
(* Proofs about the CI step, which waits for the checks of the pull request: *)
(* reruns and repairs stay within their limits and a green head is earned;   *)
(* and about rulings on a parked gate: each takes effect once, on the round  *)
(* it was accepted for, and what --yes answers stays within its budget.      *)
EXTENDS GateDrive, CIMonitor, FiniteSetTheorems, TLAPS

-----------------------------------------------------------------------------
(* The CI step: its inductive invariant *)

Attempts == [n : Nat, res : {"none", "pending", "pass", "fail", "cancel"}]
Reruns == [at : Nat, grace : 0..Grace, head : Nat]

\* The step's memory and the stored row keep their fields.
MonitorShapes ==
    /\ ci = [pc |-> ci.pc, fixing |-> ci.fixing, tried |-> ci.tried, last |-> ci.last,
             attempts |-> ci.attempts, spent |-> ci.spent, roll |-> ci.roll, merge |-> ci.merge,
             issued |-> ci.issued, view |-> ci.view, green |-> ci.green]
    /\ row = [attempts |-> row.attempts, spent |-> row.spent, roll |-> row.roll, ready |-> row.ready]

MonitorTyped ==
    /\ jobs \in [Checks -> Nat] /\ shown \in [Checks -> Attempts] /\ event \in Nat /\ omits \in Nat
    /\ head \in 1..MaxHeads
    /\ asked \in [Checks -> Nat] /\ owed \in [Checks -> Nat] /\ autos \in Nat
    /\ row.attempts \in Nat /\ row.spent \in [Checks -> Nat] /\ row.roll \in [Checks -> Reruns]
    /\ row.ready \in BOOLEAN
    /\ ci.pc \in {"wait", "asking", "judge", "asked", "auto", "parked", "over"}
    /\ ci.last \in {"none", "running", "passed"}
    /\ ci.green \in BOOLEAN
    /\ ci.attempts \in Nat /\ ci.spent \in [Checks -> Nat] /\ ci.roll \in [Checks -> Reruns]
    /\ ci.view \in [Checks -> Attempts]

Live == ci.pc \notin {"parked", "over"}

\* The row counts what was asked for, and the step that runs counts the same.
Counted ==
    /\ \A c \in Checks : asked[c] = row.spent[c] /\ asked[c] <= RerunLimit
    /\ autos = row.attempts /\ autos <= FixLimit
    /\ ci.attempts <= row.attempts
    /\ Live => ci.spent = row.spent /\ ci.attempts = row.attempts

\* Attempts the rollup, the poll and a reserved rerun name were started.
OfHead(r, c) == r.head <= head /\ (r.head = head => r.at <= jobs[c])
Started ==
    \A c \in Checks :
        /\ owed[c] <= jobs[c] /\ shown[c].n <= jobs[c] /\ ci.view[c].n <= jobs[c]
        /\ shown[c].res # "none" => shown[c].n # 0
        /\ OfHead(ci.roll[c], c) /\ OfHead(row.roll[c], c)

\* What the run shows follows the last poll and the last message.
Said ==
    /\ ci.pc \in {"wait", "parked"} => row.ready = ci.green
    /\ ci.pc \in {"asking", "judge", "asked", "auto"} => ci.green = FALSE
    /\ ci.pc \in {"asked", "auto"} => row.ready = FALSE /\ ci.last = "none"
    /\ Live /\ ci.last = "passed" => row.ready = TRUE
    /\ Live /\ ci.last = "running" => row.ready = FALSE

\* A poll judges what the rollup shows.
Polled == ci.pc \in {"asking", "judge"} => \A c \in Checks : ci.view[c] = Filtered(c)

\* A rerun the provider promised and has not shown is on record, in the row and
\* in a step that runs.
Recorded(r, c) ==
    /\ r.head = head /\ r.at = shown[c].n /\ shown[c].n # 0
    /\ shown[c].res \in {"cancel", "none"}
Promised ==
    \A c \in Checks :
        \/ owed[c] <= shown[c].n
        \/ /\ owed[c] <= shown[c].n + 1
           /\ Recorded(row.roll[c], c) /\ (Live => Recorded(ci.roll[c], c))

MonitorInv ==
    MonitorShapes /\ MonitorTyped /\ Counted /\ Started /\ Said /\ Polled /\ Promised

\* Grace is spent without touching what a rerun was asked for.
LEMMA GraceIsSpent ==
    ASSUME MonitorInv
    PROVE  /\ GraceSpent \in [Checks -> Reruns]
           /\ \A c \in Checks : GraceSpent[c].at = ci.roll[c].at /\ GraceSpent[c].head = ci.roll[c].head
<1>1. ASSUME NEW r \in Reruns, NEW g \in 0..Grace
      PROVE  [r EXCEPT !.grace = g] \in Reruns /\ [r EXCEPT !.grace = g].at = r.at
             /\ [r EXCEPT !.grace = g].head = r.head
  BY DEF Reruns
<1>2. \A c \in Checks : ci.roll[c] \in Reruns /\ ci.roll[c].grace \in 0..Grace
  BY DEF MonitorInv, MonitorTyped, Reruns
<1>3. ASSUME NEW c \in Checks
      PROVE  /\ GraceSpent[c] \in Reruns
             /\ GraceSpent[c].at = ci.roll[c].at /\ GraceSpent[c].head = ci.roll[c].head
  <2>1. CASE c \in Outstanding /\ ~Refreshed(c) /\ ci.roll[c].grace > 0
    <3>1. GraceSpent[c] = [ci.roll[c] EXCEPT !.grace = ci.roll[c].grace - 1]
      BY <2>1, Zenon DEF GraceSpent
    <3>2. ci.roll[c].grace - 1 \in 0..Grace
      BY <1>2, <2>1 DEF Grace
    <3>3. ci.roll[c] \in Reruns
      BY <1>2
    <3> QED BY <3>1, <3>2, <3>3, <1>1, Zenon
  <2>2. CASE ~(c \in Outstanding /\ ~Refreshed(c) /\ ci.roll[c].grace > 0)
    BY <2>2, <1>2, Zenon DEF GraceSpent
  <2> QED BY <2>1, <2>2
<1>4. GraceSpent = [c \in Checks |-> GraceSpent[c]]
  BY Zenon DEF GraceSpent
<1> QED BY <1>3, <1>4, Zenon

\* A rerun is retired as a whole or stays as it is.
LEMMA RetiredOrKept ==
    ASSUME MonitorInv, NEW v
    PROVE  /\ Retired(v) \in [Checks -> Reruns]
           /\ \A c \in Checks :
                 \/ Retired(v)[c] = NoRoll
                    /\ (ci.roll[c].head # head \/ (v[c].res \in {"pass", "fail"} /\ v[c].n # ci.roll[c].at))
                 \/ Retired(v)[c] = ci.roll[c]
<1>1. NoRoll \in Reruns
  BY DEF NoRoll, Reruns, Grace
<1>2. \A c \in Checks : ci.roll[c] \in Reruns
  BY DEF MonitorInv, MonitorTyped
<1>3. \A c \in Checks : Retired(v)[c] = NoRoll \/ Retired(v)[c] = ci.roll[c]
  BY DEF Retired
<1>4. Retired(v) \in [Checks -> Reruns]
  BY <1>1, <1>2, Zenon DEF Retired
<1>5. \A c \in Checks :
          \/ Retired(v)[c] = NoRoll
             /\ (ci.roll[c].head # head \/ (v[c].res \in {"pass", "fail"} /\ v[c].n # ci.roll[c].at))
          \/ Retired(v)[c] = ci.roll[c]
  BY Zenon DEF Retired
<1> QED BY <1>4, <1>5

\* What a poll looks at is well formed, too.
LEMMA FilteredTyped ==
    ASSUME MonitorInv
    PROVE  /\ [c \in Checks |-> Filtered(c)] \in [Checks -> Attempts]
           /\ \A c \in Checks : Filtered(c).n <= jobs[c]
<1>1. ASSUME NEW c \in Checks
      PROVE  Filtered(c) \in Attempts /\ Filtered(c).n <= jobs[c]
  <2>1. [n |-> 0, res |-> "pending"] \in Attempts /\ [n |-> 0, res |-> "pending"].n = 0
    BY DEF Attempts
  <2>2. shown[c] \in Attempts /\ shown[c].n <= jobs[c] /\ jobs[c] \in Nat
    BY DEF MonitorInv, MonitorTyped, Started
  <2>3. Filtered(c) = [n |-> 0, res |-> "pending"] \/ Filtered(c) = shown[c]
    BY Zenon DEF Filtered
  <2> QED BY <2>1, <2>2, <2>3
<1> QED BY <1>1, Zenon

\* What a new step starts from.
LEMMA BlanksTyped ==
    /\ NoView \in [Checks -> Attempts] /\ \A c \in Checks : NoView[c].n = 0
    /\ None \in [Checks -> Nat] /\ \A c \in Checks : None[c] = 0
    /\ [c \in Checks |-> NoRoll] \in [Checks -> Reruns]
    /\ \A c \in Checks : [d \in Checks |-> NoRoll][c].head = 0 /\ [d \in Checks |-> NoRoll][c].at = 0
<1>1. NoJob \in Attempts /\ NoJob.n = 0
  BY DEF NoJob, Attempts
<1>2. NoRoll \in Reruns /\ NoRoll.head = 0 /\ NoRoll.at = 0
  BY DEF NoRoll, Reruns, Grace
<1> QED BY <1>1, <1>2 DEF NoView, None

\* A request is for a check cancelled in an attempt the rollup shows, within the limit.
LEMMA CandidatesShown ==
    ASSUME MonitorInv, At("asking"), NEW c \in Candidates(ci.view, ci.roll)
    PROVE  /\ c \in Checks /\ ci.view[c] = shown[c]
           /\ shown[c].res = "cancel" /\ shown[c].n \in Nat \ {0}
           /\ ci.spent[c] < RerunLimit
<1>1. c \in Checks /\ ci.view[c].res = "cancel" /\ ci.spent[c] < RerunLimit
  BY Zenon DEF Candidates, With
<1>2. ci.view[c] = Filtered(c)
  BY <1>1, Zenon DEF MonitorInv, Polled, At
<1>3. ci.view[c] = shown[c]
  <2>1. [n |-> 0, res |-> "pending"].res = "pending"
    OBVIOUS
  <2>2. Filtered(c) = [n |-> 0, res |-> "pending"] \/ Filtered(c) = shown[c]
    BY Zenon DEF Filtered
  <2> QED BY <1>1, <1>2, <2>1, <2>2
<1> QED BY <1>1, <1>3 DEF MonitorInv, MonitorTyped, Started, Attempts

\* The rollup shows a later attempt or a conclusion.
LEMMA RollupShowsKeeps ==
        ASSUME MonitorInv, NEW c \in Checks, NEW n \in 1..jobs[c], NEW res \in {"pending",
           "pass", "fail", "cancel"}, RollupShows(c, n, res)
    PROVE  MonitorInv'
<1>1. (MonitorShapes /\ Counted /\ Said)'
    BY DEF MonitorInv, MonitorShapes, Counted, Live, Said, RollupShows, Provider, At
<1>2. MonitorTyped'
    <2>1. (jobs \in [Checks -> Nat] /\ event \in Nat /\ omits \in Nat /\ head \in 1..MaxHeads
        /\ asked \in [Checks -> Nat] /\ owed \in [Checks -> Nat] /\ autos \in Nat /\
        row.attempts \in Nat /\ row.spent \in [Checks -> Nat] /\ row.roll \in [Checks ->
        Reruns] /\ row.ready \in BOOLEAN /\ ci.pc \in {"wait", "asking", "judge", "asked",
        "auto", "parked", "over"} /\ ci.last \in {"none", "running", "passed"} /\ ci.green \in
        BOOLEAN /\ ci.attempts \in Nat /\ ci.spent \in [Checks -> Nat] /\ ci.roll \in [Checks
        -> Reruns] /\ ci.view \in [Checks -> Attempts])'
        BY DEF MonitorInv, MonitorTyped, RollupShows, Provider, At
    <2>2. (shown \in [Checks -> Attempts])'
    <3>1. [n |-> n, res |-> res] \in Attempts
      BY DEF MonitorInv, MonitorTyped, Attempts
    <3> QED BY <3>1 DEF MonitorInv, MonitorTyped, RollupShows
    <2> QED BY <2>1, <2>2 DEF MonitorTyped
<1>3. Started'
    BY DEF MonitorInv, Started, OfHead, RollupShows, Provider, At
<1>4. Polled'
    BY DEF MonitorInv, Polled, RollupShows, Provider, At
<1>5. Promised'
  <2>1. shown' = [shown EXCEPT ![c] = [n |-> n, res |-> res]]
    BY DEF RollupShows
  <2>2. ASSUME NEW d \in Checks
        PROVE  (owed[d] <= shown[d].n \/ (owed[d] <= shown[d].n + 1 /\ Recorded(row.roll[d], d)
                                        /\ (Live => Recorded(ci.roll[d], d))))'
    <3>1. CASE d # c
      BY <2>1, <3>1 DEF MonitorInv, MonitorTyped, Promised, Recorded, Live, RollupShows, Provider
    <3>2. CASE d = c
      <4>1. shown'[c].n = n /\ shown'[c].res = res
        BY <2>1 DEF MonitorInv, MonitorTyped
      <4> QED BY <3>2, <4>1 DEF MonitorInv, MonitorTyped, Attempts, Promised, Recorded, Live,
         RollupShows, Provider
    <3> QED BY <3>1, <3>2
  <2> QED BY <2>2 DEF Promised
<1> QED BY <1>1, <1>2, <1>3, <1>4, <1>5 DEF MonitorInv

\* The rollup omits a check.
LEMMA RollupOmitsKeeps ==
        ASSUME MonitorInv, NEW c \in Checks, RollupOmits(c)
    PROVE  MonitorInv'
<1>1. (MonitorShapes /\ Counted /\ Said)'
    BY DEF MonitorInv, MonitorShapes, Counted, Live, Said, RollupOmits, Provider, At
<1>2. MonitorTyped'
    <2>1. (jobs \in [Checks -> Nat] /\ event \in Nat /\ head \in 1..MaxHeads /\ asked \in
        [Checks -> Nat] /\ owed \in [Checks -> Nat] /\ autos \in Nat /\ row.attempts \in Nat
        /\ row.spent \in [Checks -> Nat] /\ row.roll \in [Checks -> Reruns] /\ row.ready \in
        BOOLEAN /\ ci.pc \in {"wait", "asking", "judge", "asked", "auto", "parked", "over"} /\
        ci.last \in {"none", "running", "passed"} /\ ci.green \in BOOLEAN /\ ci.attempts \in
        Nat /\ ci.spent \in [Checks -> Nat] /\ ci.roll \in [Checks -> Reruns] /\ ci.view \in
        [Checks -> Attempts])'
        BY DEF MonitorInv, MonitorTyped, RollupOmits, Provider, At
    <2>2. (shown \in [Checks -> Attempts])'
    <3>1. ASSUME NEW r \in Attempts
          PROVE  [r EXCEPT !.res = "none"] \in Attempts
      BY DEF Attempts
    <3> QED BY <3>1 DEF MonitorInv, MonitorTyped, RollupOmits
    <2>3. (omits \in Nat)'
        BY MonitorAssumption DEF MonitorInv, MonitorTyped, RollupOmits, Provider, At
    <2> QED BY <2>1, <2>2, <2>3 DEF MonitorTyped
<1>3. Started'
    BY DEF MonitorInv, Started, OfHead, RollupOmits, Provider, At
<1>4. Polled'
    BY DEF MonitorInv, Polled, RollupOmits, Provider, At
<1>5. Promised'
    BY DEF MonitorInv, Promised, Recorded, Live, RollupOmits, Provider, At
<1> QED BY <1>1, <1>2, <1>3, <1>4, <1>5 DEF MonitorInv

\* A poll reads the rollup and retires answered reruns.
LEMMA PollKeeps ==
        ASSUME MonitorInv, NEW merge \in {"clean", "conflict", "unresolved"}, Poll(merge)
    PROVE  MonitorInv'
<1>1. ci' = [pc |-> ci'.pc, fixing |-> ci.fixing, tried |-> ci.tried, last |-> ci.last,
               attempts |-> ci.attempts,
               spent |-> ci.spent, roll |-> ci'.roll, merge |-> merge,
               issued |-> ci.issued, view |-> ci'.view, green |-> FALSE]
    BY Zenon DEF MonitorInv, MonitorShapes, Poll
<1>2. row' = [attempts |-> row.attempts, spent |-> row'.spent, roll |-> row'.roll, ready |-> row.ready]
      /\ (row'.spent = row.spent \/ row'.spent = ci.spent) /\ (row'.roll = row.roll \/ row'.roll = ci'.roll)
  <2> DEFINE roll == Retired([c \in Checks |-> Filtered(c)])
             budget == [ci EXCEPT !.roll = roll]
  <2>1. ci'.roll = roll
    BY Zenon DEF MonitorInv, MonitorShapes, Poll
  <2>2. row' = row \/ row' = Persisted(budget)
    BY Zenon DEF Poll
  <2>3. budget.spent = ci.spent /\ budget.roll = roll
    BY Zenon DEF MonitorInv, MonitorShapes
  <2> HIDE DEF roll, budget
  <2>4. CASE row' = row
    BY <2>4, Zenon DEF MonitorInv, MonitorShapes
  <2>5. CASE row' = Persisted(budget)
    <3>1. row' = [row EXCEPT !.spent = ci.spent, !.roll = roll]
      BY <2>3, <2>5, Zenon DEF Persisted
    <3>2. row' = [attempts |-> row.attempts, spent |-> ci.spent, roll |-> roll, ready |-> row.ready]
      BY <3>1, Zenon DEF MonitorInv, MonitorShapes
    <3> QED BY <2>1, <3>2
  <2> QED BY <2>2, <2>4, <2>5
<1>3. ci'.fixing = ci.fixing /\ ci'.tried = ci.tried /\ ci'.last = ci.last /\ ci'.attempts =
      ci.attempts /\ ci'.spent = ci.spent /\ ci'.merge = merge /\ ci'.issued = ci.issued /\
      ci'.green = FALSE /\ row'.attempts = row.attempts /\ row'.spent = row.spent /\ row'.ready = row.ready
  <2>1. ci.spent = row.spent
    BY DEF MonitorInv, Counted, Live, Poll, At
  <2> QED BY <1>1, <1>2, <2>1
<1>4. ci'.view \in [Checks -> Attempts] /\ \A c \in Checks : ci'.view[c] = Filtered(c) /\ ci'.view[c].n <= jobs[c]
  <2>1. ci'.view = [c \in Checks |-> Filtered(c)]
    BY Zenon DEF MonitorInv, MonitorShapes, Poll
  <2> QED BY <2>1, FilteredTyped, Zenon
<1>5. /\ ci'.roll \in [Checks -> Reruns]
      /\ \A c \in Checks :
            \/ /\ ci'.roll[c].at = 0 /\ ci'.roll[c].head = 0
               /\ (ci.roll[c].head # head \/ (shown[c].res \in {"pass", "fail"} /\ shown[c].n # ci.roll[c].at))
            \/ ci'.roll[c] = ci.roll[c]
  <2>1. ci'.roll = Retired(ci'.view)
    BY Zenon DEF MonitorInv, MonitorShapes, Poll
  <2>2. \A c \in Checks : ci'.view[c].res \in {"pass", "fail"} => ci'.view[c] = shown[c]
    <3>1. [n |-> 0, res |-> "pending"].res = "pending"
      OBVIOUS
    <3> QED BY <1>4, <3>1 DEF Filtered
  <2>3. NoRoll.at = 0 /\ NoRoll.head = 0
    BY DEF NoRoll
  <2> QED BY <2>1, <2>2, <2>3, RetiredOrKept
<1>6. ci'.pc \in {"asking", "judge"}
  BY Zenon DEF MonitorInv, MonitorShapes, Poll
<1>7. MonitorShapes'
  BY <1>1, <1>2, Zenon DEF MonitorShapes
<1>8. MonitorTyped'
    <2>1. (jobs \in [Checks -> Nat] /\ shown \in [Checks -> Attempts] /\ event \in Nat /\
        omits \in Nat /\ head \in 1..MaxHeads /\ asked \in [Checks -> Nat] /\ owed \in [Checks
        -> Nat] /\ autos \in Nat)'
        BY DEF MonitorInv, MonitorTyped, Poll, At, Aside, forgeVars
    <2>2. (row.attempts \in Nat /\ row.spent \in [Checks -> Nat] /\ row.roll \in [Checks ->
        Reruns])'
        BY <1>2, <1>3, <1>4, <1>5, <1>6, MonitorAssumption DEF MonitorInv, MonitorTyped, Poll, At,
        Aside, forgeVars
    <2>3. (ci.pc \in {"wait", "asking", "judge", "asked", "auto", "parked", "over"} /\ ci.last
        \in {"none", "running", "passed"} /\ ci.attempts \in Nat /\ ci.spent \in [Checks ->
        Nat] /\ ci.roll \in [Checks -> Reruns] /\ ci.view \in [Checks -> Attempts])'
        BY <1>2, <1>3, <1>4, <1>5, <1>6, MonitorAssumption DEF MonitorInv, MonitorTyped, Poll, At,
        Aside, forgeVars
    <2>4. (row.ready \in BOOLEAN /\ ci.green \in BOOLEAN)'
        BY <1>2, <1>3, <1>4, <1>5, <1>6, MonitorAssumption DEF MonitorInv, MonitorTyped, Poll, At,
        Aside, forgeVars
    <2> QED BY <2>1, <2>2, <2>3, <2>4 DEF MonitorTyped
<1>9. Counted'
    BY <1>2, <1>3, <1>4, <1>5, <1>6, MonitorAssumption DEF MonitorInv, Counted, Live, Poll, At,
      Aside, forgeVars
<1>10. Started'
    BY <1>2, <1>3, <1>4, <1>5, <1>6 DEF MonitorInv, Started, OfHead, MonitorTyped, Poll, At, Aside,
      forgeVars
<1>11. Said'
    BY <1>2, <1>3, <1>4, <1>5, <1>6 DEF MonitorInv, Said, Live, Poll, At, Aside, forgeVars
<1>12. Polled'
  <2>1. \A c \in Checks : Filtered(c)' = Filtered(c)
    BY Zenon DEF Filtered, Poll, Aside, forgeVars
  <2> QED BY <1>4, <2>1, Zenon DEF Polled
<1>13. Promised'
    BY <1>2, <1>3, <1>4, <1>5, <1>6 DEF MonitorInv, Promised, Recorded, Live, Poll, At, Aside,
      forgeVars
<1> QED BY <1>7, <1>8, <1>9, <1>10, <1>11, <1>12, <1>13 DEF MonitorInv

\* Requests are counted before they are made, and recorded with the attempt they are for.
LEMMA RerunsStartedKeeps ==
        ASSUME MonitorInv, NEW accepted \in SUBSET Checks, RerunsStarted(accepted)
    PROVE  MonitorInv'
<1>1. ci' = [pc |-> "judge", fixing |-> ci.fixing, tried |-> ci.tried, last |-> ci.last,
               attempts |-> ci.attempts,
               spent |-> ci'.spent, roll |-> ci'.roll, merge |-> ci.merge,
               issued |-> TRUE, view |-> ci.view, green |-> ci.green]
    BY Zenon DEF MonitorInv, MonitorShapes, RerunsStarted, Persisted, Reservation, Grace
<1>2. row' = [attempts |-> row.attempts, spent |-> row'.spent, roll |-> row'.roll, ready |-> row.ready]
    BY Zenon DEF MonitorInv, MonitorShapes, RerunsStarted, Persisted, Reservation, Grace
<1>3. ci'.pc = "judge" /\ ci'.fixing = ci.fixing /\ ci'.tried = ci.tried /\ ci'.last = ci.last
      /\ ci'.attempts = ci.attempts /\ ci'.merge = ci.merge /\ ci'.issued = TRUE /\ ci'.view =
      ci.view /\ ci'.green = ci.green /\ row'.attempts = row.attempts /\ row'.ready =
      row.ready
  BY <1>1, <1>2
<1>4. ci'.spent = [c \in Checks |-> IF c \in Candidates(ci.view, ci.roll)
                                    THEN ci.spent[c] + 1 ELSE ci.spent[c]]
  BY Zenon DEF MonitorInv, MonitorShapes, RerunsStarted, Persisted, Reservation, Grace
<1>5. row'.spent = [c \in Checks |-> IF c \in Candidates(ci.view, ci.roll)
                                    THEN ci.spent[c] + 1 ELSE ci.spent[c]]
  BY Zenon DEF MonitorInv, MonitorShapes, RerunsStarted, Persisted, Reservation, Grace
<1>6. ci'.roll = [c \in Checks |-> IF c \in Candidates(ci.view, ci.roll)
                                   THEN [at |-> ci.view[c].n, grace |-> Grace, head |-> head]
                                   ELSE ci.roll[c]]
  BY Zenon DEF MonitorInv, MonitorShapes, RerunsStarted, Persisted, Reservation, Grace
<1>7. row'.roll = [c \in Checks |-> IF c \in Candidates(ci.view, ci.roll)
                                   THEN [at |-> ci.view[c].n, grace |-> Grace, head |-> head]
                                   ELSE ci.roll[c]]
  BY Zenon DEF MonitorInv, MonitorShapes, RerunsStarted, Persisted, Reservation, Grace
<1>8. asked' = [c \in Checks |-> IF c \in Candidates(ci.view, ci.roll) THEN asked[c] + 1 ELSE asked[c]]
  BY Zenon DEF MonitorInv, MonitorShapes, RerunsStarted, Persisted, Reservation, Grace
<1>9. accepted \subseteq Candidates(ci.view, ci.roll)
  BY Zenon DEF MonitorInv, MonitorShapes, RerunsStarted, Persisted, Reservation, Grace
<1>10. \A c \in Candidates(ci.view, ci.roll) :
          /\ c \in Checks /\ ci.spent[c] < RerunLimit
          /\ shown[c].n # 0 /\ shown[c] = ci.view[c] /\ shown[c].res = "cancel"
          /\ ci'.roll[c].at = shown[c].n /\ ci'.roll[c].head = head
          /\ row'.roll[c].at = shown[c].n /\ row'.roll[c].head = head
  BY <1>6, <1>7, CandidatesShown DEF RerunsStarted
<1>11. /\ ci'.roll \in [Checks -> Reruns]
      /\ \A c \in Checks :
            \/ ci'.roll[c] = ci.roll[c]
            \/ /\ ci'.roll[c].at = shown[c].n /\ ci'.roll[c].head = head
               /\ shown[c].res = "cancel" /\ shown[c].n # 0 /\ shown[c] = ci.view[c]
  <2>1. ASSUME NEW c \in Checks
        PROVE  [at |-> ci.view[c].n, grace |-> Grace, head |-> head] \in Reruns
    BY DEF MonitorInv, MonitorTyped, Reruns, Grace, Attempts
  <2>2. ci.roll \in [Checks -> Reruns]
    BY DEF MonitorInv, MonitorTyped
  <2>3. ASSUME NEW c \in Checks, c \in Candidates(ci.view, ci.roll)
        PROVE  ci'.roll[c] = [at |-> ci.view[c].n, grace |-> Grace, head |-> head]
    BY <1>6, <2>3, Zenon
  <2>4. ASSUME NEW c \in Checks, c \notin Candidates(ci.view, ci.roll)
        PROVE  ci'.roll[c] = ci.roll[c]
    BY <1>6, <2>4, Zenon
  <2>5. \A c \in Checks : ci'.roll[c] \in Reruns
    BY <2>1, <2>2, <2>3, <2>4
  <2>6. ci'.roll \in [Checks -> Reruns]
    BY <1>6, <2>5, Zenon
  <2> QED BY <2>4, <2>6, <1>10
<1>12. /\ row'.roll \in [Checks -> Reruns]
      /\ \A c \in Checks :
            \/ row'.roll[c] = ci.roll[c]
            \/ /\ row'.roll[c].at = shown[c].n /\ row'.roll[c].head = head
               /\ shown[c].res = "cancel" /\ shown[c].n # 0 /\ shown[c] = ci.view[c]
  <2>1. ASSUME NEW c \in Checks
        PROVE  [at |-> ci.view[c].n, grace |-> Grace, head |-> head] \in Reruns
    BY DEF MonitorInv, MonitorTyped, Reruns, Grace, Attempts
  <2>2. ci.roll \in [Checks -> Reruns]
    BY DEF MonitorInv, MonitorTyped
  <2>3. ASSUME NEW c \in Checks, c \in Candidates(ci.view, ci.roll)
        PROVE  row'.roll[c] = [at |-> ci.view[c].n, grace |-> Grace, head |-> head]
    BY <1>7, <2>3, Zenon
  <2>4. ASSUME NEW c \in Checks, c \notin Candidates(ci.view, ci.roll)
        PROVE  row'.roll[c] = ci.roll[c]
    BY <1>7, <2>4, Zenon
  <2>5. \A c \in Checks : row'.roll[c] \in Reruns
    BY <2>1, <2>2, <2>3, <2>4
  <2>6. row'.roll \in [Checks -> Reruns]
    BY <1>7, <2>5, Zenon
  <2> QED BY <2>4, <2>6, <1>10
<1>13. MonitorShapes'
  BY <1>1, <1>2, Zenon DEF MonitorShapes
<1>14. MonitorTyped'
    <2>1. (shown \in [Checks -> Attempts] /\ event \in Nat /\ omits \in Nat /\ head \in
        1..MaxHeads /\ autos \in Nat)'
        BY DEF MonitorInv, MonitorTyped, RerunsStarted, At
    <2>2. (jobs \in [Checks -> Nat])'
        BY <1>3, <1>4, <1>5, <1>6, <1>7, <1>8, <1>9, <1>10, <1>11, <1>12, MonitorAssumption
        DEF MonitorInv, MonitorTyped, RerunsStarted, At
    <2>3. (asked \in [Checks -> Nat])'
        BY <1>3, <1>4, <1>5, <1>6, <1>7, <1>8, <1>9, <1>10, <1>11, <1>12, MonitorAssumption
        DEF MonitorInv, MonitorTyped, RerunsStarted, At
    <2>4. (owed \in [Checks -> Nat])'
    <3>1. \A c \in Checks : ci.view[c].n + 1 \in Nat
      BY DEF MonitorInv, MonitorTyped, Attempts
    <3> QED BY <3>1 DEF MonitorInv, MonitorTyped, RerunsStarted
    <2>5. (row.attempts \in Nat)'
        BY <1>3, <1>4, <1>5, <1>6, <1>7, <1>8, <1>9, <1>10, <1>11, <1>12, MonitorAssumption
        DEF MonitorInv, MonitorTyped, RerunsStarted, At
    <2>6. (row.spent \in [Checks -> Nat])'
        BY <1>3, <1>4, <1>5, <1>6, <1>7, <1>8, <1>9, <1>10, <1>11, <1>12, MonitorAssumption
        DEF MonitorInv, MonitorTyped, RerunsStarted, At
    <2>7. (row.roll \in [Checks -> Reruns])'
        BY <1>3, <1>4, <1>5, <1>6, <1>7, <1>8, <1>9, <1>10, <1>11, <1>12, MonitorAssumption
        DEF MonitorInv, MonitorTyped, RerunsStarted, At
    <2>8. (ci.pc \in {"wait", "asking", "judge", "asked", "auto", "parked", "over"} /\ ci.last
        \in {"none", "running", "passed"} /\ ci.attempts \in Nat /\ ci.spent \in [Checks ->
        Nat] /\ ci.roll \in [Checks -> Reruns] /\ ci.view \in [Checks -> Attempts])'
    <3>1. ci.attempts \in Nat /\ ci.spent \in [Checks -> Nat]
          /\ ci.view \in [Checks -> Attempts] /\ ci.last \in {"none", "running", "passed"}
      BY DEF MonitorInv, MonitorTyped
    <3>2. ci'.spent \in [Checks -> Nat]
      BY <1>4, <3>1
    <3> QED BY <1>3, <1>11, <3>1, <3>2
    <2>9. (row.ready \in BOOLEAN /\ ci.green \in BOOLEAN)'
        BY <1>3, <1>4, <1>5, <1>6, <1>7, <1>8, <1>9, <1>10, <1>11, <1>12, MonitorAssumption
        DEF MonitorInv, MonitorTyped, RerunsStarted, At
    <2> QED BY <2>1, <2>2, <2>3, <2>4, <2>5, <2>6, <2>7, <2>8, <2>9 DEF MonitorTyped
<1>15. Counted'
  <2>1. ci.spent = row.spent /\ ci.attempts = row.attempts
    BY DEF MonitorInv, Counted, Live, At, RerunsStarted
  <2>2. ASSUME NEW c \in Checks
        PROVE  asked'[c] = row'.spent[c] /\ ci'.spent[c] = row'.spent[c] /\ asked'[c] <= RerunLimit
    <3>1. CASE c \in Candidates(ci.view, ci.roll)
      BY <1>4, <1>5, <1>8, <1>10, <2>1, <3>1, MonitorAssumption DEF MonitorInv, MonitorTyped,
         Counted
    <3>2. CASE c \notin Candidates(ci.view, ci.roll)
      BY <1>4, <1>5, <1>8, <2>1, <3>2 DEF MonitorInv, Counted
    <3> QED BY <3>1, <3>2
  <2>3. ci'.spent = row'.spent
    BY <1>4, <1>5, <2>1
  <2>4. autos' = autos /\ ci'.attempts = ci.attempts /\ row'.attempts = row.attempts
    BY <1>3 DEF RerunsStarted
  <2> QED BY <2>1, <2>2, <2>3, <2>4 DEF MonitorInv, Counted
<1>16. Started'
  <2>1. ASSUME NEW c \in Checks
        PROVE  owed'[c] <= jobs'[c] /\ jobs[c] <= jobs'[c] /\ jobs'[c] \in Nat
    BY DEF MonitorInv, MonitorTyped, Started, Attempts, RerunsStarted
  <2>2. shown' = shown /\ head' = head
    BY DEF RerunsStarted
  <2>3. ASSUME NEW c \in Checks
        PROVE  OfHead(ci.roll[c], c)' /\ OfHead(row.roll[c], c)'
    <3>1. OfHead(ci.roll[c], c) /\ OfHead(row.roll[c], c)
      BY DEF MonitorInv, Started
    <3>2. head \in Nat /\ jobs[c] \in Nat /\ shown[c].n \in Nat /\ shown[c].n <= jobs[c]
      BY MonitorAssumption DEF MonitorInv, MonitorTyped, Attempts, Started
    <3>3. ASSUME NEW r, r.at \in Nat, r.head \in Nat, OfHead(r, c)
          PROVE  r.head <= head' /\ (r.head = head' => r.at <= jobs'[c])
      BY <2>1, <2>2, <3>2, <3>3 DEF OfHead
    <3>4. ASSUME NEW r, r.at = shown[c].n, r.head = head
          PROVE  r.head <= head' /\ (r.head = head' => r.at <= jobs'[c])
      BY <2>1, <2>2, <3>2, <3>4
    <3>5. ci.roll[c] \in Reruns /\ row.roll[c] \in Reruns
      BY DEF MonitorInv, MonitorTyped
    <3> QED BY <1>11, <1>12, <3>1, <3>3, <3>4, <3>5 DEF OfHead, Reruns
  <2> QED BY <1>3, <2>1, <2>2, <2>3 DEF MonitorInv, MonitorTyped, Started, Attempts
<1>17. Said'
    BY <1>3, <1>4, <1>5, <1>6, <1>7, <1>8, <1>9, <1>10, <1>11, <1>12 DEF MonitorInv, Said,
      Live, RerunsStarted, At
<1>18. Polled'
  <2>1. \A c \in Checks : Filtered(c)' = Filtered(c)
    BY Zenon DEF Filtered, RerunsStarted, forgeVars
  <2>2. \A c \in Checks : ci.view[c] = Filtered(c)
    BY Zenon DEF MonitorInv, Polled, RerunsStarted, At
  <2> QED BY <1>3, <2>1, <2>2, Zenon DEF Polled
<1>19. Promised'
  <2>1. ASSUME NEW c \in Checks
        PROVE  (owed[c] <= shown[c].n \/ (owed[c] <= shown[c].n + 1 /\ Recorded(row.roll[c], c)
                                        /\ (Live => Recorded(ci.roll[c], c))))'
    <3>1. shown' = shown /\ head' = head
      BY DEF RerunsStarted
    <3>2. CASE c \in accepted
      <4>1. c \in Candidates(ci.view, ci.roll) /\ owed'[c] = ci.view[c].n + 1
        BY <1>9, <3>2 DEF RerunsStarted
      <4> QED BY <1>10, <3>1, <4>1 DEF Recorded, MonitorInv, MonitorTyped, Attempts
    <3>3. CASE c \notin accepted
      <4>1. owed'[c] = owed[c]
        BY <3>3 DEF RerunsStarted
      <4>2. Live
        BY DEF RerunsStarted, At, Live
      <4> QED BY <1>11, <1>12, <3>1, <4>1, <4>2 DEF MonitorInv, Promised, Recorded
    <3> QED BY <3>2, <3>3
  <2> QED BY <2>1 DEF Promised
<1> QED BY <1>13, <1>14, <1>15, <1>16, <1>17, <1>18, <1>19 DEF MonitorInv

\* The publication of the attestation starts an attempt.
LEMMA PublishesKeeps ==
        ASSUME MonitorInv, Publishes
    PROVE  MonitorInv'
<1>1. (MonitorShapes /\ Counted /\ Said /\ Promised)'
    BY DEF MonitorInv, MonitorShapes, Counted, Live, Said, Promised, Recorded, Publishes,
      Provider, At
<1>2. MonitorTyped'
    <2>1. (shown \in [Checks -> Attempts] /\ omits \in Nat /\ head \in 1..MaxHeads /\ asked
        \in [Checks -> Nat] /\ owed \in [Checks -> Nat] /\ autos \in Nat /\ row.attempts \in
        Nat /\ row.spent \in [Checks -> Nat] /\ row.roll \in [Checks -> Reruns] /\ row.ready
        \in BOOLEAN /\ ci.pc \in {"wait", "asking", "judge", "asked", "auto", "parked",
        "over"} /\ ci.last \in {"none", "running", "passed"} /\ ci.green \in BOOLEAN /\
        ci.attempts \in Nat /\ ci.spent \in [Checks -> Nat] /\ ci.roll \in [Checks -> Reruns]
        /\ ci.view \in [Checks -> Attempts])'
        BY DEF MonitorInv, MonitorTyped, Publishes, Provider, At
    <2>2. (jobs \in [Checks -> Nat])'
    BY DEF MonitorInv, MonitorTyped, Publishes, Checks
    <2>3. (event \in Nat)'
    BY DEF MonitorInv, MonitorTyped, Publishes, Checks
    <2> QED BY <2>1, <2>2, <2>3 DEF MonitorTyped
<1>3. Started'
  <2>1. \A c \in Checks : jobs'[c] \in Nat /\ jobs[c] \in Nat /\ jobs[c] <= jobs'[c]
    BY DEF MonitorInv, MonitorTyped, Publishes, Checks
  <2>2. UNCHANGED <<shown, head, row, ci, owed>>
    BY DEF Publishes, Provider
  <2> QED BY <2>1, <2>2, MonitorAssumption DEF MonitorInv, MonitorTyped, Started, OfHead,
     Attempts, Reruns
<1>4. Polled'
    BY DEF MonitorInv, Polled, Publishes, Provider, At
<1> QED BY <1>1, <1>2, <1>3, <1>4 DEF MonitorInv

\* A monitor that times out parks.
LEMMA TimesOutKeeps ==
        ASSUME MonitorInv, TimesOut
    PROVE  MonitorInv'
<1>1. ci' = [pc |-> "parked", fixing |-> ci.fixing, tried |-> ci.tried, last |-> ci.last,
               attempts |-> ci.attempts,
               spent |-> ci.spent, roll |-> ci.roll, merge |-> ci.merge,
               issued |-> ci.issued, view |-> ci.view, green |-> ci.green]
    BY Zenon DEF MonitorInv, MonitorShapes, TimesOut
<1>2. row' = [attempts |-> row.attempts, spent |-> row.spent, roll |-> row.roll, ready |-> row.ready]
    BY Zenon DEF MonitorInv, MonitorShapes, TimesOut
<1>3. ci'.pc = "parked" /\ ci'.fixing = ci.fixing /\ ci'.tried = ci.tried /\ ci'.last =
      ci.last /\ ci'.attempts = ci.attempts /\ ci'.spent = ci.spent /\ ci'.roll = ci.roll /\
      ci'.merge = ci.merge /\ ci'.issued = ci.issued /\ ci'.view = ci.view /\ ci'.green =
      ci.green /\ row'.attempts = row.attempts /\ row'.spent = row.spent /\ row'.roll =
      row.roll /\ row'.ready = row.ready
  BY <1>1, <1>2
<1>4. MonitorShapes'
  BY <1>1, <1>2, Zenon DEF MonitorShapes
<1>5. MonitorTyped'
    <2>1. (jobs \in [Checks -> Nat] /\ shown \in [Checks -> Attempts] /\ event \in Nat /\
        omits \in Nat /\ head \in 1..MaxHeads /\ asked \in [Checks -> Nat] /\ owed \in [Checks
        -> Nat] /\ autos \in Nat /\ row.attempts \in Nat /\ row.spent \in [Checks -> Nat] /\
        row.roll \in [Checks -> Reruns] /\ row.ready \in BOOLEAN)'
        BY DEF MonitorInv, MonitorTyped, TimesOut, At, Aside, forgeVars
    <2>2. (ci.pc \in {"wait", "asking", "judge", "asked", "auto", "parked", "over"} /\ ci.last
        \in {"none", "running", "passed"} /\ ci.attempts \in Nat /\ ci.spent \in [Checks ->
        Nat] /\ ci.roll \in [Checks -> Reruns] /\ ci.view \in [Checks -> Attempts])'
        BY <1>3, MonitorAssumption DEF MonitorInv, MonitorTyped, TimesOut, At, Aside,
        forgeVars
    <2>3. (ci.green \in BOOLEAN)'
        BY <1>3, MonitorAssumption DEF MonitorInv, MonitorTyped, TimesOut, At, Aside,
        forgeVars
    <2> QED BY <2>1, <2>2, <2>3 DEF MonitorTyped
<1>6. Counted'
    BY <1>3, MonitorAssumption DEF MonitorInv, Counted, Live, TimesOut, At, Aside, forgeVars
<1>7. Started'
    BY <1>3 DEF MonitorInv, Started, OfHead, TimesOut, At, Aside, forgeVars
<1>8. Said'
    BY <1>3 DEF MonitorInv, Said, Live, TimesOut, At, Aside, forgeVars
<1>9. Polled'
    BY <1>3 DEF MonitorInv, Polled, TimesOut, At, Aside, forgeVars
<1>10. Promised'
    BY <1>3 DEF MonitorInv, Promised, Recorded, Live, TimesOut, At, Aside, forgeVars
<1> QED BY <1>4, <1>5, <1>6, <1>7, <1>8, <1>9, <1>10 DEF MonitorInv

\* A merged or closed pull request ends the step.
LEMMA PRIsOverKeeps ==
        ASSUME MonitorInv, PRIsOver
    PROVE  MonitorInv'
<1>1. ci' = [pc |-> "over", fixing |-> FALSE, tried |-> FALSE, last |-> "none",
               attempts |-> 0,
               spent |-> None, roll |-> [c \in Checks |-> NoRoll], merge |-> "clean",
               issued |-> FALSE, view |-> NoView, green |-> FALSE]
    BY Zenon DEF MonitorInv, MonitorShapes, PRIsOver, NewStep, NoView, NoJob, None, NoRoll
<1>2. row' = [attempts |-> row.attempts, spent |-> row.spent, roll |-> row.roll, ready |-> row.ready]
    BY Zenon DEF MonitorInv, MonitorShapes, PRIsOver, NewStep, NoView, NoJob, None, NoRoll
<1>3. ci'.pc = "over" /\ ci'.fixing = FALSE /\ ci'.tried = FALSE /\ ci'.last = "none" /\
      ci'.attempts = 0 /\ ci'.spent = None /\ ci'.roll = [c \in Checks |-> NoRoll] /\
      ci'.merge = "clean" /\ ci'.issued = FALSE /\ ci'.view = NoView /\ ci'.green = FALSE /\
      row'.attempts = row.attempts /\ row'.spent = row.spent /\ row'.roll = row.roll /\
      row'.ready = row.ready
  BY <1>1, <1>2
<1>4. MonitorShapes'
  BY <1>1, <1>2, Zenon DEF MonitorShapes
<1>5. MonitorTyped'
    <2>1. (jobs \in [Checks -> Nat] /\ shown \in [Checks -> Attempts] /\ event \in Nat /\
        omits \in Nat /\ head \in 1..MaxHeads /\ asked \in [Checks -> Nat] /\ owed \in [Checks
        -> Nat] /\ autos \in Nat /\ row.attempts \in Nat /\ row.spent \in [Checks -> Nat] /\
        row.roll \in [Checks -> Reruns] /\ row.ready \in BOOLEAN)'
        BY DEF MonitorInv, MonitorTyped, PRIsOver, At, Aside, forgeVars
    <2>2. (ci.pc \in {"wait", "asking", "judge", "asked", "auto", "parked", "over"} /\ ci.last
        \in {"none", "running", "passed"} /\ ci.attempts \in Nat /\ ci.spent \in [Checks ->
        Nat] /\ ci.roll \in [Checks -> Reruns] /\ ci.view \in [Checks -> Attempts])'
        BY <1>3, BlanksTyped, MonitorAssumption DEF MonitorInv, MonitorTyped, PRIsOver, At,
        Aside, forgeVars
    <2>3. (ci.green \in BOOLEAN)'
        BY <1>3, BlanksTyped, MonitorAssumption, Zenon DEF MonitorInv, MonitorTyped, PRIsOver,
        At, Aside, forgeVars
    <2> QED BY <2>1, <2>2, <2>3 DEF MonitorTyped
<1>6. Counted'
    BY <1>3, BlanksTyped, MonitorAssumption DEF MonitorInv, Counted, Live, MonitorTyped,
      PRIsOver, At, Aside, forgeVars
<1>7. Started'
    BY <1>3, BlanksTyped DEF MonitorInv, Started, OfHead, MonitorTyped, PRIsOver, At, Aside,
      forgeVars
<1>8. Said'
    BY <1>3, BlanksTyped DEF MonitorInv, Said, Live, PRIsOver, At, Aside, forgeVars
<1>9. Polled'
    BY <1>3, BlanksTyped DEF MonitorInv, Polled, PRIsOver, At, Aside, forgeVars
<1>10. Promised'
    BY <1>3, BlanksTyped DEF MonitorInv, Promised, Recorded, Live, PRIsOver, At, Aside,
      forgeVars
<1> QED BY <1>4, <1>5, <1>6, <1>7, <1>8, <1>9, <1>10 DEF MonitorInv

\* Unreadable checks withdraw readiness.
LEMMA ChecksUnreadableKeeps ==
        ASSUME MonitorInv, ChecksUnreadable
    PROVE  MonitorInv'
<1>1. ci' = [pc |-> ci.pc, fixing |-> ci.fixing, tried |-> ci.tried, last |-> "none",
               attempts |-> ci.attempts,
               spent |-> ci.spent, roll |-> ci.roll, merge |-> ci.merge,
               issued |-> ci.issued, view |-> ci.view, green |-> FALSE]
    BY Zenon DEF MonitorInv, MonitorShapes, ChecksUnreadable, Silent
<1>2. row' = [attempts |-> row.attempts, spent |-> row.spent, roll |-> row.roll, ready |-> FALSE]
    BY Zenon DEF MonitorInv, MonitorShapes, ChecksUnreadable, Silent
<1>3. ci'.pc = ci.pc /\ ci'.fixing = ci.fixing /\ ci'.tried = ci.tried /\ ci'.last = "none" /\
      ci'.attempts = ci.attempts /\ ci'.spent = ci.spent /\ ci'.roll = ci.roll /\ ci'.merge =
      ci.merge /\ ci'.issued = ci.issued /\ ci'.view = ci.view /\ ci'.green = FALSE /\
      row'.attempts = row.attempts /\ row'.spent = row.spent /\ row'.roll = row.roll /\
      row'.ready = FALSE
  BY <1>1, <1>2
<1>4. MonitorShapes'
  BY <1>1, <1>2, Zenon DEF MonitorShapes
<1>5. MonitorTyped'
    <2>1. (jobs \in [Checks -> Nat] /\ shown \in [Checks -> Attempts] /\ event \in Nat /\
        omits \in Nat /\ head \in 1..MaxHeads /\ asked \in [Checks -> Nat] /\ owed \in [Checks
        -> Nat] /\ autos \in Nat)'
        BY DEF MonitorInv, MonitorTyped, ChecksUnreadable, At, Aside, forgeVars
    <2>2. (row.attempts \in Nat /\ row.spent \in [Checks -> Nat] /\ row.roll \in [Checks ->
        Reruns])'
        BY <1>3, MonitorAssumption DEF MonitorInv, MonitorTyped, ChecksUnreadable, At, Aside,
        forgeVars
    <2>3. (ci.pc \in {"wait", "asking", "judge", "asked", "auto", "parked", "over"} /\ ci.last
        \in {"none", "running", "passed"} /\ ci.attempts \in Nat /\ ci.spent \in [Checks ->
        Nat] /\ ci.roll \in [Checks -> Reruns] /\ ci.view \in [Checks -> Attempts])'
        BY <1>3, MonitorAssumption DEF MonitorInv, MonitorTyped, ChecksUnreadable, At, Aside,
        forgeVars
    <2>4. (row.ready \in BOOLEAN /\ ci.green \in BOOLEAN)'
        BY <1>3, MonitorAssumption, Zenon DEF MonitorInv, MonitorTyped, ChecksUnreadable, At,
        Aside, forgeVars
    <2> QED BY <2>1, <2>2, <2>3, <2>4 DEF MonitorTyped
<1>6. Counted'
    BY <1>3, MonitorAssumption DEF MonitorInv, Counted, Live, ChecksUnreadable, At, Aside,
      forgeVars
<1>7. Started'
    BY <1>3 DEF MonitorInv, Started, OfHead, ChecksUnreadable, At, Aside, forgeVars
<1>8. Said'
    BY <1>3, Zenon DEF MonitorInv, Said, Live, ChecksUnreadable, At, Aside, forgeVars
<1>9. Polled'
    BY <1>3 DEF MonitorInv, Polled, ChecksUnreadable, At, Aside, forgeVars
<1>10. Promised'
    BY <1>3 DEF MonitorInv, Promised, Recorded, Live, ChecksUnreadable, At, Aside, forgeVars
<1> QED BY <1>4, <1>5, <1>6, <1>7, <1>8, <1>9, <1>10 DEF MonitorInv

\* An unreadable branch asks for nothing.
LEMMA BranchUnreadableKeeps ==
        ASSUME MonitorInv, BranchUnreadable
    PROVE  MonitorInv'
<1>1. ci' = [pc |-> "judge", fixing |-> ci.fixing, tried |-> ci.tried, last |-> ci.last,
               attempts |-> ci.attempts,
               spent |-> ci.spent, roll |-> ci.roll, merge |-> ci.merge,
               issued |-> ci.issued, view |-> ci.view, green |-> ci.green]
    BY Zenon DEF MonitorInv, MonitorShapes, BranchUnreadable
<1>2. row' = [attempts |-> row.attempts, spent |-> row.spent, roll |-> row.roll, ready |-> row.ready]
    BY Zenon DEF MonitorInv, MonitorShapes, BranchUnreadable
<1>3. ci'.pc = "judge" /\ ci'.fixing = ci.fixing /\ ci'.tried = ci.tried /\ ci'.last = ci.last
      /\ ci'.attempts = ci.attempts /\ ci'.spent = ci.spent /\ ci'.roll = ci.roll /\ ci'.merge
      = ci.merge /\ ci'.issued = ci.issued /\ ci'.view = ci.view /\ ci'.green = ci.green /\
      row'.attempts = row.attempts /\ row'.spent = row.spent /\ row'.roll = row.roll /\
      row'.ready = row.ready
  BY <1>1, <1>2
<1>4. MonitorShapes'
  BY <1>1, <1>2, Zenon DEF MonitorShapes
<1>5. MonitorTyped'
    <2>1. (jobs \in [Checks -> Nat] /\ shown \in [Checks -> Attempts] /\ event \in Nat /\
        omits \in Nat /\ head \in 1..MaxHeads /\ asked \in [Checks -> Nat] /\ owed \in [Checks
        -> Nat] /\ autos \in Nat /\ row.attempts \in Nat /\ row.spent \in [Checks -> Nat] /\
        row.roll \in [Checks -> Reruns] /\ row.ready \in BOOLEAN)'
        BY DEF MonitorInv, MonitorTyped, BranchUnreadable, At, Aside, forgeVars
    <2>2. (ci.pc \in {"wait", "asking", "judge", "asked", "auto", "parked", "over"} /\ ci.last
        \in {"none", "running", "passed"} /\ ci.attempts \in Nat /\ ci.spent \in [Checks ->
        Nat] /\ ci.roll \in [Checks -> Reruns] /\ ci.view \in [Checks -> Attempts])'
        BY <1>3, MonitorAssumption DEF MonitorInv, MonitorTyped, BranchUnreadable, At, Aside,
        forgeVars
    <2>3. (ci.green \in BOOLEAN)'
        BY <1>3, MonitorAssumption DEF MonitorInv, MonitorTyped, BranchUnreadable, At, Aside,
        forgeVars
    <2> QED BY <2>1, <2>2, <2>3 DEF MonitorTyped
<1>6. Counted'
    BY <1>3, MonitorAssumption DEF MonitorInv, Counted, Live, BranchUnreadable, At, Aside,
      forgeVars
<1>7. Started'
    BY <1>3 DEF MonitorInv, Started, OfHead, BranchUnreadable, At, Aside, forgeVars
<1>8. Said'
    BY <1>3 DEF MonitorInv, Said, Live, BranchUnreadable, At, Aside, forgeVars
<1>9. Polled'
  <2>1. \A c \in Checks : Filtered(c)' = Filtered(c)
    BY Zenon DEF Filtered, BranchUnreadable, Aside, forgeVars
  <2>2. \A c \in Checks : ci.view[c] = Filtered(c)
    BY Zenon DEF MonitorInv, Polled, BranchUnreadable, At
  <2> QED BY <1>3, <2>1, <2>2, Zenon DEF Polled
<1>10. Promised'
    BY <1>3 DEF MonitorInv, Promised, Recorded, Live, BranchUnreadable, At, Aside, forgeVars
<1> QED BY <1>4, <1>5, <1>6, <1>7, <1>8, <1>9, <1>10 DEF MonitorInv

\* A branch that is not the run's any more parks it.
LEMMA BranchMovedKeeps ==
        ASSUME MonitorInv, BranchMoved
    PROVE  MonitorInv'
<1>1. ci' = [pc |-> "parked", fixing |-> ci.fixing, tried |-> ci.tried, last |-> ci.last,
               attempts |-> ci.attempts,
               spent |-> ci.spent, roll |-> ci.roll, merge |-> "clean",
               issued |-> FALSE, view |-> NoView, green |-> ci.green]
    BY Zenon DEF MonitorInv, MonitorShapes, BranchMoved, Done, NoView, NoJob, Silent
<1>2. row' = [attempts |-> row.attempts, spent |-> row.spent, roll |-> row.roll, ready |-> FALSE]
    BY Zenon DEF MonitorInv, MonitorShapes, BranchMoved, Done, NoView, NoJob, Silent
<1>3. ci'.pc = "parked" /\ ci'.fixing = ci.fixing /\ ci'.tried = ci.tried /\ ci'.last =
      ci.last /\ ci'.attempts = ci.attempts /\ ci'.spent = ci.spent /\ ci'.roll = ci.roll /\
      ci'.merge = "clean" /\ ci'.issued = FALSE /\ ci'.view = NoView /\ ci'.green = ci.green
      /\ row'.attempts = row.attempts /\ row'.spent = row.spent /\ row'.roll = row.roll /\
      row'.ready = FALSE
  BY <1>1, <1>2
<1>4. MonitorShapes'
  BY <1>1, <1>2, Zenon DEF MonitorShapes
<1>5. MonitorTyped'
    <2>1. (jobs \in [Checks -> Nat] /\ shown \in [Checks -> Attempts] /\ event \in Nat /\
        omits \in Nat /\ head \in 1..MaxHeads /\ asked \in [Checks -> Nat] /\ owed \in [Checks
        -> Nat] /\ autos \in Nat)'
        BY DEF MonitorInv, MonitorTyped, BranchMoved, At, Aside, forgeVars
    <2>2. (row.attempts \in Nat /\ row.spent \in [Checks -> Nat] /\ row.roll \in [Checks ->
        Reruns])'
        BY <1>3, BlanksTyped, MonitorAssumption DEF MonitorInv, MonitorTyped, BranchMoved, At,
        Aside, forgeVars
    <2>3. (ci.pc \in {"wait", "asking", "judge", "asked", "auto", "parked", "over"} /\ ci.last
        \in {"none", "running", "passed"} /\ ci.attempts \in Nat /\ ci.spent \in [Checks ->
        Nat] /\ ci.roll \in [Checks -> Reruns] /\ ci.view \in [Checks -> Attempts])'
        BY <1>3, BlanksTyped, MonitorAssumption DEF MonitorInv, MonitorTyped, BranchMoved, At,
        Aside, forgeVars
    <2>4. (row.ready \in BOOLEAN /\ ci.green \in BOOLEAN)'
        BY <1>3, BlanksTyped, MonitorAssumption, Zenon DEF MonitorInv, MonitorTyped,
        BranchMoved, At, Aside, forgeVars
    <2> QED BY <2>1, <2>2, <2>3, <2>4 DEF MonitorTyped
<1>6. Counted'
    BY <1>3, BlanksTyped, MonitorAssumption DEF MonitorInv, Counted, Live, BranchMoved, At,
      Aside, forgeVars
<1>7. Started'
    BY <1>3, BlanksTyped DEF MonitorInv, Started, OfHead, MonitorTyped, BranchMoved, At,
      Aside, forgeVars
<1>8. Said'
    BY <1>3, BlanksTyped, Zenon DEF MonitorInv, Said, Live, BranchMoved, At, Aside, forgeVars
<1>9. Polled'
    BY <1>3, BlanksTyped DEF MonitorInv, Polled, BranchMoved, At, Aside, forgeVars
<1>10. Promised'
    BY <1>3, BlanksTyped DEF MonitorInv, Promised, Recorded, Live, BranchMoved, At, Aside,
      forgeVars
<1> QED BY <1>4, <1>5, <1>6, <1>7, <1>8, <1>9, <1>10 DEF MonitorInv

\* A refused request counts all the same.
LEMMA RerunsRefusedKeeps ==
        ASSUME MonitorInv, RerunsRefused
    PROVE  MonitorInv'
<1>1. ci' = [pc |-> "judge", fixing |-> ci.fixing, tried |-> ci.tried, last |-> ci.last,
               attempts |-> ci.attempts,
               spent |-> ci'.spent, roll |-> ci'.roll, merge |-> ci.merge,
               issued |-> ci.issued, view |-> ci.view, green |-> ci.green]
    BY Zenon DEF MonitorInv, MonitorShapes, RerunsRefused, Reserves, Persisted, Reservation, Grace
<1>2. row' = [attempts |-> row.attempts, spent |-> row'.spent, roll |-> row'.roll, ready |-> row.ready]
    BY Zenon DEF MonitorInv, MonitorShapes, RerunsRefused, Reserves, Persisted, Reservation, Grace
<1>3. ci'.pc = "judge" /\ ci'.fixing = ci.fixing /\ ci'.tried = ci.tried /\ ci'.last = ci.last
      /\ ci'.attempts = ci.attempts /\ ci'.merge = ci.merge /\ ci'.issued = ci.issued /\
      ci'.view = ci.view /\ ci'.green = ci.green /\ row'.attempts = row.attempts /\ row'.ready
      = row.ready
  BY <1>1, <1>2
<1>4. ci'.spent = [c \in Checks |-> IF c \in Candidates(ci.view, ci.roll)
                                    THEN ci.spent[c] + 1 ELSE ci.spent[c]]
  BY Zenon DEF MonitorInv, MonitorShapes, RerunsRefused, Reserves, Persisted, Reservation, Grace
<1>5. row'.spent = [c \in Checks |-> IF c \in Candidates(ci.view, ci.roll)
                                    THEN ci.spent[c] + 1 ELSE ci.spent[c]]
  BY Zenon DEF MonitorInv, MonitorShapes, RerunsRefused, Reserves, Persisted, Reservation, Grace
<1>6. ci'.roll = [c \in Checks |-> IF c \in Candidates(ci.view, ci.roll)
                                   THEN [at |-> ci.view[c].n, grace |-> Grace, head |-> head]
                                   ELSE ci.roll[c]]
  BY Zenon DEF MonitorInv, MonitorShapes, RerunsRefused, Reserves, Persisted, Reservation, Grace
<1>7. row'.roll = [c \in Checks |-> IF c \in Candidates(ci.view, ci.roll)
                                   THEN [at |-> ci.view[c].n, grace |-> Grace, head |-> head]
                                   ELSE ci.roll[c]]
  BY Zenon DEF MonitorInv, MonitorShapes, RerunsRefused, Reserves, Persisted, Reservation, Grace
<1>8. asked' = [c \in Checks |-> IF c \in Candidates(ci.view, ci.roll) THEN asked[c] + 1 ELSE asked[c]]
  BY Zenon DEF MonitorInv, MonitorShapes, RerunsRefused, Reserves, Persisted, Reservation, Grace
<1>9. \A c \in Candidates(ci.view, ci.roll) :
          /\ c \in Checks /\ ci.spent[c] < RerunLimit
          /\ shown[c].n # 0 /\ shown[c] = ci.view[c] /\ shown[c].res = "cancel"
          /\ ci'.roll[c].at = shown[c].n /\ ci'.roll[c].head = head
          /\ row'.roll[c].at = shown[c].n /\ row'.roll[c].head = head
  BY <1>6, <1>7, CandidatesShown DEF RerunsRefused
<1>10. /\ ci'.roll \in [Checks -> Reruns]
      /\ \A c \in Checks :
            \/ ci'.roll[c] = ci.roll[c]
            \/ /\ ci'.roll[c].at = shown[c].n /\ ci'.roll[c].head = head
               /\ shown[c].res = "cancel" /\ shown[c].n # 0 /\ shown[c] = ci.view[c]
  <2>1. ASSUME NEW c \in Checks
        PROVE  [at |-> ci.view[c].n, grace |-> Grace, head |-> head] \in Reruns
    BY DEF MonitorInv, MonitorTyped, Reruns, Grace, Attempts
  <2>2. ci.roll \in [Checks -> Reruns]
    BY DEF MonitorInv, MonitorTyped
  <2>3. ASSUME NEW c \in Checks, c \in Candidates(ci.view, ci.roll)
        PROVE  ci'.roll[c] = [at |-> ci.view[c].n, grace |-> Grace, head |-> head]
    BY <1>6, <2>3, Zenon
  <2>4. ASSUME NEW c \in Checks, c \notin Candidates(ci.view, ci.roll)
        PROVE  ci'.roll[c] = ci.roll[c]
    BY <1>6, <2>4, Zenon
  <2>5. \A c \in Checks : ci'.roll[c] \in Reruns
    BY <2>1, <2>2, <2>3, <2>4
  <2>6. ci'.roll \in [Checks -> Reruns]
    BY <1>6, <2>5, Zenon
  <2> QED BY <2>4, <2>6, <1>9
<1>11. /\ row'.roll \in [Checks -> Reruns]
      /\ \A c \in Checks :
            \/ row'.roll[c] = ci.roll[c]
            \/ /\ row'.roll[c].at = shown[c].n /\ row'.roll[c].head = head
               /\ shown[c].res = "cancel" /\ shown[c].n # 0 /\ shown[c] = ci.view[c]
  <2>1. ASSUME NEW c \in Checks
        PROVE  [at |-> ci.view[c].n, grace |-> Grace, head |-> head] \in Reruns
    BY DEF MonitorInv, MonitorTyped, Reruns, Grace, Attempts
  <2>2. ci.roll \in [Checks -> Reruns]
    BY DEF MonitorInv, MonitorTyped
  <2>3. ASSUME NEW c \in Checks, c \in Candidates(ci.view, ci.roll)
        PROVE  row'.roll[c] = [at |-> ci.view[c].n, grace |-> Grace, head |-> head]
    BY <1>7, <2>3, Zenon
  <2>4. ASSUME NEW c \in Checks, c \notin Candidates(ci.view, ci.roll)
        PROVE  row'.roll[c] = ci.roll[c]
    BY <1>7, <2>4, Zenon
  <2>5. \A c \in Checks : row'.roll[c] \in Reruns
    BY <2>1, <2>2, <2>3, <2>4
  <2>6. row'.roll \in [Checks -> Reruns]
    BY <1>7, <2>5, Zenon
  <2> QED BY <2>4, <2>6, <1>9
<1>12. MonitorShapes'
  BY <1>1, <1>2, Zenon DEF MonitorShapes
<1>13. MonitorTyped'
    <2>1. (jobs \in [Checks -> Nat] /\ shown \in [Checks -> Attempts] /\ event \in Nat /\
        omits \in Nat /\ head \in 1..MaxHeads /\ owed \in [Checks -> Nat] /\ autos \in Nat)'
        BY DEF MonitorInv, MonitorTyped, RerunsRefused, At, forgeVars
    <2>2. (asked \in [Checks -> Nat] /\ row.attempts \in Nat /\ row.spent \in [Checks -> Nat]
        /\ row.roll \in [Checks -> Reruns])'
        BY <1>3, <1>4, <1>5, <1>6, <1>7, <1>8, <1>9, <1>10, <1>11, MonitorAssumption DEF
        MonitorInv, MonitorTyped, RerunsRefused, At, forgeVars
    <2>3. (ci.pc \in {"wait", "asking", "judge", "asked", "auto", "parked", "over"} /\ ci.last
        \in {"none", "running", "passed"} /\ ci.attempts \in Nat /\ ci.spent \in [Checks ->
        Nat] /\ ci.roll \in [Checks -> Reruns] /\ ci.view \in [Checks -> Attempts])'
        BY <1>3, <1>4, <1>5, <1>6, <1>7, <1>8, <1>9, <1>10, <1>11, MonitorAssumption DEF
        MonitorInv, MonitorTyped, RerunsRefused, At, forgeVars
    <2>4. (row.ready \in BOOLEAN /\ ci.green \in BOOLEAN)'
        BY <1>3, <1>4, <1>5, <1>6, <1>7, <1>8, <1>9, <1>10, <1>11, MonitorAssumption DEF
        MonitorInv, MonitorTyped, RerunsRefused, At, forgeVars
    <2> QED BY <2>1, <2>2, <2>3, <2>4 DEF MonitorTyped
<1>14. Counted'
  <2>1. ci.spent = row.spent /\ ci.attempts = row.attempts
    BY DEF MonitorInv, Counted, Live, At, RerunsRefused
  <2>2. ASSUME NEW c \in Checks
        PROVE  asked'[c] = row'.spent[c] /\ ci'.spent[c] = row'.spent[c] /\ asked'[c] <= RerunLimit
    <3>1. CASE c \in Candidates(ci.view, ci.roll)
      BY <1>4, <1>5, <1>8, <1>9, <2>1, <3>1, MonitorAssumption DEF MonitorInv, MonitorTyped,
         Counted
    <3>2. CASE c \notin Candidates(ci.view, ci.roll)
      BY <1>4, <1>5, <1>8, <2>1, <3>2 DEF MonitorInv, Counted
    <3> QED BY <3>1, <3>2
  <2>3. ci'.spent = row'.spent
    BY <1>4, <1>5, <2>1
  <2>4. autos' = autos /\ ci'.attempts = ci.attempts /\ row'.attempts = row.attempts
    BY <1>3 DEF RerunsRefused
  <2> QED BY <2>1, <2>2, <2>3, <2>4 DEF MonitorInv, Counted
<1>15. Started'
    BY <1>3, <1>4, <1>5, <1>6, <1>7, <1>8, <1>9, <1>10, <1>11 DEF MonitorInv, Started, OfHead,
      MonitorTyped, RerunsRefused, At, forgeVars
<1>16. Said'
    BY <1>3, <1>4, <1>5, <1>6, <1>7, <1>8, <1>9, <1>10, <1>11 DEF MonitorInv, Said, Live,
      RerunsRefused, At, forgeVars
<1>17. Polled'
  <2>1. \A c \in Checks : Filtered(c)' = Filtered(c)
    BY Zenon DEF Filtered, RerunsRefused, forgeVars
  <2>2. \A c \in Checks : ci.view[c] = Filtered(c)
    BY Zenon DEF MonitorInv, Polled, RerunsRefused, At
  <2> QED BY <1>3, <2>1, <2>2, Zenon DEF Polled
<1>18. Promised'
    BY <1>3, <1>4, <1>5, <1>6, <1>7, <1>8, <1>9, <1>10, <1>11 DEF MonitorInv, Promised,
      Recorded, Live, RerunsRefused, At, forgeVars
<1> QED BY <1>12, <1>13, <1>14, <1>15, <1>16, <1>17, <1>18 DEF MonitorInv

\* Reruns asked for in this poll run.
LEMMA WaitsForRerunsKeeps ==
        ASSUME MonitorInv, WaitsForReruns
    PROVE  MonitorInv'
<1>1. ci' = [pc |-> "wait", fixing |-> ci.fixing, tried |-> ci.tried, last |-> "running",
               attempts |-> ci.attempts,
               spent |-> ci.spent, roll |-> ci'.roll, merge |-> "clean",
               issued |-> FALSE, view |-> NoView, green |-> FALSE]
    BY Zenon DEF MonitorInv, MonitorShapes, WaitsForReruns, Says, Judged, Done, NoView, NoJob
<1>2. row' = [attempts |-> row.attempts, spent |-> row.spent, roll |-> row.roll, ready |-> row'.ready]
    BY Zenon DEF MonitorInv, MonitorShapes, WaitsForReruns, Says, Judged, Done, NoView, NoJob
<1>3. ci'.pc = "wait" /\ ci'.fixing = ci.fixing /\ ci'.tried = ci.tried /\ ci'.last =
      "running" /\ ci'.attempts = ci.attempts /\ ci'.spent = ci.spent /\ ci'.merge = "clean"
      /\ ci'.issued = FALSE /\ ci'.view = NoView /\ ci'.green = FALSE /\ row'.attempts =
      row.attempts /\ row'.spent = row.spent /\ row'.roll = row.roll
  BY <1>1, <1>2
<1>4. ci'.roll \in [Checks -> Reruns]
      /\ \A c \in Checks : ci'.roll[c].at = ci.roll[c].at /\ ci'.roll[c].head = ci.roll[c].head
  <2>1. ci'.roll = IF ci.issued THEN ci.roll ELSE GraceSpent
    BY Zenon DEF MonitorInv, MonitorShapes, WaitsForReruns, Says, Judged, Done, NoView, NoJob
  <2>2. ci.roll \in [Checks -> Reruns]
    BY DEF MonitorInv, MonitorTyped
  <2> QED BY <2>1, <2>2, GraceIsSpent
<1>5. row'.ready = IF ci.last = "running" THEN row.ready ELSE FALSE
  BY Zenon DEF MonitorInv, MonitorShapes, MonitorTyped, WaitsForReruns, Says, Judged, Done,
     NoView, NoJob
<1>6. MonitorShapes'
  BY <1>1, <1>2, Zenon DEF MonitorShapes
<1>7. MonitorTyped'
    <2>1. (jobs \in [Checks -> Nat] /\ shown \in [Checks -> Attempts] /\ event \in Nat /\
        omits \in Nat /\ head \in 1..MaxHeads /\ asked \in [Checks -> Nat] /\ owed \in [Checks
        -> Nat] /\ autos \in Nat)'
        BY DEF MonitorInv, MonitorTyped, WaitsForReruns, Judging, At, Aside, forgeVars
    <2>2. (row.attempts \in Nat /\ row.spent \in [Checks -> Nat] /\ row.roll \in [Checks ->
        Reruns])'
        BY <1>3, <1>4, <1>5, BlanksTyped, MonitorAssumption DEF MonitorInv, MonitorTyped,
        WaitsForReruns, Judging, At, Aside, forgeVars
    <2>3. (ci.pc \in {"wait", "asking", "judge", "asked", "auto", "parked", "over"} /\ ci.last
        \in {"none", "running", "passed"} /\ ci.attempts \in Nat /\ ci.spent \in [Checks ->
        Nat] /\ ci.roll \in [Checks -> Reruns] /\ ci.view \in [Checks -> Attempts])'
        BY <1>3, <1>4, <1>5, BlanksTyped, MonitorAssumption DEF MonitorInv, MonitorTyped,
        WaitsForReruns, Judging, At, Aside, forgeVars
    <2>4. (row.ready \in BOOLEAN /\ ci.green \in BOOLEAN)'
        BY <1>3, <1>4, <1>5, BlanksTyped, MonitorAssumption, Zenon DEF MonitorInv,
        MonitorTyped, WaitsForReruns, Judging, At, Aside, forgeVars
    <2> QED BY <2>1, <2>2, <2>3, <2>4 DEF MonitorTyped
<1>8. Counted'
    BY <1>3, <1>4, <1>5, BlanksTyped, MonitorAssumption DEF MonitorInv, Counted, Live,
      WaitsForReruns, Judging, At, Aside, forgeVars
<1>9. Started'
    BY <1>3, <1>4, <1>5, BlanksTyped DEF MonitorInv, Started, OfHead, MonitorTyped, Counted,
      Live, WaitsForReruns, Judging, At, Aside, forgeVars
<1>10. Said'
    BY <1>3, <1>4, <1>5, BlanksTyped, Zenon DEF MonitorInv, Said, Live, WaitsForReruns,
      Judging, At, Aside, forgeVars
<1>11. Polled'
    BY <1>3, <1>4, <1>5, BlanksTyped DEF MonitorInv, Polled, WaitsForReruns, Judging, At,
      Aside, forgeVars
<1>12. Promised'
    BY <1>3, <1>4, <1>5, BlanksTyped DEF MonitorInv, Promised, Recorded, Live, WaitsForReruns,
      Judging, At, Aside, forgeVars
<1> QED BY <1>6, <1>7, <1>8, <1>9, <1>10, <1>11, <1>12 DEF MonitorInv

\* The rollup has yet to show an earlier rerun.
LEMMA WaitsForRollupKeeps ==
        ASSUME MonitorInv, WaitsForRollup
    PROVE  MonitorInv'
<1>1. ci' = [pc |-> "wait", fixing |-> ci.fixing, tried |-> ci.tried, last |-> "running",
               attempts |-> ci.attempts,
               spent |-> ci.spent, roll |-> ci'.roll, merge |-> "clean",
               issued |-> FALSE, view |-> NoView, green |-> ci.green]
    BY Zenon DEF MonitorInv, MonitorShapes, WaitsForRollup, Silent, Judged, Done, NoView,
      NoJob
<1>2. row' = [attempts |-> row.attempts, spent |-> row.spent, roll |-> row.roll, ready |-> FALSE]
    BY Zenon DEF MonitorInv, MonitorShapes, WaitsForRollup, Silent, Judged, Done, NoView,
      NoJob
<1>3. ci'.pc = "wait" /\ ci'.fixing = ci.fixing /\ ci'.tried = ci.tried /\ ci'.last =
      "running" /\ ci'.attempts = ci.attempts /\ ci'.spent = ci.spent /\ ci'.merge = "clean"
      /\ ci'.issued = FALSE /\ ci'.view = NoView /\ ci'.green = ci.green /\ row'.attempts =
      row.attempts /\ row'.spent = row.spent /\ row'.roll = row.roll /\ row'.ready = FALSE
  BY <1>1, <1>2
<1>4. ci'.roll \in [Checks -> Reruns]
      /\ \A c \in Checks : ci'.roll[c].at = ci.roll[c].at /\ ci'.roll[c].head = ci.roll[c].head
  <2>1. ci'.roll = IF ci.issued THEN ci.roll ELSE GraceSpent
    BY Zenon DEF MonitorInv, MonitorShapes, WaitsForRollup, Silent, Judged, Done, NoView, NoJob
  <2>2. ci.roll \in [Checks -> Reruns]
    BY DEF MonitorInv, MonitorTyped
  <2> QED BY <2>1, <2>2, GraceIsSpent
<1>5. MonitorShapes'
  BY <1>1, <1>2, Zenon DEF MonitorShapes
<1>6. MonitorTyped'
    <2>1. (jobs \in [Checks -> Nat] /\ shown \in [Checks -> Attempts] /\ event \in Nat /\
        omits \in Nat /\ head \in 1..MaxHeads /\ asked \in [Checks -> Nat] /\ owed \in [Checks
        -> Nat] /\ autos \in Nat)'
        BY DEF MonitorInv, MonitorTyped, WaitsForRollup, Judging, At, Aside, forgeVars
    <2>2. (row.attempts \in Nat /\ row.spent \in [Checks -> Nat] /\ row.roll \in [Checks ->
        Reruns])'
        BY <1>3, <1>4, BlanksTyped, MonitorAssumption DEF MonitorInv, MonitorTyped,
        WaitsForRollup, Judging, At, Aside, forgeVars
    <2>3. (ci.pc \in {"wait", "asking", "judge", "asked", "auto", "parked", "over"} /\ ci.last
        \in {"none", "running", "passed"} /\ ci.attempts \in Nat /\ ci.spent \in [Checks ->
        Nat] /\ ci.roll \in [Checks -> Reruns] /\ ci.view \in [Checks -> Attempts])'
        BY <1>3, <1>4, BlanksTyped, MonitorAssumption DEF MonitorInv, MonitorTyped,
        WaitsForRollup, Judging, At, Aside, forgeVars
    <2>4. (row.ready \in BOOLEAN /\ ci.green \in BOOLEAN)'
        BY <1>3, <1>4, BlanksTyped, MonitorAssumption, Zenon DEF MonitorInv, MonitorTyped,
        WaitsForRollup, Judging, At, Aside, forgeVars
    <2> QED BY <2>1, <2>2, <2>3, <2>4 DEF MonitorTyped
<1>7. Counted'
    BY <1>3, <1>4, BlanksTyped, MonitorAssumption DEF MonitorInv, Counted, Live,
      WaitsForRollup, Judging, At, Aside, forgeVars
<1>8. Started'
    BY <1>3, <1>4, BlanksTyped DEF MonitorInv, Started, OfHead, MonitorTyped, WaitsForRollup,
      Judging, At, Aside, forgeVars
<1>9. Said'
    BY <1>3, <1>4, BlanksTyped, Zenon DEF MonitorInv, Said, Live, WaitsForRollup, Judging, At,
      Aside, forgeVars
<1>10. Polled'
    BY <1>3, <1>4, BlanksTyped DEF MonitorInv, Polled, WaitsForRollup, Judging, At, Aside,
      forgeVars
<1>11. Promised'
    BY <1>3, <1>4, BlanksTyped DEF MonitorInv, Promised, Recorded, Live, WaitsForRollup,
      Judging, At, Aside, forgeVars
<1> QED BY <1>5, <1>6, <1>7, <1>8, <1>9, <1>10, <1>11 DEF MonitorInv

\* Checks can still conclude.
LEMMA WaitsForPendingKeeps ==
        ASSUME MonitorInv, WaitsForPending
    PROVE  MonitorInv'
<1>1. ci' = [pc |-> "wait", fixing |-> ci.fixing, tried |-> ci.tried, last |-> "none",
               attempts |-> ci.attempts,
               spent |-> ci.spent, roll |-> ci'.roll, merge |-> "clean",
               issued |-> FALSE, view |-> NoView, green |-> ci.green]
    BY Zenon DEF MonitorInv, MonitorShapes, WaitsForPending, Silent, Judged, Done, NoView,
      NoJob
<1>2. row' = [attempts |-> row.attempts, spent |-> row.spent, roll |-> row.roll, ready |-> FALSE]
    BY Zenon DEF MonitorInv, MonitorShapes, WaitsForPending, Silent, Judged, Done, NoView,
      NoJob
<1>3. ci'.pc = "wait" /\ ci'.fixing = ci.fixing /\ ci'.tried = ci.tried /\ ci'.last = "none"
      /\ ci'.attempts = ci.attempts /\ ci'.spent = ci.spent /\ ci'.merge = "clean" /\
      ci'.issued = FALSE /\ ci'.view = NoView /\ ci'.green = ci.green /\ row'.attempts =
      row.attempts /\ row'.spent = row.spent /\ row'.roll = row.roll /\ row'.ready = FALSE
  BY <1>1, <1>2
<1>4. ci'.roll \in [Checks -> Reruns]
      /\ \A c \in Checks : ci'.roll[c].at = ci.roll[c].at /\ ci'.roll[c].head = ci.roll[c].head
  <2>1. ci'.roll = IF ci.issued THEN ci.roll ELSE GraceSpent
    BY Zenon DEF MonitorInv, MonitorShapes, WaitsForPending, Silent, Judged, Done, NoView, NoJob
  <2>2. ci.roll \in [Checks -> Reruns]
    BY DEF MonitorInv, MonitorTyped
  <2> QED BY <2>1, <2>2, GraceIsSpent
<1>5. MonitorShapes'
  BY <1>1, <1>2, Zenon DEF MonitorShapes
<1>6. MonitorTyped'
    <2>1. (jobs \in [Checks -> Nat] /\ shown \in [Checks -> Attempts] /\ event \in Nat /\
        omits \in Nat /\ head \in 1..MaxHeads /\ asked \in [Checks -> Nat] /\ owed \in [Checks
        -> Nat] /\ autos \in Nat)'
        BY DEF MonitorInv, MonitorTyped, WaitsForPending, Judging, At, Aside, forgeVars
    <2>2. (row.attempts \in Nat /\ row.spent \in [Checks -> Nat] /\ row.roll \in [Checks ->
        Reruns])'
        BY <1>3, <1>4, BlanksTyped, MonitorAssumption DEF MonitorInv, MonitorTyped,
        WaitsForPending, Judging, At, Aside, forgeVars
    <2>3. (ci.pc \in {"wait", "asking", "judge", "asked", "auto", "parked", "over"} /\ ci.last
        \in {"none", "running", "passed"} /\ ci.attempts \in Nat /\ ci.spent \in [Checks ->
        Nat] /\ ci.roll \in [Checks -> Reruns] /\ ci.view \in [Checks -> Attempts])'
        BY <1>3, <1>4, BlanksTyped, MonitorAssumption DEF MonitorInv, MonitorTyped,
        WaitsForPending, Judging, At, Aside, forgeVars
    <2>4. (row.ready \in BOOLEAN /\ ci.green \in BOOLEAN)'
        BY <1>3, <1>4, BlanksTyped, MonitorAssumption, Zenon DEF MonitorInv, MonitorTyped,
        WaitsForPending, Judging, At, Aside, forgeVars
    <2> QED BY <2>1, <2>2, <2>3, <2>4 DEF MonitorTyped
<1>7. Counted'
    BY <1>3, <1>4, BlanksTyped, MonitorAssumption DEF MonitorInv, Counted, Live,
      WaitsForPending, Judging, At, Aside, forgeVars
<1>8. Started'
    BY <1>3, <1>4, BlanksTyped DEF MonitorInv, Started, OfHead, MonitorTyped, WaitsForPending,
      Judging, At, Aside, forgeVars
<1>9. Said'
    BY <1>3, <1>4, BlanksTyped, Zenon DEF MonitorInv, Said, Live, WaitsForPending, Judging,
      At, Aside, forgeVars
<1>10. Polled'
    BY <1>3, <1>4, BlanksTyped DEF MonitorInv, Polled, WaitsForPending, Judging, At, Aside,
      forgeVars
<1>11. Promised'
    BY <1>3, <1>4, BlanksTyped DEF MonitorInv, Promised, Recorded, Live, WaitsForPending,
      Judging, At, Aside, forgeVars
<1> QED BY <1>5, <1>6, <1>7, <1>8, <1>9, <1>10, <1>11 DEF MonitorInv

\* What nothing covers parks.
LEMMA EscalatesKeeps ==
        ASSUME MonitorInv, Escalates
    PROVE  MonitorInv'
<1>1. ci' = [pc |-> "parked", fixing |-> ci.fixing, tried |-> ci.tried, last |-> "none",
               attempts |-> ci.attempts,
               spent |-> ci.spent, roll |-> ci'.roll, merge |-> "clean",
               issued |-> FALSE, view |-> NoView, green |-> ci.green]
    BY Zenon DEF MonitorInv, MonitorShapes, Escalates, Silent, Judged, Done, NoView, NoJob,
      Concluded
<1>2. row' = [attempts |-> row.attempts, spent |-> row.spent, roll |-> row.roll, ready |-> FALSE]
    BY Zenon DEF MonitorInv, MonitorShapes, Escalates, Silent, Judged, Done, NoView, NoJob,
      Concluded
<1>3. ci'.pc = "parked" /\ ci'.fixing = ci.fixing /\ ci'.tried = ci.tried /\ ci'.last = "none"
      /\ ci'.attempts = ci.attempts /\ ci'.spent = ci.spent /\ ci'.merge = "clean" /\
      ci'.issued = FALSE /\ ci'.view = NoView /\ ci'.green = ci.green /\ row'.attempts =
      row.attempts /\ row'.spent = row.spent /\ row'.roll = row.roll /\ row'.ready = FALSE
  BY <1>1, <1>2
<1>4. ci'.roll \in [Checks -> Reruns]
      /\ \A c \in Checks : ci'.roll[c].at = ci.roll[c].at /\ ci'.roll[c].head = ci.roll[c].head
  <2>1. ci'.roll = IF ci.issued THEN ci.roll ELSE GraceSpent
    BY Zenon DEF MonitorInv, MonitorShapes, Escalates, Silent, Judged, Done, NoView, NoJob,
       Concluded
  <2>2. ci.roll \in [Checks -> Reruns]
    BY DEF MonitorInv, MonitorTyped
  <2> QED BY <2>1, <2>2, GraceIsSpent
<1>5. MonitorShapes'
  BY <1>1, <1>2, Zenon DEF MonitorShapes
<1>6. MonitorTyped'
    <2>1. (jobs \in [Checks -> Nat] /\ shown \in [Checks -> Attempts] /\ event \in Nat /\
        omits \in Nat /\ head \in 1..MaxHeads /\ asked \in [Checks -> Nat] /\ owed \in [Checks
        -> Nat] /\ autos \in Nat)'
        BY DEF MonitorInv, MonitorTyped, Escalates, Concluded, At, Aside, forgeVars
    <2>2. (row.attempts \in Nat /\ row.spent \in [Checks -> Nat] /\ row.roll \in [Checks ->
        Reruns])'
        BY <1>3, <1>4, BlanksTyped, MonitorAssumption DEF MonitorInv, MonitorTyped, Escalates,
        Concluded, At, Aside, forgeVars
    <2>3. (ci.pc \in {"wait", "asking", "judge", "asked", "auto", "parked", "over"} /\ ci.last
        \in {"none", "running", "passed"} /\ ci.attempts \in Nat /\ ci.spent \in [Checks ->
        Nat] /\ ci.roll \in [Checks -> Reruns] /\ ci.view \in [Checks -> Attempts])'
        BY <1>3, <1>4, BlanksTyped, MonitorAssumption DEF MonitorInv, MonitorTyped, Escalates,
        Concluded, At, Aside, forgeVars
    <2>4. (row.ready \in BOOLEAN /\ ci.green \in BOOLEAN)'
        BY <1>3, <1>4, BlanksTyped, MonitorAssumption, Zenon DEF MonitorInv, MonitorTyped,
        Escalates, Concluded, At, Aside, forgeVars
    <2> QED BY <2>1, <2>2, <2>3, <2>4 DEF MonitorTyped
<1>7. Counted'
    BY <1>3, <1>4, BlanksTyped, MonitorAssumption DEF MonitorInv, Counted, Live, Escalates,
      Concluded, At, Aside, forgeVars
<1>8. Started'
    BY <1>3, <1>4, BlanksTyped DEF MonitorInv, Started, OfHead, MonitorTyped, Escalates,
      Concluded, At, Aside, forgeVars
<1>9. Said'
    BY <1>3, <1>4, BlanksTyped, Zenon DEF MonitorInv, Said, Live, Escalates, Concluded, At,
      Aside, forgeVars
<1>10. Polled'
    BY <1>3, <1>4, BlanksTyped DEF MonitorInv, Polled, Escalates, Concluded, At, Aside,
      forgeVars
<1>11. Promised'
    BY <1>3, <1>4, BlanksTyped DEF MonitorInv, Promised, Recorded, Live, Escalates, Concluded,
      At, Aside, forgeVars
<1> QED BY <1>5, <1>6, <1>7, <1>8, <1>9, <1>10, <1>11 DEF MonitorInv

\* A repair somebody asked for.
LEMMA RepairsAsAskedKeeps ==
        ASSUME MonitorInv, RepairsAsAsked
    PROVE  MonitorInv'
<1>1. ci' = [pc |-> "asked", fixing |-> ci.fixing, tried |-> TRUE, last |-> "none",
               attempts |-> ci.attempts,
               spent |-> ci.spent, roll |-> ci'.roll, merge |-> "clean",
               issued |-> FALSE, view |-> NoView, green |-> ci.green]
    BY Zenon DEF MonitorInv, MonitorShapes, RepairsAsAsked, Silent, Judged, Done, NoView,
      NoJob, Concluded
<1>2. row' = [attempts |-> row.attempts, spent |-> row.spent, roll |-> row.roll, ready |-> FALSE]
    BY Zenon DEF MonitorInv, MonitorShapes, RepairsAsAsked, Silent, Judged, Done, NoView,
      NoJob, Concluded
<1>3. ci'.pc = "asked" /\ ci'.fixing = ci.fixing /\ ci'.tried = TRUE /\ ci'.last = "none" /\
      ci'.attempts = ci.attempts /\ ci'.spent = ci.spent /\ ci'.merge = "clean" /\ ci'.issued
      = FALSE /\ ci'.view = NoView /\ ci'.green = ci.green /\ row'.attempts = row.attempts /\
      row'.spent = row.spent /\ row'.roll = row.roll /\ row'.ready = FALSE
  BY <1>1, <1>2
<1>4. ci'.roll \in [Checks -> Reruns]
      /\ \A c \in Checks : ci'.roll[c].at = ci.roll[c].at /\ ci'.roll[c].head = ci.roll[c].head
  <2>1. ci'.roll = IF ci.issued THEN ci.roll ELSE GraceSpent
    BY Zenon DEF MonitorInv, MonitorShapes, RepairsAsAsked, Silent, Judged, Done, NoView, NoJob,
       Concluded
  <2>2. ci.roll \in [Checks -> Reruns]
    BY DEF MonitorInv, MonitorTyped
  <2> QED BY <2>1, <2>2, GraceIsSpent
<1>5. MonitorShapes'
  BY <1>1, <1>2, Zenon DEF MonitorShapes
<1>6. MonitorTyped'
    <2>1. (jobs \in [Checks -> Nat] /\ shown \in [Checks -> Attempts] /\ event \in Nat /\
        omits \in Nat /\ head \in 1..MaxHeads /\ asked \in [Checks -> Nat] /\ owed \in [Checks
        -> Nat] /\ autos \in Nat)'
        BY DEF MonitorInv, MonitorTyped, RepairsAsAsked, Concluded, At, Aside, forgeVars
    <2>2. (row.attempts \in Nat /\ row.spent \in [Checks -> Nat] /\ row.roll \in [Checks ->
        Reruns])'
        BY <1>3, <1>4, BlanksTyped, MonitorAssumption DEF MonitorInv, MonitorTyped,
        RepairsAsAsked, Concluded, At, Aside, forgeVars
    <2>3. (ci.pc \in {"wait", "asking", "judge", "asked", "auto", "parked", "over"} /\ ci.last
        \in {"none", "running", "passed"} /\ ci.attempts \in Nat /\ ci.spent \in [Checks ->
        Nat] /\ ci.roll \in [Checks -> Reruns] /\ ci.view \in [Checks -> Attempts])'
        BY <1>3, <1>4, BlanksTyped, MonitorAssumption DEF MonitorInv, MonitorTyped,
        RepairsAsAsked, Concluded, At, Aside, forgeVars
    <2>4. (row.ready \in BOOLEAN /\ ci.green \in BOOLEAN)'
        BY <1>3, <1>4, BlanksTyped, MonitorAssumption, Zenon DEF MonitorInv, MonitorTyped,
        RepairsAsAsked, Concluded, At, Aside, forgeVars
    <2> QED BY <2>1, <2>2, <2>3, <2>4 DEF MonitorTyped
<1>7. Counted'
    BY <1>3, <1>4, BlanksTyped, MonitorAssumption DEF MonitorInv, Counted, Live,
      RepairsAsAsked, Concluded, At, Aside, forgeVars
<1>8. Started'
    BY <1>3, <1>4, BlanksTyped DEF MonitorInv, Started, OfHead, MonitorTyped, Polled,
      RepairsAsAsked, Concluded, At, Aside, forgeVars
<1>9. Said'
    BY <1>3, <1>4, BlanksTyped DEF MonitorInv, Said, Live, RepairsAsAsked, Concluded, At,
      Aside, forgeVars
<1>10. Polled'
    BY <1>3, <1>4, BlanksTyped DEF MonitorInv, Polled, RepairsAsAsked, Concluded, At, Aside,
      forgeVars
<1>11. Promised'
    BY <1>3, <1>4, BlanksTyped DEF MonitorInv, Promised, Recorded, Live, RepairsAsAsked,
      Concluded, At, Aside, forgeVars
<1> QED BY <1>5, <1>6, <1>7, <1>8, <1>9, <1>10, <1>11 DEF MonitorInv

\* A repair counts before the agent runs.
LEMMA RepairsKeeps ==
        ASSUME MonitorInv, Repairs
    PROVE  MonitorInv'
<1>1. ci' = [pc |-> "auto", fixing |-> ci.fixing, tried |-> ci.tried, last |-> "none",
               attempts |-> ci.attempts + 1,
               spent |-> ci.spent, roll |-> ci'.roll, merge |-> "clean",
               issued |-> FALSE, view |-> NoView, green |-> ci.green]
    BY Zenon DEF MonitorInv, MonitorShapes, Repairs, MayRepair, Concluded, Judged, Done,
      NoView, NoJob
<1>2. row' = [attempts |-> ci.attempts + 1, spent |-> row.spent, roll |-> row.roll, ready |-> FALSE]
    BY Zenon DEF MonitorInv, MonitorShapes, Repairs, MayRepair, Concluded, Judged, Done,
      NoView, NoJob
<1>3. ci'.pc = "auto" /\ ci'.fixing = ci.fixing /\ ci'.tried = ci.tried /\ ci'.last = "none"
      /\ ci'.attempts = ci.attempts + 1 /\ ci'.spent = ci.spent /\ ci'.merge = "clean" /\
      ci'.issued = FALSE /\ ci'.view = NoView /\ ci'.green = ci.green /\ row'.attempts =
      ci.attempts + 1 /\ row'.spent = row.spent /\ row'.roll = row.roll /\ row'.ready = FALSE
  BY <1>1, <1>2
<1>4. ci'.roll \in [Checks -> Reruns]
      /\ \A c \in Checks : ci'.roll[c].at = ci.roll[c].at /\ ci'.roll[c].head = ci.roll[c].head
  <2>1. ci'.roll = IF ci.issued THEN ci.roll ELSE GraceSpent
    BY Zenon DEF MonitorInv, MonitorShapes, Repairs, MayRepair, Concluded, Judged, Done, NoView,
       NoJob
  <2>2. ci.roll \in [Checks -> Reruns]
    BY DEF MonitorInv, MonitorTyped
  <2> QED BY <2>1, <2>2, GraceIsSpent
<1>5. MonitorShapes'
  BY <1>1, <1>2, Zenon DEF MonitorShapes
<1>6. MonitorTyped'
    <2>1. (jobs \in [Checks -> Nat] /\ shown \in [Checks -> Attempts] /\ event \in Nat /\
        omits \in Nat /\ head \in 1..MaxHeads /\ asked \in [Checks -> Nat] /\ owed \in [Checks
        -> Nat])'
        BY DEF MonitorInv, MonitorTyped, Repairs, MayRepair, Concluded, At, forgeVars
    <2>2. (autos \in Nat /\ row.attempts \in Nat /\ row.spent \in [Checks -> Nat] /\ row.roll
        \in [Checks -> Reruns])'
        BY <1>3, <1>4, BlanksTyped, MonitorAssumption DEF MonitorInv, MonitorTyped, Repairs,
        MayRepair, Concluded, At, forgeVars
    <2>3. (ci.pc \in {"wait", "asking", "judge", "asked", "auto", "parked", "over"} /\ ci.last
        \in {"none", "running", "passed"} /\ ci.attempts \in Nat /\ ci.spent \in [Checks ->
        Nat] /\ ci.roll \in [Checks -> Reruns] /\ ci.view \in [Checks -> Attempts])'
        BY <1>3, <1>4, BlanksTyped, MonitorAssumption DEF MonitorInv, MonitorTyped, Repairs,
        MayRepair, Concluded, At, forgeVars
    <2>4. (row.ready \in BOOLEAN /\ ci.green \in BOOLEAN)'
        BY <1>3, <1>4, BlanksTyped, MonitorAssumption DEF MonitorInv, MonitorTyped, Repairs,
        MayRepair, Concluded, At, forgeVars
    <2> QED BY <2>1, <2>2, <2>3, <2>4 DEF MonitorTyped
<1>7. Counted'
    BY <1>3, <1>4, BlanksTyped, MonitorAssumption DEF MonitorInv, Counted, Live, MonitorTyped,
      Repairs, MayRepair, Concluded, At, forgeVars
<1>8. Started'
    BY <1>3, <1>4, BlanksTyped DEF MonitorInv, Started, OfHead, MonitorTyped, Repairs,
      MayRepair, Concluded, At, forgeVars
<1>9. Said'
    BY <1>3, <1>4, BlanksTyped, Zenon DEF MonitorInv, Said, Live, Repairs, MayRepair,
      Concluded, At, forgeVars
<1>10. Polled'
    BY <1>3, <1>4, BlanksTyped DEF MonitorInv, Polled, Repairs, MayRepair, Concluded, At,
      forgeVars
<1>11. Promised'
    BY <1>3, <1>4, BlanksTyped DEF MonitorInv, Promised, Recorded, Live, Repairs, MayRepair,
      Concluded, At, forgeVars
<1> QED BY <1>5, <1>6, <1>7, <1>8, <1>9, <1>10, <1>11 DEF MonitorInv

\* Nothing is known yet.
LEMMA ReportsUnknownKeeps ==
        ASSUME MonitorInv, ReportsUnknown
    PROVE  MonitorInv'
<1>1. ci' = [pc |-> "wait", fixing |-> ci.fixing, tried |-> ci.tried, last |-> "none",
               attempts |-> ci.attempts,
               spent |-> ci.spent, roll |-> ci'.roll, merge |-> "clean",
               issued |-> FALSE, view |-> NoView, green |-> ci.green]
    BY Zenon DEF MonitorInv, MonitorShapes, ReportsUnknown, Silent, Judged, Done, NoView,
      NoJob
<1>2. row' = [attempts |-> row.attempts, spent |-> row.spent, roll |-> row.roll, ready |-> FALSE]
    BY Zenon DEF MonitorInv, MonitorShapes, ReportsUnknown, Silent, Judged, Done, NoView,
      NoJob
<1>3. ci'.pc = "wait" /\ ci'.fixing = ci.fixing /\ ci'.tried = ci.tried /\ ci'.last = "none"
      /\ ci'.attempts = ci.attempts /\ ci'.spent = ci.spent /\ ci'.merge = "clean" /\
      ci'.issued = FALSE /\ ci'.view = NoView /\ ci'.green = ci.green /\ row'.attempts =
      row.attempts /\ row'.spent = row.spent /\ row'.roll = row.roll /\ row'.ready = FALSE
  BY <1>1, <1>2
<1>4. ci'.roll \in [Checks -> Reruns]
      /\ \A c \in Checks : ci'.roll[c].at = ci.roll[c].at /\ ci'.roll[c].head = ci.roll[c].head
  <2>1. ci'.roll = IF ci.issued THEN ci.roll ELSE GraceSpent
    BY Zenon DEF MonitorInv, MonitorShapes, ReportsUnknown, Silent, Judged, Done, NoView, NoJob
  <2>2. ci.roll \in [Checks -> Reruns]
    BY DEF MonitorInv, MonitorTyped
  <2> QED BY <2>1, <2>2, GraceIsSpent
<1>5. MonitorShapes'
  BY <1>1, <1>2, Zenon DEF MonitorShapes
<1>6. MonitorTyped'
    <2>1. (jobs \in [Checks -> Nat] /\ shown \in [Checks -> Attempts] /\ event \in Nat /\
        omits \in Nat /\ head \in 1..MaxHeads /\ asked \in [Checks -> Nat] /\ owed \in [Checks
        -> Nat] /\ autos \in Nat)'
        BY DEF MonitorInv, MonitorTyped, ReportsUnknown, Judging, At, Aside, forgeVars
    <2>2. (row.attempts \in Nat /\ row.spent \in [Checks -> Nat] /\ row.roll \in [Checks ->
        Reruns])'
        BY <1>3, <1>4, BlanksTyped, MonitorAssumption DEF MonitorInv, MonitorTyped,
        ReportsUnknown, Judging, At, Aside, forgeVars
    <2>3. (ci.pc \in {"wait", "asking", "judge", "asked", "auto", "parked", "over"} /\ ci.last
        \in {"none", "running", "passed"} /\ ci.attempts \in Nat /\ ci.spent \in [Checks ->
        Nat] /\ ci.roll \in [Checks -> Reruns] /\ ci.view \in [Checks -> Attempts])'
        BY <1>3, <1>4, BlanksTyped, MonitorAssumption DEF MonitorInv, MonitorTyped,
        ReportsUnknown, Judging, At, Aside, forgeVars
    <2>4. (row.ready \in BOOLEAN /\ ci.green \in BOOLEAN)'
        BY <1>3, <1>4, BlanksTyped, MonitorAssumption, Zenon DEF MonitorInv, MonitorTyped,
        ReportsUnknown, Judging, At, Aside, forgeVars
    <2> QED BY <2>1, <2>2, <2>3, <2>4 DEF MonitorTyped
<1>7. Counted'
    BY <1>3, <1>4, BlanksTyped, MonitorAssumption DEF MonitorInv, Counted, Live,
      ReportsUnknown, Judging, At, Aside, forgeVars
<1>8. Started'
    BY <1>3, <1>4, BlanksTyped DEF MonitorInv, Started, OfHead, MonitorTyped, ReportsUnknown,
      Judging, At, Aside, forgeVars
<1>9. Said'
    BY <1>3, <1>4, BlanksTyped, Zenon DEF MonitorInv, Said, Live, ReportsUnknown, Judging, At,
      Aside, forgeVars
<1>10. Polled'
    BY <1>3, <1>4, BlanksTyped DEF MonitorInv, Polled, ReportsUnknown, Judging, At, Aside,
      forgeVars
<1>11. Promised'
    BY <1>3, <1>4, BlanksTyped DEF MonitorInv, Promised, Recorded, Live, ReportsUnknown,
      Judging, At, Aside, forgeVars
<1> QED BY <1>5, <1>6, <1>7, <1>8, <1>9, <1>10, <1>11 DEF MonitorInv

\* A verdict without issues.
LEMMA ReportsKeeps ==
        ASSUME MonitorInv, Reports
    PROVE  MonitorInv'
<1>1. ci' = [pc |-> "wait", fixing |-> ci.fixing, tried |-> ci.tried, last |-> ci'.last,
               attempts |-> ci.attempts,
               spent |-> ci.spent, roll |-> ci'.roll, merge |-> "clean",
               issued |-> FALSE, view |-> NoView, green |-> ci'.green]
    BY Zenon DEF MonitorInv, MonitorShapes, Reports, Says, Judged, Done, NoView, NoJob
<1>2. row' = [attempts |-> row.attempts, spent |-> row.spent, roll |-> row.roll, ready |-> row'.ready]
    BY Zenon DEF MonitorInv, MonitorShapes, Reports, Says, Judged, Done, NoView, NoJob
<1>3. ci'.pc = "wait" /\ ci'.fixing = ci.fixing /\ ci'.tried = ci.tried /\ ci'.attempts =
      ci.attempts /\ ci'.spent = ci.spent /\ ci'.merge = "clean" /\ ci'.issued = FALSE /\
      ci'.view = NoView /\ row'.attempts = row.attempts /\ row'.spent = row.spent /\ row'.roll
      = row.roll
  BY <1>1, <1>2
<1>4. ci'.roll \in [Checks -> Reruns]
      /\ \A c \in Checks : ci'.roll[c].at = ci.roll[c].at /\ ci'.roll[c].head = ci.roll[c].head
  <2>1. ci'.roll = IF ci.issued THEN ci.roll ELSE GraceSpent
    BY Zenon DEF MonitorInv, MonitorShapes, Reports, Says, Judged, Done, NoView, NoJob
  <2>2. ci.roll \in [Checks -> Reruns]
    BY DEF MonitorInv, MonitorTyped
  <2> QED BY <2>1, <2>2, GraceIsSpent
<1>5. \/ /\ ci'.last = "running" /\ ci'.green = FALSE
         /\ row'.ready = IF ci.last = "running" THEN row.ready ELSE FALSE
      \/ /\ Pending = {} /\ With(ci.view, "cancel") = {}
         /\ ci'.last = "passed" /\ ci'.green = TRUE
         /\ row'.ready = IF ci.last = "passed" THEN row.ready ELSE TRUE
  BY Zenon DEF MonitorInv, MonitorShapes, MonitorTyped, Reports, Says, Judged, Done, NoView,
     NoJob, Blank
<1>6. MonitorShapes'
  BY <1>1, <1>2, Zenon DEF MonitorShapes
<1>7. MonitorTyped'
    <2>1. (jobs \in [Checks -> Nat] /\ shown \in [Checks -> Attempts] /\ event \in Nat /\
        omits \in Nat /\ head \in 1..MaxHeads /\ asked \in [Checks -> Nat] /\ owed \in [Checks
        -> Nat] /\ autos \in Nat)'
        BY DEF MonitorInv, MonitorTyped, Reports, Judging, At, Aside, forgeVars
    <2>2. (row.attempts \in Nat /\ row.spent \in [Checks -> Nat] /\ row.roll \in [Checks ->
        Reruns])'
        BY <1>3, <1>4, <1>5, BlanksTyped, MonitorAssumption DEF MonitorInv, MonitorTyped,
        Reports, Judging, At, Aside, forgeVars
    <2>3. (ci.pc \in {"wait", "asking", "judge", "asked", "auto", "parked", "over"} /\ ci.last
        \in {"none", "running", "passed"} /\ ci.attempts \in Nat /\ ci.spent \in [Checks ->
        Nat] /\ ci.roll \in [Checks -> Reruns] /\ ci.view \in [Checks -> Attempts])'
        BY <1>3, <1>4, <1>5, BlanksTyped, MonitorAssumption, Zenon DEF MonitorInv,
        MonitorTyped, Reports, Judging, At, Aside, forgeVars
    <2>4. (row.ready \in BOOLEAN /\ ci.green \in BOOLEAN)'
        BY <1>3, <1>4, <1>5, BlanksTyped, MonitorAssumption, Zenon DEF MonitorInv,
        MonitorTyped, Reports, Judging, At, Aside, forgeVars
    <2> QED BY <2>1, <2>2, <2>3, <2>4 DEF MonitorTyped
<1>8. Counted'
    BY <1>3, <1>4, <1>5, BlanksTyped, MonitorAssumption DEF MonitorInv, Counted, Live,
      Reports, Judging, At, Aside, forgeVars
<1>9. Started'
    BY <1>3, <1>4, <1>5, BlanksTyped DEF MonitorInv, Started, OfHead, MonitorTyped, Reports,
      Judging, At, Aside, forgeVars
<1>10. Said'
    BY <1>3, <1>4, <1>5, BlanksTyped, Zenon DEF MonitorInv, Said, Live, Reports, Judging, At,
      Aside, forgeVars
<1>11. Polled'
    BY <1>3, <1>4, <1>5, BlanksTyped DEF MonitorInv, Polled, Reports, Judging, At, Aside,
      forgeVars
<1>12. Promised'
    BY <1>3, <1>4, <1>5, BlanksTyped DEF MonitorInv, Promised, Recorded, Live, Reports,
      Judging, At, Aside, forgeVars
<1> QED BY <1>6, <1>7, <1>8, <1>9, <1>10, <1>11, <1>12 DEF MonitorInv

\* A repair that changes nothing.
LEMMA RepairsNothingKeeps ==
        ASSUME MonitorInv, RepairsNothing
    PROVE  MonitorInv'
<1>1. ci' = [pc |-> ci'.pc, fixing |-> ci.fixing, tried |-> ci.tried, last |-> ci.last,
               attempts |-> ci.attempts,
               spent |-> ci.spent, roll |-> ci.roll, merge |-> ci.merge,
               issued |-> ci.issued, view |-> ci.view, green |-> ci.green]
    BY Zenon DEF MonitorInv, MonitorShapes, RepairsNothing
<1>2. row' = [attempts |-> row.attempts, spent |-> row.spent, roll |-> row.roll, ready |-> row.ready]
    BY Zenon DEF MonitorInv, MonitorShapes, RepairsNothing
<1>3. ci'.fixing = ci.fixing /\ ci'.tried = ci.tried /\ ci'.last = ci.last /\ ci'.attempts =
      ci.attempts /\ ci'.spent = ci.spent /\ ci'.roll = ci.roll /\ ci'.merge = ci.merge /\
      ci'.issued = ci.issued /\ ci'.view = ci.view /\ ci'.green = ci.green /\ row'.attempts =
      row.attempts /\ row'.spent = row.spent /\ row'.roll = row.roll /\ row'.ready = row.ready
  BY <1>1, <1>2
<1>4. ci'.pc \in {"parked", "wait"}
  BY Zenon DEF MonitorInv, MonitorShapes, RepairsNothing
<1>5. MonitorShapes'
  BY <1>1, <1>2, Zenon DEF MonitorShapes
<1>6. MonitorTyped'
    <2>1. (jobs \in [Checks -> Nat] /\ shown \in [Checks -> Attempts] /\ event \in Nat /\
        omits \in Nat /\ head \in 1..MaxHeads /\ asked \in [Checks -> Nat] /\ owed \in [Checks
        -> Nat] /\ autos \in Nat /\ row.attempts \in Nat /\ row.spent \in [Checks -> Nat] /\
        row.roll \in [Checks -> Reruns] /\ row.ready \in BOOLEAN)'
        BY DEF MonitorInv, MonitorTyped, RepairsNothing, At, Aside, forgeVars
    <2>2. (ci.pc \in {"wait", "asking", "judge", "asked", "auto", "parked", "over"} /\ ci.last
        \in {"none", "running", "passed"} /\ ci.attempts \in Nat /\ ci.spent \in [Checks ->
        Nat] /\ ci.roll \in [Checks -> Reruns] /\ ci.view \in [Checks -> Attempts])'
        BY <1>3, <1>4, MonitorAssumption DEF MonitorInv, MonitorTyped, RepairsNothing, At,
        Aside, forgeVars
    <2>3. (ci.green \in BOOLEAN)'
        BY <1>3, <1>4, MonitorAssumption DEF MonitorInv, MonitorTyped, RepairsNothing, At,
        Aside, forgeVars
    <2> QED BY <2>1, <2>2, <2>3 DEF MonitorTyped
<1>7. Counted'
    BY <1>3, <1>4, MonitorAssumption DEF MonitorInv, Counted, Live, RepairsNothing, At, Aside,
      forgeVars
<1>8. Started'
    BY <1>3, <1>4 DEF MonitorInv, Started, OfHead, RepairsNothing, At, Aside, forgeVars
<1>9. Said'
    BY <1>3, <1>4, Zenon DEF MonitorInv, Said, Live, RepairsNothing, At, Aside, forgeVars
<1>10. Polled'
    BY <1>3, <1>4 DEF MonitorInv, Polled, RepairsNothing, At, Aside, forgeVars
<1>11. Promised'
    BY <1>3, <1>4 DEF MonitorInv, Promised, Recorded, Live, RepairsNothing, At, Aside,
      forgeVars
<1> QED BY <1>5, <1>6, <1>7, <1>8, <1>9, <1>10, <1>11 DEF MonitorInv

\* A repaired head starts over.
LEMMA RepairsHeadKeeps ==
        ASSUME MonitorInv, RepairsHead
    PROVE  MonitorInv'
<1>1. ci' = [pc |-> "wait", fixing |-> FALSE, tried |-> FALSE, last |-> "none",
               attempts |-> ci.attempts,
               spent |-> row.spent, roll |-> row.roll, merge |-> "clean",
               issued |-> FALSE, view |-> NoView, green |-> FALSE]
    BY Zenon DEF MonitorInv, MonitorShapes, RepairsHead, NoView, NoJob, NewStep, None, NoRoll,
      Pushed
<1>2. row' = [attempts |-> row.attempts, spent |-> row.spent, roll |-> row.roll, ready |-> row.ready]
    BY Zenon DEF MonitorInv, MonitorShapes, RepairsHead, NoView, NoJob, NewStep, None, NoRoll,
      Pushed
<1>3. ci'.pc = "wait" /\ ci'.fixing = FALSE /\ ci'.tried = FALSE /\ ci'.last = "none" /\
      ci'.attempts = ci.attempts /\ ci'.spent = row.spent /\ ci'.roll = row.roll /\ ci'.merge
      = "clean" /\ ci'.issued = FALSE /\ ci'.view = NoView /\ ci'.green = FALSE /\
      row'.attempts = row.attempts /\ row'.spent = row.spent /\ row'.roll = row.roll /\
      row'.ready = row.ready
  BY <1>1, <1>2
<1>4. MonitorShapes'
  BY <1>1, <1>2, Zenon DEF MonitorShapes
<1>5. MonitorTyped'
    <2>1. (omits \in Nat /\ asked \in [Checks -> Nat] /\ autos \in Nat /\ row.attempts \in Nat
        /\ row.spent \in [Checks -> Nat] /\ row.ready \in BOOLEAN)'
        BY DEF MonitorInv, MonitorTyped, RepairsHead, Pushed
    <2>2. (jobs \in [Checks -> Nat] /\ shown \in [Checks -> Attempts] /\ event \in Nat /\ head
        \in 1..MaxHeads /\ owed \in [Checks -> Nat] /\ row.roll \in [Checks -> Reruns])'
        BY <1>3, BlanksTyped, MonitorAssumption DEF MonitorInv, MonitorTyped, RepairsHead,
        Pushed
    <2>3. (ci.pc \in {"wait", "asking", "judge", "asked", "auto", "parked", "over"} /\ ci.last
        \in {"none", "running", "passed"} /\ ci.attempts \in Nat /\ ci.spent \in [Checks ->
        Nat] /\ ci.roll \in [Checks -> Reruns] /\ ci.view \in [Checks -> Attempts])'
        BY <1>3, BlanksTyped, MonitorAssumption DEF MonitorInv, MonitorTyped, RepairsHead,
        Pushed
    <2>4. (ci.green \in BOOLEAN)'
        BY <1>3, BlanksTyped, MonitorAssumption, Zenon DEF MonitorInv, MonitorTyped,
        RepairsHead, Pushed
    <2> QED BY <2>1, <2>2, <2>3, <2>4 DEF MonitorTyped
<1>6. Counted'
    BY <1>3, BlanksTyped, MonitorAssumption DEF MonitorInv, Counted, Live, RepairsHead, Pushed
<1>7. Started'
  <2>1. \A c \in Checks : jobs'[c] = 1 /\ owed'[c] = 0 /\ shown'[c] = NoJob /\ ci'.view[c] = NoJob
    BY <1>3 DEF RepairsHead, Pushed, None, NoView
  <2>2. NoJob.n = 0 /\ NoJob.res = "none"
    BY DEF NoJob
  <2>3. head' = head + 1 /\ ci'.roll = row.roll /\ row'.roll = row.roll
    BY <1>3 DEF RepairsHead
  <2>4. \A c \in Checks : row.roll[c].head <= head /\ row.roll[c].head \in Nat /\ head \in Nat
    BY MonitorAssumption DEF MonitorInv, MonitorTyped, Started, OfHead, Reruns
  <2> QED BY <2>1, <2>2, <2>3, <2>4 DEF Started, OfHead
<1>8. Said'
    BY <1>3, BlanksTyped, Zenon DEF MonitorInv, Said, Live, RepairsHead, Pushed
<1>9. Polled'
    BY <1>3, BlanksTyped DEF MonitorInv, Polled, RepairsHead, Pushed
<1>10. Promised'
    BY <1>3, BlanksTyped DEF MonitorInv, Promised, Recorded, Live, RepairsHead, Pushed
<1> QED BY <1>4, <1>5, <1>6, <1>7, <1>8, <1>9, <1>10 DEF MonitorInv

\* A fix at the gate restores the budgets.
LEMMA FixAskedKeeps ==
        ASSUME MonitorInv, FixAsked
    PROVE  MonitorInv'
<1>1. ci' = [pc |-> "wait", fixing |-> TRUE, tried |-> FALSE, last |-> "none",
               attempts |-> ci'.attempts,
               spent |-> row.spent, roll |-> row.roll, merge |-> "clean",
               issued |-> FALSE, view |-> NoView, green |-> ci.green]
    BY Zenon DEF MonitorInv, MonitorShapes, FixAsked, NewStep, NoView, NoJob, None, NoRoll
<1>2. row' = [attempts |-> row.attempts, spent |-> row.spent, roll |-> row.roll, ready |-> row.ready]
    BY Zenon DEF MonitorInv, MonitorShapes, FixAsked, NewStep, NoView, NoJob, None, NoRoll
<1>3. ci'.pc = "wait" /\ ci'.fixing = TRUE /\ ci'.tried = FALSE /\ ci'.last = "none" /\
      ci'.spent = row.spent /\ ci'.roll = row.roll /\ ci'.merge = "clean" /\ ci'.issued =
      FALSE /\ ci'.view = NoView /\ ci'.green = ci.green /\ row'.attempts = row.attempts /\
      row'.spent = row.spent /\ row'.roll = row.roll /\ row'.ready = row.ready
  BY <1>1, <1>2
<1>4. ci'.attempts = IF row.attempts > ci.attempts THEN row.attempts ELSE ci.attempts
  BY Zenon DEF MonitorInv, MonitorShapes, FixAsked, NewStep, NoView, NoJob, None, NoRoll
<1>5. MonitorShapes'
  BY <1>1, <1>2, Zenon DEF MonitorShapes
<1>6. MonitorTyped'
    <2>1. (jobs \in [Checks -> Nat] /\ shown \in [Checks -> Attempts] /\ event \in Nat /\
        omits \in Nat /\ head \in 1..MaxHeads /\ asked \in [Checks -> Nat] /\ owed \in [Checks
        -> Nat] /\ autos \in Nat /\ row.attempts \in Nat /\ row.spent \in [Checks -> Nat] /\
        row.roll \in [Checks -> Reruns] /\ row.ready \in BOOLEAN)'
        BY DEF MonitorInv, MonitorTyped, FixAsked, At, Aside, forgeVars
    <2>2. (ci.pc \in {"wait", "asking", "judge", "asked", "auto", "parked", "over"} /\ ci.last
        \in {"none", "running", "passed"} /\ ci.attempts \in Nat /\ ci.spent \in [Checks ->
        Nat] /\ ci.roll \in [Checks -> Reruns] /\ ci.view \in [Checks -> Attempts])'
        BY <1>3, <1>4, BlanksTyped, MonitorAssumption DEF MonitorInv, MonitorTyped, FixAsked,
        At, Aside, forgeVars
    <2>3. (ci.green \in BOOLEAN)'
        BY <1>3, <1>4, BlanksTyped, MonitorAssumption DEF MonitorInv, MonitorTyped, FixAsked,
        At, Aside, forgeVars
    <2> QED BY <2>1, <2>2, <2>3 DEF MonitorTyped
<1>7. Counted'
    BY <1>3, <1>4, BlanksTyped, MonitorAssumption DEF MonitorInv, Counted, Live, MonitorTyped,
      Said, FixAsked, At, Aside, forgeVars
<1>8. Started'
    BY <1>3, <1>4, BlanksTyped DEF MonitorInv, Started, OfHead, MonitorTyped, FixAsked, At,
      Aside, forgeVars
<1>9. Said'
    BY <1>3, <1>4, BlanksTyped DEF MonitorInv, Said, Live, FixAsked, At, Aside, forgeVars
<1>10. Polled'
    BY <1>3, <1>4, BlanksTyped DEF MonitorInv, Polled, FixAsked, At, Aside, forgeVars
<1>11. Promised'
    BY <1>3, <1>4, BlanksTyped DEF MonitorInv, Promised, Recorded, Live, FixAsked, At, Aside,
      forgeVars
<1> QED BY <1>5, <1>6, <1>7, <1>8, <1>9, <1>10, <1>11 DEF MonitorInv

\* A cleared gate ends the step.
LEMMA GateClearsKeeps ==
        ASSUME MonitorInv, GateClears
    PROVE  MonitorInv'
<1>1. ci' = [pc |-> "over", fixing |-> FALSE, tried |-> FALSE, last |-> "none",
               attempts |-> 0,
               spent |-> None, roll |-> [c \in Checks |-> NoRoll], merge |-> "clean",
               issued |-> FALSE, view |-> NoView, green |-> FALSE]
    BY Zenon DEF MonitorInv, MonitorShapes, GateClears, NewStep, NoView, NoJob, None, NoRoll
<1>2. row' = [attempts |-> row.attempts, spent |-> row.spent, roll |-> row.roll, ready |-> row.ready]
    BY Zenon DEF MonitorInv, MonitorShapes, GateClears, NewStep, NoView, NoJob, None, NoRoll
<1>3. ci'.pc = "over" /\ ci'.fixing = FALSE /\ ci'.tried = FALSE /\ ci'.last = "none" /\
      ci'.attempts = 0 /\ ci'.spent = None /\ ci'.roll = [c \in Checks |-> NoRoll] /\
      ci'.merge = "clean" /\ ci'.issued = FALSE /\ ci'.view = NoView /\ ci'.green = FALSE /\
      row'.attempts = row.attempts /\ row'.spent = row.spent /\ row'.roll = row.roll /\
      row'.ready = row.ready
  BY <1>1, <1>2
<1>4. MonitorShapes'
  BY <1>1, <1>2, Zenon DEF MonitorShapes
<1>5. MonitorTyped'
    <2>1. (jobs \in [Checks -> Nat] /\ shown \in [Checks -> Attempts] /\ event \in Nat /\
        omits \in Nat /\ head \in 1..MaxHeads /\ asked \in [Checks -> Nat] /\ owed \in [Checks
        -> Nat] /\ autos \in Nat /\ row.attempts \in Nat /\ row.spent \in [Checks -> Nat] /\
        row.roll \in [Checks -> Reruns] /\ row.ready \in BOOLEAN)'
        BY DEF MonitorInv, MonitorTyped, GateClears, At, Aside, forgeVars
    <2>2. (ci.pc \in {"wait", "asking", "judge", "asked", "auto", "parked", "over"} /\ ci.last
        \in {"none", "running", "passed"} /\ ci.attempts \in Nat /\ ci.spent \in [Checks ->
        Nat] /\ ci.roll \in [Checks -> Reruns] /\ ci.view \in [Checks -> Attempts])'
        BY <1>3, BlanksTyped, MonitorAssumption DEF MonitorInv, MonitorTyped, GateClears, At,
        Aside, forgeVars
    <2>3. (ci.green \in BOOLEAN)'
        BY <1>3, BlanksTyped, MonitorAssumption, Zenon DEF MonitorInv, MonitorTyped,
        GateClears, At, Aside, forgeVars
    <2> QED BY <2>1, <2>2, <2>3 DEF MonitorTyped
<1>6. Counted'
    BY <1>3, BlanksTyped, MonitorAssumption DEF MonitorInv, Counted, Live, MonitorTyped,
      GateClears, At, Aside, forgeVars
<1>7. Started'
    BY <1>3, BlanksTyped DEF MonitorInv, Started, OfHead, MonitorTyped, GateClears, At, Aside,
      forgeVars
<1>8. Said'
    BY <1>3, BlanksTyped DEF MonitorInv, Said, Live, GateClears, At, Aside, forgeVars
<1>9. Polled'
    BY <1>3, BlanksTyped DEF MonitorInv, Polled, GateClears, At, Aside, forgeVars
<1>10. Promised'
    BY <1>3, BlanksTyped DEF MonitorInv, Promised, Recorded, Live, GateClears, At, Aside,
      forgeVars
<1> QED BY <1>4, <1>5, <1>6, <1>7, <1>8, <1>9, <1>10 DEF MonitorInv

\* A daemon that dies keeps a parked run.
LEMMA DiesKeeps ==
        ASSUME MonitorInv, Dies
    PROVE  MonitorInv'
<1>1. ci' = [pc |-> ci'.pc, fixing |-> FALSE, tried |-> FALSE, last |-> "none",
               attempts |-> 0,
               spent |-> None, roll |-> [c \in Checks |-> NoRoll], merge |-> "clean",
               issued |-> FALSE, view |-> NoView, green |-> ci'.green]
    BY Zenon DEF MonitorInv, MonitorShapes, Dies, NewStep, NoView, NoJob, None, NoRoll
<1>2. row' = [attempts |-> row.attempts, spent |-> row.spent, roll |-> row.roll, ready |-> row.ready]
    BY Zenon DEF MonitorInv, MonitorShapes, Dies, NewStep, NoView, NoJob, None, NoRoll
<1>3. ci'.fixing = FALSE /\ ci'.tried = FALSE /\ ci'.last = "none" /\ ci'.attempts = 0 /\
      ci'.spent = None /\ ci'.roll = [c \in Checks |-> NoRoll] /\ ci'.merge = "clean" /\
      ci'.issued = FALSE /\ ci'.view = NoView /\ row'.attempts = row.attempts /\ row'.spent =
      row.spent /\ row'.roll = row.roll /\ row'.ready = row.ready
  BY <1>1, <1>2
<1>4. IF ci.pc = "parked" THEN ci'.pc = "parked" /\ ci'.green = ci.green ELSE ci'.pc = "over" /\ ci'.green = FALSE
  BY Zenon DEF MonitorInv, MonitorShapes, Dies, NewStep, NoView, NoJob, None, NoRoll, At
<1>5. MonitorShapes'
  BY <1>1, <1>2, Zenon DEF MonitorShapes
<1>6. MonitorTyped'
    <2>1. (jobs \in [Checks -> Nat] /\ shown \in [Checks -> Attempts] /\ event \in Nat /\
        omits \in Nat /\ head \in 1..MaxHeads /\ asked \in [Checks -> Nat] /\ owed \in [Checks
        -> Nat] /\ autos \in Nat /\ row.attempts \in Nat /\ row.spent \in [Checks -> Nat] /\
        row.roll \in [Checks -> Reruns] /\ row.ready \in BOOLEAN)'
        BY DEF MonitorInv, MonitorTyped, Dies, At, Aside, forgeVars
    <2>2. (ci.pc \in {"wait", "asking", "judge", "asked", "auto", "parked", "over"} /\ ci.last
        \in {"none", "running", "passed"} /\ ci.attempts \in Nat /\ ci.spent \in [Checks ->
        Nat] /\ ci.roll \in [Checks -> Reruns] /\ ci.view \in [Checks -> Attempts])'
        BY <1>3, <1>4, BlanksTyped, MonitorAssumption DEF MonitorInv, MonitorTyped, Dies, At,
        Aside, forgeVars
    <2>3. (ci.green \in BOOLEAN)'
        BY <1>3, <1>4, BlanksTyped, MonitorAssumption, Zenon DEF MonitorInv, MonitorTyped,
        Dies, At, Aside, forgeVars
    <2> QED BY <2>1, <2>2, <2>3 DEF MonitorTyped
<1>7. Counted'
    BY <1>3, <1>4, BlanksTyped, MonitorAssumption DEF MonitorInv, Counted, Live, MonitorTyped,
      Dies, At, Aside, forgeVars
<1>8. Started'
    BY <1>3, <1>4, BlanksTyped DEF MonitorInv, Started, OfHead, MonitorTyped, Dies, At, Aside,
      forgeVars
<1>9. Said'
    BY <1>3, <1>4, BlanksTyped DEF MonitorInv, Said, Live, Dies, At, Aside, forgeVars
<1>10. Polled'
    BY <1>3, <1>4, BlanksTyped DEF MonitorInv, Polled, Dies, At, Aside, forgeVars
<1>11. Promised'
    BY <1>3, <1>4, BlanksTyped DEF MonitorInv, Promised, Recorded, Live, Dies, At, Aside,
      forgeVars
<1> QED BY <1>5, <1>6, <1>7, <1>8, <1>9, <1>10, <1>11 DEF MonitorInv

LEMMA InitMonitor == CIInit => MonitorInv
<1> SUFFICES ASSUME CIInit PROVE MonitorInv
  OBVIOUS
<1>1. MonitorShapes
  BY Zenon DEF CIInit, MonitorShapes, NewStep
<1>2. /\ ci.pc = "wait" /\ ci.last = "none" /\ ci.green = FALSE /\ ci.attempts = 0
      /\ ci.spent = None /\ ci.roll = [c \in Checks |-> NoRoll] /\ ci.view = NoView
      /\ row.attempts = 0 /\ row.spent = None /\ row.roll = [c \in Checks |-> NoRoll] /\ row.ready = FALSE
  BY Zenon DEF CIInit, NewStep
<1>3. /\ jobs = Pushed /\ shown = NoView /\ event = 0 /\ omits = 0 /\ head = 1
      /\ asked = None /\ owed = None /\ autos = 0
  BY DEF CIInit
<1>4. MonitorTyped
  <2>1. row.ready \in BOOLEAN /\ ci.green \in BOOLEAN
    BY <1>2
  <2>2. jobs \in [Checks -> Nat]
    BY <1>3 DEF Pushed
  <2> QED BY <1>2, <1>3, <2>1, <2>2, BlanksTyped, MonitorAssumption DEF MonitorTyped
<1>5. Counted
  BY <1>2, <1>3, BlanksTyped, MonitorAssumption DEF Counted, Live
<1>6. Started
  <2>1. NoJob.n = 0 /\ NoJob.res = "none"
    BY DEF NoJob
  <2> QED BY <1>2, <1>3, <2>1, BlanksTyped DEF Started, OfHead, Pushed, NoView
<1>7. Said /\ Polled
  BY <1>2, <1>3 DEF Said, Polled, Live
<1>8. Promised
  BY <1>3, BlanksTyped DEF Promised
<1> QED BY <1>1, <1>4, <1>5, <1>6, <1>7, <1>8 DEF MonitorInv

LEMMA MonitorNextKeeps ==
    ASSUME MonitorInv, [CINext]_ciVars
    PROVE  MonitorInv'
<1>1. CASE \E c \in Checks : RollupOmits(c)
  BY <1>1, RollupOmitsKeeps
<1>2. CASE \E c \in Checks : \E n \in 1..jobs[c], res \in {"pending", "pass", "fail", "cancel"} : RollupShows(c, n, res)
  <2>1. PICK c \in Checks : \E n \in 1..jobs[c], res \in {"pending", "pass", "fail", "cancel"} : RollupShows(c, n, res)
    BY <1>2, Zenon
  <2> QED BY <2>1, RollupShowsKeeps
<1>3. CASE \E merge \in {"clean", "conflict", "unresolved"} : Poll(merge)
  BY <1>3, PollKeeps
<1>4. CASE \E accepted \in SUBSET Checks : RerunsStarted(accepted)
  BY <1>4, RerunsStartedKeeps
<1>5. CASE Publishes \/ TimesOut \/ PRIsOver \/ ChecksUnreadable \/ BranchUnreadable \/ BranchMoved \/ RerunsRefused
  BY <1>5, PublishesKeeps, TimesOutKeeps, PRIsOverKeeps, ChecksUnreadableKeeps,
     BranchUnreadableKeeps,
     BranchMovedKeeps, RerunsRefusedKeeps
<1>6. CASE WaitsForReruns \/ WaitsForRollup \/ WaitsForPending \/ Escalates \/ RepairsAsAsked \/ Repairs
           \/ ReportsUnknown \/ Reports
  BY <1>6, WaitsForRerunsKeeps, WaitsForRollupKeeps, WaitsForPendingKeeps, EscalatesKeeps,
     RepairsAsAskedKeeps, RepairsKeeps, ReportsUnknownKeeps, ReportsKeeps
<1>7. CASE RepairsNothing \/ RepairsHead \/ FixAsked \/ GateClears \/ Dies
  BY <1>7, RepairsNothingKeeps, RepairsHeadKeeps, FixAskedKeeps, GateClearsKeeps, DiesKeeps
<1>8. CASE UNCHANGED ciVars
  <2>1. /\ UNCHANGED <<jobs, shown, event, omits, head, row, ci, asked, owed, autos>>
    BY <1>8 DEF ciVars, forgeVars
  <2>2. MonitorShapes' /\ MonitorTyped'
    BY <2>1 DEF MonitorInv, MonitorShapes, MonitorTyped
  <2>3. Counted' /\ Started' /\ Said' /\ Polled' /\ Promised'
    BY <2>1 DEF MonitorInv, Counted, Started, Said, Polled, Promised, Live, OfHead, Recorded,
       Filtered
  <2> QED BY <2>2, <2>3 DEF MonitorInv
<1> QED BY <1>1, <1>2, <1>3, <1>4, <1>5, <1>6, <1>7, <1>8, Zenon DEF CINext

-----------------------------------------------------------------------------
(* The CI step: the theorems *)

\* What the monitor counts, records, polls and says stays related in every
\* reachable state.
THEOREM MonitorInvHolds == CISpec => []MonitorInv
<1>1. MonitorInv /\ [CINext]_ciVars => MonitorInv'
  BY MonitorNextKeeps
<1> QED BY InitMonitor, <1>1, PTL DEF CISpec

\* For every limit: no check is rerun and no repair is made more often than
\* configured, through refusals, gates, repaired heads and deaths, and between
\* polls the run is ready exactly when the last poll found its head green.
THEOREM MonitorIsSafe == CISpec => []CISafe
<1>1. MonitorInv => CISafe
  <2> SUFFICES ASSUME MonitorInv PROVE CISafe
    OBVIOUS
  <2>1. CITypeOK
    <3>1. ASSUME NEW c \in Checks
          PROVE  /\ ci.roll[c].grace \in 0..Grace /\ row.roll[c].grace \in 0..Grace
                 /\ {owed[c], shown[c].n} \subseteq 0..jobs[c]
                 /\ ci.roll[c].at <= jobs[c] \/ ci.roll[c].head < head
      <4>1. ci.roll[c] \in Reruns /\ row.roll[c] \in Reruns /\ OfHead(ci.roll[c], c)
        BY DEF MonitorInv, MonitorTyped, Started
      <4>2. head \in Nat /\ jobs[c] \in Nat /\ owed[c] \in Nat /\ shown[c].n \in Nat
        BY MonitorAssumption DEF MonitorInv, MonitorTyped, Attempts
      <4>3. owed[c] \in 0..jobs[c] /\ shown[c].n \in 0..jobs[c]
        BY <4>2 DEF MonitorInv, Started
      <4>4. ci.roll[c].at <= jobs[c] \/ ci.roll[c].head < head
        BY <4>1, <4>2 DEF Reruns, OfHead
      <4> QED BY <4>1, <4>3, <4>4 DEF Reruns
    <3>2. /\ ci.pc \in {"wait", "asking", "judge", "asked", "auto", "parked", "over"}
          /\ ci.last \in {"none", "running", "passed"}
          /\ row.ready \in BOOLEAN /\ head \in 1..MaxHeads
      BY DEF MonitorInv, MonitorTyped
    <3> QED BY <3>1, <3>2 DEF CITypeOK
  <2>2. RerunsWithinLimit /\ RepairsWithinLimit
    BY DEF MonitorInv, Counted, RerunsWithinLimit, RepairsWithinLimit
  <2>3. ReadyIsCurrent
    BY DEF MonitorInv, Said, ReadyIsCurrent, At
  <2> QED BY <2>1, <2>2, <2>3 DEF CISafe
<1> QED BY MonitorInvHolds, <1>1, PTL

\* Only a verdict turns a head green, and nothing is outstanding then.
LEMMA OnlyAVerdictIsGreen ==
    ASSUME MonitorInv, Reports, ci'.green = TRUE, ci.green = FALSE
    PROVE  /\ event # 0 /\ ci.view[Attestation].n >= event
           /\ \A c \in Checks : owed[c] <= ci.view[c].n
<1>1. Pending = {} /\ With(ci.view, "cancel") = {}
  <2>1. CASE Pending # {} \/ With(ci.view, "cancel") # {}
    <3>1. ci' = [Judged("wait", "running") EXCEPT !.green = FALSE]
      BY <2>1 DEF Reports, Says
    <3>2. ci'.green = FALSE
      BY <3>1, Zenon DEF Judged, Done, MonitorInv, MonitorShapes
    <3> QED BY <3>2
  <2> QED BY <2>1
<1>2. Outstanding = {}
  BY DEF Reports, HasIssues, Unresolved, Awaiting
<1>3. \A c \in Checks : ci.view[c] = Filtered(c)
  BY DEF MonitorInv, Polled, Reports, Judging, At
<1>4. [n |-> 0, res |-> "pending"].res = "pending"
  OBVIOUS
<1>5. \A c \in Checks : ci.view[c] = shown[c] /\ ci.view[c].res # "cancel"
  BY <1>1, <1>3, <1>4 DEF Pending, With, Filtered
<1>6. event # 0 /\ ci.view[Attestation].n >= event
  <2>1. Attestation \in Checks
    BY DEF Checks
  <2>2. ~(event = 0 \/ shown[Attestation].n < event \/ shown[Attestation].res = "none")
    BY <1>1, <1>3, <1>4, <2>1 DEF Pending, With, Filtered
  <2>3. shown[Attestation].n \in Nat /\ event \in Nat
    BY <2>1 DEF MonitorInv, MonitorTyped, Attempts
  <2> QED BY <1>5, <2>1, <2>2, <2>3
<1>7. ASSUME NEW c \in Checks, ~(owed[c] <= ci.view[c].n)
      PROVE  FALSE
  <2>1. Recorded(ci.roll[c], c)
    BY <1>5, <1>7 DEF MonitorInv, Promised, Live, Reports, Judging, At
  <2>2. ci.view[c].res = "none" /\ ci.roll[c].at # 0
    BY <1>5, <2>1 DEF Recorded
  <2>3. c \in Outstanding
    BY <2>2 DEF Outstanding, Tracked
  <2> QED BY <1>2, <2>3
<1> QED BY <1>6, <1>7

\* Every other step leaves what the last poll found or withdraws it.
LEMMA OthersStayDark ==
    ASSUME MonitorInv, CINext, ~Reports, ci.green = FALSE
    PROVE  ci'.green = FALSE
<1>1. CASE \E c \in Checks : RollupOmits(c)
  BY <1>1 DEF RollupOmits, Provider
<1>2. CASE \E c \in Checks : \E n \in 1..jobs[c], res \in {"pending", "pass", "fail", "cancel"} : RollupShows(c, n, res)
  BY <1>2 DEF RollupShows, Provider
<1>3. CASE \E merge \in {"clean", "conflict", "unresolved"} : Poll(merge)
  BY <1>3, Zenon DEF Poll, MonitorInv, MonitorShapes
<1>4. CASE \E accepted \in SUBSET Checks : RerunsStarted(accepted)
  <2>1. PICK accepted \in SUBSET Checks : RerunsStarted(accepted)
    BY <1>4
  <2> QED BY <2>1, Zenon DEF RerunsStarted, Reservation, MonitorInv, MonitorShapes
<1>5. CASE Publishes \/ TimesOut \/ PRIsOver \/ ChecksUnreadable
  BY <1>5, Zenon DEF Publishes, Provider, TimesOut, PRIsOver, ChecksUnreadable, NewStep,
     MonitorInv, MonitorShapes
<1>6. CASE BranchUnreadable \/ BranchMoved \/ RerunsRefused
  BY <1>6, Zenon DEF BranchUnreadable, BranchMoved, Done, RerunsRefused, Reserves, Reservation,
     MonitorInv,
     MonitorShapes
<1>7. CASE WaitsForReruns
  BY <1>7, Zenon DEF WaitsForReruns, Says, Judged, Done, MonitorInv, MonitorShapes
<1>8. CASE WaitsForRollup \/ WaitsForPending \/ Escalates
  BY <1>8, Zenon DEF WaitsForRollup, WaitsForPending, Escalates, Judged, Done, MonitorInv,
     MonitorShapes
<1>9. CASE RepairsAsAsked \/ Repairs \/ ReportsUnknown
  BY <1>9, Zenon DEF RepairsAsAsked, Repairs, ReportsUnknown, Judged, Done, MonitorInv,
     MonitorShapes
<1>10. CASE RepairsNothing \/ RepairsHead
  BY <1>10, Zenon DEF RepairsNothing, RepairsHead, NewStep, MonitorInv, MonitorShapes
<1>11. CASE FixAsked \/ GateClears \/ Dies
  BY <1>11, Zenon DEF FixAsked, GateClears, Dies, NewStep, MonitorInv, MonitorShapes
<1> QED BY <1>1, <1>2, <1>3, <1>4, <1>5, <1>6, <1>7, <1>8, <1>9, <1>10, <1>11, Zenon DEF CINext

\* For every limit: a poll finds a head green only on an attestation published
\* for it, and with every promised rerun answered by a later attempt.
THEOREM GreenIsAlwaysEarned == CISpec => GreenIsEarned
<1>1. ASSUME MonitorInv, [CINext]_ciVars, ci'.green, ~ci.green
      PROVE  /\ event # 0 /\ ci.view[Attestation].n >= event
             /\ \A c \in Checks : owed[c] <= ci.view[c].n
  <2>1. ci.green = FALSE
    BY <1>1 DEF MonitorInv, MonitorTyped
  <2>2. CINext
    BY <1>1 DEF ciVars
  <2>3. ci'.green = TRUE
    <3>1. MonitorInv'
      BY <1>1, MonitorNextKeeps
    <3> QED BY <1>1, <3>1, Zenon DEF MonitorInv, MonitorTyped
  <2>4. Reports
    BY <1>1, <2>1, <2>2, <2>3, OthersStayDark
  <2> QED BY <1>1, <2>1, <2>3, <2>4, OnlyAVerdictIsGreen
<1>2. MonitorInv /\ [CINext]_ciVars
      => [ci'.green /\ ~ci.green =>
            /\ event # 0 /\ ci.view[Attestation].n >= event
            /\ \A c \in Checks : owed[c] <= ci.view[c].n]_ciVars
  BY <1>1
<1> QED BY MonitorInvHolds, <1>2, PTL DEF CISpec, GreenIsEarned

-----------------------------------------------------------------------------
(* The rulings: the inductive invariant *)

\* What a read of the run returns.
Snaps == [step : Steps, status : Parked \cup {"running", "fixing"}, rounds : Nat, fixRounds : Nat,
          actionable : BOOLEAN, run : TerminalRun \cup {"running"}]

\* What DriveTypeOK says, without counting, and the types of the rest.
Typed ==
    /\ runStatus \in TerminalRun \cup {"running"}
    /\ step \in Steps /\ status \in Parked \cup {"running", "fixing"}
    /\ rounds \in 0..MaxRounds /\ fixRounds \in 0..rounds
    /\ noFix \in BOOLEAN /\ actionable \in BOOLEAN
    /\ exec \in {"live", "none", "down"} /\ waiting \in BOOLEAN
    /\ chan \subseteq Rulings /\ wire \subseteq Rulings
    /\ dpc \in {"idle", "next", "decide", "sent"}
    /\ yes \in BOOLEAN /\ fixedSteps \in [Steps -> Nat] /\ drives \in 0..MaxDrives
    /\ dn \in Nat /\ rkey \in Nat
    /\ snap = NoSnap \/ snap \in Snaps
    /\ dpc \in {"decide", "sent"} => snap \in Snaps
    /\ rpc \in {"idle", "sent", "unknown", "accepted"}
    /\ rpc # "idle" => ruling \in Rulings /\ ruling.by = "respond"
    /\ apc \in {"idle", "polling", "aborted", "noop", "unconfirmed"}

\* The gate is open, or closed by the one ruling in the channel, only for a parked step of a live
\* run; a run without an executor that has not ended is parked.
GateShape ==
    /\ waiting = TRUE => exec = "live" /\ status \in Parked /\ chan = {}
    /\ \A r \in chan : exec = "live" /\ status \in Parked /\ r.step = step
    /\ \A r, q \in chan : r = q
    /\ exec = "live" => runStatus = "running"
    /\ exec = "none" /\ runStatus = "running" => status \in Parked

\* What the executor is about to take has its receipt, and was never taken before.
Receipted ==
    \A r \in chan :
        /\ \E q \in receipts : SameKey(r, q.ruling) /\ q.step = step /\ q.round = rounds
        /\ \A a \in applied : ~SameKey(r, a.ruling)

\* The loop read a round that is over, or the one the step is at now.
ReadsThePast ==
    snap # NoSnap =>
        /\ snap.step <= step
        /\ snap.step = step => snap.rounds <= rounds
        /\ snap.step = step /\ snap.rounds = rounds =>
               snap.fixRounds = fixRounds /\ snap.actionable = actionable

\* What the loop answered was within its rules for the round it read.
AnswersWhatItRead ==
    \A r \in wire \cup chan : r.by = "drive" =>
        /\ r.step <= step
        /\ r.step = step => r.saw <= rounds
        /\ r.step = step /\ r.saw = rounds =>
              /\ r.action = "fix" => fixRounds < MaxYesFixRounds
              /\ r.action = "approve" => actionable = FALSE \/ noFix = TRUE

DriveInv ==
    /\ Typed /\ GateShape /\ Receipted /\ ReadsThePast /\ AnswersWhatItRead
    /\ RulingTakenOnce /\ ReceiptNamesRound /\ AbortIsFinal /\ YesKeepsBudget /\ YesPassesNoFinding
-----------------------------------------------------------------------------
(* Each action keeps the invariant.                                          *)

USE DriveAssumption DEF Steps, Parked, TerminalRun, Actions, Rulings, NoSnap, NoRuling, rows, mem,
    loopMem, drive, respond, driveVars

\* StepParks keeps the invariant.
LEMMA StepParksKeeps ==
    ASSUME DriveInv, NEW f \in BOOLEAN, StepParks(f)
    PROVE  DriveInv'
<1>1. (RulingTakenOnce /\ ReceiptNamesRound /\ AbortIsFinal /\ YesKeepsBudget /\
      YesPassesNoFinding)'
    BY DEF DriveInv, RulingTakenOnce, SameKey, ReceiptNamesRound, AbortIsFinal, YesKeepsBudget,
      Overtaken, YesPassesNoFinding, StepParks, Working
<1>2. Typed'
    BY DEF DriveInv, Typed, Snaps, StepParks, Working
<1>3. GateShape'
    BY DEF DriveInv, GateShape, StepParks, Working
<1>4. Receipted'
    BY DEF DriveInv, Receipted, SameKey, Typed, Snaps, GateShape, StepParks, Working
<1>5. ReadsThePast'
    BY DEF DriveInv, ReadsThePast, Typed, Snaps, StepParks, Working
<1>6. AnswersWhatItRead'
    BY DEF DriveInv, AnswersWhatItRead, Typed, Snaps, StepParks, Working
<1> QED BY <1>1, <1>2, <1>3, <1>4, <1>5, <1>6 DEF DriveInv

\* StepPasses keeps the invariant.
LEMMA StepPassesKeeps ==
    ASSUME DriveInv, StepPasses
    PROVE  DriveInv'
<1>1. (RulingTakenOnce /\ YesKeepsBudget /\ YesPassesNoFinding)'
    BY DEF DriveInv, RulingTakenOnce, SameKey, YesKeepsBudget, Overtaken, YesPassesNoFinding,
      StepPasses, Working, StepOver
<1>2. Typed'
  <2>1. (/\ noFix \in BOOLEAN
         /\ waiting \in BOOLEAN
         /\ dpc \in {"idle", "next", "decide", "sent"}
         /\ yes \in BOOLEAN
         /\ fixedSteps \in [Steps -> Nat]
         /\ drives \in 0..MaxDrives
         /\ dn \in Nat
         /\ rkey \in Nat
         /\ rpc \in {"idle", "sent", "unknown", "accepted"}
         /\ apc \in {"idle", "polling", "aborted", "noop", "unconfirmed"})'
    BY DEF DriveInv, Typed, StepPasses, Working, StepOver
  <2>2. (runStatus \in TerminalRun \cup {"running"})'
    BY DEF DriveInv, Typed, StepPasses, Working, StepOver
  <2>3. (step \in Steps)'
    BY DEF DriveInv, Typed, StepPasses, Working, StepOver
  <2>4. (status \in Parked \cup {"running", "fixing"})'
    BY DEF DriveInv, Typed, StepPasses, Working, StepOver
  <2>5. (rounds \in 0..MaxRounds)'
    BY DEF DriveInv, Typed, StepPasses, Working, StepOver
  <2>6. (fixRounds \in 0..rounds)'
    BY DEF DriveInv, Typed, StepPasses, Working, StepOver
  <2>7. (actionable \in BOOLEAN)'
    BY Zenon DEF DriveInv, Typed, StepPasses, Working, StepOver
  <2>8. (exec \in {"live", "none", "down"})'
    BY DEF DriveInv, Typed, StepPasses, Working, StepOver
  <2>9. (chan \subseteq Rulings)'
    BY DEF DriveInv, Typed, StepPasses, Working, StepOver
  <2>10. (wire \subseteq Rulings)'
    BY DEF DriveInv, Typed, StepPasses, Working, StepOver
  <2>11. (snap = NoSnap \/ snap \in Snaps)'
    BY DEF DriveInv, Typed, Snaps, StepPasses, Working, StepOver
  <2>12. (dpc \in {"decide", "sent"} => snap \in Snaps)'
    BY DEF DriveInv, Typed, Snaps, StepPasses, Working, StepOver
  <2>13. (rpc # "idle" => ruling \in Rulings /\ ruling.by = "respond")'
    BY DEF DriveInv, Typed, StepPasses, Working, StepOver
    <2> QED BY <2>1, <2>2, <2>3, <2>4, <2>5, <2>6, <2>7, <2>8, <2>9, <2>10, <2>11, <2>12, <2>13
        DEF Typed
<1>3. GateShape'
    BY DEF DriveInv, GateShape, StepPasses, Working, StepOver
<1>4. Receipted'
    BY DEF DriveInv, Receipted, SameKey, Typed, Snaps, GateShape, StepPasses, Working, StepOver
<1>5. ReadsThePast'
    BY DEF DriveInv, ReadsThePast, Typed, Snaps, StepPasses, Working, StepOver
<1>6. AnswersWhatItRead'
    BY DEF DriveInv, AnswersWhatItRead, Typed, Snaps, StepPasses, Working, StepOver
<1>7. ReceiptNamesRound'
    BY DEF DriveInv, ReceiptNamesRound, SameKey, StepPasses, Working, StepOver
<1>8. AbortIsFinal'
    BY DEF DriveInv, AbortIsFinal, StepPasses, Working, StepOver
<1> QED BY <1>1, <1>2, <1>3, <1>4, <1>5, <1>6, <1>7, <1>8 DEF DriveInv

\* TakeRuling keeps the invariant.
LEMMA TakeRulingKeeps ==
    ASSUME DriveInv, TakeRuling
    PROVE  DriveInv'
<1>1. Typed'
  <2>1. (/\ noFix \in BOOLEAN
         /\ dpc \in {"idle", "next", "decide", "sent"}
         /\ yes \in BOOLEAN
         /\ fixedSteps \in [Steps -> Nat]
         /\ drives \in 0..MaxDrives
         /\ dn \in Nat
         /\ rkey \in Nat
         /\ rpc \in {"idle", "sent", "unknown", "accepted"}
         /\ apc \in {"idle", "polling", "aborted", "noop", "unconfirmed"})'
    BY DEF DriveInv, Typed, TakeRuling, StepOver
  <2>2. (runStatus \in TerminalRun \cup {"running"})'
    BY DEF DriveInv, Typed, TakeRuling, StepOver
  <2>3. (step \in Steps)'
    BY DEF DriveInv, Typed, TakeRuling, StepOver
  <2>4. (status \in Parked \cup {"running", "fixing"})'
    BY DEF DriveInv, Typed, TakeRuling, StepOver
  <2>5. (rounds \in 0..MaxRounds)'
    BY DEF DriveInv, Typed, TakeRuling, StepOver
  <2>6. (fixRounds \in 0..rounds)'
    BY DEF DriveInv, Typed, TakeRuling, StepOver
  <2>7. (actionable \in BOOLEAN)'
    BY Zenon DEF DriveInv, Typed, TakeRuling, StepOver
  <2>8. (exec \in {"live", "none", "down"})'
    BY DEF DriveInv, Typed, TakeRuling, StepOver
  <2>9. (waiting \in BOOLEAN)'
    BY Zenon DEF DriveInv, Typed, TakeRuling, StepOver
  <2>10. (chan \subseteq Rulings)'
    BY DEF DriveInv, Typed, TakeRuling, StepOver
  <2>11. (wire \subseteq Rulings)'
    BY DEF DriveInv, Typed, TakeRuling, StepOver
  <2>12. (snap = NoSnap \/ snap \in Snaps)'
    BY DEF DriveInv, Typed, Snaps, TakeRuling, StepOver
  <2>13. (dpc \in {"decide", "sent"} => snap \in Snaps)'
    BY DEF DriveInv, Typed, Snaps, TakeRuling, StepOver
  <2>14. (rpc # "idle" => ruling \in Rulings /\ ruling.by = "respond")'
    BY DEF DriveInv, Typed, TakeRuling, StepOver
    <2> QED BY <2>1, <2>2, <2>3, <2>4, <2>5, <2>6, <2>7, <2>8, <2>9, <2>10, <2>11, <2>12, <2>13,
        <2>14 DEF Typed
<1>2. GateShape'
    BY DEF DriveInv, GateShape, TakeRuling, StepOver
<1>3. Receipted'
    BY DEF DriveInv, Receipted, SameKey, TakeRuling, StepOver
<1>4. ReadsThePast'
    BY DEF DriveInv, ReadsThePast, Typed, Snaps, GateShape, TakeRuling, StepOver
<1>5. AnswersWhatItRead'
    BY DEF DriveInv, AnswersWhatItRead, Typed, Snaps, TakeRuling, StepOver
<1>6. RulingTakenOnce'
    BY DEF DriveInv, RulingTakenOnce, SameKey, Typed, Snaps, Receipted, TakeRuling, StepOver
<1>7. ReceiptNamesRound'
    BY DEF DriveInv, ReceiptNamesRound, SameKey, Typed, Snaps, GateShape, Receipted, TakeRuling,
      StepOver
<1>8. AbortIsFinal'
    BY DEF DriveInv, AbortIsFinal, TakeRuling, StepOver
<1>9. YesKeepsBudget'
    BY DEF DriveInv, YesKeepsBudget, Overtaken, Typed, Snaps, GateShape, AnswersWhatItRead,
      TakeRuling, StepOver
<1>10. YesPassesNoFinding'
    BY DEF DriveInv, YesPassesNoFinding, Overtaken, Typed, Snaps, GateShape, AnswersWhatItRead,
      TakeRuling, StepOver
<1> QED BY <1>1, <1>2, <1>3, <1>4, <1>5, <1>6, <1>7, <1>8, <1>9, <1>10 DEF DriveInv

\* ExecutorEnds keeps the invariant.
LEMMA ExecutorEndsKeeps ==
    ASSUME DriveInv, NEW o \in {"cancelled", "failed"}, ExecutorEnds(o)
    PROVE  DriveInv'
<1>1. (ReadsThePast /\ RulingTakenOnce /\ ReceiptNamesRound /\ YesKeepsBudget /\
      YesPassesNoFinding)'
    BY DEF DriveInv, ReadsThePast, RulingTakenOnce, SameKey, ReceiptNamesRound, YesKeepsBudget,
      Overtaken, YesPassesNoFinding, ExecutorEnds, Working
<1>2. Typed'
  <2>1. (/\ step \in Steps
         /\ status \in Parked \cup {"running", "fixing"}
         /\ rounds \in 0..MaxRounds
         /\ fixRounds \in 0..rounds
         /\ noFix \in BOOLEAN
         /\ actionable \in BOOLEAN
         /\ wire \subseteq Rulings
         /\ dpc \in {"idle", "next", "decide", "sent"}
         /\ yes \in BOOLEAN
         /\ fixedSteps \in [Steps -> Nat]
         /\ drives \in 0..MaxDrives
         /\ dn \in Nat
         /\ rkey \in Nat
         /\ snap = NoSnap \/ snap \in Snaps
         /\ dpc \in {"decide", "sent"} => snap \in Snaps
         /\ rpc \in {"idle", "sent", "unknown", "accepted"}
         /\ rpc # "idle" => ruling \in Rulings /\ ruling.by = "respond"
         /\ apc \in {"idle", "polling", "aborted", "noop", "unconfirmed"})'
    BY DEF DriveInv, Typed, Snaps, ExecutorEnds, Working
  <2>2. (runStatus \in TerminalRun \cup {"running"})'
    BY DEF DriveInv, Typed, ExecutorEnds, Working
  <2>3. (exec \in {"live", "none", "down"})'
    BY DEF DriveInv, Typed, ExecutorEnds, Working
  <2>4. (waiting \in BOOLEAN)'
    BY Zenon DEF DriveInv, Typed, ExecutorEnds, Working
  <2>5. (chan \subseteq Rulings)'
    BY DEF DriveInv, Typed, ExecutorEnds, Working
    <2> QED BY <2>1, <2>2, <2>3, <2>4, <2>5 DEF Typed
<1>3. GateShape'
    BY DEF DriveInv, GateShape, ExecutorEnds, Working
<1>4. Receipted'
    BY DEF DriveInv, Receipted, SameKey, ExecutorEnds, Working
<1>5. AnswersWhatItRead'
    BY DEF DriveInv, AnswersWhatItRead, ExecutorEnds, Working
<1>6. AbortIsFinal'
    BY DEF DriveInv, AbortIsFinal, ExecutorEnds, Working
<1> QED BY <1>1, <1>2, <1>3, <1>4, <1>5, <1>6 DEF DriveInv

\* Crash keeps the invariant.
LEMMA CrashKeeps ==
    ASSUME DriveInv, Crash
    PROVE  DriveInv'
<1>1. (ReadsThePast /\ RulingTakenOnce /\ ReceiptNamesRound /\ YesKeepsBudget /\
      YesPassesNoFinding)'
    BY DEF DriveInv, ReadsThePast, RulingTakenOnce, SameKey, ReceiptNamesRound, YesKeepsBudget,
      Overtaken, YesPassesNoFinding, Crash
<1>2. Typed'
  <2>1. (/\ runStatus \in TerminalRun \cup {"running"}
         /\ step \in Steps
         /\ status \in Parked \cup {"running", "fixing"}
         /\ rounds \in 0..MaxRounds
         /\ fixRounds \in 0..rounds
         /\ noFix \in BOOLEAN
         /\ actionable \in BOOLEAN
         /\ dpc \in {"idle", "next", "decide", "sent"}
         /\ yes \in BOOLEAN
         /\ fixedSteps \in [Steps -> Nat]
         /\ drives \in 0..MaxDrives
         /\ dn \in Nat
         /\ rkey \in Nat
         /\ snap = NoSnap \/ snap \in Snaps
         /\ dpc \in {"decide", "sent"} => snap \in Snaps
         /\ rpc \in {"idle", "sent", "unknown", "accepted"}
         /\ rpc # "idle" => ruling \in Rulings /\ ruling.by = "respond"
         /\ apc \in {"idle", "polling", "aborted", "noop", "unconfirmed"})'
    BY DEF DriveInv, Typed, Snaps, Crash
  <2>2. (exec \in {"live", "none", "down"})'
    BY DEF DriveInv, Typed, Crash
  <2>3. (waiting \in BOOLEAN)'
    BY Zenon DEF DriveInv, Typed, Crash
  <2>4. (chan \subseteq Rulings)'
    BY DEF DriveInv, Typed, Crash
  <2>5. (wire \subseteq Rulings)'
    BY DEF DriveInv, Typed, Crash
    <2> QED BY <2>1, <2>2, <2>3, <2>4, <2>5 DEF Typed
<1>3. GateShape'
    BY DEF DriveInv, GateShape, Crash
<1>4. Receipted'
    BY DEF DriveInv, Receipted, SameKey, Crash
<1>5. AnswersWhatItRead'
    BY DEF DriveInv, AnswersWhatItRead, Crash
<1>6. AbortIsFinal'
    BY DEF DriveInv, AbortIsFinal, Crash
<1> QED BY <1>1, <1>2, <1>3, <1>4, <1>5, <1>6 DEF DriveInv

\* Restart keeps the invariant.
LEMMA RestartKeeps ==
    ASSUME DriveInv, Restart
    PROVE  DriveInv'
<1>1. (Receipted /\ ReadsThePast /\ AnswersWhatItRead /\ RulingTakenOnce /\ ReceiptNamesRound /\
      YesKeepsBudget /\ YesPassesNoFinding)'
    BY DEF DriveInv, Receipted, SameKey, ReadsThePast, AnswersWhatItRead, RulingTakenOnce,
      ReceiptNamesRound, YesKeepsBudget, Overtaken, YesPassesNoFinding, Restart
<1>2. Typed'
    BY DEF DriveInv, Typed, Snaps, Restart
<1>3. GateShape'
    BY DEF DriveInv, GateShape, Restart
<1>4. AbortIsFinal'
    BY DEF DriveInv, AbortIsFinal, Restart
<1> QED BY <1>1, <1>2, <1>3, <1>4 DEF DriveInv

\* Reopen keeps the invariant.
LEMMA ReopenKeeps ==
    ASSUME DriveInv, Reopen
    PROVE  DriveInv'
<1>1. (Receipted /\ ReadsThePast /\ AnswersWhatItRead /\ RulingTakenOnce /\ ReceiptNamesRound /\
      YesKeepsBudget /\ YesPassesNoFinding)'
    BY DEF DriveInv, Receipted, SameKey, ReadsThePast, AnswersWhatItRead, RulingTakenOnce,
      ReceiptNamesRound, YesKeepsBudget, Overtaken, YesPassesNoFinding, Reopen
<1>2. Typed'
    BY DEF DriveInv, Typed, Snaps, Reopen
<1>3. GateShape'
    BY DEF DriveInv, GateShape, Reopen
<1>4. AbortIsFinal'
    BY DEF DriveInv, AbortIsFinal, Reopen
<1> QED BY <1>1, <1>2, <1>3, <1>4 DEF DriveInv

\* AcceptResponse keeps the invariant.
LEMMA AcceptResponseKeeps ==
    ASSUME DriveInv, NEW r, AcceptResponse(r)
    PROVE  DriveInv'
<1>1. Typed'
  <2>1. (/\ runStatus \in TerminalRun \cup {"running"}
         /\ step \in Steps
         /\ status \in Parked \cup {"running", "fixing"}
         /\ rounds \in 0..MaxRounds
         /\ fixRounds \in 0..rounds
         /\ noFix \in BOOLEAN
         /\ actionable \in BOOLEAN
         /\ exec \in {"live", "none", "down"}
         /\ drives \in 0..MaxDrives
         /\ dn \in Nat
         /\ rkey \in Nat
         /\ apc \in {"idle", "polling", "aborted", "noop", "unconfirmed"})'
    BY DEF DriveInv, Typed, AcceptResponse, Enqueue, ReceiptFor, Admissible, Replayed,
        SameKey, AnswerDrive, LoopReturns, NoFixes, NoGate, AnswerRespond, RespondReturns
  <2>2. (waiting \in BOOLEAN)'
    BY Zenon DEF DriveInv, Typed, AcceptResponse, Enqueue, ReceiptFor, Admissible,
        Replayed, SameKey, AnswerDrive, LoopReturns, NoFixes, NoGate, AnswerRespond,
        RespondReturns
  <2>3. (chan \subseteq Rulings)'
    BY DEF DriveInv, Typed, AcceptResponse, Enqueue, ReceiptFor, Admissible, Replayed,
        SameKey, AnswerDrive, LoopReturns, NoFixes, NoGate, AnswerRespond, RespondReturns
  <2>4. (wire \subseteq Rulings)'
    BY DEF DriveInv, Typed, AcceptResponse, Enqueue, ReceiptFor, Admissible, Replayed,
        SameKey, AnswerDrive, LoopReturns, NoFixes, NoGate, AnswerRespond, RespondReturns
  <2>5. (dpc \in {"idle", "next", "decide", "sent"})'
    BY DEF DriveInv, Typed, AcceptResponse, Enqueue, ReceiptFor, Admissible, Replayed,
        SameKey, AnswerDrive, LoopReturns, NoFixes, NoGate, AnswerRespond, RespondReturns
  <2>6. (yes \in BOOLEAN)'
    BY DEF DriveInv, Typed, AcceptResponse, Enqueue, ReceiptFor, Admissible, Replayed,
        SameKey, AnswerDrive, LoopReturns, NoFixes, NoGate, AnswerRespond, RespondReturns
  <2>7. (fixedSteps \in [Steps -> Nat])'
    BY DEF DriveInv, Typed, AcceptResponse, Enqueue, ReceiptFor, Admissible, Replayed,
        SameKey, AnswerDrive, LoopReturns, NoFixes, NoGate, AnswerRespond, RespondReturns
  <2>8. (snap = NoSnap \/ snap \in Snaps)'
    BY DEF DriveInv, Typed, Snaps, AcceptResponse, Enqueue, ReceiptFor, Admissible,
        Replayed, SameKey, AnswerDrive, LoopReturns, NoFixes, NoGate, AnswerRespond,
        RespondReturns
  <2>9. (dpc \in {"decide", "sent"} => snap \in Snaps)'
    BY DEF DriveInv, Typed, Snaps, AcceptResponse, Enqueue, ReceiptFor, Admissible,
        Replayed, SameKey, AnswerDrive, LoopReturns, NoFixes, NoGate, AnswerRespond,
        RespondReturns
  <2>10. (rpc \in {"idle", "sent", "unknown", "accepted"})'
    BY DEF DriveInv, Typed, AcceptResponse, Enqueue, ReceiptFor, Admissible, Replayed,
        SameKey, AnswerDrive, LoopReturns, NoFixes, NoGate, AnswerRespond, RespondReturns
  <2>11. (rpc # "idle" => ruling \in Rulings /\ ruling.by = "respond")'
    BY DEF DriveInv, Typed, AcceptResponse, Enqueue, ReceiptFor, Admissible, Replayed,
        SameKey, AnswerDrive, LoopReturns, NoFixes, NoGate, AnswerRespond, RespondReturns
    <2> QED BY <2>1, <2>2, <2>3, <2>4, <2>5, <2>6, <2>7, <2>8, <2>9, <2>10, <2>11 DEF Typed
<1>2. GateShape'
    BY DEF DriveInv, GateShape, AcceptResponse, ReceiptFor, AnswerRespond, RespondReturns,
      Enqueue, Admissible, Replayed, SameKey, AnswerDrive, LoopReturns, NoGate, NoFixes
<1>3. Receipted'
  <2>1. chan' = {r}
    BY DEF DriveInv, Typed, GateShape, AcceptResponse, Admissible, Enqueue
  <2>2. [ruling |-> r, step |-> step, round |-> rounds] \in receipts'
    BY DEF AcceptResponse, ReceiptFor
  <2>3. \A a \in applied : ~SameKey(r, a.ruling)
    BY DEF DriveInv, ReceiptNamesRound, AcceptResponse, Admissible, Replayed, SameKey
  <2>4. UNCHANGED <<applied, step, rounds>>
    BY DEF AcceptResponse
  <2> QED BY <2>1, <2>2, <2>3, <2>4 DEF Receipted, SameKey
<1>4. ReadsThePast'
    BY DEF DriveInv, ReadsThePast, AcceptResponse, ReceiptFor, AnswerRespond, RespondReturns,
      Enqueue, Admissible, Replayed, SameKey, AnswerDrive, LoopReturns, NoGate, NoFixes
<1>5. AnswersWhatItRead'
    BY DEF DriveInv, AnswersWhatItRead, AcceptResponse, ReceiptFor, AnswerRespond,
      RespondReturns, Enqueue, Admissible, Replayed, SameKey, AnswerDrive, LoopReturns, NoGate,
      NoFixes
<1>6. RulingTakenOnce'
    BY DEF DriveInv, RulingTakenOnce, SameKey, AcceptResponse, ReceiptFor, AnswerRespond,
      RespondReturns, Enqueue, Admissible, Replayed, AnswerDrive, LoopReturns, NoGate, NoFixes
<1>7. ReceiptNamesRound'
    BY DEF DriveInv, ReceiptNamesRound, SameKey, AcceptResponse, ReceiptFor, AnswerRespond,
      RespondReturns, Enqueue, Admissible, Replayed, AnswerDrive, LoopReturns, NoGate, NoFixes
<1>8. AbortIsFinal'
    BY DEF DriveInv, AbortIsFinal, AcceptResponse, ReceiptFor, AnswerRespond, RespondReturns,
      Enqueue, Admissible, Replayed, SameKey, AnswerDrive, LoopReturns, NoGate, NoFixes
<1>9. YesKeepsBudget'
    BY DEF DriveInv, YesKeepsBudget, Overtaken, AcceptResponse, ReceiptFor, AnswerRespond,
      RespondReturns, Enqueue, Admissible, Replayed, SameKey, AnswerDrive, LoopReturns, NoGate,
      NoFixes
<1>10. YesPassesNoFinding'
    BY DEF DriveInv, YesPassesNoFinding, Overtaken, AcceptResponse, ReceiptFor, AnswerRespond,
      RespondReturns, Enqueue, Admissible, Replayed, SameKey, AnswerDrive, LoopReturns, NoGate,
      NoFixes
<1> QED BY <1>1, <1>2, <1>3, <1>4, <1>5, <1>6, <1>7, <1>8, <1>9, <1>10 DEF DriveInv

\* AnswerReplay keeps the invariant.
LEMMA AnswerReplayKeeps ==
    ASSUME DriveInv, NEW r, AnswerReplay(r)
    PROVE  DriveInv'
<1>1. (GateShape /\ AbortIsFinal)'
    BY DEF DriveInv, GateShape, AbortIsFinal, AnswerReplay, SameRuling, SameKey, AnswerRespond,
      RespondReturns, Replayed, Admissible, AnswerDrive, LoopReturns, NoGate, NoFixes
<1>2. Typed'
  <2>1. (/\ runStatus \in TerminalRun \cup {"running"}
         /\ step \in Steps
         /\ status \in Parked \cup {"running", "fixing"}
         /\ rounds \in 0..MaxRounds
         /\ fixRounds \in 0..rounds
         /\ noFix \in BOOLEAN
         /\ actionable \in BOOLEAN
         /\ exec \in {"live", "none", "down"}
         /\ waiting \in BOOLEAN
         /\ drives \in 0..MaxDrives
         /\ dn \in Nat
         /\ rkey \in Nat
         /\ apc \in {"idle", "polling", "aborted", "noop", "unconfirmed"})'
    BY DEF DriveInv, Typed, AnswerReplay, Replayed, SameKey, SameRuling, Admissible,
        AnswerDrive, LoopReturns, NoFixes, NoGate, AnswerRespond, RespondReturns
  <2>2. (chan \subseteq Rulings)'
    BY DEF DriveInv, Typed, AnswerReplay, Replayed, SameKey, SameRuling, Admissible,
        AnswerDrive, LoopReturns, NoFixes, NoGate, AnswerRespond, RespondReturns
  <2>3. (wire \subseteq Rulings)'
    BY DEF DriveInv, Typed, AnswerReplay, Replayed, SameKey, SameRuling, Admissible,
        AnswerDrive, LoopReturns, NoFixes, NoGate, AnswerRespond, RespondReturns
  <2>4. (dpc \in {"idle", "next", "decide", "sent"})'
    BY DEF DriveInv, Typed, AnswerReplay, Replayed, SameKey, SameRuling, Admissible,
        AnswerDrive, LoopReturns, NoFixes, NoGate, AnswerRespond, RespondReturns
  <2>5. (yes \in BOOLEAN)'
    BY Zenon DEF DriveInv, Typed, AnswerReplay, Replayed, SameKey, SameRuling,
        Admissible, AnswerDrive, LoopReturns, NoFixes, NoGate, AnswerRespond, RespondReturns
  <2>6. (fixedSteps \in [Steps -> Nat])'
    BY DEF DriveInv, Typed, AnswerReplay, Replayed, SameKey, SameRuling, Admissible,
        AnswerDrive, LoopReturns, NoFixes, NoGate, AnswerRespond, RespondReturns
  <2>7. (snap = NoSnap \/ snap \in Snaps)'
    BY DEF DriveInv, Typed, YesPassesNoFinding, Snaps, Overtaken, AnswerReplay, Replayed,
        SameKey, SameRuling, Admissible, AnswerDrive, LoopReturns, NoFixes, NoGate,
        AnswerRespond, RespondReturns
  <2>8. (dpc \in {"decide", "sent"} => snap \in Snaps)'
    BY DEF DriveInv, Typed, Receipted, Snaps, SameKey, AnswerReplay, Replayed, SameRuling,
        Admissible, AnswerDrive, LoopReturns, NoFixes, NoGate, AnswerRespond, RespondReturns
  <2>9. (rpc \in {"idle", "sent", "unknown", "accepted"})'
    BY DEF DriveInv, Typed, ReadsThePast, AnswerReplay, Replayed, SameKey, SameRuling,
        Admissible, AnswerDrive, LoopReturns, NoFixes, NoGate, AnswerRespond, RespondReturns
  <2>10. (rpc # "idle" => ruling \in Rulings /\ ruling.by = "respond")'
    BY DEF DriveInv, Typed, AnswerReplay, Replayed, SameKey, SameRuling, Admissible,
        AnswerDrive, LoopReturns, NoFixes, NoGate, AnswerRespond, RespondReturns
    <2> QED BY <2>1, <2>2, <2>3, <2>4, <2>5, <2>6, <2>7, <2>8, <2>9, <2>10 DEF Typed
<1>3. Receipted'
    BY DEF DriveInv, Receipted, SameKey, AnswerReplay, SameRuling, AnswerRespond,
      RespondReturns, Replayed, Admissible, AnswerDrive, LoopReturns, NoGate, NoFixes
<1>4. ReadsThePast'
    BY DEF DriveInv, ReadsThePast, AnswerReplay, SameRuling, SameKey, AnswerRespond,
      RespondReturns, Replayed, Admissible, AnswerDrive, LoopReturns, NoGate, NoFixes
<1>5. AnswersWhatItRead'
    BY DEF DriveInv, AnswersWhatItRead, AnswerReplay, SameRuling, SameKey, AnswerRespond,
      RespondReturns, Replayed, Admissible, AnswerDrive, LoopReturns, NoGate, NoFixes
<1>6. RulingTakenOnce'
    BY DEF DriveInv, RulingTakenOnce, SameKey, AnswerReplay, SameRuling, AnswerRespond,
      RespondReturns, Replayed, Admissible, AnswerDrive, LoopReturns, NoGate, NoFixes
<1>7. ReceiptNamesRound'
    BY DEF DriveInv, ReceiptNamesRound, SameKey, AnswerReplay, SameRuling, AnswerRespond,
      RespondReturns, Replayed, Admissible, AnswerDrive, LoopReturns, NoGate, NoFixes
<1>8. YesKeepsBudget'
    BY DEF DriveInv, YesKeepsBudget, Overtaken, AnswerReplay, SameRuling, SameKey,
      AnswerRespond, RespondReturns, Replayed, Admissible, AnswerDrive, LoopReturns, NoGate,
      NoFixes
<1>9. YesPassesNoFinding'
    BY DEF DriveInv, YesPassesNoFinding, Overtaken, AnswerReplay, SameRuling, SameKey,
      AnswerRespond, RespondReturns, Replayed, Admissible, AnswerDrive, LoopReturns, NoGate,
      NoFixes
<1> QED BY <1>1, <1>2, <1>3, <1>4, <1>5, <1>6, <1>7, <1>8, <1>9 DEF DriveInv

\* DriveStarts keeps the invariant.
LEMMA DriveStartsKeeps ==
    ASSUME DriveInv, NEW y \in BOOLEAN, DriveStarts(y)
    PROVE  DriveInv'
<1>1. (GateShape /\ Receipted /\ RulingTakenOnce /\ ReceiptNamesRound /\ AbortIsFinal)'
    BY DEF DriveInv, GateShape, Receipted, SameKey, RulingTakenOnce, ReceiptNamesRound,
      AbortIsFinal, DriveStarts, NoGate, NoFixes
<1>2. Typed'
    BY DEF DriveInv, Typed, Snaps, DriveStarts, NoGate, NoFixes
<1>3. ReadsThePast'
    BY DEF DriveInv, ReadsThePast, DriveStarts, NoGate, NoFixes
<1>4. AnswersWhatItRead'
    BY DEF DriveInv, AnswersWhatItRead, DriveStarts, NoGate, NoFixes
<1>5. YesKeepsBudget'
    BY DEF DriveInv, YesKeepsBudget, Overtaken, DriveStarts, NoGate, NoFixes
<1>6. YesPassesNoFinding'
    BY DEF DriveInv, YesPassesNoFinding, Overtaken, DriveStarts, NoGate, NoFixes
<1> QED BY <1>1, <1>2, <1>3, <1>4, <1>5, <1>6 DEF DriveInv

\* DriveReads keeps the invariant.
LEMMA DriveReadsKeeps ==
    ASSUME DriveInv, DriveReads
    PROVE  DriveInv'
<1>1. (GateShape /\ Receipted /\ RulingTakenOnce /\ ReceiptNamesRound /\ AbortIsFinal)'
    BY DEF DriveInv, GateShape, Receipted, SameKey, RulingTakenOnce, ReceiptNamesRound,
      AbortIsFinal, DriveReads
<1>2. Typed'
    BY DEF DriveInv, Typed, Snaps, DriveReads
<1>3. ReadsThePast'
    BY DEF DriveInv, ReadsThePast, Typed, Snaps, DriveReads
<1>4. AnswersWhatItRead'
    BY DEF DriveInv, AnswersWhatItRead, DriveReads
<1>5. YesKeepsBudget'
    BY DEF DriveInv, YesKeepsBudget, Overtaken, DriveReads
<1>6. YesPassesNoFinding'
    BY DEF DriveInv, YesPassesNoFinding, Overtaken, DriveReads
<1> QED BY <1>1, <1>2, <1>3, <1>4, <1>5, <1>6 DEF DriveInv

\* DriveHearsLog keeps the invariant.
LEMMA DriveHearsLogKeeps ==
    ASSUME DriveInv, DriveHearsLog
    PROVE  DriveInv'
<1>1. (GateShape /\ Receipted /\ ReadsThePast /\ RulingTakenOnce /\ ReceiptNamesRound /\
      AbortIsFinal)'
    BY DEF DriveInv, GateShape, Receipted, SameKey, ReadsThePast, RulingTakenOnce,
      ReceiptNamesRound, AbortIsFinal, DriveHearsLog
<1>2. Typed'
    BY DEF DriveInv, Typed, Snaps, DriveHearsLog
<1>3. AnswersWhatItRead'
    BY DEF DriveInv, AnswersWhatItRead, DriveHearsLog
<1>4. YesKeepsBudget'
    BY DEF DriveInv, YesKeepsBudget, Overtaken, DriveHearsLog
<1>5. YesPassesNoFinding'
    BY DEF DriveInv, YesPassesNoFinding, Overtaken, DriveHearsLog
<1> QED BY <1>1, <1>2, <1>3, <1>4, <1>5 DEF DriveInv

\* DriveGivesUp keeps the invariant.
LEMMA DriveGivesUpKeeps ==
    ASSUME DriveInv, DriveGivesUp
    PROVE  DriveInv'
<1>1. (GateShape /\ Receipted /\ RulingTakenOnce /\ ReceiptNamesRound /\ AbortIsFinal)'
    BY DEF DriveInv, GateShape, Receipted, SameKey, RulingTakenOnce, ReceiptNamesRound,
      AbortIsFinal, DriveGivesUp, LoopReturns, NoGate, NoFixes
<1>2. Typed'
  <2>1. (/\ runStatus \in TerminalRun \cup {"running"}
         /\ step \in Steps
         /\ status \in Parked \cup {"running", "fixing"}
         /\ rounds \in 0..MaxRounds
         /\ fixRounds \in 0..rounds
         /\ noFix \in BOOLEAN
         /\ actionable \in BOOLEAN
         /\ exec \in {"live", "none", "down"}
         /\ waiting \in BOOLEAN
         /\ drives \in 0..MaxDrives
         /\ dn \in Nat
         /\ rkey \in Nat
         /\ rpc \in {"idle", "sent", "unknown", "accepted"}
         /\ apc \in {"idle", "polling", "aborted", "noop", "unconfirmed"})'
    BY DEF DriveInv, Typed, DriveGivesUp, LoopReturns, NoFixes, NoGate
  <2>2. (chan \subseteq Rulings)'
    BY DEF DriveInv, Typed, DriveGivesUp, LoopReturns, NoFixes, NoGate
  <2>3. (wire \subseteq Rulings)'
    BY DEF DriveInv, Typed, DriveGivesUp, LoopReturns, NoFixes, NoGate
  <2>4. (dpc \in {"idle", "next", "decide", "sent"})'
    BY DEF DriveInv, Typed, DriveGivesUp, LoopReturns, NoFixes, NoGate
  <2>5. (yes \in BOOLEAN)'
    BY Zenon DEF DriveInv, Typed, DriveGivesUp, LoopReturns, NoFixes, NoGate
  <2>6. (fixedSteps \in [Steps -> Nat])'
    BY DEF DriveInv, Typed, DriveGivesUp, LoopReturns, NoFixes, NoGate
  <2>7. (snap = NoSnap \/ snap \in Snaps)'
    BY DEF DriveInv, Typed, Snaps, DriveGivesUp, LoopReturns, NoFixes, NoGate
  <2>8. (dpc \in {"decide", "sent"} => snap \in Snaps)'
    BY DEF DriveInv, Typed, Snaps, DriveGivesUp, LoopReturns, NoFixes, NoGate
  <2>9. (rpc # "idle" => ruling \in Rulings /\ ruling.by = "respond")'
    BY DEF DriveInv, Typed, DriveGivesUp, LoopReturns, NoFixes, NoGate
    <2> QED BY <2>1, <2>2, <2>3, <2>4, <2>5, <2>6, <2>7, <2>8, <2>9 DEF Typed
<1>3. ReadsThePast'
    BY DEF DriveInv, ReadsThePast, DriveGivesUp, LoopReturns, NoGate, NoFixes
<1>4. AnswersWhatItRead'
    BY DEF DriveInv, AnswersWhatItRead, DriveGivesUp, LoopReturns, NoGate, NoFixes
<1>5. YesKeepsBudget'
    BY DEF DriveInv, YesKeepsBudget, Overtaken, DriveGivesUp, LoopReturns, NoGate, NoFixes
<1>6. YesPassesNoFinding'
    BY DEF DriveInv, YesPassesNoFinding, Overtaken, DriveGivesUp, LoopReturns, NoGate, NoFixes
<1> QED BY <1>1, <1>2, <1>3, <1>4, <1>5, <1>6 DEF DriveInv

\* DriveWaits keeps the invariant.
LEMMA DriveWaitsKeeps ==
    ASSUME DriveInv, DriveWaits
    PROVE  DriveInv'
<1>1. (GateShape /\ Receipted /\ ReadsThePast /\ RulingTakenOnce /\ ReceiptNamesRound /\
      AbortIsFinal)'
    BY DEF DriveInv, GateShape, Receipted, SameKey, ReadsThePast, RulingTakenOnce,
      ReceiptNamesRound, AbortIsFinal, DriveWaits, GateKey, NoGate
<1>2. Typed'
    BY DEF DriveInv, Typed, Snaps, DriveWaits, GateKey, NoGate
<1>3. AnswersWhatItRead'
    BY DEF DriveInv, AnswersWhatItRead, DriveWaits, GateKey, NoGate
<1>4. YesKeepsBudget'
    BY DEF DriveInv, YesKeepsBudget, Overtaken, DriveWaits, GateKey, NoGate
<1>5. YesPassesNoFinding'
    BY DEF DriveInv, YesPassesNoFinding, Overtaken, DriveWaits, GateKey, NoGate
<1> QED BY <1>1, <1>2, <1>3, <1>4, <1>5 DEF DriveInv

\* DriveReturns keeps the invariant.
LEMMA DriveReturnsKeeps ==
    ASSUME DriveInv, DriveReturns
    PROVE  DriveInv'
<1>1. (GateShape /\ Receipted /\ RulingTakenOnce /\ ReceiptNamesRound /\ AbortIsFinal)'
    BY DEF DriveInv, GateShape, Receipted, SameKey, RulingTakenOnce, ReceiptNamesRound,
      AbortIsFinal, DriveReturns, GateKey, gateResolution, Used, LoopReturns, NoGate, NoFixes
<1>2. Typed'
  <2>1. (/\ runStatus \in TerminalRun \cup {"running"}
         /\ step \in Steps
         /\ status \in Parked \cup {"running", "fixing"}
         /\ rounds \in 0..MaxRounds
         /\ fixRounds \in 0..rounds
         /\ noFix \in BOOLEAN
         /\ actionable \in BOOLEAN
         /\ exec \in {"live", "none", "down"}
         /\ waiting \in BOOLEAN
         /\ drives \in 0..MaxDrives
         /\ dn \in Nat
         /\ rkey \in Nat
         /\ rpc \in {"idle", "sent", "unknown", "accepted"}
         /\ apc \in {"idle", "polling", "aborted", "noop", "unconfirmed"})'
    BY DEF DriveInv, Typed, DriveReturns, LoopReturns, NoFixes, NoGate, gateResolution,
        Used, GateKey
  <2>2. (chan \subseteq Rulings)'
    BY DEF DriveInv, Typed, DriveReturns, LoopReturns, NoFixes, NoGate, gateResolution,
        Used, GateKey
  <2>3. (wire \subseteq Rulings)'
    BY DEF DriveInv, Typed, DriveReturns, LoopReturns, NoFixes, NoGate, gateResolution,
        Used, GateKey
  <2>4. (dpc \in {"idle", "next", "decide", "sent"})'
    BY DEF DriveInv, Typed, DriveReturns, LoopReturns, NoFixes, NoGate, gateResolution,
        Used, GateKey
  <2>5. (yes \in BOOLEAN)'
    BY Zenon DEF DriveInv, Typed, DriveReturns, LoopReturns, NoFixes, NoGate,
        gateResolution, Used, GateKey
  <2>6. (fixedSteps \in [Steps -> Nat])'
    BY DEF DriveInv, Typed, DriveReturns, LoopReturns, NoFixes, NoGate, gateResolution,
        Used, GateKey
  <2>7. (snap = NoSnap \/ snap \in Snaps)'
    BY DEF DriveInv, Typed, Snaps, DriveReturns, LoopReturns, NoFixes, NoGate,
        gateResolution, Used, GateKey
  <2>8. (dpc \in {"decide", "sent"} => snap \in Snaps)'
    BY DEF DriveInv, Typed, Snaps, DriveReturns, LoopReturns, NoFixes, NoGate,
        gateResolution, Used, GateKey
  <2>9. (rpc # "idle" => ruling \in Rulings /\ ruling.by = "respond")'
    BY DEF DriveInv, Typed, DriveReturns, LoopReturns, NoFixes, NoGate, gateResolution,
        Used, GateKey
    <2> QED BY <2>1, <2>2, <2>3, <2>4, <2>5, <2>6, <2>7, <2>8, <2>9 DEF Typed
<1>3. ReadsThePast'
    BY DEF DriveInv, ReadsThePast, DriveReturns, GateKey, gateResolution, Used, LoopReturns,
      NoGate, NoFixes
<1>4. AnswersWhatItRead'
    BY DEF DriveInv, AnswersWhatItRead, DriveReturns, GateKey, gateResolution, Used,
      LoopReturns, NoGate, NoFixes
<1>5. YesKeepsBudget'
    BY DEF DriveInv, YesKeepsBudget, Overtaken, DriveReturns, GateKey, gateResolution, Used,
      LoopReturns, NoGate, NoFixes
<1>6. YesPassesNoFinding'
    BY DEF DriveInv, YesPassesNoFinding, Overtaken, DriveReturns, GateKey, gateResolution, Used,
      LoopReturns, NoGate, NoFixes
<1> QED BY <1>1, <1>2, <1>3, <1>4, <1>5, <1>6 DEF DriveInv

\* DriveAnswers keeps the invariant.
LEMMA DriveAnswersKeeps ==
    ASSUME DriveInv, DriveAnswers
    PROVE  DriveInv'
<1>1. (GateShape /\ Receipted /\ ReadsThePast /\ RulingTakenOnce /\ ReceiptNamesRound /\
      AbortIsFinal)'
    BY DEF DriveInv, GateShape, Receipted, SameKey, ReadsThePast, RulingTakenOnce,
      ReceiptNamesRound, AbortIsFinal, DriveAnswers, GateKey, gateResolution, Used
<1>2. Typed'
  <2>1. (/\ runStatus \in TerminalRun \cup {"running"}
         /\ step \in Steps
         /\ status \in Parked \cup {"running", "fixing"}
         /\ rounds \in 0..MaxRounds
         /\ fixRounds \in 0..rounds
         /\ noFix \in BOOLEAN
         /\ actionable \in BOOLEAN
         /\ exec \in {"live", "none", "down"}
         /\ waiting \in BOOLEAN
         /\ yes \in BOOLEAN
         /\ drives \in 0..MaxDrives
         /\ rkey \in Nat
         /\ snap = NoSnap \/ snap \in Snaps
         /\ rpc \in {"idle", "sent", "unknown", "accepted"}
         /\ apc \in {"idle", "polling", "aborted", "noop", "unconfirmed"})'
    BY DEF DriveInv, Typed, Snaps, DriveAnswers, gateResolution, Used, GateKey
  <2>2. (chan \subseteq Rulings)'
    BY DEF DriveInv, Typed, DriveAnswers, gateResolution, Used, GateKey
  <2>3. (wire \subseteq Rulings)'
    <3>1. gateResolution \in Actions
      BY DEF DriveAnswers, gateResolution
    <3>2. snap.step \in Steps /\ snap.rounds \in Nat
      BY DEF DriveInv, Typed, Snaps, DriveAnswers
    <3>3. dn' \in Nat /\ wire \subseteq Rulings
      BY DEF DriveInv, Typed, DriveAnswers
    <3> QED BY <3>1, <3>2, <3>3 DEF DriveAnswers
  <2>4. (dpc \in {"idle", "next", "decide", "sent"})'
    BY DEF DriveInv, Typed, DriveAnswers, gateResolution, Used, GateKey
  <2>5. (fixedSteps \in [Steps -> Nat])'
    <3>1. Used \in Nat
      BY DEF DriveInv, Typed, Snaps, DriveAnswers, Used
    <3>2. fixedSteps \in [Steps -> Nat]
      BY DEF DriveInv, Typed
    <3>3. fixedSteps' = fixedSteps \/ fixedSteps' = [fixedSteps EXCEPT ![snap.step] = Used + 1]
      BY DEF DriveAnswers
    <3> QED BY <3>1, <3>2, <3>3
  <2>6. (dn \in Nat)'
    BY DEF DriveInv, Typed, GateShape, ReadsThePast, DriveAnswers, gateResolution, Used,
        GateKey
  <2>7. (dpc \in {"decide", "sent"} => snap \in Snaps)'
    BY DEF DriveInv, Typed, Snaps, DriveAnswers, gateResolution, Used, GateKey
  <2>8. (rpc # "idle" => ruling \in Rulings /\ ruling.by = "respond")'
    BY DEF DriveInv, Typed, DriveAnswers, gateResolution, Used, GateKey
    <2> QED BY <2>1, <2>2, <2>3, <2>4, <2>5, <2>6, <2>7, <2>8 DEF Typed
<1>3. AnswersWhatItRead'
    BY SMTT(30) DEF DriveInv, AnswersWhatItRead, Typed, Snaps, GateShape, Receipted, SameKey,
      ReadsThePast, RulingTakenOnce, ReceiptNamesRound, AbortIsFinal, YesKeepsBudget, Overtaken,
      YesPassesNoFinding, DriveAnswers, GateKey, gateResolution, Used
<1>4. YesKeepsBudget'
    BY DEF DriveInv, YesKeepsBudget, Overtaken, DriveAnswers, GateKey, gateResolution, Used
<1>5. YesPassesNoFinding'
    BY DEF DriveInv, YesPassesNoFinding, Overtaken, DriveAnswers, GateKey, gateResolution, Used
<1> QED BY <1>1, <1>2, <1>3, <1>4, <1>5 DEF DriveInv

\* DriveDies keeps the invariant.
LEMMA DriveDiesKeeps ==
    ASSUME DriveInv, DriveDies
    PROVE  DriveInv'
<1>1. (GateShape /\ Receipted /\ RulingTakenOnce /\ ReceiptNamesRound /\ AbortIsFinal)'
    BY DEF DriveInv, GateShape, Receipted, SameKey, RulingTakenOnce, ReceiptNamesRound,
      AbortIsFinal, DriveDies, LoopReturns, NoGate, NoFixes
<1>2. Typed'
  <2>1. (/\ runStatus \in TerminalRun \cup {"running"}
         /\ step \in Steps
         /\ status \in Parked \cup {"running", "fixing"}
         /\ rounds \in 0..MaxRounds
         /\ fixRounds \in 0..rounds
         /\ noFix \in BOOLEAN
         /\ actionable \in BOOLEAN
         /\ exec \in {"live", "none", "down"}
         /\ waiting \in BOOLEAN
         /\ drives \in 0..MaxDrives
         /\ dn \in Nat
         /\ rkey \in Nat
         /\ rpc \in {"idle", "sent", "unknown", "accepted"}
         /\ apc \in {"idle", "polling", "aborted", "noop", "unconfirmed"})'
    BY DEF DriveInv, Typed, DriveDies, LoopReturns, NoFixes, NoGate
  <2>2. (chan \subseteq Rulings)'
    BY DEF DriveInv, Typed, DriveDies, LoopReturns, NoFixes, NoGate
  <2>3. (wire \subseteq Rulings)'
    BY DEF DriveInv, Typed, DriveDies, LoopReturns, NoFixes, NoGate
  <2>4. (dpc \in {"idle", "next", "decide", "sent"})'
    BY DEF DriveInv, Typed, DriveDies, LoopReturns, NoFixes, NoGate
  <2>5. (yes \in BOOLEAN)'
    BY Zenon DEF DriveInv, Typed, DriveDies, LoopReturns, NoFixes, NoGate
  <2>6. (fixedSteps \in [Steps -> Nat])'
    BY DEF DriveInv, Typed, DriveDies, LoopReturns, NoFixes, NoGate
  <2>7. (snap = NoSnap \/ snap \in Snaps)'
    BY DEF DriveInv, Typed, Snaps, DriveDies, LoopReturns, NoFixes, NoGate
  <2>8. (dpc \in {"decide", "sent"} => snap \in Snaps)'
    BY DEF DriveInv, Typed, Snaps, DriveDies, LoopReturns, NoFixes, NoGate
  <2>9. (rpc # "idle" => ruling \in Rulings /\ ruling.by = "respond")'
    BY DEF DriveInv, Typed, DriveDies, LoopReturns, NoFixes, NoGate
    <2> QED BY <2>1, <2>2, <2>3, <2>4, <2>5, <2>6, <2>7, <2>8, <2>9 DEF Typed
<1>3. ReadsThePast'
    BY DEF DriveInv, ReadsThePast, DriveDies, LoopReturns, NoGate, NoFixes
<1>4. AnswersWhatItRead'
    BY DEF DriveInv, AnswersWhatItRead, DriveDies, LoopReturns, NoGate, NoFixes
<1>5. YesKeepsBudget'
    BY DEF DriveInv, YesKeepsBudget, Overtaken, DriveDies, LoopReturns, NoGate, NoFixes
<1>6. YesPassesNoFinding'
    BY DEF DriveInv, YesPassesNoFinding, Overtaken, DriveDies, LoopReturns, NoGate, NoFixes
<1> QED BY <1>1, <1>2, <1>3, <1>4, <1>5, <1>6 DEF DriveInv

\* DriveCallBreaks keeps the invariant.
LEMMA DriveCallBreaksKeeps ==
    ASSUME DriveInv, DriveCallBreaks
    PROVE  DriveInv'
<1>1. (GateShape /\ Receipted /\ RulingTakenOnce /\ ReceiptNamesRound /\ AbortIsFinal)'
    BY DEF DriveInv, GateShape, Receipted, SameKey, RulingTakenOnce, ReceiptNamesRound,
      AbortIsFinal, DriveCallBreaks, LoopReturns, NoGate, NoFixes
<1>2. Typed'
  <2>1. (/\ runStatus \in TerminalRun \cup {"running"}
         /\ step \in Steps
         /\ status \in Parked \cup {"running", "fixing"}
         /\ rounds \in 0..MaxRounds
         /\ fixRounds \in 0..rounds
         /\ noFix \in BOOLEAN
         /\ actionable \in BOOLEAN
         /\ exec \in {"live", "none", "down"}
         /\ waiting \in BOOLEAN
         /\ drives \in 0..MaxDrives
         /\ dn \in Nat
         /\ rkey \in Nat
         /\ rpc \in {"idle", "sent", "unknown", "accepted"}
         /\ apc \in {"idle", "polling", "aborted", "noop", "unconfirmed"})'
    BY DEF DriveInv, Typed, DriveCallBreaks, LoopReturns, NoFixes, NoGate
  <2>2. (chan \subseteq Rulings)'
    BY DEF DriveInv, Typed, DriveCallBreaks, LoopReturns, NoFixes, NoGate
  <2>3. (wire \subseteq Rulings)'
    BY DEF DriveInv, Typed, DriveCallBreaks, LoopReturns, NoFixes, NoGate
  <2>4. (dpc \in {"idle", "next", "decide", "sent"})'
    BY DEF DriveInv, Typed, DriveCallBreaks, LoopReturns, NoFixes, NoGate
  <2>5. (yes \in BOOLEAN)'
    BY Zenon DEF DriveInv, Typed, DriveCallBreaks, LoopReturns, NoFixes, NoGate
  <2>6. (fixedSteps \in [Steps -> Nat])'
    BY DEF DriveInv, Typed, DriveCallBreaks, LoopReturns, NoFixes, NoGate
  <2>7. (snap = NoSnap \/ snap \in Snaps)'
    BY DEF DriveInv, Typed, Snaps, DriveCallBreaks, LoopReturns, NoFixes, NoGate
  <2>8. (dpc \in {"decide", "sent"} => snap \in Snaps)'
    BY DEF DriveInv, Typed, Snaps, DriveCallBreaks, LoopReturns, NoFixes, NoGate
  <2>9. (rpc # "idle" => ruling \in Rulings /\ ruling.by = "respond")'
    BY DEF DriveInv, Typed, DriveCallBreaks, LoopReturns, NoFixes, NoGate
    <2> QED BY <2>1, <2>2, <2>3, <2>4, <2>5, <2>6, <2>7, <2>8, <2>9 DEF Typed
<1>3. ReadsThePast'
    BY DEF DriveInv, ReadsThePast, DriveCallBreaks, LoopReturns, NoGate, NoFixes
<1>4. AnswersWhatItRead'
    BY DEF DriveInv, AnswersWhatItRead, DriveCallBreaks, LoopReturns, NoGate, NoFixes
<1>5. YesKeepsBudget'
    BY DEF DriveInv, YesKeepsBudget, Overtaken, DriveCallBreaks, LoopReturns, NoGate, NoFixes
<1>6. YesPassesNoFinding'
    BY DEF DriveInv, YesPassesNoFinding, Overtaken, DriveCallBreaks, LoopReturns, NoGate,
      NoFixes
<1> QED BY <1>1, <1>2, <1>3, <1>4, <1>5, <1>6 DEF DriveInv

\* RespondSends keeps the invariant.
LEMMA RespondSendsKeeps ==
    ASSUME DriveInv, NEW a \in Actions, RespondSends(a)
    PROVE  DriveInv'
<1>1. (GateShape /\ ReadsThePast /\ AbortIsFinal)'
    BY DEF DriveInv, GateShape, ReadsThePast, AbortIsFinal, RespondSends
<1>2. Typed'
    BY DEF DriveInv, Typed, Snaps, RespondSends
<1>3. Receipted'
    BY DEF DriveInv, Receipted, SameKey, RespondSends
<1>4. AnswersWhatItRead'
    BY DEF DriveInv, AnswersWhatItRead, RespondSends
<1>5. RulingTakenOnce'
    BY DEF DriveInv, RulingTakenOnce, SameKey, RespondSends
<1>6. ReceiptNamesRound'
    BY DEF DriveInv, ReceiptNamesRound, SameKey, RespondSends
<1>7. YesKeepsBudget'
    BY DEF DriveInv, YesKeepsBudget, Overtaken, RespondSends
<1>8. YesPassesNoFinding'
    BY DEF DriveInv, YesPassesNoFinding, Overtaken, RespondSends
<1> QED BY <1>1, <1>2, <1>3, <1>4, <1>5, <1>6, <1>7, <1>8 DEF DriveInv

\* RespondLosesAnswer keeps the invariant.
LEMMA RespondLosesAnswerKeeps ==
    ASSUME DriveInv, RespondLosesAnswer
    PROVE  DriveInv'
<1>1. (GateShape /\ Receipted /\ ReadsThePast /\ AnswersWhatItRead /\ RulingTakenOnce /\
      ReceiptNamesRound /\ AbortIsFinal /\ YesKeepsBudget /\ YesPassesNoFinding)'
    BY DEF DriveInv, GateShape, Receipted, SameKey, ReadsThePast, AnswersWhatItRead,
      RulingTakenOnce, ReceiptNamesRound, AbortIsFinal, YesKeepsBudget, Overtaken,
      YesPassesNoFinding, RespondLosesAnswer
<1>2. Typed'
    BY DEF DriveInv, Typed, Snaps, RespondLosesAnswer
<1> QED BY <1>1, <1>2 DEF DriveInv

\* RespondRetries keeps the invariant.
LEMMA RespondRetriesKeeps ==
    ASSUME DriveInv, RespondRetries
    PROVE  DriveInv'
<1>1. (GateShape /\ Receipted /\ ReadsThePast /\ RulingTakenOnce /\ ReceiptNamesRound /\
      AbortIsFinal /\ YesKeepsBudget /\ YesPassesNoFinding)'
    BY DEF DriveInv, GateShape, Receipted, SameKey, ReadsThePast, RulingTakenOnce,
      ReceiptNamesRound, AbortIsFinal, YesKeepsBudget, Overtaken, YesPassesNoFinding,
      RespondRetries
<1>2. Typed'
    BY DEF DriveInv, Typed, Snaps, RespondRetries
<1>3. AnswersWhatItRead'
    BY DEF DriveInv, AnswersWhatItRead, Typed, Snaps, RespondRetries
<1> QED BY <1>1, <1>2, <1>3 DEF DriveInv

\* RespondLeaves keeps the invariant.
LEMMA RespondLeavesKeeps ==
    ASSUME DriveInv, RespondLeaves
    PROVE  DriveInv'
<1>1. (GateShape /\ ReadsThePast /\ AnswersWhatItRead /\ AbortIsFinal)'
    BY DEF DriveInv, GateShape, ReadsThePast, AnswersWhatItRead, AbortIsFinal, RespondLeaves,
      RespondReturns
<1>2. Typed'
    BY DEF DriveInv, Typed, Snaps, RespondLeaves, RespondReturns
<1>3. Receipted'
    BY DEF DriveInv, Receipted, SameKey, RespondLeaves, RespondReturns
<1>4. RulingTakenOnce'
    BY DEF DriveInv, RulingTakenOnce, SameKey, RespondLeaves, RespondReturns
<1>5. ReceiptNamesRound'
    BY DEF DriveInv, ReceiptNamesRound, SameKey, RespondLeaves, RespondReturns
<1>6. YesKeepsBudget'
    BY DEF DriveInv, YesKeepsBudget, Overtaken, RespondLeaves, RespondReturns
<1>7. YesPassesNoFinding'
    BY DEF DriveInv, YesPassesNoFinding, Overtaken, RespondLeaves, RespondReturns
<1> QED BY <1>1, <1>2, <1>3, <1>4, <1>5, <1>6, <1>7 DEF DriveInv

\* Abort keeps the invariant.
LEMMA AbortKeeps ==
    ASSUME DriveInv, Abort
    PROVE  DriveInv'
<1>1. (GateShape /\ Receipted /\ ReadsThePast /\ AnswersWhatItRead /\ RulingTakenOnce /\
      ReceiptNamesRound /\ YesKeepsBudget /\ YesPassesNoFinding)'
    BY DEF DriveInv, GateShape, Receipted, SameKey, ReadsThePast, AnswersWhatItRead,
      RulingTakenOnce, ReceiptNamesRound, YesKeepsBudget, Overtaken, YesPassesNoFinding, Abort
<1>2. Typed'
    BY DEF DriveInv, Typed, Snaps, Abort
<1>3. AbortIsFinal'
    BY DEF DriveInv, AbortIsFinal, Abort
<1> QED BY <1>1, <1>2, <1>3 DEF DriveInv

\* waitForTerminalRun keeps the invariant.
LEMMA waitForTerminalRunKeeps ==
    ASSUME DriveInv, waitForTerminalRun
    PROVE  DriveInv'
<1>1. (GateShape /\ Receipted /\ ReadsThePast /\ AnswersWhatItRead /\ RulingTakenOnce /\
      ReceiptNamesRound /\ YesKeepsBudget /\ YesPassesNoFinding)'
    BY DEF DriveInv, GateShape, Receipted, SameKey, ReadsThePast, AnswersWhatItRead,
      RulingTakenOnce, ReceiptNamesRound, YesKeepsBudget, Overtaken, YesPassesNoFinding,
      waitForTerminalRun
<1>2. Typed'
    BY DEF DriveInv, Typed, Snaps, waitForTerminalRun
<1>3. AbortIsFinal'
    BY DEF DriveInv, AbortIsFinal, Typed, Snaps, GateShape, waitForTerminalRun
<1> QED BY <1>1, <1>2, <1>3 DEF DriveInv

-----------------------------------------------------------------------------

\* The invariant holds before anyone has asked.
LEMMA DriveInitially == DriveInit => DriveInv
<1> SUFFICES ASSUME DriveInit PROVE DriveInv
  OBVIOUS
<1>1. Typed
  <2>1. fixedSteps \in [Steps -> Nat] /\ step \in Steps
    BY DEF DriveInit, NoFixes
  <2>2. waiting \in BOOLEAN /\ actionable \in BOOLEAN /\ yes \in BOOLEAN
    BY Zenon DEF DriveInit
  <2> QED BY <2>1, <2>2 DEF DriveInit, Typed
<1>2. GateShape /\ Receipted /\ ReadsThePast /\ AnswersWhatItRead
  BY DEF DriveInit, GateShape, Receipted, ReadsThePast, AnswersWhatItRead
<1>3. RulingTakenOnce /\ ReceiptNamesRound /\ AbortIsFinal /\ YesKeepsBudget /\ YesPassesNoFinding
  BY DEF DriveInit, RulingTakenOnce, ReceiptNamesRound, AbortIsFinal, YesKeepsBudget,
      YesPassesNoFinding
<1> QED BY <1>1, <1>2, <1>3 DEF DriveInv

\* Every step keeps the invariant.
LEMMA DriveStep == DriveInv /\ [DriveNext]_driveVars => DriveInv'
<1> SUFFICES ASSUME DriveInv, [DriveNext]_driveVars PROVE DriveInv'
  OBVIOUS
<1>1. CASE Executor
  BY <1>1, StepParksKeeps, StepPassesKeeps, TakeRulingKeeps, ExecutorEndsKeeps DEF Executor
<1>2. CASE Crash \/ Daemon
  BY <1>2, CrashKeeps, RestartKeeps, ReopenKeeps DEF Daemon
<1>3. ASSUME NEW c \in {"drive", "respond"}, Serves(c) PROVE DriveInv'
  BY <1>3, AcceptResponseKeeps, AnswerReplayKeeps DEF Serves
<1>4. ASSUME NEW y \in BOOLEAN, DriveStarts(y) PROVE DriveInv'
  BY <1>4, DriveStartsKeeps
<1>5. CASE DriveReads \/ Loop \/ DriveHearsLog \/ DriveGivesUp \/ DriveDies
  BY <1>5, DriveReadsKeeps, DriveWaitsKeeps, DriveReturnsKeeps, DriveAnswersKeeps,
      DriveCallBreaksKeeps, DriveHearsLogKeeps, DriveGivesUpKeeps, DriveDiesKeeps DEF Loop
<1>6. ASSUME NEW a \in Actions, RespondSends(a) PROVE DriveInv'
  BY <1>6, RespondSendsKeeps
<1>7. CASE RespondLosesAnswer \/ RespondRetries \/ RespondLeaves \/ Abort \/ waitForTerminalRun
  BY <1>7, RespondLosesAnswerKeeps, RespondRetriesKeeps, RespondLeavesKeeps, AbortKeeps,
      waitForTerminalRunKeeps
<1>8. CASE UNCHANGED driveVars
  BY <1>8 DEF DriveInv, Typed, GateShape, Receipted, SameKey, ReadsThePast, AnswersWhatItRead,
      RulingTakenOnce, ReceiptNamesRound, AbortIsFinal, YesKeepsBudget, YesPassesNoFinding, Overtaken
<1> QED BY <1>1, <1>2, <1>3, <1>4, <1>5, <1>6, <1>7, <1>8 DEF DriveNext

\* What the other theorems rest on: the inductive invariant holds in every state.
THEOREM DriveInvHolds == DriveSpec => []DriveInv
<1> QED BY DriveInitially, DriveStep, PTL DEF DriveSpec

\* The channel that hands a ruling to the executor holds one at the most.
LEMMA OneRulingAtATime == GateShape => Cardinality(chan) <= 1
<1>1. SUFFICES ASSUME GateShape PROVE Cardinality(chan) <= 1
  OBVIOUS
<1>2. CASE chan = {}
  BY <1>2, FS_EmptySet
<1>3. CASE chan # {}
  <2>1. PICK r : r \in chan
    BY <1>3
  <2>2. chan = {r}
    BY <1>1, <2>1 DEF GateShape
  <2>3. Cardinality(chan) = 1
    BY <2>2, FS_Singleton
  <2> QED BY <2>3
<1> QED BY <1>2, <1>3

\* For any number of steps, rounds, drive loops, responses and crashes: a ruling takes effect
\* once, on the round its receipt names, and none after a confirmed abort (AcceptResponse,
\* ReplayResponse, waitForTerminalRun).
THEOREM RulingsAreSettled == DriveSpec => []RulingsSettle
<1>1. DriveInv => RulingsSettle
  BY OneRulingAtATime DEF DriveInv, Typed, RulingsSettle, DriveTypeOK
<1> QED BY <1>1, DriveInvHolds, PTL

\* For any budget and any number of loops and crashes: --yes funds no fix beyond the step's budget
\* and approves no actionable finding, unless it was overtaken (gateResolution).
THEOREM YesStaysBounded == DriveSpec => []YesIsBounded
<1>1. DriveInv => YesIsBounded
  BY DEF DriveInv, YesIsBounded
<1> QED BY <1>1, DriveInvHolds, PTL
=============================================================================
