-------------------------------- MODULE Slop --------------------------------
(***************************************************************************)
(* `noslop gate` (internal/slop/cli, internal/slop/engine): a process      *)
(* routes a change to a tier, runs the mandatory checks, the reviewer's    *)
(* rounds and the tests the tier asks for, and records its verdict in a    *)
(* history file that the next processes are routed by                      *)
(* (internal/slop/provenance).  Several processes share the file; each     *)
(* read and each append holds its lock, and a process may die anywhere.    *)
(*                                                                         *)
(* A request names a change and the flags of the command.  The reviewer    *)
(* and the tests answer anything.  The tests and the reviewer work on the  *)
(* checkout, which is taken to be at the head revision.                    *)
(***************************************************************************)
EXTENDS SlopRules, TLC

CONSTANTS
    Gates,      \* noslop processes
    Requests,   \* [name -> request]: what may be asked of them
    NoGate,
    Window,     \* changes of a lane that count (10 in the code)
    Repeats,    \* findings of one lens that raise the tier (3 in the code)
    Menu,       \* bound: a sequence, the requests of the first, the second ... command
    MaxKilled   \* bound: processes that die, or fail in the middle of a record

ASSUME SlopAssumption ==
    /\ NoGate \notin Gates
    /\ {Window, Repeats} \subseteq Nat \ {0} /\ MaxKilled \in Nat
    /\ \A i \in DOMAIN Menu : Menu[i] \subseteq DOMAIN Requests

Lenses == {"test-capitulation", "vacuous-check"}

VARIABLES
    gate,     \* per process: the command it runs
    ledger,   \* the history file: the records that were written whole
    torn,     \* and whether a line in it was not
    writer,   \* the process that has begun a line, or NoGate: it holds the lock
    asked,    \* commands so far
    killed    \* of these so far

slopVars == <<gate, ledger, torn, writer, asked, killed>>

NoCommand == [at |-> "idle", run |-> 0]

SlopInit ==
    /\ gate = [g \in Gates |-> NoCommand]
    /\ ledger = <<>> /\ torn = FALSE /\ writer = NoGate
    /\ asked = 0 /\ killed = 0

Request(g) == Requests[gate[g].req]
Becomes(g, command) == gate' = [gate EXCEPT ![g] = command]

\* The command ends without a record.
Quits(g) == Becomes(g, [at |-> "over", run |-> gate[g].run, exit |-> 2])

-----------------------------------------------------------------------------
(* The history.                                                            *)

\* FileStore.Recent: the last records of the lane and model.
Recent(key) ==
    LET matches == SelectSeq(ledger, LAMBDA r : r.key = key)
    IN IF Len(matches) > Window THEN SubSeq(matches, Len(matches) - Window + 1, Len(matches)) ELSE matches

\* A lens repeats when the records accepted enough findings of it.
PriorityLenses(history) ==
    {lens \in Lenses : MapThenSumSet(
        LAMBDA i : Cardinality({f \in history[i].found : f.lens = lens}), DOMAIN history) >= Repeats}

raiseTier(tier) == IF tier = 1 THEN 2 ELSE 3

\* Mutant: a history with a torn line counts as empty.
TornIsEmpty(key, tier) ==
    LET lenses == PriorityLenses(Recent(key))
    IN IF key = "unknown" \/ torn \/ lenses = {} THEN [tier |-> tier, escalated |-> FALSE, lenses |-> {}]
       ELSE [tier |-> raiseTier(tier), escalated |-> TRUE, lenses |-> lenses]

\* conditionOnProvenance.
Conditioned(key, tier) ==
    LET lenses == PriorityLenses(Recent(key))
    IN IF key = "unknown" THEN [tier |-> tier, escalated |-> FALSE, lenses |-> {}]
       ELSE IF torn THEN [tier |-> 3, escalated |-> TRUE, lenses |-> {}]
       ELSE IF lenses = {} THEN [tier |-> tier, escalated |-> FALSE, lenses |-> {}]
       ELSE [tier |-> raiseTier(tier), escalated |-> TRUE, lenses |-> lenses]

\* applyOverride refuses a tier below the one the history asked for.
Refuses(decision, override, force) == decision.escalated /\ override < decision.tier /\ ~force

-----------------------------------------------------------------------------
(* The command.                                                            *)

\* runGate up to the engine: a configured blocklist that cannot be read ends it.
Ask(g, q) ==
    /\ gate[g].at \in {"idle", "over"} /\ asked < Len(Menu) /\ q \in Menu[asked + 1]
    /\ asked' = asked + 1
    /\ IF Requests[q].names = "unreadable" \/ Requests[q].files = {}
       THEN Becomes(g, [at |-> "over", run |-> asked + 1, exit |-> 2])
       ELSE Becomes(g, [at |-> "asked", run |-> asked + 1, req |-> q])
    /\ UNCHANGED <<ledger, torn, writer, killed>>

\* The tier of each request, whatever its history.
Routed == [q \in DOMAIN Requests |-> RoutedTier(Requests[q].files, Requests[q].onDefault)]

\* Classify: a refused override ends the command with its record, which names no finding.
Classify(g) ==
    /\ gate[g].at = "asked"
    /\ Request(g).key = "unknown" \/ writer = NoGate
    /\ LET q == Request(g)
           decision == Conditioned(q.key, Routed[gate[g].req])
           refused == q.override # 0 /\ Refuses(decision, q.override, q.force)
           command == [run |-> gate[g].run, req |-> gate[g].req,
                       heard |-> IF torn THEN -1 ELSE Len(ledger),
                       tier |-> IF q.override = 0 \/ refused THEN decision.tier ELSE q.override,
                       probed |-> "test-capitulation" \in decision.lenses,
                       found |-> {}, rounds |-> 0, tested |-> FALSE]
       IN Becomes(g, command @@ IF refused THEN [at |-> "verdict", outcome |-> "error"]
                                ELSE [at |-> "routed", outcome |-> "none"])
    /\ UNCHANGED <<ledger, torn, writer, asked, killed>>

\* An error of the engine: nothing it found so far is kept.
Fails(g) == Becomes(g, [gate[g] EXCEPT !.at = "verdict", !.outcome = "error", !.found = {}, !.rounds = 0])

\* After the checks and rounds come the tests in the full tier, then the verdict.
AfterReview(command, found) ==
    IF command.tier = 3 THEN [command EXCEPT !.at = "reviewed", !.found = found]
    ELSE [command EXCEPT !.at = "verdict", !.found = found,
                         !.outcome = IF found = {} THEN "pass" ELSE "fail"]

\* The mandatory checks, whatever the tier.
MandatoryFindings(q, probed) ==
    Scan(q.files, q.intent)
    \cup LeakScan(q.files, q.names = "loaded", q.refuseExemptions)
    \cup (IF q.floor \/ probed THEN TestFloor(q.files) ELSE {})
    \cup Tells(q.files) \cup EvidenceCheck(q.files, q.evidence)

\* The live thread: what prose.Check finds there, or why it cannot say.
CheckChange(g) ==
    /\ gate[g].at = "routed"
    /\ LET q == Request(g)
           Found(live) == MandatoryFindings(q, gate[g].probed) \cup live
           Go(live) == Becomes(g, IF gate[g].tier = 1 THEN AfterReview(gate[g], Found(live))
                                  ELSE [gate[g] EXCEPT !.at = "checked", !.found = Found(live)])
       IN \/ ~q.thread /\ Go({})
          \/ q.thread /\ Outbound(q.files) = {} /\ Fails(g)
          \/ /\ q.thread /\ Outbound(q.files) # {}
             /\ \/ Fails(g)
                \/ \E open \in BOOLEAN, comments \in {{}, {"point"}} :
                     Go(Duplicates(q.files, comments)
                        \cup (IF open THEN {} ELSE {Finding("thread-closed", "")}))
    /\ UNCHANGED <<ledger, torn, writer, asked, killed>>

\* One round of the reviewer: one in the single tier, a second that challenges
\* it in the full one.  A finding of a lens and line that is known is not added.
Review(g) ==
    /\ gate[g].at = "checked"
    /\ \/ Fails(g)
       \/ \E findings \in {{}, {Finding("vacuous-check", "reviewed")}} :
            LET found == gate[g].found \cup findings
                reviewed == [gate[g] EXCEPT !.rounds = @ + 1]
            IN Becomes(g, IF reviewed.rounds = gate[g].tier - 1 THEN AfterReview(reviewed, found)
                          ELSE [reviewed EXCEPT !.found = found])
    /\ UNCHANGED <<ledger, torn, writer, asked, killed>>

\* The tests of the full tier: not configured is a finding too.
RunTests(g) ==
    /\ gate[g].at = "reviewed"
    /\ LET Verdict(more, ran) ==
               Becomes(g, [gate[g] EXCEPT !.at = "verdict", !.found = @ \cup more, !.tested = ran,
                   !.outcome = IF gate[g].found \cup more = {} THEN "pass" ELSE "fail"])
       IN \/ ~Request(g).tests /\ Verdict({Finding("tests-not-configured", "")}, FALSE)
          \/ Request(g).tests /\ \/ Verdict({}, TRUE) \/ Verdict({Finding("test-failure", "")}, TRUE)
                                 \/ Fails(g)
    /\ UNCHANGED <<ledger, torn, writer, asked, killed>>

\* FileStore.Append, in two steps: under the lock a line is begun,
BeginRecord(g) ==
    /\ gate[g].at = "verdict" /\ writer = NoGate
    /\ writer' = g
    /\ UNCHANGED <<gate, ledger, torn, asked, killed>>

\* and finished: after a torn line it becomes part of it.  Then the exit code
\* tells the verdict.
EndRecord(g) ==
    /\ writer = g /\ writer' = NoGate
    /\ ledger' = IF torn THEN ledger
                 ELSE Append(ledger, [key |-> Request(g).key, run |-> gate[g].run, tier |-> gate[g].tier,
                                      found |-> gate[g].found, outcome |-> gate[g].outcome])
    /\ Becomes(g, [gate[g] EXCEPT !.at = "over"] @@
           [exit |-> CASE gate[g].outcome = "pass" -> 0 [] gate[g].outcome = "fail" -> 1 [] OTHER -> 2])
    /\ UNCHANGED <<torn, asked, killed>>

\* The record cannot be written, or only half of it: the command fails, whatever
\* the verdict was.
RecordFails(g) ==
    /\ gate[g].at = "verdict" /\ Quits(g) /\ writer' = NoGate
    /\ \/ writer = NoGate /\ UNCHANGED <<torn, killed>>
       \/ writer = g /\ killed < MaxKilled /\ killed' = killed + 1 /\ torn' = TRUE
    /\ UNCHANGED <<ledger, asked>>

\* The process dies.  The system frees its lock; a line it began may stay half.
Die(g) ==
    /\ gate[g].at \notin {"idle", "over"} /\ killed < MaxKilled
    /\ killed' = killed + 1
    /\ Becomes(g, NoCommand)
    /\ torn' \in {torn, torn \/ writer = g}
    /\ writer' = IF writer = g THEN NoGate ELSE writer
    /\ UNCHANGED <<ledger, asked>>

SlopNext == \E g \in Gates :
    \/ \E q \in DOMAIN Requests : Ask(g, q)
    \/ Classify(g) \/ CheckChange(g) \/ Review(g) \/ RunTests(g)
    \/ BeginRecord(g) \/ EndRecord(g) \/ RecordFails(g)
    \/ Die(g)

SlopSpec == SlopInit /\ [][SlopNext]_slopVars

-----------------------------------------------------------------------------
(* Properties.                                                             *)

SlopTypeOK ==
    /\ DOMAIN gate = Gates
    /\ \A g \in Gates : /\ gate[g].run \in 0..Len(Menu)
                        /\ gate[g].at \in {"idle", "asked", "routed", "checked", "reviewed", "verdict", "over"}
    /\ writer \in Gates \cup {NoGate} /\ torn \in BOOLEAN
    /\ asked \in 0..Len(Menu) /\ killed \in 0..MaxKilled

Decided(g) == gate[g].at \in {"verdict", "over"} /\ "outcome" \in DOMAIN gate[g]

\* The n records file first: those that count for a key are fewer than Window from the end.
Counts(key, n) == {i \in 1..n : /\ ledger[i].key = key
                                /\ Cardinality({j \in i..n : ledger[j].key = key}) <= Window}

Repeated(lens, key, n) ==
    \E picks \in SUBSET (Counts(key, n) \X {f \in UNION {ledger[i].found : i \in 1..n} : f.lens = lens}) :
        Cardinality(picks) = Repeats /\ \A p \in picks : p[2] \in ledger[p[1]].found

\* classifier.go, README: the history of a lane raises the tier of its next change,
\* an unreadable one asks for everything, and a lower tier takes --force-tier.
HistoryHeeded == \A g \in Gates : Decided(g) /\ gate[g].outcome # "error" =>
    LET q == Request(g)
    IN q.key # "unknown" /\ ~q.force /\ gate[g].tier < 3 =>
        /\ gate[g].heard # -1
        /\ (\E lens \in Lenses : Repeated(lens, q.key, gate[g].heard)) => gate[g].tier > Routed[gate[g].req]

\* What nobody may pass with, read off the files themselves.
Blemished(q, f) ==
    \/ \E line \in f.leaks : line.kind = "secret" /\ (~line.marked \/ q.refuseExemptions)
    \/ {"permissive", "error"} \subseteq f.shapes /\ "policy" \notin f.shapes
    \/ "outbound" \in Traits[f.path] /\ f.status # "deleted" /\ f.tells # {}

\* engine.go, Run: a pass means that every check of its tier ran and found nothing,
\* in the first round, in the challenge and in the tests.
PassIsEarned == \A g \in Gates : Decided(g) /\ gate[g].outcome = "pass" =>
    LET q == Request(g)
    IN /\ \A f \in q.files : ~Blemished(q, f)
       /\ gate[g].rounds = gate[g].tier - 1
       /\ gate[g].tier = 3 => gate[g].tested
       /\ gate[g].found = {}
       /\ TestFloor(q.files) = {} \/ q.key = "unknown" \/ gate[g].heard = -1
              \/ ~Repeated("test-capitulation", q.key, gate[g].heard)

\* store.go, Append: a verdict that was told is in the history, once and as it
\* was told, unless a process died while it wrote; and nothing else is.
VerdictsKept ==
    /\ \A g \in Gates : gate[g].at = "over" /\ "outcome" \in DOMAIN gate[g] /\ ~torn =>
        \E i \in DOMAIN ledger : /\ ledger[i].run = gate[g].run /\ ledger[i].outcome = gate[g].outcome
                                 /\ ledger[i].tier = gate[g].tier
    /\ \A i, j \in DOMAIN ledger : ledger[i].run = ledger[j].run => i = j

\* The gate keeps what it promises: on the change, on the history, on the verdict.
SlopSafe == SlopTypeOK /\ HistoryHeeded /\ PassIsEarned /\ VerdictsKept /\ RulesSound
=============================================================================
