------------------------------- MODULE Corpus -------------------------------
(***************************************************************************)
(* The evaluation corpus: internal/eval (capture.go, store.go, objects.go, *)
(* replay.go, miss.go, diversified.go), as the daemon and the "no-slop     *)
(* eval" commands use it.                                                  *)
(*                                                                         *)
(* A case of a review round is kept in three places that no transaction    *)
(* spans: a directory with its labels, four refs in an object pool shared  *)
(* by the cases of a repository, and a row of the registry.  Capturing,    *)
(* pruning, relabelling, ingesting and reserving hold the corpus lock; a   *)
(* replay, which runs for minutes, and the reading of case sets do not.    *)
(* Any process may die between two of its writes.                          *)
(*                                                                         *)
(* The cases are the rounds of one run, captured oldest first.  The lease  *)
(* of a live replay is taken to be refreshed in time; that of a dead one   *)
(* runs out.  Scores, costs and reports are left out.                      *)
(***************************************************************************)
EXTENDS Naturals, Sequences, FiniteSets, FiniteSetsExt, SequencesExt

CONSTANTS
    Evaluators,     \* processes that use the corpus
    ReviewedRuns,   \* what the pipeline recorded of a run's rounds: a set of sequences
    Strata,         \* language, size and severity of each case
    SetSizes,       \* sizes of the diversified set
    MaxCases,       \* retention target
    MaxEvalOps,     \* bound: operations
    MaxMishaps      \* bound: deaths and failed writes

NoCase == 0

VARIABLES
    reviewRounds, shipped,  \* the source run
    dirs,                   \* case directories: "absent" or "case"
    labels,                 \* labels.json of each case
    poolRefs,               \* refs of each case in the pool: "none" or "all"
    registered,             \* registered cases
    doomed,                 \* pending_case_deletions
    stray, expired,         \* reservations of dead sessions, current and run out
    evaluated,              \* cases with a recorded evaluation
    picked, pickedFor,      \* diversified pins, and the size they were planned for
    setSize,                \* the size configured
    corpusLock, doing,
    evalOps, mishaps,
    spent,                  \* history: cases an evaluation was recorded for
    ingested,               \* history: misses confirmed for a case
    raced,                  \* history: cases whose labels were overwritten from a stale read
    halfDone                \* history: cases a capture was interrupted on

corpusVars ==
    <<reviewRounds, shipped, dirs, labels, poolRefs, registered, doomed, stray, expired, evaluated,
      picked, pickedFor, setSize, corpusLock, doing, evalOps, mishaps, spent, ingested, raced, halfDone>>
caseFiles == <<dirs, labels, poolRefs>>
pinSets == <<picked, pickedFor>>
caseRegistry == <<registered, doomed, evaluated, pinSets>>
caseLeases == <<stray, expired>>
sourceRun == <<reviewRounds, shipped, setSize>>
evalHist == <<spent, ingested, raced, halfDone>>

CaseIds == DOMAIN reviewRounds
NoLabels == [gold |-> {}, queued |-> 0]
NoEval == [op |-> "idle", pc |-> "idle", c |-> NoCase, set |-> {}, read |-> NoLabels]

-----------------------------------------------------------------------------
(* Gold: what the recorded decision of a round says of its findings.       *)

DecisionOf(r) ==
    IF r.sel # {} THEN "fix"
    ELSE IF r.step = "skipped" THEN "skip"
    ELSE IF r.step = "aborted" THEN "abort"
    ELSE IF r.asks /\ r.step = "completed" THEN "approve" ELSE "unknown"

Decided(r) == r.by # "none" \/ DecisionOf(r) \in {"fix", "skip", "approve"}

GoldLabel(id, kind, by) == [id |-> id, kind |-> kind, by |-> by]

\* Finding "a" is the review's own, "u" one the user added.
GoldOf(r, landed) ==
    (IF r.by = "user" /\ "a" \in r.sel THEN {GoldLabel("a", "tp", "userFix")} ELSE {})
    \cup (IF r.by = "auto" /\ "a" \in r.sel /\ landed
          THEN {GoldLabel("a", "tp", "autoFixMerged")} ELSE {})
    \cup (IF r.added THEN {GoldLabel("u", "fn", "userAdded")} ELSE {})
    \cup (IF landed /\ Decided(r) /\ "a" \notin r.sel /\ ~r.info
          THEN {GoldLabel("a", "fp", "shippedUnfixed")} ELSE {})

Derived(g) == g.by \in {"autoFixMerged", "shippedUnfixed"}

\* Labels the merge implied are computed anew; every other one stays.
MergeGold(l, computed) ==
    LET kept == {g \in l.gold : ~Derived(g)}
    IN  [l EXCEPT !.gold = kept \cup {g \in computed : \A k \in kept : k.id # g.id}]

-----------------------------------------------------------------------------
(* The diversified set.                                                    *)

Labelled == {c \in registered : labels[c].gold # {}}
Issues(c) == {g \in labels[c].gold : g.kind # "fp"}
StratumOf(c) == <<Strata[c], IF Issues(c) # {} THEN "issue" ELSE "fp">>

InOrder(S) == SetToSortSeq(S, LAMBDA a, b : a < b)

\* The cases of a stratum, those with most issues first.
Ranked(S) == SetToSortSeq(S, LAMBDA a, b :
    \/ Cardinality(Issues(a)) > Cardinality(Issues(b))
    \/ Cardinality(Issues(a)) = Cardinality(Issues(b)) /\ a < b)

OnePerStratum(ps) ==
    FoldLeft(LAMBDA acc, p : IF \E i \in DOMAIN acc : acc[i].stratum = p.stratum
                             THEN acc ELSE Append(acc, p), <<>>, ps)

\* Largest remainders, in as many rounds as there are seats left.
HamiltonSeats(weights, seats, capacities) ==
    LET strata == DOMAIN weights
        total == FoldFunction(+, 0, weights)
        floor == [s \in strata |-> Min({(seats * weights[s]) \div total, capacities[s]})]
        order == SetToSortSeq(strata, LAMBDA a, b :
                    \/ (seats * weights[a]) % total > (seats * weights[b]) % total
                    \/ (seats * weights[a]) % total = (seats * weights[b]) % total /\ a < b)
        turns == FlattenSeq([i \in 1..seats |-> order])
        Give(acc, s) == IF FoldFunction(+, 0, acc) < seats /\ acc[s] < capacities[s]
                        THEN [acc EXCEPT ![s] = @ + 1] ELSE acc
    IN  FoldLeft(Give, floor, turns)

\* Pins stay while their case has gold; what room is left goes to strata without one.
Foremost(pins, n) == SubSeq(pins, 1, Min({n, Len(pins)}))
KeptPins(pins) ==
    IF setSize = 0 THEN OnePerStratum(pins)
    ELSE IF Len(pins) > setSize THEN Foremost(OnePerStratum(pins), setSize) ELSE pins

Unpinned(kept, stratum) == {c \in Labelled : StratumOf(c) = stratum} \ {kept[j].c : j \in DOMAIN kept}
Weights(new) == [i \in DOMAIN new |-> Cardinality({c \in Labelled : StratumOf(c) = new[i]})]
SeatsFor(new, weights, kept, crowded) ==
    IF setSize = 0 THEN [i \in DOMAIN new |-> 1]
    ELSE IF new = <<>> \/ Len(kept) = setSize THEN [i \in DOMAIN new |-> 0]
    ELSE HamiltonSeats(weights, setSize - Len(kept), IF crowded THEN [i \in DOMAIN new |-> 1] ELSE weights)
Seated(kept, new, seats) ==
    UNION {{[c |-> Ranked(Unpinned(kept, new[i]))[k], stratum |-> new[i]] :
                k \in 1..Min({seats[i], Cardinality(Unpinned(kept, new[i]))})} : i \in DOMAIN new}
PlanBeside(kept, new, crowded) ==
    kept \o SetToSortSeq(Seated(kept, new, SeatsFor(new, Weights(new), kept, crowded)), LAMBDA a, b : a.c < b.c)
PlanWith(kept, crowded) ==
    PlanBeside(kept, SetToSeq({StratumOf(c) : c \in Labelled} \ {kept[i].stratum : i \in DOMAIN kept}), crowded)
PlanAfter(pins) == PlanWith(KeptPins(pins), setSize # 0 /\ Len(pins) > setSize)
Planned(existing) == PlanAfter(SelectSeq(existing, LAMBDA p : p.c \in Labelled))

PickedCases == {picked[i].c : i \in DOMAIN picked}

SetNamed(name, plan) ==
    CASE name = "all" -> registered
      [] name = "labelled" -> Labelled
      [] name = "diversified" -> {plan[i].c : i \in DOMAIN plan}
      [] name = "tune" -> Labelled \ {plan[i].c : i \in DOMAIN plan}

-----------------------------------------------------------------------------

CorpusInit ==
    /\ reviewRounds \in ReviewedRuns /\ setSize \in SetSizes /\ shipped = FALSE
    /\ dirs = [c \in CaseIds |-> "absent"] /\ labels = [c \in CaseIds |-> NoLabels]
    /\ poolRefs = [c \in CaseIds |-> "none"]
    /\ registered = {} /\ doomed = {} /\ stray = {} /\ expired = {} /\ evaluated = {}
    /\ picked = <<>> /\ pickedFor = setSize
    /\ corpusLock = "free" /\ doing = [p \in Evaluators |-> NoEval]
    /\ evalOps = 0 /\ mishaps = 0
    /\ spent = {} /\ ingested = [c \in CaseIds |-> FALSE] /\ raced = {} /\ halfDone = {}

Reached(p, pc) == doing[p].pc = pc
Does(p, op) == doing[p].op = op
Turns(p, pc) == doing' = [doing EXCEPT ![p].pc = pc]
TurnsTo(p, pc, c) == doing' = [doing EXCEPT ![p].pc = pc, ![p].c = c]
Finishes(p) == doing' = [doing EXCEPT ![p] = NoEval]
\* Lets go of the lock and ends.
Leaves(p) == corpusLock' = "free" /\ Finishes(p)

LiveCases == UNION {doing[p].set : p \in {q \in Evaluators : Does(q, "replay")}}

-----------------------------------------------------------------------------
(* Taking the lock, and the deletions a former pruning left over.          *)

BeginEval(p, op) ==
    /\ Reached(p, "idle") /\ evalOps < MaxEvalOps /\ evalOps' = evalOps + 1
    /\ doing' = [doing EXCEPT ![p] = [NoEval EXCEPT !.op = op, !.pc =
                    CASE op \in {"auto", "capture", "ingest"} -> "waitSweep"
                      [] op = "relabel" -> "waitRelabel"
                      [] op = "replay" -> "waitReserve"
                      [] op = "sets" -> "plan"]]
    /\ UNCHANGED <<sourceRun, caseFiles, caseRegistry, caseLeases, corpusLock, mishaps, evalHist>>

LocksCorpus(p) ==
    /\ corpusLock = "free" /\ corpusLock' = p
    /\ \/ Reached(p, "waitSweep") /\ TurnsTo(p, "sweep", NoCase)
       \/ Reached(p, "waitPrune") /\ TurnsTo(p, "sweep", NoCase)
       \/ Reached(p, "waitAppend") /\ Turns(p, "append")
       \/ Reached(p, "waitRelabel") /\ TurnsTo(p, "relabel", 1)
       \/ Reached(p, "waitReserve") /\ Turns(p, "reserve")
    /\ UNCHANGED <<sourceRun, caseFiles, caseRegistry, caseLeases, evalOps, mishaps, evalHist>>

\* The refs, the directory, and only then the note of the deletion.
SweepRefs(p) ==
    /\ Reached(p, "sweep")
    /\ IF doomed = {}
       THEN /\ CASE Does(p, "prune") -> Turns(p, "expire") /\ UNCHANGED corpusLock
                 [] Does(p, "pruned") -> Leaves(p)
                 [] OTHER -> TurnsTo(p, "round", 1) /\ UNCHANGED corpusLock
            /\ UNCHANGED poolRefs
       ELSE LET c == Min(doomed)
            IN  /\ poolRefs' = [poolRefs EXCEPT ![c] = "none"]
                /\ TurnsTo(p, "sweepDir", c) /\ UNCHANGED corpusLock
    /\ UNCHANGED <<sourceRun, dirs, labels, caseRegistry, caseLeases, evalOps, mishaps, evalHist>>

SweepDir(p) ==
    /\ Reached(p, "sweepDir") /\ Turns(p, "sweepRow")
    /\ dirs' = [dirs EXCEPT ![doing[p].c] = "absent"]
    /\ labels' = [labels EXCEPT ![doing[p].c] = NoLabels]
    /\ ingested' = [ingested EXCEPT ![doing[p].c] = FALSE]
    /\ raced' = raced \ {doing[p].c}
    /\ UNCHANGED <<sourceRun, poolRefs, caseRegistry, caseLeases, corpusLock, evalOps, mishaps,
                   spent, halfDone>>

SweepRow(p) ==
    /\ Reached(p, "sweepRow") /\ Turns(p, "sweep")
    /\ doomed' = doomed \ {doing[p].c}
    /\ UNCHANGED <<sourceRun, caseFiles, registered, evaluated, pinSets, caseLeases, corpusLock,
                   evalOps, mishaps, evalHist>>

-----------------------------------------------------------------------------
(* Capture.                                                                *)

\* The last finished round; informational findings do not block.
GreenRound == Max({c \in CaseIds : reviewRounds[c].state # "unfinished"} \cup {1})
PassedGreen(r) == r.state = "whole" /\ r.step = "completed" /\ r.info

\* Nothing to capture, or all of it captured.
CaptureEnds(p, done) ==
    CASE Does(p, "auto") /\ done ->
            /\ corpusLock' = "free"
            /\ doing' = [doing EXCEPT ![p].op = "prune", ![p].pc = "waitPrune"]
      [] Does(p, "ingest") /\ done /\ PassedGreen(reviewRounds[GreenRound]) ->
            /\ corpusLock' = "free"
            /\ doing' = [doing EXCEPT ![p].pc = "waitAppend", ![p].c = GreenRound,
                                      ![p].read = labels[GreenRound]]
      [] OTHER -> Leaves(p)

NextRound(p) ==
    /\ Reached(p, "round")
    /\ LET c == doing[p].c
       IN  IF c \notin CaseIds
           THEN CaptureEnds(p, \E d \in CaseIds : reviewRounds[d].state = "whole")
           ELSE LET r == reviewRounds[c]
                IN  IF r.state = "unfinished" THEN TurnsTo(p, "round", c + 1) /\ UNCHANGED corpusLock
                    ELSE IF r.state = "unproven" \/ (r.step = "parked" /\ GoldOf(r, shipped) = {})
                         THEN Leaves(p)
                         ELSE /\ UNCHANGED corpusLock
                              /\ Turns(p, IF dirs[c] = "case" THEN "label" ELSE "store")
    /\ UNCHANGED <<sourceRun, caseFiles, caseRegistry, caseLeases, evalOps, mishaps, evalHist>>

StoreObjects(p) ==
    /\ Reached(p, "store") /\ Turns(p, "publish")
    /\ poolRefs' = [poolRefs EXCEPT ![doing[p].c] = "all"]
    /\ UNCHANGED <<sourceRun, dirs, labels, caseRegistry, caseLeases, corpusLock, evalOps,
                   mishaps, evalHist>>

\* The directory is written aside and renamed.
PublishCase(p) ==
    LET c == doing[p].c
    IN  /\ Reached(p, "publish") /\ Turns(p, "register")
        /\ dirs' = [dirs EXCEPT ![c] = "case"]
        /\ labels' = [labels EXCEPT ![c] = [gold |-> GoldOf(reviewRounds[c], shipped), queued |-> 0]]
        /\ UNCHANGED <<sourceRun, poolRefs, caseRegistry, caseLeases, corpusLock, evalOps,
                       mishaps, evalHist>>

\* A case that cannot be written gives its refs back.
PublishCaseFails(p) ==
    /\ Reached(p, "publish") /\ mishaps < MaxMishaps /\ mishaps' = mishaps + 1
    /\ poolRefs' = [poolRefs EXCEPT ![doing[p].c] = "none"]
    /\ Leaves(p)
    /\ UNCHANGED <<sourceRun, dirs, labels, caseRegistry, caseLeases, evalOps, evalHist>>

RegisterCase(p) ==
    /\ Reached(p, "register")
    /\ registered' = registered \cup {doing[p].c}
    /\ TurnsTo(p, IF Does(p, "relabel") THEN "relabel" ELSE "round", doing[p].c + 1)
    /\ halfDone' = halfDone \ {doing[p].c}
    /\ UNCHANGED <<sourceRun, caseFiles, doomed, evaluated, pinSets, caseLeases, corpusLock,
                   evalOps, mishaps, spent, ingested, raced>>

RelabelExisting(p) ==
    LET c == doing[p].c
    IN  /\ Reached(p, "label") /\ Turns(p, "register")
        /\ labels' = [labels EXCEPT ![c] = MergeGold(@, GoldOf(reviewRounds[c], shipped))]
        /\ UNCHANGED <<sourceRun, dirs, poolRefs, caseRegistry, caseLeases, corpusLock, evalOps,
                       mishaps, evalHist>>

\* The registered cases of the run.
Relabel(p) ==
    /\ Reached(p, "relabel")
    /\ LET rest == {c \in registered : c >= doing[p].c}
       IN  IF rest = {} THEN Leaves(p) ELSE TurnsTo(p, "label", Min(rest)) /\ UNCHANGED corpusLock
    /\ UNCHANGED <<sourceRun, caseFiles, caseRegistry, caseLeases, evalOps, mishaps, evalHist>>

-----------------------------------------------------------------------------
(* Prune.                                                                  *)

DropExpired(p) ==
    /\ Reached(p, "expire") /\ expired' = {}
    /\ Turns(p, "select")
    /\ UNCHANGED <<sourceRun, caseFiles, caseRegistry, stray, corpusLock, evalOps, mishaps, evalHist>>

Protected == evaluated \cup stray \cup LiveCases

\* Mutant: a replay in progress protects nothing.
SelectVictimsUnreserved(p) ==
    /\ Reached(p, "select")
    /\ LET free == InOrder(registered \ evaluated)
           excess == IF Cardinality(registered) > MaxCases THEN Cardinality(registered) - MaxCases ELSE 0
           n == Min({excess, Len(free)})
       IN  doing' = [doing EXCEPT ![p].pc = "delete", ![p].set = {free[i] : i \in 1..n}]
    /\ UNCHANGED <<sourceRun, caseFiles, caseRegistry, caseLeases, corpusLock, evalOps, mishaps,
                   evalHist>>

SelectVictims(p) ==
    /\ Reached(p, "select")
    /\ LET total == Cardinality(registered)
           excess == IF MaxCases > 0 /\ total > MaxCases THEN total - MaxCases ELSE 0
           free == InOrder(registered \ Protected)
           n == Min({excess, Len(free)})
       IN  IF excess = 0 THEN Leaves(p)
           ELSE /\ doing' = [doing EXCEPT ![p].pc = "delete", ![p].set = {free[i] : i \in 1..n}]
                /\ UNCHANGED corpusLock
    /\ UNCHANGED <<sourceRun, caseFiles, caseRegistry, caseLeases, evalOps, mishaps, evalHist>>

\* The row goes, with its pin and its evaluations, and the deletion is noted; a
\* reservation that ran out since keeps the row and fails the pruning.
DeleteVictim(p) ==
    /\ Reached(p, "delete")
    /\ IF doing[p].set = {}
       THEN /\ doing' = [doing EXCEPT ![p].op = "pruned", ![p].pc = "sweep"]
            /\ UNCHANGED <<caseRegistry, corpusLock>>
       ELSE LET c == Min(doing[p].set)
            IN  IF c \in expired
                THEN Leaves(p) /\ UNCHANGED caseRegistry
                ELSE /\ registered' = registered \ {c} /\ doomed' = doomed \cup {c}
                     /\ evaluated' = evaluated \ {c}
                     /\ picked' = SelectSeq(picked, LAMBDA k : k.c # c) /\ UNCHANGED pickedFor
                     /\ doing' = [doing EXCEPT ![p].set = @ \ {c}] /\ UNCHANGED corpusLock
    /\ UNCHANGED <<sourceRun, caseFiles, caseLeases, evalOps, mishaps, evalHist>>

-----------------------------------------------------------------------------
(* A confirmed miss.                                                       *)

PostPRMiss == GoldLabel("m", "fn", "postPRMiss")

\* The labels read at the capture are written back with the miss.
AppendGold(p) ==
    LET c == doing[p].c
        whole == dirs[c] = "case"
    IN  /\ Reached(p, "append")
        /\ labels' = IF whole THEN [labels EXCEPT ![c] = [doing[p].read EXCEPT !.gold = @ \cup {PostPRMiss}]]
                     ELSE labels
        /\ ingested' = [ingested EXCEPT ![c] = @ \/ whole]
        /\ raced' = IF whole /\ labels[c] # doing[p].read THEN raced \cup {c} ELSE raced
        /\ Leaves(p)
        /\ UNCHANGED <<sourceRun, dirs, poolRefs, caseRegistry, caseLeases, evalOps, mishaps,
                       spent, halfDone>>

-----------------------------------------------------------------------------
(* Replay.                                                                 *)

ReserveSet(p, set) ==
    IF set = {} THEN Leaves(p)
    ELSE /\ corpusLock' = "free"
         /\ doing' = [doing EXCEPT ![p].set = set, ![p].pc = "persist", ![p].c = Min(set)]
ReservePlan(p, name, plan) ==
    /\ ReserveSet(p, SetNamed(name, plan))
    /\ IF name \in {"diversified", "tune"} THEN picked' = plan /\ pickedFor' = setSize ELSE UNCHANGED pinSets

ReserveCases(p) ==
    /\ Reached(p, "reserve")
    /\ \E name \in {"all", "labelled", "diversified", "tune"} : ReservePlan(p, name, Planned(picked))
    /\ UNCHANGED <<sourceRun, caseFiles, registered, doomed, evaluated, caseLeases, evalOps,
                   mishaps, evalHist>>

\* Without the case's objects the replay is recorded as failed.
Restorable(c) == poolRefs[c] = "all"

AfterCase(p) ==
    LET rest == {c \in doing[p].set : c > doing[p].c}
    IN  IF rest = {} THEN Finishes(p) ELSE TurnsTo(p, "persist", Min(rest))

\* New findings are queued: a read of the labels and a write of what was read.
Persist(p) ==
    LET c == doing[p].c
    IN  /\ Reached(p, "persist")
        /\ IF c \in registered
           THEN /\ evaluated' = evaluated \cup {c} /\ spent' = spent \cup {c}
                /\ \/ AfterCase(p)
                   \/ Restorable(c) /\ doing' = [doing EXCEPT ![p].pc = "queue", ![p].read = labels[c]]
           ELSE Finishes(p) /\ UNCHANGED <<evaluated, spent>>
        /\ UNCHANGED <<sourceRun, caseFiles, registered, doomed, pinSets, caseLeases, corpusLock,
                       evalOps, mishaps, ingested, raced, halfDone>>

QueueFindings(p) ==
    LET c == doing[p].c
    IN  /\ Reached(p, "queue") /\ AfterCase(p)
        /\ labels' = [labels EXCEPT ![c] = [doing[p].read EXCEPT !.queued = 1]]
        /\ raced' = IF labels[c] # doing[p].read THEN raced \cup {c} ELSE raced
        /\ UNCHANGED <<sourceRun, dirs, poolRefs, caseRegistry, caseLeases, corpusLock, evalOps,
                       mishaps, spent, ingested, halfDone>>

\* eval sets and eval report read the cases without the lock and pin the plan.
PlanSets(p) ==
    /\ Reached(p, "plan")
    /\ \E refresh \in BOOLEAN :
        doing' = [doing EXCEPT ![p].pc = "pin", ![p].c = setSize,
                                  ![p].set = Planned(IF refresh THEN <<>> ELSE picked)]
    /\ UNCHANGED <<sourceRun, caseFiles, caseRegistry, caseLeases, corpusLock, evalOps, mishaps,
                   evalHist>>

\* A pin of a case that is gone undoes the transaction.
PinSets(p) ==
    LET plan == doing[p].set
    IN  /\ Reached(p, "pin") /\ Finishes(p)
        /\ IF \A i \in DOMAIN plan : plan[i].c \in registered
           THEN picked' = plan /\ pickedFor' = doing[p].c ELSE UNCHANGED pinSets
        /\ UNCHANGED <<sourceRun, caseFiles, registered, doomed, evaluated, caseLeases,
                       corpusLock, evalOps, mishaps, evalHist>>

-----------------------------------------------------------------------------
(* The rest of the world.                                                  *)

PRMerges ==
    /\ ~shipped /\ shipped' = TRUE
    /\ UNCHANGED <<reviewRounds, setSize, caseFiles, caseRegistry, caseLeases, corpusLock, doing,
                   evalOps, mishaps, evalHist>>

\* The lock goes with the process, its reservations wait for their lease to run out.
EvaluatorDies(p) ==
    /\ ~Reached(p, "idle") /\ mishaps < MaxMishaps /\ mishaps' = mishaps + 1
    /\ corpusLock' = IF corpusLock = p THEN "free" ELSE corpusLock
    /\ stray' = IF Does(p, "replay") THEN stray \cup doing[p].set ELSE stray
    /\ halfDone' = halfDone \cup (IF doing[p].pc \in {"publish", "register"} THEN {doing[p].c} ELSE {})
    /\ Finishes(p)
    /\ UNCHANGED <<sourceRun, caseFiles, caseRegistry, expired, evalOps, spent, ingested, raced>>

LeaseRunsOut ==
    /\ stray # {} /\ stray' = {} /\ expired' = expired \cup stray
    /\ UNCHANGED <<sourceRun, caseFiles, caseRegistry, corpusLock, doing, evalOps, mishaps, evalHist>>

\* The size of the diversified set is changed in the configuration.
Reconfigured ==
    /\ mishaps < MaxMishaps /\ mishaps' = mishaps + 1
    /\ \E n \in SetSizes \ {setSize} : setSize' = n
    /\ UNCHANGED <<reviewRounds, shipped, caseFiles, caseRegistry, caseLeases, corpusLock, doing,
                   evalOps, evalHist>>

EvalStep(p) ==
    \/ LocksCorpus(p) \/ SweepRefs(p) \/ SweepDir(p) \/ SweepRow(p)
    \/ NextRound(p) \/ StoreObjects(p) \/ PublishCase(p) \/ PublishCaseFails(p) \/ RegisterCase(p)
    \/ RelabelExisting(p) \/ Relabel(p)
    \/ DropExpired(p) \/ SelectVictims(p) \/ DeleteVictim(p)
    \/ AppendGold(p) \/ ReserveCases(p) \/ Persist(p) \/ QueueFindings(p)
    \/ PlanSets(p) \/ PinSets(p)

CorpusNext ==
    \/ \E p \in Evaluators :
        \/ \E op \in {"auto", "capture", "ingest", "relabel", "replay", "sets"} : BeginEval(p, op)
        \/ EvalStep(p) \/ EvaluatorDies(p)
    \/ PRMerges \/ LeaseRunsOut \/ Reconfigured

CorpusSpec == CorpusInit /\ [][CorpusNext]_corpusVars

-----------------------------------------------------------------------------

CorpusTypeOK ==
    /\ registered \subseteq CaseIds /\ doomed \subseteq CaseIds /\ evaluated \subseteq registered
    /\ dirs \in [CaseIds -> {"absent", "case"}] /\ poolRefs \in [CaseIds -> {"none", "all"}]
    /\ corpusLock \in {"free"} \cup Evaluators

\* What the registry lists can be loaded and restored, and what is in use is listed.
RegisteredIsWhole ==
    /\ \A c \in registered : dirs[c] = "case" /\ poolRefs[c] = "all" /\ c \notin doomed
    /\ LiveCases \subseteq registered /\ PickedCases \subseteq registered

\* A recorded evaluation keeps its case: a report names the cases it compared.
EvidenceKept == spent \subseteq evaluated

\* Nothing is left in the pool or among the cases that no row claims, unless a
\* capture died between its writes.
NothingLeftBehind ==
    LET underWay == {doing[p].c : p \in {q \in Evaluators :
                        doing[q].pc \in {"publish", "register", "sweepRow"}}}
    IN  \A c \in CaseIds \ (registered \cup doomed \cup halfDone \cup underWay) :
            dirs[c] = "absent" /\ poolRefs[c] = "none"

\* A confirmed miss stays in the labels of its case, unless labels read before
\* were written after it.
MissesKeptByLocked ==
    \A c \in registered \ raced : ingested[c] => PostPRMiss \in labels[c].gold

\* The official set names each case once and is of the size it was planned for.
PinsFit ==
    /\ \A i, j \in DOMAIN picked : i # j =>
        /\ picked[i].c # picked[j].c
        /\ pickedFor = 0 => picked[i].stratum # picked[j].stratum
    /\ pickedFor > 0 => Len(picked) <= pickedFor

\* The registry, the pool, the case directories and the pins agree, and no case
\* whose replay was recorded or is under way is pruned.
CorpusSafe ==
    /\ CorpusTypeOK /\ RegisteredIsWhole /\ EvidenceKept /\ NothingLeftBehind
    /\ MissesKeptByLocked /\ PinsFit
=============================================================================
