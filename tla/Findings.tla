------------------------------ MODULE Findings ------------------------------
(* The findings of the review step of one run: what a round reports, which   *)
(* earlier finding it is taken for, what stays at the gate, what a fix round *)
(* is given, and when the loop is stopped (internal/types/findings.go,       *)
(* internal/pipeline/findings.go and the loop of executeStep).               *)
(*                                                                           *)
(* A finding keeps what the rules compare: its lineage (id and continuity    *)
(* token), its fingerprint (file and description, `desc`), its line, its     *)
(* action, whether its severity blocks, and its scope: the source, what this *)
(* run has yet to deliver, or none given. A description is a sequence, so    *)
(* that the code can add to it. Evidence, risk and wording are left out, and *)
(* so are rows written before lineages existed (occurrence tokens) and the   *)
(* time budget. Two findings are of one convergence class when their         *)
(* descriptions are the same.                                                *)
EXTENDS Integers, Sequences, FiniteSets

CONSTANTS
    Sorts,          \* what a reviewer may report: place, act, blocking, scope
    Inherited,      \* findings an earlier run may have left uncertified
    Limits,         \* the convergence thresholds, a record
    FixLimit,       \* automatic fix rounds of the step
    MaxReport,      \* bound: findings of one report
    MaxReported,    \* bound: findings reported during the step
    MaxRounds,      \* bound: review rounds
    AddedPlaces,    \* places a user may point at
    Diffs,          \* what a rejected repair may have changed in existing tests
    MaxProposed,    \* bound: test changes a fixer itself proposes in one round
    MaxAdds,        \* bound: findings the user adds
    MaxKnown        \* bound: findings known when a round begins

NoId == <<"none", 0>>
NoClaim == <<NoId, 0>>
FindingFields == {"id", "tok", "place", "act", "blocking", "scope", "user", "claim"}

\* A list of findings that have a lineage of their own.
Lineaged(s, last) ==
    /\ Len(s) \in Nat /\ DOMAIN s = 1..Len(s) /\ s = [i \in 1..Len(s) |-> s[i]]
    /\ \A i \in DOMAIN s : /\ DOMAIN s[i] = FindingFields
                           /\ s[i].act \in 1..3 /\ s[i].tok \in 1..last /\ s[i].claim = NoClaim

ASSUME FindingsAssumption ==
    /\ FixLimit \in Nat /\ MaxReport \in Nat /\ MaxReported \in Nat /\ MaxRounds \in Nat /\ MaxAdds \in Nat
    /\ MaxProposed \in Nat
    /\ \A s \in Sorts : DOMAIN s = {"place", "act", "blocking", "scope"} /\ s.act \in 1..3
    /\ \A s \in Inherited : Lineaged(s, 2)

VARIABLES
    phase,      \* "running", "decide", "gate", or how the step ended
    stepFixing,     \* sctx.Fixing
    handed,     \* sctx.PreviousFindings: what the last fixer was given
    autoFixAttempts,
    known,      \* knownLineages
    carried,    \* carriedFindings: shown, and not handed to a fixer
    selected,   \* UncertifiedSelectedFindings of a recovered fix selection
    outcome,    \* of the last round: own findings, NeedsApproval, AutoFixable
    truth,      \* effectiveFindings of the last round
    rounds,     \* the rows of the rounds: count and classes of findings
    minted,     \* lineages made so far
    reported, added,    \* how much of the bounds is used
    owed,       \* history: id and action of findings shown and never handed to a fixer
    reclaimed,  \* history: known findings of the source that the last report claims again, and
                \* whether a rejected repair was put in their place
    askedSince, \* history: an ask-user finding was shown since the last gate
    twins       \* history: two findings of one round had one id

findingsVars == <<phase, stepFixing, handed, autoFixAttempts, known, carried, selected, outcome, truth, rounds,
                  minted, reported, added, owed, reclaimed, askedSince, twins>>

NoOp == 1
AutoFixAct == 2
AskUser == 3

\* A finding of a sort; its place is its file and description, and its line.
Sort(place, act, blocking, scope) ==
    [place |-> place, act |-> act, blocking |-> blocking, scope |-> scope]

Finding(id, tok, sort, claim) ==
    [id |-> id, tok |-> tok, place |-> sort.place, act |-> sort.act, blocking |-> sort.blocking,
     scope |-> sort.scope, user |-> FALSE, claim |-> claim]

Lineage(f) == <<f.id, f.tok>>
Same(f, g) == Lineage(f) = Lineage(g)
Fingerprint(f) == f.place[1]
Ids(s) == {s[i].id : i \in DOMAIN s}
\* Mutant: a restatement decides the action.
Restated(old, new) == new

Stricter(old, new) == IF old > new THEN old ELSE new
Actionable(s) == \E i \in DOMAIN s : s[i].act # NoOp
HasAskUser(s) == \E i \in DOMAIN s : s[i].act = AskUser

\* The members of a list at some of its positions, in their order.
Picked(s, at) ==
    LET upTo[n \in 0..Len(s)] == IF n = 0 THEN <<>>
                                 ELSE IF n \in at THEN Append(upTo[n - 1], s[n]) ELSE upTo[n - 1]
    IN  upTo[Len(s)]

Excluding(s, ids) == Picked(s, {i \in DOMAIN s : s[i].id \notin ids})
Filtered(s, ids) == Picked(s, {i \in DOMAIN s : s[i].id \in ids})
Retained(s, keep) == Picked(s, {i \in DOMAIN s : \E k \in DOMAIN keep : Same(s[i], keep[k])})
Fixable(s) == Picked(s, {i \in DOMAIN s : s[i].act = AutoFixAct})
WithoutDeferred(s) == Picked(s, {i \in DOMAIN s : s[i].scope # "delivery"})
Single(set) == \E x \in set : set = {x}

\* A claim on an earlier finding is honoured when that finding exists once, describes the same
\* thing, and nobody else in the report has as good a claim. Everybody else gets a new lineage.
Normalized(items, existing, base) ==
    LET good == {i \in DOMAIN items :
                    LET priors == {j \in DOMAIN existing : Lineage(existing[j]) = items[i].claim}
                    IN  Single(priors) /\ \A j \in priors : Fingerprint(existing[j]) = Fingerprint(items[i])}
        honoured == {i \in good : \A k \in good : items[k].claim = items[i].claim => k = i}
    IN  [i \in DOMAIN items |->
            IF i \in honoured
            THEN [items[i] EXCEPT !.id = items[i].claim[1], !.tok = items[i].claim[2], !.claim = NoClaim]
            ELSE [items[i] EXCEPT !.id = <<"review", base + i>>, !.tok = base + i]]

Unique(keys, i) == \A k \in DOMAIN keys : keys[k] = keys[i] => k = i
PlacesOf(s) == [i \in DOMAIN s |-> s[i].place]
FingerprintsOf(s) == [i \in DOMAIN s |-> Fingerprint(s[i])]

\* A finding that is an earlier one: it is not relaxed, and does not become a matter of delivery
\* unless nothing was said of the earlier one's scope.
Joined(f, old) ==
    [f EXCEPT !.id = old.id, !.tok = old.tok, !.act = Stricter(old.act, @),
              !.blocking = @ \/ old.blocking, !.user = @ \/ old.user, !.claim = NoClaim,
              !.scope = IF @ = "none" \/ (@ = "delivery" /\ old.scope # "none") THEN old.scope ELSE @]

\* Which earlier findings a report's findings are: by lineage, or else by a place or fingerprint
\* that is unique on both sides. A prior that may have been meant is kept beside the report.
Reappeared(fresh, prior) ==
    LET byLineage == [i \in DOMAIN fresh |-> {j \in DOMAIN prior : Same(fresh[i], prior[j])}]
        alike == [i \in DOMAIN fresh |->
                    {j \in DOMAIN prior \ byLineage[i] : Fingerprint(prior[j]) = Fingerprint(fresh[i])}]
        Twosome(i, j) ==
            \/ /\ fresh[i].place = prior[j].place
               /\ Unique(PlacesOf(fresh), i) /\ Unique(PlacesOf(prior), j)
            \/ Unique(FingerprintsOf(fresh), i) /\ Unique(FingerprintsOf(prior), j)
        match == [i \in DOMAIN fresh |->
            IF Single(byLineage[i]) THEN byLineage[i]
            ELSE IF byLineage[i] = {} /\ Single(alike[i]) /\ \A j \in alike[i] : Twosome(i, j)
            THEN alike[i] ELSE {}]
        doubtful == {j \in DOMAIN prior : \E i \in DOMAIN fresh :
                        \/ fresh[i].claim = Lineage(prior[j])
                        \/ match[i] = {} /\ j \in byLineage[i]
                        \/ match[i] = {} /\ byLineage[i] = {} /\ j \in alike[i]}
        unmatched == doubtful \ UNION {match[i] : i \in DOMAIN fresh}
    IN  [i \in DOMAIN fresh |->
            IF match[i] = {} THEN [fresh[i] EXCEPT !.claim = NoClaim]
            ELSE Joined(fresh[i], prior[CHOOSE j \in match[i] : TRUE])]
        \o Picked(prior, unmatched)

\* A carried finding meets the items so far: the first of its lineage is held for it and not relaxed,
\* or else it joins them.
Take(acc, c) ==
    LET at == {i \in DOMAIN acc.items : Same(acc.items[i], c)}
        first == CHOOSE k \in at : \A m \in at : k <= m
    IN  IF at = {}
        THEN [items |-> Append(acc.items, c), held |-> acc.held \cup {Len(acc.items) + 1}]
        ELSE [items |-> [acc.items EXCEPT ![first].act = Stricter(c.act, @)], held |-> acc.held \cup {first}]

Taken(fresh, old) ==
    LET upTo[n \in 0..Len(old)] == IF n = 0 THEN [items |-> fresh, held |-> {}] ELSE Take(upTo[n - 1], old[n])
    IN  upTo[Len(old)]

\* An item that is nobody's keeps its id unless that is somebody's already.
Rename(acc, i, held) ==
    LET id == acc.items[i].id
        free == CHOOSE n \in 1..(acc.next + Len(acc.items)) :
                    /\ n >= acc.next /\ <<"spare", n>> \notin acc.reserved
                    /\ \A m \in acc.next..(n - 1) : <<"spare", m>> \in acc.reserved
    IN  IF i \in held THEN acc
        ELSE IF id \notin acc.reserved THEN [acc EXCEPT !.reserved = @ \cup {id}]
        ELSE [items |-> [acc.items EXCEPT ![i].id = <<"spare", free>>],
              reserved |-> acc.reserved \cup {<<"spare", free>>}, next |-> free + 1]

Renamed(items, held) ==
    LET start == [items |-> items, reserved |-> {items[i].id : i \in held}, next |-> 1]
        upTo[n \in 0..Len(items)] == IF n = 0 THEN start ELSE Rename(upTo[n - 1], n, held)
    IN  upTo[Len(items)].items

\* The gate's truth: the round's findings and those carried from earlier rounds. A carried finding
\* keeps its id and is not relaxed; an id a carried finding has is taken from a new one.
MergedCarried(fresh, old) ==
    IF old = <<>> THEN fresh ELSE Renamed(Taken(fresh, old).items, Taken(fresh, old).held)

-----------------------------------------------------------------------------
(* Convergence *)

Classes(s) == {Fingerprint(s[i]) : i \in DOMAIN s}
RoundRow(s) == [count |-> Len(s), classes |-> Classes(s),
                live |-> Classes(SelectSeq(s, LAMBDA f : f.act # NoOp))]
SeenIn(sets, c) == Cardinality({r \in DOMAIN sets : c \in sets[r]})
LiveClasses(rs) == [r \in DOMAIN rs |-> rs[r].live]
AllClasses(rs) == [r \in DOMAIN rs |-> rs[r].classes]

\* A hard limit counts only while the last round leaves something to fix.
StopReason(rs) ==
    /\ rs[Len(rs)].live # {}
    /\ \/ Limits.maxRounds > 0 /\ Len(rs) >= Limits.maxRounds
       \/ Limits.maxRecurring = 1
       \/ Limits.maxRecurring > 1 /\ \E c \in rs[Len(rs)].live \cup UNION {rs[r].live : r \in DOMAIN rs} :
              SeenIn(LiveClasses(rs), c) >= Limits.maxRecurring

NonDecreasing(rs) ==
    LET w == Limits.nonDecreasing
        tail == SubSeq(rs, Len(rs) - w + 1, Len(rs))
    IN  /\ w > 0 /\ Len(rs) >= w
        /\ \A i \in DOMAIN tail : tail[i].count > 0 /\ (i > 1 => tail[i].count >= tail[i - 1].count)

Tripped(rs) ==
    \/ NonDecreasing(rs)
    \/ /\ Limits.recurring > 0
       /\ \E c \in UNION {rs[r].classes : r \in DOMAIN rs} :
             SeenIn(AllClasses(rs), c) >= 2 /\ SeenIn(AllClasses(rs), c) >= Limits.recurring

-----------------------------------------------------------------------------
(* The rounds *)

\* Two findings of one list have one id.
Twinned(s) == \E i, j \in DOMAIN s : i # j /\ s[i].id = s[j].id

Debts(s) == {[id |-> s[i].id, act |-> s[i].act] : i \in DOMAIN s}
NoOutcome == [own |-> <<>>, needs |-> FALSE, fixable |-> FALSE]

\* What an uncertified earlier run left: its findings, less a selection that was with its fixer.
\* The selection is reviewed again (stepFixing, no fixer called) or was already applied.
Recovered ==
    /\ known \in Inherited
    /\ \/ selected = <<>> /\ carried = known /\ stepFixing = FALSE /\ handed = <<>>
       \/ /\ \E ids \in SUBSET Ids(known) \ {{}} :
                selected = Filtered(known, ids) /\ carried = Excluding(known, ids)
          /\ stepFixing \in BOOLEAN
          /\ handed = IF stepFixing THEN selected ELSE <<>>

\* The step begins, plain or over what is recovered.
FindingsInit ==
    /\ phase = "running" /\ autoFixAttempts = 0 /\ outcome = NoOutcome /\ truth = <<>> /\ rounds = <<>>
    /\ minted = 2 /\ reported = 0 /\ added = 0
    /\ \/ known = <<>> /\ selected = <<>> /\ carried = <<>> /\ stepFixing = FALSE /\ handed = <<>>
       \/ Recovered
    /\ owed = Debts(carried) /\ reclaimed = {} /\ askedSince = HasAskUser(carried) /\ twins = FALSE

Claims == {NoClaim} \cup {Lineage(known[j]) : j \in DOMAIN known}
Reportable == {Finding(NoId, 0, s, c) : s \in Sorts, c \in Claims}
Reports == {r \in UNION {[1..n -> Reportable] : n \in 0..MaxReport} : Len(r) <= MaxReported - reported}

\* A repair that changes existing tests is not adopted. What was handed to the fixer is put as
\* questions, with the rejected change; without any, one question is put for it.
Refused(diff) ==
    LET guard == Finding(<<"guard", 0>>, 0, Sort(<<<<"test">>, 0>>, AskUser, TRUE, "none"), NoClaim)
        given == IF handed = <<>> THEN <<guard>> ELSE handed
    IN  [i \in DOMAIN given |->
            [given[i] EXCEPT !.act = AskUser, !.place = <<Append(@[1], diff), @[2]>>]]

\* A fixer may itself propose a test change, under an id it was given or none.
Proposable == {Finding(id, 0, Sort(s.place, AskUser, s.blocking, "none"), NoClaim) :
                  id \in {NoId} \cup Ids(handed), s \in Sorts}
Proposed == UNION {[1..n -> Proposable] : n \in 1..MaxProposed}

\* A fixer runs unless the round reviews a recovered selection again.
Fixes == stepFixing /\ ~(selected # <<>> /\ rounds = <<>>)
Proposals(report) ==
    {<<>>} \cup {p \in Proposed : Fixes /\ Len(p) <= MaxReported - reported - Len(report)}
           \cup {Refused(d) : d \in {e \in Diffs : Fixes}}

\* What the step returns and how the executor reads it. A change with nothing to review still
\* returns the selection it was to review. A proposed test change replaces what has its id, and
\* everything it is returned with is given lineages again.
Reviewed(report, nothing, proposal) ==
    LET own == WithoutDeferred(Reappeared(Normalized(report, known, minted), known))
        items == IF nothing THEN selected ELSE own
        rejected == proposal # <<>>
        all == IF rejected THEN proposal \o Excluding(items, Ids(proposal) \ {NoId}) ELSE items
        raw == rejected \/ nothing
    IN  [own |-> Reappeared(IF raw THEN Normalized(all, known, minted + Len(report)) ELSE all, known),
         needs |-> rejected \/ (nothing /\ selected # <<>>) \/ \E i \in DOMAIN items : ~nothing /\ items[i].blocking,
         fixable |-> ~rejected /\ items # <<>>]

Publish(out, report, proposal) ==
    /\ phase' = "decide"
    /\ outcome' = out
    /\ truth' = MergedCarried(out.own, carried)
    /\ known' = truth'
    /\ rounds' = Append(rounds, RoundRow(truth'))
    /\ minted' = minted + Len(report) + Len(out.own)
    /\ reported' = reported + Len(report)
    /\ reclaimed' = {[id |-> known[j].id, tok |-> known[j].tok, act |-> known[j].act,
                      replaced |-> known[j].id \in Ids(proposal)] :
                        j \in {k \in DOMAIN known : /\ known[k].scope = "source"
                                                    /\ \E i \in DOMAIN report : report[i].claim = Lineage(known[k])}}
    /\ askedSince' = (askedSince \/ HasAskUser(truth'))
    /\ twins' = (twins \/ Twinned(truth'))
    /\ UNCHANGED <<stepFixing, handed, autoFixAttempts, carried, selected, added, owed>>

CanRun == phase = "running" /\ Len(rounds) < MaxRounds /\ Len(known) <= MaxKnown

ReviewRound(report, proposal) ==
    CanRun /\ Publish(Reviewed(report, FALSE, proposal), report, proposal)

NothingToReview(proposal) ==
    CanRun /\ Publish(Reviewed(<<>>, TRUE, proposal), <<>>, proposal)

\* The fixer or the reviewer failed and left a commit that changes tests: there is no review,
\* only the question.
ReviewRefused(diff) ==
    CanRun /\ Publish([own |-> Reappeared(Normalized(Refused(diff), known, minted), known),
                       needs |-> TRUE, fixable |-> FALSE], <<>>, Refused(diff))

\* No responder and no automatic fix can fund a round beyond a hard limit.
Stop ==
    /\ phase = "decide" /\ StopReason(rounds)
    /\ phase' = "nonconverging"
    /\ outcome' = NoOutcome
    /\ UNCHANGED <<stepFixing, handed, autoFixAttempts, known, carried, selected, truth, rounds, minted,
                   reported, added, owed, reclaimed, askedSince, twins>>

\* The findings an automatic fix round would be given: the round's own ones, not the carried.
Automatic ==
    IF /\ outcome.fixable /\ autoFixAttempts < FixLimit /\ ~Tripped(rounds)
       /\ stepFixing \/ ~HasAskUser(truth)
    THEN Fixable(Retained(truth, outcome.own)) ELSE <<>>

\* What leaves the gate with a fixer no longer stays at it.
Dispatch(ids, given) ==
    /\ stepFixing' = TRUE
    /\ handed' = given
    /\ carried' = Excluding(truth, ids)
    /\ owed' = {o \in owed \cup Debts(truth) : o.id \notin ids}
    /\ reclaimed' = {} /\ outcome' = NoOutcome /\ truth' = <<>>
    /\ phase' = "running"

FixAutomatically ==
    /\ phase = "decide" /\ ~StopReason(rounds) /\ Automatic # <<>> /\ Len(rounds) < MaxRounds
    /\ Dispatch(Ids(Automatic), Automatic)
    /\ autoFixAttempts' = autoFixAttempts + 1
    /\ UNCHANGED <<known, selected, rounds, minted, reported, added, askedSince, twins>>

NeedsRuling ==
    \/ outcome.needs \/ HasAskUser(truth) \/ Actionable(carried)
    \/ Tripped(rounds) /\ Actionable(truth)

\* Nobody is asked: what is left is advisory.
Pass ==
    /\ phase = "decide" /\ ~StopReason(rounds) /\ Automatic = <<>> /\ ~NeedsRuling
    /\ phase' = "passed"
    /\ outcome' = NoOutcome
    /\ UNCHANGED <<stepFixing, handed, autoFixAttempts, known, carried, selected, truth, rounds, minted,
                   reported, added, owed, reclaimed, askedSince, twins>>

ParkForApproval ==
    /\ phase = "decide" /\ ~StopReason(rounds) /\ Automatic = <<>> /\ NeedsRuling
    /\ phase' = "gate"
    /\ askedSince' = FALSE
    /\ outcome' = NoOutcome
    /\ UNCHANGED <<stepFixing, handed, autoFixAttempts, known, carried, selected, truth, rounds, minted,
                   reported, added, owed, reclaimed, twins>>

\* approve, skip or abort: a deliberate ruling over everything at the gate.
Rule ==
    /\ phase = "gate"
    /\ phase' = "ruled"
    /\ outcome' = NoOutcome
    /\ UNCHANGED <<stepFixing, handed, autoFixAttempts, known, carried, selected, truth, rounds, minted,
                   reported, added, owed, reclaimed, askedSince, twins>>

\* A finding the user adds: a user finding of the same place under the id it would get is the
\* same finding; any other holder of that id makes the next one be used.
AddedFinding(chosen, place) ==
    LET Free(ids) == CHOOSE n \in 1..(Cardinality(ids) + 1) :
                        <<"user", n>> \notin ids /\ \A m \in 1..(n - 1) : <<"user", m>> \in ids
        first == <<"user", Free(Ids(chosen))>>
        again == {j \in DOMAIN truth : truth[j].id = first /\ truth[j].user /\ truth[j].place = place}
        new == [Finding(first, minted + 1, Sort(place, AutoFixAct, FALSE, "none"), NoClaim) EXCEPT !.user = TRUE]
    IN  IF Cardinality(again) = 1 THEN [new EXCEPT !.tok = truth[CHOOSE j \in again : TRUE].tok]
        ELSE IF first \in Ids(truth) THEN [new EXCEPT !.id = <<"user", Free(Ids(truth) \cup Ids(chosen))>>]
        ELSE new

\* A user picks out one finding, all of them or none.
Selections == {{}, Ids(truth)} \cup {{id} : id \in Ids(truth)}

\* fix: the selected findings and what the user adds go to the fixer; the additions are known
\* from here on, and everything not selected is carried.
Fix(ids, places) ==
    LET chosen == Filtered(truth, ids)
        given == chosen \o [i \in DOMAIN places |-> AddedFinding(chosen, places[i])]
    IN  /\ phase = "gate" /\ given # <<>> /\ Len(rounds) < MaxRounds
        /\ Len(places) <= MaxAdds - added
        /\ Dispatch(ids, given)
        /\ known' = given \o SelectSeq(truth, LAMBDA f : \A i \in DOMAIN given : ~Same(f, given[i]))
        /\ added' = added + Len(places)
        /\ minted' = minted + Len(places)
        /\ UNCHANGED <<autoFixAttempts, selected, rounds, reported, askedSince, twins>>

FindingsNext ==
    \/ \E r \in Reports : \E p \in Proposals(r) : ReviewRound(r, p)
    \/ \E p \in Proposals(<<>>) : NothingToReview(p)
    \/ \E d \in Diffs : ReviewRefused(d)
    \/ Stop \/ FixAutomatically \/ Pass \/ ParkForApproval \/ Rule
    \/ \E ids \in Selections, p \in {<<>>} \cup {<<q>> : q \in AddedPlaces} : Fix(ids, p)

FindingsSpec == FindingsInit /\ [][FindingsNext]_findingsVars

-----------------------------------------------------------------------------
(* Properties *)

FindingsTypeOK ==
    /\ phase \in {"running", "decide", "gate", "passed", "ruled", "nonconverging"}
    /\ stepFixing \in BOOLEAN /\ autoFixAttempts \in 0..FixLimit
    /\ minted \in Nat /\ reported \in 0..MaxReported /\ added \in 0..MaxAdds
    /\ Len(rounds) <= MaxRounds /\ Ids(carried) \subseteq Ids(known) \cup Ids(truth)

Covers(s, o) == \E i \in DOMAIN s : s[i].id = o.id /\ s[i].act >= o.act

\* A finding is there again, no weaker, but its id went to another one.
Displaced(s, o) ==
    \E i, j \in DOMAIN s : i # j /\ s[i].tok = o.tok /\ s[i].act >= o.act /\ s[j].id = o.id

\* A finding once shown stays in every later truth, under its id and no weaker, until that id is
\* handed to a fixer. A finding of the source that the reviewer claims again is there again, no
\* weaker, however the claim is worded and whoever else claims it, and under its id, unless another
\* one was given that id. Only a rejected repair may stand in its place, as a question.
ShownStays ==
    phase \in {"decide", "gate", "passed"} =>
        /\ \A o \in owed : Covers(truth, o)
        /\ \A o \in reclaimed : \/ Covers(truth, o) \/ Displaced(truth, o)
                                \/ o.replaced /\ HasAskUser(truth)

\* The step does not pass by itself while something actionable is owed from an earlier round, nor,
\* unless two findings shared an id, when an ask-user finding has stood in no gate since it was shown.
NothingPassesUnasked ==
    phase = "passed" => /\ \A o \in owed : o.act = NoOp
                        /\ ~twins => ~askedSince

FindingsSafe == FindingsTypeOK /\ ShownStays /\ NothingPassesUnasked

\* An ask-user finding makes the step wait for a human before it passes
\* (docs/src/content/docs/concepts/pipeline.md:69).
AskUserPauses == phase = "passed" => ~askedSince
=============================================================================
