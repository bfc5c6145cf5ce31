----------------------------- MODULE SlopRules ------------------------------
(***************************************************************************)
(* The rules of `noslop gate` that only look at the change: the classifier *)
(* (internal/slop/risk), the lens pre-check, the leak scan, the test-count *)
(* floor and the prose oracle, and the scoring of `noslop evaluate`        *)
(* (internal/slop/corpus).                                                 *)
(*                                                                         *)
(* A path is a name with traits, a source a sequence of tokens, a finding  *)
(* its lens and path.  What a regular expression matches is data of the    *)
(* file ("shapes", "leaks", "tells"); which match counts, and what it      *)
(* costs, is what the rules say.  A change is a set of files.              *)
(***************************************************************************)
EXTENDS Integers, Sequences, FiniteSets, SequencesExt

CONSTANTS
    Traits,                 \* [path -> SUBSET {"go", "md", "yaml", "tests", "docs", "high", "fixed", "schema", "outbound"}]
    NoPath,
    SingleReviewThreshold,  \* as configured, 0 when unset
    FullReviewThreshold,
    SampleTokens,           \* bound: tokens the rules on names are tried on,
    SampleFiles             \* and files the other rules are tried on

ASSUME RulesAssumption ==
    NoPath \notin DOMAIN Traits /\ {SingleReviewThreshold, FullReviewThreshold} \subseteq Int

Finding(lens, path) == [lens |-> lens, path |-> path]

Languages == {"go", "md", "yaml"}
sourcePath(p) == "go" \in Traits[p]
isTestPath(p) == "tests" \in Traits[p]
TestsOrDocs == {"tests", "docs"}
HighRisk == {"high", "fixed"}
isTestOrDocsPath(p) == Traits[p] \cap TestsOrDocs # {}
highRiskPath(p) == Traits[p] \cap HighRisk # {}
hardToReversePath(p) == "fixed" \in Traits[p]
isRuntimePath(p) == "go" \in Traits[p] /\ ~isTestOrDocsPath(p)
isSchemaPath(p) == "schema" \in Traits[p] /\ ~isTestOrDocsPath(p)

\* A rename is judged by both of its sides.
Sides(f) == {f.path, f.base} \ {NoPath}
Was(f) == IF f.base = NoPath THEN f.path ELSE f.base

\* Some path, every path of the change has one of the traits.
anyPath(files, traits) == \E f \in files : \E p \in Sides(f) : Traits[p] \cap traits # {}
allPaths(files, traits) == \A f \in files : \A p \in Sides(f) : Traits[p] \cap traits # {}
markdownOnly(files) == allPaths(files, {"md"})

-----------------------------------------------------------------------------
(* The classifier.                                                         *)

sourceKeywords == {"func", "return"}

\* sourceTokens: identifiers, and everything else ("(", ".", literals).
Kind(t) == IF t \in {"(", ".", "1", "2"} THEN "other" ELSE "name"

Identifiers(tokens) == {t \in ToSet(tokens) : Kind(t) = "name"}

\* Another name here may call something else.
identifierControlsCallTarget(before, after, i) ==
    \/ i > 1 /\ "." \in {before[i - 1], after[i - 1]}
    \/ /\ i < Len(before) /\ before[i + 1] = "(" /\ after[i + 1] = "("
       /\ \/ i = 1
          \/ "func" \notin {before[i - 1], after[i - 1]}

\* What may differ between two token streams: fresh names, one for each old one.
SubstitutesNames(before, after, beside) ==
    LET moved == {i \in DOMAIN before : before[i] # after[i]}
    IN Len(before) = Len(after) /\ \A i \in moved :
           /\ {Kind(before[i]), Kind(after[i])} = {"name"}
           /\ {before[i], after[i]} \cap sourceKeywords = {}
           /\ after[i] \notin Identifiers(before) \cup beside
           /\ ~identifierControlsCallTarget(before, after, i)
           /\ \A j \in moved : before[i] = before[j] <=> after[i] = after[j]

pathCategory(p) ==
    IF isTestOrDocsPath(p) THEN "tests" ELSE IF sourcePath(p) THEN "source" ELSE "other"

relocationPreservesCategory(f) ==
    \/ f.base = NoPath
    \/ /\ pathCategory(f.path) = pathCategory(f.base)
       /\ Traits[f.path] \cap Languages = Traits[f.base] \cap Languages
       /\ ~sourcePath(f.path)

mechanicallyEquivalent(f) ==
    \/ f.status = "renamed" /\ relocationPreservesCategory(f)
    \/ /\ f.status = "modified" /\ relocationPreservesCategory(f)
       /\ \E p \in Sides(f) : sourcePath(p)
       /\ f.before # <<>> /\ f.after # <<>>
       /\ f.sameBuild
       /\ SubstitutesNames(f.before, f.after, f.beside)

substantialSourceAddition(files) ==
    LET fresh == {f \in files : f.status = "added" /\ sourcePath(f.path) /\ ~isTestOrDocsPath(f.path)}
    IN MapThenSumSet(LAMBDA f : f.lines, fresh) >= 500

classifyBlastRadius(files) ==
    IF anyPath(files, HighRisk) THEN 3
    ELSE IF allPaths(files, TestsOrDocs) THEN 1
    ELSE IF substantialSourceAddition(files) THEN 3 ELSE 2

classifyNovelty(files) ==
    IF markdownOnly(files) THEN 2
    ELSE IF \E f \in files : f.status = "added" /\ (f.lines >= 50 \/ sourcePath(f.path)) THEN 3
    ELSE IF ~anyPath(files, {"go"}) THEN 1
    ELSE IF \A f \in files : mechanicallyEquivalent(f) THEN 0 ELSE 2

classifyReversibility(files, onDefault) ==
    IF onDefault THEN 3
    ELSE IF anyPath(files, {"fixed"}) THEN 2
    ELSE IF anyPath(files, HighRisk) THEN 1 ELSE 0

thresholds ==
    LET single == IF SingleReviewThreshold <= 0 THEN 3 ELSE SingleReviewThreshold
    IN [single |-> single,
        full |-> IF FullReviewThreshold <= single THEN single + 3 ELSE FullReviewThreshold]

\* Classify, before the history is asked: the tier by its rank, 1 leak-scan-only,
\* 2 single-review, 3 full-adversarial.
RoutedTier(files, onDefault) ==
    LET total == classifyBlastRadius(files) + classifyNovelty(files) + classifyReversibility(files, onDefault)
    IN IF markdownOnly(files) /\ ~anyPath(files, HighRisk) THEN 1
       ELSE IF total >= thresholds.full THEN 3
       ELSE IF total >= thresholds.single THEN 2 ELSE 1

-----------------------------------------------------------------------------
(* The lens pre-check.  A comment block is its text and whether the change *)
(* touched it; "worthless" texts repeat a phrase, the declaration or the   *)
(* code.                                                                   *)

Copies(blocks, text) == Cardinality({i \in DOMAIN blocks : blocks[i].text = text})

\* commentBlocks: an untouched block uses up its baseline copy first, and a
\* touched one counts as new when no copy is left.
NewBlocks(blocks, baseline) ==
    LET Spend(acc, i) ==
            LET t == blocks[i].text
            IN IF acc.left[t] > 0 THEN [acc EXCEPT !.left[t] = @ - 1]
               ELSE IF blocks[i].added THEN [acc EXCEPT !.new = @ \cup {i}] ELSE acc
        In(added) == SelectSeq([i \in DOMAIN blocks |-> i], LAMBDA i : blocks[i].added = added)
        all == [left |-> [t \in {blocks[i].text : i \in DOMAIN blocks} |-> Copies(baseline, t)], new |-> {}]
    IN FoldLeft(Spend, all, In(FALSE) \o In(TRUE)).new

detectRedundantComment(f) ==
    {Finding("redundant-comment", f.path) :
        i \in {j \in NewBlocks(f.comments, f.commentsWere) : f.comments[j].text = "worthless"}}

\* The detectors that look for a shape on an added line, some only in tests.
Detect(f, lens, shape) == IF shape \in f.shapes THEN {Finding(lens, f.path)} ELSE {}
detectVacuousCheck(f) == Detect(f, "vacuous-check", "same-sides")
detectUnsupportedFollowup(f) == Detect(f, "asserted-followup-without-artifact", "promise")
detectSiblingRule(f) == Detect(f, "rule-applied-in-one-place-not-sibling", "strict-beside-lax")
InTests(f, found) == IF isTestPath(f.path) THEN found ELSE {}
detectWidenedTolerance(f) == InTests(f, Detect(f, "test-capitulation", "wider-limit"))
detectSelfConsistentOracle(f) == InTests(f, Detect(f, "self-consistent-oracle", "computed-oracle"))

\* A comment that defends the permissive return or security bypass below it.
detectCommentDefendedWorkaround(f) ==
    IF "defence" \in f.shapes /\ f.shapes \cap {"permissive", "bypass"} # {} THEN {Finding("comment-defended-workaround", f.path)} ELSE {}
\* A permissive return after an error, unless a comment states the policy.
detectFailOpenDefault(f) ==
    IF {"permissive", "error"} \subseteq f.shapes /\ "policy" \notin f.shapes
    THEN {Finding("fail-open-default", f.path)} ELSE {}

\* A runtime or schema file the stated intent rules out; the first one is reported.
detectScopeExpansion(files, intent) ==
    LET New(f, Is(_)) == f.status # "deleted" /\ Is(f.path) /\ (f.status = "added" \/ ~Is(Was(f)))
        beyond == {f \in files :
            \/ intent = "without adding runtime behavior" /\ New(f, isRuntimePath)
            \/ intent = "without changing the database schema" /\ New(f, isSchemaPath)
            \/ /\ intent = "only" /\ Cardinality(files) > 1 /\ New(f, isRuntimePath)
               /\ "named" \notin Traits[f.path]}
    IN IF beyond = {} THEN {} ELSE {Finding("scope-expansion", (CHOOSE f \in beyond : TRUE).path)}

\* Scan: an overlapping permissive return is reported by its more specific lens.
Scan(files, intent) ==
    detectScopeExpansion(files, intent) \cup UNION {
        LET specific == detectSiblingRule(f) \cup detectCommentDefendedWorkaround(f)
        IN detectRedundantComment(f) \cup specific \cup detectVacuousCheck(f) \cup detectWidenedTolerance(f)
           \cup detectSelfConsistentOracle(f) \cup detectUnsupportedFollowup(f)
           \cup (IF specific = {} THEN detectFailOpenDefault(f) ELSE {}) : f \in files}

-----------------------------------------------------------------------------
(* The other mandatory checks.                                             *)

\* leakscan.Scan: an added line is a secret, a home path or a listed name, and
\* may carry the exemption marker.
LeakScan(files, listed, refuseExemptions) ==
    {Finding("leak-identity-scan", f.path) : f \in {g \in files : \E line \in g.leaks :
        \/ line.marked /\ refuseExemptions
        \/ ~line.marked /\ (line.kind = "name" => listed)}}

\* testfloor.Count: declarations in files of a known language.
CountTests(blobs) == MapThenSumSet(LAMBDA b : b.tests, {b \in blobs : sourcePath(b.path)})

TestFloor(files) ==
    LET baseline == CountTests({[of |-> f, path |-> Was(f), tests |-> f.testsWere] : f \in files})
        current == CountTests({[of |-> f, path |-> f.path, tests |-> f.tests] : f \in files})
    IN IF current < baseline THEN {Finding("test-capitulation", "")} ELSE {}

isOutbound(f) == "md" \in Traits[f.path] /\ ("outbound" \in Traits[f.path] \/ f.frontMatter)

\* A claim goes to the citation nearest to it, the first of two as near.
ClosestCitation(line, claim) ==
    LET Far(i) == IF line.cites[i].at > claim.at THEN line.cites[i].at - claim.at ELSE claim.at - line.cites[i].at
    IN CHOOSE i \in DOMAIN line.cites : \A j \in DOMAIN line.cites : Far(i) < Far(j) \/ (Far(i) = Far(j) /\ i <= j)

\* numbersForOperation, as whether the numbers of a file give the claim.
Supports(numbers, claim) ==
    LET sum == FoldSeq(LAMBDA v, n : v + n, 0, numbers)
    IN numbers # <<>> /\ CASE claim.op = "direct" -> claim.value \in ToSet(numbers)
                           [] claim.op = "sum" -> claim.value = sum
                           [] claim.op = "count" -> claim.value = Len(numbers)
                           [] claim.op = "average" -> claim.value * Len(numbers) = sum

\* checkEvidenceLine: a number that its cited file does not give.
checkEvidenceLine(path, line, evidence) ==
    {Finding(IF evidence[line.cites[i].file] = "unreadable" THEN "evidence-unreadable" ELSE "evidence-mismatch", path) :
        i \in {j \in DOMAIN line.cites : \E claim \in line.claims :
            /\ ClosestCitation(line, claim) = j
            /\ \/ evidence[line.cites[j].file] = "unreadable"
               \/ ~Supports(evidence[line.cites[j].file], claim)}}

\* prose.Check without the live thread; a deleted file has no text left.
Outbound(files) == {f \in files : isOutbound(f) /\ f.status # "deleted"}
Tells(files) == UNION {{Finding(tell, f.path) : tell \in f.tells} : f \in Outbound(files)}
EvidenceCheck(files, evidence) ==
    UNION {UNION {checkEvidenceLine(f.path, line, evidence) : line \in f.evidence} : f \in Outbound(files)}

\* samePoint: an outbound text says again what a comment of the thread says.
Duplicates(files, comments) ==
    {Finding("duplicate-claim", f.path) : f \in {g \in Outbound(files) : g.says \in comments}}

\* ReplayMandatory: what a recorded diff gives away; it knows no renames, no
\* names beyond the default ones, and honours exemptions.
ReplayMandatory(files, intent) ==
    LET recorded == {[f EXCEPT !.base = NoPath] : f \in {g \in files : g.status # "deleted"}}
    IN Scan(recorded, intent) \cup LeakScan(recorded, FALSE, FALSE) \cup TestFloor(recorded) \cup Tells(recorded)

-----------------------------------------------------------------------------
(* noslop evaluate.  An expectation of line 0 matches any line.            *)

sameFinding(expected, actual) ==
    expected.lens = actual.lens /\ (expected.line = 0 \/ expected.line = actual.line)

\* score, of one case: each expectation takes the first observed finding that is free.
Score(expected, observed) ==
    LET Take(acc, e) ==
            LET free == {i \in DOMAIN observed \ acc.matched : sameFinding(e, observed[i])}
            IN IF free = {} THEN [acc EXCEPT !.missed = Append(@, e)]
               ELSE [acc EXCEPT !.matched = @ \cup {CHOOSE i \in free : \A j \in free : i <= j}]
    IN FoldLeft(Take, [matched |-> {}, missed |-> <<>>], expected)

-----------------------------------------------------------------------------
(* What the rules promise, over small inputs.                              *)

UpTo(n, S) == UNION {[1..k -> S] : k \in 0..n}
SmallChanges == {S \in SUBSET SampleFiles : Cardinality(S) \in 1..2}

\* classifier.go: a "consistent" substitution never makes two names one, and
\* leaves everything that is not a name as it was.
NamesNeverMerge == \A before, after \in UpTo(3, SampleTokens) :
    SubstitutesNames(before, after, {}) => \A i, j \in DOMAIN after :
        /\ after[i] = after[j] => before[i] = before[j]
        /\ "other" \in {Kind(before[i]), Kind(after[i])} => before[i] = after[i]

\* classifier.go: no company and no rename lets a high-reach path, or a source
\* whose logic changed, pass without a review.
ReachIsReviewed == \A S \in SmallChanges :
    (\E f \in S : \E p \in Sides(f) : highRiskPath(p) \/ (sourcePath(p) /\ ~mechanicallyEquivalent(f))) =>
        RoutedTier(S, FALSE) >= 2

\* precheck.go, commentBlocks: as many touched comments are new as there are
\* more of their text than before, whichever of them moved.
Blocks == [text : {"worthless", "sound"}, added : BOOLEAN]
BlocksCounted == \A blocks \in UpTo(3, Blocks), baseline \in UpTo(2, [text : {"worthless", "sound"}]) :
    \A t \in {"worthless", "sound"} :
        LET kept == Cardinality({i \in DOMAIN blocks : blocks[i] = [text |-> t, added |-> FALSE]})
            touched == Cardinality({i \in DOMAIN blocks : blocks[i] = [text |-> t, added |-> TRUE]})
            free == IF Copies(baseline, t) > kept THEN Copies(baseline, t) - kept ELSE 0
        IN Cardinality({i \in NewBlocks(blocks, baseline) : blocks[i].text = t})
               = IF touched > free THEN touched - free ELSE 0

\* oracle.go: in a line without findings every number is given by a cited file.
Lines == [cites : {<<[at |-> 1, file |-> "f"], [at |-> 5, file |-> "h"]>>},
          claims : {S \in SUBSET [at : {2, 3, 6}, op : {"direct", "sum", "count"}, value : {1, 3}] : Cardinality(S) \in 1..2}]
ClaimsChecked == \A line \in Lines, evidence \in [{"f", "h"} -> {"unreadable", <<1>>, <<1, 2>>}] :
    checkEvidenceLine("p", line, evidence) = {} => \A claim \in line.claims :
        \E file \in {"f", "h"} : evidence[file] # "unreadable" /\ Supports(evidence[file], claim)

\* corpus.go, score: no finding counts as missed while one that answers it
\* counts as a false positive, and none answers two expectations.
ScoreSettles == \A expected \in UpTo(2, [lens : {"a", "b"}, line : {0, 1, 2}]), observed \in UpTo(3, [lens : {"a", "b"}, line : {1, 2}]) :
    LET score == Score(expected, observed)
    IN /\ \A e \in ToSet(score.missed), i \in DOMAIN observed \ score.matched : ~sameFinding(e, observed[i])
       /\ Cardinality(score.matched) + Len(score.missed) = Len(expected)

\* mechanical.go: a recorded diff is replayed to what the gate's mandatory checks say.
ReplayAgrees == \A S \in SmallChanges : (\A f \in S : f.base = NoPath /\ f.status # "deleted") =>
    ReplayMandatory(S, "only") =
        Scan(S, "only") \cup LeakScan(S, FALSE, FALSE) \cup TestFloor(S) \cup Tells(S)

RulesSound == NamesNeverMerge /\ ReachIsReviewed /\ BlocksCounted /\ ClaimsChecked /\ ScoreSettles /\ ReplayAgrees
=============================================================================
