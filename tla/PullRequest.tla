---------------------------- MODULE PullRequest ----------------------------
(* The PR step: what a pull request's description is made of, how it is cut  *)
(* to the provider's limit (internal/pipeline/steps/pr.go, prsummary.go,     *)
(* internal/scm/prbody.go), and how the step publishes it and records what   *)
(* it published, with a daemon that may die in between.                      *)
(* A text is a sequence of pieces with a length and a flag that says whether *)
(* the piece is all there. Lengths are scaled down: a blank line is 2. One   *)
(* run of the branch is under way at a time.                                 *)
EXTENDS Naturals, Integers, SequencesExt

CONSTANTS
    Samples,     \* what a description may be made of
    Limits,      \* the limit of each provider, in its own measure
    MaxPublished \* bound: descriptions drafted

ASSUME PullRequestAssumption == MaxPublished \in Nat /\ \A p \in DOMAIN Limits : Limits[p] \in Nat

\* Scaled lengths of the separators and of the markers of each kind of cut.
Gap == 2
BodyMark == 3
OmissionMark == 3
LatestMark == 3
ClampMark == 3
MinLatest == 3
Identity == 3       \* the publication marker
EmbedEach == 4      \* maxEmbeddedArtifactBytes
EmbedAll == 6       \* maxEmbeddedArtifactsTotalBytes

Piece(what, n, len) == [what |-> what, n |-> n, len |-> len, whole |-> TRUE]
Space(len) == Piece("space", 0, len)
Mark(what, len) == Piece(what, 0, len)

Size(text) == FoldLeft(LAMBDA sum, p : sum + p.len, 0, text)
Pieces(text, what) == {i \in DOMAIN text : text[i].what = what}
Holds(text, what) == \E i \in Pieces(text, what) : text[i].whole

\* The first n of a text.
Keep(text, n) ==
    LET start == [i \in DOMAIN text |-> Size(SubSeq(text, 1, i - 1))]
        kept == SelectSeq([i \in DOMAIN text |-> i], LAMBDA i : start[i] < n)
    IN [k \in DOMAIN kept |-> IF start[k] + text[k].len <= n THEN text[k]
                              ELSE [text[k] EXCEPT !.len = n - start[k], !.whole = FALSE]]

\* truncateTextAtLineBoundary, truncatePipelineUpdateAtLineBoundary: `loss` is how far
\* back the last line break is.
Truncate(text, max, mark, loss) ==
    LET available == max - Gap - mark.len
        cut == IF available > loss THEN available - loss ELSE available
    IN CASE max <= 0 -> <<>>
         [] max > 0 /\ Size(text) <= max -> text
         [] max > 0 /\ Size(text) > max /\ available <= 0 -> IF Gap + mark.len <= max THEN <<mark>> ELSE <<>>
         [] OTHER -> Keep(text, cut) \o <<Space(Gap), mark>>

\* ClampPRBody: the marker stays even where it does not fit.
Clamp(text, max) ==
    IF max <= 0 \/ Size(text) <= max THEN text
    ELSE Keep(text, IF max > ClampMark THEN max - ClampMark ELSE 0) \o <<Mark("clamped", ClampMark)>>

\* A text where it fits, else the next thing to try; the body's cut when nothing else is left.
Within(text, max, otherwise) == IF Size(text) <= max THEN text ELSE otherwise
CutBody(text, max, loss) == Truncate(text, max, Mark("body cut", BodyMark), loss)

------------------------------------------------------------------------------
(* The sections of a sample: [intent, risk: Nat, changed: Seq(Nat), arts: Seq(Nat), *)
(* head: Nat, groups: Seq(Seq(Nat)), loss: Nat].                             *)

Joined(a, b) == IF a = <<>> THEN b ELSE IF b = <<>> THEN a ELSE a \o <<Space(Gap)>> \o b

IntentPart(s) == IF s.intent = 0 THEN <<>> ELSE <<Piece("intent", 0, s.intent)>>
Changed(s) == [i \in DOMAIN s.changed |-> Piece("changed", i, s.changed[i])]
RiskSection(s) == IF s.risk = 0 THEN <<>> ELSE <<Space(Gap), Piece("risk", 0, s.risk)>>

\* buildTestingSummary, embeddedArtifactText, readEmbeddedArtifactText: a file that is
\* too long loses its middle, one that does not fit what is left is a link.
Embedded(arts) ==
    FoldLeft(LAMBDA acc, size :
                 LET text == IF size <= EmbedEach THEN size ELSE EmbedEach + 1
                 IN IF acc.left > 0 /\ text <= acc.left THEN [left |-> acc.left - text, len |-> acc.len + text, embedded |-> acc.embedded + text]
                    ELSE [acc EXCEPT !.len = @ + 1],
             [left |-> EmbedAll, len |-> 1, embedded |-> 0], arts)
Testing(s) == IF s.arts = <<>> THEN <<>> ELSE <<Piece("testing", 0, Embedded(s.arts).len)>>

\* generatedEssentialSections
Generated(s, testing) == RiskSection(s) \o (IF testing = <<>> THEN <<>> ELSE <<Space(Gap)>> \o testing)

\* buildPipelineSummary, splitPipelineSectionHeader: the heading, the signature and the
\* attestation are one piece, then come the details of each step, one update per round.
HeadOf(s) == <<Piece("attestation", 0, s.head)>>
UpdatesBefore(s, g) == FoldLeft(LAMBDA sum, units : sum + Len(units), 0, SubSeq(s.groups, 1, g - 1))
Updates(s) == UpdatesBefore(s, Len(s.groups) + 1)
GroupHead == Mark("summary", 1)
GroupFoot == Mark("details", 1)

\* renderPipelineWithOmittedUpdates
Rendered(s, omitted) ==
    LET shown == [g \in DOMAIN s.groups |->
                      LET first == UpdatesBefore(s, g)
                          units == [u \in DOMAIN s.groups[g] |-> Piece("update", first + u, s.groups[g][u])]
                          left == SelectSeq(units, LAMBDA p : p.n > omitted)
                      IN IF left = <<>> THEN <<>> ELSE <<GroupHead>> \o left \o <<GroupFoot>>]
        groups == SelectSeq(shown, LAMBDA t : t # <<>>)
    IN HeadOf(s) \o (IF omitted > 0 THEN <<Mark("omitted", OmissionMark), Space(Gap)>> ELSE <<>>)
       \o FoldLeft(LAMBDA acc, t : IF acc = <<>> THEN t ELSE acc \o <<Space(1)>> \o t, <<>>, groups)
Pipeline(s) == IF s.head = 0 THEN <<>> ELSE Rendered(s, 0)

\* pipelineOmissionSectionWithinLimit
OmissionOnly(s, max) ==
    LET marked == HeadOf(s) \o <<Mark("omitted", OmissionMark), Space(1)>>
    IN IF Size(marked) <= max THEN marked ELSE IF s.head <= max THEN HeadOf(s) ELSE <<>>

\* latestPipelineUpdateUnit
LatestUnit(s) == Last(Last(s.groups))

\* renderPipelineWithTruncatedLatestUpdate: what goes before the latest update, and the
\* update as far as it fits behind that.
BeforeLatest(s) ==
    HeadOf(s) \o (IF Updates(s) > 1 THEN <<Mark("omitted", OmissionMark), Space(Gap)>> ELSE <<>>) \o <<GroupHead>>
ClosedLatest(prefix, unit, max) ==
    IF unit = <<>> THEN <<>>
    ELSE Within(prefix \o unit \o (IF Last(unit).what = "latest cut" THEN <<Space(Gap)>> ELSE <<>>) \o <<GroupFoot>>,
                max, <<>>)
WithLatestTruncated(s, max) ==
    LET budget == max - Size(BeforeLatest(s)) - GroupFoot.len - Gap
    IN IF budget <= 0 THEN <<>>
       ELSE ClosedLatest(BeforeLatest(s), Truncate(<<Piece("update", Updates(s), LatestUnit(s))>>, budget,
                                                   Mark("latest cut", LatestMark), s.loss), max)

\* truncatePipelineSection
FewestOmitted(s, fits) == Rendered(s, CHOOSE k \in fits : \A j \in fits : k <= j)
LatestOr(latest, otherwise) == IF latest # <<>> THEN latest ELSE otherwise
PipelineWithin(s, max) ==
    LET fits == {k \in 1..(Updates(s) - 1) : Size(Rendered(s, k)) <= max}
    IN IF max <= 0 THEN <<>>
       ELSE Within(Pipeline(s), max,
                   IF fits # {} THEN FewestOmitted(s, fits)
                   ELSE LatestOr(WithLatestTruncated(s, max), OmissionOnly(s, max)))

\* minimumPipelineRetainingLatestUpdate, minimumPipelineOmissionSection: the least that
\* is worth keeping room for.
LeastPipeline(s, latest, max) ==
    IF latest # 0 /\ latest <= max THEN latest
    ELSE IF s.head + OmissionMark + 1 <= max THEN s.head + OmissionMark + 1 ELSE s.head
MinimumPipeline(s, max) ==
    LET omitted == IF Updates(s) > 1 THEN OmissionMark + Gap ELSE 0
        unit == IF LatestUnit(s) > MinLatest THEN MinLatest + Gap + LatestMark ELSE LatestUnit(s)
        room == s.head + omitted + GroupHead.len + unit + Gap + GroupFoot.len
    IN LeastPipeline(s, Size(WithLatestTruncated(s, room)), max)

------------------------------------------------------------------------------
(* The description for a provider without a limit of its own (GitHub's is in bytes). *)

\* joinPRBodySections: a section that was cut no longer ends in a blank line.
JoinSections(sections) ==
    FoldLeft(LAMBDA acc, t : IF t = <<>> THEN acc
                             ELSE IF acc # <<>> /\ Last(acc).what = "body cut" THEN acc \o <<Space(Gap)>> \o t
                             ELSE acc \o t, <<>>, sections)

\* largestPRBodySectionIndex: the first of the longest.
Largest(sections) ==
    CHOOSE i \in DOMAIN sections : \A j \in DOMAIN sections :
        Size(sections[j]) < Size(sections[i]) \/ (Size(sections[j]) = Size(sections[i]) /\ i <= j)

\* truncatePRBodySections: the longest section is cut until the rest fits.
RECURSIVE Shrink(_, _, _)
ShrinkTo(sections, i, shorter, joined, max, loss) ==
    IF Size(shorter) >= Size(sections[i]) THEN CutBody(joined, max, loss)
    ELSE Shrink([sections EXCEPT ![i] = shorter], max, loss)
ShrinkLargest(sections, i, joined, max, loss) ==
    Within(joined, max, ShrinkTo(sections, i, CutBody(sections[i], Size(sections[i]) - (Size(joined) - max), loss),
                                 joined, max, loss))
Shrink(sections, max, loss) == ShrinkLargest(sections, Largest(sections), JoinSections(sections), max, loss)
BodySections(s, max) ==
    IF max <= 0 THEN <<>>
    ELSE Within(Changed(s), max,
                IF Len(s.changed) <= 1 THEN CutBody(Changed(s), max, s.loss)
                ELSE Shrink([i \in DOMAIN s.changed |-> <<Changed(s)[i]>>], max, s.loss))

\* essentialPRBodyWithinBudget
EssentialOf(s, generated, max) ==
    Within(Changed(s) \o generated, max,
           IF generated = <<>> THEN CutBody(Changed(s), max, s.loss)
           ELSE IF max - Size(generated) <= 0 THEN CutBody(generated, max, s.loss)
           ELSE BodySections(s, max - Size(generated)) \o generated)
Essential(s, testing, max) == EssentialOf(s, Generated(s, testing), max)

\* essentialPRBodyWithinPipelineBudget
EssentialBeside(s, least, max) ==
    IF least <= max /\ max - least - Gap <= 0 THEN <<>>
    ELSE Essential(s, Testing(s), IF least > max THEN max ELSE max - least - Gap)
EssentialBesidePipeline(s, max) == EssentialBeside(s, MinimumPipeline(s, max), max)

\* appendPipelineSectionWithinLimit
AppendFitting(s, prefix, pipeline, max) ==
    IF pipeline = <<>> THEN prefix ELSE Within(Joined(prefix, pipeline), max, CutBody(prefix, max, s.loss))
AppendPipeline(s, prefix, max) ==
    LET room == max - Size(Joined(prefix, <<Space(0)>>))
    IN Within(Joined(prefix, Pipeline(s)), max,
              IF room <= 0 THEN CutBody(prefix, max, s.loss)
              ELSE AppendFitting(s, prefix, PipelineWithin(s, room), max))

\* appendGeneratedSectionsToCleanBodyWithinLimit
Sections(s, max) ==
    IF s.head = 0 THEN Essential(s, Testing(s), max)
    ELSE Within(Joined(Changed(s) \o Generated(s, Testing(s)), Pipeline(s)), max,
                AppendPipeline(s, EssentialBesidePipeline(s, max), max))

\* Mutant: the sections' budget beside a long intent need not hold the attestation.
BuildBodyAnyRoom(s, max) ==
    LET room == max - Gap - s.intent
    IN IF s.intent = 0 THEN Sections(s, max)
       ELSE Within(Joined(IntentPart(s), Sections(s, max)), max,
                   IF room > 0 THEN Joined(IntentPart(s), Sections(s, room)) ELSE Sections(s, max))

\* buildPRBodyWithinLimit: the intent goes first, and gives way to the attestation.
IntentBefore(s, sections, max) ==
    LET room == max - Gap - s.intent
        left == max - Gap - Size(sections)
    IN Within(Joined(IntentPart(s), sections), max,
              IF room > 0 /\ (s.head = 0 \/ room >= s.head) THEN Joined(IntentPart(s), Sections(s, room))
              ELSE IF left <= 0 THEN sections
              ELSE Joined(CutBody(IntentPart(s), left, s.loss), sections))
BuildBody(s, max) ==
    IF s.intent = 0 THEN Sections(s, max) ELSE IntentBefore(s, Sections(s, max), max)

------------------------------------------------------------------------------
(* The description for a provider with a limit (Azure DevOps). *)

\* clampPipelineSectionWithinLimit
ClampPipeline(s, max) ==
    LET room == max - s.head
    IN Within(Pipeline(s), max,
              IF room < 0 THEN Clamp(Pipeline(s), max)
              ELSE HeadOf(s) \o (IF room = 0 THEN <<>> ELSE Within(Clamp(Tail(Pipeline(s)), room), room, <<>>)))

\* assemblePRBodyCoreWithinLimit
AssembleKept(s, kept, max) == Joined(kept, ClampPipeline(s, max - Size(Joined(kept, <<Space(0)>>))))
AssembleCore(s, prefix, max) ==
    LET room == max - s.head - Gap
    IN IF s.head = 0 THEN Clamp(prefix, max)
       ELSE IF s.head > max THEN Clamp(Joined(prefix, Pipeline(s)), max)
       ELSE IF room <= 0 THEN HeadOf(s)
       ELSE AssembleKept(s, Within(Clamp(prefix, room), room, <<>>), max)

\* assemblePRBody: the testing section goes first.
Assemble(s, max) ==
    LET prefix(testing) == Joined(IntentPart(s), Changed(s) \o Generated(s, testing))
    IN Within(Joined(prefix(Testing(s)), Pipeline(s)), max,
              Within(Joined(prefix(<<>>), Pipeline(s)), max, AssembleCore(s, prefix(<<>>), max)))

\* buildPRContent, fallbackPRContentWithinLimits: the fallback has one section, the list
\* of changed paths.
Description(provider, s, answered) ==
    LET source == IF answered THEN s ELSE [s EXCEPT !.changed = <<FoldLeft(LAMBDA a, b : a + b, 0, s.changed)>>]
        room == Limits[provider] - Identity - Gap
        body == IF provider = "azure" THEN Assemble(source, room) ELSE BuildBody(source, room)
    IN <<Mark("identity", Identity), Space(Gap)>> \o body

------------------------------------------------------------------------------
(* Publishing. *)

VARIABLES
    provider, \* the forge of the repository
    step,     \* the PR step of the current run: where it is, what it drafted and found
    request,  \* the pull request of the branch: open, the publication it shows and its length
    row       \* the run row: the publication it expects and the URL

prVars == <<provider, step, request, row>>

NoRow == [nonce |-> 0, url |-> FALSE]
Idle == [pc |-> "idle", nonce |-> 0, sample |-> CHOOSE s \in Samples : TRUE, text |-> <<>>, found |-> FALSE]

PRInit ==
    /\ provider \in DOMAIN Limits
    /\ step = Idle /\ row = NoRow
    /\ request = [open |-> FALSE, nonce |-> 0, len |-> 0]

At(pc) == step.pc = pc
Moves(pc) == step' = [step EXCEPT !.pc = pc]
StepFails == Moves("failed") /\ UNCHANGED <<provider, request, row>>

\* Execute's early returns: the default branch, no host, a CLI that is not there.
SkipPR == At("idle") /\ Moves("done") /\ UNCHANGED <<provider, request, row>>

\* buildPRContent: the agent answers or the fallback is used.
Draft ==
    /\ At("idle") /\ step.nonce < MaxPublished
    /\ \E s \in Samples, answered \in BOOLEAN :
           step' = [pc |-> "find", nonce |-> step.nonce + 1, sample |-> s,
                    text |-> Description(provider, s, answered), found |-> FALSE]
    /\ UNCHANGED <<provider, request, row>>

\* FindPR of each forge: the listing fails, shows the open pull request, or shows none.
\* One that cannot be read counts as none with the two command lines whose output is
\* mixed with their messages, and as a failure with the others.
GitHubLists == {"error", "none"} \union (IF request.open THEN {"open"} ELSE {})
GitLabLists == {"error", "none"} \union (IF request.open THEN {"open"} ELSE {})
AzureLists == {"error", IF request.open THEN "open" ELSE "none"}
BitbucketLists == {"error", IF request.open THEN "open" ELSE "none"}
Lists == CASE provider = "github" -> GitHubLists [] provider = "gitlab" -> GitLabLists
           [] provider = "azure" -> AzureLists [] provider = "bitbucket" -> BitbucketLists

Find ==
    /\ At("find")
    /\ \E listed \in Lists : step' = [step EXCEPT !.pc = IF listed = "error" THEN "failed" ELSE "publish", !.found = listed = "open"]
    /\ UNCHANGED <<provider, request, row>>

\* clampDescription: Azure DevOps is never sent more than it takes.
Sent(text) == IF provider = "azure" THEN Clamp(text, Limits["azure"]) ELSE text
Shown == [open |-> TRUE, nonce |-> step.nonce, len |-> Size(Sent(step.text))]

\* UpdatePR, CreatePR: an error may come before or after the effect, and a creation may
\* be answered without a URL; a forge keeps one open pull request for a branch.
Publish ==
    /\ At("publish")
    /\ step.found \/ ~request.open
    /\ request' = IF step.found THEN [Shown EXCEPT !.open = request.open] ELSE Shown
    /\ Moves("record") \/ Moves("failed")
    /\ UNCHANGED <<provider, row>>
PublishRefused == At("publish") /\ StepFails

\* persistPublishedPR: GitHub's expected publication, then the URL.
RecordIdentity ==
    /\ At("record") /\ provider = "github"
    /\ row' = [row EXCEPT !.nonce = step.nonce]
    /\ Moves("url") /\ UNCHANGED <<provider, request>>
RecordURL ==
    /\ At("url") \/ (At("record") /\ provider # "github")
    /\ row' = [row EXCEPT !.url = TRUE]
    /\ Moves("done") /\ UNCHANGED <<provider, request>>
RecordFails == (At("record") \/ At("url")) /\ StepFails

\* The run starts over after a repair, or a later one of the branch starts anew, the
\* earlier one having ended, failed, or died with its daemon at any point.
Fresh == [Idle EXCEPT !.nonce = step.nonce]
Again == At("done") /\ step' = Fresh /\ UNCHANGED <<provider, request, row>>
NextRun == step' = Fresh /\ row' = NoRow /\ UNCHANGED <<provider, request>>

\* Somebody merges or closes the pull request.
CloseRequest == request.open /\ request' = [request EXCEPT !.open = FALSE] /\ UNCHANGED <<provider, step, row>>

PRNext ==
    \/ SkipPR \/ Draft \/ Find \/ Publish \/ PublishRefused
    \/ RecordIdentity \/ RecordURL \/ RecordFails
    \/ Again \/ NextRun \/ CloseRequest

PRSpec == PRInit /\ [][PRNext]_prVars
------------------------------------------------------------------------------
(* Properties. *)

\* No description is longer than its provider takes, not even by the marker of a cut.
DescriptionFits == request.len <= Limits[provider]

\* However much is cut, the attestation is whole if it fits at all: it is what the checks
\* on the forge read.
AttestationSurvives ==
    step.text # <<>> /\ step.sample.head > 0 /\ step.sample.head <= Limits[provider] - Identity - Gap
        => Holds(step.text, "attestation")

\* GitHub's description loses its oldest updates first: the latest is shown, whole or
\* cut, wherever an earlier one is.
LatestUpdateFirst ==
    provider = "github" => \A i \in Pieces(step.text, "update") : \A n \in step.text[i].n..Updates(step.sample) :
        \E j \in Pieces(step.text, "update") : step.text[j].n = n /\ (n > step.text[i].n => step.text[j].whole)

\* A run whose PR step is over expects the publication that the pull request shows.
PublicationKnown == At("done") /\ row.url /\ provider = "github" => row.nonce = request.nonce

PublicationSafe == DescriptionFits /\ AttestationSurvives /\ LatestUpdateFirst /\ PublicationKnown
=============================================================================
