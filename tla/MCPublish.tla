----------------------------- MODULE MCPublish ------------------------------
(* The pipeline with a daemon that dies, and the publication of its pull      *)
(* request and the evaluation corpus, checked side by side: an initial state    *)
(* chooses the part that moves.                                               *)
EXTENDS MCPipeline, PullRequest, Corpus

VARIABLE focus

MCLimits == [github |-> 45, gitlab |-> 45, bitbucket |-> 45, azure |-> 45]

\* A small attestation with many updates, one update longer than the room for it, and an
\* attestation that leaves room for nothing else.
MCDetails ==
    {[head |-> 0, groups |-> <<>>], [head |-> 6, groups |-> <<<<4, 3>>, <<8>>>>],
     [head |-> 14, groups |-> <<<<16>>>>], [head |-> 39, groups |-> <<<<5, 9, 4>>>>]}

MCSamples ==
    {[intent |-> i, risk |-> 2, changed |-> c, arts |-> a, head |-> d.head, groups |-> d.groups, loss |-> l] :
        i \in {0, 33}, c \in {<<9, 5>>, <<21, 21>>}, a \in {<<>>, <<5, 2, 1>>}, d \in MCDetails, l \in {2}}

Reviewed(sel, by, info, added, ended, asks) ==
    [sel |-> sel, by |-> by, info |-> info, added |-> added, step |-> ended, asks |-> asks,
     state |-> "whole"]

\* A finding the user had fixed and then a passed round, and a fix of the pipeline's own
\* with a finding the user added, before a gate; or no round at all.
MCReviewedRuns ==
    {<<>>,
     <<Reviewed({"a"}, "user", FALSE, FALSE, "completed", FALSE),
       Reviewed({}, "none", TRUE, FALSE, "completed", TRUE)>>,
     <<Reviewed({"a"}, "auto", FALSE, TRUE, "completed", FALSE),
       Reviewed({}, "none", TRUE, FALSE, "parked", TRUE)>>}

MCStrata == <<"s", "t">>

publishVars == <<focus, vars, prVars, corpusVars>>

PublishInit ==
    /\ focus \in {"pipeline", "request", "corpus"}
    /\ Init /\ PRInit /\ CorpusInit
    /\ focus # "request" => provider = "github"
    /\ setSize = 0 /\ (focus # "corpus" => reviewRounds = <<>>)

PublishNext ==
    \/ focus = "pipeline" /\ Next /\ UNCHANGED <<focus, prVars, corpusVars>>
    \/ focus = "request" /\ PRNext /\ UNCHANGED <<focus, vars, corpusVars>>
    \/ focus = "corpus" /\ CorpusNext /\ UNCHANGED <<focus, vars, prVars>>
    \/ focus = "corpus" /\ (\A p \in Evaluators : Reached(p, "idle")) /\ UNCHANGED publishVars

PublishSpec == PublishInit /\ [][PublishNext]_publishVars
=============================================================================
