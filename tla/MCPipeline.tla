----------------------------- MODULE MCPipeline -----------------------------
(* Small instances of Pipeline for TLC. *)
EXTENDS Pipeline

\* No automatic fixes: every fix round is asked for at a gate.
MCNoAutoFix == [s \in Steps |-> 0]

\* One automatic fix for the review.
MCOneFix == [s \in Steps |-> IF s = Review THEN 1 ELSE 0]

\* Review, Push, PR and CI run; a recovered run remembers no skips, and runs
\* whatever comes after its gate.
MCReviewedRun == {{Intent, Rebase, Test, Document, Lint}}

\* Review, Test, Document, Push, PR and CI run.
MCGates == {{Intent, Rebase, Lint}}

\* Rebase, Review, Push, PR and CI run; Intent and Rebase alone; or PR and CI
\* alone, for a branch already published: no gate is then stale when CI asks
\* for a restart.
MCRebasedRun == {{Intent, Test, Document, Lint}, Steps \ {Intent, Rebase}, Steps \ {PR, CI}}
=============================================================================
