SPECIFICATION PublishSpec
CONSTANTS
    MaxHead = 2
    MaxCrashes = 1
    NoFix = FALSE
    AutoFixLimit <- MCNoAutoFix
    SkipSets <- MCReviewedRun
    Samples <- MCSamples
    Limits <- MCLimits
    MaxPublished = 2
    Evaluators = {e1, e2}
    ReviewedRuns <- MCReviewedRuns
    Strata <- MCStrata
    SetSizes = {0, 1}
    MaxCases = 1
    MaxEvalOps = 3
    MaxMishaps = 1
INVARIANTS
    RowsConsistent
    AuthorityCoversGates
    PublishedWasReviewed
    GateSlotFree
    PublicationSafe
    CorpusSafe
PROPERTIES
    KeepsPromise
