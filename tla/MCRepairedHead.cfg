SPECIFICATION Spec
CONSTANTS
    MaxHead = 2
    MaxCrashes = 1
    NoFix = FALSE
    AutoFixLimit <- MCOneFix
    SkipSets <- MCReviewedRun
INVARIANT
    RepairedHeadReviewed
