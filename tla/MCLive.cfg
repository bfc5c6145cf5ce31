SPECIFICATION LiveSpec
CONSTANTS
    MaxHead = 2
    MaxCrashes = 0
    NoFix = FALSE
    AutoFixLimit <- MCNoAutoFix
    SkipSets <- MCRebasedRun
    Default = "main"
    Topic = "topic"
    Fresh = "feat"
    Detached = "HEAD"
    NoName = ""
INVARIANTS
    WizardSafe
PROPERTIES
    CancelledRunEnds
    MergedGateCloses
