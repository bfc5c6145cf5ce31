SPECIFICATION ToldSpec
CHECK_DEADLOCK FALSE
CONSTANTS
    MaxEvents = 2
    MaxBytes = 3
    Sizes <- MCSizes
    WireCap = 1
    MaxTries = 1
    MaxWrites = 1
    MaxLogs = 1
    MaxFaults = 2
    Traits <- MCTraits
    NoPath = "none"
    SingleReviewThreshold = 0
    FullReviewThreshold = 0
    SampleTokens = {"a", "b", "x", "(", ".", "func"}
    SampleFiles <- MCFiles
    Gates = {1, 2}
    Requests <- MCRequests
    NoGate = 0
    Window = 2
    Repeats = 2
    Menu <- MCMenu
    MaxKilled = 1
INVARIANTS
    StreamSafe
    SlopSafe
PROPERTIES
    ReadsNeverRegress
    EndIsNoticed
