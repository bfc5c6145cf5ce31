SPECIFICATION FindingsSpec
CONSTANTS
    Sorts <- MCSorts
    Inherited <- MCInherited
    Limits <- MCLimits
    AddedPlaces <- MCAdded
    FixLimit = 1
    MaxReport = 2
    MaxReported = 2
    MaxRounds = 2
    Diffs = {d1}
    MaxProposed = 1
    MaxAdds = 0
    MaxKnown = 4
CHECK_DEADLOCK FALSE
INVARIANTS
    AskUserPauses
