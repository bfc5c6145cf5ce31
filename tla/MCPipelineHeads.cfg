SPECIFICATION ReviewSpec
CONSTANTS
    MaxHead = 2
    MaxCrashes = 0
    NoFix = FALSE
    AutoFixLimit <- MCOneFix
    SkipSets <- MCGates
    Sorts <- MCSorts
    Inherited <- MCInherited
    Limits <- MCLimits
    AddedPlaces <- MCAdded
    FixLimit = 1
    MaxReport = 2
    MaxReported = 2
    MaxRounds = 3
    Diffs = {d1}
    MaxProposed = 1
    MaxAdds = 1
    MaxKnown = 2
    ConfigRuns = {r1, r2}
    Pairs <- MCPairs
    TrustedPairs <- MCTrusted
    PushedPairs <- MCPushed
    GlobalFiles <- MCGlobals
    Paths <- MCPaths
    MaxTips = 2
    MaxConfigEvents = 2
CHECK_DEADLOCK FALSE
INVARIANTS
    AutoFixBudget
    DeliveredHeadCertified
    FindingsSafe
    ConfigTrusted
PROPERTIES
    PublishesOnlyCertified
