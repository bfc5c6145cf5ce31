SPECIFICATION HostSpec
CONSTANTS
    Stranded <- MCStranded
    MaxRuns = 2
    MaxMoves = 2
    MaxHeads = 1
    FixBound = 2
    ActBound = 2
    Invokers = {1, 2, 3}
    Chain <- MCChain
    Leased = {"codex"}
    LastTick = 3
    Probe = 1
    Ttl = 1
    Paths = {1, 2}
    MaxShifts = 2
    MaxTampers = 1
    MaxInits = 2
    Kinds = {"fix"}
    NSteps = 1
    MaxRounds = 2
    MaxChanges = 2
    MaxFrames = 1
    MaxBreaks = 1
    MaxPresses = 1
    Setups <- MCSetups
    MaxTurns = 2
    MaxSessions = 2
    MaxHeard = 3
    MaxSpent = 2
    TurnRetries = 1
    MaxBlocks = 2
CHECK_DEADLOCK FALSE
INVARIANTS
    HostSafe
    LanesSafe
    GateSafe
    TurnsSafe
PROPERTIES
    CustodyIsEarned
    PushKeepsUnseen
    MarksMove
    UserHookKept
