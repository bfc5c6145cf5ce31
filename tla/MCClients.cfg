SPECIFICATION ClientsSpec
CHECK_DEADLOCK FALSE
CONSTANTS
    LastStep = 1
    MaxYesFixRounds = 1
    MaxRounds = 2
    MaxDrives = 2
    MaxKeys = 1
    MaxCrashes = 1
    Attestation = 1
    Others = {2}
    RerunLimit = 1
    FixLimit = 1
    MaxOmits = 1
    MaxHeads = 2
    Pids = {1, 2, 3}
    MaxBirths = 4
    MaxCommands = 1
    MaxFalls = 1
    MaxServers = 2
    MaxDeaths = 1
    TurnTries = 2
    Dirs = {1, 2}
INVARIANTS
    RulingsSettle
    YesIsBounded
    CISafe
    LeftoversReaped
PROPERTIES
    OthersSpared
    GreenIsEarned
