SPECIFICATION ProcessesSpec
CHECK_DEADLOCK FALSE
CONSTANTS
    Commands = {1, 2}
    MaxProcs = 2
    Callers = {1, 2}
    Branches = {1}
    MaxRuns = 2
    MaxStarts = 2
    Workers = {w1, w2, w3}
    ConfigLimits = {0, 1}
    DefaultLimits <- MCDefaultLimits
INVARIANTS
    DaemonSafe
    RunsOwned
    OnlyAbandonedOverlap
    SlotsSafe
PROPERTIES
    CallersAreAnswered
    AdmitsAsPool
    WaitersReturn
