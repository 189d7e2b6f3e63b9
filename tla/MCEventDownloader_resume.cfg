SPECIFICATION FairSpec
CONSTANTS
    MaxEvent = 4
    BatchSizes = {2, 3}
    ParallelConnections = 2
    WindowSize = 2
    FlushSize = 2
    Hashed = {0, 2, 3}
    MaxFaults = 2
INVARIANTS ProgressIsStored CompleteIsAll
PROPERTIES NeverGoesBack Completes
