CONSTANTS
    x = x
    y = y
    Tasks <- TwoTasks
    External <- OneExternal
    Shard <- SharedLock
    MaxSteps = 2
    MaxStarts = 2
    MaxControls = 2
    MaxFaults = 1
SPECIFICATION FairSpec
INVARIANTS
    BackgroundInv
    NoBlindReplay
PROPERTIES
    EndedStaysEnded
    ImplementsLeases
    TasksConverge
CHECK_DEADLOCK FALSE
