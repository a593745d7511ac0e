CONSTANTS
    e1 = e1
    e2 = e2
    d = d
    t = t
    p1 = p1
    p2 = p2
    Ops <- FourOps
    Deletes <- OneDelete
    Titles <- OneTitle
    DependsOn <- Chain
    Batches <- ManyBatches
    Procs <- TwoProcs
    Limit = 3
    MaxCrashes = 2
    MaxBlocks = 1
    MaxFaults = 1
SPECIFICATION FairSpec
INVARIANTS
    NavigationInv
    AppliedOnce
PROPERTIES
    FailureReachesSuccessors
    EveryOperationEnds
CHECK_DEADLOCK FALSE
