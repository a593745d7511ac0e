CONSTANTS
    s1 = s1
    s2 = s2
    Sessions <- TwoSessions
    Forks <- OneFork
    MaxRevision = 2
    MaxCrashes = 2
    MaxPowerLosses = 1
    MaxFaults = 1
SPECIFICATION FairSpec
INVARIANTS
    CreationInv
PROPERTIES
    DecidedOnce
    ForksConverge
CHECK_DEADLOCK FALSE
