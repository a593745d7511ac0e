CONSTANTS
    u1 = u1
    u2 = u2
    k1 = k1
    k2 = k2
    b1 = b1
    Users <- TwoUsers
    Keys <- TwoKeys
    Blockers <- OneBlocker
    MaxAcquires = 2
    MaxBuilds = 3
    MaxFaults = 1
    MaxCloses = 2
    MaxPulls = 1
SPECIFICATION FairSpec
INVARIANTS
    ResidencyInv
    LeaseIsUsable
PROPERTIES
    IdleUnloads
CHECK_DEADLOCK FALSE
