SPECIFICATION StopFairSpec
CONSTANTS
    MaxRuns = 2
    MaxControls = 4
INVARIANTS
    StopInv
PROPERTIES
    WritersKeepTheSlot
    StopEnds
CHECK_DEADLOCK FALSE
