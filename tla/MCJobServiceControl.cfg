CONSTANTS
    j1 = j1
    j2 = j2
    NoJob = NoJob
    Jobs <- TwoJobs
    FollowUps <- NoFollowUps
    Policy <- AfterTurn
    MaxCrashes = 0
    MaxFaults = 0
    MaxRequests = 1
    Stubborn <- TwoJobs
    LossyExecutor = TRUE
    EarlyCancel = TRUE
SPECIFICATION Spec
VIEW ControlView
SYMMETRY TwoSymmetry
INVARIANTS
    ExecutorOwnsThread
    ClaimIsGivenBack
PROPERTIES
    LegalTransitions
CHECK_DEADLOCK FALSE
