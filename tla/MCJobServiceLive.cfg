CONSTANTS
    j1 = j1
    j2 = j2
    NoJob = NoJob
    Jobs <- TwoJobs
    FollowUps <- NoFollowUps
    Policy <- AfterTurn
    MaxCrashes = 0
    MaxFaults = 0
    MaxRequests = 0
    Stubborn <- OneJob
    LossyExecutor = FALSE
    EarlyCancel = FALSE
SPECIFICATION FairSpec
PROPERTIES
    EveryAdmissionSettles
    TerminalReleasesSlot
CHECK_DEADLOCK FALSE
