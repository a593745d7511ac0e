CONSTANTS
    j1 = j1
    j2 = j2
    NoJob = NoJob
    Jobs <- TwoJobs
    FollowUps <- OneFollowUp
    Policy <- MixedPolicies
    MaxCrashes = 1
    MaxFaults = 1
    MaxRequests = 0
    Stubborn <- OneJob
    LossyExecutor = TRUE
    EarlyCancel = FALSE
SPECIFICATION Spec
VIEW CrashView
CONSTRAINT OneDisturbance
INVARIANTS
    ServiceInv
    MirrorConsistent
    CanonicalFirst
PROPERTIES
    ImplementsThreadQueue
CHECK_DEADLOCK FALSE
