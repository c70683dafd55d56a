SPECIFICATION FairSpec
CONSTANTS
    MaxJobs = 1
    MaxAttempts = 1
    MaxClaims = 5
    w1 = w1
    w2 = w2
    Workers = {w1, w2}
    MaxFaults = 1
    Requests = {"CANCEL", "RETRY", "REVOKE"}
INVARIANTS
    WorkerTypeOK
    ProviderCalledAtMostOnce
    DeployedWasApproved
    ClosedTogether
PROPERTIES
    
    ImplementsJobs
    QueueDrains
