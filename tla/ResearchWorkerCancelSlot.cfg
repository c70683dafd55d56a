SPECIFICATION Spec
CONSTANTS
    MaxJobs = 1
    MaxAttempts = 1
    MaxClaims = 2
    w1 = w1
    w2 = w2
    Workers = {w1}
    MaxFaults = 0
    Requests = {"CANCEL"}
INVARIANT CancelledHoldsNoSlot
