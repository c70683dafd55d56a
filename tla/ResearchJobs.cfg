SPECIFICATION JobsSpec
CONSTANTS
    MaxJobs = 2
    MaxAttempts = 2
    MaxClaims = 2
INVARIANTS
    TypeOK
    RunningHoldsSlot
    FormerOwnersAreFenced
    ResumableHasParkedAttempt
PROPERTY UnknownOutcomeNeverReruns
