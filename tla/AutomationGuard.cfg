SPECIFICATION FairSpec
CONSTANTS
    Deployments = {d1, d2}
    MaxSlots = 2
    MaxFaults = 6
INVARIANTS
    GuardTypeOK
    RunningIsBelowThreshold
PROPERTIES
    OpeningsAreAuthorized
    CooldownEnds
