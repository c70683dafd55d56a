SPECIFICATION Spec
CONSTANTS
    Deployments = {d1}
    MaxSlots = 1
    MaxFaults = 4
PROPERTY LatchIsHeld
