SPECIFICATION ReconciliationSpec
CONSTANTS
    Nobody = Nobody
    w1 = w1
    o1 = o1
    r1 = r1
    Openings = {o1}
    Closings = {r1}
    Reductions = {r1}
    Writers = {w1}
    MaxGeneration = 2
    MaxFaults = 1
INVARIANTS
    ReconciliationTypeOK
    MissingIsPast
    UnknownIsUnresolved
    RefusedByRejectedCancel
PROPERTIES
    ImplementsOrderWriter
    CancelIsCurrent
