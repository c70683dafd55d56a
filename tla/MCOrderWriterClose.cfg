SPECIFICATION Spec
CONSTANTS
    Openings = {o1}
    Closings = {c1}
    Reductions = {}
    Nobody = Nobody
    w1 = w1
    w2 = w2
    o1 = o1
    c1 = c1
    r1 = r1
    Writers = {w1}
    MaxGeneration = 2
    MaxFaults = 1
INVARIANTS
    OneOrderInFlight
    ReconciledIsReal
PROPERTIES
    ImplementsOrderProtocol
