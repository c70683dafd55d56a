SPECIFICATION FairSpec
CONSTANTS
    Openings = {o1}
    Closings = {}
    Reductions = {}
    Nobody = Nobody
    w1 = w1
    w2 = w2
    o1 = o1
    c1 = c1
    r1 = r1
    Writers = {w1, w2}
    MaxGeneration = 2
    MaxFaults = 1
INVARIANTS
    WriterTypeOK
    PostedAtMostOnce
    PlacementIsTracked
    GenerationIsExclusive
PROPERTIES
    PlacementSettles
