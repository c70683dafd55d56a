SPECIFICATION Spec
CONSTANTS
    Deployments = {d1}
    MaxCandle = 2
    Runtimes = {r1, r2}
    MaxPositions = 1
    Exposures = {0}
    MaxFaults = 1
INVARIANTS
    SignalTypeOK
    DispatchIsBacked
    OneUnresolvedOrder
    BudgetCoversApprovals
PROPERTIES
    FormerOwnersAreContained
SYMMETRY Symmetry
