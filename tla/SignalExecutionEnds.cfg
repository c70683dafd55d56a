SPECIFICATION FairSpec
CONSTANTS
    Deployments = {d1}
    MaxCandle = 1
    Runtimes = {r1, r2}
    MaxPositions = 1
    Exposures = {0, 1}
    MaxFaults = 2
PROPERTIES
    EvaluationsEnd
