SPECIFICATION FairSpec
CONSTANTS
    NoOrder = NoOrder
    s1 = s1
    s2 = s2
    w1 = w1
    Signals = {s1, s2}
    Workers = {w1}
    Size = 2
    MaxFaults = 2
INVARIANTS
    SoakTypeOK
    OneExposure
    BooksAreTheAccount
PROPERTY Drains
CHECK_DEADLOCK FALSE
