SPECIFICATION FairSpec
CONSTANTS
    Callers = {c1, c2, c3, c4}
    Conns = {x1, x2, x3, x4, x5}
    NoConn = NoConn
    Max = 2
    MaxClosing = 2
INVARIANTS
    SlotsConserved
    WithinLimit
PROPERTIES
    HandedOutHealthy
    LimiterFairSpec
