SPECIFICATION Spec
CONSTANTS
    Callers = {c1, c2, c3}
    Conns = {x1, x2, x3, x4}
    NoConn = NoConn
    Max = 2
    MaxClosing = 2
SYMMETRY Symmetry
INVARIANTS
    OpenSocketsWithinLimit
