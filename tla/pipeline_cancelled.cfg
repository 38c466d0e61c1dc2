SPECIFICATION Spec
CONSTANTS
    N = 4
    PipeliningDepth = 2
    DropsCancelled = FALSE
INVARIANTS
    ReadyMeansAligned
CHECK_DEADLOCK FALSE
