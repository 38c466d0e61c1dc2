SPECIFICATION FairSpec
CONSTANTS
    N = 5
    PipeliningDepth = 2
    DropsCancelled = TRUE
INVARIANTS
    Matched
    Accounted
    AlignedAfterReturn
PROPERTIES
    Returns
CHECK_DEADLOCK FALSE
