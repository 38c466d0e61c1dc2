SPECIFICATION FairSpec
CONSTANTS
    N = 5
    BatchSize = 2
INVARIANTS
    Matched
    OkMeansComplete
    ReadyMeansAligned
PROPERTIES
    Returns
