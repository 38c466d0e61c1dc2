SPECIFICATION FairSpec
CONSTANTS
    Workers = {w1, w2, w3}
    NoWorker = NoWorker
    Delays = {0, 2}
    Backdated = 1
    Connections = 1
    Penalties = {1}
    Sizes = {1}
    Window = 1
    MaxTried = 3
    MaxAbandoned = 1
INVARIANTS
    ActiveCounts
    SpeedIsRolling
PROPERTIES
    Paced
    AcquireReturns
