SPECIFICATION Spec
CONSTANTS
    Calls = {d1, d2}
    d1 = d1
    d2 = d2
    Batch <- OneAndTwo
    Controls = {}
    Configs <- TwoServers
    PreTried <- NothingTried
    ShortPenalty = 1
    LongPenalty = 1
    ChannelCap = 1
INVARIANTS
    Accounted
    TriedOnce
    ActiveCount
    FailoverInOrder
    BlockedHoldsNoSlot
