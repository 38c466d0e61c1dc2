SPECIFICATION Spec
CONSTANTS
    Calls = {d1, d2}
    d1 = d1
    d2 = d2
    Batch <- OneEach
    Controls = {}
    Configs <- TwoServers
    PreTried <- NothingTried
    ShortPenalty = 1
    LongPenalty = 1
    ChannelCap = 1
PROPERTIES
    ExpiredReplayed
