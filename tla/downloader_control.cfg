SPECIFICATION FairSpec
CONSTANTS
    d1 = d1
    d2 = d2
    Calls = {d1, d2}
    Batch <- OneEach
    Controls = {"pause", "shutdown"}
    Configs <- OneServer
    PreTried <- MaybeTried
    ShortPenalty = 1
    LongPenalty = 2
    ChannelCap = 1
PROPERTIES
    Returns
    ShutdownEnds
