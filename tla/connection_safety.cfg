SPECIFICATION FairSpec
CONSTANTS
    Ops = {"date", "stat", "lossless", "body", "prefix", "post"}
    Codes <- SomeCodes
    ServerConfigs <- SomeConfigs
    Advertised <- SomeLists
    MaxOwed = 1
INVARIANTS
    TypeOK
    ReadyMeansAligned
    GzipKnown
PROPERTIES
    OwnReply
    SessionOver
    Returns
