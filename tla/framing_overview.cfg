SPECIFICATION OverviewSpec
CONSTANTS
    Scripts <- MCScripts
    Writers = {"post", "postbytes", "server"}
    Bounds = {2, 3, 9}
    MaxLine = 4
    Ranges <- MCRanges
    Fields = 2
    MinFields = 2
    MaxNumber = 15
INVARIANTS
    Delivered
    PrefixExact
    RowsExact
    RowsAreEntries
CHECK_DEADLOCK FALSE
