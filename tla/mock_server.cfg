SPECIFICATION Spec
CONSTANTS
    Conns = {c1, c2}
    Configs <- MCConfigs
    Injected = {"400", "430", "503"}
    MaxAttempts = 1
    RateWindow = 1
    MaxNow = 3
INVARIANTS
    RateLimited
    ScriptOnce
    PostedOnce
PROPERTIES
    ServesWire
SYMMETRY Symmetry
CHECK_DEADLOCK FALSE
