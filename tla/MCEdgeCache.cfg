SPECIFICATION SafeSpec
CONSTANTS
    Workers = {w1, w2}
    Segments = {s1}
    FailThreshold = 2
    CooldownSetting = 2
    MaxCall = 1
    CbEnabled = TRUE
INVARIANTS
    TypeOK
    OpenFreesWorkers
PROPERTY UsesBreaker
