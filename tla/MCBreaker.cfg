SPECIFICATION SafeSpec
CONSTANTS
    Threads = {t1, t2, t3}
    FailThreshold = 2
    CooldownSetting = 3
    MaxCall = 2
SYMMETRY Symmetry
INVARIANTS
    TypeOK
    PendingIffHalfOpen
    FailuresMatchState
    SingleProbe
    NoStalledThreads
PROPERTIES
    OnlyStragglersCutShort
    KeepsPromise
