SPECIFICATION Spec
CONSTANTS
    Threads = {t1, t2, t3}
    FailThreshold = 0
    CooldownSetting = 2
    MaxCall = 2
INVARIANT FailuresMatchState
PROPERTIES
    OpenIsLeft
    HalfOpenIsLeft
