SPECIFICATION Spec
CONSTANTS
    Workers = {w1, w2}
    Segments = {s1}
    FailThreshold = 2
    CooldownSetting = 1
    MaxCall = 1
    CbEnabled = TRUE
PROPERTIES
    RequestsFinish
    OutageStaysVisible
    OutageKeepsTripped
    RecoveryIsSeen
    CacheRefills
