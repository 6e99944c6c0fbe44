SPECIFICATION Spec
CONSTANTS
    Admins = {a1}
    Updates <- MixedUpdates
    None = None
    ChaosEnabled = TRUE
    Handlers = {t1, t2}
    MaxSleep = 1
    MaxRequests = 3
SYMMETRY Symmetry
INVARIANTS
    TypeOK
    MetricsKeepStep
    GaugesAreCurrent
