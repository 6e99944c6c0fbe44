SPECIFICATION LeverSpec
CONSTANTS
    Admins = {a1, a2}
    Updates <- MixedUpdates
    None = None
    ChaosEnabled = TRUE
PROPERTY PartialUpdate
