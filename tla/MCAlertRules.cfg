SPECIFICATION Spec
CONSTANTS
    Replicas = {r1, r2}
    LongWindow = 4
    ShortWindow = 2
SYMMETRY Symmetry
INVARIANTS
    TypeOK
    OutageIsPaged
    CollapseIsPaged
    IdleIsQuiet
    BurnIsPaged
    BurnClears
