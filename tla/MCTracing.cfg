SPECIFICATION Spec
CONSTANTS
    Requests = {r1, r2}
    Invalid = Invalid
    Settings <- AnySetting
    MaxQueue = 2
CHECK_DEADLOCK FALSE
INVARIANTS
    TypeOK
    WholeTraces
PROPERTIES
    ExemplarsResolve
    RequestsFinish
