SPECIFICATION Spec
CONSTANTS
    WorkersPerReplica = 4
    CpuBound = 2
    ServiceTimes <- HitAndMiss
    Rates <- SomeRates
    MaxReplicas = 7
    MaxBacklog = 12
    RunAway = 60
INVARIANTS
    TypeOK
    EnoughKeepUp
PROPERTIES
    FewerFallBehind
    HeadroomDrains
