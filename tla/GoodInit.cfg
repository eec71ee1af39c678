\* Three copies at once, any of which may be killed.
SPECIFICATION FairSpec
CONSTANTS
    p1 = p1
    p2 = p2
    p3 = p3
    Procs <- ThreeProcs
    Given <- SomeValues
    VMax = 3
    MaxTries = 3
    MayDie <- ThreeProcs
INVARIANTS
    TypeOK
    OneInitialiser
PROPERTIES
    OnceSpec
    EveryCopyEnds
    ValuesArrive
CHECK_DEADLOCK FALSE
