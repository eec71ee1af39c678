\* Three copies at once, none of which is killed.
SPECIFICATION Spec
CONSTANTS
    p1 = p1
    p2 = p2
    p3 = p3
    Procs <- ThreeProcs
    Given <- SomeValues
    VMax = 3
    MaxTries = 3
    MayDie <- Nobody
INVARIANT
    SkippedMeansReady

CHECK_DEADLOCK FALSE
