\* The programs are started in any order; either may be killed.
SPECIFICATION Spec
CONSTANTS
    NBlocks = 2
    ReaderFirst = FALSE
    MayDie <- BothMayDie
    OldSemVals <- LeftOvers
INVARIANTS
    NothingOld
CHECK_DEADLOCK FALSE
