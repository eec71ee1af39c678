\* The start order of the lab's own instructions: the writer first.
SPECIFICATION Spec
CONSTANTS
    NBlocks = 2
    ReaderFirst = FALSE
    MayDie <- NobodyDies
    OldSemVals <- LeftOvers
INVARIANT
    SegmentExclusive
CHECK_DEADLOCK FALSE
