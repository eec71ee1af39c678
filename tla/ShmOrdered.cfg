\* The writer is started once the reader waits; either may be killed.
SPECIFICATION FairSpec
CONSTANTS
    NBlocks = 3
    ReaderFirst = TRUE
    MayDie <- BothMayDie
    OldSemVals <- LeftOvers
INVARIANTS
    TypeOK
    OneToken
    SegmentExclusive
    DeliveredPrefix
    NothingLostAtExit
PROPERTIES
    ChannelSpec
    Transferred
CHECK_DEADLOCK FALSE
