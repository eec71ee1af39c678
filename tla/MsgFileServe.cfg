\* Three clients on one server; c1, the children of c1 and c2 and the server may be
\* killed, c1's file may fail to be read, a fork may fail, and the server may be
\* started again.
SPECIFICATION FairSpec
CONSTANTS
    c1 = c1
    c2 = c2
    c3 = c3
    Clients <- ThreeClients
    FileLen <- ThreeFiles
    Unopenable <- OnlyC3
    Unreadable <- OnlyC1
    NulChunks <- C2HasNul
    ServerCap = 1
    ClientCap = 2
    MaxForkFails = 1
    MayDie <- ServerOrC1
    Victims <- C1AndC2
    MaxRestarts = 1
INVARIANTS
    TypeOK
    OneCustodian
    PrintedIsFile
    QuietCleanup
PROPERTIES
    ServiceSpec
    Answered
CHECK_DEADLOCK FALSE
