\* A file with a zero byte.
SPECIFICATION Spec
CONSTANTS
    c1 = c1
    c2 = c2
    c3 = c3
    Clients <- TwoClients
    FileLen <- TwoFiles
    Unopenable <- Nothing
    Unreadable <- Nothing
    NulChunks <- C2HasNul
    ServerCap = 1
    ClientCap = 2
    MaxForkFails = 0
    MayDie <- Nothing
    Victims <- Nothing
    MaxRestarts = 0
INVARIANT
    FileReceived
CHECK_DEADLOCK FALSE
