\* Lab 7: three clients for two descriptors, one of which may quit at any point.
SPECIFICATION Spec
CONSTANTS
    c1 = c1
    c2 = c2
    c3 = c3
    Clients <- ThreeClients
    Lines <- Talk
    MayQuit <- OnlyC3
    MaxFd = 2
    Cap <- Narrow
    Domains <- Lab7
INVARIANT
    ChatGoesOn
CHECK_DEADLOCK FALSE
