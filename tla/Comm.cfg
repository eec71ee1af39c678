\* Labs 1 and 2: six sessions of six runs; labs 7 and 8: two servers and two
\* clients of each echo program, three clients of each datagram program; lab 2:
\* three clients of the file server in C.
SPECIFICATION Spec
CONSTANTS
    a1 = a1
    a2 = a2
    c1 = c1
    c2 = c2
    c3 = c3
    Users <- SixRuns
    Lineups <- Sessions
    Mnb = 1040
    Servers <- TwoServers
    Clients <- TwoClients
    Lines <- Texts
    MayQuit <- OnlyC1
    Kinds = {"plain", "no_unlink", "forking", "inet"}
    Askers <- ThreeClients
    Empty <- OnlyC2
    Impatient <- OnlyC1
    Protocols = {"unix", "ipv4", "ipv6"}
    Fetchers <- ThreeClients
    Size <- Sizes
    FirstZero <- Zeros
    MaxData = 4
    MaxKills = 2
INVARIANTS
    EchoExact
    OwnAnswer
    FetchedOnce
PROPERTIES
    WaitersProceed
    Answered
    Reaped
    Replied
    SingleAnswerSpec
CHECK_DEADLOCK FALSE
