\* Two clients of lab 7 task 3 at a time.
SPECIFICATION Spec
CONSTANTS
    a1 = a1
    a2 = a2
    c1 = c1
    c2 = c2
    c3 = c3
    Users <- SixRuns
    Lineups <- Sessions
    Mnb = 1040
    Servers <- TwoServers
    Clients <- TwoClients
    Lines <- Texts
    MayQuit <- OnlyC1
    Kinds = {"plain"}
    Askers <- TwoClients
    Empty <- OnlyC2
    Impatient <- OnlyC1
    Protocols = {"unix"}
    Fetchers <- ThreeClients
    Size <- Sizes
    FirstZero <- Zeros
    MaxData = 4
    MaxKills = 0
INVARIANTS
    AnswerIsMine
CHECK_DEADLOCK FALSE
