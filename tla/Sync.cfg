\* Labs 3 and 4: eleven runs on one key; lab 6: all programs.
SPECIFICATION Spec
CONSTANTS
    i1 = i1
    x1 = x1
    x2 = x2
    m1 = m1
    s1 = s1
    s2 = s2
    d1 = d1
    d2 = d2
    g1 = g1
    u1 = u1
    u2 = u2
    Inits <- ThreeInits
    Excl <- Exclusive
    Given <- Args
    Makers <- OneMaker
    Count <- TwoSems
    Setters <- TwoSetters
    Values <- Lists
    Takers <- TwoTakers
    NoWait <- TakerN
    Givers <- OneGiver
    Undoers <- TwoUndoers
    Keepers <- KeeperU2
    VMax = 5
    Msl = 4
    IMax = 1023
    Times = 3
    Size = 3
INVARIANTS
    Ledger
    SetsItsOwn
    Counted
    HandedOut
PROPERTIES
    AskedIsStored
    ProgramEnds
    TallySpec
CHECK_DEADLOCK FALSE
