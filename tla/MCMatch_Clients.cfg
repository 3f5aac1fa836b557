SPECIFICATION SessionsSpec
CONSTANTS
    p1 = p1
    p2 = p2
    p3 = p3
    gaia = gaia
    Players = {p1, p2, p3}
    Gaia = gaia
    Tiles <- Lot
    Footprints <- Sites
    Cost <- SmallCost
    PopulationSpace <- SmallPopulationSpace
    BuildSteps = 2
    ProductionSteps = 3
    AttackTime = 2
    DamageTime = 1
    UnitHP = 1
    CarryCapacity = 1
    MaxQueue = 2
    StartResources = 1
    MaxResources = 2
    StartObjects <- MatchStart
    MaxObjects = 5
    Commands <- MatchCommands
    MaxLag = 2
    MaxOrders = 2
    Seats = 3
    maxLoadingStep = 1
    Host = 2
    Fragile = {2}
INVARIANTS
    CountersMatchMirror
    OutcomeTrue
    SessionConsistent

PROPERTIES
    ImplementsDelayedCopy
    WinnerLearns
    LoadingEnds


\* Nothing happens any more once the server has exited and all is shown, nor in a
\* loading phase that has ended.
CHECK_DEADLOCK FALSE
