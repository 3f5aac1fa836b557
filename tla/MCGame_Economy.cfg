SPECIFICATION Spec

CONSTANTS
    p1 = p1
    p2 = p2
    p3 = p3
    gaia = gaia
    Players = {p1, p2}
    Gaia = gaia
    Tiles <- Lot
    Footprints <- TwoSites
    Cost <- SmallCost
    PopulationSpace <- SmallPopulationSpace
    BuildSteps = 2
    ProductionSteps = 2
    AttackTime = 2
    DamageTime = 1
    UnitHP = 1
    CarryCapacity = 1
    MaxQueue = 2
    StartResources = 2
    MaxResources = 1
    StartObjects <- EconomyStart
    MaxObjects = 6
    Commands <- EconomyCommands

INVARIANTS
    OccupancyExclusive

PROPERTIES
    StatsFollowObjects
    NoFreeResources

\* Nothing happens any more once the server has exited.
CHECK_DEADLOCK FALSE
