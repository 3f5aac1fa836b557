SPECIFICATION Spec

CONSTANTS
    p1 = p1
    p2 = p2
    p3 = p3
    gaia = gaia
    Players = {p1, p2}
    Gaia = gaia
    Tiles <- Lot
    Footprints <- Sites
    Cost <- SmallCost
    PopulationSpace <- SmallPopulationSpace
    BuildSteps = 2
    ProductionSteps = 2
    AttackTime = 2
    DamageTime = 1
    UnitHP = 2
    CarryCapacity = 1
    MaxQueue = 2
    StartResources = 3
    MaxResources = 4
    StartObjects <- DuelStart
    MaxObjects = 4
    Commands <- CombatCommands

PROPERTIES
    FollowsOtherCommand

\* Nothing happens any more once the server has exited.
CHECK_DEADLOCK FALSE
