SPECIFICATION PartsSpec

VIEW Seen

CONSTANTS
    Width = 4
    Height = 3
    WalkerRadius = 300
    Plans <- Searches
    Size = 6
    PlayerCount = 2
    Border = 2
    VarianceAlong = 1
    Variance = 0
    TownCenterSize = 2
    TownCenterClear = 1
    maxElevation = 3
    UnitRadius = 1
    SpawnOffsets <- NearbySpots
    Agendas <- ShortAgendas
    PingTimeout = 1
    MaxAttempts = 2
    MaxMessages = 3
    MaxOnWire = 1
    Measurements <- Offsets
    WindowSize = 4
    MaxTime = 6
    MyUnits = {villager}
    MyBuildings = {townCenter}
    EnemyUnits = {enemy}
    EnemyBuildings = {}
    Villagers = {villager, enemy}
    ViewWidth = 4
    ViewHeight = 2
    Watchers = {1, 2}
    Sites <- Clearings
    UnitSight = 1
    BuildingSight = 1
    BuildingTiles = 2
    Reach <- Walks
    Bins <- TwoBins
    Sizes <- Rectangles
    Methods = {"BottomLeft", "BestShortSide", "BestLongSide", "BestArea", "ContactPoint"}
    MaxUsed = 3
    Sprites <- SpriteSizes
    InitialSize = 4
    Attempts = 3
    Frames <- LayeredFrames
    Palettes = {1}
    PaletteSize = 1024

INVARIANTS
    FindsBestPath
    LegsClear
    NothingOverlaps
    SlopesGentle
    NeverLockedOut
    MessagesInOrder
    LossNoticed
    SelectionKnown
    ViewCountsExact
    FogStaleOnlyWhereChanged
    FreeListExact
    AtlasSound
    LayersCombine

PROPERTIES
    NoJumps
    OrdersNameOwn

\* A search, a map, a packed bin or a read sprite is finished at some time, and the
\* counters that bound the other parts are used up.
CHECK_DEADLOCK FALSE
