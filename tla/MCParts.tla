------------------------------ MODULE MCParts ------------------------------
(***************************************************************************)
(* The instances for TLC of the parts of the program that work on their    *)
(* own: finding a path and making a map on the server; the connection, the *)
(* clock, the window and the fog of war of the client; packing, caching    *)
(* and reading its sprites.  They stand side by side in one specification: *)
(* a behavior is one of the single part that it starts with, and the       *)
(* variables of the others never change.                                   *)
(***************************************************************************)
EXTENDS Pathfinding, MapGeneration, ServerConnection, TimeSync, GameWindow,
        FieldOfView, MaxRectsBinPack, SpriteAtlas, SpriteLayers

VARIABLE part

-----------------------------------------------------------------------------
(* Pathfinding: a map of 4 x 3 tiles.  With up to three occupied ones, a unit *)
(* at the left and a goal of one tile at the right; a unit anywhere in its    *)
(* tile, on the edge even, and a building of two tiles as the goal; and a     *)
(* unit or a goal that is not on the map, or close to its border.  Point(x, y)   *)
(* is a point in hundredths of a tile.                                        *)
Cells == (0 .. 3) \X (0 .. 2)
Target == (2 .. 2) \X (1 .. 2)
Point(x, y) == <<(x * Grain) \div 100, (y * Grain) \div 100>>

Searches ==
    UNION {{[unit |-> Center(u), goal |-> Plus(Center(g), Point(-25, 30)), rect |-> {g}, occupied |-> o] :
              u \in {<<0, 1>>, <<1, 0>>} \ o, g \in {<<3, 0>>, <<3, 2>>}} :
           o \in UNION {kSubset(k, Cells) : k \in 0 .. 3}}
    \cup {[unit |-> u, goal |-> Point(250, 200), rect |-> Target, occupied |-> Target \cup o] :
             u \in {Point(100, 95), Point(305, 15), Point(250, 200)},
             o \in UNION {kSubset(k, Cells \ {<<1, 0>>, <<3, 0>>}) : k \in 0 .. 2}}
    \cup {[unit |-> u[1], goal |-> g[1], rect |-> {g[2]}, occupied |-> o \cup u[2]] :
             u \in {<<Point(-160, -130), {}>>, <<Point(-160, -130), {<<0, 0>>}>>, <<Point(15, 15), {}>>},
             g \in {<<Point(410, 290), <<3, 2>>>>, <<Point(-110, 350), <<0, 2>>>>, <<Point(1, 299), <<0, 2>>>>},
             o \in UNION {kSubset(k, Cells \ {<<0, 0>>}) : k \in 0 .. 1}}

(* Map generation: the kinds of things in the order of the code, in short     *)
(* sequences, on a map of 6 x 6 tiles.                                        *)
TownCenter == [kind |-> "TownCenter"]
Forest == [kind |-> "Forest", fromTownCenters |-> 3, fromOthers |-> 3, radius |-> 1]
Gold == [kind |-> "Clump", fromTownCenters |-> 2, fromOthers |-> 2, count |-> 3, type |-> "Gold"]
Bushes == [kind |-> "PlayerClump", player |-> 1, count |-> 2, type |-> "Bush",
           offsets |-> {<<8, 0>>, <<-8, 0>>, <<0, 9>>, <<-6, -6>>, <<6, 6>>}]
Hill == [kind |-> "Hill", fromTownCenters |-> 2]
Scout == [kind |-> "Unit", player |-> 1]

ShortAgendas == {<<TownCenter, Forest, [kind |-> "NextKind"], Gold, Scout>>,
                 <<TownCenter, TownCenter, Bushes, Bushes, Scout, Scout>>,
                 <<Hill, Hill>>, <<TownCenter, Hill>>}
NearbySpots == {<<5, 0>>, <<0, 5>>, <<6, 2>>, <<-6, -1>>}

(* Fog of war: two own objects on a map of 4 x 2 tiles, and units that walk   *)
(* on past its edge.                                                          *)
Clearings == {<<0, 0>>, <<1, 0>>}
Walks == ((0 .. 3) \X (0 .. 1)) \cup {<<-1, 0>>, <<4, 1>>, <<5, 1>>}

(* Time: offsets of measurements that pull into both directions.              *)
Offsets == {-4, 0, 6}

(* Packing: two bins, one of which lets rectangles be turned.                 *)
TwoBins == {[width |-> 3, height |-> 4, allowFlip |-> FALSE],
            [width |-> 4, height |-> 3, allowFlip |-> TRUE]}
Rectangles == {<<1, 2>>, <<2, 1>>, <<2, 2>>}

(* Sprite atlases: the frames of sprites that fit into the smallest texture,  *)
(* into a larger one and into none.                                           *)
SpriteSizes == {<<<<1, 2>>, <<2, 2>>>>, <<<<2, 2>>, <<1, 2>>>>, <<<<2, 2>>, <<1, 2>>, <<2, 1>>>>,
                <<<<2, 3>>>>, <<<<2, 2>>, <<0, 0>>>>, <<<<5, 1>>, <<1, 5>>>>}

(* Sprite layers: eight colors in each compression, and frames of two rows with *)
(* every kind of command, with skipped rows, shadows and outlines, and with a   *)
(* command that shadows do not have.                                            *)
Colors == <<5, 300, 200, 770, 64, 999, 31, 512>>
Index(i) == Colors[i] % 256
Section(i) == Colors[i] \div 256

Encode8To5 ==
    FlattenSeq([k \in 1 .. 4 |->
        LET a == 2 * k - 1
            b == 2 * k
        IN  <<Index(a), Section(a) + 4 * (Index(b) % 64), (Index(b) \div 64) + 4 * Section(b), 0, 0>>])
Encode4Plus1 ==
    FlattenSeq([k \in 1 .. 2 |->
        LET a == 4 * k - 3
        IN  <<Index(a), Index(a + 1), Index(a + 2), Index(a + 3),
              Section(a) + 4 * Section(a + 1) + 16 * Section(a + 2) + 64 * Section(a + 3)>>])
Plain == [i \in DOMAIN Colors |-> <<Index(i), Section(i)>>]

Run(code, n) == [code |-> code, count |-> n]
EndRow == Run(3, 1)
LayerRows ==
    {<<<<Skipped, Skipped>>, <<>>>>,
     <<<<0, 0>>, <<Run(1, 3), EndRow>>>>,
     <<<<0, 0>>, <<Run(1, 1), Run(0, 1), Run(2, 1), EndRow>>>>,
     <<<<1, 0>>, <<Run(2, 2), EndRow>>>>,
     <<<<0, 1>>, <<Run(1, 1), EndRow>>>>,
     <<<<1, 1>>, <<Run(1, 1), EndRow>>>>}

Graphic(rows, data) ==
    [type |-> "graphic", width |-> 3, height |-> Len(rows), hotspotX |-> 1, hotspotY |-> 1,
     edges |-> [i \in DOMAIN rows |-> rows[i][1]],
     commands |-> FlattenSeq([i \in DOMAIN rows |-> rows[i][2]]), data |-> data, colors |-> Colors]
ShadowLayer ==
    [type |-> "shadow", width |-> 4, height |-> 2, hotspotX |-> 2, hotspotY |-> 0,
     edges |-> <<<<0, 0>>, <<1, 0>>>>,
     commands |-> <<Run(1, 4), EndRow, Run(1, 1), Run(0, 1), EndRow>>,
     data |-> <<90, 10, 40, 255, 7>>]
BadLayer == [ShadowLayer EXCEPT !.commands = <<Run(1, 4), EndRow, Run(2, 1)>>]
OutlineLayer ==
    [type |-> "outline", width |-> 3, height |-> 2, hotspotX |-> 1, hotspotY |-> 2,
     edges |-> <<<<0, 0>>, <<Skipped, 0>>>>,
     commands |-> <<Run(1, 2), Run(0, 1), EndRow>>, data |-> <<>>]

LayeredFrames ==
    {[format |-> "SMX", compression |-> d[1], palette |-> 1,
      layers |-> <<Graphic(<<a, b>>, d[2])>> \o rest] :
        d \in {<<"8to5", Encode8To5>>, <<"4plus1", Encode4Plus1>>},
        a \in LayerRows, b \in LayerRows,
        rest \in {<<ShadowLayer, OutlineLayer>>, <<OutlineLayer>>, <<BadLayer>>}}
    \cup {[format |-> "SMP", compression |-> "none", palette |-> 1,
           layers |-> <<Graphic(<<a, b>>, Plain), OutlineLayer>>] :
             a \in LayerRows, b \in LayerRows}
    \cup {[format |-> "SMX", compression |-> "8to5", palette |-> 2, layers |-> <<>>]}

-----------------------------------------------------------------------------
\* The parts that do not take part: states in which there is nothing to check.
PathOff ==
    /\ plan = "off" /\ priorityQueue = "off" /\ costSoFar = "off" /\ cameFrom = "off"
    /\ closest = "off" /\ reached = "off" /\ targetTile = "off" /\ reversePath = "off"
    /\ corner = "off" /\ phase = "off"
MapOff ==
    /\ agenda = <<>> /\ townCenters = <<>> /\ centers = <<>> /\ elevation = <<>>
    /\ buildings = <<>> /\ units = <<>>
    /\ occupiedForBuildings = {} /\ occupiedForUnits = {}
    /\ hill = [noHill EXCEPT !.ring = 0]
ConnectionOff == ConnInit
ClockOff == SyncInit
WindowOff == WindowInit
FogOff == ViewInit
BinOff ==
    /\ packer = [Empty([width |-> 0, height |-> 0, allowFlip |-> FALSE]) EXCEPT !.free = <<>>]
    /\ insertion = idle
AtlasOff ==
    /\ spriteFile = "off" /\ cacheFile = "off" /\ loading = "off" /\ frames = "off"
    /\ atlas = "off" /\ search = "off" /\ loaded = "off"
LayersOff ==
    /\ frame = "off" /\ reading = "off" /\ layer = "off" /\ images = "off"
    /\ row = "off" /\ out = "off" /\ next = "off" /\ run = "off"
    /\ ptr = "off" /\ decompressionState = "off" /\ cursor = "off"

PartsInit ==
    \/ /\ part = "path" /\ PlanInit
       /\ MapOff /\ ConnectionOff /\ ClockOff /\ WindowOff /\ FogOff /\ BinOff /\ AtlasOff /\ LayersOff
    \/ /\ part = "map" /\ MapInit
       /\ PathOff /\ ConnectionOff /\ ClockOff /\ WindowOff /\ FogOff /\ BinOff /\ AtlasOff /\ LayersOff
    \/ /\ part = "connection" /\ ConnInit
       /\ PathOff /\ MapOff /\ ClockOff /\ WindowOff /\ FogOff /\ BinOff /\ AtlasOff /\ LayersOff
    \/ /\ part = "clock" /\ SyncInit
       /\ PathOff /\ MapOff /\ ConnectionOff /\ WindowOff /\ FogOff /\ BinOff /\ AtlasOff /\ LayersOff
    \/ /\ part = "window" /\ WindowInit
       /\ PathOff /\ MapOff /\ ConnectionOff /\ ClockOff /\ FogOff /\ BinOff /\ AtlasOff /\ LayersOff
    \/ /\ part = "fog" /\ ViewInit
       /\ PathOff /\ MapOff /\ ConnectionOff /\ ClockOff /\ WindowOff /\ BinOff /\ AtlasOff /\ LayersOff
    \/ /\ part = "bin" /\ BinInit
       /\ PathOff /\ MapOff /\ ConnectionOff /\ ClockOff /\ WindowOff /\ FogOff /\ AtlasOff /\ LayersOff
    \/ /\ part = "atlas" /\ AtlasInit
       /\ PathOff /\ MapOff /\ ConnectionOff /\ ClockOff /\ WindowOff /\ FogOff /\ BinOff /\ LayersOff
    \/ /\ part = "layers" /\ LayersInit
       /\ PathOff /\ MapOff /\ ConnectionOff /\ ClockOff /\ WindowOff /\ FogOff /\ BinOff /\ AtlasOff

OfPath(action) ==
    /\ part = "path"
    /\ action
    /\ UNCHANGED <<part, mapVars, connVars, syncVars, windowVars, viewVars, binVars,
                 atlasVars, layerVars>>
OfMap(action) ==
    /\ part = "map"
    /\ action
    /\ UNCHANGED <<part, planVars, connVars, syncVars, windowVars, viewVars, binVars,
                 atlasVars, layerVars>>
OfConnection(action) ==
    /\ part = "connection"
    /\ action
    /\ UNCHANGED <<part, planVars, mapVars, syncVars, windowVars, viewVars, binVars,
                 atlasVars, layerVars>>
OfClock(action) ==
    /\ part = "clock"
    /\ action
    /\ UNCHANGED <<part, planVars, mapVars, connVars, windowVars, viewVars, binVars,
                 atlasVars, layerVars>>
OfWindow(action) ==
    /\ part = "window"
    /\ action
    /\ UNCHANGED <<part, planVars, mapVars, connVars, syncVars, viewVars, binVars,
                 atlasVars, layerVars>>
OfFog(action) ==
    /\ part = "fog"
    /\ action
    /\ UNCHANGED <<part, planVars, mapVars, connVars, syncVars, windowVars, binVars,
                 atlasVars, layerVars>>
OfBin(action) ==
    /\ part = "bin"
    /\ action
    /\ UNCHANGED <<part, planVars, mapVars, connVars, syncVars, windowVars, viewVars,
                 atlasVars, layerVars>>
OfAtlas(action) ==
    /\ part = "atlas"
    /\ action
    /\ UNCHANGED <<part, planVars, mapVars, connVars, syncVars, windowVars, viewVars,
                 binVars, layerVars>>
OfLayers(action) ==
    /\ part = "layers"
    /\ action
    /\ UNCHANGED <<part, planVars, mapVars, connVars, syncVars, windowVars, viewVars,
                 binVars, atlasVars>>

PartsNext ==
    \/ OfPath(Expand) \/ OfPath(ReachGoal) \/ OfPath(GiveUp) \/ OfPath(Smooth)
    \/ OfPath(SetPath)
    \/ OfMap(PlaceTownCenter) \/ OfMap(PlaceForest) \/ OfMap(PlaceClump)
    \/ OfMap(Skip) \/ OfMap(NextKind) \/ OfMap(PlacePlayerClump) \/ OfMap(PlaceHill)
    \/ OfMap(PlaceRing) \/ OfMap(PlaceUnit)
    \/ OfConnection(NetConnects) \/ OfConnection(NetShutsDown)
    \/ OfConnection(NetReads) \/ OfConnection(NetStores) \/ OfConnection(NetChecks)
    \/ OfConnection(Join) \/ OfConnection(WelcomeArrives)
    \/ OfConnection(RefuseVersion) \/ OfConnection(WelcomeMissing)
    \/ OfConnection(TakeSignal) \/ OfConnection(StartHandling)
    \/ OfConnection(HandleMessage) \/ OfConnection(EndHandling)
    \/ OfConnection(LeaveLobby) \/ OfConnection(LeaveAndShutdown)
    \/ OfConnection(GameFrame) \/ OfConnection(ServerSends)
    \/ OfConnection(ServerPongs) \/ OfConnection(ServerEnds)
    \/ OfConnection(SocketCloses)
    \/ OfClock(Response) \/ OfClock(ResponseTime) \/ OfClock(ShowFrame)
    \/ OfClock(Tick)
    \/ OfWindow(Frame) \/ OfWindow(HotkeyPress) \/ OfWindow(HotkeyRelease)
    \/ OfWindow(RightClick) \/ OfWindow(RightClickOnMinimap)
    \/ OfWindow(PressButton) \/ OfWindow(PressQueueIcon) \/ OfWindow(PressOnMap)
    \/ OfWindow(MoveMouse) \/ OfWindow(ReleaseIgnored) \/ OfWindow(ReleaseBox)
    \/ OfWindow(ReleaseButton) \/ OfWindow(ReleaseClick) \/ OfWindow(ReleaseOnPanel)
    \/ OfWindow(Resign) \/ OfWindow(CancelMenu) \/ OfWindow(Escape)
    \/ OfWindow(Delete) \/ OfWindow(DefineControlGroup)
    \/ OfWindow(SelectControlGroup) \/ OfWindow(JumpToNextTownCenter)
    \/ \E i \in Watchers : OfFog(UnitAppears(i))
    \/ \E i \in Watchers : OfFog(BuildingAppears(i))
    \/ \E i \in Watchers : OfFog(BuildingFinishes(i))
    \/ \E i \in Watchers : OfFog(UnitWalks(i))
    \/ \E i \in Watchers : OfFog(WatcherDies(i))
    \/ OfFog(RenderFog)
    \/ OfBin(InsertOne) \/ OfBin(InsertMany) \/ OfBin(InsertBest)
    \/ OfBin(EndInsert)
    \/ OfAtlas(ReplaceSprite) \/ OfAtlas(LoadSprite) \/ OfAtlas(LoadCache)
    \/ OfAtlas(DiscardCache) \/ OfAtlas(TrySize) \/ OfAtlas(EndSearch)
    \/ OfAtlas(Build) \/ OfAtlas(Render) \/ OfAtlas(SaveMore) \/ OfAtlas(EndSave)
    \/ OfAtlas(Quit)
    \/ OfLayers(FindPalette) \/ OfLayers(ReadLayer) \/ OfLayers(BeginRow)
    \/ OfLayers(Command) \/ OfLayers(DrawPixel) \/ OfLayers(EndLayer)
    \/ OfLayers(Inpaint) \/ OfLayers(Fail)

PartsSpec == PartsInit /\ [][PartsNext]_<<part, planVars, mapVars, connVars, syncVars, windowVars, viewVars,
                                                 binVars,
                                                 atlasVars,
                                                 layerVars>>

\* The view of TLC.  Orders are told by the step that sends them, and no action
\* reads them.
Seen ==
    <<part, planVars, mapVars, connVars, syncVars, gameVars, chosenVars,
      mouseVars, menu, viewVars, binVars, atlasVars, layerVars>>
=============================================================================
