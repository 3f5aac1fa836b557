--------------------------- MODULE MapGeneration ---------------------------
(***************************************************************************)
(* ServerMap::GenerateRandomMap (src/FreeAge/server/map.cpp): the town     *)
(* centers, forests, bushes, mines, hills and units a match starts with.   *)
(* rand() may return anything.  The loops of the code are unrolled into an *)
(* agenda of things to place, which is worked off from its head.           *)
(*                                                                         *)
(* A tile is <<x, y>>; points are in units of 1/Scale tile.                *)
(***************************************************************************)
EXTENDS Integers, Sequences, FiniteSets, SequencesExt

CONSTANTS
    Size,            \* width and height of the map, in tiles
    PlayerCount,
    Border,          \* kDistanceToMapBorder
    VarianceAlong,   \* kPositionOnRectangleVariance
    Variance,        \* kPositionVariance
    TownCenterSize,  \* GetBuildingSize of a town center
    TownCenterClear, \* ... and the side of its GetBuildingOccupancy
    maxElevation,
    UnitRadius,      \* GetUnitRadius, in units of 1/Scale
    SpawnOffsets,    \* from a town center's middle to where units may appear
    Agendas          \* the sequences of things to place

Scale == 4
Map     == (0 .. Size - 1) \X (0 .. Size - 1)
Corners == (0 .. Size) \X (0 .. Size)

\* The variances fit into the border.  The size is that of the lobby, which the server
\* takes as it is: also one that leaves no room between the borders.
ASSUME GenerationAssumption ==
    /\ Size \in Nat \ {0} /\ Border \in Nat
    /\ PlayerCount \in Nat \ {0}
    /\ VarianceAlong \in Nat /\ Variance \in Nat /\ TownCenterSize \in Nat
    /\ Border >= VarianceAlong + Variance
    /\ Border >= Variance + TownCenterSize
    /\ maxElevation \in Nat
    /\ UnitRadius \in Nat /\ SpawnOffsets \subseteq Int \X Int

\* The things to place, with the numbers the code has for them.
Tasks ==
    [kind : {"TownCenter", "NextKind"}]
      \cup [kind : {"Forest"}, fromTownCenters : Nat, fromOthers : Nat, radius : Nat]
      \cup [kind : {"Clump"}, fromTownCenters : Nat, fromOthers : Nat, count : Nat \ {0},
            type : {"Bush", "Gold"}]
      \cup [kind : {"PlayerClump"}, player : 1 .. PlayerCount, count : Nat \ {0},
            type : {"Bush", "Gold", "Stone"}, offsets : SUBSET (Int \X Int)]
      \cup [kind : {"Hill"}, fromTownCenters : Nat]
      \cup [kind : {"Unit"}, player : 1 .. PlayerCount]

\* What is still to be placed comes in the order of the loops: the first n things
\* are town centers, the last ones units, and what belongs to a player has its
\* town center among those that stand and the n to come.
InOrder(a, n, standing) ==
    \A i \in 1 .. Len(a) :
      /\ a[i].kind = "TownCenter" <=> i <= n
      /\ a[i].kind \in {"PlayerClump", "Unit"} => a[i].player <= standing + n
      /\ a[i].kind = "Unit" => \A j \in i .. Len(a) : a[j].kind = "Unit"

ASSUME AgendaAssumption ==
    \A a \in Agendas : a \in Seq(Tasks) /\ \E n \in 0 .. Len(a) : InOrder(a, n, 0)

VARIABLES
    agenda,               \* what is still to be placed
    townCenters,          \* townCenterLocations, by player
    centers,              \* forestCenters etc.: of the kind of things being placed
    buildings,            \* the buildings of the map, in order of their IDs
    units,                \* the units of the map, in order of their IDs
    occupiedForBuildings, \* set of tiles
    occupiedForUnits,     \* set of tiles
    elevation,            \* of each corner of a tile
    hill                  \* arguments and ring of the running PlaceElevation

objectVars == <<buildings, units, occupiedForBuildings, occupiedForUnits>>
mapVars    == <<agenda, townCenters, centers, objectVars, elevation, hill>>

noHill == [x |-> 0, y |-> 0, value |-> 0, ring |-> -1]

MapInit ==
    /\ agenda \in Agendas
    /\ townCenters = <<>> /\ centers = <<>>
    /\ buildings = <<>> /\ units = <<>>
    /\ occupiedForBuildings = {} /\ occupiedForUnits = {}
    /\ elevation = [c \in Corners |-> 0]
    /\ hill = noHill

-----------------------------------------------------------------------------
(***************************************************************************)
(* Town centers.                                                           *)
(***************************************************************************)
Edge           == Size - 2 * Border
RectangleEdges == 4 * Edge

\* a / b and a % b of C++: rounded toward zero, and the remainder has the sign of a.
Magnitude(n)    == IF n < 0 THEN -n ELSE n
Divided(a, b)   == LET q == Magnitude(a) \div Magnitude(b)
                   IN  IF (a < 0) = (b < 0) THEN q ELSE -q
Remainder(a, b) == LET r == Magnitude(a) % Magnitude(b) IN IF a < 0 THEN -r ELSE r

\* The point at a position along the rectangle, clockwise from its corner.  A
\* negative position, which player 0 may get, lies before that corner.  On a map that is
\* smaller than its borders the edges are negative, and all positions.
OnRectangle(pos) ==
    IF pos < Edge THEN <<Border + pos, Border>>
    ELSE IF pos < 2 * Edge THEN <<Border + Edge, Border + pos - Edge>>
    ELSE IF pos < 3 * Edge THEN <<Border + Edge - (pos - 2 * Edge), Border + Edge>>
    ELSE <<Border, Border + Edge - (pos - 3 * Edge)>>

TownCenterBase(player, along, dx, dy) ==
    LET p == OnRectangle(Remainder(Divided(player * RectangleEdges, PlayerCount) + along,
                                   RectangleEdges))
    IN  <<p[1] + dx, p[2] + dy>>

SizeOf(type)  == IF type = "TownCenter" THEN TownCenterSize ELSE 1
ClearOf(type) == IF type = "TownCenter" THEN TownCenterClear ELSE 1
Square(base, side) ==
    (base[1] .. base[1] + side - 1) \X (base[2] .. base[2] + side - 1)

\* The tiles that stand for the given ones in the array of the occupancy, which has one
\* row after the other: what leaves the map at a side enters it at the other one.  A
\* write before or behind the array is undefined; here it is lost.
Stored(tiles) == {t \in Map : \E u \in tiles : u[2] * Size + u[1] = t[2] * Size + t[1]}

(***************************************************************************)
(* AddBuilding, for buildings of one type at all the given tiles.          *)
(***************************************************************************)
AddBuildings(type, bases) ==
    /\ buildings' = buildings \o
         [i \in DOMAIN bases |-> [type |-> type, base |-> bases[i]]]
    /\ occupiedForBuildings' = occupiedForBuildings \cup
         Stored(UNION {Square(bases[i], SizeOf(type)) : i \in DOMAIN bases})
    /\ occupiedForUnits' = occupiedForUnits \cup
         Stored(UNION {Square(bases[i], ClearOf(type)) : i \in DOMAIN bases})
    /\ UNCHANGED units

Task == Head(agenda)
Busy(kind) == agenda # <<>> /\ hill = noHill /\ Task.kind = kind

\* The next thing to place; the centers are those of one kind of things.
Proceed ==
    /\ agenda' = Tail(agenda)
    /\ UNCHANGED <<elevation, hill>>

\* Without a rectangle the code divides by zero.
PlaceTownCenter ==
    /\ Busy("TownCenter")
    /\ RectangleEdges # 0
    /\ \E along \in -VarianceAlong .. VarianceAlong, dx, dy \in -Variance .. Variance :
         LET base == TownCenterBase(Len(townCenters), along, dx, dy)
         IN  /\ townCenters' = Append(townCenters, base)
             /\ AddBuildings("TownCenter", <<base>>)
    /\ Proceed
    /\ UNCHANGED centers

HalfTownCenter == (TownCenterSize * Scale) \div 2
Middle(base) == <<base[1] * Scale + HalfTownCenter, base[2] * Scale + HalfTownCenter>>

\* sqrt of the squared distance < distance (in tiles), both points scaled.
Near(a, b, distance) ==
    (a[1] - b[1]) * (a[1] - b[1]) + (a[2] - b[2]) * (a[2] - b[2])
      < distance * distance * Scale * Scale

Corner(t) == <<t[1] * Scale, t[2] * Scale>>
CenterOf(t) == <<t[1] * Scale + Scale \div 2, t[2] * Scale + Scale \div 2>>

\* The tiles getRandomLocation may return.
Locations(distance) ==
    {t \in Map : \A i \in DOMAIN townCenters :
                   ~Near(Middle(townCenters[i]), Corner(t), distance)}

Apart(t, distance) == \A i \in DOMAIN centers : ~Near(centers[i], Corner(t), distance)

Beside(t) == {<<t[1] + 1, t[2]>>, <<t[1] - 1, t[2]>>, <<t[1], t[2] + 1>>, <<t[1], t[2] - 1>>}

\* A clump starts where a tile and its neighbors are free and inside the map.
RoomForClump(t) == {t} \cup Beside(t) \subseteq Map \ occupiedForBuildings

\* Where a bush or mine was not placed for want of room, before the next attempt.
Refused == {t \in Locations(Task.fromTownCenters) :
              Apart(t, Task.fromOthers) /\ ~RoomForClump(t)}

\* getRandomLocation gives up after 1000 attempts: the thing is not placed, and
\* its center stays where QPointF() puts it, at the origin of the map, or where
\* an attempt before left it.
Skip ==
    /\ Busy("Forest") \/ Busy("Clump") \/ Busy("Hill")
    /\ Locations(Task.fromTownCenters) # Map
    /\ \/ Busy("Hill") /\ UNCHANGED centers
       \/ ~Busy("Hill") /\ centers' = Append(centers, <<0, 0>>)
       \/ Busy("Clump") /\ \E t \in Refused : centers' = Append(centers, CenterOf(t))
    /\ Proceed
    /\ UNCHANGED <<townCenters, objectVars>>

PlaceForest ==
    /\ Busy("Forest")
    /\ \E t \in Locations(Task.fromTownCenters) :
         /\ Apart(t, Task.fromOthers)
         /\ centers' = Append(centers, CenterOf(t))
         /\ AddBuildings("Tree",
              SetToSeq({u \in Map \ occupiedForBuildings :
                          (u[1] - t[1]) * (u[1] - t[1]) + (u[2] - t[2]) * (u[2] - t[2])
                            <= Task.radius * Task.radius}))
    /\ Proceed
    /\ UNCHANGED townCenters

\* Mutant: the neighbor may be occupied.
FreeNeighborsInMap(t, clump) == (Beside(t) \cap Map) \ {clump[1]}

FreeNeighbors(t, clump) == (Beside(t) \cap Map) \ (occupiedForBuildings \cup ToSet(clump))

\* The clumps with a k-th tile, a free neighbor of the one before, if there is one.
Longer(clumps, k) ==
    UNION {LET next == FreeNeighbors(Last(c), c)
           IN  IF next = {} \/ Len(c) < k - 1 THEN {c} ELSE {Append(c, u) : u \in next} :
           c \in clumps}

\* SpawnBuildingClump: the clumps of up to n tiles that start at t.
Clumps(t, n) ==
    LET grown[k \in 1 .. n] == IF k = 1 THEN {<<t>>} ELSE Longer(grown[k - 1], k)
    IN  grown[n]

\* Neutral bushes and gold: away from the town centers and from each other.
PlaceClump ==
    /\ Busy("Clump")
    /\ \E t \in Locations(Task.fromTownCenters) :
         /\ Apart(t, Task.fromOthers)
         /\ RoomForClump(t)
         /\ centers' = Append(centers, CenterOf(t))
         /\ \E c \in Clumps(t, Task.count) : AddBuildings(Task.type, c)
    /\ Proceed
    /\ UNCHANGED townCenters

\* The forestCenters, neutralForageBushCenters and neutralGoldCenters are
\* different lists: the next kind of things starts with an empty one.
NextKind ==
    /\ Busy("NextKind")
    /\ centers' = <<>>
    /\ Proceed
    /\ UNCHANGED <<townCenters, objectVars>>

Around(p, offset) == <<p[1] + offset[1], p[2] + offset[2]>>

\* Bushes, gold and stone of a player, around its town center.
PlacePlayerClump ==
    /\ Busy("PlayerClump")
    /\ \E offset \in Task.offsets :
         LET at == Around(Middle(townCenters[Task.player]), offset)
             t  == <<Divided(at[1], Scale), Divided(at[2], Scale)>>
         IN  /\ RoomForClump(t)
             /\ \E c \in Clumps(t, Task.count) : AddBuildings(Task.type, c)
    /\ Proceed
    /\ UNCHANGED <<townCenters, centers>>
-----------------------------------------------------------------------------
(***************************************************************************)
(* Hills: PlaceElevation works from the four corners of a tile outwards,   *)
(* one ring of corners after the other.                                    *)
(***************************************************************************)
PlaceHill ==
    /\ Busy("Hill")
    /\ \E t \in Locations(Task.fromTownCenters), v \in 0 .. maxElevation - 1 :
         hill' = [x |-> t[1], y |-> t[2], value |-> v, ring |-> 0]
    /\ agenda' = Tail(agenda)
    /\ UNCHANGED <<townCenters, centers, objectVars, elevation>>

\* The ring a corner belongs to.
RingOf(h, c) ==
    LET away(n, first) == IF n < first THEN first - n
                          ELSE IF n > first + 1 THEN n - first - 1 ELSE 0
        dx == away(c[1], h.x)
        dy == away(c[2], h.y)
    IN  IF dx > dy THEN dx ELSE dy

\* Mutant: the ring may differ by twice its distance.
ClampedSteep(h, e) ==
    IF e < h.value - 2 * h.ring THEN h.value - 2 * h.ring
    ELSE IF e > h.value + 2 * h.ring THEN h.value + 2 * h.ring ELSE e

\* An elevation of the current ring, brought between currentMinElev and
\* currentMaxElev.
Clamped(h, e) ==
    IF e < h.value - h.ring THEN h.value - h.ring
    ELSE IF e > h.value + h.ring THEN h.value + h.ring ELSE e

Raised == [c \in Corners |-> IF RingOf(hill, c) = hill.ring
                               THEN Clamped(hill, elevation[c]) ELSE elevation[c]]

\* The last ring is one that is as it should be, or one after which every
\* elevation is allowed.
LastRing ==
    \/ Raised = elevation
    \/ hill.value - (hill.ring + 1) <= 0 /\ hill.value + hill.ring + 1 >= maxElevation

PlaceRing ==
    /\ hill # noHill
    /\ elevation' = Raised
    /\ hill' = IF LastRing THEN noHill ELSE [hill EXCEPT !.ring = @ + 1]
    /\ UNCHANGED <<agenda, townCenters, centers, objectVars>>
-----------------------------------------------------------------------------
(***************************************************************************)
(* DoesUnitCollide: the point is too close to the border, to an occupied   *)
(* tile or to another unit.                                                *)
(***************************************************************************)
TooClose(a, b, distance) ==
    (a[1] - b[1]) * (a[1] - b[1]) + (a[2] - b[2]) * (a[2] - b[2]) < distance * distance

Nearest(n, t) == IF n < t * Scale THEN t * Scale
                 ELSE IF n > (t + 1) * Scale THEN (t + 1) * Scale ELSE n

CollidesWithMap(p) ==
    \/ \E k \in 1 .. 2 : p[k] < UnitRadius \/ p[k] >= Size * Scale - UnitRadius
    \/ \E t \in occupiedForUnits :
         TooClose(p, <<Nearest(p[1], t[1]), Nearest(p[2], t[2])>>, UnitRadius)

CollidesWithUnit(p) == \E i \in DOMAIN units : TooClose(p, units[i], 2 * UnitRadius)

\* A villager or scout: tried again until it collides with nothing.
PlaceUnit ==
    /\ Busy("Unit")
    /\ \E offset \in SpawnOffsets :
         LET p == Around(Middle(townCenters[Task.player]), offset)
         IN  /\ ~CollidesWithMap(p) /\ ~CollidesWithUnit(p)
             /\ units' = Append(units, p)
    /\ Proceed
    /\ UNCHANGED <<townCenters, centers, buildings, occupiedForBuildings, occupiedForUnits>>

MapNext ==
    \/ PlaceTownCenter \/ PlaceForest \/ PlaceClump \/ Skip \/ NextKind
    \/ PlacePlayerClump \/ PlaceHill \/ PlaceRing \/ PlaceUnit

MapSpec == MapInit /\ [][MapNext]_mapVars
-----------------------------------------------------------------------------
\* "... while ensuring that the maximum slope of 1 is not exceeded (i.e.,
\* neighboring tiles may be modified as well)" (map.hpp): hills that overlap,
\* cut each other or are cut off by the border leave neighboring corners, also
\* diagonal ones, at most one apart, although the work on a hill stops early.
SlopesGentle ==
    hill = noHill =>
      \A c, d \in Corners :
        (d[1] - c[1] \in 0 .. 1 /\ d[2] - c[2] \in -1 .. 1)
          => elevation[c] - elevation[d] \in -1 .. 1

TilesOf(b) == Square(b.base, SizeOf(b.type))

\* On a map of any size, whatever is placed after the town centers stands on tiles of its
\* own and inside the map, and where it is marked as occupied; no unit stands in a
\* building or in another unit, even where a town center's tiles are open to units.  Town
\* centers may overlap each other; off the map they are only if it has no room for their
\* rectangle.
NothingOverlaps ==
    /\ \A i \in DOMAIN buildings :
         /\ \/ TilesOf(buildings[i]) \subseteq Map
            \/ buildings[i].type = "TownCenter" /\ Size <= 2 * Border
         /\ TilesOf(buildings[i]) \cap Map \subseteq occupiedForBuildings
         /\ \A j \in DOMAIN buildings \ {i} :
              \/ TilesOf(buildings[i]) \cap TilesOf(buildings[j]) = {}
              \/ buildings[i].type = "TownCenter" /\ buildings[j].type = "TownCenter"
    /\ \A i \in DOMAIN units :
         /\ ~CollidesWithMap(units[i])
         /\ \A j \in DOMAIN units \ {i} : ~TooClose(units[i], units[j], 2 * UnitRadius)
=============================================================================
