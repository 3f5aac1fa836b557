---------------------------- MODULE FieldOfView ----------------------------
(* The fog of war of the client: Map::viewCount counts, for every tile, the  *)
(* own objects that see it (-1: the tile was never seen), and is changed by  *)
(* +1 and -1 as objects appear, walk, are finished and die                   *)
(* (client/map.cpp, client/object.cpp, client/unit.cpp and the handlers of   *)
(* client/game_controller.cpp).  The texture of the fog is refreshed when    *)
(* the map is rendered, only within the rectangle that changed since.        *)
(*                                                                           *)
(* Lengths are in tenths of a tile.  Only the objects of the client's own    *)
(* player are modelled: the others reach none of this code.                  *)
EXTENDS Integers, FiniteSets

CONSTANTS
    ViewWidth, ViewHeight,   \* the size of the map in tiles
    Watchers,                \* the ids of the own objects
    Sites,                   \* tiles at which a unit appears or a building is based
    UnitSight,               \* GetUnitLineOfSight, in tiles
    BuildingSight,           \* GetBuildingLineOfSight, in tiles
    BuildingTiles,           \* GetBuildingSize, in tiles
    Reach                    \* tiles that units walk on, also off the map

ASSUME ViewAssumption ==
    /\ ViewWidth \in Nat /\ ViewHeight \in Nat
    /\ IsFiniteSet(Watchers)
    /\ Sites \cup Reach \subseteq Int \X Int
    /\ UnitSight \in Nat /\ BuildingSight \in Nat /\ BuildingTiles \in Nat

VARIABLES
    watchers,    \* Map::objects: what each id stands for
    viewCount,   \* Map::viewCount
    changed,     \* viewCountChangeMinX, ... MaxX, MinY, MaxY
    fogTexture   \* the shade the texture has for every tile

viewVars == <<watchers, viewCount, changed, fogTexture>>

Columns == 0 .. ViewWidth - 1
Rows == 0 .. ViewHeight - 1
MapTiles == Columns \X Rows

Least(a, b) == IF a <= b THEN a ELSE b
Greatest(a, b) == IF a >= b THEN a ELSE b

Nothing == [kind |-> "none"]
UnitOn(tile) == [kind |-> "unit", tile |-> tile]
BuildingOn(tile, completed) == [kind |-> "building", tile |-> tile, completed |-> completed]

-----------------------------------------------------------------------------
(* The circle that an object sees.                                           *)

\* The centre of an object: of the tile of a unit, of the ground of a building.
ViewCenter(o) ==
    LET half == IF o.kind = "unit" THEN 5 ELSE 5 * BuildingTiles
    IN  <<10 * o.tile[1] + half, 10 * o.tile[2] + half>>

EffectiveRadius(o) == 10 * (IF o.kind = "unit" THEN UnitSight ELSE BuildingSight) + 7

\* The conversion to whole tiles, towards zero.
Truncated(length) == IF length >= 0 THEN length \div 10 ELSE -((-length) \div 10)

\* The tiles UpdateFieldOfView looks at: a square around the centre, cut off at the map's edge.
RangeAround(o) ==
    LET c == ViewCenter(o)
        r == EffectiveRadius(o)
    IN  [minX |-> Greatest(0, Truncated(c[1] - r)), maxX |-> Least(ViewWidth - 1, Truncated(c[1] + r)),
         minY |-> Greatest(0, Truncated(c[2] - r)), maxY |-> Least(ViewHeight - 1, Truncated(c[2] + r))]

Covers(range, t) ==
    /\ t[1] \in range.minX .. range.maxX
    /\ t[2] \in range.minY .. range.maxY

\* Whether the centre of the tile is within the circle.
InSight(o, t) ==
    LET c  == ViewCenter(o)
        dx == 10 * t[1] + 5 - c[1]
        dy == 10 * t[2] + 5 - c[2]
        r  == EffectiveRadius(o)
    IN  dx * dx + dy * dy <= r * r

-----------------------------------------------------------------------------
(* UpdateFieldOfView: the counts, and the rectangle that has changed.        *)

\* A tile that is seen for the first time is uncovered before it is counted.
Counted(count, o, change) ==
    LET range == RangeAround(o)
    IN  [t \in MapTiles |->
            IF Covers(range, t) /\ InSight(o, t)
            THEN (IF count[t] = -1 THEN 0 ELSE count[t]) + change
            ELSE count[t]]

\* A plausible slip: the latest change replaces the earlier ones.
ViewCountChangedLatest(rect, range) == range

ViewCountChanged(rect, range) ==
    [minX |-> Least(rect.minX, range.minX), maxX |-> Greatest(rect.maxX, range.maxX),
     minY |-> Least(rect.minY, range.minY), maxY |-> Greatest(rect.maxY, range.maxY)]

UpdateFieldOfView(o, change) ==
    /\ viewCount' = Counted(viewCount, o, change)
    /\ changed' = ViewCountChanged(changed, RangeAround(o))

\* A plausible slip: the coordinate is updated before the old circle is taken away.
MoveFieldOfViewLate(old, new) ==
    /\ viewCount' = Counted(Counted(viewCount, new, -1), new, 1)
    /\ changed' = ViewCountChanged(changed, RangeAround(new))

\* ClientUnit::UpdateMapCoord on a new tile: away from the old one, onto the new one.
MoveFieldOfView(old, new) ==
    /\ viewCount' = Counted(Counted(viewCount, old, -1), new, 1)
    /\ changed' = ViewCountChanged(ViewCountChanged(changed, RangeAround(old)), RangeAround(new))

-----------------------------------------------------------------------------
(* The handlers of the messages about own objects, and the frames.           *)

\* The rectangle that UpdateViewCountTexture leaves: empty, and grown by any other.
NoChange == [minX |-> ViewWidth, maxX |-> -1, minY |-> ViewHeight, maxY |-> -1]

\* The map at the start: nothing seen, and the whole texture to be made.
ViewInit ==
    /\ watchers = [i \in Watchers |-> Nothing]
    /\ viewCount = [t \in MapTiles |-> -1]
    /\ changed = [minX |-> 0, maxX |-> ViewWidth - 1, minY |-> 0, maxY |-> ViewHeight - 1]
    /\ fogTexture = [t \in MapTiles |-> 0]

UnitAppears(i) ==
    /\ watchers[i] = Nothing
    /\ \E tile \in Sites :
        /\ watchers' = [watchers EXCEPT ![i] = UnitOn(tile)]
        /\ UpdateFieldOfView(UnitOn(tile), 1)
    /\ UNCHANGED fogTexture

\* A building sees once it is completed, which it may be from the start.
BuildingAppears(i) ==
    /\ watchers[i] = Nothing
    /\ \E tile \in Sites, completed \in BOOLEAN :
        /\ tile[1] + BuildingTiles <= ViewWidth
        /\ tile[2] + BuildingTiles <= ViewHeight
        /\ watchers' = [watchers EXCEPT ![i] = BuildingOn(tile, completed)]
        /\ IF completed
           THEN UpdateFieldOfView(BuildingOn(tile, TRUE), 1)
           ELSE UNCHANGED <<viewCount, changed>>
    /\ UNCHANGED fogTexture

\* BuildPercentageUpdate with 100 percent.
BuildingFinishes(i) ==
    /\ watchers[i].kind = "building"
    /\ ~watchers[i].completed
    /\ watchers' = [watchers EXCEPT ![i].completed = TRUE]
    /\ UpdateFieldOfView(watchers[i], 1)
    /\ UNCHANGED fogTexture

\* UpdateMapCoord, in a frame or for a UnitMovement message.  A unit walks on
\* along its last segment while no message arrives, even off the map.
UnitWalks(i) ==
    /\ watchers[i].kind = "unit"
    /\ \E step \in {<<1, 0>>, <<-1, 0>>, <<0, 1>>, <<0, -1>>} :
        LET old == watchers[i]
            new == UnitOn(<<old.tile[1] + step[1], old.tile[2] + step[2]>>)
        IN  /\ new.tile \in Reach
            /\ watchers' = [watchers EXCEPT ![i] = new]
            /\ MoveFieldOfView(old, new)
    /\ UNCHANGED fogTexture

\* HandleObjectDeathMessage: a foundation saw nothing.
WatcherDies(i) ==
    /\ watchers[i] /= Nothing
    /\ watchers' = [watchers EXCEPT ![i] = Nothing]
    /\ IF watchers[i].kind = "building" /\ ~watchers[i].completed
       THEN UNCHANGED <<viewCount, changed>>
       ELSE UpdateFieldOfView(watchers[i], -1)
    /\ UNCHANGED fogTexture

Shade(count) == IF count = 0 THEN 168 ELSE IF count > 0 THEN 255 ELSE 0

\* Map::Render with something to update.
RenderFog ==
    /\ changed.maxX >= changed.minX
    /\ changed.maxY >= changed.minY
    /\ fogTexture' = [t \in MapTiles |->
                         IF Covers(changed, t) THEN Shade(viewCount[t]) ELSE fogTexture[t]]
    /\ changed' = NoChange
    /\ UNCHANGED <<watchers, viewCount>>

ViewNext ==
    \/ \E i \in Watchers :
        UnitAppears(i) \/ BuildingAppears(i) \/ BuildingFinishes(i) \/ UnitWalks(i) \/ WatcherDies(i)
    \/ RenderFog

ViewSpec == ViewInit /\ [][ViewNext]_viewVars

-----------------------------------------------------------------------------
Sees(o, t) ==
    /\ o /= Nothing
    /\ o.kind = "building" => o.completed
    /\ InSight(o, t)

\* The count of a tile is the number of own objects that see it now, whatever
\* they were and wherever they walked before; only a tile that none has seen
\* yet is still covered.  Every +1 has its -1, with the same circle.
ViewCountsExact ==
    \A t \in MapTiles :
        LET seers == Cardinality({i \in Watchers : Sees(watchers[i], t)})
        IN  viewCount[t] = seers \/ (viewCount[t] = -1 /\ seers = 0)

\* The fog on the screen is out of date at most within the rectangle that the
\* next frame updates, however many changes were made since the last one.
FogStaleOnlyWhereChanged ==
    \A t \in MapTiles : fogTexture[t] /= Shade(viewCount[t]) => Covers(changed, t)
=============================================================================
