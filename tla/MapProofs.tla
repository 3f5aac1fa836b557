----------------------------- MODULE MapProofs -----------------------------
(***************************************************************************)
(* Proofs about the map and the ways over it.  For every size of the map,  *)
(* every number of players and every sequence of things to place in the    *)
(* order of the code, the map a match starts with has no hill that is too  *)
(* steep and nothing that stands in something else.  For every map, every  *)
(* unit and every goal, a planned path is a best one, and each of its legs *)
(* was tested for obstacles.                                               *)
(***************************************************************************)
EXTENDS MapGeneration, Pathfinding, Induction, SequenceTheorems, FiniteSetTheorems, TLAPS

(***************************************************************************)
(* Slopes.  While a hill is made, corners of the rings that are done and   *)
(* of those to come may be more than one apart where they meet.  What      *)
(* holds instead: an outer corner there, once it is brought between the    *)
(* bounds of the current ring, is at most one from its inner neighbors.    *)
(* That lets the work stop after a ring that needed no change: the next    *)
(* one needs none either.                                                  *)
(***************************************************************************)
Neighbors(c, d) == d[1] - c[1] \in -1 .. 1 /\ d[2] - c[2] \in -1 .. 1

Hills == [x : 0 .. Size - 1, y : 0 .. Size - 1, value : 0 .. maxElevation - 1, ring : Nat]

ElevationOK == elevation \in [Corners -> 0 .. maxElevation]
HillOK == hill = noHill \/ hill \in Hills

\* c is in a ring that is done and d in one that is not.
AtFrontier(c, d) == RingOf(hill, c) < hill.ring /\ RingOf(hill, d) >= hill.ring

GentleButFrontier ==
    \A c, d \in Corners :
      Neighbors(c, d) /\ ~AtFrontier(c, d) /\ ~AtFrontier(d, c) =>
        elevation[c] - elevation[d] \in -1 .. 1

GentleAtFrontier ==
    \A c, d \in Corners :
      Neighbors(c, d) /\ AtFrontier(c, d) =>
        elevation[c] - Clamped(hill, elevation[d]) \in -1 .. 1

SlopeInv == ElevationOK /\ HillOK /\ GentleButFrontier /\ GentleAtFrontier

\* The size of the map and the highest elevation are numbers.
LEMMA SizeType == Size \in Nat /\ maxElevation \in Nat
BY GenerationAssumption

\* Corners lie in rings 0, 1, 2, ... around a hill.
LEMMA RingType ==
    ASSUME NEW h, h.x \in Int, h.y \in Int, NEW c \in Corners
    PROVE  RingOf(h, c) \in Nat
BY SizeType DEF RingOf, Corners

\* Neighbors, also diagonal ones, are in the same ring or in one after the other.
LEMMA RingsOfNeighbors ==
    ASSUME NEW h, h.x \in Int, h.y \in Int, NEW c \in Corners, NEW d \in Corners,
           Neighbors(c, d)
    PROVE  RingOf(h, c) - RingOf(h, d) \in -1 .. 1
<1> DEFINE away(n, first) == IF n < first THEN first - n
                             ELSE IF n > first + 1 THEN n - first - 1 ELSE 0
           larger(m, n) == IF m > n THEN m ELSE n
<1>1. c[1] \in Int /\ c[2] \in Int /\ d[1] \in Int /\ d[2] \in Int
  BY SizeType DEF Corners
<1>2. c[1] - d[1] \in -1 .. 1 /\ c[2] - d[2] \in -1 .. 1
  BY <1>1 DEF Neighbors
<1>3. \A m, n, first \in Int :
        /\ away(m, first) \in Int
        /\ m - n \in -1 .. 1 => away(m, first) - away(n, first) \in -1 .. 1
  OBVIOUS
<1>4. \A k, l, m, n \in Int : k - l \in -1 .. 1 /\ m - n \in -1 .. 1 =>
        larger(k, m) - larger(l, n) \in -1 .. 1
  OBVIOUS
<1>5. /\ RingOf(h, c) = larger(away(c[1], h.x), away(c[2], h.y))
      /\ RingOf(h, d) = larger(away(d[1], h.x), away(d[2], h.y))
  BY DEF RingOf
<1> HIDE DEF away, larger
<1> QED
  BY <1>1, <1>2, <1>3, <1>4, <1>5

\* Bringing an elevation between the bounds of a ring keeps it one.
LEMMA ClampedKeeps ==
    ASSUME NEW h \in Hills, NEW e \in 0 .. maxElevation
    PROVE  Clamped(h, e) \in 0 .. maxElevation
BY SizeType DEF Clamped, Hills

\* Elevations at most one apart stay so, in one ring and in two successive ones.
LEMMA ClampedClose ==
    ASSUME NEW h \in Hills, NEW e \in Int, NEW f \in Int, e - f \in -1 .. 1
    PROVE  /\ Clamped(h, e) - Clamped(h, f) \in -1 .. 1
           /\ Clamped(h, e) - Clamped([h EXCEPT !.ring = @ + 1], f) \in -1 .. 1
BY SizeType DEF Clamped, Hills

\* The map is flat at first.
LEMMA SlopeInit == MapInit => SlopeInv
<1> SUFFICES ASSUME MapInit PROVE SlopeInv
  OBVIOUS
<1>1. \A c \in Corners : elevation[c] = 0
  BY DEF MapInit
<1>2. \A c, d \in Corners : ~AtFrontier(c, d)
  BY RingType DEF MapInit, AtFrontier, noHill
<1> QED
  BY <1>1, <1>2, SizeType DEF MapInit, SlopeInv, ElevationOK, HillOK, GentleButFrontier,
     GentleAtFrontier

\* The work on a ring, also on the last one, keeps the slopes gentle.
LEMMA RingStep ==
    ASSUME SlopeInv, PlaceRing
    PROVE  SlopeInv'
<1> USE DEF SlopeInv
<1> DEFINE r == hill.ring
           E(c) == elevation[c]
           R(c) == RingOf(hill, c)
<1>1. hill \in Hills /\ hill.x \in Int /\ hill.y \in Int /\ r \in Nat
  BY SizeType DEF PlaceRing, HillOK, Hills
<1>2. \A c \in Corners : elevation'[c] = IF R(c) = r THEN Clamped(hill, E(c)) ELSE E(c)
  BY DEF PlaceRing, Raised
<1>3. ElevationOK'
  <2>1. elevation' = [c \in Corners |-> IF R(c) = r THEN Clamped(hill, E(c)) ELSE E(c)]
    BY DEF PlaceRing, Raised
  <2> QED
    BY <1>1, <2>1, ClampedKeeps DEF ElevationOK
<1>4. \A c \in Corners : R(c) \in Nat /\ E(c) \in Int /\ E(c) \in 0 .. maxElevation
  BY <1>1, RingType, SizeType DEF ElevationOK
<1>5. \A c \in Corners : Clamped(hill, E(c)) \in Int
  BY <1>1, <1>4, ClampedKeeps, SizeType
<1>6. \A c, d \in Corners : Neighbors(c, d) => Neighbors(d, c) /\ R(c) - R(d) \in -1 .. 1
  <2>1. \A c, d \in Corners : Neighbors(c, d) => Neighbors(d, c)
    BY SizeType DEF Neighbors, Corners
  <2> QED
    BY <1>1, <2>1, RingsOfNeighbors
<1> DEFINE next == [hill EXCEPT !.ring = @ + 1]
<1>7. next \in Hills /\ next.ring = r + 1 /\ \A c \in Corners : RingOf(next, c) = R(c)
  BY <1>1 DEF Hills, RingOf
<1>8. \A e, f \in Int : e - f \in -1 .. 1 =>
         /\ Clamped(hill, e) - Clamped(hill, f) \in -1 .. 1
         /\ Clamped(hill, e) - Clamped(next, f) \in -1 .. 1
  BY <1>1, ClampedClose
<1>9. \A c, d \in Corners : AtFrontier(c, d) <=> R(c) < r /\ R(d) >= r
  BY DEF AtFrontier
<1>10. \A c, d \in Corners : Neighbors(c, d) /\ ((R(c) <= r /\ R(d) <= r) \/ (R(c) > r /\ R(d) > r)) =>
         elevation'[c] - elevation'[d] \in -1 .. 1
  <2> SUFFICES ASSUME NEW c \in Corners, NEW d \in Corners, Neighbors(c, d), (R(c) <= r /\ R(d) <= r) \/ (R(c) > r /\ R(d) > r)
               PROVE  elevation'[c] - elevation'[d] \in -1 .. 1
    OBVIOUS
  <2>1. CASE R(c) = r /\ R(d) = r
    <3>1. E(c) - E(d) \in -1 .. 1
      BY <2>1, <1>9, <1>1 DEF GentleButFrontier
    <3> QED
      BY <2>1, <3>1, <1>2, <1>4, <1>8
  <2>2. CASE R(c) < r /\ R(d) = r
    <3>1. E(c) - Clamped(hill, E(d)) \in -1 .. 1
      BY <2>2, <1>9, <1>1 DEF GentleAtFrontier
    <3> QED
      BY <2>2, <3>1, <1>2, <1>1
  <2>3. CASE R(c) = r /\ R(d) < r
    <3>1. E(d) - Clamped(hill, E(c)) \in -1 .. 1
      BY <2>3, <1>9, <1>1, <1>6 DEF GentleAtFrontier
    <3> QED
      BY <2>3, <3>1, <1>2, <1>1, <1>4, <1>5
  <2>4. CASE (R(c) < r /\ R(d) < r) \/ (R(c) > r /\ R(d) > r)
    <3>1. E(c) - E(d) \in -1 .. 1
      BY <2>4, <1>9, <1>1, <1>4 DEF GentleButFrontier
    <3> QED
      BY <2>4, <3>1, <1>2, <1>1, <1>4
  <2> QED
    BY <2>1, <2>2, <2>3, <2>4, <1>1, <1>4
<1>11. \A c, d \in Corners : Neighbors(c, d) /\ R(c) <= r /\ R(d) > r =>
         /\ R(c) = r /\ R(d) = r + 1
         /\ E(c) - E(d) \in -1 .. 1
         /\ elevation'[c] = Clamped(hill, E(c)) /\ elevation'[d] = E(d)
         /\ elevation'[c] - Clamped(next, elevation'[d]) \in -1 .. 1
  <2> SUFFICES ASSUME NEW c \in Corners, NEW d \in Corners, Neighbors(c, d), R(c) <= r, R(d) > r
               PROVE  /\ R(c) = r /\ R(d) = r + 1
                      /\ E(c) - E(d) \in -1 .. 1
                      /\ elevation'[c] = Clamped(hill, E(c)) /\ elevation'[d] = E(d)
                      /\ elevation'[c] - Clamped(next, elevation'[d]) \in -1 .. 1
    OBVIOUS
  <2>1. R(c) = r /\ R(d) = r + 1
    BY <1>1, <1>4, <1>6
  <2>2. E(c) - E(d) \in -1 .. 1
    BY <2>1, <1>9, <1>1 DEF GentleButFrontier
  <2>3. elevation'[c] = Clamped(hill, E(c)) /\ elevation'[d] = E(d)
    BY <2>1, <1>2, <1>1
  <2> QED
    BY <2>1, <2>2, <2>3, <1>8, <1>4
<1>12. CASE ~LastRing
  <2>1. hill' = next
    BY <1>12 DEF PlaceRing
  <2>2. HillOK'
    BY <2>1, <1>7 DEF HillOK
  <2>3. \A c, d \in Corners : AtFrontier(c, d)' <=> R(c) <= r /\ R(d) > r
    BY <2>1, <1>7, <1>4, <1>1 DEF AtFrontier
  <2> HIDE DEF next, R, E, r
  <2>4. GentleButFrontier'
    <3> SUFFICES ASSUME NEW c \in Corners, NEW d \in Corners, Neighbors(c, d), ~AtFrontier(c, d)', ~AtFrontier(d, c)'
                 PROVE  elevation'[c] - elevation'[d] \in -1 .. 1
      BY DEF GentleButFrontier
    <3>1. R(c) \in Nat /\ R(d) \in Nat /\ r \in Nat
      BY <1>1, <1>4
    <3>2. (R(c) <= r /\ R(d) <= r) \/ (R(c) > r /\ R(d) > r)
      BY <2>3, <3>1
    <3> QED
      BY <3>2, <1>10
  <2>5. GentleAtFrontier'
    BY <2>1, <2>3, <1>11 DEF GentleAtFrontier
  <2> QED
    BY <2>2, <2>4, <2>5, <1>3
<1>13. CASE LastRing
  <2>1. hill' = noHill
    BY <1>13 DEF PlaceRing
  <2>2. HillOK'
    BY <2>1 DEF HillOK
  <2>3. \A c, d \in Corners : ~AtFrontier(c, d)'
    BY <2>1, RingType DEF AtFrontier, noHill
  <2>4. \A c, d \in Corners : Neighbors(c, d) /\ R(c) <= r /\ R(d) > r =>
          elevation'[c] - elevation'[d] \in -1 .. 1
    <3> SUFFICES ASSUME NEW c \in Corners, NEW d \in Corners, Neighbors(c, d), R(c) <= r, R(d) > r
                 PROVE  elevation'[c] - elevation'[d] \in -1 .. 1
      OBVIOUS
    <3>1. CASE Raised = elevation
      BY <3>1, <1>11 DEF PlaceRing
    <3>2. CASE hill.value - (hill.ring + 1) <= 0 /\ hill.value + hill.ring + 1 >= maxElevation
      <4>1. Clamped(next, E(d)) = E(d)
        BY <3>2, <1>1, <1>4, SizeType DEF Clamped, Hills
      <4> QED
        BY <4>1, <1>11
    <3> QED
      BY <3>1, <3>2, <1>13 DEF LastRing
  <2> HIDE DEF R, E, r
  <2>5. GentleButFrontier'
    <3> SUFFICES ASSUME NEW c \in Corners, NEW d \in Corners, Neighbors(c, d)
                 PROVE  elevation'[c] - elevation'[d] \in -1 .. 1
      BY DEF GentleButFrontier
    <3>1. R(c) \in Nat /\ R(d) \in Nat /\ r \in Nat
      BY <1>1, <1>4
    <3>2. elevation'[c] \in Int /\ elevation'[d] \in Int
      BY <1>3, SizeType DEF ElevationOK
    <3>3. CASE (R(c) <= r /\ R(d) <= r) \/ (R(c) > r /\ R(d) > r)
      BY <3>3, <1>10
    <3>4. CASE R(c) <= r /\ R(d) > r
      BY <3>4, <2>4
    <3>5. CASE R(c) > r /\ R(d) <= r
      <4>1. elevation'[d] - elevation'[c] \in -1 .. 1
        BY <3>5, <2>4, <1>6
      <4> QED
        BY <4>1, <3>2
    <3> QED
      BY <3>1, <3>3, <3>4, <3>5
  <2>6. GentleAtFrontier'
    BY <2>3 DEF GentleAtFrontier
  <2> QED
    BY <2>2, <2>5, <2>6, <1>3
<1> QED
  BY <1>12, <1>13

\* Nothing but PlaceElevation changes elevations.
LEMMA SlopeStep ==
    ASSUME SlopeInv, [MapNext]_mapVars
    PROVE  SlopeInv'
<1>1. CASE UNCHANGED <<elevation, hill>>
  BY <1>1 DEF SlopeInv, ElevationOK, HillOK, GentleButFrontier, GentleAtFrontier, AtFrontier
<1>2. CASE PlaceHill
  <2>1. PICK t \in Map, v \in 0 .. maxElevation - 1 :
           hill' = [x |-> t[1], y |-> t[2], value |-> v, ring |-> 0]
    BY <1>2 DEF PlaceHill, Locations
  <2>2. hill' \in Hills /\ hill'.x \in Int /\ hill'.y \in Int /\ hill'.ring = 0
    BY <2>1, SizeType DEF Hills, Map
  <2>3. elevation' = elevation
    BY <1>2 DEF PlaceHill
  <2>4. \A c, d \in Corners : ~AtFrontier(c, d) /\ ~AtFrontier(c, d)'
    <3>1. hill.ring = -1 /\ hill.x \in Int /\ hill.y \in Int
      BY <1>2 DEF PlaceHill, Busy, noHill
    <3> QED
      BY <2>2, <3>1, RingType DEF AtFrontier
  <2> QED
    BY <2>2, <2>3, <2>4 DEF SlopeInv, ElevationOK, HillOK, GentleButFrontier, GentleAtFrontier
<1>3. CASE PlaceRing
  BY <1>3, RingStep
<1>4. CASE UNCHANGED mapVars
  BY <1>1, <1>4 DEF mapVars
<1> QED
  BY <1>1, <1>2, <1>3, <1>4 DEF MapNext, PlaceTownCenter, PlaceForest, PlaceClump, Skip, NextKind,
     PlacePlayerClump, PlaceUnit, Proceed

\* The invariant holds while a map is generated.
LEMMA SlopeInvariant == MapSpec => []SlopeInv
BY SlopeInit, SlopeStep, PTL DEF MapSpec

\* PlaceElevation: on a map of any size, hills that overlap, cut each other or are
\* cut off by the border leave neighboring corners at most one apart.
THEOREM HillsStayGentle == MapSpec => []SlopesGentle
<1>1. SlopeInv => SlopesGentle
  <2> SUFFICES ASSUME SlopeInv, hill = noHill, NEW c \in Corners, NEW d \in Corners,
                      d[1] - c[1] \in 0 .. 1, d[2] - c[2] \in -1 .. 1
               PROVE  elevation[c] - elevation[d] \in -1 .. 1
    BY DEF SlopesGentle
  <2>1. ~AtFrontier(c, d) /\ ~AtFrontier(d, c)
    BY RingType DEF AtFrontier, noHill
  <2>2. Neighbors(c, d)
    BY DEF Neighbors
  <2> QED
    BY <2>1, <2>2 DEF SlopeInv, GentleButFrontier
<1> QED
  BY <1>1, SlopeInvariant, PTL

-----------------------------------------------------------------------------
Points == Int \X Int

BuildingTypes == {"TownCenter", "Tree", "Bush", "Gold", "Stone"}

Entries == [type : BuildingTypes, base : Points]

(***************************************************************************)
(* Occupancy.  That buildings stand apart needs that the tiles of those    *)
(* that stand are marked, and that only town centers are placed without    *)
(* looking.  That units stand in no building needs the order of the loops: *)
(* no building comes after the first unit.                                 *)
(***************************************************************************)
\* The conjuncts of NothingOverlaps.
BuildingsStand ==
    \A i \in DOMAIN buildings :
      /\ \/ TilesOf(buildings[i]) \subseteq Map
         \/ buildings[i].type = "TownCenter" /\ Size <= 2 * Border
      /\ TilesOf(buildings[i]) \cap Map \subseteq occupiedForBuildings
      /\ \A j \in DOMAIN buildings \ {i} :
           \/ TilesOf(buildings[i]) \cap TilesOf(buildings[j]) = {}
           \/ buildings[i].type = "TownCenter" /\ buildings[j].type = "TownCenter"

UnitsStand ==
    \A i \in DOMAIN units :
      /\ ~CollidesWithMap(units[i])
      /\ \A j \in DOMAIN units \ {i} : ~TooClose(units[i], units[j], 2 * UnitRadius)

ObjectTypes ==
    /\ townCenters \in Seq(Points)
    /\ buildings \in Seq(Entries)
    /\ units \in Seq(Points)

OnlyTownCenters == \A i \in DOMAIN buildings : buildings[i].type = "TownCenter"

\* What stands fits to what is still to come.
InPhases ==
    /\ agenda \in Seq(Tasks)
    /\ \E n \in Nat : /\ InOrder(agenda, n, Len(townCenters))
                      /\ n > 0 => OnlyTownCenters
    /\ units # <<>> => \A i \in 1 .. Len(agenda) : agenda[i].kind = "Unit"

PlacedInv == ObjectTypes /\ InPhases /\ BuildingsStand /\ UnitsStand

\* A building of one tile stands on its base.
LEMMA SquareOfOne ==
    ASSUME NEW t \in Points
    PROVE  Square(t, 1) = {t}
<1>1. t[1] \in Int /\ t[2] \in Int /\ t = <<t[1], t[2]>>
  BY DEF Points
<1>2. \A n \in Int : n .. n + 1 - 1 = {n}
  OBVIOUS
<1> QED
  BY <1>1, <1>2 DEF Square

\* The elements of a concatenation are those of the first sequence, then of the second.
LEMMA Concatenated ==
    ASSUME NEW S, NEW s \in Seq(S), NEW t \in Seq(S)
    PROVE  /\ s \o t \in Seq(S)
           /\ DOMAIN s \subseteq DOMAIN (s \o t)
           /\ \A i \in DOMAIN s : (s \o t)[i] = s[i]
           /\ \A k \in DOMAIN t : Len(s) + k \in DOMAIN (s \o t) /\ (s \o t)[Len(s) + k] = t[k]
           /\ \A i \in DOMAIN (s \o t) :
                i \in DOMAIN s \/ \E k \in DOMAIN t : i = Len(s) + k
<1>1. /\ s \o t \in Seq(S) /\ Len(s \o t) = Len(s) + Len(t)
      /\ \A i \in 1 .. Len(s) + Len(t) : (s \o t)[i] = IF i <= Len(s) THEN s[i] ELSE t[i - Len(s)]
  BY ConcatProperties
<1>2. /\ Len(s) \in Nat /\ Len(t) \in Nat /\ DOMAIN s = 1 .. Len(s) /\ DOMAIN t = 1 .. Len(t)
      /\ DOMAIN (s \o t) = 1 .. Len(s) + Len(t)
  BY <1>1, LenProperties
<1>3. \A m, n \in Nat : /\ \A i \in 1 .. m : i \in 1 .. m + n /\ i <= m
                        /\ \A k \in 1 .. n : m + k \in 1 .. m + n /\ ~(m + k <= m) /\ m + k - m = k
                        /\ \A i \in 1 .. m + n : i \in 1 .. m \/ (i - m \in 1 .. n /\ i = m + (i - m))
  OBVIOUS
<1> DEFINE u == s \o t
           m == Len(s)
           n == Len(t)
<1> HIDE DEF u, m, n
<1>4. /\ u \in Seq(S) /\ m \in Nat /\ n \in Nat
      /\ DOMAIN s = 1 .. m /\ DOMAIN t = 1 .. n /\ DOMAIN u = 1 .. m + n
      /\ \A i \in 1 .. m + n : u[i] = IF i <= m THEN s[i] ELSE t[i - m]
  BY <1>1, <1>2 DEF u, m, n
<1>5. \A i \in 1 .. m : i \in 1 .. m + n /\ u[i] = s[i]
  BY <1>3, <1>4
<1>6. \A k \in 1 .. n : m + k \in 1 .. m + n /\ u[m + k] = t[k]
  BY <1>3, <1>4
<1>7. \A i \in 1 .. m + n : i \in 1 .. m \/ \E k \in 1 .. n : i = m + k
  BY <1>3, <1>4
<1>8. /\ u \in Seq(S) /\ DOMAIN s \subseteq DOMAIN u
      /\ \A i \in DOMAIN s : u[i] = s[i]
      /\ \A k \in DOMAIN t : m + k \in DOMAIN u /\ u[m + k] = t[k]
      /\ \A i \in DOMAIN u : i \in DOMAIN s \/ \E k \in DOMAIN t : i = m + k
  BY <1>4, <1>5, <1>6, <1>7
<1> QED
  BY <1>8 DEF u, m

\* AddBuilding, for tiles apart from each other: either they are free and inside the map,
\* or only town centers stand.
LEMMA AddingBuildings ==
    ASSUME NEW type \in BuildingTypes, NEW bases \in Seq(Points), AddBuildings(type, bases),
           buildings \in Seq(Entries), BuildingsStand,
           \/ type = "TownCenter" /\ Size <= 2 * Border
           \/ \A i \in DOMAIN bases : Square(bases[i], SizeOf(type)) \subseteq Map,
           \A i \in DOMAIN bases : \A j \in DOMAIN bases \ {i} :
             Square(bases[i], SizeOf(type)) \cap Square(bases[j], SizeOf(type)) = {},
           \/ type = "TownCenter" /\ OnlyTownCenters
           \/ \A i \in DOMAIN bases :
                /\ Square(bases[i], SizeOf(type)) \subseteq Map
                /\ Square(bases[i], SizeOf(type)) \cap occupiedForBuildings = {}
    PROVE  /\ BuildingsStand'
           /\ buildings' \in Seq(Entries)
           /\ type = "TownCenter" /\ OnlyTownCenters => OnlyTownCenters'
<1> DEFINE added == [i \in DOMAIN bases |-> [type |-> type, base |-> bases[i]]]
           N == Len(buildings)
           Sq(i) == Square(bases[i], SizeOf(type))
           T(i) == TilesOf(buildings'[i])
           Apart2(i, j) == T(i) \cap T(j) = {}
                           \/ (buildings'[i].type = "TownCenter" /\ buildings'[j].type = "TownCenter")
<1>1. added \in Seq(Entries)
  <2>1. \A i \in DOMAIN bases : [type |-> type, base |-> bases[i]] \in Entries
    BY DEF Entries
  <2>2. Len(bases) \in Nat /\ DOMAIN bases = 1 .. Len(bases)
    BY LenProperties
  <2>3. added \in [1 .. Len(bases) -> Entries]
    BY <2>1, <2>2
  <2> HIDE DEF added
  <2> QED
    BY <2>2, <2>3, SeqDef
<1>2. buildings' = buildings \o added /\ DOMAIN added = DOMAIN bases
  BY DEF AddBuildings
<1>3. \A i \in DOMAIN added : added[i].type = type /\ TilesOf(added[i]) = Sq(i)
  BY DEF TilesOf
<1> HIDE DEF added, N
<1>4. /\ buildings' \in Seq(Entries)
      /\ DOMAIN buildings \subseteq DOMAIN buildings'
      /\ \A i \in DOMAIN buildings : buildings'[i] = buildings[i]
      /\ \A k \in DOMAIN added : buildings'[N + k] = added[k]
      /\ \A i \in DOMAIN buildings' : i \in DOMAIN buildings \/ \E k \in DOMAIN added : i = N + k
  BY <1>1, <1>2, Concatenated DEF N
<1>5. \A i \in DOMAIN buildings : /\ T(i) = TilesOf(buildings[i])
                                  /\ T(i) \cap Map \subseteq occupiedForBuildings
                                  /\ T(i) \subseteq Map \/ (buildings'[i].type = "TownCenter" /\ Size <= 2 * Border)
  BY <1>4 DEF BuildingsStand
<1>6. \A k \in DOMAIN added : T(N + k) = Sq(k) /\ buildings'[N + k].type = type
  BY <1>3, <1>4
<1>7. /\ occupiedForBuildings \subseteq occupiedForBuildings'
      /\ \A i \in DOMAIN bases : Sq(i) \cap Map \subseteq occupiedForBuildings'
  BY DEF AddBuildings, Stored
<1>8. ASSUME NEW i \in DOMAIN buildings'
      PROVE  /\ T(i) \cap Map \subseteq occupiedForBuildings'
             /\ T(i) \subseteq Map \/ (buildings'[i].type = "TownCenter" /\ Size <= 2 * Border)
  <2>1. CASE i \in DOMAIN buildings
    BY <2>1, <1>5, <1>7
  <2>2. CASE \E k \in DOMAIN added : i = N + k
    BY <2>2, <1>2, <1>6, <1>7
  <2> QED
    BY <1>4, <2>1, <2>2
<1>9. ASSUME NEW i \in DOMAIN buildings, NEW k \in DOMAIN added
      PROVE  Apart2(i, N + k) /\ Apart2(N + k, i)
  <2>1. CASE type = "TownCenter" /\ OnlyTownCenters
    BY <2>1, <1>4, <1>6 DEF OnlyTownCenters
  <2>2. CASE \A j \in DOMAIN bases : Sq(j) \subseteq Map /\ Sq(j) \cap occupiedForBuildings = {}
    <3>1. T(N + k) \subseteq Map /\ T(N + k) \cap occupiedForBuildings = {}
      BY <1>2, <1>6, <2>2
    <3>2. T(i) \cap Map \subseteq occupiedForBuildings
      BY <1>5
    <3> HIDE DEF T
    <3> QED
      BY <3>1, <3>2
  <2> QED
    BY <2>1, <2>2
<1>10. ASSUME NEW i \in DOMAIN buildings, NEW j \in DOMAIN buildings, i # j
       PROVE  Apart2(i, j)
  BY <1>4, <1>10 DEF BuildingsStand
<1>11. ASSUME NEW k \in DOMAIN added, NEW l \in DOMAIN added, N + k # N + l
       PROVE  Apart2(N + k, N + l)
  <2>1. k \in DOMAIN bases /\ l \in DOMAIN bases \ {k}
    BY <1>2, <1>11
  <2>2. Sq(k) \cap Sq(l) = {}
    BY <2>1
  <2> QED
    BY <2>2, <1>6
<1> HIDE DEF Apart2
<1>12. ASSUME NEW i \in DOMAIN buildings', NEW j \in DOMAIN buildings' \ {i}
       PROVE  Apart2(i, j)
  <2>1. CASE i \in DOMAIN buildings /\ j \in DOMAIN buildings
    BY <2>1, <1>10
  <2>2. CASE i \in DOMAIN buildings /\ \E l \in DOMAIN added : j = N + l
    BY <2>2, <1>9
  <2>3. CASE (\E k \in DOMAIN added : i = N + k) /\ j \in DOMAIN buildings
    BY <2>3, <1>9
  <2>4. CASE (\E k \in DOMAIN added : i = N + k) /\ (\E l \in DOMAIN added : j = N + l)
    BY <2>4, <1>11
  <2> QED
    BY <1>4, <2>1, <2>2, <2>3, <2>4
<1>13. BuildingsStand'
  BY <1>8, <1>12 DEF BuildingsStand, Apart2
<1>14. type = "TownCenter" /\ OnlyTownCenters => OnlyTownCenters'
  BY <1>4, <1>6 DEF OnlyTownCenters
<1> QED
  BY <1>4, <1>13, <1>14

\* ... for different free tiles, with buildings of one tile.
LEMMA AddingTiles ==
    ASSUME NEW type \in BuildingTypes \ {"TownCenter"}, NEW bases \in Seq(Map \ occupiedForBuildings),
           \A i, j \in DOMAIN bases : bases[i] = bases[j] => i = j,
           AddBuildings(type, bases),
           buildings \in Seq(Entries), BuildingsStand
    PROVE  /\ BuildingsStand'
           /\ buildings' \in Seq(Entries)
<1>1. Map \subseteq Points
  BY SizeType DEF Map, Points
<1>2. bases \in Seq(Points)
  BY <1>1
<1>3. SizeOf(type) = 1
  BY DEF SizeOf
<1>4. \A i \in DOMAIN bases : bases[i] \in Points /\ bases[i] \in Map \ occupiedForBuildings
  BY <1>1
<1>5. \A i \in DOMAIN bases : Square(bases[i], SizeOf(type)) = {bases[i]}
  BY <1>3, <1>4, SquareOfOne
<1>6. \A i \in DOMAIN bases : /\ Square(bases[i], SizeOf(type)) \subseteq Map
                              /\ Square(bases[i], SizeOf(type)) \cap occupiedForBuildings = {}
  BY <1>4, <1>5
<1>7. \A i \in DOMAIN bases : \A j \in DOMAIN bases \ {i} :
             Square(bases[i], SizeOf(type)) \cap Square(bases[j], SizeOf(type)) = {}
  BY <1>5
<1> QED
  BY <1>2, <1>6, <1>7, AddingBuildings

(***************************************************************************)
(* The tiles of a clump are free and different.  A clump is defined by     *)
(* recursion on its number of tiles, so this is shown by induction, in the *)
(* form that speaks of a set of numbers.                                   *)
(***************************************************************************)
FreeClumps ==
    {c \in Seq(Map \ occupiedForBuildings) :
       c # <<>> /\ \A i, j \in DOMAIN c : c[i] = c[j] => i = j}

\* Another free neighbor keeps a clump on free and different tiles.
LEMMA LongerStaysFree ==
    ASSUME NEW clumps \in SUBSET FreeClumps, NEW k
    PROVE  Longer(clumps, k) \subseteq FreeClumps
<1> SUFFICES ASSUME NEW c \in clumps, NEW u \in FreeNeighbors(Last(c), c)
             PROVE  Append(c, u) \in FreeClumps
  <2> DEFINE next(c) == FreeNeighbors(Last(c), c)
             longer(c) == IF next(c) = {} \/ Len(c) < k - 1 THEN {c} ELSE {Append(c, u) : u \in next(c)}
  <2>1. Longer(clumps, k) = UNION {longer(c) : c \in clumps}
    BY DEF Longer
  <2>2. ASSUME NEW c \in clumps PROVE longer(c) \subseteq FreeClumps
    OBVIOUS
  <2> HIDE DEF longer
  <2> QED
    BY <2>1, <2>2
<1>1. u \in Map \ occupiedForBuildings /\ \A i \in DOMAIN c : c[i] # u
  BY DEF FreeNeighbors, ToSet
<1>2. c \in Seq(Map \ occupiedForBuildings) /\ \A i, j \in DOMAIN c : c[i] = c[j] => i = j
  BY DEF FreeClumps
<1> DEFINE F == Map \ occupiedForBuildings
           d == Append(c, u)
<1> HIDE DEF F
<1>3. d \in Seq(F) /\ Len(c) \in Nat /\ DOMAIN c = 1 .. Len(c) /\ DOMAIN d = 1 .. Len(c) + 1
      /\ d[Len(c) + 1] = u /\ \A i \in 1 .. Len(c) : d[i] = c[i]
  BY <1>1, <1>2 DEF F
<1> HIDE DEF d
<1>4. \A i \in DOMAIN d : i \in DOMAIN c \/ i = Len(c) + 1
  BY <1>3
<1>5. ASSUME NEW i \in DOMAIN d, NEW j \in DOMAIN d, d[i] = d[j] PROVE i = j
  <2>1. CASE i \in DOMAIN c /\ j \in DOMAIN c
    BY <2>1, <1>2, <1>3, <1>5
  <2>2. CASE i = Len(c) + 1 /\ j \in DOMAIN c
    BY <2>2, <1>1, <1>3, <1>5
  <2>3. CASE i \in DOMAIN c /\ j = Len(c) + 1
    BY <2>3, <1>1, <1>3, <1>5
  <2> QED
    BY <1>4, <2>1, <2>2, <2>3
<1>6. d # <<>>
  BY <1>3
<1> QED
  BY <1>3, <1>5, <1>6 DEF FreeClumps, F, d

\* The function by which Clumps(t, n) is defined.
Grown(g, t, n) == g = [k \in 1 .. n |-> IF k = 1 THEN {<<t>>} ELSE Longer(g[k - 1], k)]

\* The recursive definition defines something: there is a function that satisfies it.
LEMMA GrownExists ==
    ASSUME NEW t, NEW n \in Nat
    PROVE  \E g : Grown(g, t, n)
<1> USE DEF Grown
<1> DEFINE S == {m \in Nat : \E g : Grown(g, t, m)}
<1>1. 0 \in S
  <2> DEFINE g == [k \in 1 .. 0 |-> 0]
  <2>1. g = [k \in 1 .. 0 |-> IF k = 1 THEN {<<t>>} ELSE Longer(g[k - 1], k)]
    OBVIOUS
  <2> HIDE DEF g
  <2> QED
    BY <2>1
<1>2. ASSUME NEW m \in Nat, m \in S PROVE m + 1 \in S
  <2>1. PICK g : g = [k \in 1 .. m |-> IF k = 1 THEN {<<t>>} ELSE Longer(g[k - 1], k)]
    BY <1>2
  <2> DEFINE h == [k \in 1 .. m + 1 |-> IF k = 1 THEN {<<t>>} ELSE Longer(g[k - 1], k)]
  <2>2. \A k \in 1 .. m : h[k] = g[k]
    <3>1. \A k \in 1 .. m : k \in 1 .. m + 1
      OBVIOUS
    <3> QED
      BY <3>1, <2>1
  <2>3. \A k \in 1 .. m + 1 : k # 1 => k - 1 \in 1 .. m
    OBVIOUS
  <2>4. h = [k \in 1 .. m + 1 |-> IF k = 1 THEN {<<t>>} ELSE Longer(h[k - 1], k)]
    <3>1. \A k \in 1 .. m + 1 : k # 1 => h[k - 1] = g[k - 1]
      BY <2>2, <2>3
    <3> QED
      BY <3>1
  <2> HIDE DEF h
  <2> QED
    BY <2>4
<1> HIDE DEF S
<1>3. n \in S
  BY <1>1, <1>2, SetInduction
<1> QED
  BY <1>3 DEF S

\* SpawnBuildingClump only places buildings on free tiles of the map, each once.
LEMMA ClumpsAreFree ==
    ASSUME NEW t \in Map \ occupiedForBuildings, NEW n \in Nat \ {0}
    PROVE  Clumps(t, n) \subseteq FreeClumps
<1> DEFINE grown == CHOOSE g : Grown(g, t, n)
<1>1. Grown(grown, t, n)
  BY GrownExists
<1>2. Clumps(t, n) = grown[n]
  BY DEF Clumps, Grown
<1> HIDE DEF grown
<1>3. \A k \in 1 .. n : grown[k] = IF k = 1 THEN {<<t>>} ELSE Longer(grown[k - 1], k)
  BY <1>1 DEF Grown
<1> DEFINE S == {k \in Nat : k \in 1 .. n => grown[k] \subseteq FreeClumps}
<1>4. 0 \in S
  OBVIOUS
<1>5. ASSUME NEW m \in Nat, m \in S PROVE m + 1 \in S
  <2>1. SUFFICES ASSUME m + 1 \in 1 .. n PROVE grown[m + 1] \subseteq FreeClumps
    OBVIOUS
  <2>2. CASE m = 0
    <3>1. grown[m + 1] = {<<t>>}
      BY <2>1, <2>2, <1>3
    <3>2. <<t>> \in FreeClumps
      BY DEF FreeClumps
    <3> QED
      BY <3>1, <3>2
  <2>3. CASE m # 0
    <3>1. grown[m] \subseteq FreeClumps /\ m + 1 # 1 /\ m + 1 - 1 = m
      BY <2>1, <2>3, <1>5
    <3>2. grown[m + 1] = Longer(grown[m], m + 1)
      BY <2>1, <3>1, <1>3
    <3> QED
      BY <3>1, <3>2, LongerStaysFree
  <2> QED
    BY <2>2, <2>3
<1> HIDE DEF S
<1>6. n \in S
  BY <1>4, <1>5, SetInduction
<1> QED
  BY <1>2, <1>6 DEF S

\* A forest is placed tile by tile, in some order.
LEMMA TilesInOrder ==
    ASSUME NEW T \in SUBSET Map
    PROVE  /\ SetToSeq(T) \in Seq(T)
           /\ \A i, j \in DOMAIN SetToSeq(T) : SetToSeq(T)[i] = SetToSeq(T)[j] => i = j
<1>1. IsFiniteSet(Map)
  <2>1. IsFiniteSet(0 .. Size - 1)
    BY FS_Interval, SizeType
  <2> QED
    BY <2>1, FS_Product DEF Map
<1>2. IsFiniteSet(T) /\ Cardinality(T) \in Nat
  BY <1>1, FS_Subset, FS_CardinalityType
<1> DEFINE n == Cardinality(T)
           Listing(f) == f \in [1 .. n -> T] /\ IsInjective(f)
<1>3. \E f : Listing(f)
  <2>1. ExistsBijection(1 .. n, T)
    BY <1>2, FS_CardinalityType
  <2>2. PICK f \in [1 .. n -> T] : \A a, b \in 1 .. n : f[a] = f[b] => a = b
    BY <2>1 DEF ExistsBijection, Bijection, Injection, IsInjective
  <2>3. IsInjective(f)
    BY <2>2 DEF IsInjective
  <2> QED
    BY <2>2, <2>3
<1>4. SetToSeq(T) = CHOOSE f : Listing(f)
  BY DEF SetToSeq
<1>5. Listing(SetToSeq(T))
  BY <1>3, <1>4
<1> HIDE DEF n
<1>6. SetToSeq(T) \in Seq(T)
  BY <1>5, <1>2, SeqDef DEF n
<1> QED
  BY <1>5, <1>6 DEF IsInjective

\* The remainder of C++: a negative number has one no smaller than itself.
LEMMA RemainderBounds ==
    ASSUME NEW a \in Int, NEW b \in Nat \ {0}, NEW v \in Nat, a >= -v
    PROVE  /\ Remainder(a, b) \in Int /\ Remainder(a, b) < b
           /\ Remainder(a, b) >= -v
<1>1. CASE a >= 0
  <2>1. a % b \in 0 .. b - 1
    BY <1>1
  <2>2. Remainder(a, b) = a % b
    BY <1>1 DEF Remainder, Magnitude
  <2> QED
    BY <1>1, <2>1, <2>2
<1>2. CASE a < 0
  <2> DEFINE m == -a
  <2>1. m \in Nat
    BY <1>2
  <2>2. a = -m
    OBVIOUS
  <2>6. Magnitude(a) = m /\ Magnitude(b) = b
    BY <1>2 DEF Magnitude
  <2> HIDE DEF m
  <2>3. m % b \in 0 .. b - 1
    BY <2>1
  <2>4. m % b <= m
    <3>1. CASE m < b
      <4>1. m % b = m
        BY <2>1, <3>1
      <4> QED
        BY <4>1, <2>1
    <3>2. CASE m >= b
      BY <2>1, <2>3, <3>2
    <3> QED
      BY <2>1, <3>1, <3>2
  <2>5. Remainder(a, b) = -(m % b)
    BY <1>2, <2>6 DEF Remainder
  <2> QED
    BY <2>1, <2>2, <2>3, <2>4, <2>5
<1> QED
  BY <1>1, <1>2

\* Quotients and remainders are numbers, and those of natural numbers are the usual ones.
LEMMA DividedType ==
    ASSUME NEW a \in Int, NEW b \in Int \ {0}
    PROVE  /\ Divided(a, b) \in Int /\ Remainder(a, b) \in Int
           /\ a \in Nat /\ b \in Nat => Divided(a, b) = a \div b
<1>1. Magnitude(a) \in Nat /\ Magnitude(b) \in Nat \ {0}
  BY DEF Magnitude
<1>2. Magnitude(a) \div Magnitude(b) \in Int /\ Magnitude(a) % Magnitude(b) \in Int
  BY <1>1
<1>3. a \in Nat /\ b \in Nat => Magnitude(a) = a /\ Magnitude(b) = b
  BY DEF Magnitude
<1>4. a \in Nat /\ b \in Nat => ~(a < 0) /\ ~(b < 0)
  OBVIOUS
<1> QED
  BY <1>2, <1>3, <1>4 DEF Divided, Remainder

\* A town center has a base, whatever the size of the map.
LEMMA TownCenterType ==
    ASSUME RectangleEdges # 0,
           NEW player \in Nat, NEW along \in -VarianceAlong .. VarianceAlong,
           NEW dx \in -Variance .. Variance, NEW dy \in -Variance .. Variance
    PROVE  TownCenterBase(player, along, dx, dy) \in Points
<1>1. /\ Border \in Int /\ Edge \in Int /\ RectangleEdges \in Int \ {0} /\ PlayerCount \in Int \ {0}
      /\ along \in Int /\ dx \in Int /\ dy \in Int
  BY GenerationAssumption DEF Edge, RectangleEdges
<1> DEFINE first == Divided(player * RectangleEdges, PlayerCount)
           pos == Remainder(first + along, RectangleEdges)
           p == OnRectangle(pos)
<1>2. player * RectangleEdges \in Int
  BY <1>1
<1>3. first + along \in Int
  BY <1>1, <1>2, DividedType
<1> HIDE DEF first
<1>4. pos \in Int
  BY <1>1, <1>3, DividedType
<1> HIDE DEF pos
<1>5. p[1] \in Int /\ p[2] \in Int
  BY <1>1, <1>4 DEF OnRectangle
<1> HIDE DEF p
<1>6. TownCenterBase(player, along, dx, dy) = <<p[1] + dx, p[2] + dy>>
  BY DEF TownCenterBase, p, pos, first
<1> QED
  BY <1>1, <1>5, <1>6 DEF Points

\* With a border as wide as the variances and a town center need, and with room between
\* the borders, a town center is inside the map, also the one of player 0 before the
\* rectangle's corner.
LEMMA TownCenterInMap ==
    ASSUME Size > 2 * Border,
           NEW player \in Nat, NEW along \in -VarianceAlong .. VarianceAlong,
           NEW dx \in -Variance .. Variance, NEW dy \in -Variance .. Variance
    PROVE  Square(TownCenterBase(player, along, dx, dy), TownCenterSize) \subseteq Map
<1>1. /\ Size \in Nat /\ Border \in Nat /\ Size > 2 * Border /\ PlayerCount \in Nat \ {0}
      /\ VarianceAlong \in Nat /\ Variance \in Nat /\ TownCenterSize \in Nat
      /\ Border >= VarianceAlong + Variance /\ Border >= Variance + TownCenterSize
  BY GenerationAssumption
<1>2. Edge \in Nat \ {0} /\ RectangleEdges \in Nat \ {0} /\ RectangleEdges = 4 * Edge
      /\ Size = Edge + 2 * Border
  BY <1>1 DEF Edge, RectangleEdges
<1> DEFINE first == Divided(player * RectangleEdges, PlayerCount)
           pos == Remainder(first + along, RectangleEdges)
           p == OnRectangle(pos)
<1>3. first \in Nat
  <2>1. player * RectangleEdges \in Nat
    BY <1>2
  <2>2. first = (player * RectangleEdges) \div PlayerCount
    BY <1>1, <2>1, DividedType
  <2>3. \A m \in Nat, n \in Nat \ {0} : m \div n \in Nat
    OBVIOUS
  <2> QED
    BY <1>1, <2>1, <2>2, <2>3
<1> HIDE DEF first
<1>4. first + along \in Int /\ first + along >= -VarianceAlong
  BY <1>1, <1>3
<1>5. pos \in Int /\ pos < 4 * Edge /\ pos >= -VarianceAlong
  BY <1>1, <1>2, <1>4, RemainderBounds
<1> HIDE DEF pos
<1>6. /\ p[1] \in Int /\ p[2] \in Int
      /\ p[1] >= Border - VarianceAlong /\ p[1] >= 0 /\ p[1] <= Border + Edge
      /\ p[2] >= Border /\ p[2] <= Border + Edge
  BY <1>1, <1>2, <1>5 DEF OnRectangle
<1> HIDE DEF p
<1>7. TownCenterBase(player, along, dx, dy) = <<p[1] + dx, p[2] + dy>>
  BY DEF TownCenterBase, p, pos, first
<1> DEFINE x == p[1] + dx
           y == p[2] + dy
<1>8. /\ x \in Int /\ y \in Int /\ x >= 0 /\ y >= 0
      /\ x + TownCenterSize <= Size /\ y + TownCenterSize <= Size
  BY <1>1, <1>2, <1>6
<1> HIDE DEF x, y
<1>9. TownCenterBase(player, along, dx, dy) = <<x, y>>
  BY <1>7 DEF x, y
<1>10. /\ \A m \in x .. x + TownCenterSize - 1 : m \in 0 .. Size - 1
       /\ \A m \in y .. y + TownCenterSize - 1 : m \in 0 .. Size - 1
  BY <1>1, <1>8
<1> QED
  BY <1>8, <1>9, <1>10 DEF Square, Map

\* Clumps are of other buildings than town centers, and players are counted from 1.
LEMMA ThingsToPlace ==
    ASSUME NEW task \in Tasks
    PROVE  /\ task.kind \in {"Clump", "PlayerClump"} =>
                task.count \in Nat \ {0} /\ task.type \in BuildingTypes \ {"TownCenter"}
           /\ task.kind \in {"PlayerClump", "Unit"} => task.player \in Nat \ {0}
<1>1. PlayerCount \in Nat
  BY GenerationAssumption
<1>2. \A p \in 1 .. PlayerCount : p \in Nat \ {0}
  BY <1>1
<1>3. CASE task.kind = "Clump"
  <2>1. task \in [kind : {"Clump"}, fromTownCenters : Nat, fromOthers : Nat,
                  count : Nat \ {0}, type : {"Bush", "Gold"}]
    BY <1>3 DEF Tasks
  <2>2. task.count \in Nat \ {0} /\ task.type \in {"Bush", "Gold"}
    BY <2>1
  <2> QED
    BY <1>3, <2>2 DEF BuildingTypes
<1>4. CASE task.kind = "PlayerClump"
  <2>1. task \in [kind : {"PlayerClump"}, player : 1 .. PlayerCount, count : Nat \ {0},
                  type : {"Bush", "Gold", "Stone"}, offsets : SUBSET (Int \X Int)]
    BY <1>4 DEF Tasks
  <2>2. /\ task.count \in Nat \ {0} /\ task.type \in {"Bush", "Gold", "Stone"}
        /\ task.player \in 1 .. PlayerCount
    BY <2>1
  <2> QED
    BY <1>2, <1>4, <2>2 DEF BuildingTypes
<1>5. CASE task.kind = "Unit"
  BY <1>2, <1>5 DEF Tasks
<1> QED
  BY <1>3, <1>4, <1>5

\* Taking the next thing to place leaves the others in order.
LEMMA NextInOrder ==
    ASSUME NEW a \in Seq(Tasks), a # <<>>, NEW n \in Nat, NEW standing \in Nat,
           InOrder(a, n, standing)
    PROVE  /\ Tail(a) \in Seq(Tasks) /\ Head(a) \in Tasks /\ Head(a) = a[1]
           /\ \A i \in 1 .. Len(Tail(a)) : i + 1 \in 1 .. Len(a) /\ Tail(a)[i] = a[i + 1]
           /\ a[1].kind = "TownCenter" => n > 0 /\ InOrder(Tail(a), n - 1, standing + 1)
           /\ a[1].kind # "TownCenter" => n = 0 /\ InOrder(Tail(a), 0, standing)
           /\ a[1].kind \in {"PlayerClump", "Unit"} => a[1].player <= standing
           /\ a[1].kind = "Unit" => \A i \in 1 .. Len(Tail(a)) : Tail(a)[i].kind = "Unit"
<1> DEFINE b == Tail(a)
<1>1. /\ Tail(a) \in Seq(Tasks) /\ Head(a) \in Tasks /\ Head(a) = a[1]
      /\ Len(a) \in Nat \ {0} /\ Len(b) = Len(a) - 1
      /\ \A i \in 1 .. Len(b) : b[i] = a[i + 1]
  BY HeadTailProperties, EmptySeq
<1>2. 1 \in 1 .. Len(a) /\ \A i \in 1 .. Len(b) : i + 1 \in 1 .. Len(a)
  BY <1>1
<1> HIDE DEF b
<1>3. a[1].kind = "TownCenter" <=> n > 0
  <2>1. a[1].kind = "TownCenter" <=> 1 <= n
    BY <1>2 DEF InOrder
  <2> QED
    BY <2>1
<1>4. \A i, m \in Nat : i + 1 <= m <=> i <= m - 1
  OBVIOUS
<1>5. ASSUME NEW i \in 1 .. Len(b)
      PROVE  /\ b[i].kind = "TownCenter" <=> i + 1 <= n
             /\ b[i].kind \in {"PlayerClump", "Unit"} => b[i].player <= standing + n
             /\ b[i].kind = "Unit" => \A j \in i .. Len(b) : b[j].kind = "Unit"
  <2>1. /\ b[i].kind = "TownCenter" <=> i + 1 <= n
        /\ b[i].kind \in {"PlayerClump", "Unit"} => b[i].player <= standing + n
        /\ b[i].kind = "Unit" => \A j \in i + 1 .. Len(a) : a[j].kind = "Unit"
    BY <1>1, <1>2 DEF InOrder
  <2>2. \A j \in i .. Len(b) : j \in 1 .. Len(b) /\ j + 1 \in i + 1 .. Len(a)
    BY <1>1
  <2> QED
    BY <1>1, <2>1, <2>2
<1>6. a[1].kind = "TownCenter" => InOrder(b, n - 1, standing + 1)
  <2>1. a[1].kind = "TownCenter" => n - 1 \in Nat /\ standing + 1 + (n - 1) = standing + n
    BY <1>3
  <2>2. \A i \in 1 .. Len(b) : i + 1 <= n <=> i <= n - 1
    BY <1>1
  <2> QED
    BY <2>1, <2>2, <1>5 DEF InOrder
<1>7. a[1].kind # "TownCenter" => n = 0 /\ InOrder(b, 0, standing)
  <2>1. a[1].kind # "TownCenter" => n = 0
    BY <1>3
  <2>2. \A i \in 1 .. Len(b) : ~(i + 1 <= 0) /\ ~(i <= 0)
    BY <1>1
  <2> QED
    BY <2>1, <2>2, <1>5 DEF InOrder
<1>8. a[1].kind \in {"PlayerClump", "Unit"} => a[1].player <= standing
  <2>1. a[1].kind \in {"PlayerClump", "Unit"} => n = 0
    BY <1>7
  <2>2. a[1].kind \in {"PlayerClump", "Unit"} => a[1].player <= standing + n
    BY <1>2 DEF InOrder
  <2> QED
    BY <2>1, <2>2
<1>9. a[1].kind = "Unit" => \A i \in 1 .. Len(b) : b[i].kind = "Unit"
  <2>1. a[1].kind = "Unit" => \A j \in 1 .. Len(a) : a[j].kind = "Unit"
    BY <1>2 DEF InOrder
  <2> QED
    BY <1>1, <1>2, <2>1
<1>10. \A i \in 1 .. Len(b) : i + 1 \in 1 .. Len(a) /\ b[i] = a[i + 1]
  BY <1>1, <1>2
<1>11. a[1].kind = "TownCenter" => n > 0
  BY <1>3
<1>12. b \in Seq(Tasks) /\ Head(a) \in Tasks /\ Head(a) = a[1]
  BY <1>1 DEF b
<1> QED
  BY <1>6, <1>7, <1>8, <1>9, <1>10, <1>11, <1>12, Zenon DEF b

\* ... in particular when it is not a town center.
LEMMA Proceeding ==
    ASSUME PlacedInv, agenda # <<>>, agenda' = Tail(agenda), townCenters' = townCenters,
           Task.kind # "TownCenter", units' = units \/ Task.kind = "Unit"
    PROVE  /\ InPhases'
           /\ Task \in Tasks
           /\ Task.kind \in {"PlayerClump", "Unit"} => Task.player \in DOMAIN townCenters
           /\ Task.kind # "Unit" => units = <<>>
<1>1. agenda \in Seq(Tasks) /\ townCenters \in Seq(Points)
  BY DEF PlacedInv, InPhases, ObjectTypes
<1>2. Len(townCenters) \in Nat /\ DOMAIN townCenters = 1 .. Len(townCenters)
  BY <1>1, LenProperties
<1>3. PICK n \in Nat : InOrder(agenda, n, Len(townCenters))
  BY DEF PlacedInv, InPhases
<1>4. /\ Tail(agenda) \in Seq(Tasks) /\ Task \in Tasks /\ Task = agenda[1]
      /\ \A i \in 1 .. Len(Tail(agenda)) :
           i + 1 \in 1 .. Len(agenda) /\ Tail(agenda)[i] = agenda[i + 1]
      /\ Task.kind # "TownCenter" => n = 0 /\ InOrder(Tail(agenda), 0, Len(townCenters))
      /\ Task.kind \in {"PlayerClump", "Unit"} => Task.player <= Len(townCenters)
      /\ Task.kind = "Unit" => \A i \in 1 .. Len(Tail(agenda)) : Tail(agenda)[i].kind = "Unit"
  BY <1>1, <1>2, <1>3, NextInOrder DEF Task
<1>5. Task.kind \in {"PlayerClump", "Unit"} => Task.player \in DOMAIN townCenters
  BY <1>2, <1>4, ThingsToPlace
<1>6. 1 \in 1 .. Len(agenda)
  BY <1>1, EmptySeq
<1>7. Task.kind # "Unit" => units = <<>>
  BY <1>4, <1>6 DEF PlacedInv, InPhases
<1>8. units' # <<>> => \A i \in 1 .. Len(Tail(agenda)) : Tail(agenda)[i].kind = "Unit"
  BY <1>4, <1>7
<1>9. InOrder(agenda', 0, Len(townCenters'))
  BY <1>4
<1>10. InPhases'
  <2>1. \E m \in Nat : InOrder(agenda', m, Len(townCenters')) /\ (m > 0 => OnlyTownCenters')
    BY <1>9
  <2> QED
    BY <2>1, <1>4, <1>8 DEF InPhases
<1> QED
  BY <1>4, <1>5, <1>7, <1>10

\* Town centers come before everything else.
LEMMA TownCenterStep ==
    ASSUME PlacedInv, PlaceTownCenter
    PROVE  PlacedInv'
<1>1. /\ agenda # <<>> /\ agenda' = Tail(agenda) /\ Task.kind = "TownCenter" /\ units' = units
      /\ RectangleEdges # 0
  BY DEF PlaceTownCenter, Busy, Proceed, AddBuildings
<1>2. PICK along \in -VarianceAlong .. VarianceAlong, dx \in -Variance .. Variance,
           dy \in -Variance .. Variance :
        LET base == TownCenterBase(Len(townCenters), along, dx, dy)
        IN  townCenters' = Append(townCenters, base) /\ AddBuildings("TownCenter", <<base>>)
  BY DEF PlaceTownCenter
<1> DEFINE base == TownCenterBase(Len(townCenters), along, dx, dy)
<1>3. townCenters' = Append(townCenters, base) /\ AddBuildings("TownCenter", <<base>>)
  BY <1>2
<1>4. agenda \in Seq(Tasks) /\ townCenters \in Seq(Points) /\ buildings \in Seq(Entries)
      /\ BuildingsStand
  BY DEF PlacedInv, InPhases, ObjectTypes
<1>5. Len(townCenters) \in Nat
  BY <1>4, LenProperties
<1>6. base \in Points /\ (Square(base, SizeOf("TownCenter")) \subseteq Map \/ Size <= 2 * Border)
  <2>1. base \in Points
    BY <1>1, <1>5, TownCenterType
  <2>2. Size > 2 * Border \/ Size <= 2 * Border
    BY GenerationAssumption
  <2> QED
    BY <1>5, <2>1, <2>2, TownCenterInMap DEF SizeOf
<1> HIDE DEF base
<1>7. townCenters' \in Seq(Points) /\ Len(townCenters') = Len(townCenters) + 1
  BY <1>3, <1>4, <1>6
<1>8. PICK n \in Nat : InOrder(agenda, n, Len(townCenters)) /\ (n > 0 => OnlyTownCenters)
  BY DEF PlacedInv, InPhases
<1>9. /\ Tail(agenda) \in Seq(Tasks) /\ Task = agenda[1]
      /\ n > 0 /\ InOrder(Tail(agenda), n - 1, Len(townCenters) + 1)
  BY <1>1, <1>4, <1>5, <1>8, NextInOrder DEF Task
<1>10. /\ <<base>> \in Seq(Points) /\ DOMAIN <<base>> = {1} /\ <<base>>[1] = base
       /\ "TownCenter" \in BuildingTypes
  BY <1>6 DEF BuildingTypes
<1>11. BuildingsStand' /\ buildings' \in Seq(Entries) /\ OnlyTownCenters'
  <2>1. \/ "TownCenter" = "TownCenter" /\ Size <= 2 * Border
        \/ \A i \in DOMAIN <<base>> : Square(<<base>>[i], SizeOf("TownCenter")) \subseteq Map
    BY <1>6, <1>10
  <2>2. \A i \in DOMAIN <<base>> : DOMAIN <<base>> \ {i} = {}
    BY <1>10
  <2>3. OnlyTownCenters
    BY <1>8, <1>9
  <2> QED
    BY <1>3, <1>4, <1>10, <2>1, <2>2, <2>3, AddingBuildings
<1>12. units = <<>>
  <2>1. 1 \in 1 .. Len(agenda)
    BY <1>1, <1>4, EmptySeq
  <2> QED
    BY <1>1, <1>9, <2>1 DEF PlacedInv, InPhases
<1>13. InPhases'
  <2>1. n - 1 \in Nat
    BY <1>9
  <2> QED
    BY <1>1, <1>7, <1>9, <1>11, <1>12, <2>1 DEF InPhases
<1>14. ObjectTypes' /\ UnitsStand'
  BY <1>1, <1>7, <1>11, <1>12, EmptySeq DEF ObjectTypes, UnitsStand
<1> QED
  BY <1>11, <1>13, <1>14 DEF PlacedInv

\* Trees, bushes and mines are put on free tiles, before there are units.
LEMMA ThingsStep ==
    ASSUME PlacedInv, PlaceForest \/ PlaceClump \/ PlacePlayerClump
    PROVE  PlacedInv'
<1>1. /\ agenda # <<>> /\ agenda' = Tail(agenda) /\ townCenters' = townCenters /\ units' = units
      /\ Task.kind \in {"Forest", "Clump", "PlayerClump"}
  BY DEF PlaceForest, PlaceClump, PlacePlayerClump, Busy, Proceed, AddBuildings
<1>2. InPhases' /\ Task \in Tasks /\ units = <<>>
  BY <1>1, Proceeding
<1> DEFINE F == Map \ occupiedForBuildings
<1>3. \E type \in BuildingTypes \ {"TownCenter"}, bases \in Seq(F) :
        /\ \A i, j \in DOMAIN bases : bases[i] = bases[j] => i = j
        /\ AddBuildings(type, bases)
  <2>1. CASE PlaceForest
    <3>1. PICK T \in SUBSET F : AddBuildings("Tree", SetToSeq(T))
      <4>1. PICK t \in Locations(Task.fromTownCenters) : AddBuildings("Tree",
              SetToSeq({u \in Map \ occupiedForBuildings :
                          (u[1] - t[1]) * (u[1] - t[1]) + (u[2] - t[2]) * (u[2] - t[2])
                            <= Task.radius * Task.radius}))
        BY <2>1 DEF PlaceForest
      <4> QED
        BY <4>1
    <3>2. T \in SUBSET Map
      OBVIOUS
    <3>3. /\ SetToSeq(T) \in Seq(T)
          /\ \A i, j \in DOMAIN SetToSeq(T) : SetToSeq(T)[i] = SetToSeq(T)[j] => i = j
      BY <3>2, TilesInOrder
    <3>4. SetToSeq(T) \in Seq(F)
      BY <3>3, SeqMonotonic
    <3> QED
      BY <3>1, <3>3, <3>4 DEF BuildingTypes
  <2>2. CASE PlaceClump \/ PlacePlayerClump
    <3>1. PICK t, c : /\ c \in Clumps(t, Task.count)
                      /\ RoomForClump(t) /\ AddBuildings(Task.type, c)
      BY <2>2 DEF PlaceClump, PlacePlayerClump
    <3>2. Task.count \in Nat \ {0} /\ Task.type \in BuildingTypes \ {"TownCenter"}
      <4>1. Task.kind \in {"Clump", "PlayerClump"}
        BY <2>2 DEF PlaceClump, PlacePlayerClump, Busy
      <4> QED
        BY <4>1, <1>2, ThingsToPlace
    <3>3. t \in F
      BY <3>1 DEF RoomForClump
    <3>4. c \in FreeClumps
      BY <3>1, <3>2, <3>3, ClumpsAreFree
    <3> QED
      BY <3>1, <3>2, <3>4 DEF FreeClumps
  <2> QED
    BY <2>1, <2>2
<1>4. buildings \in Seq(Entries) /\ BuildingsStand /\ townCenters \in Seq(Points)
  BY DEF PlacedInv, ObjectTypes
<1>5. BuildingsStand' /\ buildings' \in Seq(Entries)
  BY <1>3, <1>4, AddingTiles
<1>6. ObjectTypes' /\ UnitsStand'
  BY <1>1, <1>2, <1>4, <1>5, EmptySeq DEF ObjectTypes, UnitsStand
<1> QED
  BY <1>2, <1>5, <1>6 DEF PlacedInv

\* Distances are the same in both directions.
LEMMA TooCloseBothWays ==
    ASSUME NEW a \in Points, NEW b \in Points, NEW d
    PROVE  TooClose(a, b, d) <=> TooClose(b, a, d)
<1>1. a[1] \in Int /\ a[2] \in Int /\ b[1] \in Int /\ b[2] \in Int
  BY DEF Points
<1>2. \A m, n \in Int : (m - n) * (m - n) = (n - m) * (n - m)
  OBVIOUS
<1>3. /\ (a[1] - b[1]) * (a[1] - b[1]) = (b[1] - a[1]) * (b[1] - a[1])
      /\ (a[2] - b[2]) * (a[2] - b[2]) = (b[2] - a[2]) * (b[2] - a[2])
  BY <1>1, <1>2
<1> QED
  BY <1>3 DEF TooClose

\* A unit is put where it collides with nothing, and no building comes after it.
LEMMA UnitStep ==
    ASSUME PlacedInv, PlaceUnit
    PROVE  PlacedInv'
<1>1. /\ agenda # <<>> /\ agenda' = Tail(agenda) /\ townCenters' = townCenters /\ Task.kind = "Unit"
      /\ buildings' = buildings /\ occupiedForBuildings' = occupiedForBuildings
      /\ occupiedForUnits' = occupiedForUnits
  BY DEF PlaceUnit, Busy, Proceed
<1>2. InPhases' /\ Task.player \in DOMAIN townCenters
  BY <1>1, Proceeding
<1>3. townCenters \in Seq(Points) /\ buildings \in Seq(Entries) /\ units \in Seq(Points)
      /\ BuildingsStand /\ UnitsStand
  BY DEF PlacedInv, ObjectTypes
<1>4. PICK offset \in SpawnOffsets :
        LET p == Around(Middle(townCenters[Task.player]), offset)
        IN  ~CollidesWithMap(p) /\ ~CollidesWithUnit(p) /\ units' = Append(units, p)
  BY DEF PlaceUnit
<1> DEFINE p == Around(Middle(townCenters[Task.player]), offset)
<1>5. ~CollidesWithMap(p) /\ ~CollidesWithUnit(p) /\ units' = Append(units, p)
  BY <1>4
<1>6. p \in Points
  <2>1. offset[1] \in Int /\ offset[2] \in Int /\ TownCenterSize \in Nat
    BY GenerationAssumption
  <2>2. townCenters[Task.player] \in Points
    BY <1>2, <1>3, ElementOfSeq, LenProperties
  <2>3. townCenters[Task.player][1] \in Int /\ townCenters[Task.player][2] \in Int
    BY <2>2 DEF Points
  <2>4. HalfTownCenter \in Int
    BY <2>1 DEF HalfTownCenter, Scale
  <2> QED
    BY <2>1, <2>3, <2>4 DEF Around, Middle, Points, Scale
<1> HIDE DEF p
<1>7. /\ units' \in Seq(Points) /\ DOMAIN units \subseteq DOMAIN units'
      /\ units'[Len(units) + 1] = p
      /\ \A i \in DOMAIN units : units'[i] = units[i] /\ units[i] \in Points
      /\ \A i \in DOMAIN units' : i \in DOMAIN units \/ i = Len(units) + 1
  BY <1>3, <1>5, <1>6
<1>8. \A i \in DOMAIN units : ~TooClose(p, units[i], 2 * UnitRadius) /\ ~TooClose(units[i], p, 2 * UnitRadius)
  BY <1>5, <1>6, <1>7, TooCloseBothWays DEF CollidesWithUnit
<1>9. \A i \in DOMAIN units' : ~CollidesWithMap(units'[i])
  BY <1>3, <1>5, <1>7 DEF UnitsStand
<1>11. ASSUME NEW i \in DOMAIN units', NEW j \in DOMAIN units' \ {i}
       PROVE  ~TooClose(units'[i], units'[j], 2 * UnitRadius)
  <2>1. CASE i \in DOMAIN units /\ j \in DOMAIN units
    BY <2>1, <1>3, <1>7 DEF UnitsStand
  <2>2. CASE i = Len(units) + 1 /\ j \in DOMAIN units
    BY <2>2, <1>7, <1>8
  <2>3. CASE i \in DOMAIN units /\ j = Len(units) + 1
    BY <2>3, <1>7, <1>8
  <2> QED
    BY <1>7, <2>1, <2>2, <2>3
<1>12. UnitsStand'
  BY <1>1, <1>9, <1>11 DEF UnitsStand, CollidesWithMap
<1>13. BuildingsStand' /\ ObjectTypes'
  BY <1>1, <1>3, <1>7 DEF BuildingsStand, ObjectTypes
<1> QED
  BY <1>2, <1>12, <1>13 DEF PlacedInv

\* Every step keeps things apart.
LEMMA PlacedStep ==
    ASSUME PlacedInv, [MapNext]_mapVars
    PROVE  PlacedInv'
<1>1. CASE PlaceTownCenter
  BY <1>1, TownCenterStep
<1>2. CASE PlaceForest \/ PlaceClump \/ PlacePlayerClump
  BY <1>2, ThingsStep
<1>3. CASE PlaceUnit
  BY <1>3, UnitStep
<1>4. ASSUME UNCHANGED <<townCenters, objectVars>>, InPhases' PROVE PlacedInv'
  BY <1>4 DEF PlacedInv, ObjectTypes, BuildingsStand, UnitsStand, CollidesWithMap, objectVars
<1>5. CASE Skip \/ NextKind \/ PlaceHill
  <2>1. /\ agenda # <<>> /\ agenda' = Tail(agenda) /\ Task.kind # "TownCenter"
        /\ UNCHANGED <<townCenters, objectVars>>
    BY <1>5 DEF Skip, NextKind, PlaceHill, Busy, Proceed
  <2>2. InPhases'
    BY <2>1, Proceeding DEF objectVars
  <2> QED
    BY <1>4, <2>1, <2>2
<1>6. CASE PlaceRing \/ UNCHANGED mapVars
  <2>1. UNCHANGED <<agenda, townCenters, objectVars>>
    BY <1>6 DEF PlaceRing, mapVars
  <2>2. InPhases'
    BY <2>1 DEF PlacedInv, InPhases, OnlyTownCenters, InOrder, objectVars
  <2> QED
    BY <1>4, <2>1, <2>2
<1> QED
  BY <1>1, <1>2, <1>3, <1>5, <1>6 DEF MapNext

\* The map is empty at first.
LEMMA PlacedInit == MapInit => PlacedInv
<1> SUFFICES ASSUME MapInit PROVE PlacedInv
  OBVIOUS
<1>1. /\ agenda \in Agendas /\ townCenters = <<>> /\ buildings = <<>> /\ units = <<>>
      /\ DOMAIN buildings = {} /\ DOMAIN units = {} /\ Len(townCenters) = 0
  BY DEF MapInit
<1>2. ObjectTypes /\ BuildingsStand /\ UnitsStand /\ OnlyTownCenters
  BY <1>1, EmptySeq DEF ObjectTypes, BuildingsStand, UnitsStand, OnlyTownCenters
<1>3. agenda \in Seq(Tasks) /\ \E n \in 0 .. Len(agenda) : InOrder(agenda, n, 0)
  BY <1>1, AgendaAssumption
<1>4. \E n \in Nat : InOrder(agenda, n, Len(townCenters))
  <2>1. Len(agenda) \in Nat
    BY <1>3, LenProperties
  <2> QED
    BY <2>1, <1>1, <1>3
<1>5. InPhases
  BY <1>1, <1>2, <1>3, <1>4 DEF InPhases
<1> QED
  BY <1>2, <1>5 DEF PlacedInv

\* The invariant holds while a map is generated.
LEMMA PlacedInvariant == MapSpec => []PlacedInv
BY PlacedInit, PlacedStep, PTL DEF MapSpec

\* GenerateRandomMap: on a map of any size, also one that is too small for its borders, for
\* any number of players and whatever rand() returns, everything but town centers stands
\* inside the map and on tiles of its own, and no unit stands in a building or in another
\* unit; and if the map has room for their rectangle, town centers stand inside it too.
THEOREM EverythingHasItsPlace == MapSpec => []NothingOverlaps
<1>1. PlacedInv => NothingOverlaps
  BY DEF PlacedInv, BuildingsStand, UnitsStand, NothingOverlaps
<1> QED
  BY <1>1, PlacedInvariant, PTL

(***************************************************************************)
(* Paths.  Every tile the search has reached was reached by a step the     *)
(* unit may make, from a tile reached at a lower cost; so the way back     *)
(* ends at the start, and the middle of a unit that goes along its legs,   *)
(* from the center of a tile to that of a neighbor, meets no obstacle.     *)
(* Cutting a corner adds one leg, which was tested, and keeps the others.  *)
(***************************************************************************)
Moves  == Axes \cup Diagonals

\* Tiles are points.
LEMMA GridOfPoints == Grid \subseteq Points /\ none \in Points /\ none \notin Grid
BY PathAssumption DEF Grid, Points, none

\* The tile on the map that is closest to a tile.
LEMMA OntoMapIs ==
    ASSUME NEW t \in Points
    PROVE  OntoMap(t) \in Grid /\ (t \in Grid => OntoMap(t) = t)
<1>1. PICK x \in Int, y \in Int : t = <<x, y>>
  BY DEF Points
<1>2. \A n \in Int, size \in Nat \ {0} :
        /\ Onto(n, size) \in 0 .. size - 1
        /\ n \in 0 .. size - 1 => Onto(n, size) = n
  BY DEF Onto
<1>3. OntoMap(t) = <<Onto(x, Width), Onto(y, Height)>>
  BY <1>1 DEF OntoMap
<1>4. Onto(x, Width) \in 0 .. Width - 1 /\ Onto(y, Height) \in 0 .. Height - 1
  BY <1>2, PathAssumption
<1>5. t \in Grid => Onto(x, Width) = x /\ Onto(y, Height) = y
  BY <1>1, <1>2, PathAssumption DEF Grid
<1> QED
  BY <1>1, <1>3, <1>4, <1>5 DEF Grid

\* The tile of a point is one.
LEMMA TileOfType == \A p \in Points : TileOf(p) \in Points
<1> SUFFICES ASSUME NEW p \in Points PROVE TileOf(p) \in Points
  OBVIOUS
<1>1. p[1] \div 2000 \in Int /\ p[2] \div 2000 \in Int
  BY DEF Points
<1> QED
  BY <1>1 DEF TileOf, Points, Grain

\* What a plan may be, and what follows for the tiles of the unit and the goal.
LEMMA PlanFacts ==
    ASSUME plan \in Plans
    PROVE  /\ PlanOK(plan) /\ Width \in Nat /\ Height \in Nat /\ WalkerRadius \in Nat
           /\ start \in Grid
           /\ TileOf(plan.unit) \in Grid => start = TileOf(plan.unit) /\ ~Blocked(start)
           /\ plan.unit \in Points /\ plan.goal \in Points
           /\ OntoMap(TileOf(plan.goal)) \in plan.rect
<1>1. /\ PlanOK(plan) /\ Width \in Nat /\ Height \in Nat /\ WalkerRadius \in Nat
      /\ plan.unit \in Points /\ plan.goal \in Points
      /\ OntoMap(TileOf(plan.goal)) \in plan.rect
      /\ TileOf(plan.unit) \notin plan.occupied \ plan.rect
  BY PathAssumption DEF PlanOK, Points
<1> QED
  BY <1>1, OntoMapIs, TileOfType DEF start, Blocked

\* Moves by coordinates.
LEMMA MovesAre ==
    ASSUME NEW d
    PROVE  d \in Moves <=> /\ d \in (-1 .. 1) \X (-1 .. 1)
                           /\ d # <<0, 0>>
BY DEF Moves, Axes, Diagonals

\* Diagonal moves change both coordinates.
LEMMA DiagonalsAre ==
    ASSUME NEW d \in Moves
    PROVE  d \in Diagonals <=> d[1] # 0 /\ d[2] # 0
BY DEF Moves, Axes, Diagonals

\* Sums and differences of points.
LEMMA PointSums ==
    ASSUME NEW a \in Points, NEW b \in Points
    PROVE  /\ Plus(a, b) \in Points /\ Plus(a, b)[1] = a[1] + b[1] /\ Plus(a, b)[2] = a[2] + b[2]
           /\ Minus(a, b) \in Points /\ Minus(a, b)[1] = a[1] - b[1] /\ Minus(a, b)[2] = a[2] - b[2]
           /\ Minus(Plus(a, b), a) = b
           /\ Plus(Plus(a, b), Minus(a, Plus(a, b))) = a
           /\ Minus(<<0, 0>>, Minus(a, Plus(a, b))) = b
<1>1. PICK a1 \in Int, a2 \in Int, b1 \in Int, b2 \in Int : a = <<a1, a2>> /\ b = <<b1, b2>>
  BY DEF Points
<1>2. Plus(a, b) = <<a1 + b1, a2 + b2>> /\ Minus(a, b) = <<a1 - b1, a2 - b2>>
  BY <1>1 DEF Plus, Minus
<1>3. Minus(Plus(a, b), a) = <<(a1 + b1) - a1, (a2 + b2) - a2>>
  BY <1>1, <1>2 DEF Minus
<1>4. Minus(a, Plus(a, b)) = <<a1 - (a1 + b1), a2 - (a2 + b2)>>
  BY <1>1, <1>2 DEF Minus
<1>5. /\ Plus(Plus(a, b), Minus(a, Plus(a, b))) = <<(a1 + b1) + (a1 - (a1 + b1)), (a2 + b2) + (a2 - (a2 + b2))>>
      /\ Minus(<<0, 0>>, Minus(a, Plus(a, b))) = <<0 - (a1 - (a1 + b1)), 0 - (a2 - (a2 + b2))>>
  BY <1>2, <1>4 DEF Minus, Plus
<1>6. /\ (a1 + b1) - a1 = b1 /\ (a2 + b2) - a2 = b2
      /\ (a1 + b1) + (a1 - (a1 + b1)) = a1 /\ (a2 + b2) + (a2 - (a2 + b2)) = a2
      /\ 0 - (a1 - (a1 + b1)) = b1 /\ 0 - (a2 - (a2 + b2)) = b2
      /\ a1 + b1 \in Int /\ a2 + b2 \in Int /\ a1 - b1 \in Int /\ a2 - b2 \in Int
  OBVIOUS
<1> QED
  BY <1>1, <1>2, <1>3, <1>5, <1>6 DEF Points

\* A move is a point, and so is its opposite, a move again.
LEMMA MovesOfPoints == Moves \subseteq Points /\ \A d \in Moves : Minus(<<0, 0>>, d) \in Moves
BY DEF Moves, Axes, Diagonals, Points, Minus

\* Directions are moves.
LEMMA DirectionsAreMoves ==
    ASSUME NEW t, NEW m \in Moves \cup {<<0, 0>>}
    PROVE  Directions(t, m) \subseteq Moves
<1>1. CASE m = <<0, 0>>
  BY <1>1 DEF Directions, Moves
<1>2. CASE m \in Diagonals
  <2>1. <<m[1], 0>> \in Axes /\ <<0, m[2]>> \in Axes
    BY <1>2 DEF Diagonals, Axes
  <2>2. m # <<0, 0>>
    BY <1>2 DEF Diagonals
  <2> QED
    BY <1>2, <2>1, <2>2 DEF Directions, Moves
<1>3. CASE m \in Axes /\ m \notin Diagonals
  <2>1. \A s \in Axes \ {m, Minus(<<0, 0>>, m)} : Plus(s, m) \in Diagonals
    BY <1>3 DEF Axes, Diagonals, Minus, Plus
  <2>2. m # <<0, 0>>
    BY <1>3 DEF Axes
  <2> QED
    BY <1>3, <2>1, <2>2 DEF Directions, Moves
<1> QED
  BY <1>1, <1>2, <1>3 DEF Moves

(***************************************************************************)
(* Which tiles a leg leads through.                                        *)
(***************************************************************************)
\* Tile t and those on the way to its neighbor in direction d.
Open(t, d) == \A x \in {0, d[1]}, y \in {0, d[2]} : ~Blocked(<<t[1] + x, t[2] + y>>)

\* The larger and the smaller of two numbers.
LEMMA LargerIs ==
    ASSUME NEW a \in Int, NEW b \in Int
    PROVE  /\ Max({a, b}) = IF a >= b THEN a ELSE b
           /\ Min({a, b}) = IF a <= b THEN a ELSE b
BY DEF Max, Min

\* The tiles of the map along one axis that a way leads through: those from the one
\* to the other end, which are moved onto the map.
LEMMA Amid ==
    ASSUME NEW a \in Int, NEW b \in Int, NEW size \in Nat, NEW x \in 0 .. size - 1,
           NEW l \in Int, NEW h \in Int,
           Onto(a \div Grain, size) \in l .. h, Onto(b \div Grain, size) \in l .. h,
           x * Grain < Max({a, b}), Min({a, b}) < x * Grain + Grain
    PROVE  x \in l .. h
<1>1. x * 2000 < (IF a >= b THEN a ELSE b) /\ (IF a <= b THEN a ELSE b) < x * 2000 + 2000
  BY LargerIs DEF Grain
<1>2. PICK m \in Int : m = a \div 2000 /\ m * 2000 <= a /\ a < m * 2000 + 2000
  OBVIOUS
<1>3. PICK n \in Int : n = b \div 2000 /\ n * 2000 <= b /\ b < n * 2000 + 2000
  OBVIOUS
<1>4. Onto(m, size) \in l .. h /\ Onto(n, size) \in l .. h
  BY <1>2, <1>3 DEF Grain
<1>5. x <= m \/ x <= n
  BY <1>1, <1>2, <1>3
<1>6. x >= m \/ x >= n
  BY <1>1, <1>2, <1>3
<1> QED
  BY <1>4, <1>5, <1>6 DEF Onto

\* Those between neighbors are the two.
LEMMA Between ==
    ASSUME NEW a \in Int, NEW b \in Int, NEW size \in Nat, NEW x \in 0 .. size - 1,
           NEW e \in -1 .. 1, NEW m \in Int, m = Onto(a \div Grain, size),
           Onto(b \div Grain, size) = m + e,
           x * Grain < Max({a, b}), Min({a, b}) < x * Grain + Grain
    PROVE  x = m \/ x = m + e
<1>1. CASE e >= 0
  <2>1. m \in m .. m + e /\ m + e \in m .. m + e
    BY <1>1
  <2>2. x \in m .. m + e
    BY <2>1, Amid
  <2> QED
    BY <1>1, <2>2
<1>2. CASE e < 0
  <2>1. m \in m + e .. m /\ m + e \in m + e .. m
    BY <1>2
  <2>2. x \in m + e .. m
    BY <2>1, Amid
  <2> QED
    BY <1>2, <2>2
<1> QED
  BY <1>1, <1>2

\* Squares and products are not negative.
LEMMA SquareNatural == \A n \in Int : n * n \in Nat
OBVIOUS

LEMMA ProductNatural == \A m, n \in Nat : m * n \in Nat
OBVIOUS

\* There is a number that is the root of a square of a distance, rounded down.
LEMMA LengthType == \A d \in Points : Length(d) \in Nat
<1> SUFFICES ASSUME NEW d \in Points PROVE Length(d) \in Nat
  OBVIOUS
<1> DEFINE s == Dot(d, d)
           x == AbsOf(d[1])
           y == AbsOf(d[2])
           larger == Max({x, y})
           Over == {n \in Nat : s < (n + 1) * (n + 1)}
<1>1. x \in Nat /\ y \in Nat
  BY DEF AbsOf, Points
<1>2. s = x * x + y * y
  <2>1. \A n \in Int : n * n = (-n) * (-n)
    OBVIOUS
  <2> QED
    BY <2>1 DEF Dot, AbsOf, Points
<1> HIDE DEF s, x, y
<1>3. larger \in Nat /\ (larger = x \/ larger = y)
  BY <1>1, LargerIs
<1>4. s \in Nat
  BY <1>1, <1>2, SquareNatural
<1>5. x + y \in Over
  <2>1. (x + y + 1) * (x + y + 1) = x * x + y * y + 2 * (x * y) + 2 * x + 2 * y + 1
    BY <1>1
  <2>2. x * y \in Nat /\ x * x \in Nat /\ y * y \in Nat
    BY <1>1, ProductNatural
  <2>3. s < x * x + y * y + 2 * (x * y) + 2 * x + 2 * y + 1
    BY <1>1, <1>2, <2>2
  <2> QED
    BY <1>1, <2>1, <2>3
<1>6. PICK n \in Over : \A m \in Over : n <= m
  BY <1>5, SetMinimum
<1>7. n \in Nat /\ s < (n + 1) * (n + 1) /\ n <= x + y
  BY <1>5, <1>6
<1>8. n * n <= s
  <2>1. CASE n = 0
    BY <1>4, <2>1
  <2>2. CASE n # 0
    <3>1. n - 1 \in Nat /\ ~(n <= n - 1) /\ (n - 1) + 1 = n
      BY <1>7, <2>2
    <3>2. ~(s < n * n)
      BY <1>6, <3>1
    <3> QED
      BY <1>4, <1>7, <3>2, SquareNatural
  <2> QED
    BY <2>1, <2>2
<1>9. larger * larger <= s
  <2>1. x * x \in Nat /\ y * y \in Nat
    BY <1>1, SquareNatural
  <2> QED
    BY <1>2, <1>3, <2>1
<1>10. larger <= n
  <2>1. \A a, b \in Nat : a * a < (b + 1) * (b + 1) => a <= b
    <3> SUFFICES ASSUME NEW a \in Nat, NEW b \in Nat, ~(a <= b)
                 PROVE  ~(a * a < (b + 1) * (b + 1))
      OBVIOUS
    <3>1. PICK c \in Nat : a = (b + 1) + c
      <4>1. a - (b + 1) \in Nat /\ a = (b + 1) + (a - (b + 1))
        OBVIOUS
      <4> QED
        BY <4>1
    <3>2. a * a = (b + 1) * (b + 1) + 2 * ((b + 1) * c) + c * c
      BY <3>1
    <3>3. (b + 1) * c \in Nat /\ c * c \in Nat /\ (b + 1) * (b + 1) \in Nat
      BY ProductNatural
    <3> QED
      BY <3>2, <3>3
  <2> DEFINE B == (n + 1) * (n + 1)
             A == larger * larger
  <2>2. A \in Nat /\ B \in Nat /\ A <= s /\ s < B
    BY <1>3, <1>7, <1>9, SquareNatural
  <2> HIDE DEF A, B, larger, Over
  <2>3. A < B
    BY <1>4, <2>2
  <2> QED
    BY <1>3, <1>7, <2>1, <2>3 DEF A, B
<1>11. \E k \in larger .. x + y : k * k <= s /\ s < (k + 1) * (k + 1)
  <2> HIDE DEF larger, Over
  <2> QED
    BY <1>1, <1>3, <1>7, <1>8, <1>10
<1>12. Length(d) = CHOOSE k \in larger .. x + y : k * k <= s /\ s < (k + 1) * (k + 1)
  BY DEF Length, s, x, y
<1> HIDE DEF larger
<1>13. Length(d) \in larger .. x + y
  BY <1>11, <1>12
<1> QED
  BY <1>1, <1>3, <1>13

\* What a tile that the middle of a unit goes through has between the ends of the leg.
LEMMA ThroughIs ==
    ASSUME NEW a \in Points, NEW b \in Points, NEW t \in TilesAlong(a, b, 0)
    PROVE  /\ t[1] \in 0 .. Width - 1 /\ t[2] \in 0 .. Height - 1 /\ t = <<t[1], t[2]>>
           /\ t[1] * Grain < Max({a[1], b[1]}) /\ Min({a[1], b[1]}) < t[1] * Grain + Grain
           /\ t[2] * Grain < Max({a[2], b[2]}) /\ Min({a[2], b[2]}) < t[2] * Grain + Grain
           /\ a[1] \in Int /\ a[2] \in Int /\ b[1] \in Int /\ b[2] \in Int
<1> DEFINE d == Minus(b, a)
           length == Length(d)
           apart(gap, part) == gap * length + kErrorEpsilon * length >= 0 * AbsOf(part)
<1>1. /\ t \in Grid
      /\ \A k \in {1, 2} : /\ ~apart(t[k] * Grain - Max({a[k], b[k]}), d[3 - k])
                           /\ ~apart(Min({a[k], b[k]}) - (t[k] * Grain + Grain), d[3 - k])
  BY DEF TilesAlong, Plus
<1>2. /\ t[1] \in 0 .. Width - 1 /\ t[2] \in 0 .. Height - 1 /\ t = <<t[1], t[2]>>
      /\ a[1] \in Int /\ a[2] \in Int /\ b[1] \in Int /\ b[2] \in Int
  BY <1>1 DEF Grid, Points
<1>3. \A gap \in Int, part \in Int : ~apart(gap, part) => gap < 0
  <2>1. length \in Nat
    BY PointSums, LengthType
  <2> HIDE DEF length
  <2> SUFFICES ASSUME NEW gap \in Nat, NEW part \in Int PROVE apart(gap, part)
    OBVIOUS
  <2>2. gap * length \in Nat /\ 2 * length \in Nat
    BY <2>1, ProductNatural
  <2>3. kErrorEpsilon = 2
    BY DEF kErrorEpsilon, Grain
  <2>4. AbsOf(part) \in Nat /\ 0 * AbsOf(part) = 0
    BY DEF AbsOf
  <2> QED
    BY <2>2, <2>3, <2>4
<1>4. d[1] \in Int /\ d[2] \in Int
  BY PointSums DEF Points
<1> HIDE DEF apart, d
<1>5. ASSUME NEW k \in {1, 2}
      PROVE  t[k] * Grain < Max({a[k], b[k]}) /\ Min({a[k], b[k]}) < t[k] * Grain + Grain
  <2>1. PICK v \in Int, p \in Int, q \in Int : v = t[k] * Grain /\ p = Max({a[k], b[k]}) /\ q = Min({a[k], b[k]})
    <3>1. t[k] \in Int /\ a[k] \in Int /\ b[k] \in Int
      BY <1>2, PathAssumption
    <3>2. Max({a[k], b[k]}) \in Int /\ Min({a[k], b[k]}) \in Int
      BY <3>1, LargerIs
    <3>3. t[k] * Grain \in Int
      BY <3>1 DEF Grain
    <3> QED
      BY <3>2, <3>3
  <2>2. v - p \in Int /\ q - (v + Grain) \in Int /\ d[3 - k] \in Int
    <3>1. d[3 - k] \in Int
      BY <1>4
    <3> QED
      BY <2>1, <3>1 DEF Grain
  <2>3. v - p < 0 /\ q - (v + Grain) < 0
    BY <1>1, <1>3, <2>1, <2>2
  <2> QED
    BY <2>1, <2>3 DEF Grain
<1> QED
  BY <1>2, <1>5

\* A way between neighbors, or what is moved onto them, stays in the tiles that were tested.
LEMMA LegOpen ==
    ASSUME NEW a \in Points, NEW b \in Points, NEW d \in Moves \cup {<<0, 0>>},
           OntoMap(TileOf(b)) = Plus(OntoMap(TileOf(a)), d), Open(OntoMap(TileOf(a)), d)
    PROVE  Clear(a, b, 0)
<1> SUFFICES ASSUME NEW t \in TilesAlong(a, b, 0) PROVE ~Blocked(t)
  BY DEF Clear
<1>1. d[1] \in -1 .. 1 /\ d[2] \in -1 .. 1
  BY MovesAre
<1>2. /\ t[1] * Grain < Max({a[1], b[1]}) /\ Min({a[1], b[1]}) < t[1] * Grain + Grain
      /\ t[2] * Grain < Max({a[2], b[2]}) /\ Min({a[2], b[2]}) < t[2] * Grain + Grain
      /\ t[1] \in 0 .. Width - 1 /\ t[2] \in 0 .. Height - 1 /\ t = <<t[1], t[2]>>
      /\ a[1] \in Int /\ a[2] \in Int /\ b[1] \in Int /\ b[2] \in Int
  BY ThroughIs
<1>3. PICK m \in Int, n \in Int : OntoMap(TileOf(a)) = <<m, n>>
  BY OntoMapIs, TileOfType, GridOfPoints DEF Points
<1>4. /\ m = Onto(a[1] \div Grain, Width) /\ Onto(b[1] \div Grain, Width) = m + d[1]
      /\ n = Onto(a[2] \div Grain, Height) /\ Onto(b[2] \div Grain, Height) = n + d[2]
  BY <1>3 DEF OntoMap, TileOf, Plus
<1>5. t[1] = m \/ t[1] = m + d[1]
  BY <1>1, <1>2, <1>4, Between, PathAssumption
<1>6. t[2] = n \/ t[2] = n + d[2]
  BY <1>1, <1>2, <1>4, Between, PathAssumption
<1>7. PICK x \in {0, d[1]} : t[1] = m + x
  BY <1>5
<1>8. PICK y \in {0, d[2]} : t[2] = n + y
  BY <1>6
<1>9. t = <<OntoMap(TileOf(a))[1] + x, OntoMap(TileOf(a))[2] + y>>
  BY <1>2, <1>3, <1>7, <1>8
<1> QED
  BY <1>7, <1>8, <1>9 DEF Open

\* A way within the rectangle of the goal leads through it only.
LEMMA RectOpen ==
    ASSUME plan \in Plans, NEW a \in Points, NEW b \in Points,
           OntoMap(TileOf(a)) \in plan.rect, OntoMap(TileOf(b)) \in plan.rect
    PROVE  Clear(a, b, 0)
<1> SUFFICES ASSUME NEW t \in TilesAlong(a, b, 0) PROVE ~Blocked(t)
  BY DEF Clear
<1>1. PICK x1 \in 0 .. Width - 1, x2 \in 0 .. Width - 1, y1 \in 0 .. Height - 1, y2 \in 0 .. Height - 1 :
        plan.rect = (x1 .. x2) \X (y1 .. y2)
  BY PlanFacts DEF PlanOK
<1>2. x1 \in Int /\ x2 \in Int /\ y1 \in Int /\ y2 \in Int
  BY PlanFacts
<1>3. /\ Onto(a[1] \div Grain, Width) \in x1 .. x2 /\ Onto(a[2] \div Grain, Height) \in y1 .. y2
      /\ Onto(b[1] \div Grain, Width) \in x1 .. x2 /\ Onto(b[2] \div Grain, Height) \in y1 .. y2
  BY <1>1 DEF TileOf, OntoMap
<1>4. t[1] \in x1 .. x2
  BY <1>2, <1>3, ThroughIs, Amid, PathAssumption
<1>5. t[2] \in y1 .. y2
  BY <1>2, <1>3, ThroughIs, Amid, PathAssumption
<1>6. t \in plan.rect
  <2>1. <<t[1], t[2]>> \in (x1 .. x2) \X (y1 .. y2)
    BY <1>4, <1>5
  <2> QED
    BY <1>1, <2>1, ThroughIs
<1> QED
  BY <1>6 DEF Blocked

(***************************************************************************)
(* The search: how tiles are reached.                                      *)
(***************************************************************************)
\* The tile that u was reached from, and the move.
Previous(u) == Plus(u, cameFrom[u])
LastMove(u) == Minus(<<0, 0>>, cameFrom[u])

ReachedRightly(u) ==
    /\ cameFrom[u] \in Points /\ LastMove(u) \in Moves
    /\ Previous(u) \in DOMAIN costSoFar
    /\ Plus(Previous(u), LastMove(u)) = u
    /\ MayStep(Previous(u), LastMove(u))
    /\ costSoFar[Previous(u)] < costSoFar[u]

SearchOK ==
    /\ plan \in Plans
    /\ DOMAIN costSoFar \subseteq Grid /\ start \in DOMAIN costSoFar
    /\ \A t \in DOMAIN costSoFar : costSoFar[t] \in Nat /\ (t # start => ~Blocked(t))
    /\ costSoFar[start] = 0
    /\ DOMAIN cameFrom = DOMAIN costSoFar \ {start}
    /\ \A u \in DOMAIN cameFrom : ReachedRightly(u)
    /\ \A e \in priorityQueue : e.loc \in DOMAIN costSoFar
    /\ closest \in DOMAIN cameFrom \cup {none}

\* The search has reached the start, by no move and at no cost.
LEMMA SearchInit ==
    ASSUME PlanInit
    PROVE  SearchOK
<1>1. /\ plan \in Plans /\ priorityQueue = {[loc |-> start, priority |-> 0]}
      /\ costSoFar = [t \in {start} |-> 0] /\ cameFrom = <<>> /\ closest = none
  BY DEF PlanInit
<1>2. DOMAIN cameFrom = {}
  BY <1>1
<1>3. DOMAIN costSoFar = {start} /\ costSoFar[start] = 0
  BY <1>1
<1>4. \A e \in priorityQueue : e.loc = start
  BY <1>1
<1> QED
  BY <1>1, <1>2, <1>3, <1>4, PlanFacts DEF SearchOK

\* A move leads through free tiles to a free tile.
LEMMA StepIsOpen ==
    ASSUME NEW t \in Points, NEW d \in Moves, MayStep(t, d)
    PROVE  /\ Plus(t, d) \in Grid /\ ~Blocked(Plus(t, d)) /\ Plus(t, d) # t
           /\ ~Blocked(t) => Open(t, d)
<1>1. /\ t[1] \in Int /\ t[2] \in Int /\ t = <<t[1], t[2]>>
      /\ d[1] \in -1 .. 1 /\ d[2] \in -1 .. 1 /\ d \in Points
  BY MovesAre, MovesOfPoints DEF Points
<1>2. Plus(t, d) = <<t[1] + d[1], t[2] + d[2]>>
  BY DEF Plus
<1>3. Plus(t, d) \in Grid /\ ~Blocked(Plus(t, d))
  BY DEF MayStep, Free
<1>4. d[1] # 0 \/ d[2] # 0
  BY <1>1, MovesAre DEF Points
<1>5. Plus(t, d) # t
  <2>1. t[1] + d[1] # t[1] \/ t[2] + d[2] # t[2]
    BY <1>1, <1>4
  <2> QED
    BY <1>2, <2>1
<1>6. ASSUME ~Blocked(t)
      PROVE  \A x \in {0, d[1]}, y \in {0, d[2]} : ~Blocked(<<t[1] + x, t[2] + y>>)
  <2>1. ~Blocked(<<t[1] + 0, t[2] + 0>>)
    <3>1. t[1] + 0 = t[1] /\ t[2] + 0 = t[2]
      BY <1>1
    <3> QED
      BY <1>1, <1>6, <3>1
  <2>2. ~Blocked(<<t[1] + d[1], t[2] + d[2]>>)
    BY <1>2, <1>3
  <2>3. CASE d \in Diagonals
    <3>1. Free(Plus(t, <<d[1], 0>>)) /\ Free(Plus(t, <<0, d[2]>>))
      BY <2>3 DEF MayStep
    <3>2. ~Blocked(<<t[1] + d[1], t[2] + 0>>) /\ ~Blocked(<<t[1] + 0, t[2] + d[2]>>)
      BY <3>1 DEF Free, Plus
    <3> QED
      BY <2>1, <2>2, <3>2
  <2>4. CASE d \notin Diagonals
    <3>1. d[1] = 0 \/ d[2] = 0
      BY <2>4, DiagonalsAre
    <3> QED
      BY <2>1, <2>2, <3>1
  <2> QED
    BY <2>3, <2>4
<1> QED
  BY <1>3, <1>5, <1>6 DEF Open

\* The neighbors that are visited.
LEMMA ImprovingIs ==
    ASSUME SearchOK, NEW t \in DOMAIN costSoFar, NEW d \in Improving(t)
    PROVE  /\ d \in Moves /\ MayStep(t, d)
           /\ Plus(t, d) \in DOMAIN costSoFar =>
                costSoFar[t] + StepCost(d) < costSoFar[Plus(t, d)]
<1>1. ArrivedBy(t) \in Moves \cup {<<0, 0>>}
  BY DEF ArrivedBy, SearchOK, ReachedRightly, LastMove
<1>2. d \in Directions(t, ArrivedBy(t))
  BY DEF Improving
<1> QED
  BY <1>1, <1>2, DirectionsAreMoves DEF Improving

\* Every step costs something.
LEMMA CostNatural == \A d : StepCost(d) \in Nat \ {0}
BY DEF StepCost, Straight, Diagonal

\* Tile u is reached from tile t by move d.
ReachedFrom(t, u, d) ==
    /\ d \in Improving(t) /\ d \in Moves /\ MayStep(t, d) /\ u = Plus(t, d)
    /\ u \in Grid /\ u # t /\ u # start
    /\ cameFrom'[u] \in Points /\ Previous(u)' = t /\ LastMove(u)' = d
    /\ costSoFar'[u] = costSoFar[t] + StepCost(d) /\ costSoFar'[u] \in Nat
    /\ u \in DOMAIN costSoFar => costSoFar'[u] < costSoFar[u]

\* Visiting the neighbors of the tile of queue entry e reaches the tiles given.
ExpandsTo(e, tiles) ==
    /\ IsNext(e) /\ e.loc \notin plan.rect /\ plan' = plan
    /\ tiles = {Plus(e.loc, d) : d \in Improving(e.loc)}
    /\ \A u \in tiles : \E d : ReachedFrom(e.loc, u, d)
    /\ DOMAIN costSoFar' = tiles \cup DOMAIN costSoFar
    /\ \A u \in DOMAIN costSoFar \ tiles : costSoFar'[u] = costSoFar[u]
    /\ DOMAIN cameFrom' = tiles \cup DOMAIN cameFrom
    /\ \A u \in DOMAIN cameFrom \ tiles : cameFrom'[u] = cameFrom[u]
    /\ priorityQueue' = (priorityQueue \ {e}) \cup
         {[loc |-> u, priority |-> costSoFar'[u] + Heuristic(u)] : u \in tiles}
    /\ closest' \in IF Closest(tiles) = {} THEN {closest} ELSE Closest(tiles)

\* Expand does that to the first entry of the queue.
LEMMA ExpandIs ==
    ASSUME SearchOK, Expand
    PROVE  \E e \in priorityQueue : \E tiles : ExpandsTo(e, tiles)
<1>1. PICK e \in priorityQueue :
        LET t     == e.loc
            dirs  == Improving(t)
            tiles == {Plus(t, d) : d \in dirs}
            to(u) == Minus(u, t)
            cost(u) == costSoFar[t] + StepCost(to(u))
            better == Closest(tiles)
         IN  /\ IsNext(e)
             /\ t \notin plan.rect
             /\ costSoFar' = [u \in tiles \cup DOMAIN costSoFar |->
                                IF u \in tiles THEN cost(u) ELSE costSoFar[u]]
             /\ cameFrom' = [u \in tiles \cup DOMAIN cameFrom |->
                               IF u \in tiles THEN Minus(t, u) ELSE cameFrom[u]]
             /\ priorityQueue' = (priorityQueue \ {e}) \cup
                  {[loc |-> u, priority |-> cost(u) + Heuristic(u)] : u \in tiles}
             /\ closest' \in IF better = {} THEN {closest} ELSE better
  BY DEF Expand
<1> DEFINE t       == e.loc
           tiles   == {Plus(t, d) : d \in Improving(t)}
           cost(u) == costSoFar[t] + StepCost(Minus(u, t))
<1>2. plan' = plan
  BY DEF Expand
<1>3. t \in DOMAIN costSoFar /\ t \in Grid /\ t \in Points /\ costSoFar[t] \in Nat
  BY GridOfPoints DEF SearchOK
<1>4. /\ DOMAIN costSoFar' = tiles \cup DOMAIN costSoFar
      /\ \A u \in tiles : costSoFar'[u] = cost(u)
      /\ \A u \in DOMAIN costSoFar \ tiles : costSoFar'[u] = costSoFar[u]
  <2>1. costSoFar' = [u \in tiles \cup DOMAIN costSoFar |->
                        IF u \in tiles THEN cost(u) ELSE costSoFar[u]]
    BY <1>1
  <2> HIDE DEF tiles, cost
  <2> QED
    BY <2>1
<1>5. /\ DOMAIN cameFrom' = tiles \cup DOMAIN cameFrom
      /\ \A u \in tiles : cameFrom'[u] = Minus(t, u)
      /\ \A u \in DOMAIN cameFrom \ tiles : cameFrom'[u] = cameFrom[u]
  <2>1. cameFrom' = [u \in tiles \cup DOMAIN cameFrom |->
                       IF u \in tiles THEN Minus(t, u) ELSE cameFrom[u]]
    BY <1>1
  <2> HIDE DEF tiles
  <2> QED
    BY <2>1
<1>6. priorityQueue' = (priorityQueue \ {e}) \cup
        {[loc |-> u, priority |-> costSoFar'[u] + Heuristic(u)] : u \in tiles}
  <2>1. priorityQueue' = (priorityQueue \ {e}) \cup
          {[loc |-> u, priority |-> cost(u) + Heuristic(u)] : u \in tiles}
    BY <1>1
  <2> HIDE DEF tiles, cost
  <2> QED
    BY <1>4, <2>1
<1>7. ASSUME NEW u \in tiles PROVE \E d : ReachedFrom(t, u, d)
  <2>1. PICK d \in Improving(t) : u = Plus(t, d)
    OBVIOUS
  <2>2. /\ d \in Moves /\ MayStep(t, d) /\ d \in Points
        /\ u \in DOMAIN costSoFar => costSoFar[t] + StepCost(d) < costSoFar[u]
    BY <1>3, <2>1, ImprovingIs, MovesOfPoints
  <2>3. u \in Grid /\ u # t
    BY <1>3, <2>1, <2>2, StepIsOpen
  <2>4. /\ Minus(u, t) = d /\ Minus(<<0, 0>>, Minus(t, u)) = d
        /\ Plus(u, Minus(t, u)) = t
    BY <1>3, <2>1, <2>2, PointSums
  <2>5. cost(u) \in Nat /\ cost(u) = costSoFar[t] + StepCost(d)
    BY <1>3, <2>4, CostNatural
  <2>6. u # start
    <3>1. costSoFar[t] + StepCost(d) \in Nat
      BY <1>3, CostNatural
    <3> QED
      BY <2>2, <3>1 DEF SearchOK
  <2>7. costSoFar'[u] = costSoFar[t] + StepCost(d) /\ costSoFar'[u] \in Nat
    BY <1>4, <2>5
  <2>8. cameFrom'[u] = Minus(t, u) /\ cameFrom'[u] \in Points
    BY <1>3, <1>5, <2>3, PointSums, GridOfPoints
  <2>9. Previous(u)' = t /\ LastMove(u)' = d
    BY <2>4, <2>8 DEF Previous, LastMove
  <2> QED
    BY <2>1, <2>2, <2>3, <2>6, <2>7, <2>8, <2>9 DEF ReachedFrom
<1>8. /\ IsNext(e) /\ t \notin plan.rect
      /\ closest' \in IF Closest(tiles) = {} THEN {closest} ELSE Closest(tiles)
  BY <1>1
<1> HIDE DEF cost
<1>9. ExpandsTo(e, tiles)
  BY <1>2, <1>4, <1>5, <1>6, <1>7, <1>8 DEF ExpandsTo
<1> QED
  BY <1>9

\* Visiting the neighbors of a tile keeps what the search rests on.
LEMMA ExpandKeeps ==
    ASSUME SearchOK, Expand
    PROVE  SearchOK'
<1>1. PICK e, tiles : e \in priorityQueue /\ ExpandsTo(e, tiles)
  BY ExpandIs
<1> DEFINE t == e.loc
<1>2. t \in DOMAIN costSoFar /\ costSoFar[t] \in Nat
  BY <1>1 DEF SearchOK
<1>3. /\ DOMAIN costSoFar' = tiles \cup DOMAIN costSoFar
      /\ \A u \in DOMAIN costSoFar \ tiles : costSoFar'[u] = costSoFar[u]
      /\ DOMAIN cameFrom' = tiles \cup DOMAIN cameFrom
      /\ \A u \in DOMAIN cameFrom \ tiles : cameFrom'[u] = cameFrom[u]
      /\ plan' = plan
  BY <1>1 DEF ExpandsTo
<1>4. \A u \in tiles : \E d : ReachedFrom(t, u, d)
  BY <1>1 DEF ExpandsTo
<1>5. \A f \in priorityQueue' : f \in priorityQueue \/ f.loc \in tiles
  BY <1>1 DEF ExpandsTo
<1>6. closest' \in {closest} \cup tiles
  <2>1. closest' \in IF Closest(tiles) = {} THEN {closest} ELSE Closest(tiles)
    BY <1>1 DEF ExpandsTo
  <2>2. Closest(tiles) \subseteq tiles
    BY DEF Closest
  <2> QED
    BY <2>1, <2>2
<1> HIDE DEF t
<1>7. start' = start /\ \A x : Blocked(x)' = Blocked(x)
  BY <1>3 DEF start, Blocked
<1>8. \A x, d : MayStep(x, d)' = MayStep(x, d)
  BY <1>3 DEF MayStep, Free, Blocked
<1>9. ASSUME NEW u \in tiles
      PROVE  /\ u \in Grid /\ ~Blocked(u) /\ u # t /\ u # start /\ costSoFar'[u] \in Nat
             /\ u \in DOMAIN costSoFar => costSoFar'[u] < costSoFar[u]
  BY <1>4 DEF ReachedFrom, MayStep, Free
<1>10. \A u \in DOMAIN costSoFar' : costSoFar'[u] \in Nat /\ (u # start => ~Blocked(u)) /\ u \in Grid
  BY <1>3, <1>9 DEF SearchOK
<1>11. costSoFar'[start] = 0 /\ start \in DOMAIN costSoFar'
  BY <1>3, <1>9 DEF SearchOK
<1>12. DOMAIN cameFrom' = DOMAIN costSoFar' \ {start}
  BY <1>3, <1>9 DEF SearchOK
<1>13. ASSUME NEW u \in DOMAIN costSoFar PROVE costSoFar'[u] <= costSoFar[u]
  <2>1. costSoFar[u] \in Nat /\ costSoFar'[u] \in Nat
    BY <1>3, <1>10 DEF SearchOK
  <2> QED
    BY <1>3, <1>9, <2>1
<1>14. ASSUME NEW u \in DOMAIN cameFrom' PROVE ReachedRightly(u)'
  <2>1. CASE u \in tiles
    <3>1. PICK d : ReachedFrom(t, u, d)
      BY <1>4, <2>1
    <3>2. /\ cameFrom'[u] \in Points /\ Previous(u)' = t /\ LastMove(u)' = d
          /\ d \in Moves /\ MayStep(t, d) /\ Plus(t, d) = u
          /\ costSoFar'[u] = costSoFar[t] + StepCost(d)
      BY <3>1 DEF ReachedFrom
    <3>3. t \in DOMAIN costSoFar' /\ costSoFar'[t] = costSoFar[t]
      BY <1>2, <1>3, <1>9
    <3>4. costSoFar'[t] < costSoFar'[u]
      BY <1>2, <3>2, <3>3, CostNatural
    <3> QED
      BY <1>8, <3>2, <3>3, <3>4 DEF ReachedRightly
  <2>2. CASE u \notin tiles
    <3>1. u \in DOMAIN cameFrom /\ cameFrom'[u] = cameFrom[u] /\ ReachedRightly(u)
          /\ u \in DOMAIN costSoFar
      BY <1>3, <2>2 DEF SearchOK
    <3>2. costSoFar'[u] = costSoFar[u] /\ Previous(u)' = Previous(u) /\ LastMove(u)' = LastMove(u)
      BY <1>3, <2>2, <3>1 DEF Previous, LastMove
    <3>3. /\ Previous(u) \in DOMAIN costSoFar /\ costSoFar[Previous(u)] < costSoFar[u]
          /\ Previous(u) \in DOMAIN costSoFar'
      BY <1>3, <3>1 DEF ReachedRightly
    <3>4. costSoFar'[Previous(u)] < costSoFar'[u]
      <4>1. /\ costSoFar'[Previous(u)] <= costSoFar[Previous(u)]
            /\ costSoFar'[Previous(u)] \in Nat /\ costSoFar[Previous(u)] \in Nat
            /\ costSoFar[u] \in Nat
        BY <1>10, <1>13, <3>1, <3>3 DEF SearchOK
      <4> QED
        BY <3>2, <3>3, <4>1
    <3> QED
      BY <1>8, <3>1, <3>2, <3>3, <3>4 DEF ReachedRightly
  <2> QED
    BY <2>1, <2>2
<1>15. \A f \in priorityQueue' : f.loc \in DOMAIN costSoFar'
  BY <1>3, <1>5 DEF SearchOK
<1>16. closest' \in DOMAIN cameFrom' \cup {none}
  BY <1>3, <1>6 DEF SearchOK
<1>17. plan' \in Plans /\ DOMAIN costSoFar' \subseteq Grid
  BY <1>3, <1>10 DEF SearchOK
<1> QED
  BY <1>7, <1>10, <1>11, <1>12, <1>14, <1>15, <1>16, <1>17 DEF SearchOK

\* The other steps look at the search only; the end of it takes an entry from the queue.
LEMMA SearchStays ==
    ASSUME SearchOK, plan' = plan, costSoFar' = costSoFar, cameFrom' = cameFrom,
           closest' = closest, priorityQueue' \subseteq priorityQueue
    PROVE  SearchOK'
<1>1. start' = start /\ \A x : Blocked(x)' = Blocked(x)
  BY DEF start, Blocked
<1>2. \A x, d : MayStep(x, d)' = MayStep(x, d)
  BY DEF MayStep, Free, Blocked
<1>3. \A u : ReachedRightly(u)' = ReachedRightly(u)
  BY <1>2 DEF ReachedRightly, Previous, LastMove
<1> QED
  BY <1>1, <1>3 DEF SearchOK

(***************************************************************************)
(* The way back.  Each tile was reached from one at a lower cost, so none  *)
(* is passed twice and the way ends at the start before it has passed as   *)
(* many tiles as the map has.                                              *)
(***************************************************************************)
\* f goes back from tile t, for k tiles.
Back(u) == IF u \in DOMAIN cameFrom THEN Plus(u, cameFrom[u]) ELSE u

Going(f, t, k) == f = [n \in 0 .. k |-> IF n = 0 THEN t ELSE Back(f[n - 1])]

\* The function that TraceBack defines by recursion exists.
LEMMA GoingExists ==
    ASSUME NEW t, NEW k \in Nat
    PROVE  \E f : Going(f, t, k)
<1> DEFINE N == {n \in Nat : \E f : Going(f, t, n)}
<1>1. 0 \in N
  <2> DEFINE g == [n \in 0 .. 0 |-> t]
  <2>1. g = [n \in 0 .. 0 |-> IF n = 0 THEN t ELSE Back(g[n - 1])]
    OBVIOUS
  <2> QED
    BY <2>1 DEF Going
<1>2. ASSUME NEW n \in Nat, n \in N PROVE n + 1 \in N
  <2>1. PICK f : Going(f, t, n)
    BY <1>2
  <2> DEFINE g == [m \in 0 .. n + 1 |-> IF m = n + 1 THEN Back(f[n]) ELSE f[m]]
  <2>2. ASSUME NEW m \in 0 .. n + 1
        PROVE  g[m] = IF m = 0 THEN t ELSE Back(g[m - 1])
    <3>1. CASE m = n + 1
      <4>1. m # 0 /\ m - 1 = n /\ n \in 0 .. n + 1 /\ n # n + 1
        BY <3>1
      <4> QED
        BY <3>1, <4>1
    <3>2. CASE m # n + 1
      <4>1. m \in 0 .. n
        BY <3>2
      <4>2. f[m] = IF m = 0 THEN t ELSE Back(f[m - 1])
        BY <2>1, <4>1 DEF Going
      <4>3. g[m] = f[m]
        BY <3>2
      <4>4. m # 0 => m - 1 \in 0 .. n + 1 /\ m - 1 # n + 1
        BY <4>1
      <4>5. m # 0 => g[m - 1] = f[m - 1]
        BY <4>4
      <4> QED
        BY <4>2, <4>3, <4>5
    <3> QED
      BY <3>1, <3>2
  <2>3. g = [m \in 0 .. n + 1 |-> IF m = 0 THEN t ELSE Back(g[m - 1])]
    <3>1. g = [m \in 0 .. n + 1 |-> g[m]]
      OBVIOUS
    <3> HIDE DEF g
    <3> QED
      BY <2>2, <3>1
  <2>4. Going(g, t, n + 1)
    BY <2>3 DEF Going
  <2> QED
    BY <2>4
<1> HIDE DEF N
<1>3. k \in N
  BY <1>1, <1>2, SetInduction
<1> QED
  BY <1>3 DEF N

\* Going back over tiles that were reached, none of them the start, costs less and less.
LEMMA CostsFall ==
    ASSUME SearchOK, NEW t \in DOMAIN costSoFar, NEW k \in Nat, NEW f, Going(f, t, k),
           NEW l \in 0 .. k, \A n \in 0 .. k : n < l => f[n] # start
    PROVE  /\ \A n \in 0 .. l : f[n] \in DOMAIN costSoFar
           /\ \A m, n \in 0 .. l : m < n => costSoFar[f[n]] < costSoFar[f[m]]
           /\ \A n \in 0 .. l : n # 0 => f[n] = Previous(f[n - 1]) /\ f[n - 1] \in DOMAIN cameFrom
<1> DEFINE N == {n \in Nat : n <= l =>
                   /\ f[n] \in DOMAIN costSoFar
                   /\ \A m \in 0 .. n : /\ f[m] \in DOMAIN costSoFar
                                        /\ m < n => costSoFar[f[n]] < costSoFar[f[m]]
                   /\ n # 0 => f[n] = Previous(f[n - 1]) /\ f[n - 1] \in DOMAIN cameFrom}
<1>1. 0 \in N
  <2>1. f[0] = t
    BY DEF Going
  <2>2. \A m \in 0 .. 0 : m = 0 /\ ~(m < 0)
    OBVIOUS
  <2> QED
    BY <2>1, <2>2
<1>2. ASSUME NEW n \in Nat, n \in N PROVE n + 1 \in N
  <2> SUFFICES ASSUME n + 1 <= l
               PROVE  /\ f[n + 1] \in DOMAIN costSoFar
                      /\ \A m \in 0 .. n + 1 : /\ f[m] \in DOMAIN costSoFar
                                               /\ m < n + 1 => costSoFar[f[n + 1]] < costSoFar[f[m]]
                      /\ f[n + 1] = Previous(f[n]) /\ f[n] \in DOMAIN cameFrom
    <3>1. n + 1 # 0 /\ (n + 1) - 1 = n
      OBVIOUS
    <3> QED
      BY <3>1
  <2>1. n \in 0 .. k /\ n < l /\ n + 1 \in 0 .. k /\ n + 1 # 0 /\ (n + 1) - 1 = n /\ n <= l
    OBVIOUS
  <2>2. /\ f[n] \in DOMAIN costSoFar
        /\ \A m \in 0 .. n : /\ f[m] \in DOMAIN costSoFar
                             /\ m < n => costSoFar[f[n]] < costSoFar[f[m]]
    BY <1>2, <2>1
  <2>3. f[n] \in DOMAIN cameFrom
    BY <2>1, <2>2 DEF SearchOK
  <2>4. f[n + 1] = Back(f[n])
    BY <2>1 DEF Going
  <2>5. f[n + 1] = Previous(f[n])
    BY <2>3, <2>4 DEF Back, Previous
  <2>6. f[n + 1] \in DOMAIN costSoFar /\ costSoFar[f[n + 1]] < costSoFar[f[n]]
    BY <2>3, <2>5 DEF SearchOK, ReachedRightly
  <2>7. ASSUME NEW m \in 0 .. n + 1, m < n + 1 PROVE costSoFar[f[n + 1]] < costSoFar[f[m]]
    <3>1. CASE m = n
      BY <2>6, <3>1
    <3>2. CASE m < n
      <4>1. m \in 0 .. n /\ m <= l
        BY <2>7, <3>2
      <4>2. costSoFar[f[n]] < costSoFar[f[m]]
        BY <2>2, <3>2, <4>1
      <4>3. /\ costSoFar[f[n + 1]] \in Nat /\ costSoFar[f[n]] \in Nat
            /\ costSoFar[f[m]] \in Nat
        BY <2>2, <2>6, <4>1 DEF SearchOK
      <4> QED
        BY <2>6, <4>2, <4>3
    <3> QED
      BY <2>7, <3>1, <3>2
  <2>8. \A m \in 0 .. n + 1 : m \in 0 .. n \/ m = n + 1
    OBVIOUS
  <2> QED
    BY <2>2, <2>3, <2>5, <2>6, <2>7, <2>8
<1> HIDE DEF N
<1>3. Nat \subseteq N
  BY <1>1, <1>2, SetInduction
<1>4. \A n \in 0 .. l : n \in N /\ n <= l
  BY <1>3
<1> QED
  BY <1>4 DEF N

\* The map is finite.
LEMMA GridFinite == IsFiniteSet(Grid) /\ Cardinality(Grid) \in Nat
<1>1. 0 \in Int /\ Width - 1 \in Int /\ Height - 1 \in Int
  BY PathAssumption
<1>2. IsFiniteSet(0 .. Width - 1) /\ IsFiniteSet(0 .. Height - 1)
  BY <1>1, IntervalFinite
<1> QED
  BY <1>2, FS_Product, FS_CardinalityType DEF Grid

\* The start is reached.
LEMMA BackAtStart ==
    ASSUME SearchOK, NEW t \in DOMAIN costSoFar, NEW f, Going(f, t, Cardinality(Grid))
    PROVE  \E m \in 0 .. Cardinality(Grid) :
             /\ f[m] = start
             /\ \A n \in 0 .. Cardinality(Grid) : n < m => f[n] # start
<1> DEFINE K == Cardinality(Grid)
           M == {n \in 0 .. K : f[n] = start}
<1>1. K \in Nat
  BY GridFinite
<1>2. M # {}
  <2> SUFFICES ASSUME \A n \in 0 .. K : f[n] # start PROVE FALSE
    OBVIOUS
  <2>1. K \in 0 .. K
    BY <1>1
  <2> HIDE DEF K
  <2>2. /\ \A n \in 0 .. K : f[n] \in DOMAIN costSoFar
        /\ \A m, n \in 0 .. K : m < n => costSoFar[f[n]] < costSoFar[f[m]]
    <3>1. Going(f, t, K)
      BY DEF K
    <3> QED
      BY <1>1, <2>1, <3>1, CostsFall
  <2>3. \A m, n \in 0 .. K : f[m] = f[n] => m = n
    <3> SUFFICES ASSUME NEW m \in 0 .. K, NEW n \in 0 .. K, f[m] = f[n], m # n PROVE FALSE
      OBVIOUS
    <3>1. m < n \/ n < m
      BY <1>1
    <3>2. costSoFar[f[m]] \in Nat /\ ~(costSoFar[f[m]] < costSoFar[f[m]])
      BY <2>2 DEF SearchOK
    <3> QED
      BY <2>2, <3>1, <3>2
  <2> DEFINE h == [n \in 0 .. K |-> f[n]]
  <2>4. h \in [0 .. K -> Grid]
    BY <2>2 DEF SearchOK
  <2>5. IsFiniteSet(0 .. K) /\ Cardinality(0 .. K) = K + 1
    BY <1>1, FS_Interval
  <2>6. Cardinality(Grid) < Cardinality(0 .. K)
    BY <1>1, <2>5 DEF K
  <2>7. PICK x, y \in 0 .. K : x # y /\ h[x] = h[y]
    <3> HIDE DEF h
    <3> QED
      BY <2>4, <2>5, <2>6, GridFinite, FS_PigeonHole
  <2> QED
    BY <2>3, <2>7
<1>3. M \subseteq Nat
  OBVIOUS
<1>4. PICK m \in M : \A n \in M : m <= n
  BY <1>2, <1>3, SetMinimum
<1>5. \A n \in 0 .. K : n < m => n \notin M
  BY <1>1, <1>4
<1> QED
  BY <1>4, <1>5

\* The waypoints are the centers of the tiles on the way back, up to the start.
LEMMA TraceBackIs ==
    ASSUME SearchOK, NEW t \in DOMAIN costSoFar
    PROVE  \E f : \E m \in Nat :
             /\ f[0] = t /\ f[m] = start
             /\ \A n \in 0 .. m : f[n] \in DOMAIN costSoFar
             /\ \A n \in 1 .. m : f[n - 1] \in DOMAIN cameFrom /\ f[n] = Previous(f[n - 1])
             /\ TraceBack(t) = [n \in 1 .. m |-> Center(f[n - 1])]
<1> DEFINE K == Cardinality(Grid)
           f == CHOOSE g : Going(g, t, K)
           P == {n \in 0 .. K : /\ f[n] # start
                                /\ n = 0 \/ f[n - 1] \in DOMAIN cameFrom}
<1>1. K \in Nat
  BY GridFinite
<1>2. Going(f, t, K)
  <2> HIDE DEF K
  <2> QED
    BY <1>1, GoingExists
<1>3. TraceBack(t) = [n \in 1 .. Cardinality(P) |-> Center(f[n - 1])]
  BY DEF TraceBack, Going, Back
<1> HIDE DEF f, K
<1>4. PICK m \in 0 .. K : f[m] = start /\ \A n \in 0 .. K : n < m => f[n] # start
  BY <1>2, BackAtStart DEF K
<1>5. /\ \A n \in 0 .. m : f[n] \in DOMAIN costSoFar
      /\ \A n \in 0 .. m : n # 0 => f[n] = Previous(f[n - 1]) /\ f[n - 1] \in DOMAIN cameFrom
  BY <1>1, <1>2, <1>4, CostsFall
<1>6. f[0] = t
  BY <1>1, <1>2 DEF Going
<1>7. \A n \in 0 .. K : n >= m => f[n] = start
  <2> DEFINE N == {n \in Nat : m + n <= K => f[m + n] = start}
  <2>1. 0 \in N
    <3>1. m + 0 = m
      BY <1>4
    <3> QED
      BY <1>4, <3>1
  <2>2. ASSUME NEW n \in Nat, n \in N PROVE n + 1 \in N
    <3> SUFFICES ASSUME m + (n + 1) <= K PROVE f[m + (n + 1)] = start
      OBVIOUS
    <3>1. /\ m + n <= K /\ m + (n + 1) \in 0 .. K /\ m + (n + 1) # 0
          /\ (m + (n + 1)) - 1 = m + n
      BY <1>1, <1>4
    <3>2. f[m + n] = start
      BY <2>2, <3>1
    <3>3. f[m + (n + 1)] = Back(f[(m + (n + 1)) - 1])
      BY <1>2, <3>1 DEF Going
    <3> QED
      BY <3>1, <3>2, <3>3 DEF Back, SearchOK
  <2> HIDE DEF N
  <2>3. Nat \subseteq N
    BY <2>1, <2>2, SetInduction
  <2> SUFFICES ASSUME NEW n \in 0 .. K, n >= m PROVE f[n] = start
    OBVIOUS
  <2>4. n - m \in N /\ m + (n - m) = n /\ n <= K
    BY <1>1, <1>4, <2>3
  <2> QED
    BY <2>4 DEF N
<1>8. P = 0 .. m - 1
  <2>1. ASSUME NEW n \in P PROVE n \in 0 .. m - 1
    BY <1>1, <1>4, <1>7
  <2>2. ASSUME NEW n \in 0 .. m - 1 PROVE n \in P
    <3>1. n \in 0 .. K /\ n < m /\ n \in 0 .. m
      BY <1>1, <1>4
    <3> QED
      BY <1>4, <1>5, <3>1
  <2> QED
    BY <2>1, <2>2
<1>9. Cardinality(P) = m
  <2>1. m \in Nat /\ 0 \in Int /\ m - 1 \in Int
    BY <1>1, <1>4
  <2>2. Cardinality(0 .. m - 1) = IF 0 > m - 1 THEN 0 ELSE (m - 1) - 0 + 1
    BY <2>1, FS_Interval
  <2>3. (IF 0 > m - 1 THEN 0 ELSE (m - 1) - 0 + 1) = m
    BY <2>1
  <2> QED
    BY <1>8, <2>2, <2>3
<1> HIDE DEF P
<1>10. TraceBack(t) = [n \in 1 .. m |-> Center(f[n - 1])]
  BY <1>3, <1>9
<1>11. \A n \in 1 .. m : f[n - 1] \in DOMAIN cameFrom /\ f[n] = Previous(f[n - 1])
  <2>1. \A n \in 1 .. m : n \in 0 .. m /\ n # 0
    BY <1>4
  <2> QED
    BY <1>5, <2>1
<1>12. m \in Nat /\ f[m] = start
  BY <1>1, <1>4
<1> QED
  BY <1>5, <1>6, <1>10, <1>11, <1>12

\* A center lies in its tile.
LEMMA TileOfCenter ==
    ASSUME NEW t \in Points
    PROVE  Center(t) \in Points /\ TileOf(Center(t)) = t
<1>1. PICK x \in Int, y \in Int : t = <<x, y>>
  BY DEF Points
<1>2. Center(t) = <<x * 2000 + 1000, y * 2000 + 1000>>
  <2>1. 2000 \div 2 = 1000
    OBVIOUS
  <2> QED
    BY <1>1, <2>1 DEF Center, Grain
<1>3. \A n \in Int : n * 2000 + 1000 \in Int /\ (n * 2000 + 1000) \div 2000 = n
  OBVIOUS
<1> QED
  BY <1>1, <1>2, <1>3 DEF TileOf, Grain, Points

\* The middle of a unit that is on the map finds its way from a to b clear.
Walks(a, b) == TileOf(a) \in Grid => Clear(a, b, 0)

\* The legs of the way back are clear, wherever in its tile, or beside it off the map,
\* each ends.
LEMMA TraceIsClear ==
    ASSUME SearchOK, NEW t \in DOMAIN costSoFar
    PROVE  LET path == TraceBack(t)
           IN  /\ path \in Seq(Points)
               /\ path = <<>> <=> t = start
               /\ path # <<>> => path[1] = Center(t)
               /\ \A i \in 1 .. Len(path) : TileOf(path[i]) \in Grid
               /\ \A i \in 1 .. Len(path), b \in Points :
                    OntoMap(TileOf(b)) = TileOf(path[i]) => Walks(LegStart(path, i), b)
<1> DEFINE path == TraceBack(t)
<1>0. PICK f : \E m \in Nat :
             /\ f[0] = t /\ f[m] = start
             /\ \A n \in 0 .. m : f[n] \in DOMAIN costSoFar
             /\ \A n \in 1 .. m : f[n - 1] \in DOMAIN cameFrom /\ f[n] = Previous(f[n - 1])
             /\ TraceBack(t) = [n \in 1 .. m |-> Center(f[n - 1])]
  BY TraceBackIs
<1>1. PICK m \in Nat :
             /\ f[0] = t /\ f[m] = start
             /\ \A n \in 0 .. m : f[n] \in DOMAIN costSoFar
             /\ \A n \in 1 .. m : f[n - 1] \in DOMAIN cameFrom /\ f[n] = Previous(f[n - 1])
             /\ path = [n \in 1 .. m |-> Center(f[n - 1])]
  BY <1>0
<1> HIDE DEF path
<1>2. \A n \in 1 .. m : n - 1 \in 0 .. m /\ n \in 0 .. m
  OBVIOUS
<1>3. \A n \in 0 .. m : f[n] \in Points
  BY <1>1, GridOfPoints DEF SearchOK
<1>9. \A n \in 0 .. m : f[n] \in Grid
  BY <1>1 DEF SearchOK
<1>10. \A n \in 0 .. m : f[n] \in DOMAIN cameFrom => ~Blocked(f[n])
  BY <1>1 DEF SearchOK
<1>4. /\ path \in Seq(Points) /\ Len(path) = m
      /\ \A n \in 1 .. m : path[n] = Center(f[n - 1]) /\ TileOf(path[n]) = f[n - 1]
  <2>1. path \in [1 .. m -> Points]
    BY <1>1, <1>2, <1>3, TileOfCenter
  <2>2. path \in Seq(Points)
    BY <2>1, SeqDef
  <2>3. Len(path) = m
    <3>1. Len(path) \in Nat /\ DOMAIN path = 1 .. Len(path) /\ DOMAIN path = 1 .. m
      BY <2>1, <2>2, LenProperties
    <3>2. \A k, l \in Nat : 1 .. k = 1 .. l => k = l
      OBVIOUS
    <3> QED
      BY <3>1, <3>2
  <2>4. \A n \in 1 .. m : path[n] = Center(f[n - 1]) /\ TileOf(path[n]) = f[n - 1]
    BY <1>1, <1>2, <1>3, TileOfCenter
  <2> QED
    BY <2>2, <2>3, <2>4
<1>5. path = <<>> <=> t = start
  <2>1. CASE m = 0
    BY <1>1, <1>4, <2>1
  <2>2. CASE m # 0
    <3>1. 1 \in 1 .. m
      BY <2>2
    <3>2. t \in DOMAIN cameFrom
      BY <1>1, <3>1
    <3> QED
      BY <1>4, <2>2, <3>2 DEF SearchOK
  <2> QED
    BY <2>1, <2>2
<1>6. path # <<>> => path[1] = Center(t)
  <2>1. path # <<>> => 1 \in 1 .. m
    BY <1>4
  <2> QED
    BY <1>1, <1>4, <2>1
<1>7. ASSUME NEW i \in 1 .. m, NEW b \in Points, OntoMap(TileOf(b)) = TileOf(path[i]),
             TileOf(LegStart(path, i)) \in Grid
      PROVE  Clear(LegStart(path, i), b, 0)
  <2> DEFINE a == LegStart(path, i)
             u == f[i - 1]
             d == LastMove(u)
  <2>1. OntoMap(TileOf(b)) = u /\ u \in DOMAIN cameFrom /\ f[i] = Previous(u)
    BY <1>1, <1>4, <1>7
  <2>2. a \in Points /\ TileOf(a) = f[i] /\ ~Blocked(f[i])
    <3>1. CASE i = m
      <4>1. a = plan.unit
        BY <1>4, <3>1 DEF LegStart
      <4> QED
        BY <1>1, <1>7, <3>1, <4>1, PlanFacts DEF SearchOK
    <3>2. CASE i # m
      <4>1. a = path[i + 1] /\ i + 1 \in 1 .. m /\ (i + 1) - 1 = i
        BY <1>4, <3>2 DEF LegStart
      <4>2. path[i + 1] \in Points /\ TileOf(path[i + 1]) = f[i]
        <5>1. path[i + 1] = Center(f[i]) /\ f[i] \in Points
          BY <1>2, <1>3, <1>4, <4>1
        <5> QED
          BY <5>1, TileOfCenter
      <4>3. f[i] \in DOMAIN cameFrom
        BY <1>1, <4>1
      <4> QED
        BY <1>2, <1>10, <4>1, <4>2, <4>3
    <3> QED
      BY <3>1, <3>2
  <2>3. /\ d \in Moves /\ Plus(f[i], d) = u /\ MayStep(f[i], d)
    BY <2>1 DEF SearchOK, ReachedRightly
  <2>4. Open(f[i], d)
    BY <1>2, <1>3, <2>2, <2>3, StepIsOpen
  <2>5. OntoMap(TileOf(a)) = f[i]
    BY <1>2, <1>3, <1>9, <2>2, OntoMapIs
  <2> HIDE DEF a, u, d
  <2>6. Clear(a, b, 0)
    BY <2>1, <2>2, <2>3, <2>4, <2>5, LegOpen
  <2> QED
    BY <2>6 DEF a
<1>8. \A i \in 1 .. m : TileOf(path[i]) \in Grid
  BY <1>2, <1>4, <1>9
<1> QED
  BY <1>4, <1>5, <1>6, <1>7, <1>8 DEF path, Walks

\* A sequence of which element i was removed.
LEMMA RemoveAtIs ==
    ASSUME NEW S, NEW s \in Seq(S), NEW i \in 1 .. Len(s)
    PROVE  /\ RemoveAt(s, i) \in Seq(S) /\ Len(RemoveAt(s, i)) = Len(s) - 1
           /\ \A n \in 1 .. Len(s) - 1 :
                RemoveAt(s, i)[n] = IF n < i THEN s[n] ELSE s[n + 1]
<1> DEFINE before == SubSeq(s, 1, i - 1)
           after  == SubSeq(s, i + 1, Len(s))
<1>1. /\ before \in Seq(S) /\ Len(before) = i - 1
      /\ \A n \in 1 .. i - 1 : before[n] = s[n]
  OBVIOUS
<1>2. /\ after \in Seq(S) /\ Len(after) = Len(s) - i
      /\ \A n \in 1 .. Len(s) - i : after[n] = s[i + n]
  OBVIOUS
<1>3. RemoveAt(s, i) = before \o after
  BY DEF RemoveAt
<1> HIDE DEF before, after
<1>4. before \o after \in Seq(S) /\ Len(before \o after) = Len(s) - 1
  BY <1>1, <1>2
<1>5. ASSUME NEW n \in 1 .. Len(s) - 1
      PROVE  (before \o after)[n] = IF n < i THEN s[n] ELSE s[n + 1]
  <2>1. CASE n < i
    <3>1. n \in 1 .. Len(before) /\ n \in 1 .. i - 1
      BY <1>1, <2>1
    <3>2. (before \o after)[n] = before[n]
      BY <1>1, <1>2, <3>1
    <3> QED
      BY <1>1, <2>1, <3>1, <3>2
  <2>2. CASE n >= i
    <3>1. /\ n - Len(before) \in 1 .. Len(s) - i /\ ~(n < i)
          /\ i + (n - Len(before)) = n + 1 /\ n > Len(before) /\ n <= Len(before) + Len(after)
      BY <1>1, <1>2, <2>2
    <3>2. (before \o after)[n] = after[n - Len(before)]
      BY <1>1, <1>2, <3>1
    <3>3. after[n - Len(before)] = s[i + (n - Len(before))]
      BY <1>2, <3>1
    <3> QED
      BY <3>1, <3>2, <3>3
  <2>3. n < i \/ n >= i
    <3>1. \A k, l \in Int : k < l \/ k >= l
      OBVIOUS
    <3>2. n \in Int /\ i \in Int
      OBVIOUS
    <3> QED
      BY <3>1, <3>2
  <2> QED
    BY <2>1, <2>2, <2>3
<1> QED
  BY <1>3, <1>4, <1>5

\* A leg that was tested.
Tested(a, b) == TileOf(a) \in Grid => Clear(a, b, 0) \/ IsPathFree(a, b)

\* The legs of a path were.
Walkable(path) ==
    /\ path \in Seq(Points)
    /\ \A i \in 1 .. Len(path) : Tested(LegStart(path, i), path[i])

\* Cutting a corner leaves the other legs as they were.
LEMMA CutIsWalkable ==
    ASSUME NEW path, Walkable(path), NEW i \in 2 .. Len(path),
           IsPathFree(LegStart(path, i), path[i - 1])
    PROVE  Walkable(RemoveAt(path, i))
<1> DEFINE cut == RemoveAt(path, i)
           l   == Len(path)
<1>1. path \in Seq(Points) /\ l \in Nat /\ i \in 1 .. l /\ i - 1 \in 1 .. l
  BY DEF Walkable
<1>2. /\ cut \in Seq(Points) /\ Len(cut) = l - 1
      /\ \A n \in 1 .. l - 1 : cut[n] = IF n < i THEN path[n] ELSE path[n + 1]
  <2> HIDE DEF l
  <2>1. i \in 1 .. Len(path) /\ path \in Seq(Points)
    BY <1>1 DEF l
  <2> QED
    BY <2>1, RemoveAtIs DEF l
<1>3. \A n \in 1 .. l : Tested(LegStart(path, n), path[n])
  BY DEF Walkable
<1>4. Tested(LegStart(path, i), path[i - 1])
  BY DEF Tested
<1> HIDE DEF cut, l
<1>5. ASSUME NEW n \in 1 .. l - 1 PROVE Tested(LegStart(cut, n), cut[n])
  <2> DEFINE from == LegStart(cut, n)
  <2>1. from = IF n = l - 1 THEN plan.unit ELSE cut[n + 1]
    BY <1>2 DEF LegStart
  <2>2. \A k : LegStart(path, k) = IF k = l THEN plan.unit ELSE path[k + 1]
    BY DEF LegStart, l
  <2> HIDE DEF from
  <2>3. n # l - 1 => cut[n + 1] = IF n + 1 < i THEN path[n + 1] ELSE path[n + 2]
    <3>1. n # l - 1 => n + 1 \in 1 .. l - 1 /\ (n + 1) + 1 = n + 2
      BY <1>1
    <3> QED
      BY <1>2, <3>1
  <2>4. CASE n < i - 1
    <3>1. n # l - 1 /\ n # l /\ n + 1 < i /\ n < i /\ n \in 1 .. l
      BY <1>1, <2>4
    <3>2. from = LegStart(path, n) /\ cut[n] = path[n]
      BY <1>2, <2>1, <2>2, <2>3, <3>1
    <3> QED
      BY <1>3, <3>1, <3>2 DEF from
  <2>5. CASE n = i - 1
    <3>1. n < i /\ ~(n + 1 < i) /\ (n = l - 1 <=> i = l) /\ n + 2 = i + 1
      BY <1>1, <2>5
    <3>2. from = LegStart(path, i) /\ cut[n] = path[i - 1]
      BY <1>2, <2>1, <2>2, <2>3, <2>5, <3>1
    <3> QED
      BY <1>4, <3>2 DEF from
  <2>6. CASE n >= i
    <3>1. /\ ~(n < i) /\ ~(n + 1 < i) /\ (n = l - 1 <=> n + 1 = l)
          /\ (n + 1) + 1 = n + 2 /\ n + 1 \in 1 .. l
      BY <1>1, <2>6
    <3>2. from = LegStart(path, n + 1) /\ cut[n] = path[n + 1]
      BY <1>2, <2>1, <2>2, <2>3, <3>1
    <3> QED
      BY <1>3, <3>1, <3>2 DEF from
  <2>7. n < i - 1 \/ n = i - 1 \/ n >= i
    BY <1>1
  <2> QED
    BY <2>4, <2>5, <2>6, <2>7
<1> QED
  BY <1>2, <1>5 DEF Walkable, cut

\* The exact goal as the last waypoint is as well to walk to.
LEMMA ExactGoalIsWalkable ==
    ASSUME SearchOK, NEW t \in DOMAIN costSoFar, t \in plan.rect
    PROVE  Walkable(ExactGoal(TraceBack(t)))
<1> DEFINE path == TraceBack(t)
           goal == plan.goal
<1>1. /\ path \in Seq(Points)
      /\ path = <<>> <=> t = start
      /\ path # <<>> => path[1] = Center(t)
      /\ \A i \in 1 .. Len(path) : TileOf(path[i]) \in Grid
      /\ \A i \in 1 .. Len(path), b \in Points :
           OntoMap(TileOf(b)) = TileOf(path[i]) => Walks(LegStart(path, i), b)
  <2> HIDE DEF path
  <2> QED
    BY TraceIsClear DEF path
<1>2. /\ plan \in Plans /\ plan.unit \in Points /\ goal \in Points
      /\ OntoMap(TileOf(goal)) \in plan.rect /\ t \in Points /\ t \in Grid
  BY PlanFacts, GridOfPoints DEF SearchOK
<1>3. ExactGoal(path) = IF path = <<>> THEN <<goal>>
                        ELSE IF Cardinality(plan.rect) = 1 THEN [path EXCEPT ![1] = goal]
                        ELSE path
  BY DEF ExactGoal
<1> HIDE DEF path, goal
<1>4. \A i \in 1 .. Len(path) : path[i] \in Points /\ OntoMap(TileOf(path[i])) = TileOf(path[i])
  <2>1. path \in Seq(Points) /\ \A i \in 1 .. Len(path) : TileOf(path[i]) \in Grid
    BY <1>1
  <2> QED
    BY <2>1, ElementOfSeq, OntoMapIs, TileOfType
<1>5. CASE path = <<>>
  <2>1. Tested(plan.unit, goal)
    <3>1. OntoMap(TileOf(plan.unit)) \in plan.rect
      BY <1>1, <1>5 DEF start
    <3> QED
      BY <1>2, <3>1, RectOpen DEF Tested
  <2>2. \A i \in 1 .. Len(<<goal>>) : LegStart(<<goal>>, i) = plan.unit /\ <<goal>>[i] = goal
    BY DEF LegStart
  <2>3. <<goal>> \in Seq(Points)
    BY <1>2
  <2>4. Walkable(<<goal>>)
    BY <2>1, <2>2, <2>3 DEF Walkable
  <2> QED
    BY <1>3, <1>5, <2>4 DEF path
<1>6. CASE path # <<>> /\ Cardinality(plan.rect) = 1
  <2> DEFINE exact == [path EXCEPT ![1] = goal]
  <2>1. OntoMap(TileOf(goal)) = TileOf(path[1])
    <3>1. IsFiniteSet(plan.rect)
      <4>1. plan.rect \in SUBSET Grid
        BY <1>2, PlanFacts DEF PlanOK, Grid
      <4> QED
        BY <4>1, GridFinite, FS_Subset
    <3>2. PICK x : plan.rect = {x}
      BY <1>6, <3>1, FS_Singleton
    <3>3. TileOf(path[1]) = t
      BY <1>1, <1>2, <1>6, TileOfCenter
    <3> QED
      BY <1>2, <3>2, <3>3
  <2>2. 1 \in 1 .. Len(path)
    BY <1>1, <1>6
  <2>3. /\ exact \in Seq(Points) /\ Len(exact) = Len(path)
        /\ \A i \in 1 .. Len(path) : exact[i] = IF i = 1 THEN goal ELSE path[i]
    <3>1. path \in Seq(Points) /\ goal \in Points
      BY <1>1, <1>2
    <3> QED
      BY <2>2, <3>1, ExceptSeq
  <2> HIDE DEF exact
  <2>4. ASSUME NEW i \in 1 .. Len(path) PROVE Tested(LegStart(exact, i), exact[i])
    <3>1. LegStart(exact, i) = LegStart(path, i)
      <4>1. i # Len(path) => i + 1 \in 1 .. Len(path) /\ i + 1 # 1
        BY <1>1
      <4>2. i # Len(path) => exact[i + 1] = path[i + 1]
        BY <2>3, <4>1
      <4> QED
        BY <2>3, <4>2 DEF LegStart
    <3>2. exact[i] \in Points /\ OntoMap(TileOf(exact[i])) = TileOf(path[i])
      BY <1>2, <1>4, <2>1, <2>3
    <3>3. Tested(LegStart(path, i), exact[i])
      BY <1>1, <3>2 DEF Tested, Walks
    <3> QED
      BY <3>1, <3>3
  <2>5. Walkable(exact)
    BY <2>3, <2>4 DEF Walkable
  <2> QED
    BY <1>3, <1>6, <2>5 DEF exact, path
<1>7. CASE path # <<>> /\ Cardinality(plan.rect) # 1
  <2>1. \A i \in 1 .. Len(path) : Tested(LegStart(path, i), path[i])
    BY <1>1, <1>4 DEF Tested, Walks
  <2>2. Walkable(path)
    BY <1>1, <2>1 DEF Walkable
  <2> QED
    BY <1>3, <1>7, <2>2 DEF path
<1> QED
  BY <1>5, <1>6, <1>7

\* What holds of the path while it is smoothed.  With nothing reached and nothing close
\* to the goal there is a path to nowhere, of which nothing is claimed.
PathOK ==
    /\ phase \in {"search", "smooth", "planned"}
    /\ phase = "search" => reached = none
    /\ phase # "search" =>
         /\ corner \in Nat /\ corner >= 2
         /\ (reached # none \/ closest # none) => Walkable(reversePath)

PlanInv == SearchOK /\ PathOK

\* Before the search ends there is no path yet.
LEMMA PlanInvInit == PlanInit => PlanInv
<1> SUFFICES ASSUME PlanInit PROVE PlanInv
  OBVIOUS
<1>1. PathOK
  BY DEF PlanInit, PathOK
<1> QED
  BY <1>1, SearchInit DEF PlanInv

\* Every step keeps the invariant: the search what it has reached, its end makes a path
\* of it, and the smoothing keeps that path walkable.
LEMMA PlanInvNext == PlanInv /\ [PlanNext]_planVars => PlanInv'
<1> SUFFICES ASSUME PlanInv, [PlanNext]_planVars PROVE PlanInv'
  OBVIOUS
<1> USE DEF PlanInv
<1>1. CASE Expand
  <2>1. SearchOK'
    BY <1>1, ExpandKeeps
  <2>2. PathOK'
    BY <1>1 DEF Expand, PathOK
  <2> QED
    BY <2>1, <2>2
<1>2. CASE ReachGoal
  <2>1. PICK e \in priorityQueue :
          /\ e.loc \in plan.rect /\ priorityQueue' = priorityQueue \ {e}
          /\ reached' = e.loc /\ reversePath' = ExactGoal(TraceBack(e.loc))
    BY <1>2 DEF ReachGoal
  <2>2. /\ plan' = plan /\ costSoFar' = costSoFar /\ cameFrom' = cameFrom /\ closest' = closest
        /\ corner' = 2 /\ phase' = "smooth"
    BY <1>2 DEF ReachGoal, StartSmoothing
  <2>3. SearchOK'
    BY <2>1, <2>2, SearchStays
  <2>4. Walkable(reversePath')
    <3>1. e.loc \in DOMAIN costSoFar
      BY DEF SearchOK
    <3> QED
      BY <2>1, <3>1, ExactGoalIsWalkable
  <2>5. Walkable(reversePath)'
    BY <2>2, <2>4 DEF Walkable, Tested, LegStart, Clear, IsPathFree, Blocked
  <2>6. PathOK'
    BY <2>2, <2>5 DEF PathOK
  <2> QED
    BY <2>3, <2>6
<1>3. CASE GiveUp
  <2>1. /\ plan' = plan /\ costSoFar' = costSoFar /\ cameFrom' = cameFrom /\ closest' = closest
        /\ reached' = reached /\ priorityQueue' = priorityQueue
        /\ corner' = 2 /\ phase' = "smooth"
        /\ closest # none => reversePath' = TraceBack(closest)
        /\ phase = "search"
    BY <1>3 DEF GiveUp, StartSmoothing, searchVars
  <2>2. SearchOK'
    BY <2>1, SearchStays
  <2>3. closest # none => Walkable(reversePath')
    <3> SUFFICES ASSUME closest # none PROVE Walkable(TraceBack(closest))
      BY <2>1
    <3>1. closest \in DOMAIN costSoFar
      BY DEF SearchOK
    <3> DEFINE path == TraceBack(closest)
    <3>2. /\ path \in Seq(Points)
          /\ \A i \in 1 .. Len(path) : TileOf(path[i]) \in Grid
          /\ \A i \in 1 .. Len(path), b \in Points :
               OntoMap(TileOf(b)) = TileOf(path[i]) => Walks(LegStart(path, i), b)
      <4> HIDE DEF path
      <4> QED
        BY <3>1, TraceIsClear DEF path
    <3> HIDE DEF path
    <3>3. \A i \in 1 .. Len(path) : path[i] \in Points /\ OntoMap(TileOf(path[i])) = TileOf(path[i])
      BY <3>2, ElementOfSeq, OntoMapIs, TileOfType
    <3>4. Walkable(path)
      BY <3>2, <3>3 DEF Walkable, Tested, Walks
    <3> QED
      BY <3>4 DEF path
  <2>4. closest # none => Walkable(reversePath)'
    BY <2>1, <2>3 DEF Walkable, Tested, LegStart, Clear, IsPathFree, Blocked
  <2>5. PathOK'
    BY <2>1, <2>4 DEF PathOK
  <2> QED
    BY <2>2, <2>5
<1>4. CASE Smooth
  <2>1. /\ plan' = plan /\ costSoFar' = costSoFar /\ cameFrom' = cameFrom /\ closest' = closest
        /\ reached' = reached /\ priorityQueue' = priorityQueue /\ phase' = phase
        /\ phase = "smooth" /\ corner <= Len(reversePath)
    BY <1>4 DEF Smooth, searchVars
  <2>2. SearchOK'
    BY <2>1, SearchStays
  <2>3. corner \in Nat /\ corner >= 2 /\ corner + 1 \in Nat /\ corner + 1 >= 2
    BY <2>1 DEF PathOK
  <2>4. corner' \in Nat /\ corner' >= 2
    BY <1>4, <2>3 DEF Smooth
  <2>5. ASSUME reached # none \/ closest # none PROVE Walkable(reversePath')
    <3>1. Walkable(reversePath)
      BY <2>1, <2>5 DEF PathOK
    <3>2. CASE reversePath' = reversePath
      BY <3>1, <3>2
    <3>3. CASE /\ IsPathFree(LegStart(reversePath, corner), reversePath[corner - 1])
               /\ reversePath' = RemoveAt(reversePath, corner)
      <4>1. corner \in 2 .. Len(reversePath)
        BY <2>1, <2>3, <3>1 DEF Walkable
      <4> QED
        BY <3>1, <3>3, <4>1, CutIsWalkable
    <3> QED
      BY <1>4, <3>2, <3>3 DEF Smooth, LegStart
  <2>6. ASSUME reached # none \/ closest # none PROVE Walkable(reversePath)'
    BY <2>1, <2>5, <2>6 DEF Walkable, Tested, LegStart, Clear, IsPathFree, Blocked
  <2>7. PathOK'
    BY <2>1, <2>4, <2>6 DEF PathOK
  <2> QED
    BY <2>2, <2>7
<1>5. CASE SetPath \/ UNCHANGED planVars
  <2>1. /\ plan' = plan /\ costSoFar' = costSoFar /\ cameFrom' = cameFrom /\ closest' = closest
        /\ reached' = reached /\ priorityQueue' = priorityQueue
        /\ reversePath' = reversePath /\ corner' = corner
        /\ phase' = phase \/ (phase = "smooth" /\ phase' = "planned")
    BY <1>5 DEF SetPath, planVars, searchVars, pathVars
  <2>2. SearchOK'
    BY <2>1, SearchStays
  <2>3. Walkable(reversePath)' <=> Walkable(reversePath)
    BY <2>1 DEF Walkable, Tested, LegStart, Clear, IsPathFree, Blocked
  <2>4. PathOK'
    BY <2>1, <2>3 DEF PathOK
  <2> QED
    BY <2>2, <2>4
<1> QED
  BY <1>1, <1>2, <1>3, <1>4, <1>5 DEF PlanNext

\* PlanUnitPath: on a map of any size, for any unit, goal and obstacles, on the map or
\* not, every leg of the path that a unit is given either leads its middle through no
\* obstacle, as those between neighboring tiles and within the goal do, or has passed the
\* test of its whole width, from where it begins to where it ends once all corners are
\* cut; however the queue orders equal priorities.
THEOREM LegsAlwaysTested == PlanSpec => []LegsTested
<1>1. PlanInv => LegsTested
  <2> SUFFICES ASSUME PlanInv, NEW leg \in Legs
               PROVE  Clear(leg[1], leg[2], 0) \/ IsPathFree(leg[1], leg[2])
    BY DEF LegsTested
  <2>1. PICK i \in 1 .. Len(reversePath) :
          /\ phase = "planned" /\ (reached # none \/ closest # none)
          /\ TileOf(LegStart(reversePath, i)) \in Grid
          /\ leg = <<LegStart(reversePath, i), reversePath[i]>>
    BY DEF Legs
  <2>2. Tested(LegStart(reversePath, i), reversePath[i])
    BY <2>1 DEF PlanInv, PathOK, Walkable
  <2> QED
    BY <2>1, <2>2 DEF Tested
<1> QED
  BY <1>1, PlanInvInit, PlanInvNext, PTL DEF PlanSpec

(***************************************************************************)
(* Best paths.  Most neighbors of a tile are never looked at.  What that   *)
(* leaves out is reached past the tile before, by a shorter way or by one  *)
(* of the same length that takes the diagonal step first.                  *)
(***************************************************************************)
\* The least element of finitely many numbers.
LEMMA LeastIs ==
    ASSUME NEW S, S \subseteq Nat, S # {}
    PROVE  Min(S) \in S /\ \A x \in S : Min(S) <= x
<1>1. \E x \in S : \A y \in S : x <= y
  BY SetMinimum
<1> QED
  BY <1>1 DEF Min

\* The diagonal distance of two tiles.
Octile(t, g) ==
    LET x == AbsOf(t[1] - g[1])
        y == AbsOf(t[2] - g[2])
        shorter == IF x < y THEN x ELSE y
    IN  shorter * Diagonal + (x + y - 2 * shorter) * Straight

\* It is a natural number, and 0 to the tile itself.
LEMMA OctileNatural ==
    ASSUME NEW t \in Points, NEW g \in Points
    PROVE  Octile(t, g) \in Nat /\ Octile(t, t) = 0
<1> DEFINE x == AbsOf(t[1] - g[1])
           y == AbsOf(t[2] - g[2])
           s == IF x < y THEN x ELSE y
<1>1. x \in Nat /\ y \in Nat
  BY DEF AbsOf, Points
<1>2. s \in Nat /\ x + y - 2 * s \in Nat
  BY <1>1
<1> HIDE DEF x, y, s
<1>3. s * 1393 + (x + y - 2 * s) * 985 \in Nat
  BY <1>2
<1>4. Octile(t, g) \in Nat
  BY <1>3 DEF Octile, x, y, s, Diagonal, Straight
<1>5. Octile(t, t) = 0
  <2>1. AbsOf(t[1] - t[1]) = 0 /\ AbsOf(t[2] - t[2]) = 0
    BY DEF AbsOf, Points
  <2>2. 0 * 1393 + (0 + 0 - 2 * 0) * 985 = 0 /\ ~(0 < 0)
    OBVIOUS
  <2> QED
    BY <2>1, <2>2 DEF Octile, Diagonal, Straight
<1> QED
  BY <1>4, <1>5

\* A step brings a tile closer by no more than it costs.
LEMMA OctileStep ==
    ASSUME NEW t \in Points, NEW d \in Moves, NEW g \in Points
    PROVE  Octile(t, g) <= StepCost(d) + Octile(Plus(t, d), g)
<1>1. PICK x \in Int, y \in Int : x = t[1] - g[1] /\ y = t[2] - g[2]
  BY DEF Points
<1>2. /\ d[1] \in -1 .. 1 /\ d[2] \in -1 .. 1
      /\ StepCost(d) = IF d[1] # 0 /\ d[2] # 0 THEN 1393 ELSE 985
      /\ d[1] # 0 \/ d[2] # 0
  BY MovesAre, DiagonalsAre DEF StepCost, Diagonal, Straight
<1>3. Plus(t, d)[1] - g[1] = x + d[1] /\ Plus(t, d)[2] - g[2] = y + d[2]
  BY <1>1, PointSums, MovesOfPoints DEF Points
<1> DEFINE Far(a, b) == LET s == IF AbsOf(a) < AbsOf(b) THEN AbsOf(a) ELSE AbsOf(b)
                        IN  s * 1393 + (AbsOf(a) + AbsOf(b) - 2 * s) * 985
<1>4. ASSUME NEW i \in -1 .. 1, NEW j \in -1 .. 1, i # 0 \/ j # 0
      PROVE  Far(x, y) <= (IF i # 0 /\ j # 0 THEN 1393 ELSE 985) + Far(x + i, y + j)
  BY <1>4 DEF AbsOf
<1>5. Octile(t, g) = Far(x, y) /\ Octile(Plus(t, d), g) = Far(x + d[1], y + d[2])
  BY <1>1, <1>3 DEF Octile, Diagonal, Straight
<1> QED
  BY <1>2, <1>4, <1>5

\* The heuristic never promises more than a step can keep, and nothing at the goal.
LEMMA HeuristicIs ==
    ASSUME plan \in Plans, NEW t \in Points
    PROVE  /\ Heuristic(t) \in Nat
           /\ t \in plan.rect => Heuristic(t) = 0
           /\ \A d \in Moves : Heuristic(t) <= StepCost(d) + Heuristic(Plus(t, d))
<1>1. plan.rect \subseteq Points /\ plan.rect # {}
  BY PlanFacts DEF PlanOK, Points
<1>2. \A u : Heuristic(u) = Min({Octile(u, g) : g \in plan.rect})
  BY DEF Heuristic, HeuristicTo, Octile
<1>3. ASSUME NEW u \in Points
      PROVE  /\ Heuristic(u) \in {Octile(u, g) : g \in plan.rect}
             /\ \A g \in plan.rect : Heuristic(u) <= Octile(u, g)
             /\ Heuristic(u) \in Nat
  <2> DEFINE S == {Octile(u, g) : g \in plan.rect}
  <2>1. S \subseteq Nat /\ S # {}
    BY <1>1, OctileNatural
  <2>2. Min(S) \in S /\ \A x \in S : Min(S) <= x
    <3> HIDE DEF S
    <3> QED
      BY <2>1, LeastIs
  <2> QED
    BY <1>2, <2>1, <2>2
<1>4. t \in plan.rect => Heuristic(t) = 0
  <2>1. t \in plan.rect => Heuristic(t) <= 0
    BY <1>3, OctileNatural
  <2> QED
    BY <1>3, <2>1
<1>5. ASSUME NEW d \in Moves PROVE Heuristic(t) <= StepCost(d) + Heuristic(Plus(t, d))
  <2>1. Plus(t, d) \in Points
    BY PointSums, MovesOfPoints
  <2>2. PICK g \in plan.rect : Heuristic(Plus(t, d)) = Octile(Plus(t, d), g)
    BY <1>3, <2>1
  <2>3. Heuristic(t) <= Octile(t, g) /\ Octile(t, g) <= StepCost(d) + Octile(Plus(t, d), g)
    BY <1>1, <1>3, OctileStep
  <2>4. /\ Heuristic(t) \in Nat /\ Octile(t, g) \in Nat /\ Octile(Plus(t, d), g) \in Nat
        /\ StepCost(d) \in Nat
    BY <1>1, <1>3, <2>1, OctileNatural, CostNatural
  <2> QED
    BY <2>2, <2>3, <2>4
<1> QED
  BY <1>3, <1>4, <1>5

\* Free tiles by coordinates, and the steps between them.
LEMMA MayStepIs ==
    ASSUME NEW x \in Int, NEW y \in Int, NEW i \in -1 .. 1, NEW j \in -1 .. 1
    PROVE  MayStep(<<x, y>>, <<i, j>>) <=>
             /\ Free(<<x + i, y + j>>)
             /\ i # 0 /\ j # 0 => Free(<<x + i, y>>) /\ Free(<<x, y + j>>)
<1>1. <<i, j>> \in Diagonals <=> i # 0 /\ j # 0
  BY DEF Diagonals
<1>2. /\ Plus(<<x, y>>, <<i, j>>) = <<x + i, y + j>>
      /\ Plus(<<x, y>>, <<i, 0>>) = <<x + i, y>>
      /\ Plus(<<x, y>>, <<0, j>>) = <<x, y + j>>
  BY DEF Plus
<1> QED
  BY <1>1, <1>2 DEF MayStep

\* Straight steps.
LEMMA StraightStepIs ==
    ASSUME NEW x \in Int, NEW y \in Int, NEW i \in {1, -1}
    PROVE  /\ MayStep(<<x, y>>, <<i, 0>>) <=> Free(<<x + i, y>>)
           /\ MayStep(<<x, y>>, <<0, i>>) <=> Free(<<x, y + i>>)
<1>1. <<i, 0>> \notin Diagonals /\ <<0, i>> \notin Diagonals
  BY DEF Diagonals
<1>2. Plus(<<x, y>>, <<i, 0>>) = <<x + i, y>> /\ Plus(<<x, y>>, <<0, i>>) = <<x, y + i>>
  BY DEF Plus
<1> QED
  BY <1>1, <1>2 DEF MayStep

\* What steps cost.
LEMMA StepCosts ==
    ASSUME NEW i \in -1 .. 1, NEW j \in -1 .. 1
    PROVE  StepCost(<<i, j>>) = IF i # 0 /\ j # 0 THEN 1393 ELSE 985
BY DEF StepCost, Diagonals, Diagonal, Straight

\* A way that is cheaper than two steps from p over t.
Shortcut(p, u, cost) ==
    \/ u = p
    \/ \E a \in Moves : /\ MayStep(p, a) /\ u = Plus(p, a)
                        /\ StepCost(a) < cost
    \/ \E a, b \in Moves : /\ MayStep(p, a) /\ MayStep(Plus(p, a), b) /\ u = Plus(Plus(p, a), b)
                           /\ StepCost(a) + StepCost(b) < cost

\* One of the same length: the diagonal step first, the straight one m then.
Detour(p, m, u) ==
    \E a \in Diagonals : /\ MayStep(p, a) /\ MayStep(Plus(p, a), m)
                        /\ u = Plus(Plus(p, a), m)

\* What is left out after a diagonal move is reached by a shortcut.
LEMMA DiagonalPruning ==
    ASSUME NEW x \in Int, NEW y \in Int, NEW i \in {1, -1}, NEW j \in {1, -1},
           NEW k \in -1 .. 1, NEW l \in -1 .. 1, k # 0 \/ l # 0,
           MayStep(<<x, y>>, <<i, j>>), MayStep(<<x + i, y + j>>, <<k, l>>),
           <<k, l>> \notin Directions(<<x + i, y + j>>, <<i, j>>)
    PROVE  Shortcut(<<x, y>>, <<x + i + k, y + j + l>>, StepCost(<<i, j>>) + StepCost(<<k, l>>))
<1>1. <<k, l>> \notin {<<i, 0>>, <<0, j>>, <<i, j>>}
  BY DEF Directions, Diagonals
<1>2. /\ Free(<<x + i, y + j>>) /\ Free(<<x + i, y>>) /\ Free(<<x, y + j>>)
      /\ Free(<<x + i + k, y + j + l>>)
      /\ k # 0 /\ l # 0 => Free(<<x + i + k, y + j>>) /\ Free(<<x + i, y + j + l>>)
  <2>1. x + i \in Int /\ y + j \in Int /\ i \in -1 .. 1 /\ j \in -1 .. 1
    OBVIOUS
  <2>2. Free(<<x + i, y + j>>) /\ Free(<<x + i, y>>) /\ Free(<<x, y + j>>)
    <3>1. MayStep(<<x, y>>, <<i, j>>) /\ i # 0 /\ j # 0
      OBVIOUS
    <3>2. MayStep(<<x, y>>, <<i, j>>) <=>
             /\ Free(<<x + i, y + j>>)
             /\ i # 0 /\ j # 0 => Free(<<x + i, y>>) /\ Free(<<x, y + j>>)
      BY <2>1, MayStepIs
    <3> QED
      BY <3>1, <3>2
  <2> DEFINE a == x + i
             b == y + j
  <2>3. MayStep(<<a, b>>, <<k, l>>) /\ a \in Int /\ b \in Int
    BY <2>1
  <2> HIDE DEF a, b
  <2>4. /\ Free(<<a + k, b + l>>)
        /\ k # 0 /\ l # 0 => Free(<<a + k, b>>) /\ Free(<<a, b + l>>)
    BY <2>3, MayStepIs
  <2> QED
    BY <2>2, <2>4 DEF a, b
<1>3. StepCost(<<i, j>>) = 1393 /\ StepCost(<<i, 0>>) = 985 /\ StepCost(<<0, j>>) = 985
  BY StepCosts
<1>4. StepCost(<<k, l>>) = IF k # 0 /\ l # 0 THEN 1393 ELSE 985
  BY StepCosts
<1>5. <<i, 0>> \in Moves /\ <<0, j>> \in Moves
  BY DEF Moves, Axes
<1>6. MayStep(<<x, y>>, <<i, 0>>) /\ MayStep(<<x, y>>, <<0, j>>)
  BY <1>2, StraightStepIs
<1>7. /\ Plus(<<x, y>>, <<i, 0>>) = <<x + i, y>> /\ Plus(<<x, y>>, <<0, j>>) = <<x, y + j>>
      /\ Plus(<<x + i, y>>, <<i, 0>>) = <<x + i + i, y>>
      /\ Plus(<<x, y + j>>, <<0, j>>) = <<x, y + j + j>>
  BY DEF Plus
<1>8. CASE k = -i /\ l = -j
  BY <1>8 DEF Shortcut
<1>9. CASE k = -i /\ l = 0
  <2>1. <<x + i + k, y + j + l>> = <<x, y + j>>
    BY <1>9
  <2>2. StepCost(<<0, j>>) < StepCost(<<i, j>>) + StepCost(<<k, l>>)
    BY <1>3, <1>4, <1>9
  <2> QED
    BY <1>5, <1>6, <1>7, <2>1, <2>2 DEF Shortcut
<1>10. CASE k = 0 /\ l = -j
  <2>1. <<x + i + k, y + j + l>> = <<x + i, y>>
    BY <1>10
  <2>2. StepCost(<<i, 0>>) < StepCost(<<i, j>>) + StepCost(<<k, l>>)
    BY <1>3, <1>4, <1>10
  <2> QED
    BY <1>5, <1>6, <1>7, <2>1, <2>2 DEF Shortcut
<1>11. CASE k = -i /\ l = j
  <2>1. <<x + i + k, y + j + l>> = <<x, y + j + j>> /\ k # 0 /\ l # 0
    BY <1>11
  <2>2. MayStep(<<x, y + j>>, <<0, j>>)
    <3>1. Free(<<x, y + j + j>>) /\ y + j \in Int
      BY <1>2, <2>1
    <3> QED
      BY <3>1, StraightStepIs
  <2>3. StepCost(<<0, j>>) + StepCost(<<0, j>>) < StepCost(<<i, j>>) + StepCost(<<k, l>>)
    BY <1>3, <1>4, <2>1
  <2> QED
    BY <1>5, <1>6, <1>7, <2>1, <2>2, <2>3 DEF Shortcut
<1>12. CASE k = i /\ l = -j
  <2>1. <<x + i + k, y + j + l>> = <<x + i + i, y>> /\ k # 0 /\ l # 0
    BY <1>12
  <2>2. MayStep(<<x + i, y>>, <<i, 0>>)
    <3>1. Free(<<x + i + i, y>>) /\ x + i \in Int
      BY <1>2, <2>1
    <3> QED
      BY <3>1, StraightStepIs
  <2>3. StepCost(<<i, 0>>) + StepCost(<<i, 0>>) < StepCost(<<i, j>>) + StepCost(<<k, l>>)
    BY <1>3, <1>4, <2>1
  <2> QED
    BY <1>5, <1>6, <1>7, <2>1, <2>2, <2>3 DEF Shortcut
<1> QED
  BY <1>1, <1>8, <1>9, <1>10, <1>11, <1>12

\* After a straight move along the x axis the tiles to a side are left out if the one behind
\* them is free: they are reached past that one then, at least as cheaply.
LEMMA StraightPruningX ==
    ASSUME NEW x \in Int, NEW y \in Int, NEW i \in {1, -1},
           NEW k \in -1 .. 1, NEW l \in -1 .. 1, k # 0 \/ l # 0,
           <<x, y>> \in Grid, MayStep(<<x, y>>, <<i, 0>>), MayStep(<<x + i, y>>, <<k, l>>),
           <<k, l>> \notin Directions(<<x + i, y>>, <<i, 0>>)
    PROVE  \/ Shortcut(<<x, y>>, <<x + i + k, y + l>>, StepCost(<<i, 0>>) + StepCost(<<k, l>>))
           \/ k # 0 /\ l # 0 /\ Detour(<<x, y>>, <<i, 0>>, <<x + i + k, y + l>>)
<1>1. /\ <<k, l>> # <<i, 0>>
      /\ l # 0 /\ k \in {0, i} => ~Blocked(<<x, y + l>>)
  <2>1. Directions(<<x + i, y>>, <<i, 0>>) =
          {<<i, 0>>} \cup UNION {{s, Plus(s, <<i, 0>>)} :
                     s \in {a \in Axes \ {<<i, 0>>, Minus(<<0, 0>>, <<i, 0>>)} :
                              Blocked(Plus(<<x + i, y>>, Minus(a, <<i, 0>>)))}}
    BY DEF Directions, Diagonals
  <2>2. ASSUME l # 0, k \in {0, i}, Blocked(<<x, y + l>>) PROVE FALSE
    <3>1. <<0, l>> \in Axes \ {<<i, 0>>, Minus(<<0, 0>>, <<i, 0>>)}
      BY <2>2 DEF Axes, Minus
    <3>2. Plus(<<x + i, y>>, Minus(<<0, l>>, <<i, 0>>)) = <<x, y + l>>
      BY DEF Plus, Minus
    <3>3. <<k, l>> \in {<<0, l>>, Plus(<<0, l>>, <<i, 0>>)}
      BY <2>2 DEF Plus
    <3> QED
      BY <2>1, <2>2, <3>1, <3>2, <3>3
  <2> QED
    BY <2>1, <2>2
<1>2. /\ Free(<<x + i, y>>) /\ Free(<<x + i + k, y + l>>)
      /\ k # 0 /\ l # 0 => Free(<<x + i + k, y>>) /\ Free(<<x + i, y + l>>)
  <2> DEFINE a == x + i
  <2>1. MayStep(<<a, y>>, <<k, l>>) /\ a \in Int
    OBVIOUS
  <2> HIDE DEF a
  <2>2. /\ Free(<<a + k, y + l>>)
        /\ k # 0 /\ l # 0 => Free(<<a + k, y>>) /\ Free(<<a, y + l>>)
    BY <2>1, MayStepIs
  <2> QED
    BY <2>2, StraightStepIs DEF a
<1>3. StepCost(<<i, 0>>) = 985 /\ StepCost(<<k, l>>) = IF k # 0 /\ l # 0 THEN 1393 ELSE 985
  BY StepCosts
<1>4. l # 0 => l \in {1, -1} /\ <<0, l>> \in Moves /\ <<i, l>> \in Moves /\ <<i, l>> \in Diagonals
  BY DEF Moves, Axes, Diagonals
<1>5. l # 0 => StepCost(<<0, l>>) = 985 /\ StepCost(<<i, l>>) = 1393
  BY StepCosts
<1>6. /\ Plus(<<x, y>>, <<0, l>>) = <<x, y + l>> /\ Plus(<<x, y>>, <<i, l>>) = <<x + i, y + l>>
      /\ Plus(<<x + i, y + l>>, <<i, 0>>) = <<x + i + i, y + l>>
  BY DEF Plus
\* The tile at the side of p is on the map, since p and the tile aimed at are.
<1>7. l # 0 /\ k \in {0, i} => Free(<<x, y + l>>)
  BY <1>1, <1>2, PathAssumption DEF Free, Grid
<1>8. l # 0 /\ Free(<<x, y + l>>) /\ Free(<<x + i, y + l>>) => MayStep(<<x, y>>, <<i, l>>)
  <2>1. i \in -1 .. 1
    OBVIOUS
  <2>2. MayStep(<<x, y>>, <<i, l>>) <=>
             /\ Free(<<x + i, y + l>>)
             /\ i # 0 /\ l # 0 => Free(<<x + i, y>>) /\ Free(<<x, y + l>>)
    BY <2>1, MayStepIs
  <2> QED
    BY <1>2, <2>2
<1>9. CASE l = 0
  <2>1. <<x + i + k, y + l>> = <<x, y>>
    BY <1>1, <1>9
  <2> QED
    BY <2>1 DEF Shortcut
<1>10. CASE l # 0 /\ k = 0
  <2>1. <<x + i + k, y + l>> = <<x + i, y + l>>
    BY <1>10
  <2>2. MayStep(<<x, y>>, <<i, l>>)
    BY <1>2, <1>7, <1>8, <1>10, <2>1
  <2>3. StepCost(<<i, l>>) < StepCost(<<i, 0>>) + StepCost(<<k, l>>)
    BY <1>3, <1>5, <1>10
  <2> QED
    BY <1>4, <1>6, <1>10, <2>1, <2>2, <2>3 DEF Shortcut
<1>11. CASE l # 0 /\ k = -i
  <2>1. <<x + i + k, y + l>> = <<x, y + l>> /\ k # 0
    BY <1>11
  <2>2. MayStep(<<x, y>>, <<0, l>>)
    BY <1>2, <1>4, <1>11, <2>1, StraightStepIs
  <2>3. StepCost(<<0, l>>) < StepCost(<<i, 0>>) + StepCost(<<k, l>>)
    BY <1>3, <1>5, <1>11, <2>1
  <2> QED
    BY <1>4, <1>6, <1>11, <2>1, <2>2, <2>3 DEF Shortcut
<1>12. CASE l # 0 /\ k = i
  <2>1. <<x + i + k, y + l>> = <<x + i + i, y + l>> /\ k # 0
    BY <1>12
  <2>2. MayStep(<<x, y>>, <<i, l>>)
    BY <1>2, <1>7, <1>8, <1>12, <2>1
  <2>3. MayStep(<<x + i, y + l>>, <<i, 0>>)
    <3>1. Free(<<(x + i) + i, y + l>>) /\ x + i \in Int /\ y + l \in Int
      BY <1>2, <2>1
    <3> QED
      BY <3>1, StraightStepIs
  <2>4. Detour(<<x, y>>, <<i, 0>>, <<x + i + k, y + l>>)
    BY <1>4, <1>6, <1>12, <2>1, <2>2, <2>3 DEF Detour
  <2> QED
    BY <1>12, <2>1, <2>4
<1> QED
  BY <1>9, <1>10, <1>11, <1>12

\* The same along the y axis.
LEMMA StraightPruningY ==
    ASSUME NEW x \in Int, NEW y \in Int, NEW i \in {1, -1},
           NEW k \in -1 .. 1, NEW l \in -1 .. 1, k # 0 \/ l # 0,
           <<x, y>> \in Grid, MayStep(<<x, y>>, <<0, i>>), MayStep(<<x, y + i>>, <<l, k>>),
           <<l, k>> \notin Directions(<<x, y + i>>, <<0, i>>)
    PROVE  \/ Shortcut(<<x, y>>, <<x + l, y + i + k>>, StepCost(<<0, i>>) + StepCost(<<l, k>>))
           \/ k # 0 /\ l # 0 /\ Detour(<<x, y>>, <<0, i>>, <<x + l, y + i + k>>)
<1>1. /\ <<l, k>> # <<0, i>>
      /\ l # 0 /\ k \in {0, i} => ~Blocked(<<x + l, y>>)
  <2>1. Directions(<<x, y + i>>, <<0, i>>) =
          {<<0, i>>} \cup UNION {{s, Plus(s, <<0, i>>)} :
                     s \in {a \in Axes \ {<<0, i>>, Minus(<<0, 0>>, <<0, i>>)} :
                              Blocked(Plus(<<x, y + i>>, Minus(a, <<0, i>>)))}}
    BY DEF Directions, Diagonals
  <2>2. ASSUME l # 0, k \in {0, i}, Blocked(<<x + l, y>>) PROVE FALSE
    <3>1. <<l, 0>> \in Axes \ {<<0, i>>, Minus(<<0, 0>>, <<0, i>>)}
      BY <2>2 DEF Axes, Minus
    <3>2. Plus(<<x, y + i>>, Minus(<<l, 0>>, <<0, i>>)) = <<x + l, y>>
      BY DEF Plus, Minus
    <3>3. <<l, k>> \in {<<l, 0>>, Plus(<<l, 0>>, <<0, i>>)}
      BY <2>2 DEF Plus
    <3> QED
      BY <2>1, <2>2, <3>1, <3>2, <3>3
  <2> QED
    BY <2>1, <2>2
<1>2. /\ Free(<<x, y + i>>) /\ Free(<<x + l, y + i + k>>)
      /\ k # 0 /\ l # 0 => Free(<<x, y + i + k>>) /\ Free(<<x + l, y + i>>)
  <2> DEFINE a == y + i
  <2>1. MayStep(<<x, a>>, <<l, k>>) /\ a \in Int
    OBVIOUS
  <2> HIDE DEF a
  <2>2. /\ Free(<<x + l, a + k>>)
        /\ k # 0 /\ l # 0 => Free(<<x, a + k>>) /\ Free(<<x + l, a>>)
    BY <2>1, MayStepIs
  <2> QED
    BY <2>2, StraightStepIs DEF a
<1>3. StepCost(<<0, i>>) = 985 /\ StepCost(<<l, k>>) = IF k # 0 /\ l # 0 THEN 1393 ELSE 985
  BY StepCosts
<1>4. l # 0 => l \in {1, -1} /\ <<l, 0>> \in Moves /\ <<l, i>> \in Moves /\ <<l, i>> \in Diagonals
  BY DEF Moves, Axes, Diagonals
<1>5. l # 0 => StepCost(<<l, 0>>) = 985 /\ StepCost(<<l, i>>) = 1393
  BY StepCosts
<1>6. /\ Plus(<<x, y>>, <<l, 0>>) = <<x + l, y>> /\ Plus(<<x, y>>, <<l, i>>) = <<x + l, y + i>>
      /\ Plus(<<x + l, y + i>>, <<0, i>>) = <<x + l, y + i + i>>
  BY DEF Plus
\* The tile at the side of p is on the map, since p and the tile aimed at are.
<1>7. l # 0 /\ k \in {0, i} => Free(<<x + l, y>>)
  BY <1>1, <1>2, PathAssumption DEF Free, Grid
<1>8. l # 0 /\ Free(<<x + l, y>>) /\ Free(<<x + l, y + i>>) => MayStep(<<x, y>>, <<l, i>>)
  <2>1. i \in -1 .. 1
    OBVIOUS
  <2>2. MayStep(<<x, y>>, <<l, i>>) <=>
             /\ Free(<<x + l, y + i>>)
             /\ i # 0 /\ l # 0 => Free(<<x, y + i>>) /\ Free(<<x + l, y>>)
    BY <2>1, MayStepIs
  <2> QED
    BY <1>2, <2>2
<1>9. CASE l = 0
  <2>1. <<x + l, y + i + k>> = <<x, y>>
    BY <1>1, <1>9
  <2> QED
    BY <2>1 DEF Shortcut
<1>10. CASE l # 0 /\ k = 0
  <2>1. <<x + l, y + i + k>> = <<x + l, y + i>>
    BY <1>10
  <2>2. MayStep(<<x, y>>, <<l, i>>)
    BY <1>2, <1>7, <1>8, <1>10, <2>1
  <2>3. StepCost(<<l, i>>) < StepCost(<<0, i>>) + StepCost(<<l, k>>)
    BY <1>3, <1>5, <1>10
  <2> QED
    BY <1>4, <1>6, <1>10, <2>1, <2>2, <2>3 DEF Shortcut
<1>11. CASE l # 0 /\ k = -i
  <2>1. <<x + l, y + i + k>> = <<x + l, y>> /\ k # 0
    BY <1>11
  <2>2. MayStep(<<x, y>>, <<l, 0>>)
    BY <1>2, <1>4, <1>11, <2>1, StraightStepIs
  <2>3. StepCost(<<l, 0>>) < StepCost(<<0, i>>) + StepCost(<<l, k>>)
    BY <1>3, <1>5, <1>11, <2>1
  <2> QED
    BY <1>4, <1>6, <1>11, <2>1, <2>2, <2>3 DEF Shortcut
<1>12. CASE l # 0 /\ k = i
  <2>1. <<x + l, y + i + k>> = <<x + l, y + i + i>> /\ k # 0
    BY <1>12
  <2>2. MayStep(<<x, y>>, <<l, i>>)
    BY <1>2, <1>7, <1>8, <1>12, <2>1
  <2>3. MayStep(<<x + l, y + i>>, <<0, i>>)
    <3>1. Free(<<x + l, (y + i) + i>>) /\ y + i \in Int /\ x + l \in Int
      BY <1>2, <2>1
    <3> QED
      BY <3>1, StraightStepIs
  <2>4. Detour(<<x, y>>, <<0, i>>, <<x + l, y + i + k>>)
    BY <1>4, <1>6, <1>12, <2>1, <2>2, <2>3 DEF Detour
  <2> QED
    BY <1>12, <2>1, <2>4
<1> QED
  BY <1>9, <1>10, <1>11, <1>12

\* What the pruning leaves out is reached by a shortcut past the tile the unit came from, or,
\* with a diagonal step ahead, by a detour of the same length.
LEMMA Pruning ==
    ASSUME NEW p \in Grid, NEW m \in Moves, NEW d \in Moves,
           MayStep(p, m), MayStep(Plus(p, m), d), d \notin Directions(Plus(p, m), m)
    PROVE  LET u == Plus(Plus(p, m), d)
           IN  \/ Shortcut(p, u, StepCost(m) + StepCost(d))
               \/ d \in Diagonals /\ m \in Axes /\ Detour(p, m, u)
<1>1. PICK x \in Int, y \in Int : p = <<x, y>>
  BY GridOfPoints DEF Points
<1>2. PICK i \in -1 .. 1, j \in -1 .. 1 : m = <<i, j>> /\ (i # 0 \/ j # 0)
  BY MovesAre
<1>3. PICK k \in -1 .. 1, l \in -1 .. 1 : d = <<k, l>> /\ (k # 0 \/ l # 0)
  BY MovesAre
<1>4. Plus(p, m) = <<x + i, y + j>> /\ Plus(Plus(p, m), d) = <<x + i + k, y + j + l>>
  BY <1>1, <1>2, <1>3 DEF Plus
<1>5. k # 0 /\ l # 0 => d \in Diagonals
  BY <1>3 DEF Diagonals
<1>6. CASE i # 0 /\ j # 0
  <2>1. i \in {1, -1} /\ j \in {1, -1}
    BY <1>6
  <2>2. Shortcut(<<x, y>>, <<x + i + k, y + j + l>>, StepCost(<<i, j>>) + StepCost(<<k, l>>))
    BY <1>1, <1>2, <1>3, <1>4, <2>1, DiagonalPruning
  <2> QED
    BY <1>1, <1>2, <1>3, <1>4, <2>2
<1>7. CASE i # 0 /\ j = 0
  <2>1. i \in {1, -1} /\ m = <<i, 0>> /\ m \in Axes
    BY <1>2, <1>7 DEF Axes
  <2>2. Plus(p, m) = <<x + i, y>> /\ Plus(Plus(p, m), d) = <<x + i + k, y + l>>
    BY <1>4, <1>7
  <2>3. \/ Shortcut(<<x, y>>, <<x + i + k, y + l>>, StepCost(<<i, 0>>) + StepCost(<<k, l>>))
        \/ k # 0 /\ l # 0 /\ Detour(<<x, y>>, <<i, 0>>, <<x + i + k, y + l>>)
    BY <1>1, <1>3, <2>1, <2>2, StraightPruningX
  <2> QED
    BY <1>1, <1>3, <1>5, <2>1, <2>2, <2>3
<1>8. CASE i = 0 /\ j # 0
  <2>1. j \in {1, -1} /\ m = <<0, j>> /\ m \in Axes
    BY <1>2, <1>8 DEF Axes
  <2>2. Plus(p, m) = <<x, y + j>> /\ Plus(Plus(p, m), d) = <<x + k, y + j + l>>
    BY <1>4, <1>8
  <2>3. \/ Shortcut(<<x, y>>, <<x + k, y + j + l>>, StepCost(<<0, j>>) + StepCost(<<k, l>>))
        \/ k # 0 /\ l # 0 /\ Detour(<<x, y>>, <<0, j>>, <<x + k, y + j + l>>)
    BY <1>1, <1>3, <2>1, <2>2, StraightPruningY
  <2> QED
    BY <1>1, <1>3, <1>5, <2>1, <2>2, <2>3
<1> QED
  BY <1>2, <1>6, <1>7, <1>8

(***************************************************************************)
(* The distances: no step leads beyond them, and each is that of another   *)
(* tile and a step.                                                        *)
(***************************************************************************)
IsDistances(D) ==
    /\ DOMAIN D \subseteq Grid /\ start \in DOMAIN D /\ D[start] = 0
    /\ \A t \in DOMAIN D : D[t] \in Nat /\ (t # start => Free(t))
    /\ \A t \in DOMAIN D, d \in Moves :
         MayStep(t, d) => /\ Plus(t, d) \in DOMAIN D
                          /\ D[Plus(t, d)] <= D[t] + StepCost(d)
    /\ \A u \in DOMAIN D \ {start} : \E t \in DOMAIN D, d \in Moves :
         MayStep(t, d) /\ u = Plus(t, d) /\ D[u] = D[t] + StepCost(d)

\* Distances are shorter than any way.
LEMMA ShortcutIsLonger ==
    ASSUME NEW D, IsDistances(D), NEW p \in DOMAIN D, NEW u \in DOMAIN D, NEW cost \in Nat \ {0},
           Shortcut(p, u, cost)
    PROVE  D[u] < D[p] + cost
<1>1. D[p] \in Nat /\ D[u] \in Nat /\ \A a : StepCost(a) \in Nat
  BY CostNatural DEF IsDistances
<1>2. CASE u = p
  BY <1>1, <1>2
<1>3. ASSUME NEW a \in Moves, MayStep(p, a), u = Plus(p, a), StepCost(a) < cost
      PROVE  D[u] < D[p] + cost
  <2>1. D[u] <= D[p] + StepCost(a) /\ StepCost(a) \in Nat
    BY <1>1, <1>3 DEF IsDistances
  <2> QED
    BY <1>1, <1>3, <2>1
<1>4. ASSUME NEW a \in Moves, NEW b \in Moves, MayStep(p, a), MayStep(Plus(p, a), b),
             u = Plus(Plus(p, a), b), StepCost(a) + StepCost(b) < cost
      PROVE  D[u] < D[p] + cost
  <2> DEFINE w == Plus(p, a)
  <2>1. w \in DOMAIN D /\ D[w] <= D[p] + StepCost(a)
    BY <1>4 DEF IsDistances
  <2>2. MayStep(w, b) /\ u = Plus(w, b)
    BY <1>4
  <2> HIDE DEF w
  <2>3. D[u] <= D[w] + StepCost(b) /\ D[w] \in Nat
    BY <2>1, <2>2 DEF IsDistances
  <2>4. StepCost(a) \in Nat /\ StepCost(b) \in Nat
    BY <1>1
  <2> QED
    BY <1>1, <1>4, <2>1, <2>3, <2>4
<1> QED
  BY <1>2, <1>3, <1>4 DEF Shortcut

(***************************************************************************)
(* What the search keeps besides: a tile costs at least a step more than   *)
(* the one it is reached from; a tile waits in the queue, with what a way  *)
(* over it costs at least, or its neighbors were looked at; tiles of the   *)
(* goal wait.  The queue is a parameter, since the entry of the goal is    *)
(* taken from it in the end.                                               *)
(***************************************************************************)
Waits(q, t) == \E e \in q : e.loc = t /\ e.priority <= costSoFar[t] + Heuristic(t)

QueueOK(q) ==
    \A e \in q :
      /\ e \in [loc : DOMAIN costSoFar, priority : Int]
      /\ IF e.loc = start THEN e.priority = 0
                          ELSE e.priority >= costSoFar[e.loc] + Heuristic(e.loc)

CostsAdd ==
    \A u \in DOMAIN cameFrom :
      costSoFar[Previous(u)] + StepCost(LastMove(u)) <= costSoFar[u]

LookedAround(t) ==
    \A d \in Directions(t, ArrivedBy(t)) :
      MayStep(t, d) => /\ Plus(t, d) \in DOMAIN costSoFar
                       /\ costSoFar[Plus(t, d)] <= costSoFar[t] + StepCost(d)

BestOK(q) ==
    /\ QueueOK(q) /\ CostsAdd
    /\ \A t \in DOMAIN costSoFar :
         Waits(q, t) \/ (t \notin plan.rect /\ LookedAround(t))

\* The search never finds a way that is too short.
LEMMA CostsAreWays ==
    ASSUME SearchOK, CostsAdd, NEW D, IsDistances(D)
    PROVE  \A t \in DOMAIN costSoFar : t \in DOMAIN D /\ D[t] <= costSoFar[t]
<1> DEFINE N == {n \in Nat : \A t \in DOMAIN costSoFar :
                   costSoFar[t] < n => t \in DOMAIN D /\ D[t] <= costSoFar[t]}
<1>1. 0 \in N
  BY DEF SearchOK
<1>2. ASSUME NEW n \in Nat, n \in N PROVE n + 1 \in N
  <2> SUFFICES ASSUME NEW u \in DOMAIN costSoFar, costSoFar[u] < n + 1
               PROVE  u \in DOMAIN D /\ D[u] <= costSoFar[u]
    OBVIOUS
  <2>1. CASE u = start
    BY <2>1 DEF SearchOK, IsDistances
  <2>2. CASE u # start
    <3> DEFINE p == Previous(u)
               m == LastMove(u)
    <3>1. u \in DOMAIN cameFrom /\ ReachedRightly(u)
      BY <2>2 DEF SearchOK
    <3>2. /\ p \in DOMAIN costSoFar /\ m \in Moves /\ Plus(p, m) = u /\ MayStep(p, m)
          /\ costSoFar[p] + StepCost(m) <= costSoFar[u]
      BY <3>1 DEF ReachedRightly, CostsAdd
    <3> HIDE DEF p, m
    <3>3. costSoFar[p] \in Nat /\ costSoFar[u] \in Nat /\ StepCost(m) \in Nat \ {0}
      BY <3>2, CostNatural DEF SearchOK
    <3>4. costSoFar[p] < n
      BY <3>2, <3>3
    <3>5. p \in DOMAIN D /\ D[p] <= costSoFar[p]
      BY <1>2, <3>2, <3>4
    <3>6. u \in DOMAIN D /\ D[u] <= D[p] + StepCost(m) /\ D[p] \in Nat /\ D[u] \in Nat
      BY <3>2, <3>5 DEF IsDistances
    <3> QED
      BY <3>2, <3>3, <3>5, <3>6
  <2> QED
    BY <2>1, <2>2
<1> HIDE DEF N
<1>3. Nat \subseteq N
  BY <1>1, <1>2, SetInduction
<1> SUFFICES ASSUME NEW t \in DOMAIN costSoFar PROVE t \in DOMAIN D /\ D[t] <= costSoFar[t]
  OBVIOUS
<1>4. costSoFar[t] \in Nat /\ costSoFar[t] + 1 \in N /\ costSoFar[t] < costSoFar[t] + 1
  BY <1>3 DEF SearchOK
<1> QED
  BY <1>4 DEF N

\* The search knows the distance of tile u, or a tile on the way there waits with what
\* the way to u costs at most.
Known(D, u) == u \in DOMAIN costSoFar /\ costSoFar[u] = D[u]

OnTheWay(q, D, u) ==
    \E v \in DOMAIN D : Known(D, v) /\ Waits(q, v) /\ D[v] + Heuristic(v) <= D[u] + Heuristic(u)

\* Tile t is the last but one on a shortest way to u.
Leads(D, t, d, u) ==
    /\ t \in DOMAIN D /\ d \in Moves /\ MayStep(t, d) /\ u = Plus(t, d)
    /\ u \in DOMAIN D /\ D[u] = D[t] + StepCost(d)

\* Along a shortest way the distance grows, and no estimate of the whole way shrinks.
LEMMA HeuristicOfDistances ==
    ASSUME plan \in Plans, NEW D, IsDistances(D), NEW t, NEW d, NEW u, Leads(D, t, d, u)
    PROVE  /\ D[t] \in Nat /\ D[u] \in Nat /\ D[t] < D[u]
           /\ Heuristic(t) \in Nat /\ Heuristic(u) \in Nat
           /\ D[t] + Heuristic(t) <= D[u] + Heuristic(u)
<1>1. t \in Points /\ u \in Points /\ d \in Moves /\ u = Plus(t, d) /\ D[u] = D[t] + StepCost(d)
  BY GridOfPoints DEF Leads, IsDistances
<1>2. Heuristic(t) \in Nat /\ Heuristic(u) \in Nat /\ Heuristic(t) <= StepCost(d) + Heuristic(u)
  BY <1>1, HeuristicIs
<1>3. D[t] \in Nat /\ D[u] \in Nat /\ StepCost(d) \in Nat \ {0}
  BY CostNatural DEF Leads, IsDistances
<1> QED
  BY <1>1, <1>2, <1>3

\* So what is on the way to a tile is on the way to the next one.
LEMMA Ahead ==
    ASSUME plan \in Plans, NEW D, IsDistances(D), NEW t, NEW d, NEW u, Leads(D, t, d, u),
           NEW q, OnTheWay(q, D, t)
    PROVE  OnTheWay(q, D, u)
<1>1. PICK v \in DOMAIN D : /\ Known(D, v) /\ Waits(q, v)
                           /\ D[v] + Heuristic(v) <= D[t] + Heuristic(t)
  BY DEF OnTheWay
<1>2. D[v] \in Nat /\ Heuristic(v) \in Nat
  BY GridOfPoints, HeuristicIs DEF IsDistances
<1>3. D[v] + Heuristic(v) <= D[u] + Heuristic(u)
  BY <1>1, <1>2, HeuristicOfDistances
<1> QED
  BY <1>1, <1>3 DEF OnTheWay

\* From a tile with known distance on: the next one is known or on the way, or it is reached
\* as well by a straight step from a tile after a diagonal one.
LEMMA NextTile ==
    ASSUME SearchOK, NEW q, BestOK(q), NEW D, IsDistances(D),
           NEW t, NEW d, NEW u, Leads(D, t, d, u), Known(D, t)
    PROVE  \/ Known(D, u) \/ OnTheWay(q, D, u)
           \/ d \in Diagonals /\ \E w, m : m \in Axes /\ Leads(D, w, m, u)
<1>1. /\ t \in DOMAIN costSoFar /\ costSoFar[t] = D[t] /\ t \in DOMAIN D /\ u \in DOMAIN D
      /\ d \in Moves /\ MayStep(t, d) /\ u = Plus(t, d) /\ D[u] = D[t] + StepCost(d)
  BY DEF Known, Leads
<1>2. \A x \in DOMAIN costSoFar : /\ x \in DOMAIN D /\ D[x] <= costSoFar[x]
                                 /\ D[x] \in Nat /\ costSoFar[x] \in Nat
  BY CostsAreWays DEF BestOK, SearchOK, IsDistances
<1>3. \A a : StepCost(a) \in Nat \ {0}
  BY CostNatural
<1>4. CASE Waits(q, t)
  <2>1. OnTheWay(q, D, t)
    <3>1. D[t] + Heuristic(t) <= D[t] + Heuristic(t)
      <4>1. D[t] \in Nat /\ Heuristic(t) \in Nat
        BY HeuristicOfDistances DEF SearchOK
      <4> QED
        BY <4>1
    <3> QED
      BY <1>1, <1>4, <3>1 DEF OnTheWay, Known
  <2> QED
    BY <2>1, Ahead DEF SearchOK
<1>5. CASE ~Waits(q, t) /\ d \in Directions(t, ArrivedBy(t))
  <2>1. u \in DOMAIN costSoFar /\ costSoFar[u] <= costSoFar[t] + StepCost(d)
    BY <1>1, <1>5 DEF BestOK, LookedAround
  <2>2. costSoFar[u] = D[u]
    BY <1>1, <1>2, <1>3, <2>1
  <2> QED
    BY <2>1, <2>2 DEF Known
<1>6. CASE d \notin Directions(t, ArrivedBy(t))
  <2> DEFINE p == Previous(t)
             m == LastMove(t)
  <2>1. t # start
    BY <1>1, <1>6 DEF SearchOK, ArrivedBy, Directions, Moves
  <2>2. t \in DOMAIN cameFrom /\ ReachedRightly(t)
    BY <1>1, <2>1 DEF SearchOK
  <2>3. /\ p \in DOMAIN costSoFar /\ m \in Moves /\ Plus(p, m) = t /\ MayStep(p, m)
        /\ costSoFar[p] + StepCost(m) <= costSoFar[t] /\ ArrivedBy(t) = m
    BY <2>2 DEF ReachedRightly, BestOK, CostsAdd, ArrivedBy, LastMove
  <2> HIDE DEF p, m
  <2>4. p \in DOMAIN D /\ D[t] <= D[p] + StepCost(m)
    BY <1>2, <2>3 DEF IsDistances
  <2>5. D[t] = D[p] + StepCost(m) /\ D[u] = D[p] + (StepCost(m) + StepCost(d))
    BY <1>1, <1>2, <1>3, <2>3, <2>4
  <2>6. p \in Grid /\ p \in Points /\ D[p] \in Nat
    BY <2>4, GridOfPoints DEF IsDistances
  <2>7. d \notin Directions(Plus(p, m), m) /\ MayStep(Plus(p, m), d) /\ u = Plus(Plus(p, m), d)
    BY <1>1, <1>6, <2>3
  <2>8. ~Shortcut(p, u, StepCost(m) + StepCost(d))
    <3> SUFFICES ASSUME Shortcut(p, u, StepCost(m) + StepCost(d)) PROVE FALSE
      OBVIOUS
    <3>1. StepCost(m) + StepCost(d) \in Nat \ {0} /\ D[u] \in Nat
      BY <1>1, <1>3 DEF IsDistances
    <3>2. D[u] < D[p] + (StepCost(m) + StepCost(d))
      BY <1>1, <2>4, <3>1, ShortcutIsLonger
    <3> QED
      BY <2>5, <3>1, <3>2
  <2>9. d \in Diagonals /\ m \in Axes /\ Detour(p, m, u)
    BY <1>1, <2>3, <2>6, <2>7, <2>8, Pruning
  <2>10. PICK a \in Diagonals : /\ MayStep(p, a) /\ MayStep(Plus(p, a), m)
                                /\ u = Plus(Plus(p, a), m)
    BY <2>9 DEF Detour
  <2> DEFINE w == Plus(p, a)
  <2>11. MayStep(w, m) /\ u = Plus(w, m)
    BY <2>10
  <2>12. w \in DOMAIN D /\ D[w] <= D[p] + StepCost(a)
    BY <2>4, <2>10 DEF IsDistances, Moves
  <2> HIDE DEF w
  <2>13. D[u] <= D[w] + StepCost(m) /\ D[w] \in Nat /\ m \in Moves
    BY <2>3, <2>11, <2>12 DEF IsDistances
  <2>14. StepCost(a) = StepCost(d)
    BY <2>9, <2>10 DEF StepCost
  <2>15. D[u] = D[w] + StepCost(m)
    BY <1>3, <2>5, <2>6, <2>12, <2>13, <2>14
  <2>16. Leads(D, w, m, u)
    BY <1>1, <2>11, <2>12, <2>13, <2>15 DEF Leads
  <2> QED
    BY <2>9, <2>16
<1> QED
  BY <1>4, <1>5, <1>6

\* The pruning loses no distance.
LEMMA NothingLost ==
    ASSUME SearchOK, NEW q, BestOK(q), NEW D, IsDistances(D)
    PROVE  \A u \in DOMAIN D : Known(D, u) \/ OnTheWay(q, D, u)
<1> DEFINE N == {n \in Nat : \A u \in DOMAIN D :
                   D[u] < n => Known(D, u) \/ OnTheWay(q, D, u)}
<1>1. 0 \in N
  BY DEF IsDistances
<1>2. ASSUME NEW n \in Nat, n \in N PROVE n + 1 \in N
  <2> SUFFICES ASSUME NEW u \in DOMAIN D, D[u] < n + 1
               PROVE  Known(D, u) \/ OnTheWay(q, D, u)
    OBVIOUS
  <2>1. CASE u = start
    BY <2>1 DEF SearchOK, IsDistances, Known
  <2>2. CASE u # start
    <3>1. ASSUME NEW t, NEW d, Leads(D, t, d, u)
          PROVE  Known(D, t) \/ OnTheWay(q, D, u)
      <4>1. D[t] \in Nat /\ D[u] \in Nat /\ D[t] < D[u]
        BY <3>1, HeuristicOfDistances DEF SearchOK
      <4>2. D[t] < n /\ t \in DOMAIN D
        BY <3>1, <4>1 DEF Leads
      <4>3. Known(D, t) \/ OnTheWay(q, D, t)
        BY <1>2, <4>2
      <4> QED
        BY <3>1, <4>3, Ahead DEF SearchOK
    <3>2. PICK t, d : Leads(D, t, d, u)
      BY <2>2 DEF IsDistances, Leads
    <3>3. \/ Known(D, u) \/ OnTheWay(q, D, u)
          \/ \E w, m : m \in Axes /\ Leads(D, w, m, u)
      BY <3>1, <3>2, NextTile
    <3>4. ASSUME NEW w, NEW m, m \in Axes, Leads(D, w, m, u)
          PROVE  Known(D, u) \/ OnTheWay(q, D, u)
      <4>1. m \notin Diagonals
        BY <3>4 DEF Axes, Diagonals
      <4> QED
        BY <3>1, <3>4, <4>1, NextTile
    <3> QED
      BY <3>3, <3>4
  <2> QED
    BY <2>1, <2>2
<1> HIDE DEF N
<1>3. Nat \subseteq N
  BY <1>1, <1>2, SetInduction
<1> SUFFICES ASSUME NEW u \in DOMAIN D PROVE Known(D, u) \/ OnTheWay(q, D, u)
  OBVIOUS
<1>4. D[u] \in Nat /\ D[u] + 1 \in N /\ D[u] < D[u] + 1
  BY <1>3 DEF IsDistances
<1> QED
  BY <1>4 DEF N

\* What visiting the neighbors leaves as it was, and that costs only fall.
LEMMA ExpandBounds ==
    ASSUME SearchOK, SearchOK', NEW e \in priorityQueue, NEW tiles, ExpandsTo(e, tiles)
    PROVE  /\ e.loc \in DOMAIN costSoFar \ tiles /\ start \notin tiles
           /\ \A u \in DOMAIN costSoFar : /\ u \in DOMAIN costSoFar'
                                          /\ costSoFar'[u] <= costSoFar[u]
                                          /\ costSoFar'[u] \in Nat /\ costSoFar[u] \in Nat
           /\ \A x, d : MayStep(x, d)' = MayStep(x, d) /\ Directions(x, d)' = Directions(x, d)
           /\ \A x : Heuristic(x)' = Heuristic(x)
           /\ start' = start
           /\ \A u \in DOMAIN costSoFar \ tiles : ArrivedBy(u)' = ArrivedBy(u)
<1>1. e.loc \notin tiles /\ start \notin tiles
  BY DEF ExpandsTo, ReachedFrom
<1>2. ASSUME NEW u \in DOMAIN costSoFar
      PROVE  /\ u \in DOMAIN costSoFar' /\ costSoFar'[u] <= costSoFar[u]
             /\ costSoFar'[u] \in Nat /\ costSoFar[u] \in Nat
  <2>1. costSoFar[u] \in Nat /\ u \in DOMAIN costSoFar' /\ costSoFar'[u] \in Nat
    BY DEF SearchOK, ExpandsTo
  <2>2. u \in tiles => costSoFar'[u] < costSoFar[u]
    BY DEF ExpandsTo, ReachedFrom
  <2>3. u \notin tiles => costSoFar'[u] = costSoFar[u]
    BY DEF ExpandsTo
  <2> QED
    BY <2>1, <2>2, <2>3
<1>3. plan' = plan
  BY DEF ExpandsTo
<1>4. /\ \A x : Blocked(x)' = Blocked(x) /\ Heuristic(x)' = Heuristic(x)
      /\ start' = start
  BY <1>3 DEF Blocked, Heuristic, start
<1>5. \A x, d : MayStep(x, d)' = MayStep(x, d) /\ Directions(x, d)' = Directions(x, d)
  BY <1>4 DEF MayStep, Free, Directions
<1>6. ASSUME NEW u \in DOMAIN costSoFar \ tiles PROVE ArrivedBy(u)' = ArrivedBy(u)
  BY DEF ArrivedBy, ExpandsTo
<1>7. e.loc \in DOMAIN costSoFar
  BY DEF SearchOK
<1> QED
  BY <1>1, <1>2, <1>4, <1>5, <1>6, <1>7


\* Tiles keep waiting, or their neighbors were looked at.
LEMMA ExpandKeepsBest ==
    ASSUME SearchOK, SearchOK', BestOK(priorityQueue), Expand
    PROVE  BestOK(priorityQueue)'
<1>1. PICK e, tiles : e \in priorityQueue /\ ExpandsTo(e, tiles)
  BY ExpandIs
<1> DEFINE t == e.loc
<1>2. /\ t \in DOMAIN costSoFar \ tiles /\ start \notin tiles
      /\ \A u \in DOMAIN costSoFar : /\ u \in DOMAIN costSoFar'
                                     /\ costSoFar'[u] <= costSoFar[u]
                                     /\ costSoFar'[u] \in Nat /\ costSoFar[u] \in Nat
      /\ \A x, d : MayStep(x, d)' = MayStep(x, d) /\ Directions(x, d)' = Directions(x, d)
      /\ \A x : Heuristic(x)' = Heuristic(x)
      /\ start' = start
      /\ \A u \in DOMAIN costSoFar \ tiles : ArrivedBy(u)' = ArrivedBy(u)
  BY <1>1, ExpandBounds
<1>3. \A u \in tiles : \E d : ReachedFrom(t, u, d)
  BY <1>1 DEF ExpandsTo
<1>4. /\ DOMAIN costSoFar' = tiles \cup DOMAIN costSoFar
      /\ \A u \in DOMAIN costSoFar \ tiles : costSoFar'[u] = costSoFar[u]
      /\ DOMAIN cameFrom' = tiles \cup DOMAIN cameFrom
      /\ \A u \in DOMAIN cameFrom \ tiles : cameFrom'[u] = cameFrom[u]
      /\ plan' = plan /\ t \notin plan.rect
  BY <1>1 DEF ExpandsTo
<1>5. priorityQueue' = (priorityQueue \ {e}) \cup
        {[loc |-> u, priority |-> costSoFar'[u] + Heuristic(u)] : u \in tiles}
  BY <1>1 DEF ExpandsTo
<1>6. \A u \in DOMAIN costSoFar' : Heuristic(u) \in Nat /\ costSoFar'[u] \in Nat
  <2>1. \A u \in DOMAIN costSoFar' : u \in Grid /\ costSoFar'[u] \in Nat
    BY DEF SearchOK
  <2>2. \A u \in Grid : Heuristic(u) \in Nat
    BY HeuristicIs, GridOfPoints DEF SearchOK
  <2> QED
    BY <2>1, <2>2
<1> HIDE DEF t
<1>7. QueueOK(priorityQueue)'
  <2> SUFFICES ASSUME NEW f \in priorityQueue'
               PROVE  /\ f \in [loc : DOMAIN costSoFar', priority : Int]
                      /\ IF f.loc = start THEN f.priority = 0
                         ELSE f.priority >= costSoFar'[f.loc] + Heuristic(f.loc)
    BY <1>2 DEF QueueOK
  <2>1. CASE f \in priorityQueue
    <3>1. /\ f \in [loc : DOMAIN costSoFar, priority : Int]
          /\ IF f.loc = start THEN f.priority = 0
             ELSE f.priority >= costSoFar[f.loc] + Heuristic(f.loc)
      BY <2>1 DEF BestOK, QueueOK
    <3>2. f.loc \in DOMAIN costSoFar /\ f.priority \in Int
      BY <3>1
    <3>3. /\ costSoFar'[f.loc] <= costSoFar[f.loc] /\ f.loc \in DOMAIN costSoFar'
          /\ costSoFar'[f.loc] \in Nat /\ costSoFar[f.loc] \in Nat
      BY <1>2, <3>2
    <3>4. Heuristic(f.loc) \in Nat
      BY <1>6, <3>3
    <3>5. f \in [loc : DOMAIN costSoFar', priority : Int]
      BY <1>4, <3>1
    <3> QED
      BY <3>1, <3>2, <3>3, <3>4, <3>5
  <2>2. CASE f \notin priorityQueue
    <3>1. PICK u \in tiles : f = [loc |-> u, priority |-> costSoFar'[u] + Heuristic(u)]
      BY <1>5, <2>2
    <3>2. u # start /\ u \in DOMAIN costSoFar' /\ costSoFar'[u] \in Nat /\ Heuristic(u) \in Nat
      BY <1>2, <1>4, <1>6
    <3>3. costSoFar'[u] + Heuristic(u) \in Int /\ costSoFar'[u] + Heuristic(u) >= costSoFar'[u] + Heuristic(u)
      BY <3>2
    <3>4. f.loc = u /\ f.priority = costSoFar'[u] + Heuristic(u)
      BY <3>1
    <3>5. f \in [loc : DOMAIN costSoFar', priority : Int]
      BY <3>1, <3>2, <3>3
    <3> QED
      BY <3>2, <3>3, <3>4, <3>5
  <2> QED
    BY <2>1, <2>2
<1>8. CostsAdd'
  <2> SUFFICES ASSUME NEW u \in DOMAIN cameFrom'
               PROVE  costSoFar'[Previous(u)'] + StepCost(LastMove(u)') <= costSoFar'[u]
    BY DEF CostsAdd
  <2>1. CASE u \in tiles
    <3>1. PICK d : ReachedFrom(t, u, d)
      BY <1>3, <2>1
    <3>2. /\ Previous(u)' = t /\ LastMove(u)' = d /\ costSoFar'[u] = costSoFar[t] + StepCost(d)
          /\ costSoFar'[u] \in Nat
      BY <3>1 DEF ReachedFrom
    <3>3. costSoFar'[t] = costSoFar[t]
      BY <1>2, <1>4
    <3> QED
      BY <3>2, <3>3
  <2>2. CASE u \notin tiles
    <3>1. u \in DOMAIN cameFrom /\ cameFrom'[u] = cameFrom[u]
      BY <1>4, <2>2
    <3>2. Previous(u)' = Previous(u) /\ LastMove(u)' = LastMove(u)
      BY <3>1 DEF Previous, LastMove
    <3>3. /\ costSoFar[Previous(u)] + StepCost(LastMove(u)) <= costSoFar[u]
          /\ Previous(u) \in DOMAIN costSoFar /\ u \in DOMAIN costSoFar
      BY <3>1 DEF BestOK, CostsAdd, SearchOK, ReachedRightly
    <3>4. costSoFar'[u] = costSoFar[u]
      BY <1>4, <2>2, <3>3
    <3>5. /\ costSoFar'[Previous(u)] <= costSoFar[Previous(u)]
          /\ costSoFar'[Previous(u)] \in Nat /\ costSoFar[Previous(u)] \in Nat
          /\ costSoFar[u] \in Nat /\ StepCost(LastMove(u)) \in Nat
      BY <1>2, <3>3, CostNatural
    <3> QED
      BY <3>2, <3>3, <3>4, <3>5
  <2> QED
    BY <2>1, <2>2
<1>9. ASSUME NEW x \in DOMAIN costSoFar'
      PROVE  Waits(priorityQueue, x)' \/ (x \notin plan.rect /\ LookedAround(x)')
  <2>1. CASE x \in tiles
    <3> DEFINE f == [loc |-> x, priority |-> costSoFar'[x] + Heuristic(x)]
    <3>1. f \in priorityQueue' /\ f.loc = x /\ f.priority = costSoFar'[x] + Heuristic(x)
      BY <1>5, <2>1
    <3>2. costSoFar'[x] + Heuristic(x) \in Int
      BY <1>6
    <3>3. f.priority <= costSoFar'[x] + Heuristic(x)'
      BY <1>2, <3>1, <3>2
    <3> HIDE DEF f
    <3>4. Waits(priorityQueue, x)'
      BY <3>1, <3>3 DEF Waits
    <3> QED
      BY <3>4
  <2>2. CASE x = t
    <3>1. ASSUME NEW d \in Directions(t, ArrivedBy(t)), MayStep(t, d)
          PROVE  /\ Plus(t, d) \in DOMAIN costSoFar'
                 /\ costSoFar'[Plus(t, d)] <= costSoFar[t] + StepCost(d)
      <4>1. costSoFar[t] \in Nat /\ StepCost(d) \in Nat
        BY <1>2, CostNatural
      <4>2. CASE d \in Improving(t)
        <5>1. Plus(t, d) \in tiles
          BY <1>1, <4>2 DEF ExpandsTo, t
        <5>2. PICK b : ReachedFrom(t, Plus(t, d), b)
          BY <1>3, <5>1
        <5>3. Plus(t, b) = Plus(t, d) /\ b \in Moves /\ d \in Moves /\ t \in Points
          BY <1>2, <4>2, <5>2, ImprovingIs, GridOfPoints DEF ReachedFrom, SearchOK
        <5>4. b = d
          BY <5>3, PointSums, MovesOfPoints
        <5>5. costSoFar'[Plus(t, d)] = costSoFar[t] + StepCost(d)
          BY <5>2, <5>4 DEF ReachedFrom
        <5> QED
          BY <1>4, <4>1, <5>1, <5>5
      <4>3. CASE d \notin Improving(t)
        <5>1. /\ Plus(t, d) \in DOMAIN costSoFar
              /\ ~(costSoFar[t] + StepCost(d) < costSoFar[Plus(t, d)])
          BY <3>1, <4>3 DEF Improving
        <5>2. /\ Plus(t, d) \in DOMAIN costSoFar'
              /\ costSoFar'[Plus(t, d)] <= costSoFar[Plus(t, d)]
              /\ costSoFar'[Plus(t, d)] \in Nat /\ costSoFar[Plus(t, d)] \in Nat
          BY <1>2, <5>1
        <5> QED
          BY <4>1, <5>1, <5>2
      <4> QED
        BY <4>2, <4>3
    <3>2. costSoFar'[t] = costSoFar[t] /\ ArrivedBy(t)' = ArrivedBy(t)
      BY <1>2, <1>4
    <3>3. ASSUME NEW d \in Directions(t, ArrivedBy(t)'), MayStep(t, d)
          PROVE  /\ Plus(t, d) \in DOMAIN costSoFar'
                 /\ costSoFar'[Plus(t, d)] <= costSoFar'[t] + StepCost(d)
      BY <3>1, <3>2, <3>3
    <3> QED
      BY <1>2, <1>4, <2>2, <3>3 DEF LookedAround
  <2>3. CASE x \notin tiles /\ x # t
    <3>1. x \in DOMAIN costSoFar /\ costSoFar'[x] = costSoFar[x] /\ ArrivedBy(x)' = ArrivedBy(x)
      BY <1>2, <1>4, <2>3
    <3>2. CASE Waits(priorityQueue, x)
      <4>1. PICK f \in priorityQueue : f.loc = x /\ f.priority <= costSoFar[x] + Heuristic(x)
        BY <3>2 DEF Waits
      <4>2. f \in priorityQueue'
        BY <1>5, <2>3, <4>1 DEF t
      <4>3. f.priority <= costSoFar'[x] + Heuristic(x)'
        BY <1>2, <3>1, <4>1
      <4>4. Waits(priorityQueue, x)'
        BY <4>1, <4>2, <4>3 DEF Waits
      <4> QED
        BY <4>4
    <3>3. CASE x \notin plan.rect /\ LookedAround(x)
      <4>1. ASSUME NEW d \in Directions(x, ArrivedBy(x)), MayStep(x, d)
            PROVE  /\ Plus(x, d) \in DOMAIN costSoFar'
                   /\ costSoFar'[Plus(x, d)] <= costSoFar[x] + StepCost(d)
        <5>1. /\ Plus(x, d) \in DOMAIN costSoFar
              /\ costSoFar[Plus(x, d)] <= costSoFar[x] + StepCost(d)
          BY <3>3, <4>1 DEF LookedAround
        <5>2. /\ Plus(x, d) \in DOMAIN costSoFar'
              /\ costSoFar'[Plus(x, d)] <= costSoFar[Plus(x, d)]
              /\ costSoFar'[Plus(x, d)] \in Nat /\ costSoFar[Plus(x, d)] \in Nat
          BY <1>2, <5>1
        <5>3. costSoFar[x] \in Nat /\ StepCost(d) \in Nat
          BY <1>2, <3>1, CostNatural
        <5> QED
          BY <5>1, <5>2, <5>3
      <4>2. LookedAround(x)'
        BY <1>2, <3>1, <4>1 DEF LookedAround
      <4> QED
        BY <3>3, <4>2
    <3>4. Waits(priorityQueue, x) \/ (x \notin plan.rect /\ LookedAround(x))
      BY <3>1 DEF BestOK
    <3> QED
      BY <3>2, <3>3, <3>4
  <2> QED
    BY <2>1, <2>2, <2>3
<1> QED
  BY <1>4, <1>7, <1>8, <1>9 DEF BestOK


\* The tile to fall back to is the closest to the goal of all that were reached.
ClosestOK ==
    \A t \in DOMAIN cameFrom : closest # none /\ Heuristic(closest) <= Heuristic(t)

\* The tiles that are closest to the goal of those just reached.
LEMMA ClosestIs ==
    ASSUME plan \in Plans, closest \in Grid \cup {none}, NEW tiles, tiles \subseteq Grid
    PROVE  /\ \A t \in Closest(tiles) :
                /\ t \in tiles /\ \A u \in tiles : Heuristic(t) <= Heuristic(u)
                /\ closest = none \/ Heuristic(t) < Heuristic(closest)
           /\ (tiles # {} /\ Closest(tiles) = {}) =>
                /\ closest # none
                /\ \A u \in tiles : ~(Heuristic(u) < Heuristic(closest))
<1>1. \A u \in tiles : Heuristic(u) \in Nat
  BY HeuristicIs, GridOfPoints
<1> DEFINE S == {Heuristic(u) : u \in tiles}
<1>2. ASSUME tiles # {}, Closest(tiles) = {}
      PROVE  /\ closest # none
             /\ \A u \in tiles : ~(Heuristic(u) < Heuristic(closest))
  <2>1. S \in SUBSET Nat /\ S # {}
    BY <1>1, <1>2
  <2>2. PICK n \in S : \A m \in S : n <= m
    <3> HIDE DEF S
    <3> QED
      BY <2>1, SetMinimum
  <2>3. PICK b \in tiles : n = Heuristic(b)
    OBVIOUS
  <2>4. \A u \in tiles : Heuristic(b) <= Heuristic(u)
    BY <2>2, <2>3
  <2>5. ~(closest = none \/ Heuristic(b) < Heuristic(closest))
    BY <1>2, <2>3, <2>4 DEF Closest
  <2>6. ASSUME NEW u \in tiles, Heuristic(u) < Heuristic(closest) PROVE FALSE
    <3>1. Heuristic(b) <= Heuristic(u) /\ Heuristic(b) \in Nat /\ Heuristic(u) \in Nat
      BY <1>1, <2>4
    <3>2. Heuristic(closest) \in Nat
      BY HeuristicIs, GridOfPoints
    <3> QED
      BY <2>5, <2>6, <3>1, <3>2
  <2> QED
    BY <2>5, <2>6
<1> QED
  BY <1>2 DEF Closest

\* It is so after the neighbors of a tile were visited.
LEMMA ExpandKeepsClosest ==
    ASSUME SearchOK, SearchOK', ClosestOK, Expand
    PROVE  ClosestOK'
<1>1. PICK e, tiles : e \in priorityQueue /\ ExpandsTo(e, tiles)
  BY ExpandIs
<1>2. /\ DOMAIN cameFrom' = tiles \cup DOMAIN cameFrom
      /\ closest' \in IF Closest(tiles) = {} THEN {closest} ELSE Closest(tiles)
      /\ plan' = plan
      /\ tiles \subseteq Grid
  BY <1>1 DEF ExpandsTo, ReachedFrom
<1>3. \A x : Heuristic(x)' = Heuristic(x)
  BY <1>2 DEF Heuristic
<1>4. plan \in Plans /\ closest \in Grid \cup {none} /\ DOMAIN cameFrom \subseteq Grid
  BY DEF SearchOK
<1>5. \A x \in Grid : Heuristic(x) \in Nat
  BY <1>4, HeuristicIs, GridOfPoints
<1>6. /\ \A t \in Closest(tiles) :
           /\ t \in tiles /\ \A u \in tiles : Heuristic(t) <= Heuristic(u)
           /\ closest = none \/ Heuristic(t) < Heuristic(closest)
      /\ (tiles # {} /\ Closest(tiles) = {}) =>
           /\ closest # none
           /\ \A u \in tiles : ~(Heuristic(u) < Heuristic(closest))
  BY <1>2, <1>4, ClosestIs
<1>7. ASSUME NEW x \in DOMAIN cameFrom'
      PROVE  closest' # none /\ Heuristic(closest') <= Heuristic(x)
  <2>1. x \in tiles \/ (x \in DOMAIN cameFrom /\ closest # none /\ Heuristic(closest) <= Heuristic(x))
    BY <1>2 DEF ClosestOK
  <2>2. x \in Grid /\ Heuristic(x) \in Nat
    BY <1>2, <1>4, <1>5
  <2>3. CASE Closest(tiles) = {}
    <3>1. closest' = closest
      BY <1>2, <2>3
    <3>2. closest # none
      BY <1>6, <2>1, <2>3
    <3>3. Heuristic(closest) \in Nat
      BY <1>4, <1>5, <3>2
    <3>4. x \in tiles => ~(Heuristic(x) < Heuristic(closest))
      BY <1>6, <2>3
    <3> QED
      BY <2>1, <2>2, <3>1, <3>2, <3>3, <3>4
  <2>4. CASE Closest(tiles) # {}
    <3>1. /\ closest' \in tiles /\ \A u \in tiles : Heuristic(closest') <= Heuristic(u)
          /\ closest = none \/ Heuristic(closest') < Heuristic(closest)
      BY <1>2, <1>6, <2>4
    <3>2. closest' # none /\ Heuristic(closest') \in Nat
      BY <1>2, <1>5, <3>1, GridOfPoints
    <3>3. CASE x \in tiles
      BY <3>1, <3>2, <3>3
    <3>4. CASE closest # none /\ Heuristic(closest) <= Heuristic(x)
      <4>1. Heuristic(closest) \in Nat
        BY <1>4, <1>5, <3>4
      <4> QED
        BY <2>2, <3>1, <3>2, <3>4, <4>1
    <3> QED
      BY <2>1, <3>3, <3>4
  <2> QED
    BY <2>3, <2>4
<1>8. Heuristic(closest)' = Heuristic(closest')
  BY <1>2 DEF Heuristic
<1> QED
  BY <1>3, <1>7, <1>8 DEF ClosestOK

(***************************************************************************)
(* The same after the search: the entry of the goal was the first of the   *)
(* queue, or none was left.                                                *)
(***************************************************************************)
GoalWasNext ==
    \E e : /\ e.loc = reached /\ reached \in plan.rect
           /\ BestOK(priorityQueue \cup {e})
           /\ \A f \in priorityQueue : e.priority <= f.priority

BestKept ==
    /\ ClosestOK
    /\ phase = "search" => BestOK(priorityQueue)
    /\ phase # "search" =>
         IF reached # none THEN GoalWasNext
         ELSE /\ BestOK({})
              /\ closest # none => targetTile = closest

\* The search starts with the tile of the unit waiting.
LEMMA BestInit ==
    ASSUME PlanInit, SearchOK
    PROVE  BestKept
<1>1. /\ priorityQueue = {[loc |-> start, priority |-> 0]} /\ phase = "search"
      /\ costSoFar = [t \in {start} |-> 0] /\ cameFrom = <<>>
  BY DEF PlanInit
<1>2. DOMAIN cameFrom = {} /\ DOMAIN costSoFar = {start} /\ costSoFar[start] = 0
  BY <1>1
<1>3. Heuristic(start) \in Nat
  BY PlanFacts, GridOfPoints, HeuristicIs DEF SearchOK
<1>4. PICK e : e = [loc |-> start, priority |-> 0]
  OBVIOUS
<1>5. /\ e \in priorityQueue /\ e.loc = start /\ e.priority = 0
      /\ e \in [loc : DOMAIN costSoFar, priority : Int] /\ priorityQueue = {e}
  BY <1>1, <1>2, <1>4
<1>6. QueueOK(priorityQueue)
  BY <1>5 DEF QueueOK
<1>7. Waits(priorityQueue, start)
  <2>1. 0 <= 0 + Heuristic(start)
    BY <1>3
  <2> QED
    BY <1>2, <1>5, <2>1 DEF Waits
<1>8. CostsAdd /\ ClosestOK
  BY <1>2 DEF CostsAdd, ClosestOK
<1> QED
  BY <1>1, <1>2, <1>6, <1>7, <1>8 DEF BestKept, BestOK

\* With the costs and the ways back, all this stays.
LEMMA BestStays ==
    ASSUME plan' = plan, costSoFar' = costSoFar, cameFrom' = cameFrom
    PROVE  /\ CostsAdd' = CostsAdd
           /\ \A x : LookedAround(x)' = LookedAround(x) /\ Heuristic(x)' = Heuristic(x)
           /\ start' = start
<1>1. \A x : Blocked(x)' = Blocked(x) /\ Heuristic(x)' = Heuristic(x)
  BY DEF Blocked, Heuristic
<1>2. start' = start
  BY DEF start
<1>3. \A x, d : MayStep(x, d)' = MayStep(x, d) /\ Directions(x, d)' = Directions(x, d)
  BY <1>1 DEF MayStep, Free, Directions
<1>4. \A x : /\ ArrivedBy(x)' = ArrivedBy(x) /\ Previous(x)' = Previous(x)
             /\ LastMove(x)' = LastMove(x)
  BY DEF ArrivedBy, Previous, LastMove
<1>5. \A x : LookedAround(x)' = LookedAround(x)
  BY <1>3, <1>4 DEF LookedAround
<1>6. CostsAdd' = CostsAdd
  BY <1>4 DEF CostsAdd
<1> QED
  BY <1>1, <1>2, <1>5, <1>6

\* Every step keeps what was said of the queue and of the tile to fall back to.
LEMMA BestNext == PlanInv /\ BestKept /\ [PlanNext]_planVars => BestKept'
<1> SUFFICES ASSUME PlanInv, BestKept, [PlanNext]_planVars PROVE BestKept'
  OBVIOUS
<1>1. PlanInv' /\ SearchOK /\ SearchOK' /\ PathOK
  BY PlanInvNext DEF PlanInv
<1>2. CASE Expand
  <2>1. phase = "search" /\ phase' = "search"
    BY <1>2 DEF Expand
  <2>2. BestOK(priorityQueue)' /\ ClosestOK'
    BY <1>1, <1>2, <2>1, ExpandKeepsBest, ExpandKeepsClosest DEF BestKept
  <2> QED
    BY <2>1, <2>2 DEF BestKept
<1>3. ASSUME plan' = plan, costSoFar' = costSoFar, cameFrom' = cameFrom, closest' = closest
      PROVE  ClosestOK'
  <2>1. \A x : Heuristic(x)' = Heuristic(x)
    BY <1>3 DEF Heuristic
  <2>2. Heuristic(closest)' = Heuristic(closest)
    BY <1>3 DEF Heuristic
  <2> QED
    BY <1>3, <2>1, <2>2 DEF BestKept, ClosestOK
<1>4. CASE ReachGoal
  <2>1. PICK e \in priorityQueue :
          /\ IsNext(e) /\ e.loc \in plan.rect /\ priorityQueue' = priorityQueue \ {e}
          /\ reached' = e.loc
    BY <1>4 DEF ReachGoal
  <2>2. /\ plan' = plan /\ costSoFar' = costSoFar /\ cameFrom' = cameFrom /\ closest' = closest
        /\ phase = "search" /\ phase' = "smooth"
    BY <1>4 DEF ReachGoal, StartSmoothing
  <2>3. reached' # none
    BY <1>1, <2>1, GridOfPoints DEF SearchOK
  <2>4. BestOK(priorityQueue) /\ priorityQueue' \cup {e} = priorityQueue
    BY <2>1, <2>2 DEF BestKept
  <2>5. BestOK(priorityQueue \cup {e})'
    BY <2>2, <2>4, BestStays DEF BestOK, QueueOK, Waits
  <2>6. GoalWasNext'
    BY <2>1, <2>2, <2>5 DEF GoalWasNext, IsNext
  <2> QED
    BY <1>3, <2>2, <2>3, <2>6 DEF BestKept
<1>5. CASE GiveUp
  <2>1. /\ plan' = plan /\ costSoFar' = costSoFar /\ cameFrom' = cameFrom /\ closest' = closest
        /\ reached' = reached /\ phase = "search" /\ phase' = "smooth" /\ priorityQueue = {}
        /\ closest # none => targetTile' = closest
    BY <1>5 DEF GiveUp, StartSmoothing, searchVars
  <2>2. reached' = none
    BY <1>1, <2>1 DEF PathOK
  <2>3. BestOK({})
    BY <2>1 DEF BestKept
  <2>4. BestOK({})'
    BY <2>1, <2>3, BestStays DEF BestOK, QueueOK, Waits
  <2> QED
    BY <1>3, <2>1, <2>2, <2>4 DEF BestKept
<1>6. CASE Smooth \/ SetPath \/ UNCHANGED planVars
  <2>1. /\ plan' = plan /\ costSoFar' = costSoFar /\ cameFrom' = cameFrom /\ closest' = closest
        /\ reached' = reached /\ priorityQueue' = priorityQueue /\ targetTile' = targetTile
        /\ phase' = "search" <=> phase = "search"
    BY <1>6 DEF Smooth, SetPath, planVars, searchVars, pathVars
  <2>2. \A x : LookedAround(x)' = LookedAround(x) /\ Heuristic(x)' = Heuristic(x)
    BY <2>1, BestStays
  <2>3. CostsAdd' = CostsAdd /\ start' = start
    BY <2>1, BestStays
  <2>4. BestOK(priorityQueue) => BestOK(priorityQueue)'
    BY <2>1, <2>2, <2>3 DEF BestOK, QueueOK, Waits
  <2>5. BestOK({}) => BestOK({})'
    BY <2>1, <2>2, <2>3 DEF BestOK, QueueOK, Waits
  <2>6. GoalWasNext => GoalWasNext'
    <3> SUFFICES ASSUME NEW e, BestOK(priorityQueue \cup {e})
                 PROVE  BestOK(priorityQueue \cup {e})'
      BY <2>1 DEF GoalWasNext
    <3> QED
      BY <2>1, <2>2, <2>3 DEF BestOK, QueueOK, Waits
  <2> QED
    BY <1>3, <2>1, <2>4, <2>5, <2>6 DEF BestKept
<1> QED
  BY <1>2, <1>4, <1>5, <1>6 DEF PlanNext

\* The first entry of a queue is a lower bound for the distances of all tiles of the goal.
LEMMA GoalsWait ==
    ASSUME SearchOK, NEW q, BestOK(q), NEW D, IsDistances(D),
           NEW u \in DOMAIN D, u \in plan.rect
    PROVE  \E f \in q : f.loc \in DOMAIN costSoFar /\ f.priority \in Int /\ f.priority <= D[u]
<1>1. D[u] \in Nat /\ Heuristic(u) = 0
  BY HeuristicIs, GridOfPoints DEF SearchOK, IsDistances
<1>2. \E v \in DOMAIN D : Known(D, v) /\ Waits(q, v) /\ D[v] + Heuristic(v) <= D[u]
  <2>1. CASE Known(D, u)
    <3>1. Waits(q, u)
      BY <2>1 DEF Known, BestOK
    <3>2. D[u] + Heuristic(u) <= D[u]
      BY <1>1
    <3> QED
      BY <2>1, <3>1, <3>2
  <2>2. CASE OnTheWay(q, D, u)
    <3>1. D[u] + Heuristic(u) = D[u]
      BY <1>1
    <3> QED
      BY <2>2, <3>1 DEF OnTheWay
  <2> QED
    BY <2>1, <2>2, NothingLost
<1>3. PICK v \in DOMAIN D : Known(D, v) /\ Waits(q, v) /\ D[v] + Heuristic(v) <= D[u]
  BY <1>2
<1>4. PICK f \in q : f.loc = v /\ f.priority <= costSoFar[v] + Heuristic(v)
  BY <1>3 DEF Waits
<1>5. f \in [loc : DOMAIN costSoFar, priority : Int]
  BY DEF BestOK, QueueOK
<1>6. f.loc \in DOMAIN costSoFar /\ f.priority \in Int
  BY <1>5
<1>7. D[v] \in Nat /\ Heuristic(v) \in Nat /\ costSoFar[v] = D[v]
  BY <1>3, HeuristicIs, GridOfPoints DEF SearchOK, IsDistances, Known
<1> QED
  BY <1>1, <1>3, <1>4, <1>6, <1>7

\* The goal is found at its distance.
LEMMA GoalIsClosest ==
    ASSUME SearchOK, GoalWasNext, NEW D, IsDistances(D)
    PROVE  costSoFar[reached] = Min({D[t] : t \in plan.rect \cap DOMAIN D})
<1>1. PICK e : /\ e.loc = reached /\ reached \in plan.rect
               /\ BestOK(priorityQueue \cup {e})
               /\ \A f \in priorityQueue : e.priority <= f.priority
  BY DEF GoalWasNext
<1> DEFINE q == priorityQueue \cup {e}
           S == {D[t] : t \in plan.rect \cap DOMAIN D}
<1>2. /\ e \in [loc : DOMAIN costSoFar, priority : Int]
      /\ IF e.loc = start THEN e.priority = 0
         ELSE e.priority >= costSoFar[e.loc] + Heuristic(e.loc)
  BY <1>1 DEF BestOK, QueueOK
<1>3. reached \in DOMAIN costSoFar /\ e.priority \in Int
  BY <1>1, <1>2
<1>4. costSoFar[reached] \in Nat /\ Heuristic(reached) = 0 /\ reached \in Points
  BY <1>1, <1>3, HeuristicIs, GridOfPoints DEF SearchOK
<1>5. costSoFar[reached] <= e.priority
  BY <1>1, <1>2, <1>3, <1>4 DEF SearchOK
<1>6. ASSUME NEW u \in plan.rect \cap DOMAIN D PROVE costSoFar[reached] <= D[u] /\ D[u] \in Nat
  <2>1. PICK f \in q : f.priority \in Int /\ f.priority <= D[u]
    <3> HIDE DEF q
    <3>1. BestOK(q)
      BY <1>1 DEF q
    <3> QED
      BY <3>1, GoalsWait
  <2>2. e.priority <= f.priority
    BY <1>1, <1>3
  <2>3. D[u] \in Nat
    BY DEF IsDistances
  <2> QED
    BY <1>3, <1>4, <1>5, <2>1, <2>2, <2>3
<1>7. reached \in DOMAIN D /\ D[reached] <= costSoFar[reached]
  BY <1>1, <1>3, CostsAreWays DEF BestOK
<1>8. D[reached] = costSoFar[reached]
  BY <1>1, <1>4, <1>6, <1>7
<1>9. S \subseteq Nat /\ costSoFar[reached] \in S /\ \A x \in S : costSoFar[reached] <= x
  BY <1>1, <1>6, <1>7, <1>8
<1> HIDE DEF S
<1>10. Min(S) \in S /\ Min(S) <= costSoFar[reached] /\ costSoFar[reached] <= Min(S)
  BY <1>9, LeastIs
<1>11. Min(S) = costSoFar[reached]
  <2>1. Min(S) \in Nat
    BY <1>9, <1>10
  <2>2. \A k, l \in Nat : k <= l /\ l <= k => k = l
    OBVIOUS
  <2> QED
    BY <1>4, <1>10, <2>1, <2>2
<1> QED
  BY <1>11 DEF S

\* With nothing waiting all tiles that can be reached were, and none of the goal.
LEMMA NothingWaits ==
    ASSUME SearchOK, ClosestOK, BestOK({}), NEW D, IsDistances(D)
    PROVE  /\ plan.rect \cap DOMAIN D = {}
           /\ closest # none =>
                /\ closest \in DOMAIN D
                /\ \A t \in DOMAIN D \ {start} : Heuristic(closest) <= Heuristic(t)
<1>1. \A u \in DOMAIN D : u \in DOMAIN costSoFar
  BY NothingLost DEF OnTheWay, Waits, Known
<1>2. plan.rect \cap DOMAIN D = {}
  BY GoalsWait
<1>3. closest # none => closest \in DOMAIN D
  <2>1. closest # none => closest \in DOMAIN costSoFar
    BY DEF SearchOK
  <2> QED
    BY <2>1, CostsAreWays DEF BestOK
<1>4. \A t \in DOMAIN D \ {start} : t \in DOMAIN cameFrom
  BY <1>1 DEF SearchOK
<1> QED
  BY <1>2, <1>3, <1>4 DEF ClosestOK

\* What the path leads to, when it is planned.
LEMMA BestIsFound ==
    ASSUME PlanInv, BestKept, IsDistances(Distances)
    PROVE  FindsBestPath
<1>1. PICK D : D = Distances
  OBVIOUS
<1>2. IsDistances(D) /\ SearchOK /\ ClosestOK
  BY <1>1 DEF PlanInv, BestKept
<1>3. ASSUME phase = "planned"
      PROVE  /\ IF reached # none THEN costSoFar[reached] = Min({D[t] : t \in plan.rect \cap DOMAIN D})
                ELSE plan.rect \cap DOMAIN D = {}
             /\ (reached = none /\ closest # none) =>
                  /\ targetTile \in DOMAIN D
                  /\ \A t \in DOMAIN D \ {start} : Heuristic(targetTile) <= Heuristic(t)
  <2>1. CASE reached # none
    <3>1. GoalWasNext
      BY <1>3, <2>1 DEF BestKept
    <3>2. costSoFar[reached] = Min({D[t] : t \in plan.rect \cap DOMAIN D})
      BY <1>2, <3>1, GoalIsClosest
    <3> QED
      BY <2>1, <3>2
  <2>2. CASE reached = none
    <3>1. BestOK({}) /\ (closest # none => targetTile = closest)
      BY <1>3, <2>2 DEF BestKept
    <3>2. /\ plan.rect \cap DOMAIN D = {}
          /\ closest # none =>
                /\ closest \in DOMAIN D
                /\ \A t \in DOMAIN D \ {start} : Heuristic(closest) <= Heuristic(t)
      BY <1>2, <3>1, NothingWaits
    <3> QED
      BY <2>2, <3>1, <3>2
  <2> QED
    BY <2>1, <2>2
<1> QED
  BY <1>1, <1>3 DEF FindsBestPath

(***************************************************************************)
(* The reference computes distances: rounds that let every known tile      *)
(* improve its neighbors.                                                  *)
(***************************************************************************)
\* k rounds from the start on.
Rounds(f, k) ==
    f = [n \in 0 .. k |-> IF n = 0 THEN [t \in {start} |-> 0] ELSE Relaxed(f[n - 1])]

\* There are such rounds, so the reference is one of them.
LEMMA RoundsExist ==
    ASSUME NEW k \in Nat
    PROVE  \E f : Rounds(f, k)
<1> DEFINE N == {n \in Nat : \E f : Rounds(f, n)}
           first == [t \in {start} |-> 0]
<1>1. 0 \in N
  <2> DEFINE g == [n \in 0 .. 0 |-> first]
  <2>1. g = [n \in 0 .. 0 |-> IF n = 0 THEN first ELSE Relaxed(g[n - 1])]
    <3> HIDE DEF first
    <3> QED
      OBVIOUS
  <2> QED
    BY <2>1 DEF Rounds
<1>2. ASSUME NEW n \in Nat, n \in N PROVE n + 1 \in N
  <2>1. PICK f : Rounds(f, n)
    BY <1>2
  <2> DEFINE g == [m \in 0 .. n + 1 |-> IF m = n + 1 THEN Relaxed(f[n]) ELSE f[m]]
  <2>0. f = [m \in 0 .. n |-> IF m = 0 THEN first ELSE Relaxed(f[m - 1])]
    BY <2>1 DEF Rounds
  <2> HIDE DEF first
  <2>2. ASSUME NEW m \in 0 .. n + 1
        PROVE  g[m] = IF m = 0 THEN first ELSE Relaxed(g[m - 1])
    <3>1. CASE m = n + 1
      <4>1. m # 0 /\ m - 1 = n /\ n \in 0 .. n + 1 /\ n # n + 1
        BY <3>1
      <4> QED
        BY <3>1, <4>1
    <3>2. CASE m # n + 1
      <4>1. m \in 0 .. n
        BY <3>2
      <4>2. f[m] = IF m = 0 THEN first ELSE Relaxed(f[m - 1])
        BY <2>0, <4>1
      <4>3. g[m] = f[m]
        BY <3>2
      <4>4. m # 0 => m - 1 \in 0 .. n + 1 /\ m - 1 # n + 1
        BY <4>1
      <4>5. m # 0 => g[m - 1] = f[m - 1]
        BY <4>4
      <4> QED
        BY <4>2, <4>3, <4>5
    <3> QED
      BY <3>1, <3>2
  <2>3. g = [m \in 0 .. n + 1 |-> IF m = 0 THEN first ELSE Relaxed(g[m - 1])]
    <3>1. g = [m \in 0 .. n + 1 |-> g[m]]
      OBVIOUS
    <3> HIDE DEF g
    <3> QED
      BY <2>2, <3>1
  <2>4. Rounds(g, n + 1)
    BY <2>3 DEF Rounds, first
  <2> QED
    BY <2>4
<1> HIDE DEF N
<1>3. k \in N
  BY <1>1, <1>2, SetInduction
<1> QED
  BY <1>3 DEF N

\* What is known after a number of rounds.
RoundOK(known) ==
    /\ DOMAIN known \subseteq Grid /\ start \in DOMAIN known /\ known[start] = 0
    /\ \A t \in DOMAIN known : known[t] \in Nat /\ (t # start => Free(t))

\* A step leads from a known tile t to u.
Behind(known, t, d, u) ==
    t \in DOMAIN known /\ d \in Moves /\ MayStep(t, d) /\ u = Plus(t, d)

\* What a round improves.
LEMMA RelaxedIs ==
    ASSUME NEW known, RoundOK(known), NEW R, R = Relaxed(known)
    PROVE  /\ RoundOK(R)
           /\ \A u \in DOMAIN known : u \in DOMAIN R /\ R[u] <= known[u]
           /\ \A t, d, u : Behind(known, t, d, u) =>
                              u \in DOMAIN R /\ R[u] <= known[t] + StepCost(d)
           /\ \A u \in DOMAIN R :
                \/ u \in DOMAIN known /\ R[u] = known[u]
                \/ \E t, d : Behind(known, t, d, u) /\ R[u] = known[t] + StepCost(d)
<1> DEFINE steps == {e \in (DOMAIN known) \X Moves : MayStep(e[1], e[2])}
           old(u) == IF u \in DOMAIN known THEN {known[u]} ELSE {}
           new(u) == {known[e[1]] + StepCost(e[2]) : e \in {f \in steps : Plus(f[1], f[2]) = u}}
           all(u) == old(u) \cup new(u)
           tiles  == DOMAIN known \cup {Plus(e[1], e[2]) : e \in steps}
<1>1. R = [u \in tiles |-> Min(all(u))]
  BY DEF Relaxed, Moves
<1>2. DOMAIN R = tiles /\ \A u \in tiles : R[u] = Min(all(u))
  <2> HIDE DEF tiles, all
  <2> QED
    BY <1>1
<1>3. \A t, d, u : Behind(known, t, d, u) =>
        /\ u \in tiles /\ known[t] + StepCost(d) \in new(u)
  <2> SUFFICES ASSUME NEW t, NEW d, NEW u, Behind(known, t, d, u)
               PROVE  u \in tiles /\ known[t] + StepCost(d) \in new(u)
    OBVIOUS
  <2>1. <<t, d>> \in steps /\ Plus(<<t, d>>[1], <<t, d>>[2]) = u
    BY DEF Behind
  <2> QED
    BY <2>1
<1>4. ASSUME NEW u \in tiles PROVE u \in DOMAIN known \/ \E t, d : Behind(known, t, d, u)
  BY DEF Behind
<1>5. ASSUME NEW u, NEW c \in new(u)
      PROVE  /\ \E t, d : Behind(known, t, d, u) /\ c = known[t] + StepCost(d)
             /\ c \in Nat
  <2>1. PICK e \in steps : Plus(e[1], e[2]) = u /\ c = known[e[1]] + StepCost(e[2])
    OBVIOUS
  <2>2. Behind(known, e[1], e[2], u)
    BY <2>1 DEF Behind
  <2>3. known[e[1]] \in Nat /\ StepCost(e[2]) \in Nat
    BY <2>2, CostNatural DEF Behind, RoundOK
  <2>4. c \in Nat
    BY <2>1, <2>3
  <2> QED
    BY <2>1, <2>2, <2>4
<1>6. ASSUME NEW u, NEW c \in old(u)
      PROVE  u \in DOMAIN known /\ c = known[u] /\ c \in Nat
  BY DEF RoundOK
<1>7. \A u \in DOMAIN known : u \in tiles /\ known[u] \in old(u)
  OBVIOUS
<1> HIDE DEF steps, old, new, tiles
<1>8. ASSUME NEW u \in tiles
      PROVE  /\ R[u] \in old(u) \cup new(u) /\ R[u] \in Nat
             /\ \A c \in old(u) \cup new(u) : R[u] <= c
  <2>1. old(u) \cup new(u) # {}
    BY <1>3, <1>4, <1>7
  <2>2. old(u) \cup new(u) \subseteq Nat
    BY <1>5, <1>6
  <2>3. /\ Min(old(u) \cup new(u)) \in old(u) \cup new(u)
        /\ \A c \in old(u) \cup new(u) : Min(old(u) \cup new(u)) <= c
    BY <2>1, <2>2, LeastIs
  <2> QED
    BY <1>2, <2>2, <2>3
<1> HIDE DEF all
<1>9. \A u \in DOMAIN known : u \in DOMAIN R /\ R[u] <= known[u]
  BY <1>2, <1>7, <1>8
<1>10. \A t, d, u : Behind(known, t, d, u) => u \in DOMAIN R /\ R[u] <= known[t] + StepCost(d)
  BY <1>2, <1>3, <1>8
<1>11. ASSUME NEW u \in DOMAIN R
       PROVE  \/ u \in DOMAIN known /\ R[u] = known[u]
              \/ \E t, d : Behind(known, t, d, u) /\ R[u] = known[t] + StepCost(d)
  <2>1. R[u] \in old(u) \/ R[u] \in new(u)
    BY <1>2, <1>8
  <2> QED
    BY <1>5, <1>6, <2>1
<1>12. ASSUME NEW u \in DOMAIN R PROVE u \in Grid /\ (u # start => Free(u)) /\ R[u] \in Nat
  <2>1. u \in DOMAIN known \/ \E t, d : Behind(known, t, d, u)
    BY <1>11
  <2>2. u # start => Free(u)
    BY <2>1 DEF RoundOK, Behind, MayStep
  <2>3. u \in Grid
    BY <2>1 DEF RoundOK, Behind, MayStep, Free
  <2> QED
    BY <1>2, <1>8, <2>2, <2>3
<1>13. start \in DOMAIN R /\ R[start] = 0
  <2>1. start \in DOMAIN R /\ R[start] <= 0
    BY <1>9 DEF RoundOK
  <2> QED
    BY <1>12, <2>1
<1> QED
  BY <1>9, <1>10, <1>11, <1>12, <1>13 DEF RoundOK


\* Each tile was reached from one at a lower cost.
Supported(known) ==
    \A u \in DOMAIN known \ {start} :
      \E t, d : Behind(known, t, d, u) /\ known[u] >= known[t] + StepCost(d)

\* Round n improved the cost of tile u, or found the tile.
Improved(f, n, u) ==
    /\ u \in DOMAIN f[n]
    /\ \/ n = 0
       \/ u \notin DOMAIN f[n - 1]
       \/ f[n][u] # f[n - 1][u]

\* Tile u is the most expensive one of n + 1 known tiles.
Surrounded(known, n, u) ==
    \E S \in SUBSET DOMAIN known :
      /\ u \in S /\ IsFiniteSet(S) /\ Cardinality(S) = n + 1
      /\ \A x \in S : known[x] <= known[u]

\* After round n the tiles it improved have that many others at most at their cost.
RoundFacts(f, n) ==
    /\ RoundOK(f[n]) /\ Supported(f[n])
    /\ \A u : Improved(f, n, u) => Surrounded(f[n], n, u)

\* At first the start is known.
LEMMA FirstRound ==
    ASSUME plan \in Plans, NEW f, f[0] = [t \in {start} |-> 0]
    PROVE  RoundFacts(f, 0)
<1>1. DOMAIN f[0] = {start} /\ f[0][start] = 0
  OBVIOUS
<1>2. start \in Grid
  BY PlanFacts DEF Free
<1>3. RoundOK(f[0]) /\ Supported(f[0])
  BY <1>1, <1>2 DEF RoundOK, Supported
<1>4. Surrounded(f[0], 0, start)
  <2>1. IsFiniteSet({start}) /\ Cardinality({start}) = 0 + 1
    BY FS_Singleton
  <2>2. {start} \in SUBSET DOMAIN f[0] /\ start \in {start}
    BY <1>1
  <2>3. \A x \in {start} : f[0][x] <= f[0][start]
    BY <1>1
  <2> QED
    BY <2>1, <2>2, <2>3 DEF Surrounded
<1>5. \A u : Improved(f, 0, u) => u = start
  BY <1>1 DEF Improved
<1> QED
  BY <1>3, <1>4, <1>5 DEF RoundFacts

\* A round improves a tile only over one that the round before improved, at a lower cost
\* than that of all tiles around it: the tile is a new one among them.
LEMMA NextRound ==
    ASSUME NEW n \in Nat, NEW f, f[n + 1] = Relaxed(f[n]), RoundFacts(f, n),
           n # 0 => RoundOK(f[n - 1]) /\ f[n] = Relaxed(f[n - 1])
    PROVE  RoundFacts(f, n + 1)
<1> DEFINE K == f[n]
           R == f[n + 1]
<1>1. RoundOK(K) /\ Supported(K) /\ R = Relaxed(K)
  BY DEF RoundFacts
<1>2. /\ RoundOK(R)
      /\ \A u \in DOMAIN K : u \in DOMAIN R /\ R[u] <= K[u]
      /\ \A t, d, u : Behind(K, t, d, u) => u \in DOMAIN R /\ R[u] <= K[t] + StepCost(d)
      /\ \A u \in DOMAIN R :
           \/ u \in DOMAIN K /\ R[u] = K[u]
           \/ \E t, d : Behind(K, t, d, u) /\ R[u] = K[t] + StepCost(d)
  <2> HIDE DEF K, R
  <2> QED
    BY <1>1, RelaxedIs
<1>3. \A u : Improved(f, n, u) => Surrounded(K, n, u)
  BY DEF RoundFacts
<1>4. \A u : Improved(f, n, u) <=> /\ u \in DOMAIN K
                                  /\ \/ n = 0
                                     \/ u \notin DOMAIN f[n - 1]
                                     \/ K[u] # f[n - 1][u]
  BY DEF Improved
<1>5. \A u : Improved(f, n + 1, u) <=> /\ u \in DOMAIN R
                                      /\ (u \notin DOMAIN K \/ R[u] # K[u])
  <2>1. (n + 1) - 1 = n /\ n + 1 # 0
    OBVIOUS
  <2> QED
    BY <2>1 DEF Improved
\* What is behind a tile that no longer improves was used before.
<1>6. ASSUME NEW t, NEW d, NEW u, Behind(K, t, d, u), ~Improved(f, n, t)
      PROVE  u \in DOMAIN K /\ K[u] <= K[t] + StepCost(d)
  <2> DEFINE L == f[n - 1]
  <2>1. n # 0 /\ t \in DOMAIN L /\ K[t] = L[t]
    BY <1>4, <1>6 DEF Behind
  <2>2. RoundOK(L) /\ K = Relaxed(L) /\ Behind(L, t, d, u)
    BY <1>6, <2>1 DEF Behind
  <2> HIDE DEF L, K
  <2>3. u \in DOMAIN K /\ K[u] <= L[t] + StepCost(d)
    BY <2>2, RelaxedIs
  <2> QED
    BY <2>1, <2>3
<1> HIDE DEF K, R
<1>7. \A t, d, u : Behind(K, t, d, u) =>
        /\ Behind(R, t, d, u) /\ t \in DOMAIN K
        /\ K[t] \in Nat /\ R[t] \in Nat /\ R[t] <= K[t] /\ StepCost(d) \in Nat \ {0}
  BY <1>1, <1>2, CostNatural DEF Behind, RoundOK
<1>8. Supported(R)
  <2> SUFFICES ASSUME NEW u \in DOMAIN R \ {start}
               PROVE  \E t, d : Behind(R, t, d, u) /\ R[u] >= R[t] + StepCost(d)
    BY DEF Supported
  <2>1. R[u] \in Nat
    BY <1>2 DEF RoundOK
  <2>2. PICK t, d : Behind(K, t, d, u) /\ R[u] >= K[t] + StepCost(d)
    <3>1. CASE u \in DOMAIN K /\ R[u] = K[u]
      BY <1>1, <3>1 DEF Supported
    <3>2. ASSUME NEW t, NEW d, Behind(K, t, d, u), R[u] = K[t] + StepCost(d)
          PROVE  R[u] >= K[t] + StepCost(d)
      BY <2>1, <3>2
    <3> QED
      BY <1>2, <3>1, <3>2
  <2>3. R[u] >= R[t] + StepCost(d)
    BY <1>7, <2>1, <2>2
  <2> QED
    BY <1>7, <2>2, <2>3
<1>9. ASSUME NEW u, Improved(f, n + 1, u) PROVE Surrounded(R, n + 1, u)
  <2>1. /\ u \in DOMAIN R /\ R[u] \in Nat
        /\ u \in DOMAIN K => R[u] <= K[u] /\ R[u] # K[u] /\ K[u] \in Nat
    BY <1>1, <1>2, <1>5, <1>9 DEF RoundOK
  <2>2. PICK t, d : Behind(K, t, d, u) /\ R[u] = K[t] + StepCost(d)
    BY <1>2, <2>1
  <2>3. K[t] \in Nat /\ StepCost(d) \in Nat \ {0}
    BY <1>7, <2>2
  <2>4. Improved(f, n, t)
    BY <1>6, <2>1, <2>2, <2>3
  <2>5. PICK S \in SUBSET DOMAIN K :
          /\ t \in S /\ IsFiniteSet(S) /\ Cardinality(S) = n + 1
          /\ \A x \in S : K[x] <= K[t]
    BY <1>3, <2>4 DEF Surrounded
  <2>6. u \notin S
    BY <2>1, <2>2, <2>3, <2>5
  <2>7. IsFiniteSet(S \cup {u}) /\ Cardinality(S \cup {u}) = (n + 1) + 1
    BY <2>5, <2>6, FS_AddElement
  <2>8. S \cup {u} \in SUBSET DOMAIN R
    BY <1>2, <2>1, <2>5
  <2>9. ASSUME NEW x \in S \cup {u} PROVE R[x] <= R[u]
    <3>1. CASE x \in S
      <4>1. K[x] <= K[t] /\ R[x] <= K[x] /\ K[x] \in Nat /\ R[x] \in Nat
        BY <1>1, <1>2, <2>5, <3>1 DEF RoundOK
      <4> QED
        BY <2>1, <2>2, <2>3, <4>1
    <3> QED
      BY <2>1, <3>1
  <2> QED
    BY <2>7, <2>8, <2>9 DEF Surrounded
<1> QED
  BY <1>2, <1>8, <1>9 DEF RoundFacts, K, R

\* Hence after every round.
LEMMA AllRounds ==
    ASSUME plan \in Plans, NEW k \in Nat, NEW f, Rounds(f, k)
    PROVE  \A n \in 0 .. k : RoundFacts(f, n)
<1> DEFINE N == {n \in Nat : n <= k => RoundFacts(f, n) /\ (n # 0 => RoundFacts(f, n - 1))}
<1>1. 0 \in N
  <2>1. f[0] = [t \in {start} |-> 0]
    <3>1. 0 \in 0 .. k
      OBVIOUS
    <3> QED
      BY <3>1 DEF Rounds
  <2> QED
    BY <2>1, FirstRound
<1>2. \A n \in 0 .. k : n # 0 => f[n] = Relaxed(f[n - 1])
  BY DEF Rounds
<1>3. ASSUME NEW n \in Nat, n \in N PROVE n + 1 \in N
  <2> SUFFICES ASSUME n + 1 <= k
               PROVE  RoundFacts(f, n + 1) /\ RoundFacts(f, (n + 1) - 1)
    OBVIOUS
  <2>1. /\ n <= k /\ n \in 0 .. k /\ n + 1 \in 0 .. k /\ n + 1 # 0 /\ (n + 1) - 1 = n
    OBVIOUS
  <2>2. RoundFacts(f, n) /\ (n # 0 => RoundFacts(f, n - 1))
    BY <1>3, <2>1
  <2>3. f[n + 1] = Relaxed(f[n])
    BY <1>2, <2>1
  <2>4. n # 0 => RoundOK(f[n - 1]) /\ f[n] = Relaxed(f[n - 1])
    BY <1>2, <2>1, <2>2 DEF RoundFacts
  <2>5. RoundFacts(f, n + 1)
    BY <2>2, <2>3, <2>4, NextRound
  <2> QED
    BY <2>1, <2>2, <2>5
<1> HIDE DEF N
<1>4. Nat \subseteq N
  BY <1>1, <1>3, SetInduction
<1>5. \A n \in 0 .. k : n \in N /\ n <= k
  BY <1>4
<1> QED
  BY <1>5 DEF N

\* After as many rounds as the map has tiles nothing improves any more.
LEMMA DistancesAre ==
    ASSUME plan \in Plans
    PROVE  IsDistances(Distances)
<1> DEFINE k == Cardinality(Grid)
           f == CHOOSE g : Rounds(g, k)
<1>1. k \in Nat /\ IsFiniteSet(Grid)
  BY GridFinite
<1>2. Rounds(f, k)
  <2> HIDE DEF k
  <2> QED
    BY <1>1, RoundsExist
<1>3. Distances = f[k]
  BY DEF Distances, Rounds
<1>4. k # 0
  <2>1. start \in Grid
    BY PlanFacts
  <2> QED
    BY <1>1, <2>1, FS_EmptySet
<1> HIDE DEF f, k
<1>5. k \in 0 .. k /\ k - 1 \in 0 .. k
  BY <1>1, <1>4
<1>6. RoundFacts(f, k) /\ RoundFacts(f, k - 1)
  BY <1>1, <1>2, <1>5, AllRounds
<1>7. f[k] = Relaxed(f[k - 1])
  BY <1>2, <1>4, <1>5 DEF Rounds
<1> DEFINE D == f[k]
           E == f[k - 1]
<1>8. RoundOK(D) /\ RoundOK(E) /\ Supported(D) /\ D = Relaxed(E)
  BY <1>6, <1>7 DEF RoundFacts
<1>9. \A u : Improved(f, k, u) => Surrounded(D, k, u)
  BY <1>6 DEF RoundFacts
<1>10. \A u : ~Surrounded(D, k, u)
  <2> SUFFICES ASSUME NEW S \in SUBSET Grid, IsFiniteSet(S), Cardinality(S) = k + 1 PROVE FALSE
    BY <1>8 DEF Surrounded, RoundOK
  <2>1. Cardinality(S) <= Cardinality(Grid)
    BY <1>1, FS_Subset
  <2> QED
    BY <1>1, <2>1 DEF k
<1>11. \A u \in DOMAIN D : u \in DOMAIN E /\ D[u] = E[u]
  BY <1>4, <1>9, <1>10 DEF Improved
<1> HIDE DEF D, E
<1>12. \A t, d, u : Behind(E, t, d, u) => u \in DOMAIN D /\ D[u] <= E[t] + StepCost(d)
  BY <1>8, RelaxedIs
<1>13. ASSUME NEW t, NEW d, NEW u, Behind(D, t, d, u)
       PROVE  /\ u \in DOMAIN D /\ D[u] <= D[t] + StepCost(d)
              /\ D[t] \in Nat /\ D[u] \in Nat /\ StepCost(d) \in Nat
  <2>1. Behind(E, t, d, u) /\ D[t] = E[t] /\ t \in DOMAIN D
    BY <1>11, <1>13 DEF Behind
  <2> QED
    BY <1>8, <1>12, <2>1, CostNatural DEF RoundOK
<1>14. ASSUME NEW u \in DOMAIN D \ {start}
       PROVE  \E t \in DOMAIN D, d \in Moves :
                MayStep(t, d) /\ u = Plus(t, d) /\ D[u] = D[t] + StepCost(d)
  <2>1. PICK t, d : Behind(D, t, d, u) /\ D[u] >= D[t] + StepCost(d)
    BY <1>8 DEF Supported
  <2>2. D[u] = D[t] + StepCost(d)
    BY <1>13, <2>1
  <2> QED
    BY <2>1, <2>2 DEF Behind
<1>15. IsDistances(D)
  <2>1. \A t \in DOMAIN D, d \in Moves :
          MayStep(t, d) => /\ Plus(t, d) \in DOMAIN D
                           /\ D[Plus(t, d)] <= D[t] + StepCost(d)
    BY <1>13 DEF Behind
  <2> QED
    BY <1>8, <1>14, <2>1 DEF IsDistances, RoundOK
<1> QED
  BY <1>3, <1>15 DEF D

\* PlanUnitPath: on a map of any size, for any unit, goal and obstacles, the search finds
\* the goal whenever a unit could walk there, at the cost of a shortest way, though it
\* never looks at most neighbors and the queue holds outdated entries; otherwise it falls
\* back to a tile that is closest to the goal of all it could walk to.
THEOREM PathsAlwaysBest == PlanSpec => []FindsBestPath
<1> DEFINE BestInv == PlanInv /\ BestKept
<1>1. PlanInit => BestInv
  BY PlanInvInit, BestInit DEF PlanInv
<1>2. BestInv /\ [PlanNext]_planVars => BestInv'
  BY PlanInvNext, BestNext
<1>3. BestInv => FindsBestPath
  BY DistancesAre, BestIsFound DEF PlanInv, SearchOK
<1> QED
  BY <1>1, <1>2, <1>3, PTL DEF PlanSpec
=============================================================================
