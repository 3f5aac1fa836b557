---------------------------- MODULE Pathfinding ----------------------------
(***************************************************************************)
(* PlanUnitPath (src/FreeAge/server/pathfinding.cpp): the path a unit gets *)
(* when its goal has changed.  An A* search over the tiles of the map, the *)
(* path read back from it, and the removal of corners the unit can cut.    *)
(*                                                                         *)
(* A tile is <<x, y>>.  A point is <<x, y>> too, in units of 1/Grain tile: *)
(* the floats of the code are rounded to them, more coarsely than there.   *)
(* A step along an axis costs Straight and a diagonal one Diagonal, which  *)
(* order sums like 1 and sqrt(2) do for paths of this length.  The queue   *)
(* may return equal priorities in any order.                               *)
(***************************************************************************)
EXTENDS Integers, Sequences, FiniteSets, SequencesExt, FiniteSetsExt

CONSTANTS
    Width, Height,  \* of the map, in tiles
    WalkerRadius,   \* GetUnitRadius, in units of 1/Grain
    Plans           \* [unit, goal : point, rect : goal tiles, occupied : set of tiles]

Grain    == 2000
kErrorEpsilon == Grain \div 1000
Straight == 985
Diagonal == 1393
Grid     == (0 .. Width - 1) \X (0 .. Height - 1)

VARIABLES
    plan,          \* the unit, its goal and the map: fixed for a search
    priorityQueue, \* set of [loc, priority]
    costSoFar,     \* tiles reached -> cost
    cameFrom,      \* tiles reached but the start -> direction back
    closest,       \* smallestReachedHeuristicTile, or none
    reached,       \* reachedGoalTile, or none
    targetTile,    \* where the path leads
    reversePath,   \* the waypoints, the last one first
    corner,        \* loop variable of the smoothing
    phase          \* "search", "smooth" or "planned"

searchVars == <<priorityQueue, costSoFar, cameFrom, closest, reached>>
pathVars   == <<targetTile, reversePath, corner>>
planVars   == <<plan, searchVars, pathVars, phase>>

none == <<-1, -1>>

Plus(a, b)  == <<a[1] + b[1], a[2] + b[2]>>
Minus(a, b) == <<a[1] - b[1], a[2] - b[2]>>
AbsOf(n)    == IF n < 0 THEN -n ELSE n
TileOf(p)   == <<p[1] \div Grain, p[2] \div Grain>>
Onto(n, size) == IF n < 0 THEN 0 ELSE IF n < size THEN n ELSE size - 1
OntoMap(t)  == <<Onto(t[1], Width), Onto(t[2], Height)>>
Center(t)   == <<t[1] * Grain + Grain \div 2, t[2] * Grain + Grain \div 2>>

\* The goal tiles are a rectangle: those of a building, around the goal, or the one of a
\* goal, if need be moved onto the map.  A unit that is on the map stands in no occupied
\* tile; one that found no free space beside its building is not on the map.
PlanOK(p) ==
    /\ p.unit \in Int \X Int /\ p.goal \in Int \X Int
    /\ p.occupied \subseteq Grid
    /\ \E x1, x2 \in 0 .. Width - 1, y1, y2 \in 0 .. Height - 1 :
         p.rect = (x1 .. x2) \X (y1 .. y2)
    /\ TileOf(p.unit) \notin p.occupied \ p.rect
    /\ OntoMap(TileOf(p.goal)) \in p.rect

ASSUME PathAssumption ==
    /\ Width \in Nat \ {0} /\ Height \in Nat \ {0} /\ WalkerRadius \in Nat
    /\ \A p \in Plans : PlanOK(p)

start == OntoMap(TileOf(plan.unit))

\* Obstacles: the tiles of the goal are open even if a building stands there.
Blocked(t) == t \in plan.occupied \ plan.rect
Free(t)    == t \in Grid /\ ~Blocked(t)

Axes      == {<<1, 0>>, <<-1, 0>>, <<0, 1>>, <<0, -1>>}
Diagonals == {1, -1} \X {1, -1}

\* A diagonal step needs both tiles it passes between.
MayStep(t, d) ==
    /\ Free(Plus(t, d))
    /\ d \in Diagonals => Free(Plus(t, <<d[1], 0>>)) /\ Free(Plus(t, <<0, d[2]>>))

\* Mutant: the occupancy test looks beside the tile instead of behind.
DirectionsLate(t, m) ==
    IF m = <<0, 0>> THEN Axes \cup Diagonals
    ELSE IF m \in Diagonals THEN {<<m[1], 0>>, <<0, m[2]>>, m}
    ELSE {m} \cup UNION {{s, Plus(s, m)} :
                          s \in {a \in Axes \ {m, Minus(<<0, 0>>, m)} :
                                   Blocked(Plus(t, a))}}

(***************************************************************************)
(* The neighbors of tile t to look at when the search arrived there by a   *)
(* move m: all for the start; ahead for a diagonal move; and for a         *)
(* straight one those to a side only if the tile behind, at that side, is  *)
(* occupied, since they were reached past that tile otherwise.             *)
(***************************************************************************)
Directions(t, m) ==
    IF m = <<0, 0>> THEN Axes \cup Diagonals
    ELSE IF m \in Diagonals THEN {<<m[1], 0>>, <<0, m[2]>>, m}
    ELSE {m} \cup UNION {{s, Plus(s, m)} :
                          s \in {a \in Axes \ {m, Minus(<<0, 0>>, m)} :
                                   Blocked(Plus(t, Minus(a, m)))}}

StepCost(d) == IF d \in Diagonals THEN Diagonal ELSE Straight

\* Diagonal distance of tile t to the closest tile of the goal.
HeuristicTo(rect, t) ==
    Min({LET x == AbsOf(t[1] - g[1])
             y == AbsOf(t[2] - g[2])
             shorter == IF x < y THEN x ELSE y
         IN  shorter * Diagonal + (x + y - 2 * shorter) * Straight : g \in rect})

Heuristic(t) == HeuristicTo(plan.rect, t)

ArrivedBy(t) == IF t \in DOMAIN cameFrom THEN Minus(<<0, 0>>, cameFrom[t]) ELSE <<0, 0>>

\* Directions that lead from t to a tile at a lower cost than known so far.
Improving(t) ==
    {d \in Directions(t, ArrivedBy(t)) :
       /\ MayStep(t, d)
       /\ \/ Plus(t, d) \notin DOMAIN costSoFar
          \/ costSoFar[t] + StepCost(d) < costSoFar[Plus(t, d)]}

PlanInit ==
    /\ plan \in Plans
    /\ priorityQueue = {[loc |-> start, priority |-> 0]}
    /\ costSoFar = [t \in {start} |-> 0]
    /\ cameFrom = <<>>
    /\ closest = none
    /\ reached = none
    /\ targetTile = none
    /\ reversePath = <<>>
    /\ corner = 0
    /\ phase = "search"

IsNext(e) == \A f \in priorityQueue : e.priority <= f.priority

\* The tile to remember when the tiles given were reached.
Closest(tiles) ==
    LET best == {t \in tiles : \A u \in tiles : Heuristic(t) <= Heuristic(u)}
    IN  {t \in best : closest = none \/ Heuristic(t) < Heuristic(closest)}

\* The first entry of the queue is not at the goal: visit its neighbors.
Expand ==
    /\ phase = "search"
    /\ \E e \in priorityQueue :
         LET t     == e.loc
             dirs  == Improving(t)
             tiles == {Plus(t, d) : d \in dirs}
             to(u) == Minus(u, t)
             cost(u) == costSoFar[t] + StepCost(to(u))
             better == Closest(tiles)
         IN  /\ IsNext(e)
             /\ t \notin plan.rect
             /\ costSoFar' = [u \in tiles \cup DOMAIN costSoFar |->
                                IF u \in tiles THEN cost(u) ELSE costSoFar[u]]
             /\ cameFrom' = [u \in tiles \cup DOMAIN cameFrom |->
                               IF u \in tiles THEN Minus(t, u) ELSE cameFrom[u]]
             /\ priorityQueue' = (priorityQueue \ {e}) \cup
                  {[loc |-> u, priority |-> cost(u) + Heuristic(u)] : u \in tiles}
             /\ closest' \in IF better = {} THEN {closest} ELSE better
    /\ UNCHANGED <<plan, reached, pathVars, phase>>

\* From tile t back along cameFrom, the start left out.  A tile that was never reached
\* ends the path.
TraceBack(t) ==
    LET back[n \in 0 .. Cardinality(Grid)] ==
          IF n = 0 THEN t
          ELSE IF back[n - 1] \in DOMAIN cameFrom
                 THEN Plus(back[n - 1], cameFrom[back[n - 1]])
          ELSE back[n - 1]
        passed == {n \in 0 .. Cardinality(Grid) :
                     /\ back[n] # start
                     /\ n = 0 \/ back[n - 1] \in DOMAIN cameFrom}
    IN  [n \in 1 .. Cardinality(passed) |-> Center(back[n - 1])]

\* The last waypoint is the exact goal if the goal is a single tile.
ExactGoal(path) ==
    IF path = <<>> THEN <<plan.goal>>
    ELSE IF Cardinality(plan.rect) = 1 THEN [path EXCEPT ![1] = plan.goal]
    ELSE path

StartSmoothing ==
    /\ corner' = 2
    /\ phase' = "smooth"
    /\ UNCHANGED plan

\* The first entry of the queue is at the goal.
ReachGoal ==
    /\ phase = "search"
    /\ \E e \in priorityQueue :
         /\ IsNext(e)
         /\ e.loc \in plan.rect
         /\ priorityQueue' = priorityQueue \ {e}
         /\ reached' = e.loc
         /\ targetTile' = e.loc
         /\ reversePath' = ExactGoal(TraceBack(e.loc))
    /\ StartSmoothing
    /\ UNCHANGED <<costSoFar, cameFrom, closest>>

(***************************************************************************)
(* The goal cannot be reached: go to the tile that is closest to it.  If   *)
(* no tile was reached at all, StopMovement is called, but targetTile is   *)
(* left as it was constructed, at (0, 0), and becomes the path.            *)
(***************************************************************************)
GiveUp ==
    /\ phase = "search"
    /\ priorityQueue = {}
    /\ targetTile' = IF closest # none THEN closest ELSE <<0, 0>>
    /\ reversePath' = TraceBack(targetTile')
    /\ StartSmoothing
    /\ UNCHANGED searchVars

Dot(a, b)   == a[1] * b[1] + a[2] * b[2]
Cross(a, b) == a[1] * b[2] - a[2] * b[1]

\* Rounded down.
Length(d) ==
    LET square == Dot(d, d)
    IN  CHOOSE n \in Max({AbsOf(d[1]), AbsOf(d[2])}) .. AbsOf(d[1]) + AbsOf(d[2]) :
          n * n <= square /\ square < (n + 1) * (n + 1)

\* n / m, rounded towards zero.
Quotient(n, m) ==
    LET q == AbsOf(n) \div AbsOf(m)
    IN  IF (n < 0) = (m < 0) THEN q ELSE -q

TruncatedTile(p) == <<Quotient(p[1], Grain), Quotient(p[2], Grain)>>
AtLeast(n)   == IF n > 0 THEN 20 * n ELSE 1  \* std::max(1e-5f, n)

(***************************************************************************)
(* rasterizeLine: the tiles passed on the way from a point to another one. *)
(* A line l has the tile and the point it has come to, what remains of the *)
(* way along each axis, the directions, the last tile and the tiles passed *)
(* so far.  It goes from border to border, always over the closer one.  It *)
(* may start in front of its tile, left of the map or above it, since      *)
(* coordinates are rounded towards zero.                                   *)
(***************************************************************************)
LineStart(a, b) ==
    [tile |-> TruncatedTile(a), cur |-> a, remaining |-> Minus(b, a), end |-> TruncatedTile(b),
     heading |-> [k \in {1, 2} |-> IF b[k] > a[k] THEN 1 ELSE -1], passed |-> {TruncatedTile(a)}]

ToBorder(l, k) ==
    LET f == l.cur[k] - l.tile[k] * Grain
    IN  IF l.heading[k] > 0 THEN Grain - f ELSE f

\* The axis along which the next border is met.
NextAxis(l) ==
    IF AbsOf(l.remaining[1]) * AtLeast(ToBorder(l, 2))
         > ToBorder(l, 1) * AtLeast(AbsOf(l.remaining[2])) THEN 1 ELSE 2

LineEnded(l) ==
    \/ \A k \in {1, 2} : AbsOf(l.remaining[k]) <= ToBorder(l, k)
    \/ \A k \in {1, 2} : (l.end[k] - l.tile[k]) * l.heading[k] <= 0

\* The next step would divide by zero.
LineLost(l) == ~LineEnded(l) /\ l.remaining[NextAxis(l)] = 0

OverBorder(l, k) ==
    LET part == -l.heading[k] * ToBorder(l, k)
        diff == [i \in {1, 2} |-> IF i = k THEN part
                                  ELSE Quotient(l.remaining[i] * part, l.remaining[k])]
        next == [l.tile EXCEPT ![k] = @ + l.heading[k]]
    IN  [l EXCEPT !.tile = next, !.passed = @ \cup {next},
                  !.cur = Minus(@, diff), !.remaining = Plus(@, diff)]

LineFurther(l) == IF LineEnded(l) \/ LineLost(l) THEN l ELSE OverBorder(l, NextAxis(l))

\* A line that has lost its coordinates goes on to the end along the other axis.
TilesPassed(l) ==
    l.passed \cup
    UNION {{[l.tile EXCEPT ![k] = v] : v \in Min({l.tile[k], l.end[k]}) .. Max({l.tile[k], l.end[k]})} :
             k \in {i \in {1, 2} : LineLost(l) /\ i # NextAxis(l)}}

RasterizeLine(a, b) ==
    LET first == LineStart(a, b)
        tiles == AbsOf(first.end[1] - first.tile[1]) + AbsOf(first.end[2] - first.tile[2]) + 3
        trace[n \in 0 .. tiles] == IF n = 0 THEN first ELSE LineFurther(trace[n - 1])
    IN  TilesPassed(trace[tiles])

\* Of each row the tiles from the first to the last one that was passed.
RowRanges(tiles) ==
    {t \in Grid : /\ \E c \in tiles : c[2] = t[2] /\ c[1] <= t[1]
                  /\ \E c \in tiles : c[2] = t[2] /\ c[1] >= t[1]}

\* Mutant: the direction is not scaled to its length, but to the sum of its parts.
ToTheRightBySum(d) ==
    LET width == WalkerRadius + kErrorEpsilon
        sum   == Max({1, AbsOf(d[1]) + AbsOf(d[2])})
    IN  <<Quotient(-d[2] * width, sum), Quotient(d[1] * width, sum)>>

\* From the middle of a unit that goes in direction d to its side, and a little further.
ToTheRight(d) ==
    LET width  == WalkerRadius + kErrorEpsilon
        length == Max({1, Length(d)})
    IN  <<Quotient(-d[2] * width, length), Quotient(d[1] * width, length)>>

\* The four edges of a rectangle along the way, a little wider than the unit.
IsPathFree(a, b) ==
    LET right == ToTheRight(Minus(b, a))
        edges == UNION {RasterizeLine(Plus(a, right), Plus(b, right)),
                        RasterizeLine(Minus(a, right), Minus(b, right)),
                        RasterizeLine(Plus(a, right), Minus(a, right)),
                        RasterizeLine(Plus(b, right), Minus(b, right))}
    IN  \A t \in RowRanges({OntoMap(e) : e \in edges}) : ~Blocked(t)

\* Drop a waypoint if the unit can walk past it.
Smooth ==
    /\ phase = "smooth"
    /\ corner <= Len(reversePath)
    /\ LET before == IF corner = Len(reversePath) THEN plan.unit
                                                  ELSE reversePath[corner + 1]
       IN  IF IsPathFree(before, reversePath[corner - 1])
             THEN reversePath' = RemoveAt(reversePath, corner) /\ UNCHANGED corner
             ELSE corner' = corner + 1 /\ UNCHANGED reversePath
    /\ UNCHANGED <<plan, searchVars, targetTile, phase>>

\* SetPath: the unit starts to walk.
SetPath ==
    /\ phase = "smooth"
    /\ corner > Len(reversePath)
    /\ phase' = "planned"
    /\ UNCHANGED <<plan, searchVars, pathVars>>

PlanNext == Expand \/ ReachGoal \/ GiveUp \/ Smooth \/ SetPath

PlanSpec == PlanInit /\ [][PlanNext]_planVars
-----------------------------------------------------------------------------
(***************************************************************************)
(* The reference: distances from the start over all steps a unit may make. *)
(***************************************************************************)
Relaxed(known) ==
    LET steps == {e \in (DOMAIN known) \X (Axes \cup Diagonals) : MayStep(e[1], e[2])}
        old(u) == IF u \in DOMAIN known THEN {known[u]} ELSE {}
        new(u) == {known[e[1]] + StepCost(e[2]) : e \in {f \in steps : Plus(f[1], f[2]) = u}}
    IN  [u \in DOMAIN known \cup {Plus(e[1], e[2]) : e \in steps} |-> Min(old(u) \cup new(u))]

Distances ==
    LET dist[n \in 0 .. Cardinality(Grid)] ==
          IF n = 0 THEN [t \in {start} |-> 0] ELSE Relaxed(dist[n - 1])
    IN  dist[Cardinality(Grid)]

\* Although most neighbors of a tile are never looked at, the search finds the
\* goal whenever a unit could walk there, and by a shortest way.  "If the goal is
\* not reachable, return the path that leads to the reachable position that is
\* closest to the goal", but for the tile the unit stands on: that one is never
\* considered, though it may be closer than all others.
FindsBestPath ==
    phase = "planned" =>
      LET dist == Distances
          goal == plan.rect \cap DOMAIN dist
      IN  /\ IF reached # none THEN costSoFar[reached] = Min({dist[t] : t \in goal})
                               ELSE goal = {}
          /\ (reached = none /\ closest # none) =>
                /\ targetTile \in DOMAIN dist
                /\ \A t \in DOMAIN dist \ {start} : Heuristic(targetTile) <= Heuristic(t)

\* Where leg i of a path begins: the first one, which is the last of the sequence, where
\* the unit stands.
LegStart(path, i) == IF i = Len(path) THEN plan.unit ELSE path[i + 1]

(***************************************************************************)
(* The tiles that a rectangle of half width radius around the segment from *)
(* a to b overlaps by more than rounding may hide: those that none of the  *)
(* four axes separates from it.                                            *)
(***************************************************************************)
TilesAlong(a, b, radius) ==
    LET d      == Minus(b, a)
        length == Length(d)
        margin == kErrorEpsilon * length
        apart(gap, part) == gap * length + margin >= radius * AbsOf(part)
        overlaps(t) ==
          LET near    == <<t[1] * Grain, t[2] * Grain>>
              far     == Plus(near, <<Grain, Grain>>)
              corners == {near[1], far[1]} \X {near[2], far[2]}
              across  == {Cross(d, Minus(c, a)) : c \in corners}
              along   == {Dot(d, Minus(c, a)) : c \in corners}
          IN  /\ Min(across) + margin < radius * length /\ margin - radius * length < Max(across)
              /\ margin < Max(along) /\ Min(along) + margin < Dot(d, d)
              /\ \A k \in {1, 2} : /\ ~apart(near[k] - Max({a[k], b[k]}), d[3 - k])
                                   /\ ~apart(Min({a[k], b[k]}) - far[k], d[3 - k])
    IN  {t \in Grid : overlaps(t)}

Clear(a, b, radius) == \A t \in TilesAlong(a, b, radius) : ~Blocked(t)

\* The legs that a unit walks along.  A path to nowhere (see GiveUp) is none, and a unit
\* that is not on the map does not walk.
Legs ==
    {<<LegStart(reversePath, i), reversePath[i]>> :
       i \in {j \in 1 .. Len(reversePath) : /\ phase = "planned" /\ (reached # none \/ closest # none)
                                            /\ TileOf(LegStart(reversePath, j)) \in Grid}}

\* A corner is cut only where the whole width of the unit finds room, whatever borders and
\* corners of tiles the edges of its way are traced along; and however many corners
\* were cut, no leg of a path leads the middle of the unit through an obstacle: the first
\* and the last tile may be too narrow for its whole width.
LegsClear ==
    /\ (phase = "smooth" /\ corner <= Len(reversePath)) =>
         LET a == LegStart(reversePath, corner)
             b == reversePath[corner - 1]
         IN  IsPathFree(a, b) => Clear(a, b, WalkerRadius)
    /\ \A leg \in Legs : Clear(leg[1], leg[2], 0)

\* Each leg of a path is one between neighboring tiles, or within the goal, that is free
\* by itself, or has passed IsPathFree from where it begins to where it ends at last.
LegsTested == \A leg \in Legs : Clear(leg[1], leg[2], 0) \/ IsPathFree(leg[1], leg[2])
=============================================================================
