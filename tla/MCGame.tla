------------------------------- MODULE MCGame -------------------------------
(***************************************************************************)
(* Instances of GameServer for TLC.  Each starts from a small map on which *)
(* one part of the game is busy, with the commands that belong to it.      *)
(***************************************************************************)
EXTENDS GameServer

CONSTANTS p1, p2, p3, gaia

Entry(p, t, tiles) == [owner |-> p, type |-> t, tiles |-> tiles]

\* A town center is worth one unit of population, a house another one.
SmallPopulationSpace ==
    [t \in BuildingTypes |-> IF t \in {"TownCenter", "House"} THEN 1 ELSE 0]

\* A half built house is refunded with rounding; a town center is too expensive.
SmallCost ==
    [t \in UnitTypes \cup BuildingTypes |->
       CASE t = "Barracks" -> 3 [] t = "TownCenter" -> 9 [] OTHER -> 1]

Lot == 1 .. 5

\* There is one site for houses, which two foundations may share.
Sites == [t \in BuildingTypes |-> IF t = "House" THEN {{3, 4}} ELSE {}]

\* Another one shares a tile with it.
TwoSites == [t \in BuildingTypes |-> IF t = "House" THEN {{2, 3}, {3, 4}} ELSE {}]

\* Two buildings that produce for one player with room for a single unit.
ProductionStart == <<Entry(p1, "TownCenter", {1}), Entry(p1, "Barracks", {2}),
                     Entry(p2, "Militia", {})>>

\* A villager with a tree and a place to drop wood, and somebody to attack.  The
\* two town centers stand on each other, on a tile of one of the sites.
EconomyStart == <<Entry(p1, "Villager", {}), Entry(p1, "TownCenter", {1, 2}),
                  Entry(gaia, "Tree", {5}), Entry(p2, "TownCenter", {2})>>

\* Two warriors of one player, the two objects of another, and a third player.
CombatStart == <<Entry(p1, "Militia", {}), Entry(p1, "Militia", {}),
                 Entry(p2, "Villager", {}), Entry(p2, "House", {1}),
                 Entry(p3, "Militia", {})>>

\* The same without the third player.
DuelStart == SubSeq(CombatStart, 1, 4)

\* Who gives which commands.
Only(p, names) == [q \in Players |-> IF q = p THEN names ELSE {}]

ProductionCommands ==
    [p \in Players |->
       IF p = p1 THEN {"ProduceUnit", "DequeueProductionQueueItem", "DeleteObject"}
                 ELSE {"Resign"}]
EconomyCommands ==
    Only(p1, {"SetTarget", "PlaceBuildingFoundation", "DeleteObject"})
CombatCommands ==
    [p \in Players |-> CASE p = p1 -> {"SetTarget"}
                         [] p = p2 -> {"MoveToMapCoord", "DeleteObject"}
                         [] OTHER  -> {"Drop"}]
=============================================================================
