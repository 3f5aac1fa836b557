----------------------------- MODULE GameServer -----------------------------
(***************************************************************************)
(* A running match on the server: Game::RunGameLoop from the moment        *)
(* Game::StartGame has created the map.  An iteration of the loop first    *)
(* serves the connections of the players ("poll"), then simulates the game *)
(* steps that are due, none or several ("simulate" and "step"), and ends   *)
(* the server if the match is over ("exited").                             *)
(***************************************************************************)
EXTENDS GameCommands, GameStep

StartIds == 1 .. Len(StartObjects)

StartOf(p, types) ==
    {i \in StartIds : StartObjects[i].owner = p /\ StartObjects[i].type \in types}

\* The counters after BuildingAdded and UnitAdded for every object of the map.
StartStats(p) ==
    [population   |-> Cardinality(StartOf(p, UnitTypes)),
     villagers    |-> Cardinality(StartOf(p, VillagerTypes)),
     unitsAlive   |-> [t \in UnitTypes |-> Cardinality(StartOf(p, {t}))],
     space        |-> MapThenSumSet(LAMBDA i : PopulationSpace[StartObjects[i].type],
                                    StartOf(p, BuildingTypes)),
     constructing |-> [t \in BuildingTypes |-> 0],
     standing     |-> [t \in BuildingTypes |-> Cardinality(StartOf(p, {t}))],
     inProduction |-> 0]

Init ==
    /\ objects = [i \in StartIds |->
                    IF StartObjects[i].type \in UnitTypes
                      THEN NewUnit(StartObjects[i].owner, StartObjects[i].type)
                      ELSE NewBuilding(StartObjects[i].owner, StartObjects[i].type,
                                       StartObjects[i].tiles, BuildSteps)]
    /\ nextObjectID = Len(StartObjects) + 1
    /\ occupied = UNION {StartObjects[i].tiles : i \in StartIds}
    /\ objectDeleteList = {}
    /\ resources = [p \in Players |-> StartResources]
    /\ stats = [p \in Players |-> StartStats(p)]
    /\ connected = Players
    /\ exitReason = [p \in Players |-> "none"]
    /\ shouldExit = FALSE
    /\ known = [p \in Players |-> StartIds]
    /\ phase = "poll"
    /\ todo = {}

EndPoll ==
    /\ phase = "poll"
    /\ phase' = "simulate"
    /\ UNCHANGED <<objects, nextObjectID, occupied, objectDeleteList, resources, stats,
                   connected, exitReason, shouldExit, known, todo>>

\* No further step is due; the loop condition is evaluated again.
EndIteration ==
    /\ phase = "simulate"
    /\ phase' = IF shouldExit THEN "exited" ELSE "poll"
    /\ UNCHANGED <<objects, nextObjectID, occupied, objectDeleteList, resources, stats,
                   connected, exitReason, shouldExit, known, todo>>

SimulateStep == BeginStep \/ (\E id \in todo : VisitObject(id)) \/ EndStep

Next ==
    \/ \E p \in Players : Command(p)
    \/ EndPoll
    \/ SimulateStep
    \/ EndIteration

Spec == Init /\ [][Next]_vars

(***************************************************************************)
(* The loop is sequential and never waits: polling ends, a step visits     *)
(* every object, and both the next step and the next iteration come up     *)
(* again and again because the clock advances and a step takes less than   *)
(* its 1/30 s (RunGameLoop assumes so: see its TODO on falling behind).    *)
(***************************************************************************)
Fairness ==
    /\ WF_vars(EndPoll)
    /\ SF_vars(BeginStep)
    /\ WF_vars(\E id \in todo : VisitObject(id))
    /\ WF_vars(EndStep)
    /\ SF_vars(EndIteration)

FairSpec == Spec /\ Fairness
-----------------------------------------------------------------------------
(***************************************************************************)
(* Invariants.                                                             *)
(***************************************************************************)
Phases == {"poll", "simulate", "step", "exited"}

MapOK ==
    /\ DOMAIN objects \subseteq 1 .. nextObjectID - 1
    /\ \A id \in DOMAIN objects : objects[id] \in Units \cup Buildings
    /\ nextObjectID \in 1 .. MaxObjects + 1
    /\ occupied \subseteq Tiles
    /\ objectDeleteList \subseteq DOMAIN objects
    /\ \A id \in objectDeleteList : objects[id].owner \in Players
    /\ todo \subseteq DOMAIN objects

PlayersOK ==
    /\ connected \subseteq Players
    /\ exitReason \in [Players -> ExitReasons \cup {"none"}]
    /\ shouldExit \in BOOLEAN

TypeOK ==
    /\ MapOK
    /\ PlayersOK
    /\ resources \in [Players -> Nat]
    /\ stats \in [Players -> Stats]
    /\ known \in [Players -> SUBSET ObjectIds]
    /\ phase \in Phases

LiveBuildings == {id \in Live : IsBuilding(objects[id]) /\ ~IsFoundation(objects[id])}

\* The tiles that two buildings of the start map share: the map generator places
\* town centers without a look at what stands there.
Contested ==
    {t \in Tiles : \E i, j \in StartIds :
                      i # j /\ t \in StartObjects[i].tiles \cap StartObjects[j].tiles}

\* Foundations may be placed over one another (HandlePlaceBuildingFoundation
\* only looks at occupied tiles), and a foundation may be started in the step
\* it is deleted in: still no two buildings ever stand on the same tile, and
\* the tiles of a building are closed to others for as long as it stands.  The
\* one exception are the tiles two buildings have shared from the start: the
\* first of the two to be deleted frees them under the other.
OccupancyExclusive ==
    /\ \A b \in LiveBuildings : objects[b].tiles \ Contested \subseteq occupied
    /\ \A b, c \in LiveBuildings :
         b # c => objects[b].tiles \cap objects[c].tiles \subseteq Contested

\* A player whose last object is gone is out of the match, in whatever order
\* commands, attacks and deletions of one step took its objects.
StillThere == \A p \in connected : LiveOf(p) # {}

\* shouldExit is set by the very event that leaves at most one player, and by
\* no other: a match with two players connected is never ended.
ExitIffDecided ==
    shouldExit <=> \E p \in Players : exitReason[p] # "none" /\ Cardinality(connected) <= 1

(***************************************************************************)
(* Bookkeeping.  The counters and the resources are never recounted, so an *)
(* error stays for the rest of the match.  Recount is what the objects of  *)
(* the map say.                                                            *)
(***************************************************************************)
CountLive(p, types) ==
    Cardinality({id \in LiveOf(p) : objects[id].type \in types})

Recount(p) ==
    [population   |-> CountLive(p, UnitTypes),
     villagers    |-> CountLive(p, VillagerTypes),
     unitsAlive   |-> [t \in UnitTypes |-> CountLive(p, {t})],
     space        |-> MapThenSumSet(LAMBDA id : PopulationSpace[objects[id].type],
                         {id \in LiveOf(p) : IsBuilding(objects[id])
                                               /\ IsCompleted(objects[id])}),
     constructing |-> [t \in BuildingTypes |->
                         Cardinality({id \in LiveOf(p) : objects[id].type = t
                                                           /\ ~IsCompleted(objects[id])})],
     standing     |-> [t \in BuildingTypes |->
                         Cardinality({id \in LiveOf(p) : objects[id].type = t
                                                           /\ IsCompleted(objects[id])})],
     inProduction |-> Cardinality({id \in LiveOf(p) : IsBuilding(objects[id])
                                                        /\ objects[id].production > 0})]

\* An action that changes an object after it was deleted.
TouchesDoomed ==
    \E id \in objectDeleteList \cap DOMAIN objects' : objects'[id] # objects[id]

\* Every command and every event of a game step keeps the counters of every
\* player equal to what is on the map, except one that changes an object which
\* is already on objectDeleteList: those are the only way the counters go wrong.
StatsFollowObjects ==
    [][\A p \in Players : (stats[p] = Recount(p) /\ ~TouchesDoomed)
                             => (stats[p] = Recount(p))']_vars

\* Production never takes a player over its population space: when the units it
\* has and those it is producing become more, they are at most what its
\* buildings provide, however many buildings produce for it at the same time.
PopulationCapped ==
    [][\A p \in Players :
         (stats[p] = Recount(p) /\ ~TouchesDoomed
            /\ (stats[p].population + Recount(p).inProduction)'
                 > stats[p].population + Recount(p).inProduction)
         => (stats[p].population + Recount(p).inProduction)' <= Recount(p).space]_vars

\* What a player owns in resources: in stock, carried by its villagers, paid
\* for queued units, and what deleting its unfinished buildings would return.
Wealth(p) ==
    resources[p] +
    MapThenSumSet(LAMBDA id : IF IsUnit(objects[id]) THEN objects[id].carried
                              ELSE Refund(objects[id], TRUE), LiveOf(p))

\* Queueing, dequeueing, placing, deleting, refunding and carrying home in any
\* order create no resources: only a villager at a tree does, one per step, and
\* otherwise only actions on objects that are already deleted.
NoFreeResources ==
    [][\A p \in Players :
         Wealth(p)' > Wealth(p)
           => \/ TouchesDoomed
              \/ /\ Wealth(p)' = Wealth(p) + 1
                 /\ \E u \in LiveOf(p) : IsUnit(objects[u]) /\ Gather(u)]_vars

(***************************************************************************)
(* What the sources say, and the code does not do.                         *)
(***************************************************************************)
\* "All of the stats can be reproduced from the game state" (player.hpp).
StatsReproducible == \A p \in Players : stats[p] = Recount(p)

\* "The attack finished. If any other command has been given to the unit in the
\* meantime, follow the other command." (SimulateGameStepForUnit)
FollowsOtherCommand ==
    [][\A u \in DOMAIN objects :
         (/\ IsUnit(objects[u]) /\ u \in todo /\ u \notin todo' /\ u \in DOMAIN objects'
          /\ objects[u].attacking /\ ~Swings(objects[u])
          /\ objects[u].manual \in Live
          /\ Interaction(objects[u], objects[objects[u].manual]) # "Invalid")
         => objects'[u].target = objects'[u].manual]_vars

\* "Exactly 0 means that this is a building foundation (i.e., it does not affect
\* map occupancy (yet))" (building.hpp) and DeleteObject removes the occupancy
\* of what is not one: no tile stays occupied by a building that is gone.
NoStuckTiles ==
    phase # "step" =>
      occupied \subseteq UNION {objects[b].tiles : b \in {id \in DOMAIN objects :
                                  IsBuilding(objects[id]) /\ ~IsFoundation(objects[id])}}
-----------------------------------------------------------------------------
(***************************************************************************)
(* Liveness.                                                               *)
(***************************************************************************)
Producing(b) ==
    b \in DOMAIN objects /\ IsBuilding(objects[b]) /\ objects[b].production > 0

\* A production that has started comes to an end, housed or not: its building
\* is free for the next item or gone, unless the match ends first.
ProductionEnds ==
    \A b \in ObjectIds : Producing(b) ~> (~Producing(b) \/ phase = "exited")
=============================================================================
