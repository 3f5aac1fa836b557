------------------------------ MODULE GameState ------------------------------
(***************************************************************************)
(* The state of a running match on the server (class Game, ServerMap,      *)
(* ServerObject, ServerUnit and ServerBuilding) and the helpers that both  *)
(* the message handlers and the game step use.                             *)
(*                                                                         *)
(* Geometry is abstract: a tile is a value, a building stands on a set of  *)
(* tiles, and where exactly a unit is, what it touches and how far its     *)
(* path goes is left open (every outcome is allowed).  There is one kind   *)
(* of resource.  Percentages and clocks count game steps.                  *)
(***************************************************************************)
EXTENDS PlayerStats, Sequences, FiniteSets

CONSTANTS
    Players,         \* indices of the players
    Gaia,            \* kGaiaPlayerIndex: the owner of trees
    Tiles,           \* the tiles of the map: the entries of occupiedForBuildings
    Footprints,      \* [BuildingTypes -> SUBSET SUBSET Tiles]: where a type fits
    Cost,            \* [UnitTypes \cup BuildingTypes -> Nat]
    BuildSteps,      \* steps one villager needs to complete a building
    ProductionSteps, \* steps a building needs to produce a unit
    AttackTime,      \* steps of an attack animation
    DamageTime,      \* the step of the animation that does the damage
    UnitHP,          \* hit points of a new unit; an attack takes one
    CarryCapacity,   \* carryCapacity of a villager
    MaxQueue,        \* kMaxProductionQueueSize
    StartResources,  \* resources of a player at the start
    StartObjects,    \* sequence of [owner, type, tiles]: the generated map, on
                     \* which buildings may overlap
    MaxObjects,      \* bound: number of object IDs ever given out
    MaxResources,    \* bound: no drop-off beyond this amount
    Commands         \* bound: the commands each player gives in this instance

ObjectIds == 1 .. MaxObjects
NoObject  == 0       \* kInvalidObjectId

ExitReasons == {"Resign", "Drop", "Defeat"}

CommandNames ==
    {"MoveToMapCoord", "SetTarget", "ProduceUnit", "DequeueProductionQueueItem",
     "PlaceBuildingFoundation", "DeleteObject", "Resign", "Drop"}

ASSUME GameAssumption ==
    /\ IsFiniteSet(Players)
    /\ Gaia \notin Players
    /\ Footprints \in [BuildingTypes -> SUBSET SUBSET Tiles]
    /\ Cost \in [UnitTypes \cup BuildingTypes -> Nat]
    /\ BuildSteps \in Nat \ {0, 1}
    /\ ProductionSteps \in Nat \ {0, 1}
    /\ AttackTime \in Nat /\ DamageTime \in 1 .. AttackTime - 1
    /\ UnitHP \in Nat \ {0}
    /\ CarryCapacity \in Nat \ {0}
    /\ MaxQueue \in Nat \ {0}
    /\ StartResources \in Nat
    /\ MaxObjects \in Nat
    /\ MaxResources \in Nat
    /\ Commands \in [Players -> SUBSET CommandNames]
    /\ StartObjects \in
         Seq([owner : Players \cup {Gaia}, type : UnitTypes \cup BuildingTypes,
              tiles : SUBSET Tiles])
    /\ Len(StartObjects) <= MaxObjects
    /\ \A p \in Players : \E i \in DOMAIN StartObjects : StartObjects[i].owner = p
    /\ \A i \in DOMAIN StartObjects :
         StartObjects[i].owner = Gaia => StartObjects[i].type \in BuildingTypes

VARIABLES
    objects,          \* ServerMap::objects: ID -> unit or building
    nextObjectID,     \* ServerMap::nextObjectID
    occupied,         \* ServerMap::occupiedForBuildings: the occupied tiles
    objectDeleteList, \* IDs to erase at the end of the game step
    resources,        \* PlayerInGame::resources
    stats,            \* PlayerInGame::stats
    connected,        \* the players with isConnected
    exitReason,       \* last PlayerLeaveBroadcast sent for a player, or "none"
    shouldExit,       \* Game::shouldExit
    known,            \* object IDs a client holds once it has handled every
                      \* message written or accumulated for it
    phase,            \* where RunGameLoop stands
    todo              \* objects the current game step has yet to visit

vars == <<objects, nextObjectID, occupied, objectDeleteList, resources, stats,
          connected, exitReason, shouldExit, known, phase, todo>>

Units ==
    [owner     : Players,
     type      : UnitTypes,
     hp        : 0 .. UnitHP,
     attacking : BOOLEAN,                     \* currentAction is Attack: of the
                                              \* others only clients make anything
     clock     : 0 .. AttackTime,             \* steps since currentActionStartTime
     moving    : BOOLEAN,                     \* has a goal it walks or pushes towards
     target    : ObjectIds \cup {NoObject},  \* targetObjectId
     manual    : ObjectIds \cup {NoObject},  \* manuallyTargetedObjectId
     carried   : 0 .. CarryCapacity]          \* carriedResourceAmount

Buildings ==
    [owner      : Players \cup {Gaia},
     type       : BuildingTypes,
     hp         : 0 .. BuildSteps,
     tiles      : SUBSET Tiles,
     built      : 0 .. BuildSteps,      \* buildPercentage
     queue      : Seq(UnitTypes),       \* productionQueue
     production : 0 .. ProductionSteps] \* productionPercentage

IsUnit(o)       == o.type \in UnitTypes
IsBuilding(o)   == o.type \in BuildingTypes
IsVillager(o)   == o.type \in VillagerTypes
IsFoundation(b) == b.built = 0
IsCompleted(b)  == b.built = BuildSteps

NewUnit(p, t) ==
    [owner |-> p, type |-> t, hp |-> UnitHP, attacking |-> FALSE, clock |-> 0,
     moving |-> FALSE, target |-> NoObject, manual |-> NoObject, carried |-> 0]

NewBuilding(p, t, tiles, built) ==
    [owner |-> p, type |-> t, hp |-> built, tiles |-> tiles, built |-> built,
     queue |-> <<>>, production |-> 0]

CanProduce(b, t) ==
    \/ b.type = "TownCenter" /\ t = "Villager"
    \/ b.type = "Barracks"   /\ t = "Militia"

IsDropOffPoint(b) == b.type = "TownCenter"

\* GetBuildingMaxInstances: a single town center, any number of the others.
MaxInstancesReached(p, t) == t = "TownCenter" /\ BuildingTypeCount(stats[p], t) >= 1

\* A building that is not a resource and that a player may place.
PlaceableTypes == BuildingTypes \ {"Tree"}

(***************************************************************************)
(* GetInteractionType: what unit u does when it reaches object o.          *)
(***************************************************************************)
Interaction(u, o) ==
    IF IsVillager(u) /\ IsBuilding(o) /\ o.owner = u.owner /\ ~IsCompleted(o)
      THEN "Construct"
    ELSE IF IsVillager(u) /\ o.type = "Tree"
      THEN "Collect"
    ELSE IF IsVillager(u) /\ IsBuilding(o) /\ u.carried > 0 /\ IsDropOffPoint(o)
      THEN "DropOff"
    ELSE IF o.owner \notin {u.owner, Gaia}
      THEN "Attack"
    ELSE "Invalid"

(***************************************************************************)
(* ServerUnit::SetTarget with SetTargetInternal: the unit after it was     *)
(* told to interact with object t.  An ongoing attack keeps its target.    *)
(***************************************************************************)
SetTarget(u, t, isManual) ==
    LET interaction == Interaction(u, objects[t])
    IN  IF interaction = "Invalid" THEN u
        ELSE [u EXCEPT !.type   = CASE interaction = "Construct" -> "Builder"
                                    [] interaction = "Collect"   -> "Lumberjack"
                                    [] OTHER                     -> @,
                       !.moving = TRUE,
                       !.target = IF u.attacking THEN @ ELSE t,
                       !.manual = IF isManual THEN t ELSE @]

\* The counters after unit u of the map has become u2, possibly of another type.
StatsAfterTransform(u, u2) ==
    IF u.type = u2.type THEN stats
    ELSE [stats EXCEPT ![u.owner] = UnitTransformed(@, u.type, u2.type)]

\* Objects of p that exist and are not waiting for their deletion.
Live         == DOMAIN objects \ objectDeleteList
LiveOf(p)    == {id \in Live : objects[id].owner = p}

(***************************************************************************)
(* An AddObject message for object id goes to the players in receivers; an *)
(* ObjectDeath message takes it away again.  Messages accumulated for a    *)
(* client that is gone are dropped.                                        *)
(***************************************************************************)
AddKnown(id, receivers) ==
    [p \in Players |-> IF p \in receivers \cap connected THEN known[p] \cup {id}
                                                         ELSE known[p]]

\* Mutant: the player that leaves is counted as well.
RemovePlayerCountingIt(p, reason) ==
    /\ connected'  = connected \ {p}
    /\ exitReason' = [exitReason EXCEPT ![p] = reason]
    /\ shouldExit' = (shouldExit \/ Cardinality(connected) <= 1)

(***************************************************************************)
(* RemovePlayer: the player is out, whatever the reason, and the match     *)
(* ends when at most one player is left.  Its objects stay on the map.     *)
(***************************************************************************)
RemovePlayer(p, reason) ==
    /\ connected'  = connected \ {p}
    /\ exitReason' = [exitReason EXCEPT ![p] = reason]
    /\ shouldExit' = (shouldExit \/ Cardinality(connected \ {p}) <= 1)

(***************************************************************************)
(* Resources given back when building b is deleted: part of its cost if it *)
(* is unfinished and its owner deleted it (rounded half up, like           *)
(* operator* of ResourceAmount), and all of its production queue.          *)
(***************************************************************************)
ConstructionRefund(b) ==
    (2 * (BuildSteps - b.built) * Cost[b.type] + BuildSteps) \div (2 * BuildSteps)

QueueCost(b) ==
    LET sum[i \in 0 .. Len(b.queue)] ==
          IF i = 0 THEN 0 ELSE sum[i - 1] + Cost[b.queue[i]]
    IN  sum[Len(b.queue)]

Refund(o, deletedManually) ==
    IF IsUnit(o) THEN 0
    ELSE QueueCost(o) + IF deletedManually /\ ~IsCompleted(o)
                          THEN ConstructionRefund(o) ELSE 0

\* Mutant: the unit in production is forgotten.
StatsAfterDeletionOfIdle(o) ==
    [stats EXCEPT ![o.owner] =
       IF IsUnit(o) THEN UnitRemoved(@, o.type)
                    ELSE BuildingRemoved(@, o.type, IsCompleted(o))]

StatsAfterDeletion(o) ==
    LET s == stats[o.owner]
    IN  [stats EXCEPT ![o.owner] =
           IF IsUnit(o) THEN UnitRemoved(s, o.type)
           ELSE BuildingRemoved(IF o.production > 0 THEN InProductionChange(s, -1)
                                                    ELSE s,
                                o.type, IsCompleted(o))]

\* Mutant: objects that wait for their deletion keep the player in the game.
DefeatedByErasure(p, id) ==
    {i \in DOMAIN objects : objects[i].owner = p} = {id}

\* Object id was the last one of player p.
Defeated(p, id) == LiveOf(p) \ {id} = {}

(***************************************************************************)
(* DeleteObject: everything but the erasure itself, which waits for the    *)
(* end of the game step.  Only players' objects are ever deleted.          *)
(***************************************************************************)
DeleteObject(id, deletedManually) ==
    LET o == objects[id]
        p == o.owner
    IN  /\ objectDeleteList' = objectDeleteList \cup {id}
        /\ IF id \in objectDeleteList
             THEN UNCHANGED <<occupied, resources, stats, connected, exitReason,
                              shouldExit, known>>
             ELSE /\ occupied' = IF IsBuilding(o) /\ ~IsFoundation(o)
                                   THEN occupied \ o.tiles ELSE occupied
                  /\ resources' = [resources EXCEPT ![p] = @ + Refund(o, deletedManually)]
                  /\ stats' = StatsAfterDeletion(o)
                  /\ known' = [q \in Players |->
                                 IF q = p /\ Defeated(p, id) THEN {}
                                 ELSE IF IsBuilding(o) /\ IsFoundation(o) /\ q # p
                                   THEN known[q]
                                 ELSE known[q] \ {id}]
                  /\ IF Defeated(p, id) THEN RemovePlayer(p, "Defeat")
                     ELSE UNCHANGED <<connected, exitReason, shouldExit>>
=============================================================================
