---------------------------- MODULE GameCommands ----------------------------
(***************************************************************************)
(* What the server does with the messages of the clients in a running      *)
(* match (Game::Handle...Message) and with clients that go away.  It       *)
(* happens in the first half of an iteration of RunGameLoop, where         *)
(* phase = "poll".  A handler that rejects a message changes nothing, so   *)
(* every action below is the accepting path, its guard the checks of the   *)
(* code.                                                                   *)
(***************************************************************************)
EXTENDS GameState, SequencesExt

(***************************************************************************)
(* Bound: units that are paid for get an ID when they are produced, so     *)
(* nothing is ordered that the IDs left over would not suffice for.        *)
(***************************************************************************)
Ordered == MapThenSumSet(LAMBDA id : IF IsBuilding(objects[id])
                                       THEN Len(objects[id].queue) ELSE 0,
                         DOMAIN objects)

IDsLeft == nextObjectID <= MaxObjects /\ nextObjectID + Ordered <= MaxObjects

CommandFrom(p, name) ==
    /\ phase = "poll"
    /\ p \in connected
    /\ name \in Commands[p]

OwnUnit(p, u)     == u \in DOMAIN objects /\ objects[u].owner = p /\ IsUnit(objects[u])
OwnBuilding(p, b) == b \in DOMAIN objects /\ objects[b].owner = p /\ IsBuilding(objects[b])

(***************************************************************************)
(* A client only names objects it has been told of.  It may not have seen  *)
(* their ObjectDeath message yet, so objects to be deleted count as well.  *)
(***************************************************************************)
Visible(p, id) ==
    /\ id \in DOMAIN objects
    /\ (IsBuilding(objects[id]) /\ IsFoundation(objects[id])) => objects[id].owner = p

CanAfford(p, t) == Cost[t] <= resources[p]

\* ServerUnit::SetMoveToTarget
HandleMoveToMapCoord(p, u) ==
    /\ CommandFrom(p, "MoveToMapCoord")
    /\ OwnUnit(p, u)
    /\ objects' = [objects EXCEPT ![u].moving = TRUE,
                                  ![u].target = NoObject,
                                  ![u].manual = NoObject]
    /\ UNCHANGED <<nextObjectID, occupied, objectDeleteList, resources, stats,
                   connected, exitReason, shouldExit, known, phase, todo>>

HandleSetTarget(p, u, t) ==
    /\ CommandFrom(p, "SetTarget")
    /\ OwnUnit(p, u)
    /\ Visible(p, t)
    /\ LET u2 == SetTarget(objects[u], t, TRUE)
       IN  /\ objects' = [objects EXCEPT ![u] = u2]
           /\ stats' = StatsAfterTransform(objects[u], u2)
    /\ UNCHANGED <<nextObjectID, occupied, objectDeleteList, resources,
                   connected, exitReason, shouldExit, known, phase, todo>>

HandleProduceUnit(p, b, t) ==
    /\ CommandFrom(p, "ProduceUnit")
    /\ IDsLeft
    /\ OwnBuilding(p, b)
    /\ IsCompleted(objects[b])
    /\ CanProduce(objects[b], t)
    /\ Len(objects[b].queue) < MaxQueue
    /\ CanAfford(p, t)
    /\ resources' = [resources EXCEPT ![p] = @ - Cost[t]]
    /\ objects' = [objects EXCEPT ![b].queue = Append(@, t)]
    /\ UNCHANGED <<nextObjectID, occupied, objectDeleteList, stats, connected,
                   exitReason, shouldExit, known, phase, todo>>

\* Mutant: the current item is only restarted.
DequeuedWaiting(b, index) ==
    IF index = 1 THEN [b EXCEPT !.production = 0] ELSE [b EXCEPT !.queue = RemoveAt(@, index)]

\* RemoveItemFromQueue: removing the first item restarts the production.
Dequeued(b, index) ==
    [b EXCEPT !.queue      = RemoveAt(@, index),
              !.production = IF index = 1 THEN 0 ELSE @]

(***************************************************************************)
(* The client names the item by its distance from the back of the queue.   *)
(***************************************************************************)
HandleDequeueProductionQueueItem(p, b, fromBack) ==
    /\ CommandFrom(p, "DequeueProductionQueueItem")
    /\ OwnBuilding(p, b)
    /\ fromBack < Len(objects[b].queue)
    /\ LET building == objects[b]
           index    == Len(building.queue) - fromBack
       IN  /\ stats' = IF index = 1 /\ building.production > 0
                         THEN [stats EXCEPT ![p] = InProductionChange(@, -1)]
                         ELSE stats
           /\ objects' = [objects EXCEPT ![b] = Dequeued(@, index)]
           /\ resources' = [resources EXCEPT ![p] = @ + Cost[building.queue[index]]]
    /\ UNCHANGED <<nextObjectID, occupied, objectDeleteList, connected,
                   exitReason, shouldExit, known, phase, todo>>

\* The counters after every villager in builders has become a builder.
TurnedToBuilders(s, builders) ==
    LET Turned(t) == Cardinality({u \in builders : objects[u].type = t})
    IN  [s EXCEPT !.unitsAlive = [t \in UnitTypes |->
           IF t = "Builder" THEN @[t] + Cardinality(builders) - Turned(t)
                            ELSE @[t] - Turned(t)]]

(***************************************************************************)
(* A foundation does not occupy its tiles, so others may overlap it.  The  *)
(* villagers among the selected units are sent to it.                      *)
(***************************************************************************)
HandlePlaceBuildingFoundation(p, t, tiles, builders) ==
    /\ CommandFrom(p, "PlaceBuildingFoundation")
    /\ IDsLeft
    /\ ~MaxInstancesReached(p, t)
    /\ tiles \in Footprints[t]
    /\ tiles \cap occupied = {}
    /\ CanAfford(p, t)
    /\ \A u \in builders : OwnUnit(p, u) /\ IsVillager(objects[u])
    /\ resources' = [resources EXCEPT ![p] = @ - Cost[t]]
    /\ nextObjectID' = nextObjectID + 1
    /\ LET id == nextObjectID
           foundation == NewBuilding(p, t, tiles, 0)
           \* SetUnitTargets: every builder constructs, whatever it was before
           Sent(u) == [objects[u] EXCEPT !.type   = "Builder",
                                         !.moving = TRUE,
                                         !.target = IF objects[u].attacking
                                                      THEN @ ELSE id,
                                         !.manual = id]
       IN  /\ objects' = [i \in DOMAIN objects \cup {id} |->
                            IF i = id THEN foundation
                            ELSE IF i \in builders THEN Sent(i) ELSE objects[i]]
           /\ stats' = [stats EXCEPT ![p] =
                           TurnedToBuilders(BuildingAdded(@, t, FALSE), builders)]
           /\ known' = AddKnown(id, {p})
    /\ UNCHANGED <<occupied, objectDeleteList, connected, exitReason, shouldExit,
                   phase, todo>>

HandleDeleteObject(p, id) ==
    /\ CommandFrom(p, "DeleteObject")
    /\ id \in DOMAIN objects
    /\ objects[id].owner = p
    /\ DeleteObject(id, TRUE)
    /\ UNCHANGED <<objects, nextObjectID, phase, todo>>

\* The client leaves ("Resign"), or its connection breaks or falls silent ("Drop").
PlayerGone(p, reason) ==
    /\ CommandFrom(p, reason)
    /\ RemovePlayer(p, reason)
    /\ known' = [known EXCEPT ![p] = {}]
    /\ UNCHANGED <<objects, nextObjectID, occupied, objectDeleteList, resources,
                   stats, phase, todo>>

Resign(p) == PlayerGone(p, "Resign")
Drop(p)   == PlayerGone(p, "Drop")

Command(p) ==
    \/ \E u \in DOMAIN objects : HandleMoveToMapCoord(p, u)
    \/ \E u, t \in DOMAIN objects : HandleSetTarget(p, u, t)
    \/ \E b \in DOMAIN objects, t \in {"Villager", "Militia"} : HandleProduceUnit(p, b, t)
    \/ \E b \in DOMAIN objects, k \in 0 .. MaxQueue - 1 :
         HandleDequeueProductionQueueItem(p, b, k)
    \/ \E t \in PlaceableTypes : \E tiles \in Footprints[t] :
         \E builders \in SUBSET {u \in DOMAIN objects : OwnUnit(p, u)} :
           HandlePlaceBuildingFoundation(p, t, tiles, builders)
    \/ \E id \in DOMAIN objects : HandleDeleteObject(p, id)
    \/ Resign(p)
    \/ Drop(p)
=============================================================================
