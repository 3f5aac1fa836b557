------------------------------ MODULE GameStep ------------------------------
(***************************************************************************)
(* One game step (Game::SimulateGameStep): every object of the map is      *)
(* visited once, in the order of an unordered_map, that is in any order;   *)
(* then the deletions of this step and of the commands before it take      *)
(* effect.  An object to be deleted is still visited.                      *)
(***************************************************************************)
EXTENDS GameState

\* Objects a visit to which can do something: the others are not visited here.
Busy(o) == IF IsUnit(o) THEN o.moving \/ o.attacking ELSE o.queue # <<>>

BusyObjects == {id \in DOMAIN objects : Busy(objects[id])}

BeginStep ==
    /\ phase = "simulate"
    /\ phase' = "step"
    /\ todo' = BusyObjects
    /\ UNCHANGED <<objects, nextObjectID, occupied, objectDeleteList, resources,
                   stats, connected, exitReason, shouldExit, known>>

Visit(id) ==
    /\ phase = "step"
    /\ id \in todo
    /\ todo' = todo \ {id}
    /\ UNCHANGED phase

VisitUnit(u) == Visit(u) /\ IsUnit(objects[u])

(***************************************************************************)
(* SimulateMeleeAttack called from the top of SimulateGameStepForUnit: an  *)
(* attack that has begun is not interrupted.  The damage is done in one    *)
(* step of the animation, to the unit's target as it is then.              *)
(***************************************************************************)
Swings(u) == u.attacking /\ u.clock + 1 < AttackTime

ContinueAttack(u) ==
    LET unit  == objects[u]
        t     == unit.target
        hits  == unit.clock + 1 = DamageTime /\ t \in DOMAIN objects
        swung == [objects EXCEPT ![u].clock = @ + 1]
    IN  /\ VisitUnit(u)
        /\ Swings(unit)
        /\ objects' = IF hits THEN [swung EXCEPT ![t].hp = IF @ > 1 THEN @ - 1 ELSE @]
                              ELSE swung
        /\ IF hits /\ objects[t].hp = 1
             THEN DeleteObject(t, FALSE)
             ELSE UNCHANGED <<occupied, objectDeleteList, resources, stats, connected,
                              exitReason, shouldExit, known>>
        /\ UNCHANGED nextObjectID

(***************************************************************************)
(* The unit when the rest of SimulateGameStepForUnit gets to it: if its    *)
(* attack just finished it follows the object it was manually sent to, and *)
(* a target that is gone is forgotten.                                     *)
(***************************************************************************)
AfterAttack(u) ==
    IF ~u.attacking THEN u
    ELSE LET rested == [u EXCEPT !.clock = 0]
         IN  IF u.manual \in DOMAIN objects
               THEN SetTarget(rested, u.manual, FALSE) ELSE rested

Ready(u) ==
    LET unit == AfterAttack(objects[u])
    IN  IF unit.moving /\ unit.target \notin DOMAIN objects
          THEN [unit EXCEPT !.target = NoObject] ELSE unit

\* SetCurrentAction, for an action other than Attack and for Attack.
Acts(u)    == [u EXCEPT !.attacking = FALSE, !.clock = 0]
Attacks(u) == [u EXCEPT !.attacking = TRUE,  !.clock = 0]

StopMovement(u) == [Acts(u) EXCEPT !.moving = FALSE]

\* What the movement at the end of the visit can make of unit u: it gets to the
\* next segment of its path, walks or is blocked, or arrives.
Walked(u) == {u, Acts(u), StopMovement(u)}

\* Unit u visited, not in the middle of an attack: it becomes u2.
UnitBecomes(u, u2) ==
    /\ VisitUnit(u)
    /\ ~Swings(objects[u])
    /\ objects' = [objects EXCEPT ![u] = u2]
    /\ stats' = StatsAfterTransform(objects[u], u2)

\* Unit u is in contact with its target, to which it can do this.
Reaches(u, interaction) ==
    LET unit == Ready(u)
    IN  /\ unit.moving
        /\ unit.target # NoObject
        /\ Interaction(unit, objects[unit.target]) = interaction

\* The unit does not touch its target, or cannot interact with it.
Walk(u) ==
    LET unit == Ready(u)
    IN  /\ \E u2 \in IF unit.moving THEN Walked(unit) ELSE {unit} : UnitBecomes(u, u2)
        /\ UNCHANGED <<nextObjectID, occupied, objectDeleteList, resources, connected,
                       exitReason, shouldExit, known>>

\* SimulateMeleeAttack for a unit that reaches its target: the animation begins.
BeginAttack(u) ==
    /\ Reaches(u, "Attack")
    /\ UnitBecomes(u, Attacks(Ready(u)))
    /\ UNCHANGED <<nextObjectID, occupied, objectDeleteList, resources, connected,
                   exitReason, shouldExit, known>>

\* Mutant: placing the foundation was check enough.
FoundationFreeAsPlaced(b) == TRUE

(***************************************************************************)
(* SimulateBuildingConstruction.  The first villager to reach a foundation *)
(* turns it into a building under construction, which takes its tiles and  *)
(* shows it to the other players.  If the tiles are taken the construction *)
(* is blocked; it may be in any case, by a unit that stands on them.       *)
(***************************************************************************)
FoundationFree(b) == b.tiles \cap occupied = {}

Construct(u) ==
    LET unit == Ready(u)
        id   == unit.target
        b    == objects[id]
        built2 == IF b.built < BuildSteps THEN b.built + 1 ELSE BuildSteps
        b2   == [b EXCEPT !.built = built2,
                          !.hp    = IF @ < BuildSteps THEN @ + 1 ELSE BuildSteps]
        transformed == StatsAfterTransform(objects[u], unit)
    IN  /\ VisitUnit(u)
        /\ ~Swings(objects[u])
        /\ Reaches(u, "Construct")
        /\ IsFoundation(b) => FoundationFree(b)
        /\ objects' = [objects EXCEPT ![u] = Acts(unit), ![id] = b2]
        /\ occupied' = IF IsFoundation(b) THEN occupied \cup b.tiles ELSE occupied
        /\ known' = IF IsFoundation(b) THEN AddKnown(id, Players \ {b.owner}) ELSE known
        /\ stats' = IF IsCompleted(b2)
                      THEN [transformed EXCEPT ![b.owner] = BuildingFinished(@, b.type)]
                      ELSE transformed
        /\ UNCHANGED <<nextObjectID, objectDeleteList, resources, connected, exitReason,
                       shouldExit>>

ConstructionBlocked(u) ==
    /\ Reaches(u, "Construct")
    /\ IsFoundation(objects[Ready(u).target])
    /\ UnitBecomes(u, StopMovement(Ready(u)))
    /\ UNCHANGED <<nextObjectID, occupied, objectDeleteList, resources, connected,
                   exitReason, shouldExit, known>>

(***************************************************************************)
(* SimulateResourceGathering.  A full villager turns to the closest        *)
(* drop-off point, which is any of its owner's: unfinished and doomed ones *)
(* are not passed over.                                                    *)
(***************************************************************************)
DropOffPoints(p) ==
    {id \in DOMAIN objects : objects[id].owner = p /\ IsDropOffPoint(objects[id])}

Gather(u) ==
    LET unit == Ready(u)
        more == [unit EXCEPT !.carried = IF @ < CarryCapacity THEN @ + 1 ELSE @]
    IN  /\ Reaches(u, "Collect")
        /\ IF more.carried < CarryCapacity
             THEN UnitBecomes(u, Acts(more))
           ELSE IF DropOffPoints(unit.owner) = {}
             THEN \E u2 \in Walked(more) : UnitBecomes(u, u2)
           ELSE \E d \in DropOffPoints(unit.owner) : UnitBecomes(u, SetTarget(more, d, FALSE))
        /\ UNCHANGED <<nextObjectID, occupied, objectDeleteList, resources, connected,
                       exitReason, shouldExit, known>>

\* Mutant: the load stays with the villager.
UnloadedInPart(u) == u

\* The villager after it has delivered what it carried.
Unloaded(u) == [u EXCEPT !.carried = 0]

(***************************************************************************)
(* SimulateResourceDropOff, and back to the object the villager was sent   *)
(* to manually, if that is another one and exists.                         *)
(***************************************************************************)
DropOff(u) ==
    LET unit   == Ready(u)
        empty  == Unloaded(unit)
        goBack == unit.manual # unit.target /\ unit.manual \in DOMAIN objects
        sent   == SetTarget(empty, unit.manual, FALSE)
    IN  /\ Reaches(u, "DropOff")
        /\ resources[unit.owner] + unit.carried <= MaxResources
        /\ \E u2 \in IF ~goBack THEN {StopMovement(empty)}
                     ELSE IF sent = empty THEN Walked(empty) ELSE {sent} : UnitBecomes(u, u2)
        /\ resources' = [resources EXCEPT ![unit.owner] = @ + unit.carried]
        /\ UNCHANGED <<nextObjectID, occupied, objectDeleteList, connected, exitReason,
                       shouldExit, known>>

VisitBuilding(b) == Visit(b) /\ IsBuilding(objects[b]) /\ objects[b].queue # <<>>

\* Mutant: what is being produced elsewhere does not count.
HasPopulationSpaceNow(p) == stats[p].population < stats[p].space

(***************************************************************************)
(* SimulateGameStepForBuilding: the first item of the queue is produced.   *)
(* It starts only if there is population space, and counts against that    *)
(* space from then on.                                                     *)
(***************************************************************************)
HasPopulationSpace(p) == PopulationIncludingInProduction(stats[p]) < stats[p].space

StartProduction(b) ==
    LET p == objects[b].owner
    IN  /\ VisitBuilding(b)
        /\ objects[b].production = 0
        /\ HasPopulationSpace(p)
        /\ objects' = [objects EXCEPT ![b].production = 1]
        /\ stats' = [stats EXCEPT ![p] = InProductionChange(@, 1)]
        /\ UNCHANGED <<nextObjectID, occupied, objectDeleteList, resources, connected,
                       exitReason, shouldExit, known>>

\* The player is housed: the production waits.
WaitForSpace(b) ==
    /\ VisitBuilding(b)
    /\ objects[b].production = 0
    /\ ~HasPopulationSpace(objects[b].owner)
    /\ UNCHANGED <<objects, nextObjectID, occupied, objectDeleteList, resources, stats,
                   connected, exitReason, shouldExit, known>>

ContinueProduction(b) ==
    /\ VisitBuilding(b)
    /\ objects[b].production \in 1 .. ProductionSteps - 2
    /\ objects' = [objects EXCEPT ![b].production = @ + 1]
    /\ UNCHANGED <<nextObjectID, occupied, objectDeleteList, resources, stats, connected,
                   exitReason, shouldExit, known>>

(***************************************************************************)
(* ProduceUnit inserts the new unit into the map the step iterates over.   *)
(* If that rehashes the map, objects not visited yet may be skipped, and   *)
(* ones visited before may be visited again.                               *)
(***************************************************************************)
CompleteProduction(b) ==
    LET building == objects[b]
        p        == building.owner
        t        == Head(building.queue)
        id       == nextObjectID
    IN  /\ phase = "step"
        /\ b \in todo
        /\ IsBuilding(building)
        /\ building.queue # <<>>
        /\ building.production = ProductionSteps - 1
        /\ nextObjectID <= MaxObjects
        /\ objects' = [i \in DOMAIN objects \cup {id} |->
                         IF i = id THEN NewUnit(p, t)
                         ELSE IF i = b THEN [building EXCEPT !.queue = Tail(@),
                                                             !.production = 0]
                         ELSE objects[i]]
        /\ nextObjectID' = nextObjectID + 1
        /\ stats' = [stats EXCEPT ![p] = UnitAdded(InProductionChange(@, -1), t)]
        /\ known' = AddKnown(id, Players)
        /\ todo' \in {todo \ {b}} \cup SUBSET (BusyObjects \ {b})
        /\ UNCHANGED <<occupied, objectDeleteList, resources, connected, exitReason,
                       shouldExit, phase>>

\* Mutant: objectDeleteList is not cleared.
EndStepKeepingList ==
    /\ phase = "step"
    /\ todo = {}
    /\ objects' = [id \in Live |-> objects[id]]
    /\ phase' = "simulate"
    /\ UNCHANGED <<nextObjectID, occupied, objectDeleteList, resources, stats,
                   connected, exitReason, shouldExit, known, todo>>

\* Delayed object deletion.
EndStep ==
    /\ phase = "step"
    /\ todo = {}
    /\ objects' = [id \in Live |-> objects[id]]
    /\ objectDeleteList' = {}
    /\ phase' = "simulate"
    /\ UNCHANGED <<nextObjectID, occupied, resources, stats, connected, exitReason,
                   shouldExit, known, todo>>

VisitedUnit(u) ==
    \/ ContinueAttack(u) \/ Walk(u) \/ BeginAttack(u) \/ Construct(u)
    \/ ConstructionBlocked(u) \/ Gather(u) \/ DropOff(u)

\* Mutant: a production that has started waits for population space as well.
VisitedBuildingWithSpace(b) ==
    IF HasPopulationSpace(objects[b].owner)
      THEN StartProduction(b) \/ ContinueProduction(b) \/ CompleteProduction(b)
      ELSE /\ VisitBuilding(b)
           /\ UNCHANGED <<objects, nextObjectID, occupied, objectDeleteList, resources,
                          stats, connected, exitReason, shouldExit, known>>

VisitedBuilding(b) ==
    \/ StartProduction(b) \/ WaitForSpace(b) \/ ContinueProduction(b)
    \/ CompleteProduction(b)

VisitObject(id) == IF IsUnit(objects[id]) THEN VisitedUnit(id) ELSE VisitedBuilding(id)
=============================================================================
