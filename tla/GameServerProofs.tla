-------------------------- MODULE GameServerProofs --------------------------
(***************************************************************************)
(* Proofs about a running match on the server, for any number of players,  *)
(* any map and any commands.                                               *)
(*                                                                         *)
(*   NoOverlap              no two buildings share a tile, but for those   *)
(*                          of the start map (OccupancyExclusive)          *)
(*   NobodyWithoutObjects   whoever has no objects is out (StillThere)     *)
(*   EndsWhenDecided        the server ends exactly when the match is      *)
(*                          decided (ExitIffDecided)                       *)
(*   TypesAlwaysRight       everything has its type (TypeOK)               *)
(*   CountersFollowObjects  the counters of PlayerStats stay a recount of  *)
(*                          the player's objects (StatsFollowObjects)      *)
(*   PopulationNeverForced  the population grows only where there is space *)
(*                          for it (PopulationCapped)                      *)
(*   WealthIsEarned         resources are gathered, and come from nothing  *)
(*                          else (NoFreeResources)                         *)
(*                                                                         *)
(* The first three are parts of MatchInv, which is inductive.  The others  *)
(* rest on it and on BooksOK, what the server keeps about a player beside  *)
(* the map.  A recount is a record of cardinalities and of a sum over a    *)
(* set, and the wealth is such a sum, of sums over queues: Induction says  *)
(* what one more, less or changed object does to them.  Each action is     *)
(* then one lemma: which object it changes, adds or deletes, and what      *)
(* becomes of the counters or the resources.                               *)
(***************************************************************************)
EXTENDS GameServer, Induction, SequenceTheorems, FiniteSetTheorems, TLAPS

\* Somebody is only ever attacked: units do not attack what belongs to Gaia.
AttacksPlayers ==
    \A u \in DOMAIN objects :
      (/\ IsUnit(objects[u])
       /\ objects[u].attacking
       /\ objects[u].target \in DOMAIN objects)
      => objects[objects[u].target].owner \in Players

\* Gaia produces nothing.
GaiaIdle ==
    \A b \in DOMAIN objects :
      (IsBuilding(objects[b]) /\ objects[b].owner = Gaia) => objects[b].queue = <<>>

MapInv == MapOK /\ AttacksPlayers /\ GaiaIdle

MatchInv ==
    /\ MapInv
    /\ PlayersOK
    /\ OccupancyExclusive
    /\ StillThere
    /\ ExitIffDecided

LEMMA Sizes ==
    /\ BuildSteps \in Nat /\ BuildSteps > 1 /\ ProductionSteps \in Nat /\ ProductionSteps > 1
    /\ AttackTime \in Nat /\ CarryCapacity \in Nat /\ UnitHP \in Nat /\ UnitHP > 0
    /\ MaxObjects \in Nat /\ MaxQueue \in Nat
BY GameAssumption

LEMMA TypesDisjoint == UnitTypes \cap BuildingTypes = {}
BY DEF UnitTypes, VillagerTypes, BuildingTypes

\* An object is a unit or a building, as its type says.
LEMMA Kinds ==
    ASSUME NEW o \in Units \cup Buildings
    PROVE  /\ IsUnit(o) <=> o \in Units
           /\ IsBuilding(o) <=> o \in Buildings
           /\ IsUnit(o) <=> ~IsBuilding(o)
           /\ o.owner \in Players \cup {Gaia}
BY TypesDisjoint DEF Units, Buildings, IsUnit, IsBuilding

(***************************************************************************)
(* Units.  Fits(u, v) says that v can take the place of unit u on the map. *)
(***************************************************************************)
Fits(u, v) ==
    /\ v \in Units
    /\ v.owner = objects[u].owner
    /\ (v.attacking /\ v.target \in DOMAIN objects)
         => objects[v.target].owner \in Players

LEMMA UnitFits ==
    ASSUME MapInv, NEW u \in DOMAIN objects, IsUnit(objects[u])
    PROVE  Fits(u, objects[u])
BY Kinds DEF MapInv, MapOK, AttacksPlayers, Fits

LEMMA IdsAreObjectIds ==
    ASSUME MapOK
    PROVE  DOMAIN objects \subseteq ObjectIds /\ NoObject \notin DOMAIN objects
BY Sizes DEF MapOK, ObjectIds, NoObject

\* A unit that is sent to an object still fits: it keeps the target of an
\* attack, and is not attacking otherwise.  It also keeps its load.
LEMMA SetTargetFits ==
    ASSUME MapOK, NEW u \in DOMAIN objects, NEW v, Fits(u, v),
           NEW t \in DOMAIN objects, NEW isManual \in BOOLEAN
    PROVE  Fits(u, SetTarget(v, t, isManual)) /\ SetTarget(v, t, isManual).carried = v.carried
<1>1. t \in ObjectIds
  BY IdsAreObjectIds
<1>2. CASE Interaction(v, objects[t]) = "Invalid"
  BY <1>2 DEF SetTarget
<1>3. CASE Interaction(v, objects[t]) # "Invalid"
  <2> DEFINE type2 == CASE Interaction(v, objects[t]) = "Construct" -> "Builder"
                        [] Interaction(v, objects[t]) = "Collect"   -> "Lumberjack"
                        [] OTHER                                    -> v.type
             target2 == IF v.attacking THEN v.target ELSE t
             manual2 == IF isManual THEN t ELSE v.manual
  <2>1. SetTarget(v, t, isManual) =
          [v EXCEPT !.type = type2, !.moving = TRUE, !.target = target2, !.manual = manual2]
    BY <1>3 DEF SetTarget
  <2>2. v \in Units
    BY DEF Fits
  <2>3. type2 \in UnitTypes
    BY <2>2 DEF Units, UnitTypes, VillagerTypes
  <2>4. target2 \in ObjectIds \cup {NoObject} /\ manual2 \in ObjectIds \cup {NoObject}
    BY <1>1, <2>2 DEF Units
  <2> HIDE DEF type2, manual2
  <2>5. SetTarget(v, t, isManual) \in Units
    BY <2>1, <2>2, <2>3, <2>4 DEF Units
  <2>6. /\ SetTarget(v, t, isManual).owner = v.owner
        /\ SetTarget(v, t, isManual).attacking = v.attacking
        /\ v.attacking => SetTarget(v, t, isManual).target = v.target
        /\ SetTarget(v, t, isManual).carried = v.carried
    BY <2>1, <2>2 DEF Units
  <2> QED
    BY <2>5, <2>6 DEF Fits, Units
<1> QED
  BY <1>2, <1>3

LEMMA ReadyFits ==
    ASSUME MapInv, NEW u \in DOMAIN objects, IsUnit(objects[u])
    PROVE  Fits(u, Ready(u)) /\ Ready(u).carried = objects[u].carried
<1> DEFINE o      == objects[u]
           rested == [o EXCEPT !.clock = 0]
           unit   == AfterAttack(o)
<1>1. MapOK /\ Fits(u, o)
  BY UnitFits DEF MapInv
<1>2. Fits(u, rested) /\ rested.carried = o.carried
  BY <1>1, Sizes DEF Fits, Units
<1>3. Fits(u, unit) /\ unit.carried = o.carried
  <2>1. CASE o.attacking /\ o.manual \in DOMAIN objects
    BY <1>1, <1>2, <2>1, SetTargetFits DEF AfterAttack
  <2>2. CASE ~(o.attacking /\ o.manual \in DOMAIN objects)
    BY <1>1, <1>2, <2>2 DEF AfterAttack
  <2> QED
    BY <2>1, <2>2
<1>4. NoObject \notin DOMAIN objects
  BY <1>1, IdsAreObjectIds
<1> HIDE DEF unit
<1>5. /\ Fits(u, [unit EXCEPT !.target = NoObject])
      /\ [unit EXCEPT !.target = NoObject].carried = unit.carried
  BY <1>3, <1>4 DEF Fits, Units
<1> QED
  BY <1>3, <1>5 DEF Ready, unit

\* What a unit does and how it walks does not give it a target.
LEMMA WalkingFits ==
    ASSUME NEW u \in DOMAIN objects, NEW v, Fits(u, v)
    PROVE  /\ Fits(u, Acts(v)) /\ Acts(v).carried = v.carried
           /\ Fits(u, StopMovement(v)) /\ StopMovement(v).carried = v.carried
           /\ \A w \in Walked(v) : Fits(u, w) /\ w.carried = v.carried
<1>1. Fits(u, Acts(v)) /\ Acts(v).carried = v.carried
  <2>1. v \in Units /\ 0 \in 0 .. AttackTime
    BY Sizes DEF Fits
  <2>2. /\ Acts(v) \in Units /\ Acts(v).owner = v.owner /\ Acts(v).attacking = FALSE
        /\ Acts(v).carried = v.carried
    BY <2>1 DEF Units, Acts
  <2> QED
    BY <2>2 DEF Fits
<1>2. Fits(u, StopMovement(v)) /\ StopMovement(v).carried = v.carried
  BY <1>1 DEF Fits, Units, StopMovement
<1> QED
  BY <1>1, <1>2 DEF Walked

(***************************************************************************)
(* Most steps keep every object what it is.                                *)
(***************************************************************************)
Kept(i) ==
    IF IsUnit(objects[i]) THEN Fits(i, objects'[i])
    ELSE /\ objects'[i] \in Buildings
         /\ objects'[i].owner = objects[i].owner
         /\ objects'[i].tiles = objects[i].tiles
         /\ objects[i].owner = Gaia => objects'[i].queue = <<>>

SameKind(i) ==
    IsBuilding(objects[i]) => (IsFoundation(objects'[i]) <=> IsFoundation(objects[i]))

Same == DOMAIN objects' = DOMAIN objects /\ \A i \in DOMAIN objects : Kept(i)

AllKept == Same /\ \A i \in DOMAIN objects : SameKind(i)

LEMMA Unchanged ==
    ASSUME MapInv, NEW i \in DOMAIN objects, objects'[i] = objects[i]
    PROVE  Kept(i) /\ SameKind(i)
BY Kinds, UnitFits DEF MapInv, MapOK, GaiaIdle, Kept, SameKind

\* What stays true of an object that was kept.
LEMMA KeptFacts ==
    ASSUME MapInv, NEW i \in DOMAIN objects, Kept(i)
    PROVE  /\ objects'[i] \in Units \cup Buildings
           /\ objects'[i].owner = objects[i].owner
           /\ IsUnit(objects'[i]) <=> IsUnit(objects[i])
           /\ IsBuilding(objects'[i]) <=> IsBuilding(objects[i])
           /\ IsBuilding(objects[i]) => objects'[i].tiles = objects[i].tiles
<1>1. objects[i] \in Units \cup Buildings
  BY DEF MapInv, MapOK
<1>2. CASE IsUnit(objects[i])
  BY <1>1, <1>2, Kinds DEF Kept, Fits
<1>3. CASE ~IsUnit(objects[i])
  BY <1>1, <1>3, Kinds DEF Kept
<1> QED
  BY <1>2, <1>3

LEMMA KeptMap ==
    ASSUME MapInv, Same, nextObjectID' = nextObjectID, occupied' \subseteq Tiles,
           objectDeleteList' \subseteq DOMAIN objects,
           \A i \in objectDeleteList' : objects[i].owner \in Players,
           todo' \subseteq DOMAIN objects
    PROVE  MapInv'
<1>1. MapOK'
  BY KeptFacts DEF MapInv, MapOK, Same
<1>2. AttacksPlayers'
  <2> SUFFICES ASSUME NEW u \in DOMAIN objects, IsUnit(objects'[u]), objects'[u].attacking,
                      objects'[u].target \in DOMAIN objects
               PROVE  objects'[objects'[u].target].owner \in Players
    BY DEF AttacksPlayers, Same
  <2>1. Kept(u) /\ IsUnit(objects[u])
    BY KeptFacts DEF Same
  <2>2. objects[objects'[u].target].owner \in Players
    BY <2>1 DEF Kept, Fits
  <2> QED
    BY <2>2, KeptFacts DEF Same
<1>3. GaiaIdle'
  <2> SUFFICES ASSUME NEW b \in DOMAIN objects, IsBuilding(objects'[b]),
                      objects'[b].owner = Gaia
               PROVE  objects'[b].queue = <<>>
    BY DEF GaiaIdle, Same
  <2>1. objects[b].owner = Gaia /\ ~IsUnit(objects[b])
    BY KeptFacts, Kinds DEF MapInv, MapOK, Same
  <2> QED
    BY <2>1 DEF Same, Kept
<1> QED
  BY <1>1, <1>2, <1>3 DEF MapInv

LEMMA KeptSets ==
    ASSUME MapInv, AllKept, objectDeleteList' = objectDeleteList
    PROVE  /\ Live' = Live
           /\ LiveBuildings' = LiveBuildings
           /\ \A p \in Players : LiveOf(p)' = LiveOf(p)
<1>1. Live' = Live /\ Live \subseteq DOMAIN objects
  BY DEF Live, AllKept, Same
<1>2. LiveBuildings' = LiveBuildings
  BY <1>1, KeptFacts DEF LiveBuildings, AllKept, Same, SameKind
<1>3. \A p \in Players : LiveOf(p)' = LiveOf(p)
  BY <1>1, KeptFacts DEF LiveOf, AllKept, Same
<1> QED
  BY <1>1, <1>2, <1>3

\* A step that keeps all objects and deletes none.
LEMMA KeptStep ==
    ASSUME MatchInv, AllKept, todo' \subseteq DOMAIN objects,
           UNCHANGED <<nextObjectID, occupied, objectDeleteList, connected, exitReason,
                       shouldExit>>
    PROVE  MatchInv'
<1>1. MapInv
  BY DEF MatchInv
<1>2. MapInv'
  BY <1>1, KeptMap DEF MapInv, MapOK, AllKept
<1>3. LiveBuildings \subseteq DOMAIN objects
  BY DEF LiveBuildings, Live
<1>4. \A b \in LiveBuildings : objects'[b].tiles = objects[b].tiles
  BY <1>1, <1>3, KeptFacts DEF LiveBuildings, AllKept, Same
<1>5. OccupancyExclusive'
  BY <1>1, <1>4, KeptSets DEF MatchInv, OccupancyExclusive
<1>6. StillThere'
  BY <1>1, KeptSets DEF MatchInv, StillThere, PlayersOK
<1>7. PlayersOK' /\ ExitIffDecided'
  BY DEF MatchInv, PlayersOK, ExitIffDecided
<1> QED
  BY <1>2, <1>5, <1>6, <1>7 DEF MatchInv

(***************************************************************************)
(* Players and objects that go.                                            *)
(***************************************************************************)
\* A player who is out was the event that decides the match, or not.
LEMMA PlayerRemoved ==
    ASSUME PlayersOK, ExitIffDecided, NEW p \in Players, NEW reason \in ExitReasons,
           RemovePlayer(p, reason)
    PROVE  PlayersOK' /\ ExitIffDecided'
<1>1. IsFiniteSet(connected) /\ IsFiniteSet(connected \ {p})
  BY FS_Subset, GameAssumption DEF PlayersOK
<1>2. /\ Cardinality(connected) \in Nat /\ Cardinality(connected \ {p}) \in Nat
      /\ Cardinality(connected \ {p}) <= Cardinality(connected)
  BY <1>1, FS_CardinalityType, FS_Subset
<1>3. PlayersOK'
  BY DEF PlayersOK, RemovePlayer
<1>4. exitReason'[p] # "none" /\ connected' = connected \ {p}
  BY DEF PlayersOK, RemovePlayer, ExitReasons
<1>5. shouldExit' <=> (shouldExit \/ Cardinality(connected \ {p}) <= 1)
  BY DEF RemovePlayer
<1>6. shouldExit => Cardinality(connected) <= 1
  BY DEF ExitIffDecided
<1>7. shouldExit' <=> Cardinality(connected') <= 1
  BY <1>2, <1>4, <1>5, <1>6
<1> QED
  BY <1>3, <1>4, <1>7 DEF ExitIffDecided

\* The deletion of a player's object, in a step that keeps all objects otherwise.
LEMMA KeptDeletion ==
    ASSUME MatchInv, AllKept, NEW id \in DOMAIN objects, objects[id].owner \in Players,
           NEW deletedManually, DeleteObject(id, deletedManually),
           nextObjectID' = nextObjectID, todo' \subseteq DOMAIN objects
    PROVE  MatchInv'
<1> DEFINE p == objects[id].owner
<1>1. MapInv /\ PlayersOK /\ ExitIffDecided
  BY DEF MatchInv
<1>2. objectDeleteList' = objectDeleteList \cup {id}
  BY DEF DeleteObject
<1>3. CASE id \in objectDeleteList
  <2>1. UNCHANGED <<nextObjectID, occupied, objectDeleteList, connected, exitReason,
                    shouldExit>>
    BY <1>2, <1>3 DEF DeleteObject
  <2> QED
    BY <2>1, KeptStep
<1>4. CASE id \notin objectDeleteList
  <2>1. /\ occupied' = IF IsBuilding(objects[id]) /\ ~IsFoundation(objects[id])
                         THEN occupied \ objects[id].tiles ELSE occupied
        /\ IF Defeated(p, id) THEN RemovePlayer(p, "Defeat")
           ELSE UNCHANGED <<connected, exitReason, shouldExit>>
    BY <1>4 DEF DeleteObject
  <2>2. MapInv'
    BY <1>1, <1>2, <2>1, KeptMap DEF MapInv, MapOK, AllKept
  <2>3. Live' = Live \ {id} /\ Live \subseteq DOMAIN objects /\ id \in Live
    BY <1>2, <1>4 DEF Live, AllKept, Same
  <2>4. LiveBuildings' = LiveBuildings \ {id} /\ LiveBuildings \subseteq DOMAIN objects
    BY <1>1, <2>3, KeptFacts DEF LiveBuildings, AllKept, Same, SameKind
  <2>5. \A b \in LiveBuildings : objects'[b].tiles = objects[b].tiles
    BY <1>1, <2>4, KeptFacts DEF LiveBuildings, AllKept, Same
  <2>6. OccupancyExclusive'
    <3>1. CASE id \in LiveBuildings
      <4>1. occupied' = occupied \ objects[id].tiles
        BY <2>1, <3>1 DEF LiveBuildings
      <4> QED
        BY <2>4, <2>5, <3>1, <4>1 DEF MatchInv, OccupancyExclusive
    <3>2. CASE id \notin LiveBuildings
      <4>1. occupied' = occupied
        BY <2>1, <2>3, <3>2 DEF LiveBuildings
      <4> QED
        BY <2>4, <2>5, <3>2, <4>1 DEF MatchInv, OccupancyExclusive
    <3> QED
      BY <3>1, <3>2
  <2>7. \A q \in Players : LiveOf(q)' = LiveOf(q) \ {id}
    BY <1>1, <2>3, KeptFacts DEF LiveOf, AllKept, Same
  <2>8. \A q \in Players \ {p} : id \notin LiveOf(q)
    BY DEF LiveOf
  <2>9. StillThere'
    BY <2>1, <2>7, <2>8 DEF MatchInv, StillThere, PlayersOK, RemovePlayer, Defeated
  <2>10. PlayersOK' /\ ExitIffDecided'
    <3>1. CASE Defeated(p, id)
      BY <1>1, <2>1, <3>1, PlayerRemoved DEF ExitReasons
    <3>2. CASE ~Defeated(p, id)
      BY <1>1, <2>1, <3>2 DEF PlayersOK, ExitIffDecided
    <3> QED
      BY <3>1, <3>2
  <2> QED
    BY <2>2, <2>6, <2>9, <2>10 DEF MatchInv
<1> QED
  BY <1>3, <1>4

LEMMA AllUnchanged ==
    ASSUME MapInv, UNCHANGED objects
    PROVE  AllKept
BY Unchanged DEF AllKept, Same

\* A step that makes unit u become v and concerns nothing else.
LEMMA UnitStep ==
    ASSUME MatchInv, NEW u \in DOMAIN objects, IsUnit(objects[u]), NEW v, Fits(u, v),
           objects' = [objects EXCEPT ![u] = v], todo' \subseteq DOMAIN objects,
           UNCHANGED <<nextObjectID, occupied, objectDeleteList, connected, exitReason,
                       shouldExit>>
    PROVE  MatchInv'
<1>1. MapInv /\ ~IsBuilding(objects[u])
  BY Kinds DEF MatchInv, MapInv, MapOK
<1>2. AllKept
  BY <1>1, Unchanged DEF AllKept, Same, Kept, SameKind
<1> QED
  BY <1>2, KeptStep

\* A step that changes the queue or the production of a player's building.
LEMMA QueueStep ==
    ASSUME MatchInv, NEW b \in DOMAIN objects, NEW b2,
           IsBuilding(objects[b]), objects[b].owner # Gaia,
           b2 \in Buildings, b2.owner = objects[b].owner, b2.tiles = objects[b].tiles,
           b2.built = objects[b].built,
           objects' = [objects EXCEPT ![b] = b2],
           todo' \subseteq DOMAIN objects,
           UNCHANGED <<nextObjectID, occupied, objectDeleteList, connected, exitReason,
                       shouldExit>>
    PROVE  MatchInv'
<1>1. MapInv
  BY DEF MatchInv
<1>2. ~IsUnit(objects[b])
  BY <1>1, Kinds DEF MapInv, MapOK
<1>3. AllKept
  BY <1>1, <1>2, Unchanged DEF AllKept, Same, Kept, SameKind, IsFoundation
<1> QED
  BY <1>3, KeptStep

(***************************************************************************)
(* The commands.                                                           *)
(***************************************************************************)
LEMMA MoveStep ==
    ASSUME MatchInv, NEW p \in Players, NEW u \in DOMAIN objects, HandleMoveToMapCoord(p, u)
    PROVE  MatchInv'
<1>1. MapInv /\ IsUnit(objects[u])
  BY DEF MatchInv, HandleMoveToMapCoord, OwnUnit
<1> DEFINE v == [objects[u] EXCEPT !.moving = TRUE, !.target = NoObject, !.manual = NoObject]
<1>2. objects' = [objects EXCEPT ![u] = v]
  BY DEF HandleMoveToMapCoord
<1>3. Fits(u, v)
  <2>1. Fits(u, objects[u]) /\ NoObject \notin DOMAIN objects
    BY <1>1, UnitFits, IdsAreObjectIds DEF MapInv
  <2>2. v \in Units /\ v.owner = objects[u].owner /\ v.target = NoObject
    BY <2>1 DEF Fits, Units
  <2> QED
    BY <2>1, <2>2 DEF Fits
<1> HIDE DEF v
<1> QED
  BY <1>1, <1>2, <1>3, UnitStep DEF HandleMoveToMapCoord, MapInv, MapOK

LEMMA SetTargetStep ==
    ASSUME MatchInv, NEW p \in Players, NEW u \in DOMAIN objects, NEW t \in DOMAIN objects,
           HandleSetTarget(p, u, t)
    PROVE  MatchInv'
<1>1. MapInv /\ MapOK /\ IsUnit(objects[u])
  BY DEF MatchInv, MapInv, HandleSetTarget, OwnUnit
<1>2. objects' = [objects EXCEPT ![u] = SetTarget(objects[u], t, TRUE)]
  BY DEF HandleSetTarget
<1>3. Fits(u, SetTarget(objects[u], t, TRUE))
  BY <1>1, UnitFits, SetTargetFits
<1> QED
  BY <1>1, <1>2, <1>3, UnitStep DEF HandleSetTarget, MapOK

LEMMA ProduceUnitStep ==
    ASSUME MatchInv, NEW p \in Players, NEW b \in DOMAIN objects,
           NEW t \in {"Villager", "Militia"}, HandleProduceUnit(p, b, t)
    PROVE  MatchInv'
<1> DEFINE b2 == [objects[b] EXCEPT !.queue = Append(@, t)]
<1>1. MapOK /\ IsBuilding(objects[b]) /\ objects[b].owner # Gaia
  BY GameAssumption DEF MatchInv, MapInv, HandleProduceUnit, OwnBuilding
<1>2. objects[b] \in Buildings
  BY <1>1, Kinds DEF MapOK
<1>3. Append(objects[b].queue, t) \in Seq(UnitTypes)
  BY <1>2 DEF Buildings, UnitTypes, VillagerTypes
<1>4. /\ b2 \in Buildings /\ b2.owner = objects[b].owner /\ b2.tiles = objects[b].tiles
      /\ b2.built = objects[b].built
  BY <1>2, <1>3 DEF Buildings
<1>5. objects' = [objects EXCEPT ![b] = b2]
  BY DEF HandleProduceUnit
<1> HIDE DEF b2
<1> QED
  BY <1>1, <1>4, <1>5, QueueStep DEF HandleProduceUnit, MapOK

LEMMA DequeueStep ==
    ASSUME MatchInv, NEW p \in Players, NEW b \in DOMAIN objects,
           NEW k \in 0 .. MaxQueue - 1, HandleDequeueProductionQueueItem(p, b, k)
    PROVE  MatchInv'
<1> DEFINE index == Len(objects[b].queue) - k
           b2    == Dequeued(objects[b], index)
<1>1. MapOK /\ IsBuilding(objects[b]) /\ objects[b].owner # Gaia
  BY GameAssumption DEF MatchInv, MapInv, HandleDequeueProductionQueueItem, OwnBuilding
<1>2. objects[b] \in Buildings
  BY <1>1, Kinds DEF MapOK
<1>3. RemoveAt(objects[b].queue, index) \in Seq(UnitTypes)
  <2>1. objects[b].queue \in Seq(UnitTypes) /\ k < Len(objects[b].queue)
    BY <1>2 DEF Buildings, HandleDequeueProductionQueueItem
  <2>2. index \in 1 .. Len(objects[b].queue)
    BY <2>1, Sizes
  <2> HIDE DEF index
  <2>3. /\ SubSeq(objects[b].queue, 1, index - 1) \in Seq(UnitTypes)
        /\ SubSeq(objects[b].queue, index + 1, Len(objects[b].queue)) \in Seq(UnitTypes)
    BY <2>1, <2>2
  <2> QED
    BY <2>3 DEF RemoveAt
<1> HIDE DEF index
<1>4. /\ b2 \in Buildings /\ b2.owner = objects[b].owner /\ b2.tiles = objects[b].tiles
      /\ b2.built = objects[b].built
  <2> DEFINE queue2      == RemoveAt(objects[b].queue, index)
             production2 == IF index = 1 THEN 0 ELSE objects[b].production
  <2>1. b2 = [objects[b] EXCEPT !.queue = queue2, !.production = production2]
    BY DEF Dequeued
  <2>2. production2 \in 0 .. ProductionSteps
    BY <1>2, Sizes DEF Buildings
  <2> HIDE DEF queue2, production2, b2
  <2> QED
    BY <1>2, <1>3, <2>1, <2>2 DEF Buildings, queue2
<1>5. objects' = [objects EXCEPT ![b] = b2]
  BY DEF HandleDequeueProductionQueueItem, index
<1> HIDE DEF b2
<1> QED
  BY <1>1, <1>4, <1>5, QueueStep DEF HandleDequeueProductionQueueItem, MapOK

LEMMA DeleteStep ==
    ASSUME MatchInv, NEW p \in Players, NEW id \in DOMAIN objects, HandleDeleteObject(p, id)
    PROVE  MatchInv'
<1>1. MapInv /\ AllKept
  BY AllUnchanged DEF HandleDeleteObject, MatchInv
<1> QED
  BY <1>1, KeptDeletion DEF HandleDeleteObject, MapInv, MapOK

LEMMA GoneStep ==
    ASSUME MatchInv, NEW p \in Players, NEW reason \in {"Resign", "Drop"},
           PlayerGone(p, reason)
    PROVE  MatchInv'
<1>1. MapInv /\ AllKept
  BY AllUnchanged DEF PlayerGone, MatchInv
<1>2. MapInv'
  BY <1>1, KeptMap DEF PlayerGone, MapInv, MapOK, AllKept
<1>3. PlayersOK' /\ ExitIffDecided'
  BY PlayerRemoved DEF MatchInv, PlayerGone, ExitReasons
<1>4. OccupancyExclusive'
  BY DEF MatchInv, PlayerGone, OccupancyExclusive, LiveBuildings, Live
<1>5. StillThere'
  BY DEF MatchInv, PlayerGone, StillThere, RemovePlayer, LiveOf, Live
<1> QED
  BY <1>2, <1>3, <1>4, <1>5 DEF MatchInv

(***************************************************************************)
(* An object of a player that is added: a foundation or an idle unit.      *)
(***************************************************************************)
LEMMA AddedStep ==
    ASSUME MatchInv, nextObjectID <= MaxObjects, nextObjectID' = nextObjectID + 1,
           DOMAIN objects' = DOMAIN objects \cup {nextObjectID},
           \A i \in DOMAIN objects : Kept(i) /\ SameKind(i),
           objects'[nextObjectID] \in Units \cup Buildings,
           objects'[nextObjectID].owner \in Players,
           IsUnit(objects'[nextObjectID]) => ~objects'[nextObjectID].attacking,
           IsBuilding(objects'[nextObjectID]) => IsFoundation(objects'[nextObjectID]),
           todo' \subseteq DOMAIN objects',
           UNCHANGED <<occupied, objectDeleteList, connected, exitReason, shouldExit>>
    PROVE  MatchInv'
<1> DEFINE id == nextObjectID
<1>1. MapInv /\ MapOK
  BY DEF MatchInv, MapInv
<1>2. id \notin DOMAIN objects /\ id \notin objectDeleteList
  BY <1>1 DEF MapOK
<1>3. \A i \in DOMAIN objects :
        /\ objects'[i] \in Units \cup Buildings
        /\ objects'[i].owner = objects[i].owner
        /\ IsUnit(objects'[i]) <=> IsUnit(objects[i])
        /\ IsBuilding(objects'[i]) <=> IsBuilding(objects[i])
        /\ IsBuilding(objects[i]) => objects'[i].tiles = objects[i].tiles
  BY <1>1, KeptFacts
<1>4. MapOK'
  BY <1>1, <1>3, Sizes DEF MapOK
<1>5. AttacksPlayers'
  <2> SUFFICES ASSUME NEW u \in DOMAIN objects', IsUnit(objects'[u]), objects'[u].attacking,
                      objects'[u].target \in DOMAIN objects'
               PROVE  objects'[objects'[u].target].owner \in Players
    BY DEF AttacksPlayers
  <2>1. u \in DOMAIN objects
    OBVIOUS
  <2>2. CASE objects'[u].target = id
    BY <2>2
  <2>3. CASE objects'[u].target \in DOMAIN objects
    <3>1. IsUnit(objects[u]) /\ Kept(u)
      BY <1>3, <2>1
    <3>2. objects[objects'[u].target].owner \in Players
      BY <2>3, <3>1 DEF Kept, Fits
    <3> QED
      BY <1>3, <2>3, <3>2
  <2> QED
    BY <2>2, <2>3
<1>6. GaiaIdle'
  <2> SUFFICES ASSUME NEW b \in DOMAIN objects', IsBuilding(objects'[b]),
                      objects'[b].owner = Gaia
               PROVE  objects'[b].queue = <<>>
    BY DEF GaiaIdle
  <2>1. b \in DOMAIN objects
    BY GameAssumption
  <2>2. objects[b].owner = Gaia /\ ~IsUnit(objects[b])
    BY <1>1, <1>3, <2>1, Kinds DEF MapOK
  <2> QED
    BY <2>1, <2>2 DEF Kept
<1>7. Live' = Live \cup {id} /\ Live \subseteq DOMAIN objects
  BY <1>2 DEF Live
<1>8. LiveBuildings' = LiveBuildings /\ LiveBuildings \subseteq DOMAIN objects
  BY <1>3, <1>7 DEF LiveBuildings, SameKind
<1>9. \A b \in LiveBuildings : objects'[b].tiles = objects[b].tiles
  BY <1>3, <1>8 DEF LiveBuildings
<1>10. OccupancyExclusive'
  BY <1>8, <1>9 DEF MatchInv, OccupancyExclusive
<1>11. \A p \in Players : LiveOf(p) \subseteq LiveOf(p)'
  BY <1>3, <1>7 DEF LiveOf
<1>12. StillThere'
  BY <1>11 DEF MatchInv, StillThere, PlayersOK
<1>13. PlayersOK' /\ ExitIffDecided'
  BY DEF MatchInv, PlayersOK, ExitIffDecided
<1> QED
  BY <1>4, <1>5, <1>6, <1>10, <1>12, <1>13 DEF MatchInv, MapInv

LEMMA PlaceStep ==
    ASSUME MatchInv, NEW p \in Players, NEW t \in PlaceableTypes,
           NEW tiles \in Footprints[t], NEW builders,
           HandlePlaceBuildingFoundation(p, t, tiles, builders)
    PROVE  MatchInv'
<1> DEFINE id == nextObjectID
           foundation == NewBuilding(p, t, tiles, 0)
           Sent(u) == [objects[u] EXCEPT !.type   = "Builder",
                                         !.moving = TRUE,
                                         !.target = IF objects[u].attacking
                                                      THEN @ ELSE id,
                                         !.manual = id]
<1>1. MapInv /\ MapOK
  BY DEF MatchInv, MapInv
<1>2. id <= MaxObjects /\ id \in ObjectIds /\ id \notin DOMAIN objects
  <2>1. id <= MaxObjects
    BY DEF HandlePlaceBuildingFoundation, IDsLeft
  <2>2. id \in Nat /\ id >= 1 /\ DOMAIN objects \subseteq 1 .. id - 1
    BY <1>1, Sizes DEF MapOK
  <2> QED
    BY <2>1, <2>2, Sizes DEF ObjectIds
<1>3. \A u \in builders : u \in DOMAIN objects /\ IsUnit(objects[u])
  BY DEF HandlePlaceBuildingFoundation, OwnUnit
<1>4. objects' = [i \in DOMAIN objects \cup {id} |->
                    IF i = id THEN foundation
                    ELSE IF i \in builders THEN Sent(i) ELSE objects[i]]
  BY DEF HandlePlaceBuildingFoundation
<1>5. foundation \in Buildings /\ foundation.owner = p /\ IsFoundation(foundation)
  <2>1. tiles \in SUBSET Tiles /\ t \in BuildingTypes
    BY GameAssumption DEF PlaceableTypes
  <2> QED
    BY <2>1, Sizes DEF NewBuilding, Buildings, IsFoundation
<1>6. ASSUME NEW u \in builders PROVE Fits(u, Sent(u))
  <2>1. Fits(u, objects[u])
    BY <1>1, <1>3, <1>6, UnitFits
  <2> DEFINE target2 == IF objects[u].attacking THEN objects[u].target ELSE id
  <2>2. target2 \in ObjectIds \cup {NoObject} /\ "Builder" \in UnitTypes
    BY <1>2, <2>1 DEF Fits, Units, UnitTypes, VillagerTypes
  <2>3. Sent(u) = [objects[u] EXCEPT !.type = "Builder", !.moving = TRUE,
                                     !.target = target2, !.manual = id]
    OBVIOUS
  <2>4. objects[u].attacking => target2 = objects[u].target
    OBVIOUS
  <2> HIDE DEF target2, id, Sent
  <2>5. /\ Sent(u) \in Units /\ Sent(u).owner = objects[u].owner
        /\ Sent(u).attacking = objects[u].attacking /\ Sent(u).target = target2
    BY <1>2, <2>1, <2>2, <2>3 DEF Fits, Units
  <2> QED
    BY <2>1, <2>4, <2>5 DEF Fits
<1> HIDE DEF Sent, foundation
<1>7. \A i \in DOMAIN objects : Kept(i) /\ SameKind(i)
  <2> SUFFICES ASSUME NEW i \in DOMAIN objects PROVE Kept(i) /\ SameKind(i)
    OBVIOUS
  <2>1. CASE i \in builders
    <3>1. objects'[i] = Sent(i) /\ IsUnit(objects[i]) /\ ~IsBuilding(objects[i])
      BY <1>1, <1>2, <1>3, <1>4, <2>1, Kinds DEF MapOK
    <3> QED
      BY <1>6, <2>1, <3>1 DEF Kept, SameKind
  <2>2. CASE i \notin builders
    BY <1>1, <1>2, <1>4, <2>2, Unchanged
  <2> QED
    BY <2>1, <2>2
<1>8. /\ DOMAIN objects' = DOMAIN objects \cup {id}
      /\ objects'[id] = foundation
      /\ ~IsUnit(foundation)
  BY <1>4, <1>5, Kinds
<1>9. /\ nextObjectID' = nextObjectID + 1
      /\ UNCHANGED <<occupied, objectDeleteList, connected, exitReason, shouldExit, todo>>
  BY DEF HandlePlaceBuildingFoundation
<1> QED
  BY <1>1, <1>2, <1>5, <1>7, <1>8, <1>9, AddedStep DEF MapOK

LEMMA CommandStep ==
    ASSUME MatchInv, NEW p \in Players, Command(p)
    PROVE  MatchInv'
<1>1. CASE \E u \in DOMAIN objects : HandleMoveToMapCoord(p, u)
  BY <1>1, MoveStep
<1>2. CASE \E u, t \in DOMAIN objects : HandleSetTarget(p, u, t)
  BY <1>2, SetTargetStep
<1>3. CASE \E b \in DOMAIN objects, t \in {"Villager", "Militia"} : HandleProduceUnit(p, b, t)
  BY <1>3, ProduceUnitStep
<1>4. CASE \E b \in DOMAIN objects, k \in 0 .. MaxQueue - 1 :
             HandleDequeueProductionQueueItem(p, b, k)
  BY <1>4, DequeueStep
<1>5. CASE \E t \in PlaceableTypes : \E tiles \in Footprints[t] :
             \E builders \in SUBSET {u \in DOMAIN objects : OwnUnit(p, u)} :
               HandlePlaceBuildingFoundation(p, t, tiles, builders)
  BY <1>5, PlaceStep
<1>6. CASE \E id \in DOMAIN objects : HandleDeleteObject(p, id)
  BY <1>6, DeleteStep
<1>7. CASE Resign(p) \/ Drop(p)
  BY <1>7, GoneStep DEF Resign, Drop
<1> QED
  BY <1>1, <1>2, <1>3, <1>4, <1>5, <1>6, <1>7 DEF Command

(***************************************************************************)
(* The visits of a game step.                                              *)
(***************************************************************************)
\* A unit that is on its way to a target has one that exists.
LEMMA ReadyTarget ==
    ASSUME MapInv, NEW u \in DOMAIN objects, IsUnit(objects[u]),
           Ready(u).moving, Ready(u).target # NoObject
    PROVE  Ready(u).target \in DOMAIN objects
<1> DEFINE unit == AfterAttack(objects[u])
<1> SUFFICES ASSUME ~(unit.moving => unit.target \in DOMAIN objects),
                    Ready(u).target # NoObject
             PROVE  FALSE
  BY DEF Ready
<1>1. Ready(u) = [unit EXCEPT !.target = NoObject]
  BY DEF Ready
<1> QED
  BY <1>1

\* Unit u becomes v, which can take its place, and carries n.
Becomes(u, v, n) == UnitBecomes(u, v) /\ Fits(u, v) /\ v.carried = n

LEMMA BecomesStep ==
    ASSUME MatchInv, NEW u, NEW v, NEW n, Becomes(u, v, n),
           UNCHANGED <<nextObjectID, occupied, objectDeleteList, connected, exitReason,
                       shouldExit>>
    PROVE  MatchInv'
<1>1. u \in DOMAIN objects /\ IsUnit(objects[u]) /\ todo' \subseteq DOMAIN objects
  BY DEF MatchInv, MapInv, MapOK, Becomes, UnitBecomes, VisitUnit, Visit
<1> QED
  BY <1>1, UnitStep DEF Becomes, UnitBecomes

LEMMA Visited ==
    ASSUME MatchInv, NEW u, NEW v, UnitBecomes(u, v)
    PROVE  /\ MapInv /\ MapOK /\ u \in DOMAIN objects /\ IsUnit(objects[u])
           /\ Fits(u, Ready(u)) /\ Ready(u).carried = objects[u].carried
BY ReadyFits DEF MatchInv, MapInv, MapOK, UnitBecomes, VisitUnit, Visit

LEMMA WalkBecomes ==
    ASSUME MatchInv, NEW u, Walk(u)
    PROVE  \E v : Becomes(u, v, objects[u].carried)
<1>1. PICK v \in IF Ready(u).moving THEN Walked(Ready(u)) ELSE {Ready(u)} : UnitBecomes(u, v)
  BY DEF Walk
<1>2. Fits(u, v) /\ v.carried = objects[u].carried
  BY <1>1, Visited, WalkingFits
<1> QED
  BY <1>1, <1>2 DEF Becomes

LEMMA BeginAttackBecomes ==
    ASSUME MatchInv, NEW u, BeginAttack(u)
    PROVE  \E v : Becomes(u, v, objects[u].carried)
<1> DEFINE unit == Ready(u)
           t    == unit.target
<1>1. /\ MapInv /\ MapOK /\ u \in DOMAIN objects /\ IsUnit(objects[u])
      /\ Fits(u, unit) /\ unit.carried = objects[u].carried
  BY Visited DEF BeginAttack
<1>2. t \in DOMAIN objects /\ Interaction(unit, objects[t]) = "Attack"
  BY <1>1, ReadyTarget DEF BeginAttack, Reaches
<1>3. objects[t].owner \in Players
  <2>1. objects[t].owner \in Players \cup {Gaia}
    BY <1>1, <1>2, Kinds DEF MapOK
  <2>2. objects[t].owner # Gaia
    BY <1>2 DEF Interaction
  <2> QED
    BY <2>1, <2>2
<1>4. Fits(u, Attacks(unit)) /\ Attacks(unit).carried = objects[u].carried
  <2>1. unit \in Units /\ 0 \in 0 .. AttackTime
    BY <1>1, Sizes DEF Fits
  <2> HIDE DEF unit
  <2>2. /\ Attacks(unit) \in Units /\ Attacks(unit).owner = unit.owner
        /\ Attacks(unit).target = unit.target /\ Attacks(unit).carried = unit.carried
    BY <2>1 DEF Units, Attacks
  <2> QED
    BY <1>1, <1>3, <2>2 DEF Fits
<1>5. UnitBecomes(u, Attacks(unit))
  BY DEF BeginAttack
<1> QED
  BY <1>4, <1>5 DEF Becomes

LEMMA BlockedBecomes ==
    ASSUME MatchInv, NEW u, ConstructionBlocked(u)
    PROVE  \E v : Becomes(u, v, objects[u].carried)
<1>1. UnitBecomes(u, StopMovement(Ready(u)))
  BY DEF ConstructionBlocked
<1>2. /\ Fits(u, StopMovement(Ready(u)))
      /\ StopMovement(Ready(u)).carried = objects[u].carried
  BY <1>1, Visited, WalkingFits
<1> QED
  BY <1>1, <1>2 DEF Becomes

LEMMA GatherBecomes ==
    ASSUME MatchInv, NEW u, Gather(u)
    PROVE  \E v : \/ Becomes(u, v, objects[u].carried)
                  \/ Becomes(u, v, objects[u].carried + 1)
<1> DEFINE unit == Ready(u)
           carried2 == IF unit.carried < CarryCapacity THEN unit.carried + 1 ELSE unit.carried
           more == [unit EXCEPT !.carried = carried2]
<1>1. PICK v : UnitBecomes(u, v) /\ \/ v = Acts(more)
                                    \/ v \in Walked(more)
                                    \/ \E d \in DropOffPoints(unit.owner) :
                                         v = SetTarget(more, d, FALSE)
  BY DEF Gather
<1>2. /\ MapOK /\ u \in DOMAIN objects /\ Fits(u, unit)
      /\ unit.carried = objects[u].carried
  BY <1>1, Visited
<1>3. Fits(u, more) /\ more.carried = carried2
  <2>1. unit \in Units /\ carried2 \in 0 .. CarryCapacity
    BY <1>2, Sizes DEF Fits, Units
  <2> HIDE DEF unit, carried2
  <2>2. /\ more \in Units /\ more.owner = unit.owner /\ more.target = unit.target
        /\ more.attacking = unit.attacking /\ more.carried = carried2
    BY <2>1 DEF Units
  <2> QED
    BY <1>2, <2>2 DEF Fits
<1> HIDE DEF more
<1>4. Fits(u, v) /\ v.carried = carried2
  <2>1. \A w \in Walked(more) \cup {Acts(more)} : Fits(u, w) /\ w.carried = carried2
    BY <1>2, <1>3, WalkingFits
  <2>2. ASSUME NEW d \in DropOffPoints(unit.owner)
        PROVE  /\ Fits(u, SetTarget(more, d, FALSE))
               /\ SetTarget(more, d, FALSE).carried = carried2
    BY <1>2, <1>3, SetTargetFits DEF DropOffPoints
  <2> QED
    BY <1>1, <2>1, <2>2
<1> QED
  BY <1>1, <1>2, <1>4 DEF Becomes

LEMMA DropOffBecomes ==
    ASSUME MatchInv, NEW u, DropOff(u)
    PROVE  /\ Ready(u).owner = objects[u].owner /\ Ready(u).carried = objects[u].carried
           /\ \E v : Becomes(u, v, 0)
<1> DEFINE unit  == Ready(u)
           empty == Unloaded(unit)
<1>1. PICK v : UnitBecomes(u, v) /\ \/ v = StopMovement(empty)
                                    \/ v \in Walked(empty)
                                    \/ /\ unit.manual \in DOMAIN objects
                                       /\ v = SetTarget(empty, unit.manual, FALSE)
  BY DEF DropOff
<1>2. /\ MapOK /\ u \in DOMAIN objects /\ Fits(u, unit)
      /\ unit.carried = objects[u].carried
  BY <1>1, Visited
<1>3. Fits(u, empty) /\ empty.carried = 0
  <2>1. unit \in Units /\ 0 \in 0 .. CarryCapacity
    BY <1>2, Sizes DEF Fits
  <2> HIDE DEF unit
  <2>2. /\ empty \in Units /\ empty.owner = unit.owner /\ empty.target = unit.target
        /\ empty.attacking = unit.attacking /\ empty.carried = 0
    BY <2>1 DEF Units, Unloaded
  <2> QED
    BY <1>2, <2>2 DEF Fits
<1> HIDE DEF empty
<1>4. Fits(u, v) /\ v.carried = 0
  <2>1. \A w \in Walked(empty) \cup {StopMovement(empty)} : Fits(u, w) /\ w.carried = 0
    BY <1>2, <1>3, WalkingFits
  <2>2. ASSUME unit.manual \in DOMAIN objects
        PROVE  /\ Fits(u, SetTarget(empty, unit.manual, FALSE))
               /\ SetTarget(empty, unit.manual, FALSE).carried = 0
    BY <1>2, <1>3, <2>2, SetTargetFits
  <2> QED
    BY <1>1, <2>1, <2>2
<1> QED
  BY <1>1, <1>2, <1>4 DEF Becomes, Fits

\* A visited unit other than one that swings or builds.
LEMMA UnitBecomesStep ==
    ASSUME MatchInv, NEW u,
           Walk(u) \/ BeginAttack(u) \/ ConstructionBlocked(u) \/ Gather(u) \/ DropOff(u)
    PROVE  /\ MatchInv'
           /\ \E v : UnitBecomes(u, v) /\ Fits(u, v)
<1>1. \E v, n : Becomes(u, v, n)
  BY WalkBecomes, BeginAttackBecomes, BlockedBecomes, GatherBecomes, DropOffBecomes
<1>2. UNCHANGED <<nextObjectID, occupied, objectDeleteList, connected, exitReason,
                  shouldExit>>
  BY DEF Walk, BeginAttack, ConstructionBlocked, Gather, DropOff
<1> QED
  BY <1>1, <1>2, BecomesStep DEF Becomes

\* The animation goes on and may take a hit point, or all of them, off the target.
LEMMA ContinueAttackStep ==
    ASSUME MatchInv, NEW u, ContinueAttack(u)
    PROVE  MatchInv'
<1> DEFINE t     == objects[u].target
           hits  == objects[u].clock + 1 = DamageTime /\ t \in DOMAIN objects
           hp2(i) == IF objects[i].hp > 1 THEN objects[i].hp - 1 ELSE objects[i].hp
           swung(i) == IF i = u THEN [objects[u] EXCEPT !.clock = @ + 1] ELSE objects[i]
           hit(i)   == [swung(i) EXCEPT !.hp = IF @ > 1 THEN @ - 1 ELSE @]
<1>1. /\ MapInv /\ MapOK /\ u \in DOMAIN objects /\ IsUnit(objects[u])
      /\ todo' \subseteq DOMAIN objects
  BY DEF MatchInv, MapInv, MapOK, ContinueAttack, VisitUnit, Visit
<1>2. /\ DOMAIN objects' = DOMAIN objects
      /\ \A i \in DOMAIN objects : objects'[i] = IF hits /\ i = t THEN hit(i) ELSE swung(i)
  BY <1>1 DEF ContinueAttack
<1>3. Fits(u, [objects[u] EXCEPT !.clock = @ + 1])
  <2>1. Fits(u, objects[u]) /\ objects[u].clock + 1 < AttackTime
    BY <1>1, UnitFits DEF ContinueAttack, Swings
  <2>2. objects[u].clock + 1 \in 0 .. AttackTime
    BY <2>1, Sizes DEF Fits, Units
  <2> QED
    BY <2>1, <2>2 DEF Fits, Units
<1>4. ASSUME NEW i \in DOMAIN objects, IsUnit(objects[i])
      PROVE  Fits(i, swung(i)) /\ Fits(i, hit(i))
  <2>1. Fits(i, swung(i))
    BY <1>1, <1>3, <1>4, UnitFits
  <2> HIDE DEF swung
  <2> DEFINE h == IF swung(i).hp > 1 THEN swung(i).hp - 1 ELSE swung(i).hp
  <2>2. swung(i) \in Units /\ h \in 0 .. UnitHP
    BY <2>1, Sizes DEF Fits, Units
  <2>3. hit(i) = [swung(i) EXCEPT !.hp = h]
    OBVIOUS
  <2> HIDE DEF hit, h
  <2>4. /\ hit(i) \in Units /\ hit(i).owner = swung(i).owner /\ hit(i).target = swung(i).target
        /\ hit(i).attacking = swung(i).attacking
    BY <2>2, <2>3 DEF Units
  <2> QED
    BY <2>1, <2>4 DEF Fits
<1>5. ASSUME NEW i \in DOMAIN objects, ~IsUnit(objects[i])
      PROVE  /\ swung(i) = objects[i] /\ objects[i] \in Buildings
             /\ hit(i) \in Buildings /\ hit(i).owner = objects[i].owner
             /\ hit(i).tiles = objects[i].tiles /\ hit(i).queue = objects[i].queue
             /\ hit(i).built = objects[i].built
  <2>1. swung(i) = objects[i] /\ objects[i] \in Buildings
    BY <1>1, <1>5, Kinds DEF MapOK
  <2>2. hp2(i) \in 0 .. BuildSteps
    BY <2>1, Sizes DEF Buildings
  <2>3. hit(i) = [objects[i] EXCEPT !.hp = hp2(i)]
    BY <2>1
  <2> HIDE DEF hit, swung, hp2
  <2> QED
    BY <2>1, <2>2, <2>3 DEF Buildings
<1> HIDE DEF swung, hit
<1>6. AllKept
  <2> SUFFICES ASSUME NEW i \in DOMAIN objects PROVE Kept(i) /\ SameKind(i)
    BY <1>2 DEF AllKept, Same
  <2>1. CASE IsUnit(objects[i])
    BY <1>1, <1>2, <1>4, <2>1, Kinds DEF Kept, SameKind, MapOK
  <2>2. CASE ~IsUnit(objects[i])
    BY <1>1, <1>2, <1>5, <2>2, Kinds DEF Kept, SameKind, IsFoundation, MapInv, GaiaIdle
  <2> QED
    BY <2>1, <2>2
<1>7. CASE hits /\ objects[t].hp = 1
  <2>1. DeleteObject(t, FALSE) /\ nextObjectID' = nextObjectID
    BY <1>7 DEF ContinueAttack
  <2>2. objects[t].owner \in Players
    BY <1>1, <1>7 DEF MapInv, AttacksPlayers, ContinueAttack, Swings
  <2> QED
    BY <1>1, <1>6, <1>7, <2>1, <2>2, KeptDeletion
<1>8. CASE ~(hits /\ objects[t].hp = 1)
  <2>1. UNCHANGED <<nextObjectID, occupied, objectDeleteList, connected, exitReason,
                    shouldExit>>
    BY <1>8 DEF ContinueAttack
  <2> QED
    BY <1>1, <1>6, <2>1, KeptStep
<1> QED
  BY <1>7, <1>8

(***************************************************************************)
(* Construction.  A foundation that is started takes its tiles, which are  *)
(* free, so that it does not overlap any building.                         *)
(***************************************************************************)
LEMMA ConstructStep ==
    ASSUME MatchInv, NEW u, Construct(u)
    PROVE  MatchInv'
<1> DEFINE unit   == Ready(u)
           id     == unit.target
           b      == objects[id]
           built2 == IF b.built < BuildSteps THEN b.built + 1 ELSE BuildSteps
           hp2    == IF b.hp < BuildSteps THEN b.hp + 1 ELSE BuildSteps
           b2     == [b EXCEPT !.built = built2, !.hp = hp2]
<1>1. /\ MapInv /\ MapOK /\ u \in DOMAIN objects /\ IsUnit(objects[u])
      /\ Fits(u, unit) /\ todo' \subseteq DOMAIN objects
  BY ReadyFits DEF MatchInv, MapInv, MapOK, Construct, VisitUnit, Visit
<1>2. id \in DOMAIN objects /\ Interaction(unit, b) = "Construct"
  BY <1>1, ReadyTarget DEF Construct, Reaches
<1>3. IsBuilding(b) /\ b.owner = unit.owner
  BY <1>2 DEF Interaction
<1>4. b \in Buildings /\ ~IsUnit(b) /\ id # u /\ b.owner \in Players
  BY <1>1, <1>2, <1>3, Kinds DEF MapOK, Fits, Units
<1>5. /\ b2 \in Buildings /\ b2.owner = b.owner /\ b2.tiles = b.tiles
      /\ b2.queue = b.queue /\ b2.built # 0
  <2>1. b.built \in 0 .. BuildSteps /\ b.hp \in 0 .. BuildSteps
    BY <1>4 DEF Buildings
  <2> HIDE DEF b
  <2>2. built2 \in 0 .. BuildSteps /\ built2 # 0
    BY <2>1, Sizes
  <2>3. hp2 \in 0 .. BuildSteps
    BY <2>1, Sizes
  <2> HIDE DEF built2, hp2
  <2> QED
    BY <1>4, <2>2, <2>3 DEF Buildings
<1>6. objects' = [objects EXCEPT ![u] = Acts(unit), ![id] = b2]
  BY DEF Construct
<1>7. Fits(u, Acts(unit))
  BY <1>1, WalkingFits
<1> HIDE DEF b2
<1>8. /\ DOMAIN objects' = DOMAIN objects
      /\ objects'[u] = Acts(unit) /\ objects'[id] = b2
      /\ \A i \in DOMAIN objects \ {u, id} : objects'[i] = objects[i]
  BY <1>1, <1>2, <1>4, <1>6
<1>9. Kept(u) /\ Kept(id) /\ \A i \in DOMAIN objects \ {u, id} : Kept(i) /\ SameKind(i)
  BY <1>1, <1>2, <1>4, <1>5, <1>7, <1>8, Unchanged, GameAssumption DEF Kept
<1>10. Same /\ SameKind(u) /\ \A i \in DOMAIN objects \ {id} : SameKind(i)
  BY <1>1, <1>8, <1>9, Kinds DEF Same, SameKind, MapOK
<1>11. UNCHANGED <<nextObjectID, objectDeleteList, connected, exitReason, shouldExit>>
  BY DEF Construct
<1>12. CASE ~IsFoundation(b)
  <2>1. AllKept
    BY <1>5, <1>8, <1>10, <1>12 DEF AllKept, SameKind, IsFoundation
  <2>2. occupied' = occupied
    BY <1>12 DEF Construct
  <2> QED
    BY <1>1, <1>11, <2>1, <2>2, KeptStep
<1>13. CASE IsFoundation(b)
  <2>1. b.tiles \cap occupied = {} /\ occupied' = occupied \cup b.tiles
    BY <1>13 DEF Construct, FoundationFree
  <2>2. occupied' \subseteq Tiles
    BY <1>1, <1>4, <2>1 DEF MapOK, Buildings
  <2>3. MapInv'
    BY <1>1, <1>10, <1>11, <2>2, KeptMap DEF MapOK
  <2>4. Live' = Live /\ Live \subseteq DOMAIN objects
    BY <1>8, <1>11 DEF Live
  <2>5. \A i \in DOMAIN objects :
          /\ objects'[i].owner = objects[i].owner
          /\ IsBuilding(objects'[i]) <=> IsBuilding(objects[i])
          /\ IsBuilding(objects[i]) => objects'[i].tiles = objects[i].tiles
    BY <1>1, <1>10, KeptFacts DEF Same
  <2>6. LiveBuildings' \subseteq LiveBuildings \cup {id} /\ LiveBuildings \subseteq DOMAIN objects
    BY <1>10, <2>4, <2>5 DEF LiveBuildings, SameKind
  <2>7. \A i \in LiveBuildings : objects'[i].tiles = objects[i].tiles
    BY <2>5, <2>6 DEF LiveBuildings
  <2>8. objects'[id].tiles = b.tiles
    BY <1>2, <1>3, <2>5
  <2>9. OccupancyExclusive'
    BY <2>1, <2>6, <2>7, <2>8 DEF MatchInv, OccupancyExclusive
  <2>10. \A p \in Players : LiveOf(p)' = LiveOf(p)
    BY <2>4, <2>5 DEF LiveOf
  <2>11. StillThere' /\ PlayersOK' /\ ExitIffDecided'
    BY <1>11, <2>10 DEF MatchInv, StillThere, PlayersOK, ExitIffDecided
  <2> QED
    BY <2>3, <2>9, <2>11 DEF MatchInv
<1> QED
  BY <1>12, <1>13

(***************************************************************************)
(* Production.  What has a queue is a player's.                            *)
(***************************************************************************)
LEMMA Producer ==
    ASSUME MatchInv, NEW b \in DOMAIN objects, IsBuilding(objects[b]),
           objects[b].queue # <<>>
    PROVE  /\ objects[b] \in Buildings
           /\ objects[b].owner \in Players /\ objects[b].owner # Gaia
<1>1. objects[b] \in Buildings /\ objects[b].owner \in Players \cup {Gaia}
  BY Kinds DEF MatchInv, MapInv, MapOK
<1>2. objects[b].owner # Gaia
  BY DEF MatchInv, MapInv, GaiaIdle
<1> QED
  BY <1>1, <1>2

LEMMA StartProductionStep ==
    ASSUME MatchInv, NEW b, StartProduction(b) \/ ContinueProduction(b)
    PROVE  MatchInv'
<1>1. /\ b \in DOMAIN objects /\ IsBuilding(objects[b]) /\ objects[b].queue # <<>>
      /\ todo' \subseteq DOMAIN objects
  BY DEF StartProduction, ContinueProduction, VisitBuilding, Visit, MatchInv, MapInv, MapOK
<1>2. objects[b] \in Buildings /\ objects[b].owner # Gaia
  BY <1>1, Producer
<1>3. PICK n \in 0 .. ProductionSteps : objects' = [objects EXCEPT ![b].production = n]
  <2>1. CASE StartProduction(b)
    <3>1. 1 \in 0 .. ProductionSteps
      BY Sizes
    <3>2. objects' = [objects EXCEPT ![b].production = 1]
      BY <2>1 DEF StartProduction
    <3> QED
      BY <3>1, <3>2
  <2>2. CASE ContinueProduction(b)
    <3>1. objects[b].production + 1 \in 0 .. ProductionSteps
      BY <2>2, Sizes DEF ContinueProduction
    <3>2. objects' = [objects EXCEPT ![b].production = objects[b].production + 1]
      BY <2>2 DEF ContinueProduction
    <3> QED
      BY <3>1, <3>2
  <2> QED
    BY <2>1, <2>2
<1> DEFINE b2 == [objects[b] EXCEPT !.production = n]
<1>4. /\ b2 \in Buildings /\ b2.owner = objects[b].owner /\ b2.tiles = objects[b].tiles
      /\ b2.built = objects[b].built
  BY <1>2 DEF Buildings
<1>5. objects' = [objects EXCEPT ![b] = b2]
  BY <1>3
<1>6. UNCHANGED <<nextObjectID, occupied, objectDeleteList, connected, exitReason,
                  shouldExit>>
  BY DEF StartProduction, ContinueProduction
<1> HIDE DEF b2
<1> QED
  BY <1>1, <1>2, <1>4, <1>5, <1>6, QueueStep

LEMMA CompleteProductionStep ==
    ASSUME MatchInv, NEW b, CompleteProduction(b)
    PROVE  MatchInv'
<1> DEFINE id   == nextObjectID
           p    == objects[b].owner
           unit == NewUnit(p, Head(objects[b].queue))
           b2   == [objects[b] EXCEPT !.queue = Tail(@), !.production = 0]
<1>1. /\ MapInv /\ MapOK
      /\ b \in DOMAIN objects /\ IsBuilding(objects[b]) /\ objects[b].queue # <<>>
  BY DEF CompleteProduction, MatchInv, MapInv, MapOK
<1>2. objects[b] \in Buildings /\ p \in Players /\ p # Gaia /\ ~IsUnit(objects[b])
  BY <1>1, Producer, Kinds
<1>3. id \notin DOMAIN objects /\ id <= MaxObjects
  BY <1>1 DEF MapOK, CompleteProduction
<1>4. objects' = [i \in DOMAIN objects \cup {id} |->
                    IF i = id THEN unit ELSE IF i = b THEN b2 ELSE objects[i]]
  BY DEF CompleteProduction
<1>5. Head(objects[b].queue) \in UnitTypes /\ Tail(objects[b].queue) \in Seq(UnitTypes)
  BY <1>1, <1>2 DEF Buildings
<1>6. unit \in Units /\ unit.owner = p /\ ~unit.attacking
  BY <1>2, <1>5, Sizes DEF NewUnit, Units, NoObject
<1>7. /\ b2 \in Buildings /\ b2.owner = p /\ b2.tiles = objects[b].tiles
      /\ b2.built = objects[b].built
  <2> DEFINE tail == Tail(objects[b].queue)
  <2>1. 0 \in 0 .. ProductionSteps /\ b2 = [objects[b] EXCEPT !.queue = tail, !.production = 0]
    BY Sizes
  <2>2. tail \in Seq(UnitTypes)
    BY <1>5
  <2> HIDE DEF b2, tail
  <2> QED
    BY <1>2, <2>1, <2>2 DEF Buildings
<1> HIDE DEF unit, b2
<1>8. Kept(b) /\ SameKind(b)
  BY <1>1, <1>2, <1>3, <1>4, <1>7 DEF Kept, SameKind, IsFoundation
<1>9. \A i \in DOMAIN objects : Kept(i) /\ SameKind(i)
  BY <1>1, <1>3, <1>4, <1>8, Unchanged
<1>10. /\ DOMAIN objects' = DOMAIN objects \cup {id} /\ objects'[id] = unit
       /\ ~IsBuilding(unit)
  BY <1>4, <1>6, Kinds
<1>11. todo' \subseteq DOMAIN objects
  BY <1>1 DEF CompleteProduction, MapOK, BusyObjects
<1>12. /\ nextObjectID' = nextObjectID + 1
       /\ UNCHANGED <<occupied, objectDeleteList, connected, exitReason, shouldExit>>
  BY DEF CompleteProduction
<1> QED
  BY <1>2, <1>3, <1>6, <1>9, <1>10, <1>11, <1>12, AddedStep

\* A visit, or another step of the loop, that leaves the match alone.
LEMMA IdleStep ==
    ASSUME MatchInv, todo' \subseteq DOMAIN objects,
           UNCHANGED <<objects, nextObjectID, occupied, objectDeleteList, connected,
                       exitReason, shouldExit>>
    PROVE  MatchInv'
BY AllUnchanged, KeptStep DEF MatchInv

LEMMA VisitStep ==
    ASSUME MatchInv, NEW id \in todo, VisitObject(id)
    PROVE  MatchInv'
<1>1. CASE VisitedUnit(id)
  BY <1>1, ContinueAttackStep, ConstructStep, UnitBecomesStep DEF VisitedUnit
<1>2. CASE WaitForSpace(id)
  BY <1>2, IdleStep DEF WaitForSpace, VisitBuilding, Visit, MatchInv, MapInv, MapOK
<1>3. CASE VisitedBuilding(id)
  BY <1>2, <1>3, StartProductionStep, CompleteProductionStep DEF VisitedBuilding
<1> QED
  BY <1>1, <1>3 DEF VisitObject

\* Erasing objects leaves gaps only: nobody is sent to an object that is not there.
LEMMA EndOfStep ==
    ASSUME MatchInv, EndStep
    PROVE  MatchInv'
<1>1. /\ objects' = [id \in Live |-> objects[id]] /\ objectDeleteList' = {} /\ todo' = {}
      /\ UNCHANGED <<nextObjectID, occupied, connected, exitReason, shouldExit>>
  BY DEF EndStep
<1>2. /\ DOMAIN objects' = Live /\ Live \subseteq DOMAIN objects /\ Live' = Live
      /\ \A id \in Live : objects'[id] = objects[id]
  BY <1>1 DEF Live
<1>3. MapOK'
  BY <1>1, <1>2 DEF MatchInv, MapInv, MapOK
<1>4. AttacksPlayers' /\ GaiaIdle'
  BY <1>2 DEF MatchInv, MapInv, AttacksPlayers, GaiaIdle
<1>5. LiveBuildings' = LiveBuildings /\ LiveBuildings \subseteq Live
  BY <1>2 DEF LiveBuildings
<1>6. OccupancyExclusive'
  BY <1>1, <1>2, <1>5 DEF MatchInv, OccupancyExclusive
<1>7. \A p \in Players : LiveOf(p)' = LiveOf(p)
  BY <1>2 DEF LiveOf
<1>8. StillThere' /\ PlayersOK' /\ ExitIffDecided'
  BY <1>1, <1>7 DEF MatchInv, StillThere, PlayersOK, ExitIffDecided
<1> QED
  BY <1>3, <1>4, <1>6, <1>8 DEF MatchInv, MapInv

LEMMA MatchStep == MatchInv /\ [Next]_vars => MatchInv'
<1> SUFFICES ASSUME MatchInv, [Next]_vars PROVE MatchInv'
  OBVIOUS
<1>1. todo \subseteq DOMAIN objects
  BY DEF MatchInv, MapInv, MapOK
<1>2. CASE \E p \in Players : Command(p)
  BY <1>2, CommandStep
<1>3. CASE EndPoll \/ EndIteration
  BY <1>1, <1>3, IdleStep DEF EndPoll, EndIteration
<1>4. CASE BeginStep
  BY <1>4, IdleStep DEF BeginStep, BusyObjects
<1>5. CASE \E id \in todo : VisitObject(id)
  BY <1>5, VisitStep
<1>6. CASE UNCHANGED vars
  BY <1>1, <1>6, IdleStep DEF vars
<1> QED
  BY <1>2, <1>3, <1>4, <1>5, <1>6, EndOfStep DEF Next, SimulateStep

(***************************************************************************)
(* The start of the match.                                                 *)
(***************************************************************************)
LEMMA MatchInvInit == Init => MatchInv
<1> SUFFICES ASSUME Init PROVE MatchInv
  OBVIOUS
<1> DEFINE s(i) == StartObjects[i]
<1>1. /\ Len(StartObjects) \in Nat /\ Len(StartObjects) <= MaxObjects
      /\ DOMAIN StartObjects = StartIds
      /\ \A i \in StartIds : /\ s(i).owner \in Players \cup {Gaia}
                             /\ s(i).type \in UnitTypes \cup BuildingTypes
                             /\ s(i).tiles \subseteq Tiles
  <2> DEFINE Entry == [owner : Players \cup {Gaia}, type : UnitTypes \cup BuildingTypes,
                       tiles : SUBSET Tiles]
  <2>1. StartObjects \in Seq(Entry) /\ Len(StartObjects) <= MaxObjects
    BY GameAssumption
  <2> HIDE DEF Entry
  <2>2. Len(StartObjects) \in Nat /\ DOMAIN StartObjects = 1 .. Len(StartObjects)
    BY <2>1
  <2>3. \A i \in 1 .. Len(StartObjects) : StartObjects[i] \in Entry
    BY <2>1
  <2>4. \A e \in Entry : /\ e.owner \in Players \cup {Gaia}
                        /\ e.type \in UnitTypes \cup BuildingTypes
                        /\ e.tiles \subseteq Tiles
    BY DEF Entry
  <2> QED
    BY <2>1, <2>2, <2>3, <2>4 DEF StartIds
<1>2. \A i \in StartIds : s(i).type \in UnitTypes => s(i).owner \in Players
  BY <1>1, TypesDisjoint, GameAssumption
<1>3. \A i, j \in StartIds : i # j => s(i).tiles \cap s(j).tiles \subseteq Contested
  BY <1>1 DEF Contested
<1>4. \A p \in Players : \E i \in StartIds : s(i).owner = p
  BY <1>1, GameAssumption
<1>5. /\ DOMAIN objects = StartIds
      /\ \A i \in StartIds :
           objects[i] = IF s(i).type \in UnitTypes THEN NewUnit(s(i).owner, s(i).type)
                        ELSE NewBuilding(s(i).owner, s(i).type, s(i).tiles, BuildSteps)
  BY DEF Init
<1>6. ASSUME NEW i \in StartIds, s(i).type \in UnitTypes
      PROVE  objects[i] \in Units /\ ~objects[i].attacking /\ objects[i].owner = s(i).owner
  <2>1. s(i).owner \in Players /\ objects[i] = NewUnit(s(i).owner, s(i).type)
    BY <1>2, <1>5, <1>6
  <2>2. UnitHP \in 0 .. UnitHP /\ 0 \in 0 .. AttackTime /\ 0 \in 0 .. CarryCapacity
    BY Sizes
  <2> HIDE DEF s
  <2> QED
    BY <1>6, <2>1, <2>2 DEF NewUnit, Units
<1>7. ASSUME NEW i \in StartIds, s(i).type \notin UnitTypes
      PROVE  /\ objects[i] \in Buildings /\ objects[i].owner = s(i).owner
             /\ objects[i].tiles = s(i).tiles /\ objects[i].queue = <<>>
  <2>1. s(i).type \in BuildingTypes /\ s(i).tiles \in SUBSET Tiles
    BY <1>1, <1>7
  <2>2. objects[i] = NewBuilding(s(i).owner, s(i).type, s(i).tiles, BuildSteps)
    BY <1>5, <1>7
  <2> QED
    BY <1>1, <2>1, <2>2, Sizes DEF NewBuilding, Buildings
<1> HIDE DEF s
<1>8. /\ nextObjectID = Len(StartObjects) + 1 /\ objectDeleteList = {} /\ todo = {}
      /\ occupied = UNION {s(i).tiles : i \in StartIds}
      /\ connected = Players /\ exitReason = [p \in Players |-> "none"] /\ shouldExit = FALSE
  BY DEF Init, s
<1>9. MapOK
  <2>1. DOMAIN objects \subseteq 1 .. nextObjectID - 1 /\ nextObjectID \in 1 .. MaxObjects + 1
    BY <1>1, <1>5, <1>8, Sizes DEF StartIds
  <2>2. \A i \in DOMAIN objects : objects[i] \in Units \cup Buildings
    BY <1>5, <1>6, <1>7
  <2>3. occupied \subseteq Tiles
    BY <1>1, <1>8
  <2> QED
    BY <1>8, <2>1, <2>2, <2>3 DEF MapOK
<1>10. AttacksPlayers /\ GaiaIdle
  BY <1>5, <1>6, <1>7, Kinds DEF AttacksPlayers, GaiaIdle
<1>11. PlayersOK /\ ExitIffDecided
  BY <1>8 DEF PlayersOK, ExitIffDecided
<1>12. Live = StartIds
  BY <1>5, <1>8 DEF Live
<1>13. \A b \in LiveBuildings : b \in StartIds /\ objects[b].tiles = s(b).tiles
  BY <1>6, <1>7, <1>12, Kinds DEF LiveBuildings
<1>14. OccupancyExclusive
  BY <1>3, <1>8, <1>13 DEF OccupancyExclusive
<1>15. StillThere
  BY <1>4, <1>6, <1>7, <1>8, <1>12 DEF StillThere, LiveOf
<1> QED
  BY <1>9, <1>10, <1>11, <1>14, <1>15 DEF MatchInv, MapInv

(***************************************************************************)
(* The theorems.                                                           *)
(***************************************************************************)
\* The inductive invariant holds in every state of every match.
THEOREM MatchInvariant == Spec => []MatchInv
BY MatchInvInit, MatchStep, PTL DEF Spec

\* Every object on the map is a well formed unit or building, IDs are given out
\* once, and only objects of players that exist wait for their deletion.
THEOREM TypesOfTheMap == Spec => [](MapOK /\ PlayersOK)
BY MatchInvariant, PTL DEF MatchInv, MapInv

\* SimulateBuildingConstruction and DeleteObject: no two buildings stand on the
\* same tile, and the tiles of a building are occupied as long as it stands, but
\* for the tiles on which two buildings of the start map stand already.
THEOREM NoOverlap == Spec => []OccupancyExclusive
BY MatchInvariant, PTL DEF MatchInv

\* DeleteObject: a player who is in the match has an object.
THEOREM NobodyWithoutObjects == Spec => []StillThere
BY MatchInvariant, PTL DEF MatchInv

\* RemovePlayer: the server is told to end exactly when somebody is out and at
\* most one player is left.
THEOREM EndsWhenDecided == Spec => []ExitIffDecided
BY MatchInvariant, PTL DEF MatchInv

-----------------------------------------------------------------------------
(***************************************************************************)
(* What the server keeps about a player beside the map: counters and       *)
(* resources.                                                              *)
(***************************************************************************)
\* The bookkeeping is of the right types.
BooksOK ==
    /\ resources \in [Players -> Nat]
    /\ stats \in [Players -> Stats]
    /\ known \in [Players -> SUBSET ObjectIds]
    /\ phase \in Phases

(***************************************************************************)
(* Types of the counters, of what is queued and of what is returned.       *)
(***************************************************************************)
\* There are finitely many objects.
LEMMA FiniteObjects ==
    ASSUME MapOK
    PROVE  IsFiniteSet(DOMAIN objects)
<1>1. IsFiniteSet(1 .. nextObjectID - 1)
  BY FS_Interval DEF MapOK
<1> QED
  BY <1>1, FS_Subset DEF MapOK

\* Counting one unit more or less gives counters.
LEMMA UnitChanged ==
    ASSUME NEW s \in Stats, NEW t \in UnitTypes, NEW d \in Int
    PROVE  UnitChange(s, t, d) \in Stats
<1> DEFINE alive == [s.unitsAlive EXCEPT ![t] = @ + d]
           population == s.population + d
           villagers == IF t \in VillagerTypes THEN s.villagers + d ELSE s.villagers
<1>1. /\ s.unitsAlive \in [UnitTypes -> Int] /\ s.population \in Int /\ s.villagers \in Int
  BY DEF Stats
<1>2. alive \in [UnitTypes -> Int] /\ population \in Int /\ villagers \in Int
  BY <1>1
<1>3. UnitChange(s, t, d) = [s EXCEPT !.population = population, !.unitsAlive = alive,
                                     !.villagers = villagers]
  BY DEF UnitChange, Stats
<1> HIDE DEF alive, population, villagers
<1> QED
  BY <1>2, <1>3 DEF Stats

\* A unit that is added or removed leaves counters.
LEMMA UnitStats ==
    ASSUME NEW s \in Stats, NEW t \in UnitTypes
    PROVE  UnitAdded(s, t) \in Stats /\ UnitRemoved(s, t) \in Stats
BY UnitChanged DEF UnitAdded, UnitRemoved

\* So does a building, finished or not.
LEMMA BuildingStats ==
    ASSUME NEW s \in Stats, NEW t \in BuildingTypes, NEW d \in {1, -1}
    PROVE  UnfinishedBuildingChange(s, t, d) \in Stats /\ FinishedBuildingChange(s, t, d) \in Stats
<1>1. PopulationSpace[t] \in Int /\ 1 * PopulationSpace[t] \in Int /\ -1 * PopulationSpace[t] \in Int
  BY PopulationSpaceAssumption
<1> DEFINE constructing == [s.constructing EXCEPT ![t] = @ + d]
           standing == [s.standing EXCEPT ![t] = @ + d]
           space == s.space + d * PopulationSpace[t]
<1>2. /\ s.constructing \in [BuildingTypes -> Int] /\ s.standing \in [BuildingTypes -> Int]
      /\ s.space \in Int
  BY DEF Stats
<1>3. constructing \in [BuildingTypes -> Int] /\ standing \in [BuildingTypes -> Int]
  BY <1>2
<1>4. space \in Int
  BY <1>1, <1>2
<1>5. /\ UnfinishedBuildingChange(s, t, d) = [s EXCEPT !.constructing = constructing]
      /\ FinishedBuildingChange(s, t, d) = [s EXCEPT !.standing = standing, !.space = space]
  BY DEF UnfinishedBuildingChange, FinishedBuildingChange, Stats
<1> HIDE DEF constructing, standing, space
<1> QED
  BY <1>3, <1>4, <1>5 DEF Stats

\* So does a production.
LEMMA ProductionStats ==
    ASSUME NEW s \in Stats, NEW d \in Int
    PROVE  InProductionChange(s, d) \in Stats
BY DEF Stats, InProductionChange

\* A villager that changes its trade leaves the counters of everybody right.
LEMMA TransformedStats ==
    ASSUME BooksOK, NEW u \in Units, NEW v \in Units
    PROVE  StatsAfterTransform(u, v) \in [Players -> Stats]
<1>1. u.owner \in Players /\ u.type \in UnitTypes /\ v.type \in UnitTypes
  BY DEF Units
<1>2. UnitTransformed(stats[u.owner], u.type, v.type) \in Stats
  BY <1>1, UnitStats DEF BooksOK, UnitTransformed, UnitAdded, UnitRemoved
<1> QED
  BY <1>1, <1>2 DEF BooksOK, StatsAfterTransform

\* The deletion of an object of a player leaves the counters of everybody right.
LEMMA DeletionStats ==
    ASSUME BooksOK, NEW o \in Units \cup Buildings, o.owner \in Players
    PROVE  StatsAfterDeletion(o) \in [Players -> Stats]
<1> DEFINE s == stats[o.owner]
           s2 == IF o.production > 0 THEN InProductionChange(s, -1) ELSE s
<1>1. s \in Stats
  BY DEF BooksOK
<1>2. CASE IsUnit(o)
  <2>1. UnitRemoved(s, o.type) \in Stats
    BY <1>1, <1>2, UnitStats DEF IsUnit
  <2> QED
    BY <1>2, <2>1 DEF BooksOK, StatsAfterDeletion
<1>3. CASE ~IsUnit(o)
  <2>1. s2 \in Stats
    BY <1>1, ProductionStats
  <2>2. o.type \in BuildingTypes
    BY <1>3, Kinds DEF IsBuilding
  <2>3. BuildingRemoved(s2, o.type, IsCompleted(o)) \in Stats
    BY <2>1, <2>2, BuildingStats DEF BuildingRemoved
  <2> QED
    BY <1>3, <2>3 DEF BooksOK, StatsAfterDeletion
<1> QED
  BY <1>2, <1>3

CostSum(f, q, l) == f = [i \in 0 .. l |-> IF i = 0 THEN 0 ELSE f[i - 1] + Cost[q[i]]]

\* The function that QueueCost chooses exists.
LEMMA CostSumExists ==
    ASSUME NEW q, NEW l \in Nat
    PROVE  \E f : CostSum(f, q, l)
<1> DEFINE H(f, n) == IF n = 0 THEN 0 ELSE f[n - 1] + Cost[q[n]]
           S == {m \in Nat : \E f : f = [n \in 0 .. m |-> H(f, n)]}
<1>1. 0 \in S
  <2> DEFINE f == [n \in 0 .. 0 |-> 0]
  <2>1. f = [n \in 0 .. 0 |-> H(f, n)]
    OBVIOUS
  <2> HIDE DEF f
  <2> QED
    BY <2>1
<1>2. ASSUME NEW m \in Nat, m \in S PROVE m + 1 \in S
  <2>1. PICK f : f = [n \in 0 .. m |-> H(f, n)]
    BY <1>2
  <2> DEFINE g == [n \in 0 .. m + 1 |-> H(f, n)]
  <2>2. \A n \in 0 .. m : g[n] = f[n]
    <3>1. \A n \in 0 .. m : n \in 0 .. m + 1
      OBVIOUS
    <3> HIDE DEF H
    <3> QED
      BY <3>1, <2>1
  <2>3. \A n \in 0 .. m + 1 : n # 0 => n - 1 \in 0 .. m
    OBVIOUS
  <2>4. \A n \in 0 .. m + 1 : H(f, n) = H(g, n)
    BY <2>2, <2>3
  <2>5. g = [n \in 0 .. m + 1 |-> H(g, n)]
    <3> HIDE DEF H
    <3> QED
      BY <2>4
  <2> HIDE DEF g, H
  <2> QED
    BY <2>5
<1> HIDE DEF S
<1>3. l \in S
  BY <1>1, <1>2, SetInduction
<1> QED
  BY <1>3 DEF S, CostSum

\* QueueCost is the last value of any function of that kind.
LEMMA QueueCostIsSum ==
    ASSUME NEW b, NEW f, Len(b.queue) \in Nat, CostSum(f, b.queue, Len(b.queue)),
           \A i \in 1 .. Len(b.queue) : b.queue[i] \in UnitTypes
    PROVE  QueueCost(b) = f[Len(b.queue)] /\ QueueCost(b) \in Nat
<1> DEFINE l == Len(b.queue)
           q == b.queue
           g == CHOOSE h : CostSum(h, q, l)
<1>1. CostSum(g, q, l)
  BY CostSumExists
<1>2. QueueCost(b) = g[l]
  BY DEF QueueCost, CostSum
<1>3. \A i \in 1 .. l : Cost[q[i]] \in Nat
  BY GameAssumption
<1> HIDE DEF g, q, l
<1>4. l \in Nat /\ CostSum(f, q, l)
  BY DEF q, l
<1>5. /\ \A i \in 0 .. l : f[i] = IF i = 0 THEN 0 ELSE f[i - 1] + Cost[q[i]]
      /\ \A i \in 0 .. l : g[i] = IF i = 0 THEN 0 ELSE g[i - 1] + Cost[q[i]]
  BY <1>1, <1>4 DEF CostSum
<1> DEFINE S == {i \in Nat : i \in 0 .. l => f[i] = g[i] /\ g[i] \in Nat}
<1>6. 0 \in S
  <2>1. 0 \in 0 .. l
    BY <1>4
  <2>2. f[0] = 0 /\ g[0] = 0
    BY <1>5, <2>1, Zenon
  <2> QED
    BY <2>2
<1>7. ASSUME NEW i \in Nat, i \in S PROVE i + 1 \in S
  <2>1. SUFFICES ASSUME i + 1 \in 0 .. l PROVE f[i + 1] = g[i + 1] /\ g[i + 1] \in Nat
    OBVIOUS
  <2>2. i \in 0 .. l /\ i + 1 # 0 /\ (i + 1) - 1 = i /\ i + 1 \in 1 .. l
    BY <1>4, <2>1
  <2>3. f[i] = g[i] /\ g[i] \in Nat
    BY <1>7, <2>2
  <2>4. f[i + 1] = f[i] + Cost[q[i + 1]] /\ g[i + 1] = g[i] + Cost[q[i + 1]]
    BY <1>5, <2>1, <2>2
  <2> QED
    BY <1>3, <2>2, <2>3, <2>4
<1> HIDE DEF S
<1>8. l \in S
  BY <1>4, <1>6, <1>7, SetInduction
<1>9. f[l] = g[l] /\ g[l] \in Nat
  BY <1>4, <1>8 DEF S
<1> QED
  BY <1>2, <1>9 DEF l

\* What is paid for a queue is a number of resources.
LEMMA QueueCostType ==
    ASSUME NEW b \in Buildings
    PROVE  QueueCost(b) \in Nat
<1>1. b.queue \in Seq(UnitTypes)
  BY DEF Buildings
<1>2. Len(b.queue) \in Nat /\ \A i \in 1 .. Len(b.queue) : b.queue[i] \in UnitTypes
  BY <1>1
<1>3. PICK f : CostSum(f, b.queue, Len(b.queue))
  BY <1>2, CostSumExists
<1> QED
  BY <1>2, <1>3, QueueCostIsSum

\* What is returned for an unfinished building is a number of resources.
LEMMA ConstructionRefundType ==
    ASSUME NEW b \in Buildings
    PROVE  ConstructionRefund(b) \in Nat
<1> DEFINE open == BuildSteps - b.built
           c == Cost[b.type]
<1>1. BuildSteps \in Nat /\ BuildSteps > 1 /\ open \in Nat /\ c \in Nat
  BY Sizes, GameAssumption DEF Buildings
<1>2. ConstructionRefund(b) = (2 * open * c + BuildSteps) \div (2 * BuildSteps)
  BY DEF ConstructionRefund
<1> HIDE DEF open, c
<1>3. 2 * open * c \in Nat
  BY <1>1
<1> DEFINE x == 2 * open * c + BuildSteps
           d == 2 * BuildSteps
<1>4. x \in Nat /\ d \in Nat \ {0}
  BY <1>1, <1>3
<1> HIDE DEF x, d
<1>5. x \div d \in Nat
  BY <1>4
<1> QED
  BY <1>2, <1>5 DEF x, d

\* What a deletion returns is a number of resources.
LEMMA RefundType ==
    ASSUME NEW o \in Units \cup Buildings, NEW manually
    PROVE  Refund(o, manually) \in Nat
<1>1. CASE IsUnit(o)
  BY <1>1 DEF Refund
<1>2. CASE ~IsUnit(o)
  BY <1>2, Kinds, QueueCostType, ConstructionRefundType DEF Refund
<1> QED
  BY <1>1, <1>2

\* AddObject messages tell the clients of object IDs.
LEMMA KnownType ==
    ASSUME BooksOK, NEW id \in ObjectIds, NEW receivers
    PROVE  AddKnown(id, receivers) \in [Players -> SUBSET ObjectIds]
BY DEF BooksOK, AddKnown

(***************************************************************************)
(* Every step keeps the books well formed.                                 *)
(***************************************************************************)
LEMMA BooksAfterDeletion ==
    ASSUME MatchInv, BooksOK, NEW id \in DOMAIN objects, objects[id].owner \in Players,
           NEW manually, DeleteObject(id, manually)
    PROVE  /\ resources' \in [Players -> Nat]
           /\ stats' \in [Players -> Stats]
           /\ known' \in [Players -> SUBSET ObjectIds]
<1>1. CASE id \in objectDeleteList
  BY <1>1 DEF DeleteObject, BooksOK
<1>2. CASE id \notin objectDeleteList
  <2>1. objects[id] \in Units \cup Buildings
    BY DEF MatchInv, MapInv, MapOK
  <2>2. Refund(objects[id], manually) \in Nat
    BY <2>1, RefundType
  <2>3. StatsAfterDeletion(objects[id]) \in [Players -> Stats]
    BY <2>1, DeletionStats
  <2>4. /\ resources' = [resources EXCEPT ![objects[id].owner] = @ + Refund(objects[id], manually)]
        /\ stats' = StatsAfterDeletion(objects[id])
    BY <1>2 DEF DeleteObject
  <2>5. known' \in [Players -> SUBSET ObjectIds]
    <3> DEFINE o == objects[id]
               gone(q)   == q = o.owner /\ Defeated(o.owner, id)
               hidden(q) == IsBuilding(o) /\ IsFoundation(o) /\ q # o.owner
    <3>1. known' = [q \in Players |-> IF gone(q) THEN {}
                                     ELSE IF hidden(q) THEN known[q] ELSE known[q] \ {id}]
      BY <1>2 DEF DeleteObject
    <3> HIDE DEF gone, hidden
    <3> QED
      BY <3>1 DEF BooksOK
  <2> DEFINE r == Refund(objects[id], manually)
             p == objects[id].owner
  <2>6. r \in Nat /\ p \in Players /\ resources' = [resources EXCEPT ![p] = @ + r]
    BY <2>2, <2>4
  <2> HIDE DEF r, p
  <2>7. resources' \in [Players -> Nat]
    BY <2>6 DEF BooksOK
  <2> QED
    BY <2>3, <2>4, <2>5, <2>7
<1> QED
  BY <1>1, <1>2

\* A unit that acts, and may change its trade.
LEMMA BooksAfterUnit ==
    ASSUME MatchInv, BooksOK, NEW u, NEW v, UnitBecomes(u, v), Fits(u, v)
    PROVE  stats' \in [Players -> Stats] /\ phase' = phase
<1>1. u \in DOMAIN objects /\ IsUnit(objects[u]) /\ objects[u] \in Units
  BY Kinds DEF MatchInv, MapInv, MapOK, UnitBecomes, VisitUnit, Visit
<1>2. StatsAfterTransform(objects[u], v) \in [Players -> Stats]
  BY <1>1, TransformedStats DEF Fits
<1> QED
  BY <1>2 DEF UnitBecomes, VisitUnit, Visit

\* SetTarget.
LEMMA BooksSetTarget ==
    ASSUME MatchInv, BooksOK, NEW p \in Players, NEW u \in DOMAIN objects,
           NEW t \in DOMAIN objects, HandleSetTarget(p, u, t)
    PROVE  BooksOK'
<1>1. MapInv /\ MapOK /\ IsUnit(objects[u]) /\ objects[u] \in Units
  BY Kinds DEF MatchInv, MapInv, MapOK, HandleSetTarget, OwnUnit
<1>2. Fits(u, SetTarget(objects[u], t, TRUE))
  BY <1>1, UnitFits, SetTargetFits
<1>3. stats' \in [Players -> Stats]
  BY <1>1, <1>2, TransformedStats DEF HandleSetTarget, Fits
<1> QED
  BY <1>3 DEF HandleSetTarget, BooksOK

\* ProduceUnit: the price was checked.
LEMMA BooksProduceUnit ==
    ASSUME MatchInv, BooksOK, NEW p \in Players, NEW b, NEW t \in {"Villager", "Militia"},
           HandleProduceUnit(p, b, t)
    PROVE  BooksOK'
<1>1. Cost[t] \in Nat /\ Cost[t] <= resources[p] /\ resources[p] \in Nat
  BY GameAssumption DEF UnitTypes, VillagerTypes, HandleProduceUnit, CanAfford, BooksOK
<1>2. resources[p] - Cost[t] \in Nat
  BY <1>1
<1> QED
  BY <1>2 DEF HandleProduceUnit, BooksOK

\* DequeueProductionQueueItem.
LEMMA BooksDequeue ==
    ASSUME MatchInv, BooksOK, NEW p \in Players, NEW b \in DOMAIN objects,
           NEW k \in 0 .. MaxQueue - 1, HandleDequeueProductionQueueItem(p, b, k)
    PROVE  BooksOK'
<1> DEFINE q     == objects[b].queue
           index == Len(q) - k
<1>1. q \in Seq(UnitTypes)
  BY Kinds DEF MatchInv, MapInv, MapOK, HandleDequeueProductionQueueItem, OwnBuilding, Buildings
<1>2. index \in 1 .. Len(q)
  BY <1>1, Sizes DEF HandleDequeueProductionQueueItem
<1>3. resources' = [resources EXCEPT ![p] = @ + Cost[q[index]]]
  BY DEF HandleDequeueProductionQueueItem
<1> HIDE DEF index, q
<1>4. q[index] \in UnitTypes
  BY <1>1, <1>2
<1>5. Cost[q[index]] \in Nat
  BY <1>4, GameAssumption
<1>6. resources' \in [Players -> Nat]
  BY <1>3, <1>5 DEF BooksOK
<1>7. stats' \in [Players -> Stats]
  <2>1. stats' \in {stats, [stats EXCEPT ![p] = InProductionChange(@, -1)]}
    BY DEF HandleDequeueProductionQueueItem
  <2>2. stats[p] \in Stats
    BY DEF BooksOK
  <2>3. InProductionChange(stats[p], -1) \in Stats
    BY <2>2, ProductionStats
  <2> QED
    BY <2>1, <2>3 DEF BooksOK
<1> QED
  BY <1>6, <1>7 DEF HandleDequeueProductionQueueItem, BooksOK

\* Villagers that are sent to build leave counters.
LEMMA TurnedStats ==
    ASSUME MatchInv, NEW s \in Stats, NEW builders \in SUBSET DOMAIN objects
    PROVE  TurnedToBuilders(s, builders) \in Stats
<1> DEFINE Turned(t) == Cardinality({u \in builders : objects[u].type = t})
           alive == [t \in UnitTypes |->
                       IF t = "Builder"
                         THEN s.unitsAlive[t] + Cardinality(builders) - Turned(t)
                         ELSE s.unitsAlive[t] - Turned(t)]
<1>1. IsFiniteSet(DOMAIN objects)
  BY FiniteObjects DEF MatchInv, MapInv
<1>2. Cardinality(builders) \in Int
  BY <1>1, FS_Subset, FS_CardinalityType
<1>3. ASSUME NEW t \in UnitTypes PROVE Turned(t) \in Int
  BY <1>1, FS_Subset, FS_CardinalityType
<1>4. TurnedToBuilders(s, builders) = [s EXCEPT !.unitsAlive = alive]
  BY DEF TurnedToBuilders
<1> HIDE DEF Turned
<1>5. alive \in [UnitTypes -> Int]
  <2>1. s.unitsAlive \in [UnitTypes -> Int]
    BY DEF Stats
  <2> QED
    BY <1>2, <1>3, <2>1
<1> HIDE DEF alive
<1> QED
  BY <1>4, <1>5 DEF Stats

\* PlaceBuildingFoundation: the price was checked.
LEMMA BooksPlace ==
    ASSUME MatchInv, BooksOK, NEW p \in Players, NEW t \in PlaceableTypes,
           NEW tiles, NEW builders \in SUBSET DOMAIN objects,
           HandlePlaceBuildingFoundation(p, t, tiles, builders)
    PROVE  BooksOK'
<1> DEFINE s == BuildingAdded(stats[p], t, FALSE)
<1>1. t \in BuildingTypes
  BY DEF PlaceableTypes
<1>2. Cost[t] \in Nat /\ Cost[t] <= resources[p] /\ resources[p] \in Nat
  BY <1>1, GameAssumption DEF HandlePlaceBuildingFoundation, CanAfford, BooksOK
<1>3. resources[p] - Cost[t] \in Nat
  BY <1>2
<1>4. resources' \in [Players -> Nat]
  BY <1>3 DEF HandlePlaceBuildingFoundation, BooksOK
<1>5. s \in Stats
  BY <1>1, BuildingStats DEF BuildingAdded, BooksOK
<1>6. TurnedToBuilders(s, builders) \in Stats
  BY <1>5, TurnedStats
<1>7. stats' = [stats EXCEPT ![p] = TurnedToBuilders(s, builders)]
  BY Zenon DEF HandlePlaceBuildingFoundation
<1> HIDE DEF s
<1>8. stats' \in [Players -> Stats]
  BY <1>6, <1>7 DEF BooksOK
<1>9. nextObjectID \in ObjectIds
  <2>1. nextObjectID <= MaxObjects
    BY DEF HandlePlaceBuildingFoundation, IDsLeft
  <2> QED
    BY <2>1, Sizes DEF MatchInv, MapInv, MapOK, ObjectIds
<1>10. known' \in [Players -> SUBSET ObjectIds]
  BY <1>9, KnownType DEF HandlePlaceBuildingFoundation
<1> QED
  BY <1>4, <1>8, <1>10 DEF HandlePlaceBuildingFoundation, BooksOK

\* Every command.
LEMMA BooksCommand ==
    ASSUME MatchInv, BooksOK, NEW p \in Players, Command(p)
    PROVE  BooksOK'
<1>1. CASE \E u \in DOMAIN objects : HandleMoveToMapCoord(p, u)
  BY <1>1 DEF HandleMoveToMapCoord, BooksOK
<1>2. CASE \E u, t \in DOMAIN objects : HandleSetTarget(p, u, t)
  BY <1>2, BooksSetTarget
<1>3. CASE \E b \in DOMAIN objects, t \in {"Villager", "Militia"} : HandleProduceUnit(p, b, t)
  BY <1>3, BooksProduceUnit
<1>4. CASE \E b \in DOMAIN objects, k \in 0 .. MaxQueue - 1 :
             HandleDequeueProductionQueueItem(p, b, k)
  BY <1>4, BooksDequeue
<1>5. CASE \E t \in PlaceableTypes : \E tiles \in Footprints[t] :
             \E builders \in SUBSET {u \in DOMAIN objects : OwnUnit(p, u)} :
               HandlePlaceBuildingFoundation(p, t, tiles, builders)
  <2>1. PICK t \in PlaceableTypes : \E tiles \in Footprints[t] :
               \E builders \in SUBSET {u \in DOMAIN objects : OwnUnit(p, u)} :
                 HandlePlaceBuildingFoundation(p, t, tiles, builders)
    BY <1>5
  <2>2. PICK tiles \in Footprints[t] :
               \E builders \in SUBSET {u \in DOMAIN objects : OwnUnit(p, u)} :
                 HandlePlaceBuildingFoundation(p, t, tiles, builders)
    BY <2>1
  <2>3. PICK builders \in SUBSET {u \in DOMAIN objects : OwnUnit(p, u)} :
                 HandlePlaceBuildingFoundation(p, t, tiles, builders)
    BY <2>2
  <2>4. builders \in SUBSET DOMAIN objects
    OBVIOUS
  <2> QED
    BY <2>3, <2>4, BooksPlace
<1>6. CASE \E id \in DOMAIN objects : HandleDeleteObject(p, id)
  <2>1. PICK id \in DOMAIN objects : HandleDeleteObject(p, id)
    BY <1>6
  <2>2. objects[id].owner \in Players /\ DeleteObject(id, TRUE) /\ phase' = phase
    BY <2>1 DEF HandleDeleteObject
  <2> QED
    BY <2>2, BooksAfterDeletion DEF BooksOK
<1>7. CASE \E reason \in {"Resign", "Drop"} : PlayerGone(p, reason)
  BY <1>7 DEF PlayerGone, BooksOK
<1> QED
  BY <1>1, <1>2, <1>3, <1>4, <1>5, <1>6, <1>7 DEF Command, Resign, Drop

\* Every visit to a unit but an attack and a construction.
LEMMA BooksUnitAction ==
    ASSUME MatchInv, BooksOK, NEW u,
           Walk(u) \/ BeginAttack(u) \/ ConstructionBlocked(u) \/ Gather(u) \/ DropOff(u)
    PROVE  BooksOK'
<1>1. stats' \in [Players -> Stats] /\ phase' = phase
  BY UnitBecomesStep, BooksAfterUnit
<1>2. known' = known
  BY DEF Walk, BeginAttack, ConstructionBlocked, Gather, DropOff
<1>3. resources' \in [Players -> Nat]
  <2>1. CASE DropOff(u)
    <3>1. PICK v : UnitBecomes(u, v)
      BY UnitBecomesStep
    <3>2. u \in DOMAIN objects /\ objects[u] \in Units
      BY <3>1, Visited, Kinds DEF MapOK
    <3>3. Ready(u).owner \in Players /\ Ready(u).carried \in Nat
      BY <2>1, <3>2, DropOffBecomes, Sizes DEF Units
    <3>4. resources' = [resources EXCEPT ![Ready(u).owner] = @ + Ready(u).carried]
      BY <2>1 DEF DropOff
    <3> QED
      BY <3>3, <3>4 DEF BooksOK
  <2>2. CASE ~DropOff(u)
    BY <2>2 DEF Walk, BeginAttack, ConstructionBlocked, Gather, BooksOK
  <2> QED
    BY <2>1, <2>2
<1> QED
  BY <1>1, <1>2, <1>3 DEF BooksOK

\* An attack that may kill.
LEMMA BooksContinueAttack ==
    ASSUME MatchInv, BooksOK, NEW u, ContinueAttack(u)
    PROVE  BooksOK'
<1> DEFINE t    == objects[u].target
           hits == objects[u].clock + 1 = DamageTime /\ t \in DOMAIN objects
<1>1. phase' = phase
  BY DEF ContinueAttack, VisitUnit, Visit
<1>2. CASE hits /\ objects[t].hp = 1
  <2>1. DeleteObject(t, FALSE)
    BY <1>2 DEF ContinueAttack
  <2>2. objects[t].owner \in Players
    BY <1>2 DEF MatchInv, MapInv, MapOK, AttacksPlayers, ContinueAttack, Swings,
                VisitUnit, Visit
  <2> QED
    BY <1>1, <1>2, <2>1, <2>2, BooksAfterDeletion DEF BooksOK
<1>3. CASE ~(hits /\ objects[t].hp = 1)
  <2>1. UNCHANGED <<resources, stats, known>>
    BY <1>3 DEF ContinueAttack
  <2> QED
    BY <1>1, <2>1 DEF BooksOK
<1> QED
  BY <1>2, <1>3

\* A construction that may be completed.
LEMMA BooksConstruct ==
    ASSUME MatchInv, BooksOK, NEW u, Construct(u)
    PROVE  BooksOK'
<1> DEFINE unit == Ready(u)
           id   == unit.target
           b    == objects[id]
           transformed == StatsAfterTransform(objects[u], unit)
<1>1. /\ MapInv /\ MapOK /\ u \in DOMAIN objects /\ IsUnit(objects[u])
      /\ Fits(u, unit)
  BY ReadyFits DEF MatchInv, MapInv, MapOK, Construct, VisitUnit, Visit
<1>2. id \in DOMAIN objects /\ Interaction(unit, b) = "Construct"
  BY <1>1, ReadyTarget DEF Construct, Reaches
<1>3. IsBuilding(b) /\ b.owner = unit.owner
  BY <1>2 DEF Interaction
<1>4. b.owner \in Players /\ b.type \in BuildingTypes /\ objects[u] \in Units /\ unit \in Units
  BY <1>1, <1>3, Kinds DEF Fits, Units, IsBuilding, MapOK
<1>5. transformed \in [Players -> Stats]
  BY <1>4, TransformedStats
<1>6. transformed[b.owner] \in Stats
  BY <1>4, <1>5
<1>7. stats' \in {transformed, [transformed EXCEPT ![b.owner] = BuildingFinished(@, b.type)]}
  BY DEF Construct
<1> HIDE DEF transformed
<1>8. BuildingFinished(transformed[b.owner], b.type) \in Stats
  BY <1>4, <1>6, BuildingStats DEF BuildingFinished
<1>9. stats' \in [Players -> Stats]
  BY <1>5, <1>7, <1>8
<1>10. known' \in [Players -> SUBSET ObjectIds]
  <2>1. id \in ObjectIds
    BY <1>1, <1>2, IdsAreObjectIds
  <2>2. known' \in {known, AddKnown(id, Players \ {b.owner})}
    BY DEF Construct
  <2> QED
    BY <2>1, <2>2, KnownType DEF BooksOK
<1> QED
  BY <1>9, <1>10 DEF Construct, VisitUnit, Visit, BooksOK

\* A production that starts, waits, continues or is completed.
LEMMA BooksProduction ==
    ASSUME MatchInv, BooksOK, NEW b, VisitedBuilding(b)
    PROVE  BooksOK'
<1>1. CASE StartProduction(b)
  <2>1. objects[b].owner \in Players
    BY <1>1, Producer DEF StartProduction, VisitBuilding, Visit, MatchInv, MapInv, MapOK
  <2>2. stats' \in [Players -> Stats]
    BY <1>1, <2>1, ProductionStats DEF StartProduction, BooksOK
  <2> QED
    BY <1>1, <2>2 DEF StartProduction, VisitBuilding, Visit, BooksOK
<1>2. CASE WaitForSpace(b) \/ ContinueProduction(b)
  BY <1>2 DEF WaitForSpace, ContinueProduction, VisitBuilding, Visit, BooksOK
<1>3. CASE CompleteProduction(b)
  <2> DEFINE p == objects[b].owner
             t == Head(objects[b].queue)
  <2>1. b \in DOMAIN objects /\ IsBuilding(objects[b]) /\ objects[b].queue # <<>>
    BY <1>3 DEF CompleteProduction, MatchInv, MapInv, MapOK
  <2>2. p \in Players /\ objects[b].queue \in Seq(UnitTypes)
    BY <2>1, Producer DEF Buildings
  <2>3. t \in UnitTypes
    BY <2>1, <2>2
  <2>4. UnitAdded(InProductionChange(stats[p], -1), t) \in Stats
    BY <2>2, <2>3, ProductionStats, UnitStats DEF BooksOK
  <2>5. stats' \in [Players -> Stats]
    BY <1>3, <2>4 DEF CompleteProduction, BooksOK
  <2>6. nextObjectID \in ObjectIds
    BY <1>3, Sizes DEF CompleteProduction, MatchInv, MapInv, MapOK, ObjectIds
  <2>7. known' \in [Players -> SUBSET ObjectIds]
    BY <1>3, <2>6, KnownType DEF CompleteProduction
  <2> QED
    BY <1>3, <2>5, <2>7 DEF CompleteProduction, BooksOK
<1> QED
  BY <1>1, <1>2, <1>3 DEF VisitedBuilding

\* Every step of the specification.
LEMMA BooksStep == MatchInv /\ BooksOK /\ [Next]_vars => BooksOK'
<1> SUFFICES ASSUME MatchInv, BooksOK, [Next]_vars PROVE BooksOK'
  OBVIOUS
<1>1. CASE \E p \in Players : Command(p)
  BY <1>1, BooksCommand
<1>2. CASE EndPoll \/ EndIteration \/ BeginStep \/ EndStep
  BY <1>2 DEF EndPoll, EndIteration, BeginStep, EndStep, BooksOK, Phases
<1>3. CASE \E id \in todo : VisitObject(id)
  <2>1. PICK id : VisitedUnit(id) \/ VisitedBuilding(id)
    BY <1>3 DEF VisitObject
  <2> QED
    BY <2>1, BooksUnitAction, BooksContinueAttack, BooksConstruct, BooksProduction
    DEF VisitedUnit
<1>4. CASE UNCHANGED vars
  BY <1>4 DEF vars, BooksOK
<1> QED
  BY <1>1, <1>2, <1>3, <1>4 DEF Next, SimulateStep

(***************************************************************************)
(* The bookkeeping of the generated map.                                   *)
(***************************************************************************)
\* What the generated map consists of.
LEMMA StartFacts ==
    /\ IsFiniteSet(StartIds) /\ StartIds \subseteq ObjectIds
    /\ \A i \in StartIds : /\ StartObjects[i].owner \in Players \cup {Gaia}
                           /\ StartObjects[i].type \in UnitTypes \cup BuildingTypes
<1> DEFINE Entry == [owner : Players \cup {Gaia}, type : UnitTypes \cup BuildingTypes,
                     tiles : SUBSET Tiles]
<1>1. StartObjects \in Seq(Entry) /\ Len(StartObjects) <= MaxObjects
  BY GameAssumption
<1>2. \A e \in Entry : /\ e.owner \in Players \cup {Gaia}
                      /\ e.type \in UnitTypes \cup BuildingTypes
  OBVIOUS
<1> HIDE DEF Entry
<1>3. Len(StartObjects) \in Nat /\ \A i \in 1 .. Len(StartObjects) : StartObjects[i] \in Entry
  BY <1>1
<1>4. IsFiniteSet(1 .. Len(StartObjects))
  BY <1>3, FS_Interval
<1> QED
  BY <1>1, <1>2, <1>3, <1>4, Sizes DEF StartIds, ObjectIds

\* The population space of the buildings a player starts with.
LEMMA StartSpace ==
    ASSUME NEW S \in SUBSET StartIds
    PROVE  MapThenSumSet(LAMBDA i : PopulationSpace[StartObjects[i].type], S)
             = Total([i \in S |-> PopulationSpace[StartObjects[i].type]], S)
<1> DEFINE w == [i \in S |-> PopulationSpace[StartObjects[i].type]]
           H(f, s) == IF s = {} THEN 0
                      ELSE PopulationSpace[StartObjects[Picked(s)].type] + f[s \ {Picked(s)}]
           g == CHOOSE f : f = [s \in SUBSET S |-> H(f, s)]
<1>1. IsFiniteSet(S)
  BY StartFacts, FS_Subset
<1>2. ASSUME NEW f PROVE f = [s \in SUBSET S |-> H(f, s)] <=> IsSum(f, w, S)
  <2>1. \A s \in SUBSET S : s # {} => Picked(s) \in S
    BY DEF Picked
  <2>2. \A s \in SUBSET S : H(f, s) = IF s = {} THEN 0 ELSE w[Picked(s)] + f[s \ {Picked(s)}]
    BY <2>1
  <2> HIDE DEF H, w
  <2> QED
    BY <2>2 DEF IsSum
<1>3. MapThenSumSet(LAMBDA i : PopulationSpace[StartObjects[i].type], S) = g[S]
  BY DEF MapThenSumSet, MapThenFoldSet, Picked
<1> HIDE DEF H, w
<1>4. \E f : f = [s \in SUBSET S |-> H(f, s)]
  BY <1>1, <1>2, SumExists
<1>5. g = [s \in SUBSET S |-> H(g, s)]
  BY <1>4
<1> HIDE DEF g
<1>6. IsSum(g, w, S)
  BY <1>2, <1>5
<1>7. Total(w, S) = g[S]
  BY <1>1, <1>6, TotalIsSum
<1> QED
  BY <1>3, <1>7 DEF w

\* The counters of the generated map.
LEMMA StartStatsType ==
    ASSUME NEW p \in Players
    PROVE  StartStats(p) \in Stats
<1> DEFINE Fits3(types) == Cardinality(StartOf(p, types))
           S == StartOf(p, BuildingTypes)
           w == [i \in S |-> PopulationSpace[StartObjects[i].type]]
           space == MapThenSumSet(LAMBDA i : PopulationSpace[StartObjects[i].type], S)
<1>1. ASSUME NEW types PROVE Cardinality(StartOf(p, types)) \in Nat
  <2>1. StartOf(p, types) \subseteq StartIds
    BY DEF StartOf
  <2>2. IsFiniteSet(StartOf(p, types))
    BY <2>1, StartFacts, FS_Subset
  <2> QED
    BY <2>2, FS_CardinalityType
<1>2. S \subseteq StartIds /\ IsFiniteSet(S)
  BY StartFacts, FS_Subset DEF StartOf
<1>3. \A i \in S : w[i] \in Nat
  BY PopulationSpaceAssumption DEF StartOf
<1>4. space = Total(w, S)
  BY <1>2, StartSpace
<1> HIDE DEF S, w, space
<1>5. space \in Nat
  BY <1>2, <1>3, <1>4, NaturalTotal
<1> QED
  BY <1>1, <1>5 DEF StartStats, Stats, space, S

\* The bookkeeping is right at the start.
LEMMA BooksInit == Init => BooksOK
<1> SUFFICES ASSUME Init PROVE BooksOK
  OBVIOUS
<1>1. resources \in [Players -> Nat]
  BY GameAssumption DEF Init
<1>2. stats \in [Players -> Stats]
  BY StartStatsType DEF Init
<1>3. known \in [Players -> SUBSET ObjectIds]
  BY StartFacts DEF Init
<1> QED
  BY <1>1, <1>2, <1>3 DEF Init, BooksOK, Phases

\* Every variable of a match has its type: no client command, attack or
\* construction makes an object that is not one, takes more resources than a
\* player has, or gives out an ID beyond the bound.
THEOREM TypesAlwaysRight == Spec => []TypeOK
<1>1. MatchInv /\ BooksOK /\ [Next]_vars => BooksOK'
  BY BooksStep
<1>2. MatchInv /\ BooksOK => TypeOK
  BY DEF MatchInv, MapInv, BooksOK, TypeOK
<1> QED
  BY <1>1, <1>2, BooksInit, MatchInvariant, PTL DEF Spec

(***************************************************************************)
(* The counters of a player as a tally of its objects, and what one object *)
(* more, less or changed does to the tally.                                *)
(***************************************************************************)
\* The objects in L that are a completed building, and its population space.
Done(f, L) == {i \in L : IsBuilding(f[i]) /\ IsCompleted(f[i])}

SpaceOf(f, L) == [i \in Done(f, L) |-> PopulationSpace[f[i].type]]

Tally(f, L) ==
    [population   |-> Cardinality({i \in L : f[i].type \in UnitTypes}),
     villagers    |-> Cardinality({i \in L : f[i].type \in VillagerTypes}),
     unitsAlive   |-> [t \in UnitTypes |-> Cardinality({i \in L : f[i].type = t})],
     space        |-> Total(SpaceOf(f, L), Done(f, L)),
     constructing |-> [t \in BuildingTypes |->
                         Cardinality({i \in L : f[i].type = t /\ ~IsCompleted(f[i])})],
     standing     |-> [t \in BuildingTypes |->
                         Cardinality({i \in L : f[i].type = t /\ IsCompleted(f[i])})],
     inProduction |-> Cardinality({i \in L : IsBuilding(f[i]) /\ f[i].production > 0})]

\* The counters s with object o counted d times more.
Counted(s, o, d) ==
    IF IsUnit(o) THEN UnitChange(s, o.type, d)
    ELSE LET s2 == IF o.production > 0 THEN InProductionChange(s, d) ELSE s
         IN  IF IsCompleted(o) THEN FinishedBuildingChange(s2, o.type, d)
                               ELSE UnfinishedBuildingChange(s2, o.type, d)

\* The counters do not tell these objects apart.
Alike(a, b) ==
    /\ a.type = b.type
    /\ IsBuilding(a) => /\ IsCompleted(a) <=> IsCompleted(b)
                        /\ a.production > 0 <=> b.production > 0

\* Counters are equal when all of their values are.
LEMMA SameStats ==
    ASSUME NEW a \in Stats, NEW b \in Stats,
           a.population = b.population, a.villagers = b.villagers, a.space = b.space,
           a.inProduction = b.inProduction,
           \A t \in UnitTypes : a.unitsAlive[t] = b.unitsAlive[t],
           \A t \in BuildingTypes : /\ a.constructing[t] = b.constructing[t]
                                    /\ a.standing[t] = b.standing[t]
    PROVE  a = b
<1>1. a.unitsAlive = b.unitsAlive
  BY DEF Stats
<1>2. a.constructing = b.constructing /\ a.standing = b.standing
  BY DEF Stats
<1> QED
  BY <1>1, <1>2 DEF Stats

\* A recount is of the type of the counters.
LEMMA TallyType ==
    ASSUME NEW f, NEW L, IsFiniteSet(L)
    PROVE  /\ Tally(f, L) \in Stats
           /\ IsFiniteSet(Done(f, L))
           /\ \A i \in Done(f, L) : SpaceOf(f, L)[i] \in Nat
<1>1. ASSUME NEW S \in SUBSET L PROVE IsFiniteSet(S) /\ Cardinality(S) \in Int
  BY FS_Subset, FS_CardinalityType
<1>2. \A i \in Done(f, L) : SpaceOf(f, L)[i] \in Nat
  BY PopulationSpaceAssumption DEF Done, SpaceOf, IsBuilding
<1>3. IsFiniteSet(Done(f, L))
  BY <1>1 DEF Done
<1>4. Total(SpaceOf(f, L), Done(f, L)) \in Int
  BY <1>2, <1>3, TotalType
<1>5. /\ [t \in UnitTypes |-> Cardinality({i \in L : f[i].type = t})] \in [UnitTypes -> Int]
      /\ [t \in BuildingTypes |-> Cardinality({i \in L : f[i].type = t /\ ~IsCompleted(f[i])})]
           \in [BuildingTypes -> Int]
      /\ [t \in BuildingTypes |-> Cardinality({i \in L : f[i].type = t /\ IsCompleted(f[i])})]
           \in [BuildingTypes -> Int]
  BY <1>1
<1> QED
  BY <1>1, <1>2, <1>3, <1>4, <1>5 DEF Tally, Stats

\* Objects that the counters do not tell apart count the same.
LEMMA TallyAlike ==
    ASSUME NEW f, NEW g, NEW L, IsFiniteSet(L), \A i \in L : Alike(f[i], g[i])
    PROVE  Tally(f, L) = Tally(g, L)
<1>1. \A i \in L : f[i].type = g[i].type
  BY DEF Alike
<1>2. \A i \in L : IsBuilding(f[i]) => /\ IsCompleted(f[i]) <=> IsCompleted(g[i])
                                       /\ f[i].production > 0 <=> g[i].production > 0
  BY DEF Alike
<1>3. \A i \in L : IsBuilding(f[i]) <=> IsBuilding(g[i])
  BY <1>1 DEF IsBuilding
<1>4. Done(f, L) = Done(g, L)
  BY <1>2, <1>3 DEF Done
<1>5. \A i \in Done(f, L) : SpaceOf(f, L)[i] = SpaceOf(g, L)[i]
  BY <1>1, <1>4 DEF SpaceOf, Done
<1>6. Total(SpaceOf(f, L), Done(f, L)) = Total(SpaceOf(g, L), Done(g, L))
  BY <1>4, <1>5, TallyType, SameTotal
<1>7. /\ {i \in L : f[i].type \in UnitTypes} = {i \in L : g[i].type \in UnitTypes}
      /\ {i \in L : f[i].type \in VillagerTypes} = {i \in L : g[i].type \in VillagerTypes}
      /\ \A t : {i \in L : f[i].type = t} = {i \in L : g[i].type = t}
  BY <1>1
<1>8. \A t \in BuildingTypes :
        /\ {i \in L : f[i].type = t /\ ~IsCompleted(f[i])}
             = {i \in L : g[i].type = t /\ ~IsCompleted(g[i])}
        /\ {i \in L : f[i].type = t /\ IsCompleted(f[i])}
             = {i \in L : g[i].type = t /\ IsCompleted(g[i])}
  BY <1>1, <1>2 DEF IsBuilding
<1>9. {i \in L : IsBuilding(f[i]) /\ f[i].production > 0}
        = {i \in L : IsBuilding(g[i]) /\ g[i].production > 0}
  BY <1>2, <1>3
<1> QED
  BY <1>6, <1>7, <1>8, <1>9 DEF Tally

\* The size of a set that may lose an element.
LEMMA CountWithout ==
    ASSUME NEW S, IsFiniteSet(S), NEW T, NEW x, T = S \ {x}
    PROVE  /\ Cardinality(T) \in Nat /\ Cardinality(S) \in Nat
           /\ x \in S => Cardinality(T) = Cardinality(S) - 1
           /\ x \notin S => Cardinality(T) = Cardinality(S)
BY FS_RemoveElement, FS_CardinalityType

\* Counting an object gives counters.
LEMMA CountedType ==
    ASSUME NEW s \in Stats, NEW o, o.type \in UnitTypes \cup BuildingTypes, NEW d \in {1, -1}
    PROVE  Counted(s, o, d) \in Stats
<1>1. CASE IsUnit(o)
  BY <1>1, UnitChanged DEF Counted, IsUnit
<1>2. CASE ~IsUnit(o)
  <2>1. o.type \in BuildingTypes
    BY <1>2 DEF IsUnit
  <2> DEFINE s2 == IF o.production > 0 THEN InProductionChange(s, d) ELSE s
  <2>2. s2 \in Stats
    BY ProductionStats
  <2> HIDE DEF s2
  <2>3. FinishedBuildingChange(s2, o.type, d) \in Stats /\ UnfinishedBuildingChange(s2, o.type, d) \in Stats
    BY <2>1, <2>2, BuildingStats
  <2> QED
    BY <1>2, <2>3 DEF Counted, s2
<1> QED
  BY <1>1, <1>2

\* What counting a unit does to each counter.
LEMMA CountedUnit ==
    ASSUME NEW s \in Stats, NEW o, IsUnit(o), NEW d \in {1, -1}
    PROVE  LET c == Counted(s, o, d)
           IN  /\ c.population = s.population + d /\ c.space = s.space
               /\ c.inProduction = s.inProduction
               /\ c.constructing = s.constructing /\ c.standing = s.standing
               /\ c.villagers = IF o.type \in VillagerTypes THEN s.villagers + d ELSE s.villagers
               /\ \A t \in UnitTypes : c.unitsAlive[t] = IF o.type = t THEN s.unitsAlive[t] + d
                                                              ELSE s.unitsAlive[t]
<1>1. o.type \in UnitTypes
  BY DEF IsUnit
<1> QED
  BY <1>1 DEF Counted, UnitChange, Stats

\* What counting a building does to each counter.
LEMMA CountedBuilding ==
    ASSUME NEW s \in Stats, NEW o, ~IsUnit(o), o.type \in BuildingTypes, NEW d \in {1, -1}
    PROVE  LET c == Counted(s, o, d)
           IN  /\ c.population = s.population /\ c.villagers = s.villagers
               /\ c.unitsAlive = s.unitsAlive
               /\ c.inProduction = IF o.production > 0 THEN s.inProduction + d ELSE s.inProduction
               /\ c.space = IF IsCompleted(o) THEN s.space + d * PopulationSpace[o.type] ELSE s.space
               /\ \A t \in BuildingTypes :
                    /\ c.constructing[t] = IF o.type = t /\ ~IsCompleted(o)
                                             THEN s.constructing[t] + d ELSE s.constructing[t]
                    /\ c.standing[t] = IF o.type = t /\ IsCompleted(o)
                                         THEN s.standing[t] + d ELSE s.standing[t]
<1> DEFINE s2 == IF o.production > 0 THEN InProductionChange(s, d) ELSE s
<1>1. s2 \in Stats
  BY ProductionStats
<1>2. /\ s2.population = s.population /\ s2.villagers = s.villagers
      /\ s2.unitsAlive = s.unitsAlive /\ s2.space = s.space
      /\ s2.constructing = s.constructing /\ s2.standing = s.standing
      /\ s2.inProduction = IF o.production > 0 THEN s.inProduction + d ELSE s.inProduction
  BY DEF InProductionChange, Stats
<1> HIDE DEF s2
<1>3. Counted(s, o, d) = IF IsCompleted(o) THEN FinishedBuildingChange(s2, o.type, d)
                                           ELSE UnfinishedBuildingChange(s2, o.type, d)
  BY DEF Counted, s2
<1>4. CASE IsCompleted(o)
  BY <1>1, <1>2, <1>3, <1>4 DEF FinishedBuildingChange, Stats
<1>5. CASE ~IsCompleted(o)
  BY <1>1, <1>2, <1>3, <1>5 DEF UnfinishedBuildingChange, Stats
<1> QED
  BY <1>4, <1>5

\* Object x no longer counts.
LEMMA TallyWithout ==
    ASSUME NEW f, NEW L, IsFiniteSet(L), NEW x \in L, f[x].type \in UnitTypes \cup BuildingTypes
    PROVE  Tally(f, L \ {x}) = Counted(Tally(f, L), f[x], -1)
<1> DEFINE M == L \ {x}
           a == Tally(f, L)
           b == Tally(f, M)
           t0 == f[x].type
<1>1. \A S \in SUBSET L : IsFiniteSet(S)
  BY FS_Subset
<1>2. IsFiniteSet(M) /\ a \in Stats /\ b \in Stats
  BY <1>1, TallyType
<1>3. /\ b.population = IF t0 \in UnitTypes THEN a.population - 1 ELSE a.population
      /\ b.villagers = IF t0 \in VillagerTypes THEN a.villagers - 1 ELSE a.villagers
  <2>1. /\ {i \in M : f[i].type \in UnitTypes} = {i \in L : f[i].type \in UnitTypes} \ {x}
        /\ {i \in M : f[i].type \in VillagerTypes} = {i \in L : f[i].type \in VillagerTypes} \ {x}
    OBVIOUS
  <2> QED
    BY <1>1, <2>1, CountWithout DEF Tally
<1>4. ASSUME NEW t \in UnitTypes
      PROVE  b.unitsAlive[t] = IF t0 = t THEN a.unitsAlive[t] - 1 ELSE a.unitsAlive[t]
  <2>1. {i \in M : f[i].type = t} = {i \in L : f[i].type = t} \ {x}
    OBVIOUS
  <2> QED
    BY <1>1, <2>1, CountWithout DEF Tally
<1>5. ASSUME NEW t \in BuildingTypes
      PROVE  /\ b.constructing[t] = IF t0 = t /\ ~IsCompleted(f[x])
                                      THEN a.constructing[t] - 1 ELSE a.constructing[t]
             /\ b.standing[t] = IF t0 = t /\ IsCompleted(f[x])
                                  THEN a.standing[t] - 1 ELSE a.standing[t]
  <2>1. {i \in M : f[i].type = t /\ ~IsCompleted(f[i])}
          = {i \in L : f[i].type = t /\ ~IsCompleted(f[i])} \ {x}
    OBVIOUS
  <2>2. {i \in M : f[i].type = t /\ IsCompleted(f[i])}
          = {i \in L : f[i].type = t /\ IsCompleted(f[i])} \ {x}
    OBVIOUS
  <2>3. b.constructing[t] = IF t0 = t /\ ~IsCompleted(f[x])
                              THEN a.constructing[t] - 1 ELSE a.constructing[t]
    BY <1>1, <2>1, CountWithout DEF Tally
  <2>4. b.standing[t] = IF t0 = t /\ IsCompleted(f[x])
                          THEN a.standing[t] - 1 ELSE a.standing[t]
    BY <1>1, <2>2, CountWithout DEF Tally
  <2> QED
    BY <2>3, <2>4
<1>6. b.inProduction = IF IsBuilding(f[x]) /\ f[x].production > 0
                         THEN a.inProduction - 1 ELSE a.inProduction
  <2>1. {i \in M : IsBuilding(f[i]) /\ f[i].production > 0}
          = {i \in L : IsBuilding(f[i]) /\ f[i].production > 0} \ {x}
    OBVIOUS
  <2> QED
    BY <1>1, <2>1, CountWithout DEF Tally
<1>7. b.space = IF IsBuilding(f[x]) /\ IsCompleted(f[x])
                  THEN a.space - PopulationSpace[t0] ELSE a.space
  <2> DEFINE S == Done(f, L)
             T == Done(f, M)
             v == SpaceOf(f, L)
             w == SpaceOf(f, M)
  <2>1. T = S \ {x} /\ a.space = Total(v, S) /\ b.space = Total(w, T)
    BY DEF Done, Tally
  <2>2. /\ IsFiniteSet(S) /\ IsFiniteSet(T)
        /\ \A i \in S : v[i] \in Nat
    BY <1>2, TallyType
  <2>8. \A i \in T : v[i] = w[i]
    BY <2>1 DEF SpaceOf
  <2>3. x \in S <=> IsBuilding(f[x]) /\ IsCompleted(f[x])
    BY DEF Done
  <2>4. x \in S => v[x] = PopulationSpace[t0]
    BY DEF SpaceOf
  <2> HIDE DEF S, T, v, w
  <2>5. Total(v, T) = Total(w, T)
    BY <2>2, <2>8, SameTotal
  <2>6. CASE x \in S
    <3>1. Total(v, S) = v[x] + Total(v, T) /\ Total(v, T) \in Int
      <4>1. \A i \in S : v[i] \in Int
        BY <2>2
      <4> QED
        BY <2>1, <2>2, <2>6, <4>1, TotalOfMore
    <3>2. v[x] \in Int
      BY <2>2, <2>6
    <3>3. Total(w, T) = Total(v, S) - v[x]
      BY <2>5, <3>1, <3>2
    <3> QED
      BY <2>1, <2>3, <2>4, <2>6, <3>3
  <2>7. CASE x \notin S
    <3>1. T = S
      BY <2>1, <2>7
    <3> QED
      BY <2>1, <2>3, <2>5, <2>7, <3>1
  <2> QED
    BY <2>6, <2>7
<1> HIDE DEF a, b, M
<1> DEFINE c == Counted(a, f[x], -1)
<1>8. c \in Stats
  BY <1>2, CountedType
<1>9. b = c
  <2>1. CASE IsUnit(f[x])
    <3>1. t0 \in UnitTypes /\ ~IsBuilding(f[x]) /\ t0 \notin BuildingTypes
      BY <2>1, TypesDisjoint DEF IsUnit, IsBuilding
    <3>2. /\ c.population = a.population - 1 /\ c.space = a.space
          /\ c.inProduction = a.inProduction
          /\ c.constructing = a.constructing /\ c.standing = a.standing
          /\ c.villagers = IF t0 \in VillagerTypes THEN a.villagers - 1 ELSE a.villagers
          /\ \A t \in UnitTypes : c.unitsAlive[t] = IF t0 = t THEN a.unitsAlive[t] - 1
                                                              ELSE a.unitsAlive[t]
      BY <1>2, <2>1, <3>1, CountedUnit
    <3> HIDE DEF c
    <3> QED
      BY <1>2, <1>3, <1>4, <1>5, <1>6, <1>7, <1>8, <3>1, <3>2, SameStats
  <2>2. CASE ~IsUnit(f[x])
    <3>1. t0 \in BuildingTypes /\ IsBuilding(f[x]) /\ t0 \notin UnitTypes /\ t0 \notin VillagerTypes
      BY <2>2, TypesDisjoint DEF IsUnit, IsBuilding, UnitTypes
    <3>2. /\ c.population = a.population /\ c.villagers = a.villagers
          /\ c.unitsAlive = a.unitsAlive
          /\ c.inProduction = IF f[x].production > 0 THEN a.inProduction - 1 ELSE a.inProduction
          /\ c.space = IF IsCompleted(f[x]) THEN a.space - PopulationSpace[t0] ELSE a.space
          /\ \A t \in BuildingTypes :
               /\ c.constructing[t] = IF t0 = t /\ ~IsCompleted(f[x])
                                        THEN a.constructing[t] - 1 ELSE a.constructing[t]
               /\ c.standing[t] = IF t0 = t /\ IsCompleted(f[x])
                                    THEN a.standing[t] - 1 ELSE a.standing[t]
      <4> DEFINE e == -1
      <4>1. e \in {1, -1} /\ \A n \in Int : n + e = n - 1
        OBVIOUS
      <4>2. PopulationSpace[t0] \in Int /\ e * PopulationSpace[t0] = -PopulationSpace[t0]
        BY <3>1, PopulationSpaceAssumption
      <4>3. c = Counted(a, f[x], e)
        OBVIOUS
      <4> HIDE DEF c, e
      <4>4. /\ c.population = a.population /\ c.villagers = a.villagers
            /\ c.unitsAlive = a.unitsAlive
            /\ c.inProduction = IF f[x].production > 0 THEN a.inProduction + e ELSE a.inProduction
            /\ c.space = IF IsCompleted(f[x]) THEN a.space + e * PopulationSpace[t0] ELSE a.space
            /\ \A t \in BuildingTypes :
                 /\ c.constructing[t] = IF t0 = t /\ ~IsCompleted(f[x])
                                          THEN a.constructing[t] + e ELSE a.constructing[t]
                 /\ c.standing[t] = IF t0 = t /\ IsCompleted(f[x])
                                      THEN a.standing[t] + e ELSE a.standing[t]
        BY <1>2, <2>2, <3>1, <4>1, <4>3, CountedBuilding
      <4>5. /\ a.space \in Int /\ a.inProduction \in Int
            /\ \A t \in BuildingTypes : a.constructing[t] \in Int /\ a.standing[t] \in Int
        BY <1>2 DEF Stats
      <4>6. /\ c.inProduction = IF f[x].production > 0 THEN a.inProduction - 1 ELSE a.inProduction
            /\ c.space = IF IsCompleted(f[x]) THEN a.space - PopulationSpace[t0] ELSE a.space
        BY <4>1, <4>2, <4>4, <4>5
      <4> QED
        BY <4>1, <4>4, <4>5, <4>6
    <3> HIDE DEF c
    <3> QED
      BY <1>2, <1>3, <1>4, <1>5, <1>6, <1>7, <1>8, <3>1, <3>2, SameStats
  <2> QED
    BY <2>1, <2>2
<1> QED
  BY <1>9 DEF a, b, M

\* An object that is taken off and added again counts as before.
LEMMA CountedBack ==
    ASSUME NEW s \in Stats, NEW o, o.type \in UnitTypes \cup BuildingTypes, NEW d \in {1, -1},
           NEW e \in {1, -1}, d + e = 0
    PROVE  Counted(Counted(s, o, d), o, e) = s
<1> DEFINE a == Counted(s, o, d)
           b == Counted(a, o, e)
<1>1. \A n \in Int : n + d + e = n
  OBVIOUS
<1>2. a \in Stats /\ b \in Stats
  BY CountedType
<1>3. CASE IsUnit(o)
  <2>1. /\ a.population = s.population + d /\ a.space = s.space
        /\ a.inProduction = s.inProduction
        /\ a.constructing = s.constructing /\ a.standing = s.standing
        /\ a.villagers = IF o.type \in VillagerTypes THEN s.villagers + d ELSE s.villagers
        /\ \A t \in UnitTypes : a.unitsAlive[t] = IF o.type = t THEN s.unitsAlive[t] + d
                                                            ELSE s.unitsAlive[t]
    BY <1>3, CountedUnit
  <2> HIDE DEF a
  <2>2. /\ b.population = a.population + e /\ b.space = a.space
        /\ b.inProduction = a.inProduction
        /\ b.constructing = a.constructing /\ b.standing = a.standing
        /\ b.villagers = IF o.type \in VillagerTypes THEN a.villagers + e ELSE a.villagers
        /\ \A t \in UnitTypes : b.unitsAlive[t] = IF o.type = t THEN a.unitsAlive[t] + e
                                                            ELSE a.unitsAlive[t]
    BY <1>2, <1>3, CountedUnit
  <2> HIDE DEF b
  <2>3. /\ s.population \in Int /\ s.villagers \in Int
        /\ \A t \in UnitTypes : s.unitsAlive[t] \in Int
    BY DEF Stats
  <2>4. /\ b.population = s.population /\ b.villagers = s.villagers
        /\ \A t \in UnitTypes : b.unitsAlive[t] = s.unitsAlive[t]
    BY <1>1, <2>1, <2>2, <2>3
  <2>5. b = s
    BY <1>2, <2>1, <2>2, <2>4, SameStats
  <2> QED
    BY <2>5 DEF a, b
<1>4. CASE ~IsUnit(o)
  <2>1. o.type \in BuildingTypes
    BY <1>4 DEF IsUnit
  <2>2. /\ a.population = s.population /\ a.villagers = s.villagers
        /\ a.unitsAlive = s.unitsAlive
        /\ a.inProduction = IF o.production > 0 THEN s.inProduction + d ELSE s.inProduction
        /\ a.space = IF IsCompleted(o) THEN s.space + d * PopulationSpace[o.type] ELSE s.space
        /\ \A t \in BuildingTypes :
             /\ a.constructing[t] = IF o.type = t /\ ~IsCompleted(o)
                                      THEN s.constructing[t] + d ELSE s.constructing[t]
             /\ a.standing[t] = IF o.type = t /\ IsCompleted(o)
                                  THEN s.standing[t] + d ELSE s.standing[t]
    BY <1>4, <2>1, CountedBuilding
  <2> HIDE DEF a
  <2>3. /\ b.population = a.population /\ b.villagers = a.villagers
        /\ b.unitsAlive = a.unitsAlive
        /\ b.inProduction = IF o.production > 0 THEN a.inProduction + e ELSE a.inProduction
        /\ b.space = IF IsCompleted(o) THEN a.space + e * PopulationSpace[o.type] ELSE a.space
        /\ \A t \in BuildingTypes :
             /\ b.constructing[t] = IF o.type = t /\ ~IsCompleted(o)
                                      THEN a.constructing[t] + e ELSE a.constructing[t]
             /\ b.standing[t] = IF o.type = t /\ IsCompleted(o)
                                  THEN a.standing[t] + e ELSE a.standing[t]
    BY <1>2, <1>4, <2>1, CountedBuilding
  <2> HIDE DEF b
  <2>4. /\ s.space \in Int /\ s.inProduction \in Int /\ PopulationSpace[o.type] \in Int
        /\ \A t \in BuildingTypes : s.constructing[t] \in Int /\ s.standing[t] \in Int
    BY <2>1, PopulationSpaceAssumption DEF Stats
  <2>5. s.space + d * PopulationSpace[o.type] + e * PopulationSpace[o.type] = s.space
    BY <2>4
  <2>6. b.space = s.space /\ b.inProduction = s.inProduction
    <3>1. b.space = s.space
      <4>1. CASE IsCompleted(o)
        BY <2>2, <2>3, <2>5, <4>1
      <4>2. CASE ~IsCompleted(o)
        BY <2>2, <2>3, <4>2
      <4> QED
        BY <4>1, <4>2
    <3>2. b.inProduction = s.inProduction
      <4>1. CASE o.production > 0
        BY <1>1, <2>2, <2>3, <2>4, <4>1
      <4>2. CASE ~(o.production > 0)
        BY <2>2, <2>3, <4>2
      <4> QED
        BY <4>1, <4>2
    <3> QED
      BY <3>1, <3>2
  <2>7. \A t \in BuildingTypes : /\ b.constructing[t] = s.constructing[t]
                               /\ b.standing[t] = s.standing[t]
    BY <1>1, <2>2, <2>3, <2>4
  <2>8. b = s
    BY <1>2, <2>2, <2>3, <2>6, <2>7, SameStats
  <2> QED
    BY <2>8 DEF a, b
<1> QED
  BY <1>3, <1>4

\* Object x counts as well.
LEMMA TallyWith ==
    ASSUME NEW f, NEW L, IsFiniteSet(L), NEW x, x \notin L,
           f[x].type \in UnitTypes \cup BuildingTypes
    PROVE  Tally(f, L \cup {x}) = Counted(Tally(f, L), f[x], 1)
<1> DEFINE M == L \cup {x}
<1>1. IsFiniteSet(M) /\ x \in M /\ L = M \ {x}
  BY FS_AddElement
<1> HIDE DEF M
<1>2. Tally(f, L) = Counted(Tally(f, M), f[x], -1)
  BY <1>1, TallyWithout
<1>3. Tally(f, M) \in Stats
  BY <1>1, TallyType
<1>4. Counted(Counted(Tally(f, M), f[x], -1), f[x], 1) = Tally(f, M)
  <2> DEFINE d == -1
  <2>1. d \in {1, -1} /\ 1 \in {1, -1} /\ d + 1 = 0
    OBVIOUS
  <2> HIDE DEF d
  <2>2. Counted(Counted(Tally(f, M), f[x], d), f[x], 1) = Tally(f, M)
    BY <1>3, <2>1, CountedBack
  <2> QED
    BY <2>2 DEF d
<1> QED
  BY <1>2, <1>4 DEF M

\* Object x has changed, in a way that may count.
LEMMA TallyChanged ==
    ASSUME NEW f, NEW g, NEW L, IsFiniteSet(L), NEW x \in L,
           f[x].type \in UnitTypes \cup BuildingTypes, g[x].type \in UnitTypes \cup BuildingTypes,
           \A i \in L \ {x} : Alike(f[i], g[i])
    PROVE  Tally(g, L) = Counted(Counted(Tally(f, L), f[x], -1), g[x], 1)
<1> DEFINE M == L \ {x}
<1>1. IsFiniteSet(M) /\ x \notin M /\ L = M \cup {x}
  BY FS_RemoveElement
<1>2. Tally(f, M) = Counted(Tally(f, L), f[x], -1)
  BY TallyWithout
<1>3. Tally(g, M) = Tally(f, M)
  BY <1>1, TallyAlike
<1> HIDE DEF M
<1>4. Tally(g, M \cup {x}) = Counted(Tally(g, M), g[x], 1)
  BY <1>1, TallyWith
<1> QED
  BY <1>1, <1>2, <1>3, <1>4

(***************************************************************************)
(* Recount, of a state and of the next one, is such a tally.               *)
(***************************************************************************)
\* The sum of Recount.
SpaceSum(f, S) == MapThenSumSet(LAMBDA i : PopulationSpace[f[i].type], S)

\* The sum that Recount takes over buildings is a total.
LEMMA SpaceSumIsTotal ==
    ASSUME NEW f, NEW S, IsFiniteSet(S)
    PROVE  SpaceSum(f, S) = Total([i \in S |-> PopulationSpace[f[i].type]], S)
<1> DEFINE w == [i \in S |-> PopulationSpace[f[i].type]]
           H(g, s) == IF s = {} THEN 0
                      ELSE PopulationSpace[f[Picked(s)].type] + g[s \ {Picked(s)}]
           sum == CHOOSE g : g = [s \in SUBSET S |-> H(g, s)]
<1>1. ASSUME NEW g PROVE g = [s \in SUBSET S |-> H(g, s)] <=> IsSum(g, w, S)
  <2>1. \A s \in SUBSET S : s # {} => Picked(s) \in S
    BY DEF Picked
  <2>2. \A s \in SUBSET S : H(g, s) = IF s = {} THEN 0 ELSE w[Picked(s)] + g[s \ {Picked(s)}]
    BY <2>1
  <2> HIDE DEF H, w
  <2> QED
    BY <2>2 DEF IsSum
<1>2. SpaceSum(f, S) = sum[S]
  BY DEF SpaceSum, MapThenSumSet, MapThenFoldSet, Picked
<1> HIDE DEF H, w
<1>3. \E g : g = [s \in SUBSET S |-> H(g, s)]
  BY <1>1, SumExists
<1>4. sum = [s \in SUBSET S |-> H(sum, s)]
  BY <1>3
<1> HIDE DEF sum
<1>5. IsSum(sum, w, S)
  BY <1>1, <1>4
<1>6. Total(w, S) = sum[S]
  BY <1>5, TotalIsSum
<1> QED
  BY <1>2, <1>6 DEF w

\* The objects of a player are finitely many of those on the map.
LEMMA LiveFinite ==
    ASSUME MapOK, NEW p
    PROVE  IsFiniteSet(LiveOf(p)) /\ LiveOf(p) \subseteq DOMAIN objects
<1>1. LiveOf(p) \subseteq DOMAIN objects
  BY DEF LiveOf, Live
<1> QED
  BY <1>1, FiniteObjects, FS_Subset

\* Recount, in which the property is stated, is the tally of these proofs.
LEMMA RecountIsTally ==
    MapOK => \A p \in Players : Recount(p) = Tally(objects, LiveOf(p))
<1> SUFFICES ASSUME MapOK, NEW p \in Players PROVE Recount(p) = Tally(objects, LiveOf(p))
  OBVIOUS
<1> DEFINE L == LiveOf(p)
           D == {i \in L : IsBuilding(objects[i]) /\ IsCompleted(objects[i])}
<1>1. IsFiniteSet(D)
  BY LiveFinite, FS_Subset
<1>2. Done(objects, L) = D /\ SpaceOf(objects, L) = [i \in D |-> PopulationSpace[objects[i].type]]
  BY DEF Done, SpaceOf
<1>3. Recount(p).space = SpaceSum(objects, D)
  BY DEF Recount, SpaceSum
<1>4. SpaceSum(objects, D) = Total(SpaceOf(objects, L), Done(objects, L))
  BY <1>1, <1>2, SpaceSumIsTotal
<1>5. Recount(p).space = Tally(objects, L).space
  BY <1>3, <1>4 DEF Tally
<1>6. Recount(p).population = Tally(objects, L).population
  BY DEF Recount, Tally, CountLive
<1>7. Recount(p).villagers = Tally(objects, L).villagers
  BY DEF Recount, Tally, CountLive
<1>8. Recount(p).unitsAlive = Tally(objects, L).unitsAlive
  <2>1. \A t : {i \in L : objects[i].type \in {t}} = {i \in L : objects[i].type = t}
    OBVIOUS
  <2> QED
    BY <2>1 DEF Recount, Tally, CountLive
<1>9. Recount(p).constructing = Tally(objects, L).constructing
  BY DEF Recount, Tally
<1>10. Recount(p).standing = Tally(objects, L).standing
  BY DEF Recount, Tally
<1>11. Recount(p).inProduction = Tally(objects, L).inProduction
  BY DEF Recount, Tally
<1> QED
  BY <1>5, <1>6, <1>7, <1>8, <1>9, <1>10, <1>11 DEF Recount, Tally

\* The same of the next state.
LEMMA NextRecounts ==
    MapOK' => (\A p \in Players : Recount(p) = Tally(objects, LiveOf(p)))'
BY RecountIsTally, PTL

\* The same of the next state, of one player.
LEMMA NextRecountIsTally ==
    ASSUME MapOK', NEW p \in Players
    PROVE  Recount(p)' = Tally(objects', LiveOf(p)')
BY NextRecounts

(***************************************************************************)
(* Each action changes the counters as it changes the tally.               *)
(***************************************************************************)
\* The counters of player p are right, in this state and in the next.
Matching(p) == stats[p] = Tally(objects, LiveOf(p))

MatchingNext(p) == stats'[p] = Tally(objects', LiveOf(p)')

\* An object is a unit or a building.
LEMMA ObjectType ==
    ASSUME NEW o \in Units \cup Buildings
    PROVE  o.type \in UnitTypes \cup BuildingTypes
BY DEF Units, Buildings

\* An object in f that counts has become another one.
LEMMA OneChanged ==
    ASSUME NEW f, NEW g, NEW L, IsFiniteSet(L), NEW x \in L,
           f[x].type \in UnitTypes \cup BuildingTypes, g[x].type \in UnitTypes \cup BuildingTypes,
           \A i \in L \ {x} : g[i] = f[i]
    PROVE  Tally(g, L) = Counted(Counted(Tally(f, L), f[x], -1), g[x], 1)
<1>1. \A i \in L \ {x} : Alike(f[i], g[i])
  BY DEF Alike
<1> QED
  BY <1>1, TallyChanged

\* An object in f that does not count has become another one.
LEMMA OtherChanged ==
    ASSUME NEW f, NEW g, NEW L, IsFiniteSet(L), \A i \in L : g[i] = f[i]
    PROVE  Tally(g, L) = Tally(f, L)
<1>1. \A i \in L : Alike(f[i], g[i])
  BY DEF Alike
<1> QED
  BY <1>1, TallyAlike

\* Nobody has died, and everything has the owner it had.
LEMMA LiveKept ==
    ASSUME DOMAIN objects' = DOMAIN objects,
           \A i \in DOMAIN objects : objects'[i].owner = objects[i].owner,
           objectDeleteList' = objectDeleteList, NEW p
    PROVE  LiveOf(p)' = LiveOf(p)
BY DEF LiveOf, Live

\* A unit taken off and added with another type: UnitTransformed.
LEMMA UnitCounted ==
    ASSUME NEW s \in Stats, NEW a, NEW b, IsUnit(a), IsUnit(b)
    PROVE  /\ Counted(Counted(s, a, -1), b, 1) = UnitTransformed(s, a.type, b.type)
           /\ a.type = b.type => Counted(Counted(s, a, -1), b, 1) = s
<1>1. Counted(Counted(s, a, -1), b, 1) = UnitTransformed(s, a.type, b.type)
  BY DEF Counted, UnitTransformed
<1>2. ASSUME a.type = b.type PROVE Counted(Counted(s, a, -1), b, 1) = s
  <2> DEFINE d == -1
  <2>1. d \in {1, -1} /\ 1 \in {1, -1} /\ d + 1 = 0
    OBVIOUS
  <2> HIDE DEF d
  <2>2. Counted(Counted(s, a, d), a, 1) = s
    BY <2>1, CountedBack DEF IsUnit
  <2>3. Counted(Counted(s, a, d), b, 1) = Counted(Counted(s, a, d), a, 1)
    BY <1>2 DEF Counted
  <2> QED
    BY <2>2, <2>3 DEF d
<1> QED
  BY <1>1, <1>2

\* One unit has become another, of the same player.
LEMMA UnitTally ==
    ASSUME MatchInv, BooksOK, NEW u \in DOMAIN objects, IsUnit(objects[u]),
           NEW v, Fits(u, v), u \in objectDeleteList => v.type = objects[u].type,
           NEW g, g[u] = v, \A i \in DOMAIN objects \ {u} : g[i] = objects[i],
           NEW p \in Players, Matching(p)
    PROVE  Tally(g, LiveOf(p)) = StatsAfterTransform(objects[u], v)[p]
<1> DEFINE o == objects[u]
           L == LiveOf(p)
           s2 == StatsAfterTransform(o, v)
<1>1. MapOK /\ o \in Units /\ v \in Units /\ v.owner = o.owner /\ o.owner \in Players
  BY Kinds DEF MatchInv, MapInv, MapOK, Fits, Units
<1>2. stats[p] \in Stats /\ stats[p] = Tally(objects, L)
  BY DEF BooksOK, Matching
<1>3. IsUnit(v) /\ v.type \in UnitTypes /\ o.type \in UnitTypes
  BY <1>1 DEF Units, IsUnit
<1>4. L \in SUBSET DOMAIN objects /\ IsFiniteSet(L)
  BY <1>1, LiveFinite
<1>5. /\ u \notin L => Tally(g, L) = stats[p]
      /\ u \in L => Tally(g, L) = Counted(Counted(stats[p], o, -1), v, 1)
  <2>1. o.type \in UnitTypes \cup BuildingTypes /\ v.type \in UnitTypes \cup BuildingTypes
    BY <1>3
  <2>3. g[u] = v /\ \A i \in L \ {u} : g[i] = objects[i]
    BY <1>4
  <2>4. g[u].type \in UnitTypes \cup BuildingTypes
    BY <2>1, <2>3
  <2> DEFINE f == objects
  <2>5. f[u] = o /\ \A i \in L \ {u} : g[i] = f[i]
    BY <2>3
  <2> HIDE DEF L, f, o
  <2>6. ASSUME u \notin L PROVE Tally(g, L) = Tally(f, L)
    BY <1>4, <2>5, <2>6, OtherChanged
  <2>7. ASSUME u \in L PROVE Tally(g, L) = Counted(Counted(Tally(f, L), f[u], -1), g[u], 1)
    <3>1. f[u].type \in UnitTypes \cup BuildingTypes
      BY <2>1, <2>5
    <3>2. IsFiniteSet(L)
      BY <1>4
    <3>3. \A i \in L \ {u} : g[i] = f[i]
      BY <2>5
    <3>4. g[u].type \in UnitTypes \cup BuildingTypes
      BY <2>4
    <3> QED
      BY <2>7, <3>1, <3>2, <3>3, <3>4, OneChanged
  <2>8. stats[p] = Tally(f, L)
    BY <1>2 DEF f
  <2> QED
    BY <2>3, <2>5, <2>6, <2>7, <2>8
<1>6. CASE u \notin L
  <2>1. CASE u \in objectDeleteList
    BY <1>5, <1>6, <2>1 DEF StatsAfterTransform
  <2>2. CASE u \notin objectDeleteList
    <3>1. o.owner # p
      BY <1>6, <2>2 DEF LiveOf, Live
    <3>2. s2[p] = stats[p]
      BY <3>1 DEF StatsAfterTransform, BooksOK
    <3> QED
      BY <1>5, <1>6, <3>2
  <2> QED
    BY <2>1, <2>2
<1>7. CASE u \in L
  <2>1. o.owner = p
    BY <1>7 DEF LiveOf
  <2>2. s2[p] = IF o.type = v.type THEN stats[p]
                ELSE UnitTransformed(stats[p], o.type, v.type)
    BY <2>1 DEF StatsAfterTransform, BooksOK
  <2>3. /\ Counted(Counted(stats[p], o, -1), v, 1) = UnitTransformed(stats[p], o.type, v.type)
        /\ o.type = v.type => Counted(Counted(stats[p], o, -1), v, 1) = stats[p]
    BY <1>2, <1>3, UnitCounted
  <2> QED
    BY <1>5, <1>7, <2>2, <2>3
<1> QED
  BY <1>6, <1>7

\* A step that changes one unit, which may change its trade.
LEMMA UnitFollows ==
    ASSUME MatchInv, BooksOK, ~TouchesDoomed, NEW u \in DOMAIN objects, IsUnit(objects[u]),
           NEW v, Fits(u, v), objects' = [objects EXCEPT ![u] = v],
           objectDeleteList' = objectDeleteList,
           stats' = StatsAfterTransform(objects[u], v),
           NEW p \in Players, Matching(p)
    PROVE  MatchingNext(p)
<1>1. u \in objectDeleteList => v.type = objects[u].type
  BY DEF TouchesDoomed
<1>2. LiveOf(p)' = LiveOf(p)
  BY LiveKept DEF Fits
<1>3. Tally(objects', LiveOf(p)) = StatsAfterTransform(objects[u], v)[p]
  BY <1>1, UnitTally
<1> QED
  BY <1>2, <1>3 DEF MatchingNext

\* What a building's production does to the counters.
Change(a, b) == (IF b.production > 0 THEN 1 ELSE 0) - (IF a.production > 0 THEN 1 ELSE 0)

\* A building taken off and added again: its production or its completion counts.
LEMMA BuildingCounted ==
    ASSUME NEW s \in Stats, NEW a, NEW b, ~IsUnit(a), ~IsUnit(b),
           a.type \in BuildingTypes, b.type = a.type
    PROVE  /\ Counted(Counted(s, a, -1), b, 1) \in Stats
           /\ (IsCompleted(a) <=> IsCompleted(b))
                => Counted(Counted(s, a, -1), b, 1) = InProductionChange(s, Change(a, b))
           /\ (Change(a, b) = 0 /\ ~IsCompleted(a) /\ IsCompleted(b))
                => Counted(Counted(s, a, -1), b, 1) = BuildingFinished(s, a.type)
<1> DEFINE d == -1
           x == Counted(s, a, d)
           y == Counted(x, b, 1)
           t0 == a.type
           n == Change(a, b)
<1>1. d \in {1, -1} /\ 1 \in {1, -1} /\ \A m \in Int : m + d = m - 1
  OBVIOUS
<1>2. PopulationSpace[t0] \in Int /\ d * PopulationSpace[t0] = -PopulationSpace[t0]
      /\ 1 * PopulationSpace[t0] = PopulationSpace[t0]
  BY PopulationSpaceAssumption
<1>3. Counted(Counted(s, a, -1), b, 1) = y
  OBVIOUS
<1> HIDE DEF d
<1>4. x \in Stats /\ y \in Stats
  BY <1>1, CountedType
<1>5. /\ x.population = s.population /\ x.villagers = s.villagers
      /\ x.unitsAlive = s.unitsAlive
      /\ x.inProduction = IF a.production > 0 THEN s.inProduction + d ELSE s.inProduction
      /\ x.space = IF IsCompleted(a) THEN s.space + d * PopulationSpace[t0] ELSE s.space
      /\ \A t \in BuildingTypes :
           /\ x.constructing[t] = IF t0 = t /\ ~IsCompleted(a)
                                    THEN s.constructing[t] + d ELSE s.constructing[t]
           /\ x.standing[t] = IF t0 = t /\ IsCompleted(a)
                                THEN s.standing[t] + d ELSE s.standing[t]
  BY <1>1, CountedBuilding
<1> HIDE DEF x
<1>6. /\ y.population = x.population /\ y.villagers = x.villagers
      /\ y.unitsAlive = x.unitsAlive
      /\ y.inProduction = IF b.production > 0 THEN x.inProduction + 1 ELSE x.inProduction
      /\ y.space = IF IsCompleted(b) THEN x.space + 1 * PopulationSpace[t0] ELSE x.space
      /\ \A t \in BuildingTypes :
           /\ y.constructing[t] = IF t0 = t /\ ~IsCompleted(b)
                                    THEN x.constructing[t] + 1 ELSE x.constructing[t]
           /\ y.standing[t] = IF t0 = t /\ IsCompleted(b)
                                THEN x.standing[t] + 1 ELSE x.standing[t]
  BY <1>1, <1>4, CountedBuilding
<1> HIDE DEF y
<1>7. /\ s.population \in Int /\ s.villagers \in Int /\ s.space \in Int /\ s.inProduction \in Int
      /\ \A t \in BuildingTypes : s.constructing[t] \in Int /\ s.standing[t] \in Int
  BY DEF Stats
<1>8. n \in Int /\ y.inProduction = s.inProduction + n
  BY <1>1, <1>5, <1>6, <1>7 DEF Change
<1>9. ASSUME IsCompleted(a) <=> IsCompleted(b) PROVE y = InProductionChange(s, n)
  <2> DEFINE z == InProductionChange(s, n)
  <2>1. z \in Stats
    BY <1>8, ProductionStats
  <2>2. /\ z.population = s.population /\ z.villagers = s.villagers
        /\ z.unitsAlive = s.unitsAlive /\ z.space = s.space
        /\ z.constructing = s.constructing /\ z.standing = s.standing
        /\ z.inProduction = s.inProduction + n
    BY DEF InProductionChange, Stats
  <2> HIDE DEF z, n
  <2>3. y.space = z.space
    BY <1>2, <1>5, <1>6, <1>7, <1>9, <2>2
  <2>4. \A t \in BuildingTypes : /\ y.constructing[t] = z.constructing[t]
                               /\ y.standing[t] = z.standing[t]
    BY <1>1, <1>5, <1>6, <1>7, <1>9, <2>2
  <2>5. y = z
    BY <1>4, <1>5, <1>6, <1>8, <2>1, <2>2, <2>3, <2>4, SameStats
  <2> QED
    BY <2>5 DEF z
<1>10. ASSUME n = 0, ~IsCompleted(a), IsCompleted(b) PROVE y = BuildingFinished(s, t0)
  <2> DEFINE z1 == UnfinishedBuildingChange(s, t0, d)
             z == FinishedBuildingChange(z1, t0, 1)
  <2>1. z1 \in Stats /\ z \in Stats
    BY <1>1, BuildingStats
  <2>2. /\ z1.population = s.population /\ z1.villagers = s.villagers
        /\ z1.unitsAlive = s.unitsAlive /\ z1.space = s.space
        /\ z1.standing = s.standing /\ z1.inProduction = s.inProduction
        /\ \A t \in BuildingTypes : z1.constructing[t] = IF t0 = t THEN s.constructing[t] + d
                                                        ELSE s.constructing[t]
    BY DEF UnfinishedBuildingChange, Stats
  <2>3. z = BuildingFinished(s, t0)
    BY DEF BuildingFinished, d
  <2> HIDE DEF z1
  <2>4. /\ z.population = z1.population /\ z.villagers = z1.villagers
        /\ z.unitsAlive = z1.unitsAlive /\ z.space = z1.space + 1 * PopulationSpace[t0]
        /\ z.constructing = z1.constructing /\ z.inProduction = z1.inProduction
        /\ \A t \in BuildingTypes : z.standing[t] = IF t0 = t THEN z1.standing[t] + 1
                                                   ELSE z1.standing[t]
    BY <2>1 DEF FinishedBuildingChange, Stats
  <2> HIDE DEF z, n
  <2>5. y.space = z.space /\ y.inProduction = z.inProduction
    BY <1>2, <1>5, <1>6, <1>7, <1>8, <1>10, <2>2, <2>4
  <2>6. \A t \in BuildingTypes : /\ y.constructing[t] = z.constructing[t]
                               /\ y.standing[t] = z.standing[t]
    BY <1>1, <1>5, <1>6, <1>7, <1>10, <2>2, <2>4
  <2>7. y = z
    BY <1>4, <1>5, <1>6, <2>1, <2>2, <2>4, <2>5, <2>6, SameStats
  <2> QED
    BY <2>3, <2>7
<1> QED
  BY <1>3, <1>4, <1>9, <1>10

\* No production more or less.
LEMMA NoChange ==
    ASSUME NEW s \in Stats
    PROVE  InProductionChange(s, 0) = s
BY DEF InProductionChange, Stats

\* A building whose production starts, goes on or ends.
LEMMA BuildingFollows ==
    ASSUME MatchInv, BooksOK, ~TouchesDoomed, NEW b \in DOMAIN objects, ~IsUnit(objects[b]),
           NEW b2, b2.type = objects[b].type, b2.owner = objects[b].owner,
           b2.owner \in Players, b2.built = objects[b].built,
           objects' = [objects EXCEPT ![b] = b2],
           objectDeleteList' = objectDeleteList,
           stats' = [stats EXCEPT ![b2.owner] = InProductionChange(@, Change(objects[b], b2))],
           NEW p \in Players, Matching(p)
    PROVE  MatchingNext(p)
<1> DEFINE o == objects[b]
           n == Change(o, b2)
<1>1. MapOK /\ o \in Buildings /\ ~IsUnit(b2) /\ o.type \in BuildingTypes
  BY Kinds, TypesDisjoint DEF MatchInv, MapInv, MapOK, Buildings, IsUnit
<1>2. stats[p] \in Stats
  BY DEF BooksOK
<1>3. /\ b \notin LiveOf(p) => Tally(objects', LiveOf(p)') = stats[p]
      /\ b \in LiveOf(p) => Tally(objects', LiveOf(p)') = Counted(Counted(stats[p], o, -1), b2, 1)
  <2> DEFINE L == LiveOf(p)
  <2>1. L \in SUBSET DOMAIN objects /\ IsFiniteSet(L)
    BY <1>1, LiveFinite
  <2>2. stats[p] = Tally(objects, L)
    BY DEF Matching
  <2>3. /\ b \notin L => Tally(objects', L) = stats[p]
        /\ b \in L => Tally(objects', L) = Counted(Counted(stats[p], o, -1), b2, 1)
    <3>1. /\ objects[b].type \in UnitTypes \cup BuildingTypes
          /\ b2.type \in UnitTypes \cup BuildingTypes
      BY <1>1
    <3> DEFINE f == objects
               g == objects'
    <3>3. f[b] = o /\ g[b] = b2 /\ \A i \in L \ {b} : g[i] = f[i]
      BY <2>1
    <3>4. stats[p] = Tally(f, L)
      BY <2>2
    <3> HIDE DEF L, f, g, o
    <3>6. ASSUME b \notin L PROVE Tally(g, L) = Tally(f, L)
      BY <2>1, <3>3, <3>6, OtherChanged
    <3>7. ASSUME b \in L PROVE Tally(g, L) = Counted(Counted(Tally(f, L), f[b], -1), g[b], 1)
      BY <2>1, <3>1, <3>3, <3>7, OneChanged DEF o
    <3>8. /\ b \notin L => Tally(g, L) = stats[p]
          /\ b \in L => Tally(g, L) = Counted(Counted(stats[p], o, -1), b2, 1)
      BY <3>3, <3>4, <3>6, <3>7
    <3> QED
      BY <3>8 DEF g
  <2>4. LiveOf(p)' = L
    BY LiveKept
  <2> QED
    BY <2>3, <2>4
<1>4. stats'[p] = IF b2.owner = p THEN InProductionChange(stats[p], n) ELSE stats[p]
  BY DEF BooksOK
<1>5. CASE b \notin LiveOf(p)
  <2>1. CASE b \in objectDeleteList
    <3>1. b2 = o
      BY <2>1 DEF TouchesDoomed
    <3>2. n = 0
      BY <3>1 DEF Change
    <3> QED
      BY <1>2, <1>3, <1>4, <1>5, <3>2, NoChange DEF MatchingNext
  <2>2. CASE b \notin objectDeleteList
    <3>1. b2.owner # p
      BY <1>5, <2>2 DEF LiveOf, Live
    <3> QED
      BY <1>3, <1>4, <1>5, <3>1 DEF MatchingNext
  <2> QED
    BY <2>1, <2>2
<1>6. CASE b \in LiveOf(p)
  <2>1. b2.owner = p
    BY <1>6 DEF LiveOf
  <2>2. IsCompleted(o) <=> IsCompleted(b2)
    BY DEF IsCompleted
  <2>3. Counted(Counted(stats[p], o, -1), b2, 1) = InProductionChange(stats[p], n)
    BY <1>1, <1>2, <2>2, BuildingCounted
  <2> QED
    BY <1>3, <1>4, <1>6, <2>1, <2>3 DEF MatchingNext
<1> QED
  BY <1>5, <1>6

\* Everything on the map counts as before, and possibly one object dies.
AllAlike ==
    /\ DOMAIN objects' = DOMAIN objects
    /\ \A i \in DOMAIN objects : Alike(objects[i], objects'[i]) /\ objects'[i].owner = objects[i].owner

\* Objects that count as they did.
LEMMA AlikeTally ==
    ASSUME MapOK, AllAlike, NEW L \in SUBSET DOMAIN objects
    PROVE  Tally(objects', L) = Tally(objects, L)
<1>1. IsFiniteSet(L) /\ \A i \in L : Alike(objects[i], objects'[i])
  BY FiniteObjects, FS_Subset DEF AllAlike
<1> QED
  BY <1>1, TallyAlike

\* A step that changes nothing that counts.
LEMMA IdleFollows ==
    ASSUME MapOK, AllAlike, objectDeleteList' = objectDeleteList, stats' = stats,
           NEW p \in Players, Matching(p)
    PROVE  MatchingNext(p)
<1>1. LiveOf(p)' = LiveOf(p)
  BY DEF LiveOf, Live, AllAlike
<1>2. LiveOf(p) \in SUBSET DOMAIN objects
  BY LiveFinite
<1> QED
  BY <1>1, <1>2, AlikeTally DEF Matching, MatchingNext

\* A step that deletes an object: it is taken off the counters at once.
LEMMA DeletionFollows ==
    ASSUME MatchInv, BooksOK, AllAlike, NEW id \in DOMAIN objects,
           objects[id].owner \in Players, NEW manually, DeleteObject(id, manually),
           NEW p \in Players, Matching(p)
    PROVE  MatchingNext(p)
<1> DEFINE o == objects[id]
           L == LiveOf(p)
<1>1. MapOK /\ objectDeleteList' = objectDeleteList \cup {id}
  BY DEF MatchInv, MapInv, DeleteObject
<1>2. CASE id \in objectDeleteList
  BY <1>1, <1>2, IdleFollows DEF DeleteObject
<1>3. CASE id \notin objectDeleteList
  <2>1. LiveOf(p)' = L \ {id}
    BY <1>1 DEF LiveOf, Live, AllAlike
  <2>2. IsFiniteSet(L) /\ L \in SUBSET DOMAIN objects
    BY <1>1, LiveFinite
  <2>3. Tally(objects', L \ {id}) = Tally(objects, L \ {id})
    BY <1>1, <2>2, AlikeTally
  <2>4. stats' = StatsAfterDeletion(o)
    BY <1>3 DEF DeleteObject
  <2>5. CASE o.owner = p
    <3>1. id \in L /\ o.type \in UnitTypes \cup BuildingTypes
      BY <1>1, <1>3, <2>5, ObjectType DEF LiveOf, Live, MapOK
    <3>2. Tally(objects, L \ {id}) = Counted(Tally(objects, L), o, -1)
      BY <2>2, <3>1, TallyWithout
    <3>3. stats'[p] = Counted(stats[p], o, -1)
      BY <2>4, <2>5 DEF StatsAfterDeletion, Counted, BuildingRemoved, UnitRemoved, BooksOK
    <3> QED
      BY <2>1, <2>3, <3>2, <3>3 DEF Matching, MatchingNext
  <2>6. CASE o.owner # p
    <3>1. id \notin L
      BY <2>6 DEF LiveOf
    <3>2. L \ {id} = L
      BY <3>1
    <3>3. stats'[p] = stats[p]
      BY <2>4, <2>6 DEF StatsAfterDeletion, BooksOK
    <3> QED
      BY <2>1, <2>3, <3>2, <3>3 DEF Matching, MatchingNext
  <2> QED
    BY <2>5, <2>6
<1> QED
  BY <1>2, <1>3

\* What the steps below start from, for player p.
Before(p) == MatchInv /\ BooksOK /\ ~TouchesDoomed /\ p \in Players /\ Matching(p)

\* The facts that the steps below use.
LEMMA BeforeFacts ==
    ASSUME NEW p, Before(p)
    PROVE  /\ MatchInv /\ BooksOK /\ MapInv /\ MapOK /\ p \in Players
           /\ Matching(p) /\ stats[p] \in Stats /\ stats \in [Players -> Stats]
           /\ stats[p] = Tally(objects, LiveOf(p))
           /\ IsFiniteSet(LiveOf(p)) /\ LiveOf(p) \in SUBSET DOMAIN objects
BY LiveFinite DEF Before, MatchInv, MapInv, BooksOK, Matching

\* Nothing of player p has changed.
LEMMA SameFollows ==
    ASSUME NEW p, Before(p), LiveOf(p)' = LiveOf(p),
           \A i \in LiveOf(p) : objects'[i] = objects[i], stats'[p] = stats[p]
    PROVE  MatchingNext(p)
<1> DEFINE f == objects
           g == objects'
           L == LiveOf(p)
<1>1. \A i \in L : g[i] = f[i]
  OBVIOUS
<1>2. IsFiniteSet(L) /\ stats[p] = Tally(f, L)
  BY BeforeFacts
<1> HIDE DEF f, g, L
<1>3. Tally(g, L) = Tally(f, L)
  BY <1>1, <1>2, OtherChanged
<1>4. stats'[p] = Tally(g, L)
  BY <1>2, <1>3
<1> QED
  BY <1>4 DEF MatchingNext, g, L

\* One object has changed in what does not count.
LEMMA OneAlike ==
    ASSUME NEW u \in DOMAIN objects, NEW v, objects' = [objects EXCEPT ![u] = v],
           v.owner = objects[u].owner, Alike(objects[u], v)
    PROVE  AllAlike
BY DEF AllAlike, Alike

\* MoveToMapCoord.
LEMMA MoveFollows ==
    ASSUME NEW p, Before(p), NEW q, NEW u \in DOMAIN objects, HandleMoveToMapCoord(q, u)
    PROVE  MatchingNext(p)
<1> DEFINE v == [objects[u] EXCEPT !.moving = TRUE, !.target = NoObject, !.manual = NoObject]
<1>1. objects' = [objects EXCEPT ![u] = v]
  BY DEF HandleMoveToMapCoord
<1>2. objects[u] \in Units
  BY BeforeFacts, Kinds DEF HandleMoveToMapCoord, OwnUnit, MapOK
<1>3. v.owner = objects[u].owner /\ v.type = objects[u].type /\ ~IsBuilding(objects[u])
  BY <1>2, Kinds DEF Units
<1> HIDE DEF v
<1>4. AllAlike
  BY <1>1, <1>3, OneAlike DEF Alike
<1>5. objectDeleteList' = objectDeleteList /\ stats' = stats
  BY DEF HandleMoveToMapCoord
<1> QED
  BY <1>4, <1>5, BeforeFacts, IdleFollows

\* SetTarget.
LEMMA SetTargetFollows ==
    ASSUME NEW p, Before(p), NEW q, NEW u \in DOMAIN objects, NEW t \in DOMAIN objects,
           HandleSetTarget(q, u, t)
    PROVE  MatchingNext(p)
<1> DEFINE v == SetTarget(objects[u], t, TRUE)
<1>1. /\ objects' = [objects EXCEPT ![u] = v] /\ stats' = StatsAfterTransform(objects[u], v)
      /\ objectDeleteList' = objectDeleteList /\ IsUnit(objects[u])
  BY DEF HandleSetTarget, OwnUnit
<1>2. Fits(u, v)
  BY <1>1, BeforeFacts, UnitFits, SetTargetFits
<1> HIDE DEF v
<1> QED
  BY <1>1, <1>2, UnitFollows DEF Before

\* ProduceUnit: what only waits in the queue does not count.
LEMMA ProduceUnitFollows ==
    ASSUME NEW p, Before(p), NEW q, NEW b \in DOMAIN objects, NEW t, HandleProduceUnit(q, b, t)
    PROVE  MatchingNext(p)
<1> DEFINE b2 == [objects[b] EXCEPT !.queue = Append(@, t)]
<1>1. objects' = [objects EXCEPT ![b] = b2]
  BY DEF HandleProduceUnit
<1>2. objects[b] \in Buildings
  BY BeforeFacts, Kinds DEF HandleProduceUnit, OwnBuilding, MapOK
<1>3. /\ b2.owner = objects[b].owner /\ b2.type = objects[b].type
      /\ b2.built = objects[b].built /\ b2.production = objects[b].production
  BY <1>2 DEF Buildings
<1> HIDE DEF b2
<1>4. AllAlike
  BY <1>1, <1>3, OneAlike DEF Alike, IsCompleted
<1>5. objectDeleteList' = objectDeleteList /\ stats' = stats
  BY DEF HandleProduceUnit
<1> QED
  BY <1>4, <1>5, BeforeFacts, IdleFollows

\* DequeueProductionQueueItem: the first item may be in production.
LEMMA DequeueFollows ==
    ASSUME NEW p, Before(p), NEW q \in Players, NEW b \in DOMAIN objects, NEW k,
           HandleDequeueProductionQueueItem(q, b, k)
    PROVE  MatchingNext(p)
<1> DEFINE o     == objects[b]
           index == Len(o.queue) - k
           b2    == Dequeued(o, index)
           n     == Change(o, b2)
<1>1. /\ objects' = [objects EXCEPT ![b] = b2] /\ objectDeleteList' = objectDeleteList
      /\ IsBuilding(o) /\ o.owner = q
      /\ stats' = IF index = 1 /\ o.production > 0
                    THEN [stats EXCEPT ![q] = InProductionChange(@, -1)] ELSE stats
  BY DEF HandleDequeueProductionQueueItem, OwnBuilding
<1>2. o \in Buildings /\ ~IsUnit(o)
  BY <1>1, BeforeFacts, Kinds DEF MapOK
<1>3. /\ b2.owner = q /\ b2.type = o.type /\ b2.built = o.built
      /\ b2.production = IF index = 1 THEN 0 ELSE o.production
  BY <1>1, <1>2 DEF Dequeued, Buildings
<1> HIDE DEF b2, index
<1>4. n = IF index = 1 /\ o.production > 0 THEN -1 ELSE 0
  BY <1>2, <1>3 DEF Change, Buildings
<1> HIDE DEF n
<1>5. stats' = [stats EXCEPT ![q] = InProductionChange(@, n)]
  <2>1. CASE index = 1 /\ o.production > 0
    BY <1>1, <1>4, <2>1
  <2>2. CASE ~(index = 1 /\ o.production > 0)
    <3>1. stats' = stats /\ n = 0
      BY <1>1, <1>4, <2>2
    <3>2. stats[q] \in Stats /\ stats \in [Players -> Stats]
      BY BeforeFacts
    <3>3. InProductionChange(stats[q], n) = stats[q]
      BY <3>1, <3>2, NoChange
    <3> QED
      BY <3>1, <3>2, <3>3
  <2> QED
    BY <2>1, <2>2
<1> QED
  BY <1>1, <1>2, <1>3, <1>5, BuildingFollows DEF Before, n

\* A production that starts or continues.
LEMMA ProductionFollows ==
    ASSUME NEW p, Before(p), NEW b, StartProduction(b) \/ ContinueProduction(b)
    PROVE  MatchingNext(p)
<1> DEFINE o == objects[b]
<1>1. b \in DOMAIN objects /\ IsBuilding(o) /\ o.queue # <<>>
  BY BeforeFacts DEF StartProduction, ContinueProduction, VisitBuilding, Visit, MapOK
<1>2. o \in Buildings /\ ~IsUnit(o) /\ o.owner \in Players
  BY <1>1, BeforeFacts, Producer, Kinds DEF MapOK
<1>3. CASE StartProduction(b)
  <2> DEFINE b2 == [o EXCEPT !.production = 1]
  <2>1. /\ objects' = [objects EXCEPT ![b] = b2] /\ objectDeleteList' = objectDeleteList
        /\ stats' = [stats EXCEPT ![o.owner] = InProductionChange(@, 1)] /\ o.production = 0
    BY <1>3 DEF StartProduction
  <2>2. /\ b2.owner = o.owner /\ b2.type = o.type /\ b2.built = o.built
        /\ b2.production = 1
    BY <1>2 DEF Buildings
  <2> HIDE DEF b2
  <2>3. Change(o, b2) = 1
    BY <2>1, <2>2 DEF Change
  <2> QED
    BY <1>1, <1>2, <2>1, <2>2, <2>3, BuildingFollows DEF Before
<1>4. CASE ContinueProduction(b)
  <2> DEFINE b2 == [o EXCEPT !.production = @ + 1]
  <2>1. /\ objects' = [objects EXCEPT ![b] = b2] /\ objectDeleteList' = objectDeleteList
        /\ stats' = stats /\ o.production > 0
    BY <1>4, Sizes DEF ContinueProduction
  <2>2. /\ b2.owner = o.owner /\ b2.type = o.type /\ b2.built = o.built
        /\ b2.production > 0
    BY <1>2, <2>1, Sizes DEF Buildings
  <2> HIDE DEF b2
  <2>3. AllAlike
    BY <1>1, <2>1, <2>2, OneAlike DEF Alike, IsCompleted
  <2> QED
    BY <2>1, <2>3, BeforeFacts, IdleFollows
<1> QED
  BY <1>3, <1>4

\* A visit to a unit but an attack and a construction.
LEMMA UnitActionFollows ==
    ASSUME NEW p, Before(p), NEW u,
           Walk(u) \/ BeginAttack(u) \/ ConstructionBlocked(u) \/ Gather(u) \/ DropOff(u)
    PROVE  MatchingNext(p)
<1>1. PICK v : UnitBecomes(u, v) /\ Fits(u, v)
  BY BeforeFacts, UnitBecomesStep
<1>2. u \in DOMAIN objects /\ IsUnit(objects[u])
  BY <1>1, BeforeFacts, Visited
<1>3. /\ objects' = [objects EXCEPT ![u] = v] /\ stats' = StatsAfterTransform(objects[u], v)
  BY <1>1 DEF UnitBecomes
<1>4. objectDeleteList' = objectDeleteList
  BY DEF Walk, BeginAttack, ConstructionBlocked, Gather, DropOff
<1> QED
  BY <1>1, <1>2, <1>3, <1>4, UnitFollows DEF Before

\* An attack, whose victim may die.
LEMMA ContinueAttackFollows ==
    ASSUME NEW p, Before(p), NEW u, ContinueAttack(u)
    PROVE  MatchingNext(p)
<1> DEFINE t     == objects[u].target
           hits  == objects[u].clock + 1 = DamageTime /\ t \in DOMAIN objects
           swung(i) == IF i = u THEN [objects[u] EXCEPT !.clock = @ + 1] ELSE objects[i]
           hit(i)   == [swung(i) EXCEPT !.hp = IF @ > 1 THEN @ - 1 ELSE @]
<1>1. /\ MatchInv /\ BooksOK /\ MapInv /\ MapOK /\ u \in DOMAIN objects /\ IsUnit(objects[u])
      /\ p \in Players /\ Matching(p)
  BY BeforeFacts DEF MapOK, ContinueAttack, VisitUnit, Visit
<1>2. /\ DOMAIN objects' = DOMAIN objects
      /\ \A i \in DOMAIN objects : objects'[i] = IF hits /\ i = t THEN hit(i) ELSE swung(i)
  BY <1>1 DEF ContinueAttack
<1>3. ASSUME NEW i \in DOMAIN objects
      PROVE  /\ swung(i).owner = objects[i].owner /\ hit(i).owner = objects[i].owner
             /\ Alike(objects[i], swung(i)) /\ Alike(objects[i], hit(i))
  <2>1. objects[i] \in Units \cup Buildings
    BY <1>1 DEF MapOK
  <2>2. CASE objects[i] \in Units
    <3>1. /\ swung(i).owner = objects[i].owner /\ swung(i).type = objects[i].type
          /\ hit(i).owner = objects[i].owner /\ hit(i).type = objects[i].type
      BY <2>2 DEF Units
    <3>2. ~IsBuilding(objects[i])
      BY <2>2, Kinds
    <3> HIDE DEF swung, hit
    <3> QED
      BY <3>1, <3>2 DEF Alike
  <2>3. CASE objects[i] \in Buildings
    <3>1. swung(i) = objects[i]
      BY <1>1, <2>3, Kinds
    <3>2. /\ hit(i).owner = objects[i].owner /\ hit(i).type = objects[i].type
          /\ hit(i).built = objects[i].built /\ hit(i).production = objects[i].production
      BY <2>3, <3>1 DEF Buildings
    <3> HIDE DEF swung, hit
    <3> QED
      BY <3>1, <3>2 DEF Alike, IsCompleted
  <2> QED
    BY <2>1, <2>2, <2>3
<1> HIDE DEF swung, hit
<1>4. AllAlike
  BY <1>2, <1>3 DEF AllAlike
<1>5. CASE hits /\ objects[t].hp = 1
  <2>1. DeleteObject(t, FALSE)
    BY <1>5 DEF ContinueAttack
  <2>2. objects[t].owner \in Players
    BY <1>1, <1>5 DEF MapInv, AttacksPlayers, ContinueAttack, Swings
  <2> QED
    BY <1>1, <1>4, <1>5, <2>1, <2>2, DeletionFollows
<1>6. CASE ~(hits /\ objects[t].hp = 1)
  <2>1. objectDeleteList' = objectDeleteList /\ stats' = stats
    BY <1>6 DEF ContinueAttack
  <2> QED
    BY <1>1, <1>4, <2>1, IdleFollows
<1> QED
  BY <1>5, <1>6

\* A construction: two objects change, and the building may be completed.
LEMMA ConstructFollows ==
    ASSUME NEW p, Before(p), NEW u, Construct(u)
    PROVE  MatchingNext(p)
<1> DEFINE unit   == Ready(u)
           v      == Acts(unit)
           id     == unit.target
           b      == objects[id]
           built2 == IF b.built < BuildSteps THEN b.built + 1 ELSE BuildSteps
           hp2    == IF b.hp < BuildSteps THEN b.hp + 1 ELSE BuildSteps
           b2     == [b EXCEPT !.built = built2, !.hp = hp2]
           L      == LiveOf(p)
           f      == [objects EXCEPT ![u] = v]
           g      == objects'
           transformed == StatsAfterTransform(objects[u], unit)
<1>1. /\ MatchInv /\ BooksOK /\ MapInv /\ MapOK /\ u \in DOMAIN objects /\ IsUnit(objects[u])
      /\ Fits(u, unit) /\ Fits(u, v) /\ v.type = unit.type /\ p \in Players /\ Matching(p)
      /\ IsFiniteSet(L) /\ L \in SUBSET DOMAIN objects
  <2>1. /\ MatchInv /\ BooksOK /\ MapInv /\ MapOK /\ u \in DOMAIN objects /\ IsUnit(objects[u])
        /\ p \in Players /\ Matching(p) /\ IsFiniteSet(L) /\ L \in SUBSET DOMAIN objects
    BY BeforeFacts DEF MapOK, Construct, VisitUnit, Visit
  <2>2. Fits(u, unit)
    BY <2>1, ReadyFits
  <2>3. v.type = unit.type
    BY <2>2 DEF Fits, Units, Acts
  <2> QED
    BY <2>1, <2>2, <2>3, WalkingFits
<1>2. id \in DOMAIN objects /\ Interaction(unit, b) = "Construct"
  BY <1>1, ReadyTarget DEF Construct, Reaches
<1>3. IsBuilding(b) /\ b.owner = unit.owner /\ ~IsCompleted(b)
  BY <1>2 DEF Interaction
<1>4. b \in Buildings /\ ~IsUnit(b) /\ id # u /\ b.owner \in Players /\ unit.owner = objects[u].owner
      /\ b.type \in BuildingTypes
  BY <1>1, <1>2, <1>3, Kinds DEF MapOK, Fits, Units, Buildings
<1>5. /\ b2.owner = b.owner /\ b2.type = b.type /\ b2.production = b.production
      /\ b2.built # b.built
  <2>1. b.built \in 0 .. BuildSteps /\ b.built # BuildSteps
    BY <1>3, <1>4 DEF Buildings, IsCompleted
  <2>2. built2 # b.built
    BY <2>1, Sizes
  <2> HIDE DEF built2, hp2, b
  <2> QED
    BY <1>4, <2>2 DEF Buildings
<1>6. /\ objects' = [objects EXCEPT ![u] = v, ![id] = b2]
      /\ objectDeleteList' = objectDeleteList
      /\ stats' = IF IsCompleted(b2)
                    THEN [transformed EXCEPT ![b.owner] = BuildingFinished(@, b.type)]
                    ELSE transformed
  BY DEF Construct
<1> HIDE DEF b2
<1>7. /\ DOMAIN objects' = DOMAIN objects
      /\ objects'[u] = v /\ objects'[id] = b2
      /\ \A i \in DOMAIN objects \ {u, id} : objects'[i] = objects[i]
  BY <1>1, <1>2, <1>4, <1>6
<1>8. id \notin objectDeleteList /\ (u \in objectDeleteList => v.type = objects[u].type)
  BY <1>1, <1>2, <1>5, <1>7 DEF Before, TouchesDoomed
<1>9. f[u] = v /\ (\A i \in DOMAIN objects \ {u} : f[i] = objects[i])
      /\ f[id] = b /\ g[id] = b2 /\ (\A i \in L \ {id} : g[i] = f[i])
  BY <1>1, <1>2, <1>4, <1>7
<1>10. LiveOf(p)' = L
  BY <1>1, <1>2, <1>4, <1>5, <1>6, <1>7, LiveKept DEF Fits
<1>11. transformed \in [Players -> Stats]
  BY <1>1, <1>4, Kinds, TransformedStats DEF MapOK, Fits
<1>12. transformed = StatsAfterTransform(objects[u], v)
  BY <1>1 DEF StatsAfterTransform
<1> HIDE DEF f, g, L, transformed, v, unit, b
<1>13. Tally(f, L) = transformed[p]
  BY <1>1, <1>8, <1>9, <1>12, UnitTally DEF L
<1>14. CASE b.owner # p
  <2>1. id \notin L
    BY <1>14 DEF L, LiveOf, b
  <2>2. \A i \in L : g[i] = f[i]
    BY <1>9, <2>1
  <2>3. Tally(g, L) = Tally(f, L)
    BY <1>1, <2>2, OtherChanged
  <2>4. stats'[p] = transformed[p]
    BY <1>1, <1>6, <1>11, <1>14
  <2> QED
    BY <1>10, <1>13, <2>3, <2>4 DEF MatchingNext, g
<1>15. CASE b.owner = p
  <2>1. id \in L
    BY <1>2, <1>8, <1>15 DEF L, LiveOf, Live, b
  <2>2. f[id].type \in UnitTypes \cup BuildingTypes /\ g[id].type \in UnitTypes \cup BuildingTypes
    BY <1>4, <1>5, <1>9
  <2>3. Tally(g, L) = Counted(Counted(transformed[p], b, -1), b2, 1)
    <3>1. Tally(g, L) = Counted(Counted(Tally(f, L), f[id], -1), g[id], 1)
      BY <1>1, <1>9, <2>1, <2>2, OneChanged
    <3> QED
      BY <1>9, <1>13, <3>1
  <2>4. transformed[p] \in Stats /\ ~IsUnit(b2)
    BY <1>1, <1>4, <1>5, <1>11 DEF IsUnit
  <2>5. Change(b, b2) = 0
    BY <1>5 DEF Change
  <2>6. CASE IsCompleted(b2)
    <3>1. Tally(g, L) = BuildingFinished(transformed[p], b.type)
      BY <1>3, <1>4, <1>5, <2>3, <2>4, <2>5, <2>6, BuildingCounted
    <3>2. stats'[p] = BuildingFinished(transformed[p], b.type)
      BY <1>1, <1>6, <1>11, <1>15, <2>6
    <3> QED
      BY <1>10, <3>1, <3>2 DEF MatchingNext, g
  <2>7. CASE ~IsCompleted(b2)
    <3>1. Tally(g, L) = InProductionChange(transformed[p], 0)
      BY <1>3, <1>4, <1>5, <2>3, <2>4, <2>5, <2>7, BuildingCounted
    <3>2. Tally(g, L) = transformed[p]
      BY <2>4, <3>1, NoChange
    <3>3. stats'[p] = transformed[p]
      BY <1>6, <2>7
    <3> QED
      BY <1>10, <3>2, <3>3 DEF MatchingNext, g
  <2> QED
    BY <2>6, <2>7
<1> QED
  BY <1>14, <1>15

\* A production that is completed: the unit counts now.
LEMMA CompleteProductionFollows ==
    ASSUME NEW p, Before(p), NEW b, CompleteProduction(b)
    PROVE  MatchingNext(p)
<1> DEFINE o    == objects[b]
           q    == o.owner
           t    == Head(o.queue)
           id   == nextObjectID
           unit == NewUnit(q, t)
           b2   == [o EXCEPT !.queue = Tail(@), !.production = 0]
           f    == objects
           g    == objects'
           L    == LiveOf(p)
<1>1. /\ MatchInv /\ MapOK /\ b \in DOMAIN objects /\ IsBuilding(o) /\ o.queue # <<>>
      /\ p \in Players /\ stats \in [Players -> Stats] /\ stats[p] \in Stats
      /\ IsFiniteSet(L) /\ L \in SUBSET DOMAIN objects /\ stats[p] = Tally(f, L)
  BY BeforeFacts DEF CompleteProduction, MapOK
<1>2. o \in Buildings /\ ~IsUnit(o) /\ q \in Players /\ o.type \in BuildingTypes
  BY <1>1, Producer, Kinds DEF MapOK, IsBuilding
<1>3. t \in UnitTypes
  BY <1>1, <1>2 DEF Buildings
<1>4. id \notin DOMAIN objects
  BY <1>1 DEF MapOK
<1>5. unit.owner = q /\ unit.type = t
  BY DEF NewUnit
<1>6. /\ b2.owner = q /\ b2.type = o.type /\ b2.built = o.built /\ b2.production = 0
  BY <1>2 DEF Buildings
<1>7. /\ objects' = [i \in DOMAIN objects \cup {id} |->
                       IF i = id THEN unit ELSE IF i = b THEN b2 ELSE objects[i]]
      /\ objectDeleteList' = objectDeleteList /\ o.production > 0
      /\ stats' = [stats EXCEPT ![q] = UnitAdded(InProductionChange(@, -1), t)]
  BY Sizes DEF CompleteProduction
<1> HIDE DEF unit, b2
<1>8. /\ DOMAIN g = DOMAIN objects \cup {id} /\ g[id] = unit /\ g[b] = b2
      /\ \A i \in DOMAIN objects \ {b} : g[i] = f[i]
  BY <1>1, <1>4, <1>7
<1>9. b \notin objectDeleteList
  BY <1>1, <1>6, <1>7, <1>8 DEF Before, TouchesDoomed
<1>10. LiveOf(p)' = IF p = q THEN L \cup {id} ELSE L
  <2>1. id \notin objectDeleteList
    BY <1>1, <1>4 DEF MapOK
  <2>2. g[id].owner = q /\ \A i \in DOMAIN objects : g[i].owner = objects[i].owner
    BY <1>5, <1>6, <1>8
  <2> QED
    BY <1>4, <1>7, <1>8, <2>1, <2>2 DEF LiveOf, Live
<1>11. CASE q # p
  <2>1. \A i \in L : i # b
    BY <1>11 DEF LiveOf
  <2>2. \A i \in L : objects'[i] = objects[i]
    BY <1>1, <1>8, <2>1
  <2>3. stats'[p] = stats[p]
    BY <1>1, <1>7, <1>11
  <2> QED
    BY <1>10, <1>11, <2>2, <2>3, SameFollows
<1>12. CASE q = p
  <2> DEFINE s == stats[p]
             s2 == InProductionChange(s, -1)
  <2>1. b \in L /\ id \notin L
    BY <1>1, <1>4, <1>9, <1>12 DEF LiveOf, Live
  <2>2. f[b] = o /\ \A i \in L \ {b} : g[i] = f[i]
    BY <1>1, <1>8
  <2>3. /\ f[b].type \in UnitTypes \cup BuildingTypes /\ g[b].type \in UnitTypes \cup BuildingTypes
        /\ g[id].type \in UnitTypes \cup BuildingTypes
    BY <1>2, <1>3, <1>5, <1>6, <1>8
  <2>4. LiveOf(p)' = L \cup {id}
    BY <1>10, <1>12
  <2>5. stats'[p] = UnitAdded(s2, t)
    BY <1>1, <1>7, <1>12
  <2> HIDE DEF f, g, L, o
  <2>6. Tally(g, L) = Counted(Counted(s, o, -1), b2, 1)
    <3>1. Tally(g, L) = Counted(Counted(Tally(f, L), f[b], -1), g[b], 1)
      BY <1>1, <2>1, <2>2, <2>3, OneChanged
    <3> QED
      BY <1>1, <1>8, <2>2, <3>1
  <2>7. Tally(g, L) = s2
    <3>1. ~IsUnit(b2) /\ (IsCompleted(o) <=> IsCompleted(b2))
      BY <1>2, <1>6 DEF IsUnit, IsCompleted
    <3>2. Change(o, b2) = -1
      BY <1>6, <1>7 DEF Change
    <3> DEFINE n == Change(o, b2)
    <3> HIDE DEF n
    <3>3. Counted(Counted(s, o, -1), b2, 1) = InProductionChange(s, n)
      BY <1>1, <1>2, <1>6, <3>1, BuildingCounted DEF n
    <3> QED
      BY <2>6, <3>2, <3>3 DEF n
  <2>8. Tally(g, L \cup {id}) = Counted(Tally(g, L), g[id], 1)
    BY <1>1, <2>1, <2>3, TallyWith
  <2>9. Counted(s2, g[id], 1) = UnitAdded(s2, t)
    BY <1>3, <1>5, <1>8 DEF Counted, UnitAdded, IsUnit
  <2>10. stats'[p] = Tally(g, LiveOf(p)')
    BY <2>4, <2>5, <2>7, <2>8, <2>9
  <2> QED
    BY <2>10 DEF MatchingNext, g
<1> QED
  BY <1>11, <1>12

\* The end of a step erases what was taken off before.
LEMMA EndStepFollows ==
    ASSUME NEW p, Before(p), EndStep
    PROVE  MatchingNext(p)
<1>1. objects' = [id \in Live |-> objects[id]] /\ objectDeleteList' = {} /\ stats' = stats
  BY DEF EndStep
<1>2. Live' = Live
  BY <1>1 DEF Live
<1>3. LiveOf(p)' = LiveOf(p)
  BY <1>1, <1>2 DEF LiveOf
<1>4. \A i \in LiveOf(p) : objects'[i] = objects[i]
  BY <1>1 DEF LiveOf
<1> QED
  BY <1>1, <1>3, <1>4, SameFollows

(***************************************************************************)
(* Villagers that are sent to a foundation, in any number.                 *)
(***************************************************************************)
\* Counting when some elements leave a set, and when others join it.
LEMMA CountLeaving ==
    ASSUME NEW S, IsFiniteSet(S), NEW T \in SUBSET S, NEW R, R = S \ T
    PROVE  Cardinality(R) = Cardinality(S) - Cardinality(T)
<1>1. S \cap T = T
  OBVIOUS
<1> QED
  BY <1>1, FS_Difference

\* The size of a set that others join.
LEMMA CountJoining ==
    ASSUME NEW S, IsFiniteSet(S), NEW T, IsFiniteSet(T), S \cap T = {}, NEW R, R = S \cup T
    PROVE  Cardinality(R) = Cardinality(S) + Cardinality(T)
<1>1. Cardinality(S \cap T) = 0 /\ Cardinality(S) \in Nat /\ Cardinality(T) \in Nat
  BY FS_EmptySet, FS_CardinalityType
<1>2. Cardinality(S \cup T) = Cardinality(S) + Cardinality(T) - Cardinality(S \cap T)
  BY FS_Union
<1> QED
  BY <1>1, <1>2

\* The villagers that are sent to a foundation count as builders.
LEMMA BuildersTally ==
    ASSUME NEW L, IsFiniteSet(L), L \in SUBSET DOMAIN objects,
           NEW B, IsFiniteSet(B), NEW g,
           \A u \in B : IsVillager(objects[u]) /\ g[u].type = "Builder",
           \A u \in B \ L : objects[u].type = "Builder",
           \A u \in L \ B : g[u] = objects[u]
    PROVE  Tally(g, L) = TurnedToBuilders(Tally(objects, L), B)
<1> DEFINE f == objects
           a == Tally(f, L)
           b == Tally(g, L)
           c == TurnedToBuilders(a, B)
           Turned(t) == {u \in B : f[u].type = t}
<1>1. a \in Stats /\ b \in Stats
  BY TallyType
<1>2. \A S : S \in SUBSET L \/ S \in SUBSET B => IsFiniteSet(S) /\ Cardinality(S) \in Nat
  BY FS_Subset, FS_CardinalityType
<1>3. c = [a EXCEPT !.unitsAlive = [t \in UnitTypes |->
             IF t = "Builder" THEN @[t] + Cardinality(B) - Cardinality(Turned(t))
                              ELSE @[t] - Cardinality(Turned(t))]]
  BY DEF TurnedToBuilders
<1>4. /\ c.population = a.population /\ c.villagers = a.villagers /\ c.space = a.space
      /\ c.constructing = a.constructing /\ c.standing = a.standing
      /\ c.inProduction = a.inProduction
  BY <1>1, <1>3 DEF Stats
<1>5. \A t \in UnitTypes : c.unitsAlive[t] =
        IF t = "Builder" THEN a.unitsAlive[t] + Cardinality(B) - Cardinality(Turned(t))
                         ELSE a.unitsAlive[t] - Cardinality(Turned(t))
  BY <1>1, <1>3 DEF Stats
<1>6. c \in Stats
  <2>1. \A t \in UnitTypes : a.unitsAlive[t] \in Int
    BY <1>1 DEF Stats
  <2>2. [t \in UnitTypes |->
             IF t = "Builder" THEN a.unitsAlive[t] + Cardinality(B) - Cardinality(Turned(t))
                              ELSE a.unitsAlive[t] - Cardinality(Turned(t))] \in [UnitTypes -> Int]
    <3>1. Cardinality(B) \in Int /\ \A t : Cardinality(Turned(t)) \in Int
      BY <1>2
    <3> HIDE DEF a, Turned
    <3> QED
      BY <2>1, <3>1
  <2> QED
    BY <1>1, <1>3, <2>2 DEF Stats
<1>7. \A i \in L : \/ i \in B /\ g[i].type = "Builder" /\ IsVillager(f[i])
                   \/ i \notin B /\ g[i] = f[i]
  <2> SUFFICES ASSUME NEW i \in L
               PROVE  \/ i \in B /\ g[i].type = "Builder" /\ IsVillager(f[i])
                      \/ i \notin B /\ g[i] = f[i]
    OBVIOUS
  <2>1. CASE i \in B
    BY <2>1
  <2>2. CASE i \notin B
    <3>1. i \in L \ B
      BY <2>2
    <3> QED
      BY <2>2, <3>1
  <2> QED
    BY <2>1, <2>2
<1>8. \A i \in L : /\ f[i].type \in UnitTypes <=> g[i].type \in UnitTypes
                   /\ f[i].type \in VillagerTypes <=> g[i].type \in VillagerTypes
                   /\ i \in B => ~IsBuilding(f[i]) /\ ~IsBuilding(g[i])
  BY <1>7 DEF IsVillager, IsBuilding, UnitTypes, VillagerTypes, BuildingTypes
<1>9. b.population = a.population /\ b.villagers = a.villagers
  <2>1. /\ {i \in L : f[i].type \in UnitTypes} = {i \in L : g[i].type \in UnitTypes}
        /\ {i \in L : f[i].type \in VillagerTypes} = {i \in L : g[i].type \in VillagerTypes}
    BY <1>8
  <2> QED
    BY <2>1 DEF Tally
<1>10. \A i \in L : /\ IsBuilding(f[i]) <=> IsBuilding(g[i])
                    /\ IsBuilding(f[i]) => g[i] = f[i]
  BY <1>7, <1>8
<1>11. b.space = a.space
  <2>1. Done(f, L) = Done(g, L)
    BY <1>10 DEF Done
  <2>2. \A i \in Done(f, L) : SpaceOf(f, L)[i] = SpaceOf(g, L)[i]
    BY <1>10, <2>1 DEF SpaceOf, Done
  <2>3. Total(SpaceOf(f, L), Done(f, L)) = Total(SpaceOf(g, L), Done(g, L))
    BY <2>1, <2>2, TallyType, SameTotal
  <2> QED
    BY <2>3 DEF Tally
<1>12. b.inProduction = a.inProduction
  <2>1. {i \in L : IsBuilding(f[i]) /\ f[i].production > 0}
          = {i \in L : IsBuilding(g[i]) /\ g[i].production > 0}
    BY <1>10
  <2> QED
    BY <2>1 DEF Tally
<1>13. \A t \in BuildingTypes : /\ b.constructing[t] = a.constructing[t]
                               /\ b.standing[t] = a.standing[t]
  <2>1. \A t \in BuildingTypes :
          /\ {i \in L : f[i].type = t /\ ~IsCompleted(f[i])}
               = {i \in L : g[i].type = t /\ ~IsCompleted(g[i])}
          /\ {i \in L : f[i].type = t /\ IsCompleted(f[i])}
               = {i \in L : g[i].type = t /\ IsCompleted(g[i])}
    BY <1>10 DEF IsBuilding
  <2> QED
    BY <2>1 DEF Tally
<1>14. ASSUME NEW t \in UnitTypes PROVE b.unitsAlive[t] = c.unitsAlive[t]
  <2> DEFINE S == {i \in L : f[i].type = t}
             R == {i \in L : g[i].type = t}
  <2>1. a.unitsAlive[t] = Cardinality(S) /\ b.unitsAlive[t] = Cardinality(R)
    BY DEF Tally
  <2>2. CASE t # "Builder"
    <3>1. Turned(t) \in SUBSET S /\ R = S \ Turned(t)
      BY <1>7, <2>2
    <3>2. Cardinality(R) = Cardinality(S) - Cardinality(Turned(t))
      BY <1>2, <3>1, CountLeaving
    <3> QED
      BY <1>5, <2>1, <2>2, <3>2
  <2>3. CASE t = "Builder"
    <3> DEFINE W == B \ Turned(t)
    <3>1. S \cap W = {} /\ R = S \cup W
      BY <1>7, <2>3
    <3>2. Cardinality(R) = Cardinality(S) + Cardinality(W)
      BY <1>2, <3>1, CountJoining
    <3>3. Cardinality(W) = Cardinality(B) - Cardinality(Turned(t))
      BY CountLeaving
    <3>4. Cardinality(S) \in Int /\ Cardinality(B) \in Int /\ Cardinality(Turned(t)) \in Int
      BY <1>2
    <3> QED
      BY <1>5, <2>1, <2>3, <3>2, <3>3, <3>4
  <2> QED
    BY <2>2, <2>3
<1> HIDE DEF a, b, c, Turned
<1>15. b = c
  BY <1>1, <1>4, <1>6, <1>9, <1>11, <1>12, <1>13, <1>14, SameStats
<1> QED
  BY <1>15 DEF a, b, c

\* PlaceBuildingFoundation: a building in construction, and builders.
LEMMA PlaceFollows ==
    ASSUME NEW p, Before(p), NEW q \in Players, NEW t \in PlaceableTypes,
           NEW tiles \in Footprints[t], NEW builders,
           HandlePlaceBuildingFoundation(q, t, tiles, builders)
    PROVE  MatchingNext(p)
<1> DEFINE id == nextObjectID
           site == NewBuilding(q, t, tiles, 0)
           Sent(u) == [objects[u] EXCEPT !.type   = "Builder",
                                         !.moving = TRUE,
                                         !.target = IF objects[u].attacking THEN @ ELSE id,
                                         !.manual = id]
           f    == objects
           g    == objects'
           L    == LiveOf(p)
           B    == builders
<1>1. /\ MatchInv /\ MapOK
      /\ p \in Players /\ stats \in [Players -> Stats] /\ stats[p] \in Stats
      /\ IsFiniteSet(L) /\ L \in SUBSET DOMAIN objects /\ stats[p] = Tally(f, L)
  BY BeforeFacts
<1>2. /\ objects' = [i \in DOMAIN objects \cup {id} |->
                       IF i = id THEN site ELSE IF i \in B THEN Sent(i) ELSE objects[i]]
      /\ objectDeleteList' = objectDeleteList
      /\ stats' = [stats EXCEPT ![q] = TurnedToBuilders(BuildingAdded(@, t, FALSE), B)]
      /\ \A u \in B : OwnUnit(q, u) /\ IsVillager(objects[u])
  BY DEF HandlePlaceBuildingFoundation
<1>3. id \notin DOMAIN objects /\ B \in SUBSET DOMAIN objects
  <2>1. id \notin DOMAIN objects
    BY <1>1 DEF MapOK
  <2>2. \A u \in B : u \in DOMAIN objects
    BY <1>2 DEF OwnUnit
  <2> QED
    BY <2>1, <2>2
<1>4. site.owner = q /\ site.type = t /\ site.built = 0 /\ site.production = 0
      /\ t \in BuildingTypes
  BY DEF NewBuilding, PlaceableTypes
<1>5. \A u \in B : /\ objects[u].owner = q
                   /\ Sent(u).owner = q /\ Sent(u).type = "Builder"
  <2> SUFFICES ASSUME NEW u \in B
               PROVE  objects[u].owner = q /\ Sent(u).owner = q /\ Sent(u).type = "Builder"
    OBVIOUS
  <2>1. objects[u] \in Units /\ objects[u].owner = q
    BY <1>1, <1>2, <1>3, Kinds DEF OwnUnit, MapOK
  <2> QED
    BY <2>1 DEF Units
<1> HIDE DEF site, Sent
<1>6. /\ DOMAIN g = DOMAIN objects \cup {id} /\ g[id] = site
      /\ \A u \in B : g[u] = Sent(u)
      /\ \A i \in DOMAIN objects \ B : g[i] = f[i]
  BY <1>2, <1>3
<1>7. LiveOf(p)' = IF p = q THEN L \cup {id} ELSE L
  <2>1. id \notin objectDeleteList
    BY <1>1, <1>3 DEF MapOK
  <2>2. g[id].owner = q /\ \A i \in DOMAIN objects : g[i].owner = objects[i].owner
    BY <1>4, <1>5, <1>6
  <2> QED
    BY <1>2, <1>3, <1>6, <2>1, <2>2 DEF LiveOf, Live
<1>8. CASE q # p
  <2>1. \A i \in L : i \notin B
    BY <1>5, <1>8 DEF LiveOf
  <2>2. \A i \in L : objects'[i] = objects[i]
    BY <1>1, <1>6, <2>1
  <2>3. stats'[p] = stats[p]
    BY <1>1, <1>2, <1>8
  <2> QED
    BY <1>7, <1>8, <2>2, <2>3, SameFollows
<1>9. CASE q = p
  <2> DEFINE s  == stats[p]
             s1 == BuildingAdded(s, t, FALSE)
             s2 == TurnedToBuilders(s, B)
  <2>1. \A u \in B \ L : objects[u].type = "Builder"
    <3> SUFFICES ASSUME NEW u \in B \ L PROVE objects[u].type = "Builder"
      OBVIOUS
    <3>1. u \in objectDeleteList
      BY <1>3, <1>5, <1>9 DEF LiveOf, Live
    <3>2. objects'[u] = objects[u]
      BY <1>3, <1>6, <3>1 DEF Before, TouchesDoomed
    <3> QED
      BY <1>5, <1>6, <3>2
  <2>2. id \notin L /\ IsFiniteSet(B)
    BY <1>1, <1>3, FiniteObjects, FS_Subset
  <2>3. LiveOf(p)' = L \cup {id}
    BY <1>7, <1>9
  <2>4. stats'[p] = TurnedToBuilders(s1, B)
    BY <1>1, <1>2, <1>9
  <2>5. /\ \A u \in B : IsVillager(objects[u]) /\ g[u].type = "Builder"
        /\ \A u \in L \ B : g[u] = objects[u]
    BY <1>1, <1>2, <1>5, <1>6
  <2>6. g[id].type \in UnitTypes \cup BuildingTypes
    BY <1>4, <1>6
  <2> HIDE DEF g, L, B, f
  <2>7. Tally(g, L) = TurnedToBuilders(Tally(objects, L), B)
    BY <1>1, <2>1, <2>2, <2>5, BuildersTally
  <2>8. Tally(g, L) = s2
    BY <1>1, <2>7 DEF f
  <2>9. Tally(g, L \cup {id}) = Counted(s2, g[id], 1)
    BY <1>1, <2>2, <2>6, <2>8, TallyWith
  <2>10. Counted(s2, g[id], 1) = UnfinishedBuildingChange(s2, t, 1)
    BY <1>4, <1>6, Sizes, TypesDisjoint DEF Counted, IsUnit, IsCompleted
  <2>11. UnfinishedBuildingChange(s2, t, 1) = TurnedToBuilders(s1, B)
    BY <1>1, <1>4 DEF TurnedToBuilders, BuildingAdded, UnfinishedBuildingChange, Stats
  <2>12. stats'[p] = Tally(g, LiveOf(p)')
    BY <2>3, <2>4, <2>9, <2>10, <2>11
  <2> QED
    BY <2>12 DEF MatchingNext, g
<1> QED
  BY <1>8, <1>9

\* A step that leaves objects and counters alone.
LEMMA UnchangedFollows ==
    ASSUME NEW p, Before(p), UNCHANGED <<objects, objectDeleteList, stats>>
    PROVE  MatchingNext(p)
<1>1. LiveOf(p)' = LiveOf(p)
  BY DEF LiveOf, Live
<1> QED
  BY <1>1, SameFollows

\* Every command.
LEMMA CommandFollows ==
    ASSUME NEW p, Before(p), NEW q \in Players, Command(q)
    PROVE  MatchingNext(p)
<1>1. CASE \E u \in DOMAIN objects : HandleMoveToMapCoord(q, u)
  BY <1>1, MoveFollows
<1>2. CASE \E u, t \in DOMAIN objects : HandleSetTarget(q, u, t)
  BY <1>2, SetTargetFollows
<1>3. CASE \E b \in DOMAIN objects, t \in {"Villager", "Militia"} : HandleProduceUnit(q, b, t)
  BY <1>3, ProduceUnitFollows
<1>4. CASE \E b \in DOMAIN objects, k \in 0 .. MaxQueue - 1 :
             HandleDequeueProductionQueueItem(q, b, k)
  BY <1>4, DequeueFollows
<1>5. CASE \E t \in PlaceableTypes : \E tiles \in Footprints[t] :
             \E builders \in SUBSET {u \in DOMAIN objects : OwnUnit(q, u)} :
               HandlePlaceBuildingFoundation(q, t, tiles, builders)
  <2>1. PICK t \in PlaceableTypes : \E tiles \in Footprints[t] :
               \E builders \in SUBSET {u \in DOMAIN objects : OwnUnit(q, u)} :
                 HandlePlaceBuildingFoundation(q, t, tiles, builders)
    BY <1>5
  <2>2. PICK tiles \in Footprints[t] :
               \E builders \in SUBSET {u \in DOMAIN objects : OwnUnit(q, u)} :
                 HandlePlaceBuildingFoundation(q, t, tiles, builders)
    BY <2>1
  <2>3. PICK builders : HandlePlaceBuildingFoundation(q, t, tiles, builders)
    BY <2>2
  <2> QED
    BY <2>3, PlaceFollows
<1>6. CASE \E id \in DOMAIN objects : HandleDeleteObject(q, id)
  <2>1. PICK id \in DOMAIN objects : HandleDeleteObject(q, id)
    BY <1>6
  <2>2. objects[id].owner \in Players /\ DeleteObject(id, TRUE) /\ objects' = objects
    BY <2>1 DEF HandleDeleteObject
  <2>3. AllAlike
    BY <2>2 DEF AllAlike, Alike
  <2> QED
    BY <2>2, <2>3, BeforeFacts, DeletionFollows
<1>7. CASE \E reason \in {"Resign", "Drop"} : PlayerGone(q, reason)
  BY <1>7, UnchangedFollows DEF PlayerGone
<1> QED
  BY <1>1, <1>2, <1>3, <1>4, <1>5, <1>6, <1>7 DEF Command, Resign, Drop

\* Every step of the specification.
LEMMA StepFollows ==
    ASSUME NEW p, Before(p), [Next]_vars
    PROVE  MatchingNext(p)
<1>1. CASE \E q \in Players : Command(q)
  BY <1>1, CommandFollows
<1>2. CASE EndPoll \/ EndIteration \/ BeginStep
  BY <1>2, UnchangedFollows DEF EndPoll, EndIteration, BeginStep
<1>3. CASE EndStep
  BY <1>3, EndStepFollows
<1>4. CASE \E id \in todo : VisitObject(id)
  <2>1. PICK id : VisitedUnit(id) \/ VisitedBuilding(id)
    BY <1>4 DEF VisitObject
  <2>2. CASE VisitedUnit(id)
    BY <2>2, UnitActionFollows, ContinueAttackFollows, ConstructFollows DEF VisitedUnit
  <2>3. CASE WaitForSpace(id)
    BY <2>3, UnchangedFollows DEF WaitForSpace
  <2>4. CASE VisitedBuilding(id)
    BY <2>3, <2>4, ProductionFollows, CompleteProductionFollows DEF VisitedBuilding
  <2> QED
    BY <2>1, <2>2, <2>4
<1>5. CASE UNCHANGED vars
  BY <1>5, UnchangedFollows DEF vars
<1> QED
  BY <1>1, <1>2, <1>3, <1>4, <1>5 DEF Next, SimulateStep

\* What StatsFollowObjects says of a step.
LEMMA StatsStep ==
    ASSUME MatchInv, BooksOK, [Next]_vars
    PROVE  [\A p \in Players : (stats[p] = Recount(p) /\ ~TouchesDoomed)
                                 => (stats[p] = Recount(p))']_vars
<1> SUFFICES ASSUME NEW p \in Players, stats[p] = Recount(p), ~TouchesDoomed
             PROVE  (stats[p] = Recount(p))'
  OBVIOUS
<1>1. MapOK /\ MapOK'
  BY MatchStep DEF MatchInv, MapInv
<1>2. Matching(p)
  BY <1>1, RecountIsTally DEF Matching
<1>3. MatchingNext(p)
  BY <1>2, StepFollows DEF Before
<1>4. Recount(p)' = Tally(objects', LiveOf(p)')
  BY <1>1, NextRecountIsTally
<1> QED
  BY <1>3, <1>4 DEF MatchingNext

\* Whatever the players order and whatever a game step does, the counters that
\* PlayerStats updates by increments remain what a recount of the map would find,
\* except when a step changes an object that is already deleted (player.cpp).
THEOREM CountersFollowObjects == Spec => StatsFollowObjects
<1>1. MatchInv /\ BooksOK /\ [Next]_vars => BooksOK'
  BY BooksStep
<1>2. MatchInv /\ BooksOK /\ [Next]_vars
        => [\A p \in Players : (stats[p] = Recount(p) /\ ~TouchesDoomed)
                                 => (stats[p] = Recount(p))']_vars
  BY StatsStep
<1> QED
  BY <1>1, <1>2, BooksInit, MatchInvariant, PTL DEF Spec, StatsFollowObjects

(***************************************************************************)
(* Population space.                                                       *)
(***************************************************************************)
\* What the counters of a player say it has to house.
Load(s) == s.population + s.inProduction

\* What each update of the counters does to the load.
LEMMA LoadChanged ==
    ASSUME NEW s \in Stats, NEW d \in Int
    PROVE  /\ Load(s) \in Int /\ s.space \in Int
           /\ \A t : /\ Load(UnitChange(s, t, d)) = Load(s) + d
                     /\ Load(UnfinishedBuildingChange(s, t, d)) = Load(s)
                     /\ Load(FinishedBuildingChange(s, t, d)) = Load(s)
           /\ Load(InProductionChange(s, d)) = Load(s) + d
           /\ \A B : Load(TurnedToBuilders(s, B)) = Load(s)
<1>1. s.population \in Int /\ s.inProduction \in Int /\ s.space \in Int
  BY DEF Stats
<1>2. ASSUME NEW t PROVE Load(UnitChange(s, t, d)) = Load(s) + d
  <2>1. /\ UnitChange(s, t, d).population = s.population + d
        /\ UnitChange(s, t, d).inProduction = s.inProduction
    BY DEF UnitChange, Stats
  <2> QED
    BY <1>1, <2>1 DEF Load
<1>3. ASSUME NEW t PROVE /\ Load(UnfinishedBuildingChange(s, t, d)) = Load(s)
                         /\ Load(FinishedBuildingChange(s, t, d)) = Load(s)
  BY DEF UnfinishedBuildingChange, FinishedBuildingChange, Stats, Load
<1>4. Load(InProductionChange(s, d)) = Load(s) + d
  BY <1>1 DEF InProductionChange, Stats, Load
<1>5. ASSUME NEW B PROVE Load(TurnedToBuilders(s, B)) = Load(s)
  BY DEF TurnedToBuilders, Stats, Load
<1> QED
  BY <1>1, <1>2, <1>3, <1>4, <1>5 DEF Load

\* A change of trade leaves the load.
LEMMA LoadTransformed ==
    ASSUME BooksOK, NEW u \in Units, NEW v \in Units, NEW p \in Players
    PROVE  Load(StatsAfterTransform(u, v)[p]) = Load(stats[p])
<1> DEFINE s  == stats[u.owner]
           s1 == UnitChange(s, u.type, -1)
           s2 == UnitChange(s1, v.type, 1)
<1>1. u.owner \in Players /\ u.type \in UnitTypes /\ v.type \in UnitTypes
  BY DEF Units
<1>2. s \in Stats /\ s1 \in Stats
  BY <1>1, UnitChanged DEF BooksOK
<1>3. Load(s) \in Int /\ Load(s1) = Load(s) - 1
  <2> DEFINE d == -1
  <2>1. d \in Int /\ s1 = UnitChange(s, u.type, d) /\ \A n \in Int : n + d = n - 1
    OBVIOUS
  <2> HIDE DEF d, s, s1
  <2>2. Load(s) \in Int /\ Load(s1) = Load(s) + d
    BY <1>2, <2>1, LoadChanged
  <2> QED
    BY <2>1, <2>2
<1>4. Load(s2) = Load(s1) + 1
  BY <1>2, LoadChanged
<1>5. UnitTransformed(s, u.type, v.type) = s2
  BY DEF UnitTransformed
<1> HIDE DEF s1, s2
<1>6. Load(s2) = Load(s)
  BY <1>3, <1>4
<1>7. StatsAfterTransform(u, v)[p] \in {stats[p], s2}
      /\ (StatsAfterTransform(u, v)[p] # stats[p] => u.owner = p)
  BY <1>1, <1>5 DEF StatsAfterTransform, BooksOK
<1> QED
  BY <1>6, <1>7

\* A deletion never adds to the load.
LEMMA LoadDeleted ==
    ASSUME MatchInv, BooksOK, NEW id \in DOMAIN objects, objects[id].owner \in Players,
           NEW manually, DeleteObject(id, manually), NEW p \in Players
    PROVE  Load(stats'[p]) <= Load(stats[p])
<1> DEFINE o  == objects[id]
           s  == stats[o.owner]
           s1 == IF o.production > 0 THEN InProductionChange(s, -1) ELSE s
           s2 == IF IsUnit(o) THEN UnitRemoved(s, o.type)
                 ELSE BuildingRemoved(s1, o.type, IsCompleted(o))
           d  == -1
<1>1. s \in Stats /\ stats[p] \in Stats /\ d \in Int
  BY DEF BooksOK
<1>2. stats' = stats \/ stats' = [stats EXCEPT ![o.owner] = s2]
  BY DEF DeleteObject, StatsAfterDeletion
<1>3. s1 = (IF o.production > 0 THEN InProductionChange(s, d) ELSE s)
      /\ s2 = IF IsUnit(o) THEN UnitChange(s, o.type, d)
              ELSE IF IsCompleted(o) THEN FinishedBuildingChange(s1, o.type, d)
                                     ELSE UnfinishedBuildingChange(s1, o.type, d)
  BY DEF UnitRemoved, BuildingRemoved
<1>4. \A n \in Int : n + d <= n /\ n + d \in Int
  OBVIOUS
<1> HIDE DEF d, s1, s2
<1>5. s1 \in Stats
  BY <1>1, <1>3, ProductionStats
<1>6. Load(s) \in Int /\ Load(s1) \in Int /\ Load(s1) <= Load(s)
  BY <1>1, <1>3, <1>4, LoadChanged
<1>7. Load(s2) = Load(s) + d \/ Load(s2) = Load(s1)
  BY <1>1, <1>3, <1>5, LoadChanged
<1>8. Load(s2) <= Load(s)
  BY <1>4, <1>6, <1>7
<1>9. Load(stats[p]) \in Int
  BY <1>1, LoadChanged
<1>10. stats'[p] = stats[p] \/ (o.owner = p /\ stats'[p] = s2)
  BY <1>2 DEF BooksOK
<1> QED
  BY <1>8, <1>9, <1>10

\* A command or a visit raises the load of a player only by one, and only where
\* there is space for it.
HousedStep(p) ==
    \/ Load(stats'[p]) <= Load(stats[p])
    \/ Load(stats'[p]) <= stats[p].space

\* No command adds to the load.
LEMMA HousedCommand ==
    ASSUME MatchInv, BooksOK, NEW p \in Players, NEW q \in Players, Command(q)
    PROVE  HousedStep(p)
<1>1. stats[p] \in Stats /\ stats[q] \in Stats /\ stats \in [Players -> Stats] /\ MapInv /\ MapOK
  BY DEF BooksOK, MatchInv, MapInv
<1>2. Load(stats[p]) \in Int
  BY <1>1, LoadChanged
<1>3. CASE stats' = stats
  BY <1>2, <1>3 DEF HousedStep
<1>4. CASE \E u, t \in DOMAIN objects : HandleSetTarget(q, u, t)
  <2>1. PICK u, t \in DOMAIN objects : HandleSetTarget(q, u, t)
    BY <1>4
  <2>2. IsUnit(objects[u]) /\ stats' = StatsAfterTransform(objects[u], SetTarget(objects[u], t, TRUE))
    BY <2>1 DEF HandleSetTarget, OwnUnit
  <2>3. objects[u] \in Units /\ SetTarget(objects[u], t, TRUE) \in Units
    BY <1>1, <2>2, UnitFits, SetTargetFits, Kinds DEF Fits, MapOK
  <2>4. Load(stats'[p]) = Load(stats[p])
    BY <2>2, <2>3, LoadTransformed
  <2> QED
    BY <1>2, <2>4 DEF HousedStep
<1>5. CASE \E b \in DOMAIN objects, k \in 0 .. MaxQueue - 1 :
             HandleDequeueProductionQueueItem(q, b, k)
  <2> DEFINE d == -1
  <2>1. stats' \in {stats, [stats EXCEPT ![q] = InProductionChange(@, d)]}
    BY <1>5 DEF HandleDequeueProductionQueueItem
  <2>2. d \in Int /\ \A n \in Int : n + d <= n
    OBVIOUS
  <2> HIDE DEF d
  <2>3. Load(InProductionChange(stats[p], d)) = Load(stats[p]) + d
    BY <1>1, <2>2, LoadChanged
  <2>4. stats'[p] = stats[p] \/ stats'[p] = InProductionChange(stats[p], d)
    BY <1>1, <2>1
  <2> QED
    BY <1>2, <2>2, <2>3, <2>4 DEF HousedStep
<1>6. CASE \E t \in PlaceableTypes : \E tiles \in Footprints[t] :
             \E builders \in SUBSET {u \in DOMAIN objects : OwnUnit(q, u)} :
               HandlePlaceBuildingFoundation(q, t, tiles, builders)
  <2>1. PICK t \in PlaceableTypes : \E tiles \in Footprints[t] :
               \E builders \in SUBSET {u \in DOMAIN objects : OwnUnit(q, u)} :
                 HandlePlaceBuildingFoundation(q, t, tiles, builders)
    BY <1>6
  <2>2. PICK tiles \in Footprints[t] :
               \E builders \in SUBSET {u \in DOMAIN objects : OwnUnit(q, u)} :
                 HandlePlaceBuildingFoundation(q, t, tiles, builders)
    BY <2>1
  <2>3. PICK builders : HandlePlaceBuildingFoundation(q, t, tiles, builders)
    BY <2>2
  <2> DEFINE s == BuildingAdded(stats[q], t, FALSE)
  <2>4. stats' = [stats EXCEPT ![q] = TurnedToBuilders(s, builders)]
    BY <2>3, Zenon DEF HandlePlaceBuildingFoundation
  <2>5. s \in Stats /\ Load(s) = Load(stats[q])
    BY <1>1, BuildingStats, LoadChanged DEF BuildingAdded, PlaceableTypes
  <2> HIDE DEF s
  <2>6. Load(TurnedToBuilders(s, builders)) = Load(stats[q])
    BY <2>5, LoadChanged
  <2>7. stats'[p] = stats[p] \/ (p = q /\ stats'[p] = TurnedToBuilders(s, builders))
    BY <1>1, <2>4
  <2> QED
    BY <1>2, <2>6, <2>7 DEF HousedStep
<1>7. CASE \E id \in DOMAIN objects : HandleDeleteObject(q, id)
  <2>1. PICK id \in DOMAIN objects : HandleDeleteObject(q, id)
    BY <1>7
  <2>2. objects[id].owner \in Players /\ DeleteObject(id, TRUE)
    BY <2>1, Zenon DEF HandleDeleteObject
  <2> QED
    BY <2>2, LoadDeleted DEF HousedStep
<1>8. CASE \/ \E u \in DOMAIN objects : HandleMoveToMapCoord(q, u)
           \/ \E b \in DOMAIN objects, t \in {"Villager", "Militia"} : HandleProduceUnit(q, b, t)
           \/ \E reason \in {"Resign", "Drop"} : PlayerGone(q, reason)
  <2>1. stats' = stats
    BY <1>8, Zenon DEF HandleMoveToMapCoord, HandleProduceUnit, PlayerGone
  <2> QED
    BY <1>3, <2>1
<1> QED
  BY <1>4, <1>5, <1>6, <1>7, <1>8 DEF Command, Resign, Drop

\* Of the visits, only one that starts a production adds to the load.
LEMMA HousedVisit ==
    ASSUME MatchInv, BooksOK, NEW p \in Players, NEW id, VisitedUnit(id) \/ VisitedBuilding(id)
    PROVE  HousedStep(p)
<1>1. stats[p] \in Stats /\ stats \in [Players -> Stats] /\ MapInv /\ MapOK
  BY DEF BooksOK, MatchInv, MapInv
<1>2. Load(stats[p]) \in Int
  BY <1>1, LoadChanged
<1>3. CASE Walk(id) \/ BeginAttack(id) \/ ConstructionBlocked(id) \/ Gather(id) \/ DropOff(id)
  <2>1. PICK v : UnitBecomes(id, v) /\ Fits(id, v)
    BY <1>3, UnitBecomesStep
  <2>2. /\ stats' = StatsAfterTransform(objects[id], v)
        /\ objects[id] \in Units /\ v \in Units
    BY <2>1, Visited, Kinds DEF UnitBecomes, Fits, MapOK
  <2>3. Load(stats'[p]) = Load(stats[p])
    BY <2>2, LoadTransformed
  <2> QED
    BY <1>2, <2>3 DEF HousedStep
<1>4. CASE ContinueAttack(id)
  <2> DEFINE t    == objects[id].target
             hits == objects[id].clock + 1 = DamageTime /\ t \in DOMAIN objects
  <2>1. CASE hits /\ objects[t].hp = 1
    <3>1. DeleteObject(t, FALSE)
      BY <1>4, <2>1 DEF ContinueAttack
    <3>2. objects[t].owner \in Players
      BY <1>1, <1>4, <2>1 DEF MapInv, MapOK, AttacksPlayers, ContinueAttack, Swings,
                              VisitUnit, Visit
    <3> QED
      BY <2>1, <3>1, <3>2, LoadDeleted DEF HousedStep
  <2>2. CASE ~(hits /\ objects[t].hp = 1)
    <3>1. stats' = stats
      BY <1>4, <2>2 DEF ContinueAttack
    <3> QED
      BY <1>2, <3>1 DEF HousedStep
  <2> QED
    BY <2>1, <2>2
<1>5. CASE Construct(id)
  <2> DEFINE unit == Ready(id)
             b    == objects[unit.target]
             transformed == StatsAfterTransform(objects[id], unit)
             s  == transformed[b.owner]
             d  == -1
             s1 == UnfinishedBuildingChange(s, b.type, d)
             s2 == FinishedBuildingChange(s1, b.type, 1)
  <2>1. id \in DOMAIN objects /\ IsUnit(objects[id]) /\ Fits(id, unit)
    BY <1>1, <1>5, ReadyFits DEF MapOK, Construct, VisitUnit, Visit
  <2>2. unit.target \in DOMAIN objects /\ Interaction(unit, b) = "Construct"
    BY <1>1, <1>5, <2>1, ReadyTarget DEF Construct, Reaches
  <2>3. IsBuilding(b) /\ b.owner = unit.owner
    BY <2>2 DEF Interaction
  <2>4. /\ objects[id] \in Units /\ unit \in Units /\ b.owner \in Players
        /\ b.type \in BuildingTypes
    BY <1>1, <2>1, <2>3, Kinds DEF MapOK, Fits, Units, IsBuilding
  <2>5. transformed \in [Players -> Stats]
    BY <2>4, TransformedStats
  <2>6. \A q \in Players : Load(transformed[q]) = Load(stats[q])
    BY <2>4, LoadTransformed
  <2>7. stats' \in {transformed, [transformed EXCEPT ![b.owner] = BuildingFinished(@, b.type)]}
    BY <1>5 DEF Construct
  <2>8. BuildingFinished(s, b.type) = s2 /\ d \in {1, -1} /\ d \in Int
    BY DEF BuildingFinished
  <2> HIDE DEF transformed, d
  <2>9. s \in Stats /\ s1 \in Stats
    BY <2>4, <2>5, <2>8, BuildingStats
  <2>10. Load(s1) = Load(s)
    BY <2>8, <2>9, LoadChanged
  <2> HIDE DEF s1
  <2>11. Load(s2) = Load(s1)
    <3>1. \A s0 \in Stats : \A d0 \in Int : \A t : Load(FinishedBuildingChange(s0, t, d0)) = Load(s0)
      BY LoadChanged
    <3>2. 1 \in Int
      OBVIOUS
    <3> QED
      BY <2>9, <3>1, <3>2, Zenon
  <2>12. Load(stats'[p]) = Load(stats[p])
    BY <2>4, <2>5, <2>6, <2>7, <2>8, <2>10, <2>11
  <2> QED
    BY <1>2, <2>12 DEF HousedStep
<1>6. CASE StartProduction(id)
  <2> DEFINE q == objects[id].owner
  <2>1. /\ stats' = [stats EXCEPT ![q] = InProductionChange(@, 1)]
        /\ Load(stats[q]) < stats[q].space
    BY <1>6 DEF StartProduction, HasPopulationSpace, PopulationIncludingInProduction, Load
  <2>2. CASE q = p
    <3>1. stats'[p] = InProductionChange(stats[p], 1)
      BY <1>1, <2>1, <2>2
    <3>2. Load(stats'[p]) = Load(stats[p]) + 1 /\ stats[p].space \in Int
      BY <1>1, <3>1, LoadChanged
    <3>3. Load(stats'[p]) <= stats[p].space
      BY <1>2, <2>1, <2>2, <3>2
    <3> QED
      BY <3>3 DEF HousedStep
  <2>3. CASE q # p
    BY <1>1, <1>2, <2>1, <2>3 DEF HousedStep
  <2> QED
    BY <2>2, <2>3
<1>7. CASE WaitForSpace(id) \/ ContinueProduction(id)
  <2>1. stats' = stats
    BY <1>7 DEF WaitForSpace, ContinueProduction
  <2> QED
    BY <1>2, <2>1 DEF HousedStep
<1>8. CASE CompleteProduction(id)
  <2> DEFINE q  == objects[id].owner
             t  == Head(objects[id].queue)
             d  == -1
             s1 == InProductionChange(stats[p], d)
             s2 == UnitChange(s1, t, 1)
  <2>1. stats' = [stats EXCEPT ![q] = UnitAdded(InProductionChange(@, -1), t)]
    BY <1>8 DEF CompleteProduction
  <2>2. stats'[p] = stats[p] \/ stats'[p] = s2
    BY <1>1, <2>1 DEF UnitAdded
  <2>3. d \in Int /\ \A n \in Int : n + d + 1 = n
    OBVIOUS
  <2> HIDE DEF d
  <2>4. s1 \in Stats /\ Load(s1) = Load(stats[p]) + d
    BY <1>1, <2>3, ProductionStats, LoadChanged
  <2> HIDE DEF s1
  <2>5. Load(s2) = Load(s1) + 1
    BY <2>4, LoadChanged
  <2>6. Load(s2) = Load(stats[p])
    BY <1>2, <2>3, <2>4, <2>5
  <2> QED
    BY <1>2, <2>2, <2>6 DEF HousedStep
<1> QED
  BY <1>3, <1>4, <1>5, <1>6, <1>7, <1>8 DEF VisitedUnit, VisitedBuilding

\* Every step of the specification.
LEMMA HousedNext ==
    ASSUME MatchInv, BooksOK, [Next]_vars, NEW p \in Players
    PROVE  HousedStep(p)
<1>1. CASE \E q \in Players : Command(q)
  BY <1>1, HousedCommand
<1>2. CASE \E id \in todo : VisitObject(id)
  <2>1. PICK id : VisitedUnit(id) \/ VisitedBuilding(id)
    BY <1>2 DEF VisitObject
  <2> QED
    BY <2>1, HousedVisit
<1>3. CASE EndPoll \/ EndIteration \/ BeginStep \/ EndStep \/ UNCHANGED vars
  <2>1. stats' = stats
    BY <1>3 DEF EndPoll, EndIteration, BeginStep, EndStep, vars
  <2>2. Load(stats[p]) \in Int
    BY LoadChanged DEF BooksOK
  <2> QED
    BY <2>1, <2>2 DEF HousedStep
<1> QED
  BY <1>1, <1>2, <1>3 DEF Next, SimulateStep

\* What PopulationCapped says of a step.
LEMMA CapStep ==
    ASSUME MatchInv, BooksOK, [Next]_vars
    PROVE  [\A p \in Players :
              (stats[p] = Recount(p) /\ ~TouchesDoomed
                 /\ (stats[p].population + Recount(p).inProduction)'
                      > stats[p].population + Recount(p).inProduction)
              => (stats[p].population + Recount(p).inProduction)' <= Recount(p).space]_vars
<1> SUFFICES ASSUME NEW p \in Players, stats[p] = Recount(p), ~TouchesDoomed,
                    (stats[p].population + Recount(p).inProduction)'
                      > stats[p].population + Recount(p).inProduction
             PROVE  (stats[p].population + Recount(p).inProduction)' <= Recount(p).space
  OBVIOUS
<1>1. MapOK /\ MapOK'
  BY MatchStep DEF MatchInv, MapInv
<1>2. Matching(p)
  BY <1>1, RecountIsTally DEF Matching
<1>3. MatchingNext(p)
  BY <1>2, StepFollows DEF Before
<1>4. Recount(p)' = Tally(objects', LiveOf(p)')
  BY <1>1, NextRecountIsTally
<1>5. stats'[p] = Recount(p)'
  BY <1>3, <1>4 DEF MatchingNext
<1>6. /\ (stats[p].population + Recount(p).inProduction)' = Load(stats'[p])
      /\ stats[p].population + Recount(p).inProduction = Load(stats[p])
  BY <1>5 DEF Load
<1>7. Load(stats[p]) \in Int /\ Load(stats'[p]) \in Int
  <2>1. stats[p] \in Stats /\ stats'[p] \in Stats
    BY BooksStep DEF BooksOK
  <2> QED
    BY <2>1, LoadChanged
<1>8. HousedStep(p)
  BY HousedNext
<1> QED
  BY <1>6, <1>7, <1>8 DEF HousedStep

\* The population together with what is in production grows only where there is
\* space for it: of all steps only the start of a production adds to it, after the
\* check, and the unit takes the place of its production
\* (SimulateGameStepForBuilding).
THEOREM PopulationNeverForced == Spec => PopulationCapped
<1>1. MatchInv /\ BooksOK /\ [Next]_vars => BooksOK'
  BY BooksStep
<1>2. MatchInv /\ BooksOK /\ [Next]_vars
        => [\A p \in Players :
              (stats[p] = Recount(p) /\ ~TouchesDoomed
                 /\ (stats[p].population + Recount(p).inProduction)'
                      > stats[p].population + Recount(p).inProduction)
              => (stats[p].population + Recount(p).inProduction)' <= Recount(p).space]_vars
  BY CapStep
<1> QED
  BY <1>1, <1>2, BooksInit, MatchInvariant, PTL DEF Spec, PopulationCapped

(***************************************************************************)
(* Arithmetic the provers do not find.                                     *)
(***************************************************************************)
LEMMA ProductGrows ==
    ASSUME NEW a \in Nat, NEW b \in Nat, a <= b, NEW c \in Nat
    PROVE  a * c \in Nat /\ b * c \in Nat /\ a * c <= b * c
<1>1. (b - a) * c >= 0
  OBVIOUS
<1>2. (b - a) * c = b * c - a * c
  OBVIOUS
<1> QED
  BY <1>1, <1>2

\* Division by the same number is monotone.
LEMMA QuotientGrows ==
    ASSUME NEW x \in Nat, NEW y \in Nat, x <= y, NEW d \in Nat \ {0}
    PROVE  x \div d \in Nat /\ y \div d \in Nat /\ x \div d <= y \div d
<1> DEFINE q == x \div d
           r == y \div d
<1>1. /\ q \in Nat /\ q * d <= x /\ x < q * d + d
      /\ r \in Nat /\ r * d <= y /\ y < r * d + d
  OBVIOUS
<1> HIDE DEF q, r
<1>2. ASSUME q > r PROVE FALSE
  <2>1. r + 1 <= q /\ r + 1 \in Nat
    BY <1>1, <1>2
  <2>2. (r + 1) * d <= q * d
    BY <1>1, <2>1, ProductGrows
  <2>3. (r + 1) * d = r * d + d
    BY <1>1
  <2>4. r * d \in Nat /\ q * d \in Nat
    BY <1>1, ProductGrows
  <2> QED
    BY <1>1, <2>2, <2>3, <2>4
<1> QED
  BY <1>1, <1>2 DEF q, r

\* A whole number of resources is rounded to itself.
LEMMA HalfUp ==
    ASSUME NEW n \in Nat \ {0}, NEW c \in Nat
    PROVE  (2 * n * c + n) \div (2 * n) = c
<1> DEFINE d == 2 * n
           x == 2 * n * c + n
           q == x \div d
<1>1. d \in Nat \ {0} /\ c * d \in Nat /\ x = c * d + n /\ n < d
  OBVIOUS
<1>2. x \in Nat
  BY <1>1
<1>3. q \in Nat /\ q * d <= x /\ x < q * d + d
  <2> HIDE DEF x, d
  <2> QED
    BY <1>1, <1>2
<1> HIDE DEF d, x, q
<1>4. q * d \in Nat
  BY <1>1, <1>3, ProductGrows
<1>5. ASSUME q > c PROVE FALSE
  <2>1. (c + 1) * d <= q * d
    BY <1>1, <1>3, <1>5, ProductGrows
  <2>2. (c + 1) * d = c * d + d
    BY <1>1
  <2> QED
    BY <1>1, <1>3, <1>4, <2>1, <2>2
<1>6. ASSUME c > q PROVE FALSE
  <2>1. (q + 1) * d <= c * d
    BY <1>1, <1>3, <1>6, ProductGrows
  <2>2. (q + 1) * d = q * d + d
    BY <1>1, <1>3
  <2> QED
    BY <1>1, <1>3, <1>4, <2>1, <2>2
<1>7. q = c
  BY <1>3, <1>5, <1>6
<1> QED
  BY <1>7 DEF q, x, d

(***************************************************************************)
(* What deleting a building returns.                                       *)
(***************************************************************************)
\* The more is built, the less is returned.
LEMMA RefundShrinks ==
    ASSUME NEW b \in Buildings, NEW c \in Buildings, c.type = b.type, b.built <= c.built
    PROVE  ConstructionRefund(c) <= ConstructionRefund(b)
<1> DEFINE m == BuildSteps - b.built
           n == BuildSteps - c.built
           cost == Cost[b.type]
           d == 2 * BuildSteps
<1>1. /\ BuildSteps \in Nat /\ BuildSteps > 1 /\ m \in Nat /\ n \in Nat /\ n <= m
      /\ cost \in Nat
  <2>1. b.type \in BuildingTypes /\ b.built \in 0 .. BuildSteps /\ c.built \in 0 .. BuildSteps
    BY DEF Buildings
  <2> QED
    BY <2>1, Sizes, GameAssumption
<1>2. /\ ConstructionRefund(b) = (2 * m * cost + BuildSteps) \div d
      /\ ConstructionRefund(c) = (2 * n * cost + BuildSteps) \div d
  BY DEF ConstructionRefund
<1> HIDE DEF m, n, cost
<1>3. n * cost \in Nat /\ m * cost \in Nat /\ n * cost <= m * cost
  BY <1>1, ProductGrows
<1>4. 2 * n * cost = 2 * (n * cost) /\ 2 * m * cost = 2 * (m * cost)
  BY <1>1
<1> DEFINE x == 2 * n * cost + BuildSteps
           y == 2 * m * cost + BuildSteps
<1>5. x \in Nat /\ y \in Nat /\ x <= y /\ d \in Nat \ {0}
  BY <1>1, <1>3, <1>4
<1> HIDE DEF x, y, d
<1>6. x \div d <= y \div d
  BY <1>5, QuotientGrows
<1> QED
  BY <1>2, <1>6 DEF x, y

\* For a foundation all of its price is returned.
LEMMA FoundationRefund ==
    ASSUME NEW b, b.built = 0, Cost[b.type] \in Nat
    PROVE  ConstructionRefund(b) = Cost[b.type]
<1> DEFINE c == Cost[b.type]
<1>1. BuildSteps \in Nat \ {0}
  BY Sizes
<1>2. ConstructionRefund(b) = (2 * BuildSteps * c + BuildSteps) \div (2 * BuildSteps)
  <2>1. BuildSteps - b.built = BuildSteps
    BY <1>1
  <2> QED
    BY <2>1 DEF ConstructionRefund
<1> HIDE DEF c
<1>3. c \in Nat
  BY DEF c
<1>4. (2 * BuildSteps * c + BuildSteps) \div (2 * BuildSteps) = c
  BY <1>1, <1>3, HalfUp
<1> QED
  BY <1>2, <1>4 DEF c

(***************************************************************************)
(* The price of a queue.                                                   *)
(***************************************************************************)
\* Sequence r is q without its item at position k.
Shortened(r, q, k) ==
    /\ k \in 1 .. Len(q) /\ Len(q) = Len(r) + 1
    /\ \A i \in 1 .. Len(r) : r[i] = IF i < k THEN q[i] ELSE q[i + 1]

\* A queue costs what it costs without an item, and that item.
LEMMA QueueCostShortened ==
    ASSUME NEW a, NEW b, NEW k, a.queue \in Seq(UnitTypes), b.queue \in Seq(UnitTypes),
           Shortened(b.queue, a.queue, k)
    PROVE  /\ QueueCost(a) = QueueCost(b) + Cost[a.queue[k]]
           /\ QueueCost(b) \in Nat /\ Cost[a.queue[k]] \in Nat
<1> DEFINE q == a.queue
           r == b.queue
           l == Len(q)
           m == Len(r)
           c == Cost[q[k]]
<1>1. l \in Nat /\ m \in Nat /\ l = m + 1 /\ k \in 1 .. l
  BY DEF Shortened
<1>2. /\ \A i \in 1 .. l : q[i] \in UnitTypes
      /\ \A i \in 1 .. m : r[i] \in UnitTypes
      /\ \A i \in 1 .. m : r[i] = IF i < k THEN q[i] ELSE q[i + 1]
  BY DEF Shortened
<1>3. PICK f : CostSum(f, q, l)
  BY <1>1, CostSumExists
<1>4. PICK g : CostSum(g, r, m)
  BY <1>1, CostSumExists
<1>5. QueueCost(a) = f[l] /\ QueueCost(b) = g[m] /\ QueueCost(b) \in Nat
  BY <1>1, <1>2, <1>3, <1>4, QueueCostIsSum
<1>6. \A i \in 1 .. l : Cost[q[i]] \in Nat
  BY <1>2, GameAssumption
<1> HIDE DEF q, r, l, m
<1>7. c \in Nat
  BY <1>1, <1>6
<1> HIDE DEF c
<1>8. /\ f[0] = 0 /\ g[0] = 0
      /\ \A i \in 1 .. l : f[i] = f[i - 1] + Cost[q[i]]
      /\ \A i \in 1 .. m : g[i] = g[i - 1] + Cost[r[i]]
  <2>1. /\ \A i \in 0 .. l : f[i] = IF i = 0 THEN 0 ELSE f[i - 1] + Cost[q[i]]
        /\ \A i \in 0 .. m : g[i] = IF i = 0 THEN 0 ELSE g[i - 1] + Cost[r[i]]
    BY <1>3, <1>4 DEF CostSum
  <2>2. /\ 0 \in 0 .. l /\ 0 \in 0 .. m
        /\ \A i \in 1 .. l : i \in 0 .. l /\ i # 0
        /\ \A i \in 1 .. m : i \in 0 .. m /\ i # 0
    BY <1>1
  <2> QED
    BY <2>1, <2>2
<1> DEFINE S == {i \in Nat : i <= m => /\ f[i] \in Nat /\ g[i] \in Nat
                                       /\ i < k => g[i] = f[i]
                                       /\ i >= k => f[i + 1] = g[i] + c}
<1>9. 0 \in S
  BY <1>1, <1>8
<1>10. ASSUME NEW i \in Nat, i \in S PROVE i + 1 \in S
  <2>1. SUFFICES ASSUME i + 1 <= m
                 PROVE  /\ f[i + 1] \in Nat /\ g[i + 1] \in Nat
                        /\ i + 1 < k => g[i + 1] = f[i + 1]
                        /\ i + 1 >= k => f[i + 2] = g[i + 1] + c
    <3>1. (i + 1) + 1 = i + 2
      OBVIOUS
    <3> QED
      BY <3>1
  <2>2. /\ i + 1 \in 1 .. m /\ i + 1 \in 1 .. l /\ i + 2 \in 1 .. l /\ (i + 1) - 1 = i
        /\ (i + 2) - 1 = i + 1
    BY <1>1, <2>1
  <2>3. /\ f[i] \in Nat /\ g[i] \in Nat
        /\ i < k => g[i] = f[i]
        /\ i >= k => f[i + 1] = g[i] + c
    BY <1>1, <1>10, <2>1
  <2>4. /\ f[i + 1] = f[i] + Cost[q[i + 1]] /\ f[i + 2] = f[i + 1] + Cost[q[i + 2]]
        /\ g[i + 1] = g[i] + Cost[r[i + 1]]
    BY <1>8, <2>2
  <2>5. /\ Cost[q[i + 1]] \in Nat /\ Cost[q[i + 2]] \in Nat
        /\ r[i + 1] = IF i + 1 < k THEN q[i + 1] ELSE q[i + 2]
    <3>1. (i + 1) + 1 = i + 2
      OBVIOUS
    <3> QED
      BY <1>2, <1>6, <2>2, <3>1
  <2>6. CASE i + 1 < k
    BY <1>1, <2>3, <2>4, <2>5, <2>6
  <2>7. CASE i + 1 = k
    <3>1. Cost[q[i + 1]] = c /\ g[i] = f[i] /\ r[i + 1] = q[i + 2]
      BY <1>1, <2>3, <2>5, <2>7 DEF c
    <3> DEFINE n == Cost[q[i + 2]]
    <3>2. f[i + 1] = f[i] + c /\ f[i + 2] = f[i + 1] + n /\ g[i + 1] = f[i] + n /\ n \in Nat
      BY <2>4, <2>5, <3>1
    <3> DEFINE a0 == f[i]
               a1 == f[i + 1]
               a2 == f[i + 2]
               b1 == g[i + 1]
    <3>3. a1 = a0 + c /\ a2 = a1 + n /\ b1 = a0 + n /\ n \in Nat /\ a0 \in Nat
      BY <2>3, <3>2
    <3>4. ~(i + 1 < k) /\ i + 1 >= k
      BY <1>1, <2>7
    <3> HIDE DEF n, a0, a1, a2, b1
    <3>5. a1 \in Nat /\ b1 \in Nat /\ a2 = b1 + c
      BY <1>7, <3>3
    <3> QED
      BY <3>4, <3>5 DEF a1, a2, b1
  <2>8. CASE i + 1 > k
    <3> DEFINE n  == Cost[q[i + 2]]
               a1 == f[i + 1]
               a2 == f[i + 2]
               b0 == g[i]
               b1 == g[i + 1]
    <3>1. i >= k /\ ~(i + 1 < k) /\ r[i + 1] = q[i + 2]
      BY <1>1, <2>5, <2>8
    <3>2. a1 = b0 + c /\ a2 = a1 + n /\ b1 = b0 + n /\ n \in Nat /\ b0 \in Nat
      BY <2>3, <2>4, <2>5, <3>1
    <3> HIDE DEF n, a1, a2, b0, b1
    <3>3. a1 \in Nat /\ b1 \in Nat /\ a2 = b1 + c
      BY <1>7, <3>2
    <3> QED
      BY <3>1, <3>3 DEF a1, a2, b1
  <2> QED
    BY <1>1, <2>6, <2>7, <2>8
<1> HIDE DEF S
<1>11. m \in S
  BY <1>1, <1>9, <1>10, SetInduction
<1>12. f[l] = g[m] + c
  <2>1. /\ f[m] \in Nat /\ g[m] \in Nat
        /\ m < k => g[m] = f[m]
        /\ m >= k => f[m + 1] = g[m] + c
    BY <1>1, <1>11 DEF S
  <2>2. CASE m >= k
    BY <1>1, <2>1, <2>2
  <2>3. CASE m < k
    <3>1. k = l /\ l - 1 = m
      BY <1>1, <2>3
    <3> QED
      BY <1>1, <1>8, <2>1, <2>3, <3>1 DEF c
  <2> QED
    BY <1>1, <2>2, <2>3
<1> QED
  BY <1>5, <1>7, <1>12 DEF c, q

\* Queueing adds the last item.
LEMMA AppendShortened ==
    ASSUME NEW q \in Seq(UnitTypes), NEW t \in UnitTypes
    PROVE  LET a == Append(q, t)
           IN  a \in Seq(UnitTypes) /\ Shortened(q, a, Len(a)) /\ a[Len(a)] = t
BY AppendProperties DEF Shortened

\* Completing takes the first item.
LEMMA TailShortened ==
    ASSUME NEW q \in Seq(UnitTypes), q # <<>>
    PROVE  Tail(q) \in Seq(UnitTypes) /\ Shortened(Tail(q), q, 1)
<1>1. /\ Tail(q) \in Seq(UnitTypes) /\ Len(Tail(q)) = Len(q) - 1
      /\ \A i \in 1 .. Len(Tail(q)) : Tail(q)[i] = q[i + 1]
  BY HeadTailProperties
<1>2. Len(q) \in Nat /\ Len(q) # 0
  BY EmptySeq
<1> QED
  BY <1>1, <1>2 DEF Shortened

\* Dequeueing takes any item.
LEMMA RemoveAtShortened ==
    ASSUME NEW q \in Seq(UnitTypes), NEW k \in 1 .. Len(q)
    PROVE  RemoveAt(q, k) \in Seq(UnitTypes) /\ Shortened(RemoveAt(q, k), q, k)
<1> DEFINE l == Len(q)
           a == SubSeq(q, 1, k - 1)
           b == SubSeq(q, k + 1, l)
           r == RemoveAt(q, k)
<1>1. l \in Nat /\ k \in Int /\ k - 1 \in Int /\ k + 1 \in Int /\ 1 <= k /\ k <= l
  OBVIOUS
<1>2. \A i \in 1 .. l : q[i] \in UnitTypes
  OBVIOUS
<1>3. /\ a \in Seq(UnitTypes) /\ Len(a) = k - 1
      /\ \A i \in 1 .. k - 1 : a[i] = q[i]
  <2>1. \A i \in 1 .. k - 1 : q[i] \in UnitTypes
    BY <1>1, <1>2
  <2>2. /\ SubSeq(q, 1, k - 1) \in Seq(UnitTypes)
        /\ Len(SubSeq(q, 1, k - 1)) = IF 1 <= k - 1 THEN (k - 1) - 1 + 1 ELSE 0
        /\ \A i \in 1 .. (k - 1) - 1 + 1 : SubSeq(q, 1, k - 1)[i] = q[1 + i - 1]
    BY <1>1, <2>1, SubSeqProperties
  <2>3. (k - 1) - 1 + 1 = k - 1 /\ \A i \in 1 .. k - 1 : 1 + i - 1 = i
    BY <1>1
  <2> QED
    BY <1>1, <2>2, <2>3
<1>4. /\ b \in Seq(UnitTypes) /\ Len(b) = l - k
      /\ \A i \in 1 .. l - k : b[i] = q[k + i]
  <2>1. \A i \in k + 1 .. l : q[i] \in UnitTypes
    BY <1>1, <1>2
  <2>2. /\ SubSeq(q, k + 1, l) \in Seq(UnitTypes)
        /\ Len(SubSeq(q, k + 1, l)) = IF k + 1 <= l THEN l - (k + 1) + 1 ELSE 0
        /\ \A i \in 1 .. l - (k + 1) + 1 : SubSeq(q, k + 1, l)[i] = q[(k + 1) + i - 1]
    BY <1>1, <2>1, SubSeqProperties
  <2>3. l - (k + 1) + 1 = l - k /\ \A i \in 1 .. l - k : (k + 1) + i - 1 = k + i
    BY <1>1
  <2>4. (IF k + 1 <= l THEN l - (k + 1) + 1 ELSE 0) = l - k
    BY <1>1
  <2> HIDE DEF l
  <2>5. b \in Seq(UnitTypes) /\ Len(b) = l - k
    BY <2>2, <2>4
  <2>6. \A i \in 1 .. l - k : b[i] = q[k + i]
    BY <2>2, <2>3
  <2> QED
    BY <2>5, <2>6
<1>5. r = a \o b
  BY DEF RemoveAt
<1> HIDE DEF a, b, r
<1>6. /\ r \in Seq(UnitTypes) /\ Len(r) = Len(a) + Len(b)
      /\ \A i \in 1 .. Len(a) + Len(b) : r[i] = IF i <= Len(a) THEN a[i] ELSE b[i - Len(a)]
  BY <1>3, <1>4, <1>5, ConcatProperties
<1>7. Len(r) = l - 1 /\ l = Len(r) + 1
  <2>1. Len(r) = (k - 1) + (l - k)
    BY <1>3, <1>4, <1>6
  <2> HIDE DEF l
  <2> QED
    BY <1>1, <2>1
<1>8. ASSUME NEW i \in 1 .. Len(r) PROVE r[i] = IF i < k THEN q[i] ELSE q[i + 1]
  <2>1. CASE i < k
    BY <1>1, <1>3, <1>4, <1>6, <1>7, <2>1
  <2>2. CASE ~(i < k)
    <3>1. i - (k - 1) \in 1 .. l - k /\ k + (i - (k - 1)) = i + 1
      BY <1>1, <1>7, <2>2
    <3>2. r[i] = b[i - (k - 1)]
      BY <1>1, <1>3, <1>6, <2>2
    <3> QED
      BY <1>4, <2>2, <3>1, <3>2
  <2> QED
    BY <2>1, <2>2
<1>9. Shortened(r, q, k)
  BY <1>1, <1>7, <1>8 DEF Shortened
<1> QED
  BY <1>6, <1>9 DEF r

(***************************************************************************)
(* What an object is worth to its owner, and a set of objects together.    *)
(***************************************************************************)
Worth(o) == IF IsUnit(o) THEN o.carried ELSE Refund(o, TRUE)

Holdings(f, L) == Total([i \in L |-> Worth(f[i])], L)

\* A unit is worth what it carries.
LEMMA WorthOfUnit ==
    ASSUME NEW o \in Units
    PROVE  Worth(o) = o.carried /\ Worth(o) \in Nat
<1>1. IsUnit(o)
  BY DEF IsUnit, Units
<1>2. o.carried \in 0 .. CarryCapacity
  BY DEF Units
<1> QED
  BY <1>1, <1>2, Sizes DEF Worth

\* A building is worth its queue, and its price if it is unfinished.
LEMMA WorthOfBuilding ==
    ASSUME NEW o \in Buildings
    PROVE  /\ Worth(o) = QueueCost(o) + (IF IsCompleted(o) THEN 0 ELSE ConstructionRefund(o))
           /\ Worth(o) = Refund(o, TRUE)
           /\ QueueCost(o) \in Nat /\ ConstructionRefund(o) \in Nat /\ Worth(o) \in Nat
<1>1. ~IsUnit(o)
  BY Kinds
<1>2. QueueCost(o) \in Nat /\ ConstructionRefund(o) \in Nat
  BY QueueCostType, ConstructionRefundType
<1> QED
  BY <1>1, <1>2 DEF Worth, Refund

\* An object is worth a number of resources.
LEMMA WorthType ==
    ASSUME NEW o \in Units \cup Buildings
    PROVE  Worth(o) \in Nat
BY WorthOfUnit, WorthOfBuilding

\* What a building is worth depends on its type, progress and queue.
LEMMA SameWorth ==
    ASSUME NEW a, NEW b, ~IsUnit(a), a.type = b.type, a.built = b.built, a.queue = b.queue
    PROVE  Worth(a) = Worth(b)
<1>1. QueueCost(a) = QueueCost(b)
  BY DEF QueueCost
<1>2. ConstructionRefund(a) = ConstructionRefund(b) /\ (IsCompleted(a) <=> IsCompleted(b))
  BY DEF ConstructionRefund, IsCompleted
<1>3. ~IsUnit(b)
  BY DEF IsUnit
<1> QED
  BY <1>1, <1>2, <1>3 DEF Worth, Refund

\* Objects together are worth a number of resources.
LEMMA HoldingsType ==
    ASSUME NEW f, NEW L, IsFiniteSet(L), \A i \in L : Worth(f[i]) \in Nat
    PROVE  Holdings(f, L) \in Nat
<1> DEFINE w == [i \in L |-> Worth(f[i])]
<1>1. \A i \in L : w[i] \in Nat
  OBVIOUS
<1>2. Holdings(f, L) = Total(w, L)
  BY DEF Holdings
<1> HIDE DEF w
<1> QED
  BY <1>1, <1>2, NaturalTotal

\* Objects that are each worth the same are so together.
LEMMA HoldingsSame ==
    ASSUME NEW f, NEW g, NEW L, IsFiniteSet(L), \A i \in L : Worth(f[i]) = Worth(g[i])
    PROVE  Holdings(f, L) = Holdings(g, L)
<1> DEFINE v == [i \in L |-> Worth(f[i])]
           w == [i \in L |-> Worth(g[i])]
<1>1. \A i \in L : v[i] = w[i]
  OBVIOUS
<1>2. Holdings(f, L) = Total(v, L) /\ Holdings(g, L) = Total(w, L)
  BY DEF Holdings
<1> HIDE DEF v, w
<1> QED
  BY <1>1, <1>2, SameTotal

\* One of the objects taken away.
LEMMA HoldingsWithout ==
    ASSUME NEW f, NEW L, IsFiniteSet(L), \A i \in L : Worth(f[i]) \in Nat, NEW x \in L
    PROVE  Holdings(f, L) = Worth(f[x]) + Holdings(f, L \ {x})
<1> DEFINE M == L \ {x}
           v == [i \in L |-> Worth(f[i])]
           w == [i \in M |-> Worth(f[i])]
<1>1. /\ \A i \in L : v[i] \in Int
      /\ \A i \in M : v[i] = w[i]
      /\ v[x] = Worth(f[x])
  OBVIOUS
<1>2. Holdings(f, L) = Total(v, L) /\ Holdings(f, M) = Total(w, M)
  BY DEF Holdings
<1>3. IsFiniteSet(M)
  BY FS_Subset
<1> HIDE DEF v, w
<1>4. Total(v, L) = v[x] + Total(v, M)
  BY <1>1, TotalOfMore
<1> HIDE DEF M
<1>5. Total(v, M) = Total(w, M)
  BY <1>1, <1>3, SameTotal
<1> QED
  BY <1>1, <1>2, <1>4, <1>5 DEF M

\* One more object.
LEMMA HoldingsWith ==
    ASSUME NEW f, NEW L, IsFiniteSet(L), NEW x, x \notin L,
           \A i \in L \cup {x} : Worth(f[i]) \in Nat
    PROVE  Holdings(f, L \cup {x}) = Worth(f[x]) + Holdings(f, L)
<1> DEFINE M == L \cup {x}
<1>1. IsFiniteSet(M) /\ x \in M /\ L = M \ {x} /\ \A i \in M : Worth(f[i]) \in Nat
  BY FS_AddElement
<1> HIDE DEF M
<1>2. Holdings(f, M) = Worth(f[x]) + Holdings(f, M \ {x})
  BY <1>1, HoldingsWithout
<1> QED
  BY <1>1, <1>2 DEF M

\* One of the objects changed.
LEMMA HoldingsChanged ==
    ASSUME NEW f, NEW g, NEW L, IsFiniteSet(L), NEW x \in L,
           \A i \in L : Worth(f[i]) \in Nat /\ Worth(g[i]) \in Nat,
           \A i \in L \ {x} : Worth(g[i]) = Worth(f[i])
    PROVE  Holdings(g, L) + Worth(f[x]) = Holdings(f, L) + Worth(g[x])
<1> DEFINE M == L \ {x}
<1>1. IsFiniteSet(M)
  BY FS_Subset
<1>2. /\ \A i \in M : Worth(f[i]) = Worth(g[i])
      /\ \A i \in M : Worth(f[i]) \in Nat
  OBVIOUS
<1>3. Holdings(f, L) = Worth(f[x]) + Holdings(f, M)
  BY HoldingsWithout
<1>4. Holdings(g, L) = Worth(g[x]) + Holdings(g, M)
  BY HoldingsWithout
<1> HIDE DEF M
<1>5. Holdings(f, M) = Holdings(g, M) /\ Holdings(f, M) \in Nat
  BY <1>1, <1>2, HoldingsSame, HoldingsType
<1>6. Worth(f[x]) \in Nat /\ Worth(g[x]) \in Nat
  OBVIOUS
<1> QED
  BY <1>3, <1>4, <1>5, <1>6

(***************************************************************************)
(* The wealth of a player is what it has in stock and what it holds.       *)
(***************************************************************************)
\* The sum of Wealth.
WorthSum(f, S) ==
    MapThenSumSet(LAMBDA i : IF IsUnit(f[i]) THEN f[i].carried ELSE Refund(f[i], TRUE), S)

\* The sum that Wealth takes over objects is a total.
LEMMA WorthSumIsHoldings ==
    ASSUME NEW f, NEW S, IsFiniteSet(S)
    PROVE  WorthSum(f, S) = Holdings(f, S)
<1> DEFINE w == [i \in S |-> Worth(f[i])]
           H(g, s) == IF s = {} THEN 0
                      ELSE (IF IsUnit(f[Picked(s)]) THEN f[Picked(s)].carried
                                                    ELSE Refund(f[Picked(s)], TRUE))
                           + g[s \ {Picked(s)}]
           sum == CHOOSE g : g = [s \in SUBSET S |-> H(g, s)]
<1>1. ASSUME NEW g PROVE g = [s \in SUBSET S |-> H(g, s)] <=> IsSum(g, w, S)
  <2>1. \A s \in SUBSET S : s # {} => Picked(s) \in S
    BY DEF Picked
  <2>2. \A s \in SUBSET S : H(g, s) = IF s = {} THEN 0 ELSE w[Picked(s)] + g[s \ {Picked(s)}]
    BY <2>1 DEF Worth
  <2> HIDE DEF H, w
  <2> QED
    BY <2>2 DEF IsSum
<1>2. WorthSum(f, S) = sum[S]
  BY DEF WorthSum, MapThenSumSet, MapThenFoldSet, Picked
<1> HIDE DEF H, w
<1>3. \E g : g = [s \in SUBSET S |-> H(g, s)]
  BY <1>1, SumExists
<1>4. sum = [s \in SUBSET S |-> H(sum, s)]
  BY <1>3
<1> HIDE DEF sum
<1>5. IsSum(sum, w, S)
  BY <1>1, <1>4
<1>6. Total(w, S) = sum[S]
  BY <1>5, TotalIsSum
<1> QED
  BY <1>2, <1>6 DEF w, Holdings

\* Wealth, in which the property is stated, in terms of holdings.
LEMMA WealthIsHoldings ==
    MapOK => \A p \in Players : Wealth(p) = resources[p] + Holdings(objects, LiveOf(p))
<1> SUFFICES ASSUME MapOK, NEW p \in Players
             PROVE  Wealth(p) = resources[p] + Holdings(objects, LiveOf(p))
  OBVIOUS
<1>1. Wealth(p) = resources[p] + WorthSum(objects, LiveOf(p))
  BY DEF Wealth, WorthSum
<1> QED
  BY <1>1, LiveFinite, WorthSumIsHoldings

\* The same of the next state.
LEMMA NextWealths ==
    MapOK' => (\A p \in Players : Wealth(p) = resources[p] + Holdings(objects, LiveOf(p)))'
BY WealthIsHoldings, PTL

\* The same of the next state, of one player.
LEMMA NextWealthIsHoldings ==
    ASSUME MapOK', NEW p \in Players
    PROVE  Wealth(p)' = resources'[p] + Holdings(objects', LiveOf(p)')
BY NextWealths

(***************************************************************************)
(* Steps that concern one object.                                          *)
(***************************************************************************)
\* What the steps below start from, for player p.
Owning(p) == MatchInv /\ BooksOK /\ ~TouchesDoomed /\ p \in Players

\* What player p holds in this state and in the next, and no gain of it.
Held(p)     == Holdings(objects, LiveOf(p))
HeldNext(p) == Holdings(objects', LiveOf(p)')

NoGain(p) == resources'[p] + HeldNext(p) <= resources[p] + Held(p)

\* The facts that the steps below use.
LEMMA OwningFacts ==
    ASSUME NEW p, Owning(p)
    PROVE  /\ MatchInv /\ BooksOK /\ MapInv /\ MapOK /\ p \in Players
           /\ resources \in [Players -> Nat] /\ resources[p] \in Nat
           /\ IsFiniteSet(LiveOf(p)) /\ LiveOf(p) \in SUBSET DOMAIN objects
           /\ \A i \in DOMAIN objects : /\ objects[i] \in Units \cup Buildings
                                        /\ Worth(objects[i]) \in Nat
           /\ Held(p) \in Nat
<1>1. MatchInv /\ BooksOK /\ MapInv /\ MapOK /\ p \in Players
  BY DEF Owning, MatchInv, MapInv
<1>2. resources \in [Players -> Nat] /\ resources[p] \in Nat
  BY <1>1 DEF BooksOK
<1>3. IsFiniteSet(LiveOf(p)) /\ LiveOf(p) \in SUBSET DOMAIN objects
  BY <1>1, LiveFinite
<1>4. \A i \in DOMAIN objects : objects[i] \in Units \cup Buildings
  BY <1>1 DEF MapOK
<1>5. \A i \in DOMAIN objects : Worth(objects[i]) \in Nat
  BY <1>4, WorthType
<1>6. Held(p) \in Nat
  BY <1>3, <1>5, HoldingsType DEF Held
<1> QED
  BY <1>1, <1>2, <1>3, <1>4, <1>5, <1>6

\* One object has changed.
LEMMA ObjectHeld ==
    ASSUME NEW p, Owning(p), NEW x \in DOMAIN objects, NEW v \in Units \cup Buildings,
           objects' = [objects EXCEPT ![x] = v], v.owner = objects[x].owner,
           objectDeleteList' = objectDeleteList
    PROVE  /\ HeldNext(p) \in Nat
           /\ x \notin LiveOf(p) => HeldNext(p) = Held(p)
           /\ x \in LiveOf(p) => HeldNext(p) + Worth(objects[x]) = Held(p) + Worth(v)
           /\ x \in objectDeleteList => v = objects[x]
           /\ x \in LiveOf(p) <=> x \notin objectDeleteList /\ v.owner = p
<1> DEFINE f == objects
           g == objects'
           L == LiveOf(p)
<1>1. /\ IsFiniteSet(L) /\ L \in SUBSET DOMAIN objects
      /\ \A i \in DOMAIN objects : Worth(f[i]) \in Nat
  BY OwningFacts
<1>2. g[x] = v /\ f[x] = objects[x] /\ \A i \in DOMAIN objects \ {x} : g[i] = f[i]
  OBVIOUS
<1>3. Worth(v) \in Nat
  BY WorthType
<1>4. LiveOf(p)' = L
  BY LiveKept
<1>5. x \in L <=> x \notin objectDeleteList /\ v.owner = p
  BY DEF LiveOf, Live
<1>6. x \in objectDeleteList => v = objects[x]
  BY DEF Owning, TouchesDoomed
<1>7. HeldNext(p) = Holdings(g, L) /\ Held(p) = Holdings(f, L)
  BY <1>4 DEF HeldNext, Held
<1> HIDE DEF f, g, L
<1>8. \A i \in L : Worth(f[i]) \in Nat /\ Worth(g[i]) \in Nat
  BY <1>1, <1>2, <1>3
<1>9. Holdings(g, L) \in Nat
  BY <1>1, <1>8, HoldingsType
<1>10. ASSUME x \notin L PROVE Holdings(g, L) = Holdings(f, L)
  <2>1. \A i \in L : Worth(f[i]) = Worth(g[i])
    BY <1>1, <1>2, <1>10
  <2> QED
    BY <1>1, <2>1, HoldingsSame
<1>11. ASSUME x \in L PROVE Holdings(g, L) + Worth(f[x]) = Holdings(f, L) + Worth(g[x])
  <2>1. \A i \in L \ {x} : Worth(g[i]) = Worth(f[i])
    BY <1>1, <1>2
  <2> QED
    BY <1>1, <1>8, <1>11, <2>1, HoldingsChanged
<1> QED
  BY <1>2, <1>5, <1>6, <1>7, <1>9, <1>10, <1>11 DEF L

\* Nothing that is held has changed in worth.
LEMMA NothingGained ==
    ASSUME NEW p, Owning(p), LiveOf(p)' = LiveOf(p),
           \A i \in LiveOf(p) : Worth(objects'[i]) = Worth(objects[i])
    PROVE  HeldNext(p) = Held(p) /\ (resources' = resources => NoGain(p))
<1> DEFINE f == objects
           g == objects'
           L == LiveOf(p)
<1>1. IsFiniteSet(L) /\ \A i \in L : Worth(f[i]) = Worth(g[i])
  BY OwningFacts
<1>2. HeldNext(p) = Holdings(g, L) /\ Held(p) = Holdings(f, L)
  BY DEF HeldNext, Held
<1> HIDE DEF f, g, L
<1>3. HeldNext(p) = Held(p)
  BY <1>1, <1>2, HoldingsSame
<1>4. resources[p] \in Nat /\ Held(p) \in Nat
  BY OwningFacts
<1> QED
  BY <1>3, <1>4 DEF NoGain

\* MoveToMapCoord.
LEMMA NoGainMove ==
    ASSUME NEW p, Owning(p), NEW q, NEW u \in DOMAIN objects, HandleMoveToMapCoord(q, u)
    PROVE  NoGain(p)
<1> DEFINE v == [objects[u] EXCEPT !.moving = TRUE, !.target = NoObject, !.manual = NoObject]
<1>1. /\ objects' = [objects EXCEPT ![u] = v] /\ objectDeleteList' = objectDeleteList
      /\ resources' = resources
  BY DEF HandleMoveToMapCoord
<1>2. objects[u] \in Units
  BY OwningFacts, Kinds DEF HandleMoveToMapCoord, OwnUnit
<1>3. v \in Units /\ v.owner = objects[u].owner /\ v.carried = objects[u].carried
  BY <1>2 DEF Units
<1> HIDE DEF v
<1>4. Worth(v) = Worth(objects[u]) /\ Worth(v) \in Nat
  BY <1>2, <1>3, WorthOfUnit
<1>5. HeldNext(p) = Held(p)
  <2>1. /\ HeldNext(p) \in Nat
        /\ u \notin LiveOf(p) => HeldNext(p) = Held(p)
        /\ u \in LiveOf(p) => HeldNext(p) + Worth(objects[u]) = Held(p) + Worth(v)
    <3>1. v \in Units \cup Buildings /\ v.owner = objects[u].owner
      BY <1>3
    <3>2. objects' = [objects EXCEPT ![u] = v] /\ objectDeleteList' = objectDeleteList
      BY <1>1
    <3> QED
      BY <3>1, <3>2, ObjectHeld
  <2>2. Held(p) \in Nat
    BY OwningFacts
  <2> QED
    BY <1>4, <2>1, <2>2
<1> QED
  BY <1>1, <1>5, OwningFacts DEF NoGain

\* SetTarget: a villager keeps what it carries when it changes its trade.
LEMMA NoGainSetTarget ==
    ASSUME NEW p, Owning(p), NEW q, NEW u \in DOMAIN objects, NEW t \in DOMAIN objects,
           HandleSetTarget(q, u, t)
    PROVE  NoGain(p)
<1> DEFINE v == SetTarget(objects[u], t, TRUE)
<1>1. /\ objects' = [objects EXCEPT ![u] = v] /\ resources' = resources
      /\ objectDeleteList' = objectDeleteList /\ IsUnit(objects[u])
  BY DEF HandleSetTarget, OwnUnit
<1>2. objects[u] \in Units
  BY <1>1, OwningFacts, Kinds
<1>3. Fits(u, v) /\ v.carried = objects[u].carried
  BY <1>1, OwningFacts, UnitFits, SetTargetFits
<1> HIDE DEF v
<1>4. v \in Units /\ v.owner = objects[u].owner
  BY <1>3 DEF Fits
<1>5. Worth(v) = Worth(objects[u]) /\ Worth(v) \in Nat
  BY <1>2, <1>3, <1>4, WorthOfUnit
<1>6. HeldNext(p) = Held(p)
  <2>1. /\ HeldNext(p) \in Nat
        /\ u \notin LiveOf(p) => HeldNext(p) = Held(p)
        /\ u \in LiveOf(p) => HeldNext(p) + Worth(objects[u]) = Held(p) + Worth(v)
    BY <1>1, <1>4, ObjectHeld
  <2>2. Held(p) \in Nat
    BY OwningFacts
  <2> QED
    BY <1>5, <2>1, <2>2
<1> QED
  BY <1>1, <1>6, OwningFacts DEF NoGain

\* A building whose queue, production or construction has changed.
LEMMA NoGainBuilding ==
    ASSUME NEW p, Owning(p), NEW b \in DOMAIN objects, objects[b] \in Buildings,
           NEW b2 \in Buildings, b2.owner = objects[b].owner, b2.owner \in Players,
           objects' = [objects EXCEPT ![b] = b2], objectDeleteList' = objectDeleteList,
           NEW d \in Int, resources' = [resources EXCEPT ![b2.owner] = @ + d],
           Worth(b2) + d <= Worth(objects[b]), b2 = objects[b] => d = 0
    PROVE  NoGain(p)
<1>1. Worth(b2) \in Nat /\ Worth(objects[b]) \in Nat
  BY WorthOfBuilding
<1>2. /\ HeldNext(p) \in Nat
      /\ b \notin LiveOf(p) => HeldNext(p) = Held(p)
      /\ b \in LiveOf(p) => HeldNext(p) + Worth(objects[b]) = Held(p) + Worth(b2)
      /\ b \in objectDeleteList => b2 = objects[b]
      /\ b \in LiveOf(p) <=> b \notin objectDeleteList /\ b2.owner = p
  BY ObjectHeld
<1>3. /\ resources'[p] = IF b2.owner = p THEN resources[p] + d ELSE resources[p]
      /\ resources[p] \in Nat /\ Held(p) \in Nat
  BY OwningFacts
<1>4. CASE b \in LiveOf(p)
  BY <1>1, <1>2, <1>3, <1>4 DEF NoGain
<1>5. CASE b \notin LiveOf(p)
  <2>1. resources'[p] = resources[p]
    BY <1>2, <1>3, <1>5
  <2> QED
    BY <1>2, <1>3, <1>5, <2>1 DEF NoGain
<1> QED
  BY <1>4, <1>5

\* ProduceUnit: the price goes from the stock to the queue.
LEMMA NoGainProduceUnit ==
    ASSUME NEW p, Owning(p), NEW q \in Players, NEW b \in DOMAIN objects,
           NEW t \in {"Villager", "Militia"}, HandleProduceUnit(q, b, t)
    PROVE  NoGain(p)
<1> DEFINE o     == objects[b]
           queue == Append(o.queue, t)
           b2    == [o EXCEPT !.queue = queue]
           d     == 0 - Cost[t]
<1>1. /\ objects' = [objects EXCEPT ![b] = b2] /\ objectDeleteList' = objectDeleteList
      /\ IsBuilding(o) /\ o.owner = q
      /\ resources' = [resources EXCEPT ![q] = @ - Cost[t]]
  BY DEF HandleProduceUnit, OwnBuilding
<1>2. o \in Buildings /\ o.queue \in Seq(UnitTypes) /\ t \in UnitTypes
  BY <1>1, OwningFacts, Kinds DEF Buildings, UnitTypes, VillagerTypes
<1>3. queue \in Seq(UnitTypes) /\ Shortened(o.queue, queue, Len(queue)) /\ queue[Len(queue)] = t
  BY <1>2, AppendShortened
<1> HIDE DEF queue
<1>4. /\ b2 \in Buildings /\ b2.owner = q /\ b2.type = o.type /\ b2.built = o.built
      /\ b2.queue = queue
  BY <1>1, <1>2, <1>3 DEF Buildings
<1> HIDE DEF b2
<1>5. QueueCost(b2) = QueueCost(o) + Cost[t] /\ QueueCost(o) \in Nat /\ Cost[t] \in Nat
  BY <1>2, <1>3, <1>4, QueueCostShortened
<1>6. ConstructionRefund(b2) = ConstructionRefund(o) /\ (IsCompleted(b2) <=> IsCompleted(o))
  BY <1>4 DEF ConstructionRefund, IsCompleted
<1>7. Worth(b2) = Worth(o) + Cost[t] /\ Worth(o) \in Nat
  <2> DEFINE x == IF IsCompleted(o) THEN 0 ELSE ConstructionRefund(o)
  <2>1. Worth(o) = QueueCost(o) + x /\ ConstructionRefund(o) \in Nat /\ Worth(o) \in Nat
    BY <1>2, WorthOfBuilding
  <2>2. Worth(b2) = QueueCost(b2) + x
    BY <1>4, <1>6, WorthOfBuilding
  <2>3. x \in Nat
    BY <2>1
  <2> HIDE DEF x
  <2> QED
    BY <1>5, <2>1, <2>2, <2>3
<1>8. d \in Int /\ Worth(b2) + d <= Worth(o)
  BY <1>5, <1>7
<1>9. resources' = [resources EXCEPT ![q] = @ + d]
  <2>1. resources[q] \in Nat /\ resources \in [Players -> Nat]
    BY OwningFacts DEF BooksOK
  <2>2. resources[q] + d = resources[q] - Cost[t]
    BY <1>5, <2>1
  <2> QED
    BY <1>1, <2>2
<1>10. b2 = o => d = 0
  BY <1>5, <1>7
<1> HIDE DEF d
<1> QED
  BY <1>1, <1>2, <1>4, <1>8, <1>9, <1>10, NoGainBuilding

\* DequeueProductionQueueItem: the price goes back.
LEMMA NoGainDequeue ==
    ASSUME NEW p, Owning(p), NEW q \in Players, NEW b \in DOMAIN objects, NEW k \in 0 .. MaxQueue - 1,
           HandleDequeueProductionQueueItem(q, b, k)
    PROVE  NoGain(p)
<1> DEFINE o     == objects[b]
           index == Len(o.queue) - k
           queue == RemoveAt(o.queue, index)
           production == IF index = 1 THEN 0 ELSE o.production
           b2    == Dequeued(o, index)
           d     == Cost[o.queue[index]]
<1>1. /\ objects' = [objects EXCEPT ![b] = b2] /\ objectDeleteList' = objectDeleteList
      /\ IsBuilding(o) /\ o.owner = q /\ k < Len(o.queue)
      /\ resources' = [resources EXCEPT ![q] = @ + d]
  BY DEF HandleDequeueProductionQueueItem, OwnBuilding
<1>2. o \in Buildings /\ o.queue \in Seq(UnitTypes)
  BY <1>1, OwningFacts, Kinds DEF Buildings
<1>3. index \in 1 .. Len(o.queue)
  BY <1>1, <1>2, Sizes
<1> HIDE DEF index
<1>4. queue \in Seq(UnitTypes) /\ Shortened(queue, o.queue, index)
  BY <1>2, <1>3, RemoveAtShortened
<1>5. b2 = [o EXCEPT !.queue = queue, !.production = production]
  BY DEF Dequeued
<1>6. production \in 0 .. ProductionSteps
  BY <1>2, Sizes DEF Buildings
<1> HIDE DEF queue, production, b2
<1>7. /\ b2 \in Buildings /\ b2.owner = q /\ b2.type = o.type /\ b2.built = o.built
      /\ b2.queue = queue
  BY <1>1, <1>2, <1>4, <1>5, <1>6 DEF Buildings
<1>8. QueueCost(o) = QueueCost(b2) + d /\ QueueCost(b2) \in Nat /\ d \in Nat
  BY <1>2, <1>4, <1>7, QueueCostShortened
<1>9. ConstructionRefund(b2) = ConstructionRefund(o) /\ (IsCompleted(b2) <=> IsCompleted(o))
  BY <1>7 DEF ConstructionRefund, IsCompleted
<1> HIDE DEF d
<1>10. Worth(o) = Worth(b2) + d /\ Worth(b2) \in Nat
  <2> DEFINE x == IF IsCompleted(o) THEN 0 ELSE ConstructionRefund(o)
  <2>1. Worth(o) = QueueCost(o) + x /\ ConstructionRefund(o) \in Nat /\ QueueCost(o) \in Nat
    BY <1>2, WorthOfBuilding
  <2>2. Worth(b2) = QueueCost(b2) + x /\ Worth(b2) \in Nat
    BY <1>7, <1>9, WorthOfBuilding
  <2>3. x \in Nat
    BY <2>1
  <2> HIDE DEF x
  <2> QED
    BY <1>8, <2>1, <2>2, <2>3
<1>11. d \in Int /\ Worth(b2) + d <= Worth(o) /\ (b2 = o => d = 0)
  BY <1>8, <1>10
<1> QED
  BY <1>1, <1>2, <1>7, <1>11, NoGainBuilding

\* A production that starts or continues.
LEMMA NoGainProduction ==
    ASSUME NEW p, Owning(p), NEW b, StartProduction(b) \/ ContinueProduction(b)
    PROVE  NoGain(p)
<1> DEFINE o == objects[b]
<1>1. b \in DOMAIN objects /\ IsBuilding(o) /\ o.queue # <<>>
  BY OwningFacts DEF StartProduction, ContinueProduction, VisitBuilding, Visit, MapOK
<1>2. o \in Buildings /\ o.owner \in Players
  BY <1>1, OwningFacts, Producer
<1>3. /\ \E n \in 0 .. ProductionSteps : objects' = [objects EXCEPT ![b].production = n]
      /\ objectDeleteList' = objectDeleteList /\ resources' = resources
  <2>1. CASE StartProduction(b)
    <3>1. 1 \in 0 .. ProductionSteps
      BY Sizes
    <3> QED
      BY <2>1, <3>1 DEF StartProduction
  <2>2. CASE ContinueProduction(b)
    <3>1. o.production + 1 \in 0 .. ProductionSteps
      BY <2>2, Sizes DEF ContinueProduction
    <3> QED
      BY <2>2, <3>1 DEF ContinueProduction
  <2> QED
    BY <2>1, <2>2
<1>4. PICK n \in 0 .. ProductionSteps : objects' = [objects EXCEPT ![b].production = n]
  BY <1>3
<1> DEFINE b2 == [o EXCEPT !.production = n]
<1>5. /\ b2 \in Buildings /\ b2.owner = o.owner /\ b2.type = o.type /\ b2.built = o.built
      /\ b2.queue = o.queue
  BY <1>2, <1>4 DEF Buildings
<1>6. objects' = [objects EXCEPT ![b] = b2]
  BY <1>4
<1> HIDE DEF b2
<1>7. Worth(b2) = Worth(o) /\ Worth(o) \in Nat
  BY <1>2, <1>5, Kinds, SameWorth, WorthOfBuilding
<1>8. LiveOf(p)' = LiveOf(p)
  BY <1>1, <1>3, <1>5, <1>6, LiveKept
<1>9. \A i \in LiveOf(p) : Worth(objects'[i]) = Worth(objects[i])
  BY <1>1, <1>6, <1>7, OwningFacts
<1> QED
  BY <1>3, <1>8, <1>9, NothingGained

\* A unit that was visited, not in the middle of an attack.
LEMMA UnitHeld ==
    ASSUME NEW p, Owning(p), NEW u, NEW v, NEW n, Becomes(u, v, n),
           objectDeleteList' = objectDeleteList
    PROVE  /\ u \in DOMAIN objects /\ IsUnit(objects[u]) /\ objects[u] \in Units
           /\ n \in Nat /\ objects[u].carried \in Nat /\ HeldNext(p) \in Nat
           /\ u \notin LiveOf(p) => HeldNext(p) = Held(p)
           /\ u \in LiveOf(p) => HeldNext(p) + objects[u].carried = Held(p) + n
           /\ u \in objectDeleteList => n = objects[u].carried
           /\ u \in LiveOf(p) <=> u \notin objectDeleteList /\ objects[u].owner = p
<1>1. UnitBecomes(u, v) /\ Fits(u, v) /\ v.carried = n
  BY DEF Becomes
<1>2. u \in DOMAIN objects /\ IsUnit(objects[u])
  BY <1>1, OwningFacts, Visited
<1>3. objects[u] \in Units /\ v \in Units /\ v.owner = objects[u].owner
  BY <1>1, <1>2, OwningFacts, Kinds DEF Fits
<1>4. objects' = [objects EXCEPT ![u] = v]
  BY <1>1 DEF UnitBecomes
<1>5. /\ Worth(objects[u]) = objects[u].carried /\ Worth(v) = n
      /\ Worth(objects[u]) \in Nat /\ Worth(v) \in Nat
  BY <1>1, <1>3, WorthOfUnit
<1>6. /\ HeldNext(p) \in Nat
      /\ u \notin LiveOf(p) => HeldNext(p) = Held(p)
      /\ u \in LiveOf(p) => HeldNext(p) + Worth(objects[u]) = Held(p) + Worth(v)
      /\ u \in objectDeleteList => v = objects[u]
      /\ u \in LiveOf(p) <=> u \notin objectDeleteList /\ v.owner = p
  BY <1>2, <1>3, <1>4, ObjectHeld
<1> QED
  BY <1>1, <1>2, <1>3, <1>5, <1>6

\* A unit that walks, begins an attack or is blocked.
LEMMA NoGainCarrying ==
    ASSUME NEW p, Owning(p), NEW u, Walk(u) \/ BeginAttack(u) \/ ConstructionBlocked(u)
    PROVE  NoGain(p)
<1>1. PICK v : Becomes(u, v, objects[u].carried)
  BY OwningFacts, WalkBecomes, BeginAttackBecomes, BlockedBecomes
<1>2. objectDeleteList' = objectDeleteList /\ resources' = resources
  BY DEF Walk, BeginAttack, ConstructionBlocked
<1>3. HeldNext(p) = Held(p)
  BY <1>1, <1>2, UnitHeld, OwningFacts
<1> QED
  BY <1>2, <1>3, OwningFacts DEF NoGain

\* What a villager gathers is the only gain, one at a time.
LEMMA GainGather ==
    ASSUME NEW p, Owning(p), NEW u, Gather(u)
    PROVE  \/ NoGain(p)
           \/ /\ resources'[p] + HeldNext(p) = resources[p] + Held(p) + 1
              /\ u \in LiveOf(p) /\ IsUnit(objects[u])
<1>1. PICK v, n : Becomes(u, v, n) /\ n \in {objects[u].carried, objects[u].carried + 1}
  BY OwningFacts, GatherBecomes
<1>2. objectDeleteList' = objectDeleteList /\ resources' = resources
  BY DEF Gather
<1>3. /\ IsUnit(objects[u]) /\ n \in Nat /\ objects[u].carried \in Nat /\ HeldNext(p) \in Nat
      /\ u \notin LiveOf(p) => HeldNext(p) = Held(p)
      /\ u \in LiveOf(p) => HeldNext(p) + objects[u].carried = Held(p) + n
  BY <1>1, <1>2, UnitHeld
<1>4. resources[p] \in Nat /\ Held(p) \in Nat
  BY OwningFacts
<1>5. CASE u \notin LiveOf(p) \/ n = objects[u].carried
  <2>1. HeldNext(p) = Held(p)
    BY <1>3, <1>4, <1>5
  <2> QED
    BY <1>2, <1>4, <2>1 DEF NoGain
<1>6. CASE u \in LiveOf(p) /\ n = objects[u].carried + 1
  <2>1. HeldNext(p) = Held(p) + 1
    BY <1>3, <1>4, <1>6
  <2> QED
    BY <1>2, <1>3, <1>4, <1>6, <2>1
<1> QED
  BY <1>1, <1>5, <1>6

\* A drop-off: what was carried is in stock.
LEMMA NoGainDropOff ==
    ASSUME NEW p, Owning(p), NEW u, DropOff(u)
    PROVE  NoGain(p)
<1>1. /\ Ready(u).owner = objects[u].owner /\ Ready(u).carried = objects[u].carried
      /\ \E v : Becomes(u, v, 0)
  BY OwningFacts, DropOffBecomes
<1>2. PICK v : Becomes(u, v, 0)
  BY <1>1
<1>3. /\ objectDeleteList' = objectDeleteList
      /\ resources' = [resources EXCEPT ![Ready(u).owner] = @ + Ready(u).carried]
  BY DEF DropOff
<1>4. /\ objects[u].carried \in Nat /\ HeldNext(p) \in Nat /\ objects[u] \in Units
      /\ u \notin LiveOf(p) => HeldNext(p) = Held(p)
      /\ u \in LiveOf(p) => HeldNext(p) + objects[u].carried = Held(p) + 0
      /\ u \in objectDeleteList => 0 = objects[u].carried
      /\ u \in LiveOf(p) <=> u \notin objectDeleteList /\ objects[u].owner = p
  BY <1>2, <1>3, UnitHeld
<1>5. /\ resources'[p] = IF objects[u].owner = p THEN resources[p] + objects[u].carried
                                                 ELSE resources[p]
      /\ resources[p] \in Nat /\ Held(p) \in Nat
  BY <1>1, <1>3, OwningFacts
<1> QED
  BY <1>4, <1>5 DEF NoGain

\* A deletion returns no more than the object was worth.
LEMMA RefundWorth ==
    ASSUME NEW o \in Units \cup Buildings, NEW manually \in BOOLEAN
    PROVE  Refund(o, manually) \in Nat /\ Refund(o, manually) <= Worth(o)
<1>1. CASE o \in Units
  <2>1. IsUnit(o) /\ Worth(o) \in Nat
    BY <1>1, WorthType DEF IsUnit, Units
  <2> QED
    BY <2>1 DEF Refund
<1>2. CASE o \in Buildings
  <2>1. ~IsUnit(o)
    BY <1>2, Kinds
  <2> DEFINE x == IF IsCompleted(o) THEN 0 ELSE ConstructionRefund(o)
             y == IF manually /\ ~IsCompleted(o) THEN ConstructionRefund(o) ELSE 0
  <2>2. Worth(o) = QueueCost(o) + x /\ QueueCost(o) \in Nat /\ ConstructionRefund(o) \in Nat
    BY <1>2, WorthOfBuilding
  <2>3. Refund(o, manually) = QueueCost(o) + y
    BY <2>1 DEF Refund
  <2>4. x \in Nat /\ y \in Nat /\ y <= x
    BY <2>2
  <2> HIDE DEF x, y
  <2> QED
    BY <2>2, <2>3, <2>4
<1> QED
  BY <1>1, <1>2

\* The step may kill an object, and changes the worth of none.
SameObjects ==
    /\ DOMAIN objects' = DOMAIN objects
    /\ \A i \in DOMAIN objects : /\ objects'[i].owner = objects[i].owner
                                 /\ Worth(objects'[i]) = Worth(objects[i])

\* A step that changes no worth.
LEMMA NoGainIdle ==
    ASSUME NEW p, Owning(p), SameObjects, objectDeleteList' = objectDeleteList,
           resources' = resources
    PROVE  NoGain(p)
<1>1. LiveOf(p)' = LiveOf(p)
  BY LiveKept DEF SameObjects
<1>2. \A i \in LiveOf(p) : Worth(objects'[i]) = Worth(objects[i])
  BY OwningFacts DEF SameObjects
<1> QED
  BY <1>1, <1>2, NothingGained

\* An object dies: what is returned was counted before, and is returned once.
LEMMA NoGainDeletion ==
    ASSUME NEW p, Owning(p), SameObjects, NEW id \in DOMAIN objects,
           objects[id].owner \in Players, NEW manually \in BOOLEAN, DeleteObject(id, manually)
    PROVE  NoGain(p)
<1> DEFINE o == objects[id]
           f == objects
           g == objects'
           L == LiveOf(p)
           r == Refund(o, manually)
<1>1. /\ resources \in [Players -> Nat] /\ resources[p] \in Nat /\ p \in Players
      /\ IsFiniteSet(L) /\ L \in SUBSET DOMAIN objects /\ Held(p) \in Nat
      /\ \A i \in DOMAIN objects : f[i] \in Units \cup Buildings /\ Worth(f[i]) \in Nat
  BY OwningFacts
<1>2. objectDeleteList' = objectDeleteList \cup {id}
  BY DEF DeleteObject
<1>3. CASE id \in objectDeleteList
  <2>1. resources' = resources /\ objectDeleteList' = objectDeleteList
    BY <1>2, <1>3 DEF DeleteObject
  <2> QED
    BY <2>1, NoGainIdle
<1>4. CASE id \notin objectDeleteList
  <2>1. LiveOf(p)' = L \ {id}
    BY <1>2 DEF LiveOf, Live, SameObjects
  <2>2. resources' = [resources EXCEPT ![o.owner] = @ + r]
    BY <1>4 DEF DeleteObject
  <2>3. r \in Nat /\ r <= Worth(f[id])
    BY <1>1, RefundWorth
  <2>4. CASE o.owner # p
    <3>1. L \ {id} = L
      BY <2>4 DEF LiveOf
    <3>2. \A i \in L : Worth(objects'[i]) = Worth(objects[i])
      BY <1>1 DEF SameObjects
    <3>3. HeldNext(p) = Held(p)
      BY <2>1, <3>1, <3>2, NothingGained
    <3>4. resources'[p] = resources[p]
      BY <1>1, <2>2, <2>4
    <3> QED
      BY <1>1, <3>3, <3>4 DEF NoGain
  <2>5. CASE o.owner = p
    <3> DEFINE M == L \ {id}
    <3>1. id \in L
      BY <1>4, <2>5 DEF LiveOf, Live
    <3>2. resources'[p] = resources[p] + r
      BY <1>1, <2>2, <2>5
    <3>3. HeldNext(p) = Holdings(g, M) /\ Held(p) = Holdings(f, L)
      BY <2>1 DEF HeldNext, Held
    <3>4. IsFiniteSet(M) /\ \A i \in M : Worth(f[i]) = Worth(g[i]) /\ Worth(f[i]) \in Nat
      BY <1>1, FS_Subset DEF SameObjects
    <3> HIDE DEF f, g, L, r
    <3>5. Holdings(f, L) = Worth(f[id]) + Holdings(f, M)
      BY <1>1, <3>1, HoldingsWithout
    <3> HIDE DEF M
    <3>6. Holdings(g, M) = Holdings(f, M) /\ Holdings(f, M) \in Nat
      BY <3>4, HoldingsSame, HoldingsType
    <3>7. Worth(f[id]) \in Nat
      BY <1>1, <3>1
    <3> QED
      BY <1>1, <2>3, <3>2, <3>3, <3>5, <3>6, <3>7 DEF NoGain
  <2> QED
    BY <2>4, <2>5
<1> QED
  BY <1>3, <1>4

\* DeleteObject.
LEMMA NoGainDelete ==
    ASSUME NEW p, Owning(p), NEW q \in Players, NEW id \in DOMAIN objects, HandleDeleteObject(q, id)
    PROVE  NoGain(p)
<1>1. objects' = objects /\ DeleteObject(id, TRUE) /\ objects[id].owner \in Players
  BY DEF HandleDeleteObject
<1>2. SameObjects
  BY <1>1 DEF SameObjects
<1> QED
  BY <1>1, <1>2, NoGainDeletion

\* An attack, whose victim may die: its queue is returned.
LEMMA NoGainContinueAttack ==
    ASSUME NEW p, Owning(p), NEW u, ContinueAttack(u)
    PROVE  NoGain(p)
<1> DEFINE t     == objects[u].target
           hits  == objects[u].clock + 1 = DamageTime /\ t \in DOMAIN objects
           swung(i) == IF i = u THEN [objects[u] EXCEPT !.clock = @ + 1] ELSE objects[i]
           hit(i)   == [swung(i) EXCEPT !.hp = IF @ > 1 THEN @ - 1 ELSE @]
<1>1. MapInv /\ MapOK /\ u \in DOMAIN objects /\ IsUnit(objects[u])
  BY OwningFacts DEF MapOK, ContinueAttack, VisitUnit, Visit
<1>2. /\ DOMAIN objects' = DOMAIN objects
      /\ \A i \in DOMAIN objects : objects'[i] = IF hits /\ i = t THEN hit(i) ELSE swung(i)
  BY <1>1 DEF ContinueAttack
<1>3. ASSUME NEW i \in DOMAIN objects
      PROVE  /\ swung(i).owner = objects[i].owner /\ hit(i).owner = objects[i].owner
             /\ Worth(swung(i)) = Worth(objects[i]) /\ Worth(hit(i)) = Worth(objects[i])
  <2>1. objects[i] \in Units \cup Buildings
    BY <1>1 DEF MapOK
  <2>2. CASE objects[i] \in Units
    <3>1. /\ swung(i).owner = objects[i].owner /\ swung(i).type = objects[i].type
          /\ hit(i).owner = objects[i].owner /\ hit(i).type = objects[i].type
          /\ swung(i).carried = objects[i].carried /\ hit(i).carried = objects[i].carried
          /\ IsUnit(objects[i])
      BY <2>2 DEF Units, IsUnit
    <3> HIDE DEF swung, hit
    <3> QED
      BY <3>1 DEF Worth, IsUnit
  <2>3. CASE objects[i] \in Buildings
    <3>1. swung(i) = objects[i] /\ ~IsUnit(objects[i])
      BY <1>1, <2>3, Kinds
    <3>2. /\ hit(i).owner = objects[i].owner /\ hit(i).type = objects[i].type
          /\ hit(i).built = objects[i].built /\ hit(i).queue = objects[i].queue
      BY <2>3, <3>1 DEF Buildings
    <3> HIDE DEF swung, hit
    <3>3. Worth(hit(i)) = Worth(objects[i])
      BY <3>1, <3>2, SameWorth
    <3> QED
      BY <3>1, <3>2, <3>3
  <2> QED
    BY <2>1, <2>2, <2>3
<1> HIDE DEF swung, hit
<1>4. SameObjects
  BY <1>2, <1>3 DEF SameObjects
<1>5. CASE hits /\ objects[t].hp = 1
  <2>1. DeleteObject(t, FALSE)
    BY <1>5 DEF ContinueAttack
  <2>2. objects[t].owner \in Players
    BY <1>1, <1>5 DEF MapInv, MapOK, AttacksPlayers, ContinueAttack, Swings, VisitUnit, Visit
  <2> QED
    BY <1>4, <1>5, <2>1, <2>2, NoGainDeletion
<1>6. CASE ~(hits /\ objects[t].hp = 1)
  <2>1. objectDeleteList' = objectDeleteList /\ resources' = resources
    BY <1>6 DEF ContinueAttack
  <2> QED
    BY <1>4, <2>1, NoGainIdle
<1> QED
  BY <1>5, <1>6

\* One object has lost some of its worth.
LEMMA NoGainLess ==
    ASSUME NEW p, Owning(p), NEW x \in DOMAIN objects, DOMAIN objects' = DOMAIN objects,
           \A i \in DOMAIN objects : objects'[i].owner = objects[i].owner,
           \A i \in DOMAIN objects \ {x} : Worth(objects'[i]) = Worth(objects[i]),
           Worth(objects'[x]) \in Nat, Worth(objects'[x]) <= Worth(objects[x]),
           objectDeleteList' = objectDeleteList, resources' = resources
    PROVE  NoGain(p)
<1> DEFINE f == objects
           g == objects'
           L == LiveOf(p)
<1>1. /\ IsFiniteSet(L) /\ L \in SUBSET DOMAIN objects /\ Held(p) \in Nat /\ resources[p] \in Nat
      /\ \A i \in DOMAIN objects : Worth(f[i]) \in Nat
  BY OwningFacts
<1>2. LiveOf(p)' = L
  BY LiveKept
<1>3. CASE x \notin L
  <2>1. \A i \in L : Worth(objects'[i]) = Worth(objects[i])
    BY <1>1, <1>3
  <2> QED
    BY <1>2, <2>1, NothingGained
<1>4. CASE x \in L
  <2>1. HeldNext(p) = Holdings(g, L) /\ Held(p) = Holdings(f, L)
    BY <1>2 DEF HeldNext, Held
  <2>2. \A i \in L \ {x} : Worth(g[i]) = Worth(f[i])
    BY <1>1
  <2>3. \A i \in L : Worth(f[i]) \in Nat /\ Worth(g[i]) \in Nat
    BY <1>1
  <2>4. Worth(f[x]) \in Nat /\ Worth(g[x]) \in Nat /\ Worth(g[x]) <= Worth(f[x])
    BY <1>1
  <2>5. resources'[p] = resources[p] /\ resources[p] \in Nat
    BY <1>1
  <2> HIDE DEF f, g, L
  <2>6. Holdings(g, L) + Worth(f[x]) = Holdings(f, L) + Worth(g[x])
    BY <1>1, <1>4, <2>2, <2>3, HoldingsChanged
  <2>7. Holdings(g, L) \in Nat /\ Holdings(f, L) \in Nat
    BY <1>1, <2>3, HoldingsType
  <2> QED
    BY <2>1, <2>4, <2>5, <2>6, <2>7 DEF NoGain
<1> QED
  BY <1>3, <1>4

\* A construction: less is returned for a building the more is built of it.
LEMMA NoGainConstruct ==
    ASSUME NEW p, Owning(p), NEW u, Construct(u)
    PROVE  NoGain(p)
<1> DEFINE unit   == Ready(u)
           v      == Acts(unit)
           id     == unit.target
           b      == objects[id]
           built2 == IF b.built < BuildSteps THEN b.built + 1 ELSE BuildSteps
           hp2    == IF b.hp < BuildSteps THEN b.hp + 1 ELSE BuildSteps
           b2     == [b EXCEPT !.built = built2, !.hp = hp2]
<1>1. /\ MapInv /\ MapOK /\ u \in DOMAIN objects /\ IsUnit(objects[u])
      /\ \A i \in DOMAIN objects : objects[i] \in Units \cup Buildings
  BY OwningFacts DEF MapOK, Construct, VisitUnit, Visit
<1>2. Fits(u, unit) /\ unit.carried = objects[u].carried
  BY <1>1, ReadyFits
<1>3. id \in DOMAIN objects /\ Interaction(unit, b) = "Construct"
  BY <1>1, <1>2, ReadyTarget DEF Construct, Reaches
<1>4. IsBuilding(b) /\ ~IsCompleted(b)
  BY <1>3 DEF Interaction
<1>5. b \in Buildings /\ id # u /\ objects[u] \in Units
  BY <1>1, <1>3, <1>4, Kinds
<1>6. unit \in Units /\ unit.owner = objects[u].owner
  BY <1>2 DEF Fits
<1>7. v \in Units /\ v.owner = objects[u].owner /\ v.carried = objects[u].carried
  <2>1. 0 \in 0 .. AttackTime
    BY Sizes, GameAssumption
  <2> HIDE DEF unit
  <2> QED
    BY <1>2, <1>6, <2>1 DEF Acts, Units
<1>8. objects' = [objects EXCEPT ![u] = v, ![id] = b2]
      /\ objectDeleteList' = objectDeleteList /\ resources' = resources
  BY DEF Construct
<1>9. b.built \in 0 .. BuildSteps /\ b.hp \in 0 .. BuildSteps /\ BuildSteps \in Nat
  BY <1>5, Sizes DEF Buildings
<1>10. built2 \in 0 .. BuildSteps /\ hp2 \in 0 .. BuildSteps /\ b.built <= built2
  BY <1>9
<1> HIDE DEF built2, hp2, v, unit, b
<1>11. /\ b2 \in Buildings /\ b2.owner = b.owner /\ b2.type = b.type /\ b2.built = built2
       /\ b2.queue = b.queue
  BY <1>5, <1>10 DEF Buildings
<1> HIDE DEF b2, id
<1>12. Worth(v) = Worth(objects[u])
  BY <1>5, <1>7, WorthOfUnit
<1>13. Worth(b2) \in Nat /\ Worth(b2) <= Worth(b)
  <2>1. QueueCost(b2) = QueueCost(b)
    BY <1>11 DEF QueueCost
  <2>2. ConstructionRefund(b2) <= ConstructionRefund(b)
    BY <1>5, <1>10, <1>11, RefundShrinks
  <2>3. /\ Worth(b) = QueueCost(b) + ConstructionRefund(b)
        /\ QueueCost(b) \in Nat /\ ConstructionRefund(b) \in Nat
    BY <1>4, <1>5, WorthOfBuilding
  <2>4. /\ Worth(b2) = QueueCost(b2) + (IF IsCompleted(b2) THEN 0 ELSE ConstructionRefund(b2))
        /\ Worth(b2) \in Nat /\ ConstructionRefund(b2) \in Nat
    BY <1>11, WorthOfBuilding
  <2>5. CASE IsCompleted(b2)
    BY <2>1, <2>3, <2>4, <2>5
  <2>6. CASE ~IsCompleted(b2)
    BY <2>1, <2>2, <2>3, <2>4, <2>6
  <2> QED
    BY <2>5, <2>6
<1>14. /\ DOMAIN objects' = DOMAIN objects /\ objects'[u] = v /\ objects'[id] = b2
       /\ \A i \in DOMAIN objects \ {u, id} : objects'[i] = objects[i]
  BY <1>1, <1>3, <1>5, <1>8
<1>15. b = objects[id]
  BY DEF b
<1>16. \A i \in DOMAIN objects : objects'[i].owner = objects[i].owner
  BY <1>7, <1>11, <1>14, <1>15
<1>17. \A i \in DOMAIN objects \ {id} : Worth(objects'[i]) = Worth(objects[i])
  BY <1>12, <1>14
<1>18. Worth(objects'[id]) \in Nat /\ Worth(objects'[id]) <= Worth(objects[id])
  BY <1>13, <1>14, <1>15
<1> QED
  BY <1>3, <1>8, <1>14, <1>16, <1>17, <1>18, NoGainLess

\* An object of player q has joined the map: player p gains it if it is q, and
\* of what p held before one object may have lost some of its worth.
LEMMA GainJoined ==
    ASSUME NEW p, Owning(p), NEW id, id \notin DOMAIN objects,
           DOMAIN objects' = DOMAIN objects \cup {id},
           \A i \in DOMAIN objects : objects'[i].owner = objects[i].owner,
           Worth(objects'[id]) \in Nat, objectDeleteList' = objectDeleteList,
           NEW x, x \in DOMAIN objects => /\ objects[x].owner = objects'[id].owner
                                          /\ Worth(objects'[x]) \in Nat
                                          /\ Worth(objects'[x]) <= Worth(objects[x]),
           \A i \in DOMAIN objects \ {x} : Worth(objects'[i]) = Worth(objects[i])
    PROVE  /\ HeldNext(p) \in Nat
           /\ objects'[id].owner # p => HeldNext(p) = Held(p)
           /\ objects'[id].owner = p => HeldNext(p) <= Held(p) + Worth(objects'[id])
<1> DEFINE f == objects
           g == objects'
           L == LiveOf(p)
           M == L \cup {id}
<1>1. /\ IsFiniteSet(L) /\ L \in SUBSET DOMAIN objects /\ Held(p) \in Nat
      /\ \A i \in DOMAIN objects : Worth(f[i]) \in Nat
  BY OwningFacts
<1>2. id \notin objectDeleteList /\ id \notin L
  BY <1>1, OwningFacts DEF MapOK
<1>3. LiveOf(p)' = IF g[id].owner = p THEN M ELSE L
  BY <1>2 DEF LiveOf, Live
<1>4. \A i \in M : Worth(g[i]) \in Nat
  BY <1>1
<1>5. CASE g[id].owner # p
  <2>1. \A i \in L : Worth(objects'[i]) = Worth(objects[i])
    <3>1. x \notin L
      BY <1>1, <1>5 DEF LiveOf
    <3> QED
      BY <1>1, <3>1
  <2> QED
    BY <1>1, <1>3, <1>5, <2>1, NothingGained
<1>6. CASE g[id].owner = p
  <2>1. HeldNext(p) = Holdings(g, M) /\ Held(p) = Holdings(f, L)
    BY <1>3, <1>6 DEF HeldNext, Held
  <2>2. \A i \in L : Worth(f[i]) \in Nat /\ Worth(g[i]) \in Nat
    BY <1>1, <1>4
  <2>3. \A i \in L \ {x} : Worth(g[i]) = Worth(f[i])
    BY <1>1
  <2>4. Worth(g[id]) \in Nat /\ (x \in L => Worth(g[x]) <= Worth(f[x]))
    BY <1>1
  <2>5. g[id] = objects'[id]
    OBVIOUS
  <2> HIDE DEF f, g, L
  <2>6. Holdings(g, M) = Worth(g[id]) + Holdings(g, L)
    BY <1>1, <1>2, <1>4, HoldingsWith
  <2>7. Holdings(g, L) \in Nat /\ Holdings(f, L) \in Nat
    BY <1>1, <2>2, HoldingsType
  <2>8. Holdings(g, L) <= Holdings(f, L)
    <3>1. CASE x \in L
      <4>1. Holdings(g, L) + Worth(f[x]) = Holdings(f, L) + Worth(g[x])
        BY <1>1, <2>2, <2>3, <3>1, HoldingsChanged
      <4> QED
        BY <2>2, <2>4, <2>7, <3>1, <4>1
    <3>2. CASE x \notin L
      <4>1. \A i \in L : Worth(g[i]) = Worth(f[i])
        BY <2>3, <3>2
      <4>2. Holdings(g, L) = Holdings(f, L)
        BY <1>1, <4>1, HoldingsSame
      <4> QED
        BY <2>7, <4>2
    <3> QED
      BY <3>1, <3>2
  <2> HIDE DEF M
  <2>9. HeldNext(p) \in Nat /\ HeldNext(p) <= Held(p) + Worth(g[id])
    BY <2>1, <2>4, <2>6, <2>7, <2>8
  <2> QED
    BY <1>6, <2>5, <2>9 DEF g
<1> QED
  BY <1>5, <1>6

\* A production that is completed: its price is spent.
LEMMA NoGainCompleteProduction ==
    ASSUME NEW p, Owning(p), NEW b, CompleteProduction(b)
    PROVE  NoGain(p)
<1> DEFINE o    == objects[b]
           q    == o.owner
           t    == Head(o.queue)
           id   == nextObjectID
           unit == NewUnit(q, t)
           rest == Tail(o.queue)
           b2   == [o EXCEPT !.queue = rest, !.production = 0]
<1>1. /\ MatchInv /\ MapOK /\ b \in DOMAIN objects /\ IsBuilding(o) /\ o.queue # <<>>
      /\ resources[p] \in Nat /\ Held(p) \in Nat
  BY OwningFacts DEF CompleteProduction, MapOK
<1>2. o \in Buildings /\ q \in Players
  BY <1>1, Producer
<1>3. o.queue \in Seq(UnitTypes) /\ t \in UnitTypes
  BY <1>1, <1>2 DEF Buildings
<1>4. id \notin DOMAIN objects
  BY <1>1 DEF MapOK
<1>5. unit.owner = q /\ Worth(unit) = 0
  BY <1>3 DEF NewUnit, Worth, IsUnit
<1>6. rest \in Seq(UnitTypes) /\ Shortened(rest, o.queue, 1)
  BY <1>1, <1>3, TailShortened
<1> HIDE DEF rest
<1>7. /\ b2 \in Buildings /\ b2.owner = q /\ b2.type = o.type /\ b2.built = o.built
      /\ b2.queue = rest
  <2>1. 0 \in 0 .. ProductionSteps
    BY Sizes
  <2> QED
    BY <1>2, <1>6, <2>1 DEF Buildings
<1>8. /\ objects' = [i \in DOMAIN objects \cup {id} |->
                       IF i = id THEN unit ELSE IF i = b THEN b2 ELSE objects[i]]
      /\ objectDeleteList' = objectDeleteList /\ resources' = resources
  BY DEF CompleteProduction, rest
<1> HIDE DEF unit, b2
<1>9. /\ DOMAIN objects' = DOMAIN objects \cup {id} /\ objects'[id] = unit /\ objects'[b] = b2
      /\ \A i \in DOMAIN objects \ {b} : objects'[i] = objects[i]
  BY <1>1, <1>4, <1>8
<1>10. Worth(b2) \in Nat /\ Worth(b2) <= Worth(o)
  <2>1. QueueCost(o) = QueueCost(b2) + Cost[o.queue[1]] /\ Cost[o.queue[1]] \in Nat
    BY <1>3, <1>6, <1>7, QueueCostShortened
  <2>2. ConstructionRefund(b2) = ConstructionRefund(o) /\ (IsCompleted(b2) <=> IsCompleted(o))
    BY <1>7 DEF ConstructionRefund, IsCompleted
  <2> DEFINE x == IF IsCompleted(o) THEN 0 ELSE ConstructionRefund(o)
  <2>3. Worth(o) = QueueCost(o) + x /\ ConstructionRefund(o) \in Nat /\ QueueCost(o) \in Nat
    BY <1>2, WorthOfBuilding
  <2>4. Worth(b2) = QueueCost(b2) + x /\ QueueCost(b2) \in Nat /\ Worth(b2) \in Nat
    BY <1>7, <2>2, WorthOfBuilding
  <2>5. x \in Nat
    BY <2>3
  <2> HIDE DEF x, o
  <2> DEFINE c == Cost[o.queue[1]]
  <2>6. QueueCost(o) = QueueCost(b2) + c /\ c \in Nat
    BY <2>1
  <2> HIDE DEF c
  <2> QED
    BY <2>3, <2>4, <2>5, <2>6
<1>11. /\ \A i \in DOMAIN objects : objects'[i].owner = objects[i].owner
       /\ \A i \in DOMAIN objects \ {b} : Worth(objects'[i]) = Worth(objects[i])
       /\ Worth(objects'[b]) \in Nat /\ Worth(objects'[b]) <= Worth(objects[b])
       /\ Worth(objects'[id]) = 0 /\ Worth(objects'[id]) \in Nat
       /\ objects[b].owner = objects'[id].owner
  BY <1>5, <1>7, <1>9, <1>10
<1>12. /\ HeldNext(p) \in Nat
       /\ objects'[id].owner # p => HeldNext(p) = Held(p)
       /\ objects'[id].owner = p => HeldNext(p) <= Held(p) + Worth(objects'[id])
  BY <1>1, <1>4, <1>8, <1>9, <1>11, GainJoined
<1>13. resources'[p] = resources[p]
  BY <1>8
<1> QED
  BY <1>1, <1>11, <1>12, <1>13 DEF NoGain

\* PlaceBuildingFoundation: the price is in the foundation.
LEMMA NoGainPlace ==
    ASSUME NEW p, Owning(p), NEW q \in Players, NEW t \in PlaceableTypes,
           NEW tiles \in Footprints[t], NEW builders,
           HandlePlaceBuildingFoundation(q, t, tiles, builders)
    PROVE  NoGain(p)
<1> DEFINE id   == nextObjectID
           site == NewBuilding(q, t, tiles, 0)
           Sent(u) == [objects[u] EXCEPT !.type   = "Builder",
                                         !.moving = TRUE,
                                         !.target = IF objects[u].attacking THEN @ ELSE id,
                                         !.manual = id]
           c    == Cost[t]
           B    == builders
<1>1. /\ MapOK /\ resources \in [Players -> Nat] /\ resources[p] \in Nat /\ Held(p) \in Nat
      /\ p \in Players
  BY OwningFacts
<1>2. /\ objects' = [i \in DOMAIN objects \cup {id} |->
                       IF i = id THEN site ELSE IF i \in B THEN Sent(i) ELSE objects[i]]
      /\ objectDeleteList' = objectDeleteList
      /\ resources' = [resources EXCEPT ![q] = @ - c]
      /\ \A u \in B : OwnUnit(q, u) /\ IsVillager(objects[u])
  BY DEF HandlePlaceBuildingFoundation
<1>3. id \notin DOMAIN objects
  BY <1>1 DEF MapOK
<1>4. c \in Nat /\ t \in BuildingTypes
  BY GameAssumption DEF PlaceableTypes
<1>5. site.owner = q /\ Worth(site) = c
  <2>1. /\ site.owner = q /\ site.type = t /\ site.built = 0 /\ site.queue = <<>>
        /\ ~IsUnit(site)
    BY <1>4, TypesDisjoint DEF NewBuilding, IsUnit
  <2> HIDE DEF site
  <2>2. ConstructionRefund(site) = c
    BY <1>4, <2>1, FoundationRefund
  <2>3. ~IsCompleted(site)
    BY <2>1, Sizes DEF IsCompleted
  <2>4. QueueCost(site) = 0
    <3>1. Len(site.queue) = 0
      BY <2>1, EmptySeq
    <3> DEFINE l == Len(site.queue)
    <3>2. l = 0 /\ l \in Nat
      BY <3>1
    <3>3. PICK f : CostSum(f, site.queue, l)
      BY <3>2, CostSumExists
    <3>4. f[l] = 0
      BY <3>2, <3>3 DEF CostSum
    <3>5. \A i \in 1 .. l : site.queue[i] \in UnitTypes
      BY <3>2
    <3> QED
      BY <3>2, <3>3, <3>4, <3>5, QueueCostIsSum
  <2> QED
    BY <1>4, <2>1, <2>2, <2>3, <2>4 DEF Worth, Refund
<1>6. \A u \in B \cap DOMAIN objects : /\ Sent(u).owner = objects[u].owner
                                        /\ Worth(Sent(u)) = Worth(objects[u])
  <2> SUFFICES ASSUME NEW u \in B \cap DOMAIN objects
               PROVE  Sent(u).owner = objects[u].owner /\ Worth(Sent(u)) = Worth(objects[u])
    OBVIOUS
  <2>1. IsUnit(objects[u]) /\ objects[u] \in Units
    BY <1>1, <1>2, Kinds DEF OwnUnit, MapOK
  <2>2. /\ Sent(u).owner = objects[u].owner /\ Sent(u).carried = objects[u].carried
        /\ Sent(u).type = "Builder"
    BY <2>1 DEF Units
  <2>3. IsUnit(Sent(u))
    BY <2>2 DEF IsUnit, UnitTypes, VillagerTypes
  <2> HIDE DEF Sent
  <2> QED
    BY <2>1, <2>2, <2>3 DEF Worth
<1> HIDE DEF site, Sent, c
<1>7. /\ DOMAIN objects' = DOMAIN objects \cup {id} /\ objects'[id] = site
      /\ \A i \in DOMAIN objects : objects'[i] = IF i \in B THEN Sent(i) ELSE objects[i]
  BY <1>2, <1>3
<1>8. /\ \A i \in DOMAIN objects : /\ objects'[i].owner = objects[i].owner
                                   /\ Worth(objects'[i]) = Worth(objects[i])
      /\ Worth(objects'[id]) = c /\ objects'[id].owner = q
  BY <1>5, <1>6, <1>7
<1>9. /\ HeldNext(p) \in Nat
      /\ objects'[id].owner # p => HeldNext(p) = Held(p)
      /\ objects'[id].owner = p => HeldNext(p) <= Held(p) + Worth(objects'[id])
  <2>1. \A i \in DOMAIN objects \ {id} : Worth(objects'[i]) = Worth(objects[i])
    BY <1>8
  <2>2. \A i \in DOMAIN objects : objects'[i].owner = objects[i].owner
    BY <1>8
  <2>3. Worth(objects'[id]) \in Nat
    BY <1>4, <1>8
  <2> HIDE DEF id
  <2> QED
    BY <1>2, <1>3, <1>7, <2>1, <2>2, <2>3, GainJoined
<1>10. CASE q # p
  <2>1. resources'[p] = resources[p]
    BY <1>1, <1>2, <1>10
  <2>2. HeldNext(p) = Held(p)
    BY <1>8, <1>9, <1>10
  <2> QED
    BY <1>1, <2>1, <2>2 DEF NoGain
<1>11. CASE q = p
  <2>1. resources'[p] = resources[p] - c
    BY <1>1, <1>2, <1>11
  <2>2. HeldNext(p) <= Held(p) + c
    BY <1>8, <1>9, <1>11
  <2> QED
    BY <1>1, <1>4, <1>9, <2>1, <2>2 DEF NoGain
<1> QED
  BY <1>10, <1>11

\* What a player holds is a number of resources.
LEMMA HeldType == MapOK => \A p \in Players : Holdings(objects, LiveOf(p)) \in Nat
<1> SUFFICES ASSUME MapOK, NEW p \in Players PROVE Holdings(objects, LiveOf(p)) \in Nat
  OBVIOUS
<1> DEFINE L == LiveOf(p)
           f == objects
<1>1. IsFiniteSet(L) /\ L \in SUBSET DOMAIN objects
  BY LiveFinite
<1>2. \A i \in L : Worth(f[i]) \in Nat
  BY <1>1, WorthType DEF MapOK
<1> HIDE DEF L, f
<1>3. Holdings(f, L) \in Nat
  BY <1>1, <1>2, HoldingsType
<1> QED
  BY <1>3 DEF f, L

\* The same of the next state.
LEMMA HeldTypeNext == MapOK' => (\A p \in Players : Holdings(objects, LiveOf(p)) \in Nat)'
BY HeldType, PTL

\* Every command.
LEMMA NoGainCommand ==
    ASSUME NEW p, Owning(p), NEW q \in Players, Command(q)
    PROVE  NoGain(p)
<1>1. CASE \E u \in DOMAIN objects : HandleMoveToMapCoord(q, u)
  BY <1>1, NoGainMove
<1>2. CASE \E u, t \in DOMAIN objects : HandleSetTarget(q, u, t)
  BY <1>2, NoGainSetTarget
<1>3. CASE \E b \in DOMAIN objects, t \in {"Villager", "Militia"} : HandleProduceUnit(q, b, t)
  BY <1>3, NoGainProduceUnit
<1>4. CASE \E b \in DOMAIN objects, k \in 0 .. MaxQueue - 1 :
             HandleDequeueProductionQueueItem(q, b, k)
  BY <1>4, NoGainDequeue
<1>5. CASE \E t \in PlaceableTypes : \E tiles \in Footprints[t] :
             \E builders \in SUBSET {u \in DOMAIN objects : OwnUnit(q, u)} :
               HandlePlaceBuildingFoundation(q, t, tiles, builders)
  <2>1. PICK t \in PlaceableTypes : \E tiles \in Footprints[t] :
               \E builders \in SUBSET {u \in DOMAIN objects : OwnUnit(q, u)} :
                 HandlePlaceBuildingFoundation(q, t, tiles, builders)
    BY <1>5
  <2>2. PICK tiles \in Footprints[t] :
               \E builders \in SUBSET {u \in DOMAIN objects : OwnUnit(q, u)} :
                 HandlePlaceBuildingFoundation(q, t, tiles, builders)
    BY <2>1
  <2>3. PICK builders : HandlePlaceBuildingFoundation(q, t, tiles, builders)
    BY <2>2
  <2> QED
    BY <2>3, NoGainPlace
<1>6. CASE \E id \in DOMAIN objects : HandleDeleteObject(q, id)
  BY <1>6, NoGainDelete
<1>7. CASE \E reason \in {"Resign", "Drop"} : PlayerGone(q, reason)
  <2>1. UNCHANGED <<objects, objectDeleteList, resources>>
    BY <1>7 DEF PlayerGone
  <2> QED
    BY <2>1, NoGainIdle DEF SameObjects
<1> QED
  BY <1>1, <1>2, <1>3, <1>4, <1>5, <1>6, <1>7 DEF Command, Resign, Drop

\* What one step may add to the wealth of player p.
Gathered(p) ==
    /\ resources'[p] + HeldNext(p) = resources[p] + Held(p) + 1
    /\ \E u \in LiveOf(p) : IsUnit(objects[u]) /\ Gather(u)

\* Every step of the specification.
LEMMA GainOfStep ==
    ASSUME NEW p, Owning(p), [Next]_vars
    PROVE  NoGain(p) \/ Gathered(p)
<1>1. CASE \E q \in Players : Command(q)
  BY <1>1, NoGainCommand
<1>2. ASSUME UNCHANGED <<objects, objectDeleteList, resources>> PROVE NoGain(p)
  BY <1>2, NoGainIdle DEF SameObjects
<1>3. CASE EndPoll \/ EndIteration \/ BeginStep \/ UNCHANGED vars
  BY <1>2, <1>3 DEF EndPoll, EndIteration, BeginStep, vars
<1>4. CASE EndStep
  <2>1. objects' = [id \in Live |-> objects[id]] /\ objectDeleteList' = {}
        /\ resources' = resources
    BY <1>4 DEF EndStep
  <2>2. LiveOf(p)' = LiveOf(p)
    BY <2>1 DEF Live, LiveOf
  <2>3. \A i \in LiveOf(p) : objects'[i] = objects[i]
    BY <2>1 DEF LiveOf
  <2>4. \A i \in LiveOf(p) : Worth(objects'[i]) = Worth(objects[i])
    BY <2>3
  <2> QED
    BY <2>1, <2>2, <2>4, NothingGained
<1>5. CASE \E id \in todo : VisitObject(id)
  <2>1. PICK id : VisitedUnit(id) \/ VisitedBuilding(id)
    BY <1>5 DEF VisitObject
  <2>2. CASE Gather(id)
    BY <2>2, GainGather DEF Gathered
  <2>3. CASE VisitedUnit(id) /\ ~Gather(id)
    BY <2>3, NoGainCarrying, NoGainDropOff, NoGainContinueAttack, NoGainConstruct
       DEF VisitedUnit
  <2>4. CASE WaitForSpace(id)
    BY <1>2, <2>4 DEF WaitForSpace
  <2>5. CASE VisitedBuilding(id)
    BY <2>4, <2>5, NoGainProduction, NoGainCompleteProduction DEF VisitedBuilding
  <2> QED
    BY <2>1, <2>2, <2>3, <2>5
<1> QED
  BY <1>1, <1>3, <1>4, <1>5 DEF Next, SimulateStep

\* What NoFreeResources says of a step.
LEMMA WealthStep ==
    ASSUME MatchInv, BooksOK, [Next]_vars
    PROVE  [\A p \in Players :
              Wealth(p)' > Wealth(p)
                => \/ TouchesDoomed
                   \/ /\ Wealth(p)' = Wealth(p) + 1
                      /\ \E u \in LiveOf(p) : IsUnit(objects[u]) /\ Gather(u)]_vars
<1> SUFFICES ASSUME NEW p \in Players, ~TouchesDoomed, Wealth(p)' > Wealth(p)
             PROVE  /\ Wealth(p)' = Wealth(p) + 1
                    /\ \E u \in LiveOf(p) : IsUnit(objects[u]) /\ Gather(u)
  OBVIOUS
<1>1. MapOK /\ MapOK'
  BY MatchStep DEF MatchInv, MapInv
<1>2. Owning(p)
  BY DEF Owning
<1>3. Wealth(p) = resources[p] + Held(p)
  BY <1>1, WealthIsHoldings DEF Held
<1>4. Wealth(p)' = resources'[p] + HeldNext(p)
  BY <1>1, NextWealthIsHoldings DEF HeldNext
<1>5. resources[p] \in Nat /\ Held(p) \in Nat
  BY <1>2, OwningFacts
<1>6. resources'[p] \in Nat
  <2>1. BooksOK'
    BY BooksStep
  <2> QED
    BY <2>1 DEF BooksOK
<1>7. HeldNext(p) \in Nat
  BY <1>1, HeldTypeNext DEF HeldNext
<1>8. NoGain(p) \/ Gathered(p)
  BY <1>2, GainOfStep
<1>9. ~NoGain(p)
  BY <1>3, <1>4, <1>5, <1>6, <1>7 DEF NoGain
<1> QED
  BY <1>3, <1>4, <1>8, <1>9 DEF Gathered

\* No order of queueing, dequeueing, placing, building, deleting, dying and carrying
\* home creates resources: each refund returns at most what was paid, once, and a
\* villager that gathers adds one (game.cpp, DeleteObject and the handlers).
THEOREM WealthIsEarned == Spec => NoFreeResources
<1>1. MatchInv /\ BooksOK /\ [Next]_vars => BooksOK'
  BY BooksStep
<1>2. MatchInv /\ BooksOK /\ [Next]_vars
        => [\A p \in Players :
              Wealth(p)' > Wealth(p)
                => \/ TouchesDoomed
                   \/ /\ Wealth(p)' = Wealth(p) + 1
                      /\ \E u \in LiveOf(p) : IsUnit(objects[u]) /\ Gather(u)]_vars
  BY WealthStep
<1> QED
  BY <1>1, <1>2, BooksInit, MatchInvariant, PTL DEF Spec, NoFreeResources
=============================================================================
