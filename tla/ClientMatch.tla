----------------------------- MODULE ClientMatch -----------------------------
(***************************************************************************)
(* A running match as one of its clients sees it: the server of GameServer *)
(* with the messages it writes for player me, and the GameController of    *)
(* that player's client, which handles them.                               *)
(*                                                                         *)
(* What the handlers and the step of the server say is accumulated and     *)
(* written at the end of the step, behind a message with the time of the   *)
(* step; only the news that a player has left is written at once.  In each *)
(* frame the client handles what belongs to times it is to display         *)
(* (ParseMessagesUntil).  How much of the stream that is depends on what   *)
(* has arrived and on the clock, so a frame handles any prefix of it.      *)
(*                                                                         *)
(* The position of a unit is not modelled (GameState), so of UnitMovement  *)
(* only the action remains: whether the unit attacks.                      *)
(***************************************************************************)
EXTENDS GameServer

CONSTANTS
    MaxLag,         \* bound: steps the client may be behind
    MaxOrders       \* bound: commands the players give

VARIABLES
    me,             \* Match::playerIndexInList
    accumulated,    \* Game::accumulatedMessages of me
    housed,         \* PlayerInGame::isHoused of me
    wasHoused,      \* PlayerInGame::wasHousedBefore of me
    lastResources,  \* PlayerInGame::lastResources of me
    orders,         \* the commands given so far
    stream,         \* written to the socket of me and not handled yet
    client,         \* the state of the client that the messages change
    published,      \* auxiliary: the copies me was given with the steps on the stream
    whole,          \* auxiliary: the client's copy after the last whole step
    strays          \* auxiliary: objects erased without a message to me

serverVars == <<me, accumulated, housed, wasHoused, lastResources, orders>>
clientVars == <<stream, client, published, whole, strays>>
allVars    == <<vars, serverVars, clientVars>>

(***************************************************************************)
(* The messages (common/messages.hpp).                                     *)
(***************************************************************************)
Message(type, id, value) == [type |-> type, id |-> id, value |-> value]

\* What an object's messages tell me of it: loads and queues only of its own.
Told(o) ==
    IF IsUnit(o)
      THEN [owner |-> o.owner, type |-> o.type, hp |-> o.hp, attacking |-> o.attacking,
            carried |-> IF o.owner = me THEN o.carried ELSE 0]
      ELSE [owner |-> o.owner, type |-> o.type, hp |-> o.hp, built |-> o.built,
            queue |-> IF o.owner = me THEN o.queue ELSE <<>>,
            producing |-> o.owner = me /\ o.production > 0]

AddObject(id, o) == <<Message("AddObject", id, Told(o))>>

ToOwner(o, msgs) == IF o.owner = me THEN msgs ELSE <<>>

\* CreateUnitMovementMessage, if the action is another one after the visit.
UnitMovement(u) ==
    IF objects'[u].attacking = objects[u].attacking THEN <<>>
    ELSE <<Message("UnitMovement", u, objects'[u].attacking)>>

\* Wherever the type of a unit changes (SetUnitTargets, and following a target).
ChangeUnitType(u) ==
    IF objects'[u].type = objects[u].type THEN <<>>
    ELSE <<Message("ChangeUnitType", u, objects'[u].type)>>

HPUpdate(id) == <<Message("HPUpdate", id, objects'[id].hp)>>

SetCarriedResources(u) ==
    ToOwner(objects[u], <<Message("SetCarriedResources", u, objects'[u].carried)>>)

(***************************************************************************)
(* DeleteObject: nobody but its owner knows of a foundation.               *)
(***************************************************************************)
ObjectDeath(id) ==
    IF \/ id \in objectDeleteList
       \/ objects[id].owner # me /\ IsBuilding(objects[id]) /\ IsFoundation(objects[id])
      THEN <<>> ELSE <<Message("ObjectDeath", id, TRUE)>>

(***************************************************************************)
(* RemovePlayer: the players that remain are told, and a player that was   *)
(* defeated.                                                               *)
(***************************************************************************)
LeaveBroadcast ==
    LET left == {p \in Players : exitReason'[p] # exitReason[p]}
    IN  IF \E p \in left : me \in connected' \/ (p = me /\ exitReason'[p] = "Defeat")
          THEN LET p == CHOOSE p \in left : TRUE
               IN  <<Message("PlayerLeaveBroadcast", p, exitReason'[p])>>
          ELSE <<>>

\* Mutant: the news that a player has left waits for the end of the step.
TellAtEndOfStep(msgs) ==
    /\ accumulated' = accumulated \o msgs \o LeaveBroadcast
    /\ UNCHANGED <<me, wasHoused, lastResources, stream, client, published, whole, strays>>

\* Messages for a client that is gone are dropped at the end of the step.
Tell(msgs) ==
    /\ accumulated' = IF me \in connected' THEN accumulated \o msgs ELSE <<>>
    /\ stream' = stream \o LeaveBroadcast
    /\ UNCHANGED <<me, wasHoused, lastResources, client, published, whole, strays>>

TellVisit(msgs) == Tell(msgs) /\ UNCHANGED <<housed, orders>>

(***************************************************************************)
(* The commands (GameCommands) and what they tell.                         *)
(***************************************************************************)
TellCommand(msgs) ==
    /\ orders < MaxOrders
    /\ orders' = orders + 1
    /\ Tell(msgs)
    /\ UNCHANGED housed

Told_MoveToMapCoord ==
    \E p \in Players : \E u \in DOMAIN objects :
      HandleMoveToMapCoord(p, u) /\ TellCommand(<<>>)

Told_SetTarget ==
    \E p \in Players : \E u, t \in DOMAIN objects :
      HandleSetTarget(p, u, t) /\ TellCommand(ChangeUnitType(u))

Told_ProduceUnit ==
    \E p \in Players : \E b \in DOMAIN objects, t \in {"Villager", "Militia"} :
      /\ HandleProduceUnit(p, b, t)
      /\ TellCommand(ToOwner(objects[b], <<Message("QueueUnit", b, t)>>))

Told_DequeueProductionQueueItem ==
    \E p \in Players : \E b \in DOMAIN objects, k \in 0 .. MaxQueue - 1 :
      /\ HandleDequeueProductionQueueItem(p, b, k)
      /\ TellCommand(ToOwner(objects[b],
           <<Message("RemoveFromProductionQueue", b, Len(objects[b].queue) - k)>>))

\* SetUnitTargets tells of each builder that was something else before.
Told_PlaceBuildingFoundation ==
    \E p \in Players, t \in PlaceableTypes : \E tiles \in Footprints[t] :
      \E builders \in SUBSET {u \in DOMAIN objects : OwnUnit(p, u)} :
        /\ HandlePlaceBuildingFoundation(p, t, tiles, builders)
        /\ LET id   == nextObjectID
               told == SetToSeq({u \in builders : objects[u].type # "Builder"})
           IN  TellCommand(ToOwner(objects'[id], AddObject(id, objects'[id]))
                             \o [i \in DOMAIN told |->
                                   Message("ChangeUnitType", told[i], "Builder")])

Told_DeleteObject ==
    \E p \in Players : \E id \in DOMAIN objects :
      HandleDeleteObject(p, id) /\ TellCommand(ObjectDeath(id))

\* The client of me stays connected, and leaves only after it says so.
Told_PlayerGone ==
    \E p \in Players :
      /\ \/ Resign(p) /\ (p = me => client.players[me] = "Resign")
         \/ Drop(p) /\ p # me
      /\ TellCommand(<<>>)

Told_Polled == (EndPoll \/ EndIteration) /\ TellVisit(<<>>)

(***************************************************************************)
(* The game step (GameStep) and what its visits tell.                      *)
(***************************************************************************)
UnitsToVisit     == {id \in todo : IsUnit(objects[id])}
BuildingsToVisit == todo \ UnitsToVisit

Told_BeginStep ==
    /\ BeginStep
    /\ housed' = FALSE
    /\ Tell(<<>>)
    /\ UNCHANGED orders

Told_ContinueAttack ==
    \E u \in UnitsToVisit :
      /\ ContinueAttack(u)
      /\ LET t == objects[u].target
         IN  TellVisit(IF objects[u].clock + 1 # DamageTime \/ t \notin DOMAIN objects
                         THEN <<>>
                       ELSE IF objects[t].hp = 1 THEN ObjectDeath(t) ELSE HPUpdate(t))

Told_Move ==
    \E u \in UnitsToVisit :
      /\ Walk(u) \/ BeginAttack(u) \/ ConstructionBlocked(u)
      /\ TellVisit(ChangeUnitType(u) \o UnitMovement(u))

\* The others hear of a building when its construction starts.
Told_Construct ==
    \E u \in UnitsToVisit :
      /\ Construct(u)
      /\ LET id == Ready(u).target
             b  == objects[id]
         IN  TellVisit(ChangeUnitType(u)
                \o (IF IsFoundation(b) /\ b.owner # me THEN AddObject(id, b) ELSE <<>>)
                \o <<Message("BuildPercentageUpdate", id, objects'[id].built)>>
                \o HPUpdate(id) \o UnitMovement(u))

Told_Gather ==
    \E u \in UnitsToVisit :
      /\ Gather(u)
      /\ TellVisit((IF objects'[u].carried = objects[u].carried THEN <<>>
                     ELSE SetCarriedResources(u)) \o ChangeUnitType(u) \o UnitMovement(u))

Told_DropOff ==
    \E u \in UnitsToVisit :
      /\ DropOff(u)
      /\ TellVisit(SetCarriedResources(u) \o ChangeUnitType(u) \o UnitMovement(u))

Told_StartProduction ==
    \E b \in BuildingsToVisit :
      /\ StartProduction(b)
      /\ TellVisit(ToOwner(objects[b], <<Message("UpdateProduction", b, TRUE)>>))

Told_WaitForSpace ==
    \E b \in BuildingsToVisit :
      /\ WaitForSpace(b)
      /\ housed' = (housed \/ objects[b].owner = me)
      /\ Tell(<<>>)
      /\ UNCHANGED orders

Told_ContinueProduction ==
    \E b \in BuildingsToVisit : ContinueProduction(b) /\ TellVisit(<<>>)

Told_CompleteProduction ==
    \E b \in BuildingsToVisit :
      /\ CompleteProduction(b)
      /\ TellVisit(AddObject(nextObjectID, objects'[nextObjectID])
           \o ToOwner(objects[b], <<Message("RemoveFromProductionQueue", b, 1)>>))

(***************************************************************************)
(* The end of SimulateGameStep: all that the step and the commands before  *)
(* it had to say goes out in one piece, behind the time of the step.       *)
(***************************************************************************)
NewsAtEnd ==
    accumulated
      \o (IF housed = wasHoused THEN <<>> ELSE <<Message("SetHoused", 0, housed)>>)
      \o (IF resources[me] = lastResources THEN <<>>
          ELSE <<Message("ResourcesUpdate", 0, resources[me])>>)

\* The copy of the match that me is given: what it was told of, as it is now.
PublishedCopy ==
    [objects   |-> [id \in known[me] \cap Live |-> Told(objects[id])],
     resources |-> resources[me],
     housed    |-> housed]

Told_EndStep ==
    /\ EndStep
    /\ Len(published) < MaxLag
    /\ accumulated' = <<>>
    /\ strays' = strays \cup (known[me] \cap objectDeleteList)
    /\ IF me \in connected
         THEN /\ wasHoused' = housed
              /\ lastResources' = resources[me]
              /\ IF NewsAtEnd = <<>> THEN UNCHANGED <<stream, published>>
                 ELSE /\ stream' = stream \o <<Message("GameStepTime", 0, 0)>> \o NewsAtEnd
                      /\ published' = Append(published, PublishedCopy)
         ELSE UNCHANGED <<wasHoused, lastResources, stream, published>>
    /\ UNCHANGED <<me, housed, orders, client, whole>>

(***************************************************************************)
(* The handlers of the client (GameController).  Each returns the client   *)
(* after message m; a message about an object that is not on the client's  *)
(* map changes nothing.                                                    *)
(***************************************************************************)
Own(o) == o.owner = me

HandleAddObject(c, m) ==
    LET o == m.value
    IN  [c EXCEPT !.objects = [id \in DOMAIN @ \cup {m.id} |-> IF id = m.id THEN o ELSE @[id]],
                  !.stats   = IF ~Own(o) THEN @
                              ELSE IF IsUnit(o) THEN UnitAdded(@, o.type)
                              ELSE BuildingAdded(@, o.type, IsCompleted(o))]

\* Mutant: every building that is destroyed was a finished one.
HandleObjectDeathOfFinished(c, m) ==
    LET o == c.objects[m.id]
    IN  [c EXCEPT !.objects = [id \in DOMAIN @ \ {m.id} |-> @[id]],
                  !.stats   = IF ~Own(o) THEN @
                              ELSE IF IsUnit(o) THEN UnitRemoved(@, o.type)
                              ELSE BuildingRemoved(@, o.type, TRUE)]

HandleObjectDeath(c, m) ==
    LET o == c.objects[m.id]
    IN  [c EXCEPT !.objects = [id \in DOMAIN @ \ {m.id} |-> @[id]],
                  !.stats   = IF ~Own(o) THEN @
                              ELSE IF IsUnit(o) THEN UnitRemoved(@, o.type)
                              ELSE BuildingRemoved(@, o.type, IsCompleted(o))]

HandleUnitMovement(c, m) == [c EXCEPT !.objects[m.id].attacking = m.value]

HandleBuildPercentageUpdate(c, m) ==
    LET b == c.objects[m.id]
    IN  [c EXCEPT !.objects[m.id].built = m.value,
                  !.stats = IF Own(b) /\ ~IsCompleted(b) /\ m.value = BuildSteps
                              THEN BuildingFinished(@, b.type) ELSE @]

\* Whoever owns the unit.
HandleChangeUnitType(c, m) ==
    [c EXCEPT !.objects[m.id].type = m.value,
              !.stats = UnitTransformed(@, c.objects[m.id].type, m.value)]

HandleSetCarriedResources(c, m) == [c EXCEPT !.objects[m.id].carried = m.value]

HandleHPUpdate(c, m) == [c EXCEPT !.objects[m.id].hp = m.value]

HandleQueueUnit(c, m) == [c EXCEPT !.objects[m.id].queue = Append(@, m.value)]

HandleUpdateProduction(c, m) == [c EXCEPT !.objects[m.id].producing = m.value]

\* Mutant: the progress bar of the removed item goes on.
HandleRemoveKeepingProgress(c, m) ==
    IF m.value > Len(c.objects[m.id].queue) THEN c
    ELSE [c EXCEPT !.objects[m.id].queue = RemoveAt(@, m.value)]

\* DequeueUnit: an index beyond the queue is ignored.
HandleRemoveFromProductionQueue(c, m) ==
    LET b == c.objects[m.id]
    IN  IF m.value > Len(b.queue) THEN c
        ELSE [c EXCEPT !.objects[m.id] =
                [b EXCEPT !.queue     = RemoveAt(@, m.value),
                          !.producing = IF m.value = 1 THEN FALSE ELSE @]]

\* Mutant: who outlives another has won.
HandlePlayerLeaveBroadcastAtOnce(c, m) ==
    LET players == [c.players EXCEPT ![m.id] = m.value]
    IN  [c EXCEPT !.players = IF players[me] = "Playing" THEN [players EXCEPT ![me] = "Won"]
                              ELSE players]

\* Who is the last one still playing has won.
HandlePlayerLeaveBroadcast(c, m) ==
    LET players == [c.players EXCEPT ![m.id] = m.value]
    IN  [c EXCEPT !.players =
           IF players[me] = "Playing" /\ \A p \in Players \ {me} : players[p] # "Playing"
             THEN [players EXCEPT ![me] = "Won"] ELSE players]

ObjectMessages ==
    {"ObjectDeath", "UnitMovement", "BuildPercentageUpdate", "ChangeUnitType",
     "SetCarriedResources", "HPUpdate", "QueueUnit", "UpdateProduction",
     "RemoveFromProductionQueue"}

ParseMessage(c, m) ==
    IF m.type \in ObjectMessages /\ m.id \notin DOMAIN c.objects THEN c
    ELSE CASE m.type = "AddObject"             -> HandleAddObject(c, m)
           [] m.type = "ObjectDeath"           -> HandleObjectDeath(c, m)
           [] m.type = "UnitMovement"          -> HandleUnitMovement(c, m)
           [] m.type = "BuildPercentageUpdate" -> HandleBuildPercentageUpdate(c, m)
           [] m.type = "ChangeUnitType"        -> HandleChangeUnitType(c, m)
           [] m.type = "SetCarriedResources"   -> HandleSetCarriedResources(c, m)
           [] m.type = "HPUpdate"              -> HandleHPUpdate(c, m)
           [] m.type = "QueueUnit"             -> HandleQueueUnit(c, m)
           [] m.type = "UpdateProduction"      -> HandleUpdateProduction(c, m)
           [] m.type = "RemoveFromProductionQueue" -> HandleRemoveFromProductionQueue(c, m)
           [] m.type = "ResourcesUpdate"       -> [c EXCEPT !.resources = m.value]
           [] m.type = "SetHoused"             -> [c EXCEPT !.housed = m.value]
           [] m.type = "PlayerLeaveBroadcast"  -> HandlePlayerLeaveBroadcast(c, m)
           [] m.type = "GameStepTime"          -> c

\* The stream starts in the middle of what belongs to one step.
MidStep(s) ==
    \E i \in DOMAIN s :
      /\ s[i].type \notin {"PlayerLeaveBroadcast", "GameStepTime"}
      /\ \A j \in 1 .. i - 1 : s[j].type = "PlayerLeaveBroadcast"

StepsOn(s) ==
    Cardinality({i \in DOMAIN s : s[i].type = "GameStepTime"}) + IF MidStep(s) THEN 1 ELSE 0

\* What the client shows, but for the objects it has never been told to remove.
ClientCopy(c) ==
    [objects   |-> [id \in DOMAIN c.objects \ strays |-> c.objects[id]],
     resources |-> c.resources,
     housed    |-> c.housed]

After(n)   == SubSeq(stream, n + 1, Len(stream))
Handled(n) ==
    LET after[i \in 0 .. n] ==
          IF i = 0 THEN client ELSE ParseMessage(after[i - 1], stream[i])
    IN  after[n]

(***************************************************************************)
(* A frame: the first n messages are handled in their order.               *)
(***************************************************************************)
ParseMessagesUntil ==
    \E n \in 1 .. Len(stream) :
      LET stepEnds == {k \in 1 .. n : ~MidStep(After(k))}
      IN  /\ client' = Handled(n)
          /\ stream' = After(n)
          /\ published' = SubSeq(published, Len(published) - StepsOn(After(n)) + 1,
                                 Len(published))
          /\ whole' = IF stepEnds = {} THEN whole ELSE ClientCopy(Handled(Max(stepEnds)))
          /\ UNCHANGED <<vars, serverVars, strays>>

\* The resign button: the client does not wait for the server to agree.
PressResign ==
    /\ "Resign" \in Commands[me]
    /\ client.players[me] = "Playing"
    /\ client' = [client EXCEPT !.players[me] = "Resign"]
    /\ UNCHANGED <<vars, serverVars, stream, published, whole, strays>>
-----------------------------------------------------------------------------
\* The messages of Game::StartGame have been handled.
FirstCopy ==
    [objects   |-> [id \in DOMAIN objects |-> Told(objects[id])],
     resources |-> StartResources,
     housed    |-> FALSE]

MatchInit ==
    /\ Init
    /\ me \in Players
    /\ accumulated = <<>>
    /\ housed = FALSE
    /\ wasHoused = FALSE
    /\ lastResources = StartResources
    /\ orders = 0
    /\ stream = <<>>
    /\ client = [objects   |-> FirstCopy.objects,
                 resources |-> StartResources,
                 housed    |-> FALSE,
                 stats     |-> stats[me],
                 players   |-> [p \in Players |-> "Playing"]]
    /\ published = <<>>
    /\ whole = FirstCopy
    /\ strays = {}

MatchNext ==
    \/ Told_MoveToMapCoord \/ Told_SetTarget \/ Told_ProduceUnit
    \/ Told_DequeueProductionQueueItem \/ Told_PlaceBuildingFoundation
    \/ Told_DeleteObject \/ Told_PlayerGone \/ Told_Polled
    \/ Told_BeginStep \/ Told_ContinueAttack \/ Told_Move \/ Told_Construct
    \/ Told_Gather \/ Told_DropOff \/ Told_StartProduction \/ Told_WaitForSpace
    \/ Told_ContinueProduction \/ Told_CompleteProduction \/ Told_EndStep
    \/ ParseMessagesUntil \/ PressResign

(***************************************************************************)
(* TCP delivers, and frames are drawn again and again with a displayed     *)
(* time that follows the server's.  Only a frame takes anything off the     *)
(* stream, so fairness of Advance is fairness of ParseMessagesUntil.       *)
(***************************************************************************)
Advance == \E n \in 1 .. Len(stream) : stream' = After(n)

MatchSpec == MatchInit /\ [][MatchNext]_allVars /\ WF_stream(Advance)
-----------------------------------------------------------------------------
(***************************************************************************)
(* After every whole step it has handled, the client's copy of the map, of *)
(* the resources and of being housed is what the server had at the end of  *)
(* that step, through construction, production, gathering, fights and      *)
(* deletions in any order, and it gets to every step at last.  The copy    *)
(* holds more in one case only: a foundation that its owner deletes and a  *)
(* villager starts in the same step is added for the others and never      *)
(* taken away (strays).                                                    *)
(***************************************************************************)
Copy == INSTANCE DelayedCopy WITH shown <- whole, pending <- published

ImplementsDelayedCopy == Copy!CopySpec

MirrorCount(types) ==
    Cardinality({id \in DOMAIN client.objects : Own(client.objects[id])
                                                 /\ client.objects[id].type \in types})

MirrorBuildings(types, finished) ==
    {id \in DOMAIN client.objects :
       LET o == client.objects[id]
       IN  Own(o) /\ o.type \in types /\ IsCompleted(o) = finished}

\* The client counts what its messages say, and never recounts: in the middle of
\* a step as well as after it, its counters are those of the objects on its map,
\* also where the server's have gone wrong.  Only the count by type (unitsAlive)
\* is not, since a villager of another player that changes its type is counted.
CountersMatchMirror ==
    /\ client.stats.population = MirrorCount(UnitTypes)
    /\ client.stats.villagers = MirrorCount(VillagerTypes)
    /\ client.stats.space = MapThenSumSet(LAMBDA id : PopulationSpace[client.objects[id].type],
                                          MirrorBuildings(BuildingTypes, TRUE))
    /\ \A t \in BuildingTypes :
         /\ client.stats.standing[t] = Cardinality(MirrorBuildings({t}, TRUE))
         /\ client.stats.constructing[t] = Cardinality(MirrorBuildings({t}, FALSE))

\* A client that shows its player as the winner is right, whatever else of the
\* same step it has or has not handled, and no player is shown as gone who plays.
OutcomeTrue ==
    /\ client.players[me] = "Won" => connected \subseteq {me}
    /\ \A p \in Players \ {me} : client.players[p] # "Playing" => p \notin connected

\* The last player to be left is told that it has won, unless it gave up before it
\* heard or lost its last object in the same step.
WinnerLearns ==
    (connected = {me}) ~> (client.players[me] \in {"Won", "Resign"} \/ connected = {})
=============================================================================
