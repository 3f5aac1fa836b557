-------------------------- MODULE ClientMatchProofs --------------------------
(***************************************************************************)
(* What the clients of a running match are told and show: proofs about the *)
(* properties of ClientMatch, for any map, any commands and any lag.       *)
(*                                                                         *)
(*   OutcomeAlwaysTrue      what a client shows of who is gone and who has *)
(*                          won is so (OutcomeTrue)                        *)
(*   CountersAlwaysMirror   what a client counts is what is on its map     *)
(*                          (CountersMatchMirror)                          *)
(*   CopyAlwaysPublished    what a client shows of whole steps implements  *)
(*                          DelayedCopy: copies the server has published,  *)
(*                          in their order (all of ImplementsDelayedCopy   *)
(*                          but that the client gets to them)              *)
(*                                                                         *)
(* They rest on MatchInv of GameServerProofs, and look at what every step  *)
(* of the match says to the clients: who is connected when they hear it,   *)
(* and in which order an object is added, becomes a villager of another    *)
(* trade and is completed in it (Follows).  That order, and that a message *)
(* once true of an object stays true (Fact), let a client count right in   *)
(* the middle of a step too (Sound).  For the copy, what the messages of a *)
(* step say is compared with all that the step changes (Conveys): a client *)
(* that has heard everything shows the server's state (Accurate), and at   *)
(* each end of a step on its way it shows what was published then          *)
(* (UpToDate).                                                             *)
(***************************************************************************)
EXTENDS GameServerProofs, ClientMatch

(***************************************************************************)
(* What a client is told (ClientMatch).  Sequences of messages: they hold  *)
(* values of many kinds, so what is said of them is only that they are     *)
(* sequences, and of what.                                                 *)
(***************************************************************************)
\* What a sequence holds.
Elements(s) == {s[i] : i \in DOMAIN s}

\* It is a sequence, of whatever.
Listed(s) == s \in Seq(Elements(s))

\* A sequence of anything is a sequence of its elements.
LEMMA IsListed ==
    ASSUME NEW S, NEW s \in Seq(S)
    PROVE  Listed(s)
<1>1. Len(s) \in Nat /\ DOMAIN s = 1 .. Len(s) /\ s = [i \in 1 .. Len(s) |-> s[i]]
  BY LenProperties
<1>2. \A i \in 1 .. Len(s) : s[i] \in Elements(s)
  BY <1>1 DEF Elements
<1> QED
  BY <1>1, <1>2 DEF Listed

\* Where the elements of a concatenation are from.
LEMMA ConcatListed ==
    ASSUME NEW s, NEW t, Listed(s), Listed(t)
    PROVE  /\ Listed(s \o t) /\ Len(s \o t) = Len(s) + Len(t)
           /\ DOMAIN s = 1 .. Len(s) /\ DOMAIN t = 1 .. Len(t) /\ DOMAIN (s \o t) = 1 .. Len(s \o t)
           /\ Len(s) \in Nat /\ Len(t) \in Nat
           /\ \A i \in 1 .. Len(s) : (s \o t)[i] = s[i]
           /\ \A i \in 1 .. Len(t) : (s \o t)[Len(s) + i] = t[i]
           /\ Elements(s \o t) = Elements(s) \cup Elements(t)
<1> DEFINE A == Elements(s) \cup Elements(t)
<1>1. s \in Seq(A) /\ t \in Seq(A)
  BY SeqDef DEF Listed
<1>2. /\ s \o t \in Seq(A) /\ Len(s \o t) = Len(s) + Len(t)
      /\ \A i \in 1 .. Len(s) : (s \o t)[i] = s[i]
      /\ \A i \in 1 .. Len(s) + Len(t) : (s \o t)[i] = IF i <= Len(s) THEN s[i] ELSE t[i - Len(s)]
      /\ DOMAIN s = 1 .. Len(s) /\ DOMAIN t = 1 .. Len(t) /\ DOMAIN (s \o t) = 1 .. Len(s \o t)
      /\ Len(s) \in Nat /\ Len(t) \in Nat
  BY <1>1, ConcatProperties, LenProperties
<1>3. \A i \in 1 .. Len(t) : (s \o t)[Len(s) + i] = t[i]
  BY <1>2
<1>4. Listed(s \o t)
  BY <1>2, IsListed
<1>5. Elements(s \o t) \subseteq Elements(s) \cup Elements(t)
  BY <1>2 DEF Elements
<1>6. Elements(s) \cup Elements(t) \subseteq Elements(s \o t)
  <2>1. /\ \A i \in 1 .. Len(s) : i \in DOMAIN (s \o t)
        /\ \A i \in 1 .. Len(t) : Len(s) + i \in DOMAIN (s \o t)
    BY <1>2
  <2> DEFINE u == s \o t
  <2>2. (\A i \in 1 .. Len(s) : s[i] = u[i]) /\ \A i \in 1 .. Len(t) : t[i] = u[Len(s) + i]
    BY <1>2, <1>3
  <2>3. DOMAIN s = 1 .. Len(s) /\ DOMAIN t = 1 .. Len(t)
    BY <1>2
  <2> HIDE DEF u
  <2>4. Elements(s) \subseteq Elements(u)
    BY <2>1, <2>2, <2>3 DEF Elements, u
  <2>5. Elements(t) \subseteq Elements(u)
    BY <2>1, <2>2, <2>3 DEF Elements, u
  <2> QED
    BY <2>4, <2>5 DEF u
<1> QED
  BY <1>2, <1>3, <1>4, <1>5, <1>6

\* The empty sequence and a single message.
LEMMA FewListed ==
    /\ Listed(<<>>) /\ Elements(<<>>) = {}
    /\ \A m : Listed(<<m>>) /\ Elements(<<m>>) = {m} /\ Len(<<m>>) = 1 /\ <<m>>[1] = m
<1>1. <<>> \in Seq({}) /\ \A m : <<m>> \in Seq({m})
  OBVIOUS
<1>2. \A m : Elements(<<m>>) = {m}
  BY DEF Elements
<1>3. Listed(<<>>) /\ \A m : Listed(<<m>>)
  BY <1>1, IsListed
<1>4. Elements(<<>>) = {}
  BY DEF Elements
<1> QED
  BY <1>2, <1>3, <1>4

\* What is left of a stream.
LEMMA AfterListed ==
    ASSUME Listed(stream), NEW n \in 0 .. Len(stream)
    PROVE  /\ Listed(After(n)) /\ Len(After(n)) = Len(stream) - n
           /\ \A i \in 1 .. Len(stream) - n : After(n)[i] = stream[n + i]
           /\ Elements(After(n)) \subseteq Elements(stream)
<1>1. Len(stream) \in Nat /\ DOMAIN stream = 1 .. Len(stream)
  BY LenProperties DEF Listed
<1> DEFINE q == SubSeq(stream, n + 1, Len(stream))
<1>2. \A i \in (n + 1) .. Len(stream) : stream[i] \in Elements(stream)
  BY <1>1 DEF Elements
<1>3. /\ q \in Seq(Elements(stream))
      /\ Len(q) = IF n + 1 <= Len(stream) THEN Len(stream) - (n + 1) + 1 ELSE 0
      /\ \A i \in 1 .. Len(stream) - (n + 1) + 1 : q[i] = stream[(n + 1) + i - 1]
  BY <1>1, <1>2, SubSeqProperties DEF Listed
<1> HIDE DEF q
<1>4. Len(q) = Len(stream) - n /\ \A i \in 1 .. Len(stream) - n : q[i] = stream[n + i]
  <2>1. \A i \in 1 .. Len(stream) - n : /\ i \in 1 .. Len(stream) - (n + 1) + 1
                                       /\ (n + 1) + i - 1 = n + i
    BY <1>1
  <2>2. \A i \in 1 .. Len(stream) - n : q[i] = stream[n + i]
    BY <1>3, <2>1
  <2>3. Len(q) = Len(stream) - n
    <3>1. CASE n + 1 <= Len(stream)
      BY <1>1, <1>3, <3>1
    <3>2. CASE ~(n + 1 <= Len(stream))
      <4> DEFINE l == Len(stream)
      <4>2. l \in Nat /\ n \in 0 .. l /\ ~(n + 1 <= l)
        BY <1>1, <3>2
      <4> HIDE DEF l
      <4>3. l - n = 0
        BY <4>2
      <4>1. Len(stream) - n = 0
        BY <4>3 DEF l
      <4> QED
        BY <1>3, <3>2, <4>1
    <3> QED
      BY <3>1, <3>2
  <2> QED
    BY <2>2, <2>3
<1>5. Elements(q) \subseteq Elements(stream)
  BY <1>3, LenProperties DEF Elements
<1> QED
  BY <1>3, <1>4, <1>5, IsListed DEF q, After

\* f is what becomes of the client, message by message, in the first l of the stream.
HandledUpTo(f, l) ==
    f = [i \in 0 .. l |-> IF i = 0 THEN client ELSE ParseMessage(f[i - 1], stream[i])]

\* The function that Handled chooses exists.
LEMMA HandledUpToExists ==
    ASSUME NEW l \in Nat
    PROVE  \E f : HandledUpTo(f, l)
<1> DEFINE H(f, n) == IF n = 0 THEN client ELSE ParseMessage(f[n - 1], stream[n])
           S == {m \in Nat : \E f : f = [n \in 0 .. m |-> H(f, n)]}
<1>1. 0 \in S
  <2> DEFINE f == [n \in 0 .. 0 |-> client]
  <2>1. f = [n \in 0 .. 0 |-> H(f, n)]
    OBVIOUS
  <2> HIDE DEF f
  <2> QED
    BY <2>1
<1>2. ASSUME NEW m \in Nat, m \in S PROVE m + 1 \in S
  <2>1. PICK f : f = [n \in 0 .. m |-> H(f, n)]
    BY <1>2
  <2> DEFINE g == [n \in 0 .. m + 1 |-> H(f, n)]
  <2>2. \A n \in 0 .. m : g[n] = f[n]
    <3>1. \A n \in 0 .. m : n \in 0 .. m + 1
      OBVIOUS
    <3> HIDE DEF H
    <3> QED
      BY <3>1, <2>1
  <2>3. \A n \in 0 .. m + 1 : n # 0 => n - 1 \in 0 .. m
    OBVIOUS
  <2>4. \A n \in 0 .. m + 1 : H(f, n) = H(g, n)
    BY <2>2, <2>3
  <2>5. g = [n \in 0 .. m + 1 |-> H(g, n)]
    <3> HIDE DEF H
    <3> QED
      BY <2>4
  <2> HIDE DEF g, H
  <2> QED
    BY <2>5
<1> HIDE DEF S
<1>3. l \in S
  BY <1>1, <1>2, SetInduction
<1> QED
  BY <1>3 DEF S, HandledUpTo

\* Two such functions agree as far as the shorter one goes.
LEMMA HandledUpToAlike ==
    ASSUME NEW l \in Nat, NEW k \in Nat, l <= k,
           NEW f, HandledUpTo(f, l), NEW g, HandledUpTo(g, k)
    PROVE  f[l] = g[l]
<1>1. /\ \A i \in 0 .. l : f[i] = IF i = 0 THEN client ELSE ParseMessage(f[i - 1], stream[i])
      /\ \A i \in 0 .. k : g[i] = IF i = 0 THEN client ELSE ParseMessage(g[i - 1], stream[i])
  BY DEF HandledUpTo
<1> DEFINE N == {i \in Nat : i <= l => f[i] = g[i]}
<1>2. 0 \in N
  BY <1>1
<1>3. ASSUME NEW i \in Nat, i \in N PROVE i + 1 \in N
  <2>1. SUFFICES ASSUME i + 1 <= l PROVE f[i + 1] = g[i + 1]
    OBVIOUS
  <2>2. i + 1 \in 0 .. l /\ i + 1 \in 0 .. k /\ i + 1 # 0 /\ (i + 1) - 1 = i /\ f[i] = g[i]
    BY <1>3, <2>1
  <2> QED
    BY <1>1, <2>2
<1> HIDE DEF N
<1>4. l \in N
  BY <1>2, <1>3, SetInduction
<1> QED
  BY <1>4 DEF N

\* Handled has the last value of any such function.
LEMMA HandledIs ==
    ASSUME NEW n \in Nat
    PROVE  \E f : HandledUpTo(f, n) /\ Handled(n) = f[n]
<1> DEFINE f == CHOOSE h : HandledUpTo(h, n)
<1>1. HandledUpTo(f, n)
  BY HandledUpToExists
<1>2. Handled(n) = f[n]
  BY DEF Handled, HandledUpTo
<1> HIDE DEF f
<1> QED
  BY <1>1, <1>2

\* A frame handles one message after the other.
LEMMA HandledSteps ==
    /\ Handled(0) = client
    /\ \A n \in Nat : Handled(n + 1) = ParseMessage(Handled(n), stream[n + 1])
<1>1. PICK f : HandledUpTo(f, 0) /\ Handled(0) = f[0]
  BY HandledIs
<1>2. Handled(0) = client
  BY <1>1 DEF HandledUpTo
<1>3. ASSUME NEW n \in Nat
      PROVE  Handled(n + 1) = ParseMessage(Handled(n), stream[n + 1])
  <2>1. PICK g : HandledUpTo(g, n) /\ Handled(n) = g[n]
    BY HandledIs
  <2>2. PICK h : HandledUpTo(h, n + 1) /\ Handled(n + 1) = h[n + 1]
    BY HandledIs
  <2>3. g[n] = h[n]
    BY <2>1, <2>2, HandledUpToAlike
  <2>4. n + 1 \in 0 .. n + 1 /\ n + 1 # 0 /\ (n + 1) - 1 = n
    OBVIOUS
  <2>5. h[n + 1] = ParseMessage(h[n], stream[n + 1])
    BY <2>2, <2>4 DEF HandledUpTo
  <2> QED
    BY <2>1, <2>2, <2>3, <2>5
<1> QED
  BY <1>2, <1>3

(***************************************************************************)
(* What a step of the match says to the clients: the news that a player    *)
(* has left at once, everything else when the step is over.  And who is    *)
(* gone does not come back.                                                *)
(***************************************************************************)
\* What waits for the end of a step: everything but the news that a player has left.
NewsTypes == ObjectMessages \cup {"AddObject", "ResourcesUpdate", "SetHoused"}

\* What is written then.
SpokenTypes == NewsTypes \cup {"GameStepTime"}

Spoken(msgs) ==
    /\ Listed(msgs)
    /\ \A m \in Elements(msgs) : m.type \in NewsTypes

\* The messages of one step, one after the other.
LEMMA SpokenTogether ==
    ASSUME NEW s, NEW t, Spoken(s), Spoken(t)
    PROVE  Spoken(s \o t)
BY ConcatListed DEF Spoken

\* One message, or none.
LEMMA SpokenAlone ==
    /\ Spoken(<<>>)
    /\ \A m : m.type \in NewsTypes => Spoken(<<m>>)
BY FewListed DEF Spoken

\* What each kind of message is.
LEMMA MessagesSpoken ==
    /\ \A id, o : Spoken(AddObject(id, o))
    /\ \A o, msgs : Spoken(msgs) => Spoken(ToOwner(o, msgs))
    /\ \A u : /\ Spoken(UnitMovement(u)) /\ Spoken(ChangeUnitType(u)) /\ Spoken(HPUpdate(u))
              /\ Spoken(SetCarriedResources(u)) /\ Spoken(ObjectDeath(u))
    /\ \A type \in NewsTypes : \A id, value : Spoken(<<Message(type, id, value)>>)
<1>1. \A type \in NewsTypes : \A id, value : Spoken(<<Message(type, id, value)>>)
  BY SpokenAlone DEF Message
<1>2. \A o, msgs : Spoken(msgs) => Spoken(ToOwner(o, msgs))
  BY SpokenAlone DEF ToOwner
<1>3. \A id, o : Spoken(AddObject(id, o))
  BY <1>1 DEF AddObject, NewsTypes, ObjectMessages
<1>4. \A u : Spoken(UnitMovement(u)) /\ Spoken(ChangeUnitType(u))
  BY <1>1, SpokenAlone DEF UnitMovement, ChangeUnitType, NewsTypes, ObjectMessages
<1>5. \A u : Spoken(HPUpdate(u)) /\ Spoken(ObjectDeath(u))
  BY <1>1, SpokenAlone DEF HPUpdate, ObjectDeath, NewsTypes, ObjectMessages
<1>6. \A u : Spoken(SetCarriedResources(u))
  BY <1>1, <1>2 DEF SetCarriedResources, NewsTypes, ObjectMessages
<1> QED
  BY <1>1, <1>2, <1>3, <1>4, <1>5, <1>6

\* The builders that are sent to a new foundation are told of in some order.
LEMMA TurnedSpoken ==
    ASSUME NEW S, IsFiniteSet(S)
    PROVE  LET told == SetToSeq(S)
           IN  /\ told \in Seq(S)
               /\ Spoken([i \in DOMAIN told |-> Message("ChangeUnitType", told[i], "Builder")])
<1> DEFINE told == SetToSeq(S)
           n == Cardinality(S)
           msgs == [i \in 1 .. n |-> Message("ChangeUnitType", told[i], "Builder")]
<1>1. n \in Nat /\ \E f : ExistsBijection(1 .. n, S)
  BY FS_CardinalityType, FS_CountingElements
<1>2. PICK f \in Bijection(1 .. n, S) : TRUE
  BY <1>1 DEF ExistsBijection
<1>3. f \in [1 .. n -> S] /\ IsInjective(f)
  BY <1>2 DEF Bijection, Injection, IsInjective
<1>4. told \in [1 .. n -> S]
  BY <1>3 DEF SetToSeq
<1> HIDE DEF told, n
<1>5. DOMAIN told = 1 .. n /\ told \in Seq(S)
  BY <1>1, <1>4
<1>6. msgs \in Seq(Elements(msgs)) /\ \A i \in 1 .. n : msgs[i].type = "ChangeUnitType"
  BY <1>1 DEF Message, Elements
<1> QED
  BY <1>5, <1>6 DEF told, Spoken, Listed, Elements, NewsTypes, ObjectMessages

\* Who is gone in a step of the match: nobody comes back, and the reason is on record.
Leaving ==
    /\ connected' \subseteq connected
    /\ exitReason' \in [Players -> ExitReasons \cup {"none"}]
    /\ \A p \in Players : exitReason'[p] # exitReason[p]
                             => p \notin connected' /\ exitReason'[p] \in ExitReasons

\* A player is removed for a reason.
LEMMA RemovedLeaves ==
    ASSUME PlayersOK, NEW p \in Players, NEW reason \in ExitReasons, RemovePlayer(p, reason)
    PROVE  Leaving
BY DEF PlayersOK, RemovePlayer, Leaving

\* Nobody is.
LEMMA NobodyLeaves ==
    ASSUME PlayersOK, UNCHANGED <<connected, exitReason>>
    PROVE  Leaving
BY DEF PlayersOK, Leaving

\* A deletion removes the owner of the object, or nobody.
LEMMA DeletionLeaves ==
    ASSUME PlayersOK, NEW id, objects[id].owner \in Players, NEW manually, DeleteObject(id, manually)
    PROVE  Leaving
<1>1. "Defeat" \in ExitReasons
  BY DEF ExitReasons
<1>2. \/ RemovePlayer(objects[id].owner, "Defeat")
      \/ UNCHANGED <<connected, exitReason>>
  BY DEF DeleteObject
<1> QED
  BY <1>1, <1>2, RemovedLeaves, NobodyLeaves

\* In every step whoever leaves is out, for a reason, and stays out.
LEMMA LeaversGo ==
    ASSUME MatchInv, [Next]_vars
    PROVE  Leaving
<1>1. PlayersOK
  BY DEF MatchInv
<1>2. CASE UNCHANGED <<connected, exitReason>>
  BY <1>1, <1>2, NobodyLeaves
<1>3. ASSUME NEW p \in Players, Command(p) PROVE Leaving
  <2>1. ASSUME NEW id \in DOMAIN objects, HandleDeleteObject(p, id) PROVE Leaving
    BY <1>1, <2>1, DeletionLeaves DEF HandleDeleteObject
  <2>2. CASE Resign(p) \/ Drop(p)
    BY <1>1, <2>2, RemovedLeaves DEF Resign, Drop, PlayerGone, ExitReasons
  <2>3. ASSUME NEW u \in DOMAIN objects, HandleMoveToMapCoord(p, u) PROVE Leaving
    BY <1>2, <2>3 DEF HandleMoveToMapCoord
  <2>4. ASSUME NEW u \in DOMAIN objects, NEW t \in DOMAIN objects, HandleSetTarget(p, u, t)
        PROVE  Leaving
    BY <1>2, <2>4 DEF HandleSetTarget
  <2>5. ASSUME NEW b \in DOMAIN objects, NEW t, HandleProduceUnit(p, b, t) PROVE Leaving
    BY <1>2, <2>5 DEF HandleProduceUnit
  <2>6. ASSUME NEW b \in DOMAIN objects, NEW k, HandleDequeueProductionQueueItem(p, b, k)
        PROVE  Leaving
    BY <1>2, <2>6 DEF HandleDequeueProductionQueueItem
  <2>7. ASSUME NEW t, NEW tiles, NEW builders,
               HandlePlaceBuildingFoundation(p, t, tiles, builders)
        PROVE  Leaving
    BY <1>2, <2>7 DEF HandlePlaceBuildingFoundation
  <2> QED
    BY <1>3, <2>1, <2>2, <2>3, <2>4, <2>5, <2>6, <2>7 DEF Command
<1>4. ASSUME NEW id \in todo, VisitObject(id) PROVE Leaving
  <2>1. ASSUME ContinueAttack(id) PROVE Leaving
    <3>1. CASE UNCHANGED <<connected, exitReason>>
      BY <1>2, <3>1
    <3>2. CASE ~UNCHANGED <<connected, exitReason>>
      <4> DEFINE t == objects[id].target
      <4>1. /\ id \in DOMAIN objects /\ IsUnit(objects[id]) /\ objects[id].attacking
            /\ t \in DOMAIN objects /\ DeleteObject(t, FALSE)
        BY <2>1, <3>2 DEF ContinueAttack, VisitUnit, Visit, Swings, MatchInv, MapInv, MapOK
      <4>2. objects[t].owner \in Players
        BY <4>1 DEF MatchInv, MapInv, AttacksPlayers
      <4> QED
        BY <1>1, <4>1, <4>2, DeletionLeaves
    <3> QED
      BY <3>1, <3>2
  <2>2. CASE Walk(id) \/ BeginAttack(id) \/ Construct(id) \/ ConstructionBlocked(id)
    BY <1>2, <2>2 DEF Walk, BeginAttack, Construct, ConstructionBlocked
  <2>3. CASE Gather(id) \/ DropOff(id)
    BY <1>2, <2>3 DEF Gather, DropOff
  <2>4. CASE VisitedBuilding(id)
    BY <1>2, <2>4 DEF VisitedBuilding, StartProduction, WaitForSpace, ContinueProduction,
                      CompleteProduction
  <2> QED
    BY <1>4, <2>1, <2>2, <2>3, <2>4 DEF VisitObject, VisitedUnit
<1>5. CASE EndPoll \/ EndIteration \/ BeginStep \/ EndStep
  BY <1>2, <1>5 DEF EndPoll, EndIteration, BeginStep, EndStep
<1>6. CASE UNCHANGED vars
  BY <1>2, <1>6 DEF vars
<1> QED
  BY <1>3, <1>4, <1>5, <1>6 DEF Next, SimulateStep

\* What the client is told is what the server did, and nothing else.
LEMMA MatchIsNext ==
    ASSUME [MatchNext]_allVars
    PROVE  [Next]_vars
<1>1. ASSUME NEW p \in Players, Command(p) PROVE [Next]_vars
  BY <1>1 DEF Next
<1>2. ASSUME NEW id \in todo, VisitObject(id) PROVE [Next]_vars
  BY <1>2 DEF Next, SimulateStep
<1>3. CASE Told_MoveToMapCoord \/ Told_SetTarget \/ Told_ProduceUnit
  BY <1>1, <1>3 DEF Told_MoveToMapCoord, Told_SetTarget, Told_ProduceUnit, Command
<1>4. CASE Told_DequeueProductionQueueItem \/ Told_PlaceBuildingFoundation
  BY <1>1, <1>4 DEF Told_DequeueProductionQueueItem, Told_PlaceBuildingFoundation, Command
<1>5. CASE Told_DeleteObject \/ Told_PlayerGone
  BY <1>1, <1>5 DEF Told_DeleteObject, Told_PlayerGone, Command
<1>6. CASE Told_Polled \/ Told_BeginStep \/ Told_EndStep
  BY <1>6 DEF Told_Polled, Told_BeginStep, Told_EndStep, Next, SimulateStep
<1>7. ASSUME NEW u \in UnitsToVisit, VisitedUnit(u) PROVE [Next]_vars
  BY <1>2, <1>7 DEF UnitsToVisit, VisitObject
<1>8. ASSUME NEW b \in BuildingsToVisit, VisitedBuilding(b) PROVE [Next]_vars
  BY <1>2, <1>8 DEF BuildingsToVisit, UnitsToVisit, VisitObject
<1>9. CASE Told_ContinueAttack \/ Told_Move \/ Told_Construct \/ Told_Gather \/ Told_DropOff
  BY <1>7, <1>9 DEF Told_ContinueAttack, Told_Move, Told_Construct, Told_Gather, Told_DropOff,
                    VisitedUnit
<1>10. CASE Told_StartProduction \/ Told_WaitForSpace \/ Told_ContinueProduction
              \/ Told_CompleteProduction
  BY <1>8, <1>10 DEF Told_StartProduction, Told_WaitForSpace, Told_ContinueProduction,
                     Told_CompleteProduction, VisitedBuilding
<1>11. CASE ParseMessagesUntil \/ PressResign \/ UNCHANGED allVars
  BY <1>11 DEF ParseMessagesUntil, PressResign, allVars
<1> QED
  BY <1>3, <1>4, <1>5, <1>6, <1>9, <1>10, <1>11 DEF MatchNext

\* Whatever the server does but for the end of a step, it says nothing of players that
\* leave but what it writes at once.
LEMMA ServerSpeaks ==
    ASSUME MatchInv, MatchNext
    PROVE  Told_EndStep \/ ParseMessagesUntil \/ PressResign
             \/ \E msgs : Spoken(msgs) /\ Tell(msgs)
<1> SUFFICES ASSUME ~Told_EndStep, ~ParseMessagesUntil, ~PressResign
             PROVE  \E msgs : Spoken(msgs) /\ Tell(msgs)
  OBVIOUS
<1>0. Spoken(<<>>)
  BY SpokenAlone
<1>1. CASE Told_MoveToMapCoord
  BY <1>0, <1>1 DEF Told_MoveToMapCoord, TellCommand
<1>2. CASE Told_SetTarget
  BY <1>2, MessagesSpoken DEF Told_SetTarget, TellCommand
<1>3. CASE Told_ProduceUnit
  BY <1>3, MessagesSpoken DEF Told_ProduceUnit, TellCommand, NewsTypes,
                           ObjectMessages
<1>4. CASE Told_DequeueProductionQueueItem
  BY <1>4, MessagesSpoken DEF Told_DequeueProductionQueueItem, TellCommand, NewsTypes,
                           ObjectMessages
<1>5. CASE Told_PlaceBuildingFoundation
  <2>1. PICK p \in Players : \E t \in PlaceableTypes : \E tiles \in Footprints[t] :
               \E builders \in SUBSET {u \in DOMAIN objects : OwnUnit(p, u)} :
                 LET id   == nextObjectID
                     told == SetToSeq({u \in builders : objects[u].type # "Builder"})
                 IN  TellCommand(ToOwner(objects'[id], AddObject(id, objects'[id]))
                                   \o [i \in DOMAIN told |->
                                         Message("ChangeUnitType", told[i], "Builder")])
    BY <1>5 DEF Told_PlaceBuildingFoundation
  <2>2. PICK t \in PlaceableTypes : \E tiles \in Footprints[t] :
               \E builders \in SUBSET {u \in DOMAIN objects : OwnUnit(p, u)} :
                 LET id   == nextObjectID
                     told == SetToSeq({u \in builders : objects[u].type # "Builder"})
                 IN  TellCommand(ToOwner(objects'[id], AddObject(id, objects'[id]))
                                   \o [i \in DOMAIN told |->
                                         Message("ChangeUnitType", told[i], "Builder")])
    BY <2>1
  <2>3. PICK builders \in SUBSET {u \in DOMAIN objects : OwnUnit(p, u)} :
                 LET id   == nextObjectID
                     told == SetToSeq({u \in builders : objects[u].type # "Builder"})
                 IN  TellCommand(ToOwner(objects'[id], AddObject(id, objects'[id]))
                                   \o [i \in DOMAIN told |->
                                         Message("ChangeUnitType", told[i], "Builder")])
    BY <2>2
  <2> DEFINE id    == nextObjectID
             turned == {u \in builders : objects[u].type # "Builder"}
             told  == SetToSeq(turned)
             added == ToOwner(objects'[id], AddObject(id, objects'[id]))
             types == [i \in DOMAIN told |-> Message("ChangeUnitType", told[i], "Builder")]
  <2>4. TellCommand(added \o types)
    BY <2>3
  <2>5. IsFiniteSet(turned)
    <3>1. turned \subseteq DOMAIN objects
      OBVIOUS
    <3> HIDE DEF turned
    <3> QED
      BY <3>1, FiniteObjects, FS_Subset DEF MatchInv, MapInv
  <2>6. Spoken(types)
    <3> HIDE DEF turned
    <3> QED
      BY <2>5, TurnedSpoken
  <2>7. Spoken(added)
    BY MessagesSpoken
  <2> HIDE DEF added, types, told, turned
  <2>8. Spoken(added \o types)
    BY <2>6, <2>7, SpokenTogether
  <2> QED
    BY <2>4, <2>8 DEF TellCommand
<1>6. CASE Told_DeleteObject
  BY <1>6, MessagesSpoken DEF Told_DeleteObject, TellCommand
<1>7. CASE Told_PlayerGone
  BY <1>0, <1>7 DEF Told_PlayerGone, TellCommand
<1>8. CASE Told_Polled
  BY <1>0, <1>8 DEF Told_Polled, TellVisit
<1>9. CASE Told_BeginStep
  BY <1>0, <1>9 DEF Told_BeginStep
<1>10. CASE Told_ContinueAttack
  BY <1>0, <1>10, MessagesSpoken DEF Told_ContinueAttack, TellVisit
<1>11. CASE Told_Move
  BY <1>11, MessagesSpoken, SpokenTogether DEF Told_Move, TellVisit
<1>12. CASE Told_Construct
  <2>1. PICK u \in UnitsToVisit :
          LET id == Ready(u).target
              b  == objects[id]
          IN  TellVisit(ChangeUnitType(u)
                 \o (IF IsFoundation(b) /\ b.owner # me THEN AddObject(id, b) ELSE <<>>)
                 \o <<Message("BuildPercentageUpdate", id, objects'[id].built)>>
                 \o HPUpdate(id) \o UnitMovement(u))
    BY <1>12 DEF Told_Construct
  <2> DEFINE id == Ready(u).target
             shown == IF IsFoundation(objects[id]) /\ objects[id].owner # me
                        THEN AddObject(id, objects[id]) ELSE <<>>
             built == <<Message("BuildPercentageUpdate", id, objects'[id].built)>>
  <2>2. TellVisit(ChangeUnitType(u) \o shown \o built \o HPUpdate(id) \o UnitMovement(u))
    BY <2>1
  <2>3. Spoken(shown) /\ Spoken(built)
    BY <1>0, MessagesSpoken DEF NewsTypes, ObjectMessages
  <2> HIDE DEF shown, built, id
  <2>4. Spoken(ChangeUnitType(u)) /\ Spoken(HPUpdate(id)) /\ Spoken(UnitMovement(u))
    BY MessagesSpoken
  <2>5. Spoken(ChangeUnitType(u) \o shown)
    BY <2>3, <2>4, SpokenTogether
  <2>6. Spoken((ChangeUnitType(u) \o shown) \o built)
    BY <2>3, <2>5, SpokenTogether
  <2>7. Spoken(((ChangeUnitType(u) \o shown) \o built) \o HPUpdate(id))
    BY <2>4, <2>6, SpokenTogether
  <2>8. Spoken((((ChangeUnitType(u) \o shown) \o built) \o HPUpdate(id)) \o UnitMovement(u))
    BY <2>4, <2>7, SpokenTogether
  <2> QED
    BY <2>2, <2>8 DEF TellVisit
<1>13. CASE Told_Gather
  <2>1. PICK u \in UnitsToVisit :
          TellVisit((IF objects'[u].carried = objects[u].carried THEN <<>>
                     ELSE SetCarriedResources(u)) \o ChangeUnitType(u) \o UnitMovement(u))
    BY <1>13 DEF Told_Gather
  <2> DEFINE load == IF objects'[u].carried = objects[u].carried THEN <<>>
                     ELSE SetCarriedResources(u)
  <2>2. Spoken(load) /\ Spoken(ChangeUnitType(u)) /\ Spoken(UnitMovement(u))
    BY <1>0, MessagesSpoken
  <2> HIDE DEF load
  <2>3. Spoken((load \o ChangeUnitType(u)) \o UnitMovement(u))
    BY <2>2, SpokenTogether
  <2> QED
    BY <2>1, <2>3 DEF load, TellVisit
<1>14. CASE Told_DropOff
  <2>1. PICK u \in UnitsToVisit :
          TellVisit(SetCarriedResources(u) \o ChangeUnitType(u) \o UnitMovement(u))
    BY <1>14 DEF Told_DropOff
  <2>2. Spoken((SetCarriedResources(u) \o ChangeUnitType(u)) \o UnitMovement(u))
    BY MessagesSpoken, SpokenTogether
  <2> QED
    BY <2>1, <2>2 DEF TellVisit
<1>15. CASE Told_StartProduction
  BY <1>15, MessagesSpoken DEF Told_StartProduction, TellVisit, NewsTypes,
                            ObjectMessages
<1>16. CASE Told_WaitForSpace
  BY <1>0, <1>16 DEF Told_WaitForSpace
<1>17. CASE Told_ContinueProduction
  BY <1>0, <1>17 DEF Told_ContinueProduction, TellVisit
<1>18. CASE Told_CompleteProduction
  <2>1. PICK b \in BuildingsToVisit :
          TellVisit(AddObject(nextObjectID, objects'[nextObjectID])
             \o ToOwner(objects[b], <<Message("RemoveFromProductionQueue", b, 1)>>))
    BY <1>18 DEF Told_CompleteProduction
  <2>2. /\ Spoken(AddObject(nextObjectID, objects'[nextObjectID]))
        /\ Spoken(<<Message("RemoveFromProductionQueue", b, 1)>>)
    BY MessagesSpoken DEF NewsTypes, ObjectMessages
  <2>3. Spoken(ToOwner(objects[b], <<Message("RemoveFromProductionQueue", b, 1)>>))
    BY <2>2, MessagesSpoken
  <2>4. Spoken(AddObject(nextObjectID, objects'[nextObjectID])
                 \o ToOwner(objects[b], <<Message("RemoveFromProductionQueue", b, 1)>>))
    BY <2>2, <2>3, SpokenTogether
  <2> QED
    BY <2>1, <2>4 DEF TellVisit
<1> QED
  BY <1>1, <1>2, <1>3, <1>4, <1>5, <1>6, <1>7, <1>8, <1>9, <1>10, <1>11, <1>12, <1>13, <1>14,
     <1>15, <1>16, <1>17, <1>18 DEF MatchNext

\* What is written in a step: everything that waits goes behind the time of the step.
LEMMA StepSpoken ==
    ASSUME Spoken(accumulated)
    PROVE  Spoken(NewsAtEnd)
<1> DEFINE h == IF housed = wasHoused THEN <<>> ELSE <<Message("SetHoused", 0, housed)>>
           r == IF resources[me] = lastResources THEN <<>>
                ELSE <<Message("ResourcesUpdate", 0, resources[me])>>
<1>1. Spoken(h) /\ Spoken(r)
  BY SpokenAlone, MessagesSpoken DEF NewsTypes
<1>2. NewsAtEnd = (accumulated \o h) \o r
  BY DEF NewsAtEnd
<1> HIDE DEF h, r
<1>3. Spoken(accumulated \o h)
  BY <1>1, SpokenTogether
<1>4. Spoken((accumulated \o h) \o r)
  BY <1>1, <1>3, SpokenTogether
<1> QED
  BY <1>2, <1>4

(***************************************************************************)
(* The outcome of the match.                                               *)
(***************************************************************************)
\* What a client shows of a player.
Outcomes == {"Playing", "Won"} \cup ExitReasons

\* c shows nobody as gone who is connected, and its player as the winner only if nobody
\* else is.
Truthful(c) ==
    /\ "players" \in DOMAIN c /\ c.players \in [Players -> Outcomes]
    /\ c.players[me] = "Won" => connected \subseteq {me}
    /\ \A p \in Players \ {me} : c.players[p] # "Playing" => p \notin connected

\* News of a player that has left is about one that is not connected.
TrueNews(m) ==
    m.type = "PlayerLeaveBroadcast" => m.id \in Players \ connected /\ m.value \in ExitReasons

\* The client is right about who is gone, and so is whatever it has still to handle.
OutcomeInv ==
    /\ me \in Players
    /\ Spoken(accumulated)
    /\ Listed(stream)
    /\ \A m \in Elements(stream) :
         m.type \in SpokenTypes \cup {"PlayerLeaveBroadcast"} /\ TrueNews(m)
    /\ Truthful(client)

\* The messages about objects leave what is shown of players alone.
LEMMA SpokenKeepsPlayers ==
    ASSUME NEW c, NEW m, m.type \in SpokenTypes, "players" \in DOMAIN c
    PROVE  /\ "players" \in DOMAIN ParseMessage(c, m)
           /\ ParseMessage(c, m).players = c.players
<1>1. CASE m.type \in ObjectMessages /\ m.id \notin DOMAIN c.objects
  BY <1>1 DEF ParseMessage
<1>2. CASE ~(m.type \in ObjectMessages /\ m.id \notin DOMAIN c.objects)
  <2>1. CASE m.type = "AddObject"
    BY <1>2, <2>1 DEF ParseMessage, HandleAddObject
  <2>2. CASE m.type = "ObjectDeath"
    BY <1>2, <2>2 DEF ParseMessage, HandleObjectDeath
  <2>3. CASE m.type = "UnitMovement"
    BY <1>2, <2>3 DEF ParseMessage, HandleUnitMovement
  <2>4. CASE m.type = "BuildPercentageUpdate"
    BY <1>2, <2>4 DEF ParseMessage, HandleBuildPercentageUpdate
  <2>5. CASE m.type = "ChangeUnitType"
    BY <1>2, <2>5 DEF ParseMessage, HandleChangeUnitType
  <2>6. CASE m.type = "SetCarriedResources"
    BY <1>2, <2>6 DEF ParseMessage, HandleSetCarriedResources
  <2>7. CASE m.type = "HPUpdate"
    BY <1>2, <2>7 DEF ParseMessage, HandleHPUpdate
  <2>8. CASE m.type = "QueueUnit"
    BY <1>2, <2>8 DEF ParseMessage, HandleQueueUnit
  <2>9. CASE m.type = "UpdateProduction"
    BY <1>2, <2>9 DEF ParseMessage, HandleUpdateProduction
  <2>10. CASE m.type = "RemoveFromProductionQueue"
    BY <1>2, <2>10 DEF ParseMessage, HandleRemoveFromProductionQueue
  <2>11. CASE m.type = "ResourcesUpdate"
    BY <1>2, <2>11 DEF ParseMessage
  <2>12. CASE m.type = "SetHoused"
    BY <1>2, <2>12 DEF ParseMessage
  <2>13. CASE m.type = "GameStepTime"
    BY <1>2, <2>13 DEF ParseMessage
  <2> QED
    BY <2>1, <2>2, <2>3, <2>4, <2>5, <2>6, <2>7, <2>8, <2>9, <2>10, <2>11, <2>12, <2>13
       DEF SpokenTypes, NewsTypes, ObjectMessages
<1> QED
  BY <1>1, <1>2

\* Handling news that is true leaves the client truthful: it calls its player the winner
\* when it has heard of every other that it left.
LEMMA TruthHandled ==
    ASSUME PlayersOK, me \in Players, NEW c, Truthful(c), NEW m, TrueNews(m),
           m.type \in SpokenTypes \cup {"PlayerLeaveBroadcast"}
    PROVE  Truthful(ParseMessage(c, m))
<1>1. CASE m.type \in SpokenTypes
  BY <1>1, SpokenKeepsPlayers DEF Truthful
<1>2. CASE m.type = "PlayerLeaveBroadcast"
  <2> DEFINE players == [c.players EXCEPT ![m.id] = m.value]
             last    == players[me] = "Playing" /\ \A p \in Players \ {me} : players[p] # "Playing"
             after   == IF last THEN [players EXCEPT ![me] = "Won"] ELSE players
  <2>1. ParseMessage(c, m) = [c EXCEPT !.players = after]
    BY <1>2 DEF ParseMessage, HandlePlayerLeaveBroadcast, ObjectMessages
  <2>2. m.id \in Players \ connected /\ m.value \in ExitReasons /\ c.players \in [Players -> Outcomes]
    BY <1>2 DEF TrueNews, Truthful
  <2>3. m.value \in Outcomes /\ m.value \notin {"Playing", "Won"}
    BY <2>2 DEF Outcomes, ExitReasons
  <2>4. /\ players \in [Players -> Outcomes]
        /\ \A p \in Players : players[p] = IF p = m.id THEN m.value ELSE c.players[p]
    BY <2>2, <2>3
  <2>5. /\ players[me] = "Won" => connected \subseteq {me}
        /\ \A p \in Players \ {me} : players[p] # "Playing" => p \notin connected
    BY <2>2, <2>3, <2>4 DEF Truthful
  <2> HIDE DEF players
  <2>6. last => connected \subseteq {me}
    BY <2>5 DEF PlayersOK
  <2>7. after \in [Players -> Outcomes] /\ \A p \in Players \ {me} : after[p] = players[p]
    BY <2>4 DEF Outcomes
  <2>8. after[me] = "Won" => last \/ players[me] = "Won"
    OBVIOUS
  <2> HIDE DEF after, last
  <2>9. "players" \in DOMAIN ParseMessage(c, m) /\ ParseMessage(c, m).players = after
    BY <2>1 DEF Truthful
  <2> QED
    BY <2>5, <2>6, <2>7, <2>8, <2>9 DEF Truthful
<1> QED
  BY <1>1, <1>2

\* And so after any number of messages.
LEMMA TruthAfter ==
    ASSUME PlayersOK, OutcomeInv, NEW n \in 0 .. Len(stream)
    PROVE  Truthful(Handled(n))
<1>1. Len(stream) \in Nat /\ DOMAIN stream = 1 .. Len(stream)
  BY LenProperties DEF OutcomeInv, Listed
<1> DEFINE N == {i \in Nat : i <= Len(stream) => Truthful(Handled(i))}
<1>2. 0 \in N
  BY HandledSteps DEF OutcomeInv
<1>3. ASSUME NEW i \in Nat, i \in N PROVE i + 1 \in N
  <2>1. SUFFICES ASSUME i + 1 <= Len(stream) PROVE Truthful(Handled(i + 1))
    OBVIOUS
  <2>2. i + 1 \in DOMAIN stream /\ i <= Len(stream)
    BY <1>1, <2>1
  <2>3. stream[i + 1] \in Elements(stream) /\ Truthful(Handled(i))
    BY <1>3, <2>2 DEF Elements
  <2>4. Truthful(ParseMessage(Handled(i), stream[i + 1]))
    BY <2>3, TruthHandled DEF OutcomeInv
  <2> QED
    BY <2>4, HandledSteps
<1> HIDE DEF N
<1>4. n \in N
  BY <1>1, <1>2, <1>3, SetInduction
<1> QED
  BY <1>1, <1>4 DEF N

\* What is written when a player leaves is true when it is written, and stays true.
LEMMA TrueBroadcast ==
    ASSUME MatchInv, Leaving
    PROVE  /\ Listed(LeaveBroadcast)
           /\ \A m \in Elements(LeaveBroadcast) :
                m.type = "PlayerLeaveBroadcast" /\ m.id \in Players \ connected' /\ m.value \in ExitReasons
<1> DEFINE left == {p \in Players : exitReason'[p] # exitReason[p]}
<1>1. CASE LeaveBroadcast = <<>>
  BY <1>1, FewListed
<1>2. CASE LeaveBroadcast # <<>>
  <2> DEFINE p == CHOOSE x \in left : TRUE
             m == Message("PlayerLeaveBroadcast", p, exitReason'[p])
  <2>1. left # {} /\ LeaveBroadcast = <<m>>
    BY <1>2 DEF LeaveBroadcast
  <2>2. p \in left
    BY <2>1
  <2> HIDE DEF p
  <2>3. p \in Players \ connected' /\ exitReason'[p] \in ExitReasons
    BY <2>2 DEF Leaving
  <2>4. m.type = "PlayerLeaveBroadcast" /\ m.id = p /\ m.value = exitReason'[p]
    BY DEF Message
  <2> HIDE DEF m
  <2> QED
    BY <2>1, <2>3, <2>4, FewListed
<1> QED
  BY <1>1, <1>2

\* Every step keeps what is shown, and what is on its way to be shown, true.
LEMMA OutcomeStep ==
    ASSUME MatchInv, OutcomeInv, [MatchNext]_allVars
    PROVE  OutcomeInv'
<1>1. Leaving
  BY LeaversGo, MatchIsNext
<1>2. connected' \subseteq connected /\ PlayersOK
  BY <1>1 DEF Leaving, MatchInv
<1> DEFINE Fine(m) == /\ m.type \in SpokenTypes \cup {"PlayerLeaveBroadcast"}
                      /\ m.type = "PlayerLeaveBroadcast"
                           => m.id \in Players \ connected' /\ m.value \in ExitReasons
<1>3. \A m \in Elements(stream) : Fine(m)
  BY <1>2 DEF OutcomeInv, TrueNews
<1>4. ASSUME NEW c, Truthful(c), me' = me, client' = c PROVE Truthful(client)'
  BY <1>2, <1>4 DEF Truthful
<1>5. ASSUME me' = me, Spoken(accumulated'), Listed(stream'), \A m \in Elements(stream') : Fine(m),
             Truthful(client)'
      PROVE  OutcomeInv'
  BY <1>5 DEF OutcomeInv, TrueNews, Spoken, Listed, Elements
<1> HIDE DEF Fine
<1>6. ASSUME NEW msgs, Spoken(msgs), Tell(msgs) PROVE OutcomeInv'
  <2>1. Spoken(accumulated')
    BY <1>6, SpokenTogether, SpokenAlone DEF Tell, OutcomeInv
  <2>2. Listed(stream') /\ Elements(stream') = Elements(stream) \cup Elements(LeaveBroadcast)
    <3>1. stream' = stream \o LeaveBroadcast /\ Listed(stream) /\ Listed(LeaveBroadcast)
      BY <1>1, <1>6, TrueBroadcast DEF Tell, OutcomeInv
    <3> QED
      BY <3>1, ConcatListed
  <2>3. \A m \in Elements(LeaveBroadcast) : Fine(m)
    BY <1>1, TrueBroadcast DEF Fine
  <2>4. me' = me /\ client' = client
    BY <1>6 DEF Tell
  <2> QED
    BY <1>3, <1>4, <1>5, <2>1, <2>2, <2>3, <2>4 DEF OutcomeInv
<1>7. CASE Told_EndStep
  <2> DEFINE t == <<Message("GameStepTime", 0, 0)>>
  <2>1. /\ Listed(t) /\ (\A m \in Elements(t) : m.type = "GameStepTime")
        /\ Spoken(NewsAtEnd)
    BY FewListed, StepSpoken DEF OutcomeInv, Message
  <2>2. me' = me /\ client' = client /\ accumulated' = <<>>
    BY <1>7 DEF Told_EndStep
  <2>3. stream' = stream \/ stream' = (stream \o t) \o NewsAtEnd
    BY <1>7 DEF Told_EndStep
  <2>4. \A m \in Elements(t) \cup Elements(NewsAtEnd) : Fine(m)
    BY <2>1 DEF Spoken, Fine, SpokenTypes, NewsTypes, ObjectMessages
  <2> HIDE DEF t
  <2>5. Listed(stream') /\ \A m \in Elements(stream') : Fine(m)
    <3>1. CASE stream' = stream
      BY <1>3, <3>1 DEF OutcomeInv
    <3>2. CASE stream' = (stream \o t) \o NewsAtEnd
      <4>1. Listed(stream) /\ Listed(t) /\ Listed(NewsAtEnd)
        BY <2>1 DEF OutcomeInv, Spoken
      <4>2. Listed(stream \o t) /\ Elements(stream \o t) = Elements(stream) \cup Elements(t)
        BY <4>1, ConcatListed
      <4>3. Listed(stream') /\ Elements(stream') = Elements(stream \o t) \cup Elements(NewsAtEnd)
        BY <3>2, <4>1, <4>2, ConcatListed
      <4> QED
        BY <1>3, <2>4, <4>2, <4>3
    <3> QED
      BY <2>3, <3>1, <3>2
  <2> QED
    BY <1>4, <1>5, <2>2, <2>5, SpokenAlone DEF OutcomeInv
<1>8. CASE ParseMessagesUntil
  <2>1. PICK n \in 1 .. Len(stream) : /\ client' = Handled(n) /\ stream' = After(n)
                                      /\ UNCHANGED serverVars
    BY <1>8 DEF ParseMessagesUntil
  <2>2. n \in 0 .. Len(stream)
    BY <2>1, LenProperties DEF OutcomeInv, Listed
  <2>3. Truthful(Handled(n)) /\ Listed(After(n)) /\ Elements(After(n)) \subseteq Elements(stream)
    BY <1>2, <2>2, TruthAfter, AfterListed DEF OutcomeInv
  <2>4. me' = me /\ accumulated' = accumulated
    BY <2>1 DEF serverVars
  <2> QED
    BY <1>3, <1>4, <1>5, <2>1, <2>3, <2>4 DEF OutcomeInv
<1>9. CASE PressResign
  <2>1. /\ me' = me /\ accumulated' = accumulated /\ stream' = stream
        /\ client' = [client EXCEPT !.players[me] = "Resign"]
    BY <1>9 DEF PressResign, serverVars
  <2> DEFINE c == [client EXCEPT !.players[me] = "Resign"]
  <2>2. c.players = [client.players EXCEPT ![me] = "Resign"] /\ "players" \in DOMAIN c
    BY DEF OutcomeInv, Truthful
  <2>3. c.players \in [Players -> Outcomes] /\ c.players[me] = "Resign"
        /\ \A p \in Players \ {me} : c.players[p] = client.players[p]
    BY <2>2 DEF OutcomeInv, Truthful, Outcomes, ExitReasons
  <2> HIDE DEF c
  <2>4. Truthful(c)
    BY <2>2, <2>3 DEF OutcomeInv, Truthful
  <2> QED
    BY <1>3, <1>4, <1>5, <2>1, <2>4 DEF OutcomeInv, c
<1>10. CASE UNCHANGED allVars
  <2>1. me' = me /\ accumulated' = accumulated /\ stream' = stream /\ client' = client
    BY <1>10 DEF allVars, serverVars, clientVars
  <2> QED
    BY <1>3, <1>4, <1>5, <2>1 DEF OutcomeInv
<1> QED
  BY <1>6, <1>7, <1>8, <1>9, <1>10, ServerSpeaks

\* At the start everybody plays.
LEMMA OutcomeInit == MatchInit => OutcomeInv
<1> SUFFICES ASSUME MatchInit PROVE OutcomeInv
  OBVIOUS
<1>1. /\ client.players = [p \in Players |-> "Playing"] /\ "players" \in DOMAIN client
      /\ me \in Players /\ stream = <<>> /\ accumulated = <<>>
  BY DEF MatchInit
<1>2. Truthful(client)
  BY <1>1 DEF Truthful, Outcomes
<1> QED
  BY <1>1, <1>2, FewListed, SpokenAlone DEF OutcomeInv

\* The invariant of the match holds while its clients watch it.
LEMMA WatchedMatch == MatchSpec => []MatchInv
<1>1. MatchInit => MatchInv
  BY MatchInvInit DEF MatchInit
<1>2. MatchInv /\ [MatchNext]_allVars => MatchInv'
  BY MatchIsNext, MatchStep
<1> QED
  BY <1>1, <1>2, PTL DEF MatchSpec

\* HandlePlayerLeaveBroadcast and RemovePlayer: a client that calls its player the winner,
\* or another one gone, is right, whatever it has or has not handled yet.
THEOREM OutcomeAlwaysTrue == MatchSpec => []OutcomeTrue
<1>1. OutcomeInv => OutcomeTrue
  BY DEF OutcomeInv, Truthful, OutcomeTrue
<1>2. MatchInv /\ OutcomeInv /\ [MatchNext]_allVars => OutcomeInv'
  BY OutcomeStep
<1> QED
  BY <1>1, <1>2, OutcomeInit, WatchedMatch, PTL DEF MatchSpec
-----------------------------------------------------------------------------
(***************************************************************************)
(* What a client counts.                                                   *)
(***************************************************************************)
\* What a client's counters make of an object: a villager is a villager, whatever its
\* trade, and only what is built of a building counts.
Class(t) == IF t \in VillagerTypes THEN "Villager" ELSE t

Seen(o) == [owner |-> o.owner, type |-> Class(o.type), production |-> 0,
            built |-> IF IsUnit(o) THEN 0 ELSE o.built]

(***************************************************************************)
(* An object stays what it is as long as it is on the map: its owner's, of *)
(* its class, and no less built.                                           *)
(***************************************************************************)
Lasts(a, b) ==
    /\ b.owner = a.owner /\ Class(b.type) = Class(a.type)
    /\ IsBuilding(a) => /\ IsCompleted(a) => IsCompleted(b)
                        /\ IsFoundation(b) => IsFoundation(a)

\* What is on the map after a step is new or was there before.
AllLast ==
    /\ nextObjectID \in Nat /\ nextObjectID' \in Nat /\ nextObjectID <= nextObjectID'
    /\ \A i \in DOMAIN objects' :
         i >= nextObjectID \/ (i \in DOMAIN objects /\ Lasts(objects[i], objects'[i]))

\* Most steps give out no ID.
LEMMA LastsUnchanged ==
    ASSUME MatchInv, nextObjectID' = nextObjectID, DOMAIN objects' \subseteq DOMAIN objects,
           \A i \in DOMAIN objects' : objects'[i] = objects[i] \/ Lasts(objects[i], objects'[i])
    PROVE  AllLast
<1>1. nextObjectID \in Nat
  BY DEF MatchInv, MapInv, MapOK
<1>2. \A i : Lasts(objects[i], objects[i])
  BY DEF Lasts
<1> QED
  BY <1>1, <1>2 DEF AllLast

\* One object has changed.
LEMMA LastsOne ==
    ASSUME MatchInv, nextObjectID' = nextObjectID, NEW x \in DOMAIN objects, NEW v,
           objects' = [objects EXCEPT ![x] = v], Lasts(objects[x], v)
    PROVE  AllLast
<1>1. /\ DOMAIN objects' = DOMAIN objects /\ objects'[x] = v
      /\ \A i \in DOMAIN objects \ {x} : objects'[i] = objects[i]
  OBVIOUS
<1>2. \A i \in DOMAIN objects' : objects'[i] = objects[i] \/ Lasts(objects[i], objects'[i])
  BY <1>1
<1> QED
  BY <1>1, <1>2, LastsUnchanged

\* The unit v may do what unit u does, and is as well.
SameTrade(u, v) ==
    v \in Units /\ v.owner = u.owner /\ v.hp = u.hp /\ Class(v.type) = Class(u.type)

\* Only a villager is sent to build or to gather.
LEMMA SentKeepsTrade ==
    ASSUME NEW u \in Units, NEW t, NEW isManual, SetTarget(u, t, isManual) \in Units
    PROVE  /\ SameTrade(u, SetTarget(u, t, isManual))
           /\ SetTarget(u, t, isManual).carried = u.carried
           /\ SetTarget(u, t, isManual).attacking = u.attacking
<1> DEFINE type2 == CASE Interaction(u, objects[t]) = "Construct" -> "Builder"
                      [] Interaction(u, objects[t]) = "Collect"   -> "Lumberjack"
                      [] OTHER                                    -> u.type
           target2 == IF u.attacking THEN u.target ELSE t
           manual2 == IF isManual THEN t ELSE u.manual
<1>1. SetTarget(u, t, isManual) =
        IF Interaction(u, objects[t]) = "Invalid" THEN u
        ELSE [u EXCEPT !.type = type2, !.moving = TRUE, !.target = target2, !.manual = manual2]
  BY DEF SetTarget
<1>2. Interaction(u, objects[t]) \in {"Construct", "Collect"} => u.type \in VillagerTypes
  BY DEF Interaction, IsVillager
<1>3. Class(type2) = Class(u.type)
  BY <1>2 DEF Class, VillagerTypes
<1> HIDE DEF type2, target2, manual2
<1> QED
  BY <1>1, <1>3 DEF SameTrade, Units

\* It gets ready for its visit as what it is.
LEMMA ReadyKeepsTrade ==
    ASSUME MapInv, NEW u \in DOMAIN objects, IsUnit(objects[u])
    PROVE  SameTrade(objects[u], Ready(u)) /\ Ready(u).carried = objects[u].carried
<1> DEFINE o      == objects[u]
           rested == [o EXCEPT !.clock = 0]
           sent   == SetTarget(rested, o.manual, FALSE)
           unit   == AfterAttack(o)
<1>1. MapOK /\ Fits(u, o)
  BY UnitFits DEF MapInv
<1>2. o \in Units /\ SameTrade(o, o)
  BY <1>1 DEF Fits, SameTrade
<1>3. Fits(u, rested) /\ SameTrade(o, rested) /\ rested.carried = o.carried
  BY <1>1, <1>2, Sizes DEF Fits, Units, SameTrade
<1>4. CASE o.attacking /\ o.manual \in DOMAIN objects
  <2>1. Fits(u, sent)
    BY <1>1, <1>3, <1>4, SetTargetFits
  <2>2. rested \in Units /\ sent \in Units
    BY <1>3, <2>1 DEF Fits
  <2>3. unit = sent
    BY <1>4 DEF AfterAttack
  <2> DEFINE r == rested
  <2> HIDE DEF rested
  <2>4. /\ SameTrade(r, SetTarget(r, o.manual, FALSE))
        /\ SetTarget(r, o.manual, FALSE).carried = r.carried
    BY <2>2, SentKeepsTrade
  <2>5. SameTrade(o, unit) /\ unit.carried = o.carried
    BY <1>3, <2>3, <2>4 DEF SameTrade
  <2> HIDE DEF unit, o, sent
  <2>6. /\ SameTrade(o, [unit EXCEPT !.target = NoObject])
        /\ [unit EXCEPT !.target = NoObject].carried = o.carried
    BY <2>5 DEF SameTrade, Units
  <2> QED
    BY <2>5, <2>6 DEF Ready, unit, o
<1>5. CASE ~(o.attacking /\ o.manual \in DOMAIN objects)
  <2>1. SameTrade(o, unit) /\ unit.carried = o.carried
    BY <1>2, <1>3, <1>5 DEF AfterAttack
  <2> HIDE DEF unit, o
  <2>2. /\ SameTrade(o, [unit EXCEPT !.target = NoObject])
        /\ [unit EXCEPT !.target = NoObject].carried = o.carried
    BY <2>1 DEF SameTrade, Units
  <2> QED
    BY <2>1, <2>2 DEF Ready, unit, o
<1> QED
  BY <1>4, <1>5

\* What it does and how it walks makes nothing else of it.
LEMMA ActingKeepsTrade ==
    ASSUME NEW u, NEW v, SameTrade(u, v)
    PROVE  /\ SameTrade(u, Acts(v)) /\ SameTrade(u, Attacks(v)) /\ SameTrade(u, StopMovement(v))
           /\ \A w \in Walked(v) : SameTrade(u, w)
           /\ \A n \in 0 .. CarryCapacity : SameTrade(u, [v EXCEPT !.carried = n])
           /\ Acts(v).carried = v.carried /\ Attacks(v).carried = v.carried
           /\ StopMovement(v).carried = v.carried /\ \A w \in Walked(v) : w.carried = v.carried
<1>1. 0 \in 0 .. AttackTime
  BY Sizes
<1>2. /\ SameTrade(u, Acts(v)) /\ SameTrade(u, Attacks(v))
      /\ Acts(v).carried = v.carried /\ Attacks(v).carried = v.carried
  BY <1>1 DEF SameTrade, Units, Acts, Attacks
<1>3. SameTrade(u, StopMovement(v)) /\ StopMovement(v).carried = v.carried
  BY <1>2 DEF SameTrade, Units, StopMovement
<1>4. \A n \in 0 .. CarryCapacity : SameTrade(u, [v EXCEPT !.carried = n])
  BY DEF SameTrade, Units
<1> QED
  BY <1>2, <1>3, <1>4 DEF Walked

\* A unit of that kind lasts.
LEMMA TradeLasts ==
    ASSUME NEW u, IsUnit(u), NEW v, SameTrade(u, v)
    PROVE  Lasts(u, v)
<1>1. ~IsBuilding(u)
  BY TypesDisjoint DEF IsUnit, IsBuilding
<1> QED
  BY <1>1 DEF SameTrade, Lasts

\* One unit, of all objects, is another one, and does what it did.
OneBecomes(u) ==
    /\ u \in DOMAIN objects /\ IsUnit(objects[u]) /\ SameTrade(objects[u], objects'[u])
    /\ DOMAIN objects' = DOMAIN objects
    /\ \A i \in DOMAIN objects \ {u} : objects'[i] = objects[i]

\* A unit that has turned into another one of its trade.
LEMMA BecomesLasts ==
    ASSUME MatchInv, NEW u, NEW v, UnitBecomes(u, v), SameTrade(objects[u], v),
           nextObjectID' = nextObjectID
    PROVE  AllLast /\ OneBecomes(u) /\ objects'[u] = v
<1>1. u \in DOMAIN objects /\ IsUnit(objects[u]) /\ objects' = [objects EXCEPT ![u] = v]
  BY Visited DEF UnitBecomes
<1> QED
  BY <1>1, TradeLasts, LastsOne DEF OneBecomes

\* A visited unit other than one that swings or builds.
LEMMA VisitLasts ==
    ASSUME MatchInv, NEW u,
           Walk(u) \/ BeginAttack(u) \/ ConstructionBlocked(u) \/ Gather(u) \/ DropOff(u)
    PROVE  /\ AllLast /\ OneBecomes(u)
           /\ Walk(u) \/ BeginAttack(u) \/ ConstructionBlocked(u)
                => objects'[u].carried = objects[u].carried
<1> DEFINE unit == Ready(u)
<1>1. nextObjectID' = nextObjectID
  BY DEF Walk, BeginAttack, ConstructionBlocked, Gather, DropOff
<1>2. PICK v : UnitBecomes(u, v) /\ Fits(u, v)
  BY UnitBecomesStep
<1>3. /\ u \in DOMAIN objects /\ IsUnit(objects[u]) /\ MapInv /\ v \in Units
      /\ Fits(u, unit)
  BY <1>2, Visited DEF Fits
<1>4. \A w : UnitBecomes(u, w) => w = v
  BY <1>2, <1>3 DEF UnitBecomes
<1>5. SameTrade(objects[u], unit) /\ unit.carried = objects[u].carried
  BY <1>3, ReadyKeepsTrade
<1>6. \A t : unit.carried \in 0 .. CarryCapacity
  BY <1>3 DEF Fits, Units
<1>7. ASSUME NEW r, SameTrade(objects[u], r), NEW t, NEW isManual, v = SetTarget(r, t, isManual)
      PROVE  SameTrade(objects[u], v)
  BY <1>3, <1>7, SentKeepsTrade DEF SameTrade
<1>8. ASSUME Walk(u)
      PROVE  AllLast /\ OneBecomes(u) /\ objects'[u].carried = objects[u].carried
  <2>1. PICK w \in IF unit.moving THEN Walked(unit) ELSE {unit} : UnitBecomes(u, w)
    BY <1>8 DEF Walk
  <2> HIDE DEF unit
  <2>2. SameTrade(objects[u], w) /\ w.carried = objects[u].carried
    BY <1>5, <2>1, ActingKeepsTrade
  <2>3. AllLast /\ OneBecomes(u) /\ objects'[u] = w
    BY <1>1, <2>1, <2>2, BecomesLasts
  <2> QED
    BY <2>2, <2>3
<1>9. ASSUME BeginAttack(u) \/ ConstructionBlocked(u)
      PROVE  AllLast /\ OneBecomes(u) /\ objects'[u].carried = objects[u].carried
  <2>1. UnitBecomes(u, Attacks(unit)) \/ UnitBecomes(u, StopMovement(unit))
    BY <1>9 DEF BeginAttack, ConstructionBlocked
  <2> HIDE DEF unit
  <2>2. /\ SameTrade(objects[u], Attacks(unit)) /\ SameTrade(objects[u], StopMovement(unit))
        /\ Attacks(unit).carried = objects[u].carried
        /\ StopMovement(unit).carried = objects[u].carried
    BY <1>5, ActingKeepsTrade
  <2>3. /\ AllLast /\ OneBecomes(u)
        /\ objects'[u] = Attacks(unit) \/ objects'[u] = StopMovement(unit)
    BY <1>1, <2>1, <2>2, BecomesLasts
  <2> QED
    BY <2>2, <2>3
<1>10. CASE Gather(u)
  <2> DEFINE carried2 == IF unit.carried < CarryCapacity THEN unit.carried + 1 ELSE unit.carried
             more == [unit EXCEPT !.carried = carried2]
  <2>1. PICK w : UnitBecomes(u, w) /\ \/ w = Acts(more)
                                      \/ w \in Walked(more)
                                      \/ \E d \in DropOffPoints(unit.owner) :
                                           w = SetTarget(more, d, FALSE)
    BY <1>10 DEF Gather
  <2>2. carried2 \in 0 .. CarryCapacity
    BY <1>6, Sizes
  <2> HIDE DEF unit, carried2
  <2>3. SameTrade(objects[u], more)
    BY <1>5, <2>2, ActingKeepsTrade
  <2> HIDE DEF more
  <2>4. SameTrade(objects[u], Acts(more)) /\ \A x \in Walked(more) : SameTrade(objects[u], x)
    BY <2>3, ActingKeepsTrade
  <2>5. SameTrade(objects[u], w)
    BY <1>4, <1>7, <2>1, <2>3, <2>4
  <2>6. AllLast /\ OneBecomes(u)
    BY <1>1, <2>1, <2>5, BecomesLasts
  <2>7. ~(Walk(u) \/ BeginAttack(u) \/ ConstructionBlocked(u))
          \/ objects'[u].carried = objects[u].carried
    BY <1>8, <1>9
  <2> QED
    BY <2>6, <2>7
<1>11. CASE DropOff(u)
  <2> DEFINE empty == Unloaded(unit)
  <2>1. PICK w : UnitBecomes(u, w) /\ \/ w = StopMovement(empty)
                                      \/ w \in Walked(empty)
                                      \/ w = SetTarget(empty, unit.manual, FALSE)
    BY <1>11 DEF DropOff
  <2>2. 0 \in 0 .. CarryCapacity
    BY Sizes
  <2> DEFINE m == unit.manual
  <2> HIDE DEF unit
  <2>3. SameTrade(objects[u], empty)
    BY <1>5, <2>2, ActingKeepsTrade DEF Unloaded
  <2> HIDE DEF empty
  <2>4. SameTrade(objects[u], StopMovement(empty)) /\ \A x \in Walked(empty) : SameTrade(objects[u], x)
    BY <2>3, ActingKeepsTrade
  <2>5. SameTrade(objects[u], w)
    BY <1>4, <1>7, <2>1, <2>3, <2>4
  <2>6. AllLast /\ OneBecomes(u)
    BY <1>1, <2>1, <2>5, BecomesLasts
  <2>7. ~(Walk(u) \/ BeginAttack(u) \/ ConstructionBlocked(u))
          \/ objects'[u].carried = objects[u].carried
    BY <1>8, <1>9
  <2> QED
    BY <2>6, <2>7
<1> QED
  BY <1>8, <1>9, <1>10, <1>11

\* An attack takes hit points only.
LEMMA AttackLasts ==
    ASSUME MatchInv, NEW u, ContinueAttack(u)
    PROVE  AllLast
<1> DEFINE swung == [objects EXCEPT ![u].clock = @ + 1]
           t == objects[u].target
           hits == objects[u].clock + 1 = DamageTime /\ t \in DOMAIN objects
           hit == [swung EXCEPT ![t].hp = IF @ > 1 THEN @ - 1 ELSE @]
<1>1. u \in DOMAIN objects /\ objects' = IF hits THEN hit ELSE swung
  BY DEF ContinueAttack, VisitUnit, Visit, MatchInv, MapInv, MapOK
<1>2. \A i \in DOMAIN objects : objects[i] \in Units \cup Buildings
  BY DEF MatchInv, MapInv, MapOK
<1>3. DOMAIN swung = DOMAIN objects /\ \A i \in DOMAIN objects : swung[i] =
        IF i = u THEN [objects[u] EXCEPT !.clock = objects[u].clock + 1] ELSE objects[i]
  BY <1>1
<1>4. \A i \in DOMAIN objects : /\ swung[i].owner = objects[i].owner
                                /\ swung[i].type = objects[i].type
                                /\ IsBuilding(objects[i]) => swung[i].built = objects[i].built
  BY <1>2, <1>3, Kinds DEF Units, Buildings
<1> HIDE DEF swung
<1>5. DOMAIN hit = DOMAIN objects /\ \A i \in DOMAIN objects :
        /\ hit[i].owner = swung[i].owner /\ hit[i].type = swung[i].type
        /\ IsBuilding(objects[i]) => hit[i].built = swung[i].built
  BY <1>2, <1>3, Kinds DEF Units, Buildings
<1> HIDE DEF hit
<1>6. /\ DOMAIN objects' = DOMAIN objects
      /\ \A i \in DOMAIN objects : /\ objects'[i].owner = objects[i].owner
                                   /\ objects'[i].type = objects[i].type
                                   /\ IsBuilding(objects[i]) => objects'[i].built = objects[i].built
  BY <1>1, <1>3, <1>4, <1>5
<1>7. \A i \in DOMAIN objects : Lasts(objects[i], objects'[i])
  BY <1>6 DEF Lasts, IsCompleted, IsFoundation
<1>8. nextObjectID' = nextObjectID
  BY DEF ContinueAttack
<1> QED
  BY <1>6, <1>7, <1>8, LastsUnchanged

\* A building is built, and not torn down again.
LEMMA ConstructLasts ==
    ASSUME MatchInv, NEW u, Construct(u)
    PROVE  /\ AllLast
           /\ LET id == Ready(u).target
              IN  /\ id \in DOMAIN objects /\ IsBuilding(objects[id]) /\ id # u
                  /\ u \in DOMAIN objects /\ IsUnit(objects[u])
                  /\ DOMAIN objects' = DOMAIN objects
                  /\ Class(objects'[u].type) = Class(objects[u].type)
                  /\ objects'[u].type \in UnitTypes
                  /\ objects'[id].type = objects[id].type /\ objects'[id].owner = objects[id].owner
                  /\ objects'[id].built \in 1 .. BuildSteps
                  /\ IsCompleted(objects[id]) => IsCompleted(objects'[id])
                  /\ objects'[id].queue = objects[id].queue
                  /\ objects'[id].production = objects[id].production
                  /\ SameTrade(objects[u], objects'[u]) /\ objects'[u].carried = objects[u].carried
                  /\ \A i \in DOMAIN objects \ {u, id} : objects'[i] = objects[i]
<1> DEFINE unit   == Ready(u)
           id     == unit.target
           b      == objects[id]
           built2 == IF b.built < BuildSteps THEN b.built + 1 ELSE BuildSteps
           hp2    == IF b.hp < BuildSteps THEN b.hp + 1 ELSE BuildSteps
           b2     == [b EXCEPT !.built = built2, !.hp = hp2]
           a      == Acts(unit)
<1>1. /\ MapInv /\ MapOK /\ u \in DOMAIN objects /\ IsUnit(objects[u])
  BY DEF MatchInv, MapInv, MapOK, Construct, VisitUnit, Visit
<1>2. id \in DOMAIN objects /\ Interaction(unit, b) = "Construct"
  BY <1>1, ReadyTarget DEF Construct, Reaches
<1>3. IsBuilding(b)
  BY <1>2 DEF Interaction
<1>4. b \in Buildings /\ ~IsUnit(b) /\ id # u
  BY <1>1, <1>2, <1>3, Kinds DEF MapOK
<1>5. /\ b2.owner = b.owner /\ b2.type = b.type /\ b2.built = built2
      /\ b2.queue = b.queue /\ b2.production = b.production
  BY <1>4 DEF Buildings
<1>6. built2 \in 1 .. BuildSteps /\ (IsCompleted(b) => built2 = BuildSteps)
  <2>1. b.built \in 0 .. BuildSteps
    BY <1>4 DEF Buildings
  <2> HIDE DEF b
  <2> QED
    BY <2>1, Sizes DEF IsCompleted
<1>7. SameTrade(objects[u], a) /\ a.carried = objects[u].carried
  BY <1>1, ReadyKeepsTrade, ActingKeepsTrade
<1>8. objects' = [objects EXCEPT ![u] = a, ![id] = b2]
  BY DEF Construct
<1> HIDE DEF b2, a, built2
<1>9. /\ DOMAIN objects' = DOMAIN objects
      /\ objects'[u] = a /\ objects'[id] = b2
      /\ \A i \in DOMAIN objects \ {u, id} : objects'[i] = objects[i]
  BY <1>1, <1>2, <1>4, <1>8
<1>10. Lasts(objects[u], a)
  BY <1>1, <1>7, TradeLasts
<1>11. Lasts(b, b2)
  BY <1>5, <1>6 DEF Lasts, IsCompleted, IsFoundation
<1>12. nextObjectID' = nextObjectID
  BY DEF Construct
<1>13. AllLast
  BY <1>9, <1>10, <1>11, <1>12, LastsUnchanged
<1> QED
  BY <1>1, <1>2, <1>3, <1>4, <1>5, <1>6, <1>7, <1>9, <1>13 DEF SameTrade, Units, IsCompleted

\* A queue is not what counts.
LEMMA QueueLasts ==
    ASSUME MatchInv, NEW b \in DOMAIN objects, IsBuilding(objects[b]), NEW b2,
           objects' = [objects EXCEPT ![b] = b2], b2.owner = objects[b].owner,
           b2.type = objects[b].type, b2.built = objects[b].built, nextObjectID' = nextObjectID
    PROVE  AllLast
<1>1. Lasts(objects[b], b2)
  BY DEF Lasts, IsCompleted, IsFoundation
<1> QED
  BY <1>1, LastsOne

\* A production that starts or goes on.
LEMMA ProductionLasts ==
    ASSUME MatchInv, NEW b, StartProduction(b) \/ ContinueProduction(b)
    PROVE  AllLast
<1>1. b \in DOMAIN objects /\ IsBuilding(objects[b]) /\ objects[b] \in Buildings
  BY Kinds DEF StartProduction, ContinueProduction, VisitBuilding, Visit, MatchInv, MapInv, MapOK
<1>2. \E n : objects' = [objects EXCEPT ![b].production = n]
  BY DEF StartProduction, ContinueProduction
<1>3. PICK n : objects' = [objects EXCEPT ![b].production = n]
  BY <1>2
<1> DEFINE b2 == [objects[b] EXCEPT !.production = n]
<1>4. b2.owner = objects[b].owner /\ b2.type = objects[b].type /\ b2.built = objects[b].built
  BY <1>1 DEF Buildings
<1>5. objects' = [objects EXCEPT ![b] = b2]
  BY <1>3
<1>6. nextObjectID' = nextObjectID
  BY DEF StartProduction, ContinueProduction
<1> HIDE DEF b2
<1> QED
  BY <1>1, <1>4, <1>5, <1>6, QueueLasts

\* A unit that is produced is a new object.
LEMMA CompleteLasts ==
    ASSUME MatchInv, NEW b, CompleteProduction(b)
    PROVE  /\ AllLast
           /\ nextObjectID \in DOMAIN objects' /\ nextObjectID' = nextObjectID + 1
           /\ objects'[nextObjectID] \in Units
<1> DEFINE id   == nextObjectID
           unit == NewUnit(objects[b].owner, Head(objects[b].queue))
           b2   == [objects[b] EXCEPT !.queue = Tail(@), !.production = 0]
<1>1. /\ MapInv /\ MapOK
      /\ b \in DOMAIN objects /\ IsBuilding(objects[b]) /\ objects[b].queue # <<>>
  BY DEF CompleteProduction, MatchInv, MapInv, MapOK
<1>2. objects[b] \in Buildings /\ objects[b].owner \in Players
  BY <1>1, Producer
<1>3. id \notin DOMAIN objects /\ id \in Nat
  BY <1>1 DEF MapOK
<1>4. objects' = [i \in DOMAIN objects \cup {id} |->
                    IF i = id THEN unit ELSE IF i = b THEN b2 ELSE objects[i]]
  BY DEF CompleteProduction
<1>5. Head(objects[b].queue) \in UnitTypes
  BY <1>1, <1>2 DEF Buildings
<1>6. unit \in Units
  BY <1>2, <1>5, Sizes DEF NewUnit, Units, NoObject
<1>7. b2.owner = objects[b].owner /\ b2.type = objects[b].type /\ b2.built = objects[b].built
  BY <1>2 DEF Buildings
<1> HIDE DEF unit, b2
<1>8. Lasts(objects[b], b2) /\ \A i : Lasts(objects[i], objects[i])
  BY <1>7 DEF Lasts, IsCompleted, IsFoundation
<1>9. nextObjectID' = nextObjectID + 1
  BY DEF CompleteProduction
<1>10. \A i \in DOMAIN objects' : i >= id \/ (i \in DOMAIN objects /\ Lasts(objects[i], objects'[i]))
  BY <1>3, <1>4, <1>8
<1>11. AllLast
  BY <1>3, <1>9, <1>10 DEF AllLast
<1> QED
  BY <1>4, <1>6, <1>9, <1>11

\* The villagers that are sent to a new foundation become builders.
LEMMA PlaceLasts ==
    ASSUME MatchInv, NEW p \in Players, NEW t \in PlaceableTypes, NEW tiles, NEW builders,
           HandlePlaceBuildingFoundation(p, t, tiles, builders)
    PROVE  /\ AllLast
           /\ nextObjectID \in DOMAIN objects' /\ nextObjectID' = nextObjectID + 1
           /\ objects'[nextObjectID] = NewBuilding(p, t, tiles, 0)
<1> DEFINE id == nextObjectID
           foundation == NewBuilding(p, t, tiles, 0)
           Sent(u) == [objects[u] EXCEPT !.type   = "Builder",
                                         !.moving = TRUE,
                                         !.target = IF objects[u].attacking
                                                      THEN @ ELSE id,
                                         !.manual = id]
<1>1. MapInv /\ MapOK
  BY DEF MatchInv, MapInv
<1>2. id \notin DOMAIN objects /\ id \in Nat
  BY <1>1 DEF MapOK
<1>3. \A u \in builders : u \in DOMAIN objects /\ IsUnit(objects[u]) /\ IsVillager(objects[u])
  BY DEF HandlePlaceBuildingFoundation, OwnUnit
<1>4. objects' = [i \in DOMAIN objects \cup {id} |->
                    IF i = id THEN foundation
                    ELSE IF i \in builders THEN Sent(i) ELSE objects[i]]
  BY DEF HandlePlaceBuildingFoundation
<1>5. ASSUME NEW u \in builders PROVE Lasts(objects[u], Sent(u))
  <2>1. objects[u] \in Units /\ ~IsBuilding(objects[u]) /\ objects[u].type \in VillagerTypes
    BY <1>1, <1>3, <1>5, Kinds DEF MapOK, IsVillager
  <2>2. Sent(u).owner = objects[u].owner /\ Sent(u).type = "Builder"
    BY <2>1 DEF Units
  <2> HIDE DEF Sent
  <2> QED
    BY <2>1, <2>2 DEF Lasts, Class, VillagerTypes
<1> HIDE DEF foundation, Sent
<1>6. \A i : Lasts(objects[i], objects[i])
  BY DEF Lasts
<1>7. nextObjectID' = nextObjectID + 1
  BY DEF HandlePlaceBuildingFoundation
<1>8. \A i \in DOMAIN objects' : i >= id \/ (i \in DOMAIN objects /\ Lasts(objects[i], objects'[i]))
  BY <1>2, <1>4, <1>5, <1>6
<1>9. AllLast
  BY <1>2, <1>7, <1>8 DEF AllLast
<1> QED
  BY <1>4, <1>7, <1>9 DEF foundation

\* The commands.
LEMMA CommandLasts ==
    ASSUME MatchInv, NEW p \in Players, Command(p)
    PROVE  AllLast
<1>1. ASSUME NEW u \in DOMAIN objects, HandleMoveToMapCoord(p, u) PROVE AllLast
  <2> DEFINE v == [objects[u] EXCEPT !.moving = TRUE, !.target = NoObject, !.manual = NoObject]
  <2>1. objects' = [objects EXCEPT ![u] = v] /\ IsUnit(objects[u]) /\ nextObjectID' = nextObjectID
    BY <1>1 DEF HandleMoveToMapCoord, OwnUnit
  <2>2. objects[u] \in Units
    BY <2>1, Kinds DEF MatchInv, MapInv, MapOK
  <2>3. SameTrade(objects[u], v)
    BY <2>2 DEF SameTrade, Units, NoObject
  <2> HIDE DEF v
  <2> QED
    BY <2>1, <2>3, TradeLasts, LastsOne
<1>2. ASSUME NEW u \in DOMAIN objects, NEW t \in DOMAIN objects, HandleSetTarget(p, u, t)
      PROVE  AllLast
  <2> DEFINE v == SetTarget(objects[u], t, TRUE)
  <2>1. objects' = [objects EXCEPT ![u] = v] /\ IsUnit(objects[u]) /\ nextObjectID' = nextObjectID
    BY <1>2 DEF HandleSetTarget, OwnUnit
  <2>2. MapInv /\ MapOK /\ objects[u] \in Units
    BY <2>1, Kinds DEF MatchInv, MapInv, MapOK
  <2>3. v \in Units
    BY <2>1, <2>2, UnitFits, SetTargetFits DEF Fits
  <2>4. SameTrade(objects[u], v)
    BY <2>2, <2>3, SentKeepsTrade
  <2> HIDE DEF v
  <2> QED
    BY <2>1, <2>4, TradeLasts, LastsOne
<1>3. ASSUME NEW b \in DOMAIN objects, NEW t, HandleProduceUnit(p, b, t) PROVE AllLast
  <2> DEFINE b2 == [objects[b] EXCEPT !.queue = Append(objects[b].queue, t)]
  <2>1. objects' = [objects EXCEPT ![b] = b2] /\ IsBuilding(objects[b]) /\ nextObjectID' = nextObjectID
    BY <1>3 DEF HandleProduceUnit, OwnBuilding
  <2>2. objects[b] \in Buildings
    BY <2>1, Kinds DEF MatchInv, MapInv, MapOK
  <2>3. b2.owner = objects[b].owner /\ b2.type = objects[b].type /\ b2.built = objects[b].built
    BY <2>2 DEF Buildings
  <2> HIDE DEF b2
  <2> QED
    BY <2>1, <2>3, QueueLasts
<1>4. ASSUME NEW b \in DOMAIN objects, NEW k, HandleDequeueProductionQueueItem(p, b, k)
      PROVE  AllLast
  <2> DEFINE b2 == Dequeued(objects[b], Len(objects[b].queue) - k)
  <2>1. objects' = [objects EXCEPT ![b] = b2] /\ IsBuilding(objects[b]) /\ nextObjectID' = nextObjectID
    BY <1>4 DEF HandleDequeueProductionQueueItem, OwnBuilding
  <2>2. objects[b] \in Buildings
    BY <2>1, Kinds DEF MatchInv, MapInv, MapOK
  <2>3. b2.owner = objects[b].owner /\ b2.type = objects[b].type /\ b2.built = objects[b].built
    BY <2>2 DEF Dequeued, Buildings
  <2> HIDE DEF b2
  <2> QED
    BY <2>1, <2>3, QueueLasts
<1>5. ASSUME NEW t \in PlaceableTypes, NEW tiles, NEW builders,
             HandlePlaceBuildingFoundation(p, t, tiles, builders)
      PROVE  AllLast
  BY <1>5, PlaceLasts
<1>6. ASSUME NEW id, HandleDeleteObject(p, id) PROVE AllLast
  BY <1>6, LastsUnchanged DEF HandleDeleteObject
<1>7. CASE Resign(p) \/ Drop(p)
  BY <1>7, LastsUnchanged DEF Resign, Drop, PlayerGone
<1> QED
  BY <1>1, <1>2, <1>3, <1>4, <1>5, <1>6, <1>7 DEF Command

\* Whatever happens in a step.
LEMMA StepLasts ==
    ASSUME MatchInv, [Next]_vars
    PROVE  AllLast
<1>1. ASSUME NEW p \in Players, Command(p) PROVE AllLast
  BY <1>1, CommandLasts
<1>2. ASSUME NEW id \in todo, VisitObject(id) PROVE AllLast
  <2>1. CASE WaitForSpace(id)
    BY <2>1, LastsUnchanged DEF WaitForSpace
  <2>2. CASE ContinueAttack(id) \/ Construct(id)
    BY <2>2, AttackLasts, ConstructLasts
  <2>3. CASE Walk(id) \/ BeginAttack(id) \/ ConstructionBlocked(id) \/ Gather(id) \/ DropOff(id)
    BY <2>3, VisitLasts
  <2>4. CASE StartProduction(id) \/ ContinueProduction(id) \/ CompleteProduction(id)
    BY <2>4, ProductionLasts, CompleteLasts
  <2> QED
    BY <1>2, <2>1, <2>2, <2>3, <2>4 DEF VisitObject, VisitedUnit, VisitedBuilding
<1>3. CASE EndPoll \/ EndIteration \/ BeginStep
  BY <1>3, LastsUnchanged DEF EndPoll, EndIteration, BeginStep
<1>4. CASE EndStep
  BY <1>4, LastsUnchanged DEF EndStep, Live
<1>5. CASE UNCHANGED vars
  BY <1>5, LastsUnchanged DEF vars
<1> QED
  BY <1>1, <1>2, <1>3, <1>4, <1>5 DEF Next, SimulateStep

(***************************************************************************)
(* What a client is told holds until it has handled it.                    *)
(***************************************************************************)
\* An object as a client has it.
Shaped(o) ==
    /\ "owner" \in DOMAIN o /\ "type" \in DOMAIN o
    /\ o.type \in UnitTypes \cup BuildingTypes
    /\ IsBuilding(o) => "built" \in DOMAIN o

\* A foundation that nobody but its owner knows of.
Hidden(id) ==
    /\ IsBuilding(objects[id]) /\ IsFoundation(objects[id])
    /\ objects[id].owner # me

\* Message n may come after message m: nothing is added twice, only villagers change
\* their trade, only buildings are built, and what is completed remains so.
Follows(m, n) ==
    m.id = n.id =>
      /\ m.type = "AddObject" =>
           /\ n.type # "AddObject"
           /\ n.type = "ChangeUnitType" => Seen(m.value).type = "Villager"
           /\ n.type = "BuildPercentageUpdate" =>
                /\ IsBuilding(m.value)
                /\ IsCompleted(m.value) => n.value = BuildSteps
      /\ (m.type = "BuildPercentageUpdate" /\ n.type = "BuildPercentageUpdate"
            /\ m.value = BuildSteps) => n.value = BuildSteps

InOrder(s) == \A i, j \in DOMAIN s : i < j => Follows(s[i], s[j])

\* What a message says of an object is of one that there was, and of what it has become
\* at least that.
Fact(m) ==
    m.type \in {"AddObject", "BuildPercentageUpdate"} =>
      /\ m.id \in 1 .. nextObjectID - 1
      /\ m.id \in DOMAIN objects =>
           LET o == objects[m.id]
           IN  /\ m.type = "AddObject" =>
                    /\ Seen(m.value).type = Class(o.type)
                    /\ (IsBuilding(m.value) /\ IsCompleted(m.value)) => IsCompleted(o)
                    /\ ~Hidden(m.id)
               /\ m.type = "BuildPercentageUpdate" =>
                    IsBuilding(o) /\ (m.value = BuildSteps => IsCompleted(o))

\* The message is one the client can handle.
Proper(m) ==
    /\ m.type = "AddObject" => Shaped(m.value)
    /\ m.type = "ChangeUnitType" => m.value \in VillagerTypes

\* An object on the client's map is as good as a message that has added it.
Added(c, id) == Message("AddObject", id, c.objects[id])

\* The counters agree, but for those that are not compared.
SameCounts(a, b) ==
    /\ a.population = b.population /\ a.villagers = b.villagers /\ a.space = b.space
    /\ \A t \in BuildingTypes : /\ a.constructing[t] = b.constructing[t]
                                /\ a.standing[t] = b.standing[t]

SeenMap(c)   == [id \in DOMAIN c.objects |-> Seen(c.objects[id])]
OwnOf(c)     == {id \in DOMAIN c.objects : c.objects[id].owner = me}
Mirroring(c) == SameCounts(c.stats, Tally(SeenMap(c), OwnOf(c)))

\* Client c is right, and the messages in M may come to it.
Sound(c, M) ==
    /\ "objects" \in DOMAIN c /\ "stats" \in DOMAIN c
    /\ c.stats \in Stats /\ IsFiniteSet(DOMAIN c.objects)
    /\ \A id \in DOMAIN c.objects :
         /\ Shaped(c.objects[id]) /\ Fact(Added(c, id))
         /\ \A n \in M : Follows(Added(c, id), n)
    /\ Mirroring(c)

\* The messages on their way, and the client they come to.
MirrorInv ==
    /\ Listed(stream) /\ Listed(accumulated)
    /\ InOrder(stream) /\ InOrder(accumulated)
    /\ \A m \in Elements(stream), n \in Elements(accumulated) : Follows(m, n)
    /\ \A m \in Elements(stream) \cup Elements(accumulated) : Proper(m) /\ Fact(m)
    /\ Sound(client, Elements(stream) \cup Elements(accumulated))

\* What has been said of an object stays true of it.
LEMMA FactStays ==
    ASSUME AllLast, me' = me, NEW m, Fact(m)
    PROVE  Fact(m)'
<1> SUFFICES ASSUME m.type \in {"AddObject", "BuildPercentageUpdate"} PROVE Fact(m)'
  BY DEF Fact
<1>1. m.id \in 1 .. nextObjectID - 1 /\ m.id \in 1 .. nextObjectID' - 1
  BY DEF Fact, AllLast
<1>2. CASE m.id \notin DOMAIN objects'
  BY <1>1, <1>2 DEF Fact
<1>3. CASE m.id \in DOMAIN objects'
  <2> DEFINE o  == objects[m.id]
             o2 == objects'[m.id]
  <2>1. m.id \in DOMAIN objects /\ Lasts(o, o2)
    BY <1>1, <1>3 DEF AllLast
  <2>2. /\ Class(o2.type) = Class(o.type) /\ (IsBuilding(o2) <=> IsBuilding(o))
        /\ o2.owner = o.owner
        /\ IsBuilding(o) => /\ IsCompleted(o) => IsCompleted(o2)
                            /\ IsFoundation(o2) => IsFoundation(o)
    BY <2>1 DEF Lasts, Class, IsBuilding, BuildingTypes, VillagerTypes
  <2>3. CASE m.type = "AddObject"
    <3>1. /\ Seen(m.value).type = Class(o.type)
          /\ (IsBuilding(m.value) /\ IsCompleted(m.value)) => IsCompleted(o)
          /\ ~Hidden(m.id)
      BY <2>1, <2>3 DEF Fact
    <3>2. IsBuilding(m.value) => IsBuilding(o)
      BY <3>1 DEF Seen, Class, IsBuilding, BuildingTypes, VillagerTypes
    <3>3. /\ Seen(m.value).type = Class(o2.type)
          /\ (IsBuilding(m.value) /\ IsCompleted(m.value)) => IsCompleted(o2)
      BY <2>2, <3>1, <3>2
    <3>4. ~Hidden(m.id)'
      BY <2>2, <3>1 DEF Hidden
    <3> QED
      BY <1>1, <1>3, <2>3, <3>3, <3>4 DEF Fact
  <2>4. CASE m.type = "BuildPercentageUpdate"
    <3>1. IsBuilding(o) /\ (m.value = BuildSteps => IsCompleted(o))
      BY <2>1, <2>4 DEF Fact
    <3> QED
      BY <1>1, <1>3, <2>2, <2>4, <3>1 DEF Fact
  <2> QED
    BY <2>3, <2>4
<1> QED
  BY <1>2, <1>3

\* A client that is right stays right while it handles nothing.
LEMMA SoundStays ==
    ASSUME AllLast, me' = me, NEW c, NEW M, Sound(c, M)
    PROVE  Sound(c, M)'
<1>1. \A id \in DOMAIN c.objects : Fact(Added(c, id)) => Fact(Added(c, id))'
  <2>1. ASSUME NEW m, Fact(m) PROVE Fact(m)'
    BY <2>1, FactStays
  <2> QED
    BY <2>1
<1>2. Mirroring(c)' <=> Mirroring(c)
  BY DEF Mirroring, SeenMap, OwnOf
<1>3. \A id : Added(c, id)' = Added(c, id)
  BY DEF Added
<1> QED
  BY <1>1, <1>2, <1>3 DEF Sound

(***************************************************************************)
(* What a step says, it may say after everything that was said before.     *)
(***************************************************************************)
\* The messages that matter for the counters, but for deaths.
Loud == {"AddObject", "ChangeUnitType", "BuildPercentageUpdate"}

\* The message may be sent now.
Sayable(m) ==
    /\ m.type = "AddObject" =>
         m.id >= nextObjectID \/ (m.id \in DOMAIN objects /\ Hidden(m.id))
    /\ m.type = "ChangeUnitType" =>
         m.id \in DOMAIN objects /\ Class(objects[m.id].type) = "Villager"
    /\ m.type = "BuildPercentageUpdate" =>
         /\ m.id \in DOMAIN objects /\ IsBuilding(objects[m.id])
         /\ IsCompleted(objects[m.id]) => m.value = BuildSteps

\* Fact of the next state, of a message that may itself speak of the next state.
FactNext(m) ==
    m.type \in {"AddObject", "BuildPercentageUpdate"} =>
      /\ m.id \in 1 .. nextObjectID' - 1
      /\ m.id \in DOMAIN objects' =>
           LET o == objects'[m.id]
           IN  /\ m.type = "AddObject" =>
                    /\ Seen(m.value).type = Class(o.type)
                    /\ (IsBuilding(m.value) /\ IsCompleted(m.value)) => IsCompleted(o)
                    /\ ~(IsBuilding(o) /\ IsFoundation(o) /\ o.owner # me')
               /\ m.type = "BuildPercentageUpdate" =>
                    IsBuilding(o) /\ (m.value = BuildSteps => IsCompleted(o))

Uttered(msgs) ==
    /\ Listed(msgs) /\ InOrder(msgs)
    /\ \A m \in Elements(msgs) : Proper(m) /\ Sayable(m) /\ FactNext(m)

\* None of the messages matters.
Quiet(msgs) == Listed(msgs) /\ \A m \in Elements(msgs) : m.type \notin Loud

\* What is true of the next state is a fact there.
LEMMA FactNextIs ==
    ASSUME NEW m, FactNext(m)
    PROVE  Fact(m)'
BY DEF Fact, FactNext, Hidden

\* What may be said now may follow what was a fact before.
LEMMA FactsFollowed ==
    ASSUME MatchInv, NEW m, Fact(m), NEW n, Sayable(n)
    PROVE  Follows(m, n)
<1> SUFFICES ASSUME m.id = n.id, m.type \in {"AddObject", "BuildPercentageUpdate"}, n.type \in Loud
             PROVE  Follows(m, n)
  BY DEF Follows, Loud
<1>1. m.id \in 1 .. nextObjectID - 1 /\ nextObjectID \in Nat
  BY DEF Fact, MatchInv, MapInv, MapOK
<1>2. m.id \in DOMAIN objects /\ (n.type = "AddObject" => Hidden(m.id))
  BY <1>1 DEF Sayable, Loud
<1> DEFINE o == objects[m.id]
<1>3. CASE m.type = "AddObject"
  <2>1. /\ Seen(m.value).type = Class(o.type)
        /\ (IsBuilding(m.value) /\ IsCompleted(m.value)) => IsCompleted(o)
        /\ ~Hidden(m.id)
    BY <1>2, <1>3 DEF Fact
  <2>2. n.type # "AddObject"
    BY <1>2, <2>1
  <2>3. n.type = "ChangeUnitType" => Class(o.type) = "Villager"
    BY DEF Sayable
  <2>4. n.type = "BuildPercentageUpdate" => IsBuilding(o) /\ (IsCompleted(o) => n.value = BuildSteps)
    BY DEF Sayable
  <2>5. IsBuilding(o) => IsBuilding(m.value)
    BY <2>1 DEF Seen, Class, IsBuilding, BuildingTypes, VillagerTypes
  <2> HIDE DEF o
  <2> QED
    BY <1>3, <2>1, <2>2, <2>3, <2>4, <2>5 DEF Follows
<1>4. CASE m.type = "BuildPercentageUpdate"
  BY <1>2, <1>4 DEF Fact, Sayable, Follows
<1> QED
  BY <1>3, <1>4

\* Messages that do not matter may come in any order.
LEMMA QuietFollows ==
    ASSUME NEW m, NEW n,
           m.type \notin {"AddObject", "BuildPercentageUpdate"} \/ n.type \notin Loud
    PROVE  Follows(m, n)
BY DEF Follows, Loud

\* What does not matter may always be said.
LEMMA QuietUttered ==
    ASSUME NEW msgs, Quiet(msgs)
    PROVE  Uttered(msgs)
<1>1. InOrder(msgs)
  BY QuietFollows DEF InOrder, Quiet, Elements
<1>2. \A m \in Elements(msgs) : Proper(m) /\ Sayable(m) /\ FactNext(m)
  BY DEF Quiet, Loud, Proper, Sayable, FactNext
<1> QED
  BY <1>1, <1>2 DEF Uttered, Quiet

\* One message.
LEMMA UtteredAlone ==
    ASSUME NEW m, Proper(m), Sayable(m), FactNext(m)
    PROVE  Uttered(<<m>>) /\ Elements(<<m>>) = {m}
<1>1. Listed(<<m>>) /\ Elements(<<m>>) = {m} /\ DOMAIN <<m>> = 1 .. 1
  BY FewListed
<1>2. InOrder(<<m>>)
  BY <1>1 DEF InOrder
<1> QED
  BY <1>1, <1>2 DEF Uttered

\* In the order of two sequences that are in order, and of their messages.
LEMMA OrderedTogether ==
    ASSUME NEW s, NEW t, Listed(s), Listed(t), InOrder(s), InOrder(t),
           \A m \in Elements(s), n \in Elements(t) : Follows(m, n)
    PROVE  InOrder(s \o t)
<1> DEFINE q == s \o t
<1>1. /\ DOMAIN s = 1 .. Len(s) /\ DOMAIN t = 1 .. Len(t) /\ DOMAIN q = 1 .. Len(s) + Len(t)
      /\ Len(s) \in Nat /\ Len(t) \in Nat
      /\ \A i \in 1 .. Len(s) : q[i] = s[i]
      /\ \A i \in 1 .. Len(t) : q[Len(s) + i] = t[i]
  BY ConcatListed
<1> HIDE DEF q
<1>2. \A j \in DOMAIN q : j \notin 1 .. Len(s) => /\ j - Len(s) \in 1 .. Len(t)
                                                 /\ q[j] = t[j - Len(s)]
  BY <1>1
<1>3. ASSUME NEW i \in DOMAIN q, NEW j \in DOMAIN q, i < j PROVE Follows(q[i], q[j])
  <2>1. CASE i \in 1 .. Len(s) /\ j \in 1 .. Len(s)
    BY <1>1, <1>3, <2>1 DEF InOrder
  <2>2. CASE i \in 1 .. Len(s) /\ j \notin 1 .. Len(s)
    <3>1. q[i] \in Elements(s) /\ q[j] \in Elements(t)
      BY <1>1, <1>2, <2>2 DEF Elements
    <3> QED
      BY <3>1
  <2>3. CASE i \notin 1 .. Len(s)
    <3>1. /\ j \notin 1 .. Len(s) /\ i - Len(s) \in DOMAIN t /\ j - Len(s) \in DOMAIN t
          /\ i - Len(s) < j - Len(s) /\ q[i] = t[i - Len(s)] /\ q[j] = t[j - Len(s)]
      BY <1>1, <1>2, <1>3, <2>3
    <3> QED
      BY <3>1 DEF InOrder
  <2> QED
    BY <2>1, <2>2, <2>3
<1> QED
  BY <1>3 DEF InOrder, q

\* Two lots of messages.
LEMMA UtteredTogether ==
    ASSUME NEW s, NEW t, Uttered(s), Uttered(t),
           \A m \in Elements(s), n \in Elements(t) : Follows(m, n)
    PROVE  Uttered(s \o t) /\ Elements(s \o t) = Elements(s) \cup Elements(t)
<1>1. Listed(s \o t) /\ Elements(s \o t) = Elements(s) \cup Elements(t)
  BY ConcatListed DEF Uttered
<1>2. InOrder(s \o t)
  BY OrderedTogether DEF Uttered
<1> QED
  BY <1>1, <1>2 DEF Uttered

\* What does not matter may be added at the end.
LEMMA UtteredThenQuiet ==
    ASSUME NEW s, NEW t, Uttered(s), Quiet(t)
    PROVE  Uttered(s \o t)
BY QuietUttered, QuietFollows, UtteredTogether DEF Quiet

\* No message, or one that does not matter.
LEMMA QuietAlone ==
    /\ Quiet(<<>>) /\ Uttered(<<>>)
    /\ \A m : m.type \notin Loud => Quiet(<<m>>) /\ Uttered(<<m>>)
<1>1. Quiet(<<>>) /\ \A m : m.type \notin Loud => Quiet(<<m>>)
  BY FewListed DEF Quiet
<1> QED
  BY <1>1, QuietUttered

\* The messages that do not matter.
LEMMA QuietMessages ==
    /\ \A type, id, value : type \notin Loud => Quiet(<<Message(type, id, value)>>)
    /\ \A u : /\ Quiet(UnitMovement(u)) /\ Quiet(HPUpdate(u)) /\ Quiet(ObjectDeath(u))
              /\ Quiet(SetCarriedResources(u))
    /\ \A o, msgs : Quiet(msgs) => Quiet(ToOwner(o, msgs))
    /\ Quiet(LeaveBroadcast)
<1>1. \A type, id, value : type \notin Loud => Quiet(<<Message(type, id, value)>>)
  BY QuietAlone DEF Message
<1>2. \A o, msgs : Quiet(msgs) => Quiet(ToOwner(o, msgs))
  BY QuietAlone DEF ToOwner
<1>3. \A u : Quiet(UnitMovement(u)) /\ Quiet(HPUpdate(u)) /\ Quiet(ObjectDeath(u))
  BY <1>1, QuietAlone DEF UnitMovement, HPUpdate, ObjectDeath, Loud
<1>4. \A u : Quiet(SetCarriedResources(u))
  BY <1>1, <1>2 DEF SetCarriedResources, Loud
<1>5. Quiet(LeaveBroadcast)
  BY <1>1, QuietAlone DEF LeaveBroadcast, Loud
<1> QED
  BY <1>1, <1>2, <1>3, <1>4, <1>5

\* A villager turns to another trade.
LEMMA TradeUttered ==
    ASSUME NEW u \in DOMAIN objects, Class(objects'[u].type) = Class(objects[u].type)
    PROVE  /\ Uttered(ChangeUnitType(u))
           /\ \A m \in Elements(ChangeUnitType(u)) : m.type = "ChangeUnitType"
<1>1. CASE objects'[u].type = objects[u].type
  BY <1>1, QuietAlone, FewListed DEF ChangeUnitType
<1>2. CASE objects'[u].type # objects[u].type
  <2> DEFINE v == objects'[u].type
             m == Message("ChangeUnitType", u, v)
  <2>1. v \in VillagerTypes /\ objects[u].type \in VillagerTypes
    BY <1>2 DEF Class, VillagerTypes
  <2>2. m.type = "ChangeUnitType" /\ m.id = u /\ m.value = v
    BY DEF Message
  <2>3. ChangeUnitType(u) = <<m>>
    BY <1>2 DEF ChangeUnitType
  <2> HIDE DEF m, v
  <2>4. Proper(m) /\ Sayable(m) /\ FactNext(m)
    BY <2>1, <2>2 DEF Proper, Sayable, FactNext, Class
  <2> QED
    BY <2>2, <2>3, <2>4, UtteredAlone
<1> QED
  BY <1>1, <1>2

\* What is told of an object is what counts of it.
LEMMA ToldForm ==
    ASSUME NEW o, o.type \in UnitTypes \cup BuildingTypes
    PROVE  /\ Shaped(Told(o)) /\ Seen(Told(o)) = Seen(o)
           /\ IsBuilding(Told(o)) <=> IsBuilding(o)
           /\ IsBuilding(o) => Told(o).built = o.built
<1> DEFINE told == Told(o)
<1>1. told.owner = o.owner /\ told.type = o.type /\ "owner" \in DOMAIN told /\ "type" \in DOMAIN told
  BY DEF Told
<1>2. ~IsUnit(o) => "built" \in DOMAIN told /\ told.built = o.built
  BY DEF Told
<1> HIDE DEF told
<1>3. IsBuilding(o) => ~IsUnit(o)
  BY TypesDisjoint DEF IsUnit, IsBuilding
<1>4. (IsBuilding(told) <=> IsBuilding(o)) /\ (IsUnit(told) <=> IsUnit(o))
  BY <1>1 DEF IsBuilding, IsUnit
<1>5. Shaped(told)
  BY <1>1, <1>2, <1>3, <1>4 DEF Shaped
<1>6. Seen(told) = Seen(o)
  BY <1>1, <1>2, <1>4 DEF Seen
<1> QED
  BY <1>2, <1>3, <1>4, <1>5, <1>6 DEF told

\* A new object is added.
LEMMA AddUttered ==
    ASSUME AllLast, me' = me, nextObjectID >= 1, NEW o, o = objects'[nextObjectID],
           nextObjectID' = nextObjectID + 1, o.type \in UnitTypes \cup BuildingTypes,
           IsBuilding(o) => o.owner = me
    PROVE  Uttered(AddObject(nextObjectID, o))
<1> DEFINE id == nextObjectID
           m  == Message("AddObject", id, Told(o))
<1>1. m.type = "AddObject" /\ m.id = id /\ m.value = Told(o)
  BY DEF Message
<1>2. AddObject(nextObjectID, o) = <<m>>
  BY DEF AddObject
<1> HIDE DEF m
<1>3. nextObjectID \in Nat /\ id \in 1 .. nextObjectID' - 1
  BY DEF AllLast
<1>4. Proper(m) /\ Sayable(m)
  BY <1>1, <1>3, ToldForm DEF Proper, Sayable
<1>5. Seen(Told(o)).type = Class(o.type)
  BY ToldForm DEF Seen
<1>6. (IsBuilding(Told(o)) /\ IsCompleted(Told(o))) => IsCompleted(o)
  BY ToldForm DEF IsCompleted
<1>7. FactNext(m)
  BY <1>1, <1>3, <1>5, <1>6 DEF FactNext
<1> QED
  BY <1>2, <1>4, <1>7, UtteredAlone

\* A foundation that is started is added for the others, and built.
LEMMA StartUttered ==
    ASSUME AllLast, me' = me, NEW id \in DOMAIN objects, MapOK,
           IsBuilding(objects[id]), NEW n, n = objects'[id].built, n \in 1 .. BuildSteps,
           objects'[id].type = objects[id].type, objects'[id].owner = objects[id].owner,
           IsCompleted(objects[id]) => IsCompleted(objects'[id])
    PROVE  LET b     == objects[id]
               shown == IF IsFoundation(b) /\ b.owner # me THEN AddObject(id, b) ELSE <<>>
               built == <<Message("BuildPercentageUpdate", id, n)>>
           IN  /\ Uttered(shown) /\ Uttered(built)
               /\ \A x \in Elements(shown), y \in Elements(built) : Follows(x, y)
<1> DEFINE b     == objects[id]
           shown == IF IsFoundation(b) /\ b.owner # me THEN AddObject(id, b) ELSE <<>>
           m     == Message("BuildPercentageUpdate", id, n)
           a     == Message("AddObject", id, Told(b))
<1>1. /\ m.type = "BuildPercentageUpdate" /\ m.id = id /\ m.value = n
      /\ a.type = "AddObject" /\ a.id = id /\ a.value = Told(b)
  BY DEF Message
<1>2. shown = IF IsFoundation(b) /\ b.owner # me THEN <<a>> ELSE <<>>
  BY DEF AddObject
<1> HIDE DEF m, a, shown
<1>3. id \in 1 .. nextObjectID' - 1 /\ id < nextObjectID /\ b.type \in UnitTypes \cup BuildingTypes
  BY ObjectType DEF AllLast, MapOK
<1>4. IsBuilding(objects'[id]) /\ (IsCompleted(objects'[id]) <=> n = BuildSteps)
      /\ ~IsFoundation(objects'[id])
  BY Sizes DEF IsBuilding, IsCompleted, IsFoundation
<1>5. Proper(m) /\ Sayable(m) /\ FactNext(m)
  BY <1>1, <1>3, <1>4 DEF Proper, Sayable, FactNext
<1>6. Uttered(<<m>>) /\ Elements(<<m>>) = {m}
  BY <1>5, UtteredAlone
<1>7. CASE IsFoundation(b) /\ b.owner # me
  <2>1. Proper(a) /\ Sayable(a)
    BY <1>1, <1>3, <1>7, ToldForm DEF Proper, Sayable, Hidden
  <2>2. Seen(Told(b)).type = Class(b.type)
    BY <1>3, ToldForm DEF Seen
  <2>3. IsBuilding(Told(b)) /\ (IsCompleted(Told(b)) => n = BuildSteps)
    BY <1>3, <1>4, ToldForm DEF IsCompleted
  <2>4. FactNext(a)
    BY <1>1, <1>3, <1>4, <2>2, <2>3 DEF FactNext
  <2>5. Uttered(<<a>>) /\ Elements(<<a>>) = {a}
    BY <2>1, <2>4, UtteredAlone
  <2>6. Follows(a, m)
    BY <1>1, <2>3 DEF Follows
  <2> QED
    BY <1>2, <1>6, <1>7, <2>5, <2>6 DEF m, shown
<1>8. CASE ~(IsFoundation(b) /\ b.owner # me)
  <2>1. Uttered(<<>>) /\ Elements(<<>>) = {}
    BY QuietAlone, FewListed
  <2> QED
    BY <1>2, <1>6, <1>8, <2>1 DEF m, shown
<1> QED
  BY <1>7, <1>8

\* Several builders turn to a new foundation.
LEMMA TurnedUttered ==
    ASSUME NEW S, IsFiniteSet(S), \A u \in S : u \in DOMAIN objects /\ IsVillager(objects[u])
    PROVE  LET told == SetToSeq(S)
               msgs == [i \in DOMAIN told |-> Message("ChangeUnitType", told[i], "Builder")]
           IN  /\ Uttered(msgs)
               /\ \A m \in Elements(msgs) : m.type = "ChangeUnitType" /\ m.id \in S
<1> DEFINE told == SetToSeq(S)
           msgs == [i \in DOMAIN told |-> Message("ChangeUnitType", told[i], "Builder")]
<1>1. told \in Seq(S) /\ Listed(msgs)
  BY TurnedSpoken DEF Spoken
<1>2. \A i \in DOMAIN told : told[i] \in S
  <2> HIDE DEF told
  <2> QED
    BY <1>1, LenProperties
<1> HIDE DEF told
<1>3. \A m \in Elements(msgs) : /\ m.type = "ChangeUnitType" /\ m.value = "Builder"
                                /\ m.id \in S
  BY <1>2 DEF Elements, Message
<1>4. \A i \in DOMAIN msgs : msgs[i] \in Elements(msgs)
  BY DEF Elements
<1> HIDE DEF msgs
<1>5. InOrder(msgs)
  BY <1>3, <1>4, QuietFollows DEF InOrder
<1>6. \A m \in Elements(msgs) : Proper(m) /\ Sayable(m) /\ FactNext(m)
  BY <1>3 DEF Proper, Sayable, FactNext, VillagerTypes, Class, IsVillager
<1> QED
  BY <1>1, <1>3, <1>5, <1>6 DEF Uttered, msgs, told

\* A unit that walks, fights, gathers or carries home is what it was.
LEMMA VisitTrade ==
    ASSUME MatchInv, NEW u,
           Walk(u) \/ BeginAttack(u) \/ ConstructionBlocked(u) \/ Gather(u) \/ DropOff(u)
    PROVE  /\ Uttered(ChangeUnitType(u))
           /\ \A m \in Elements(ChangeUnitType(u)) : m.type = "ChangeUnitType"
<1>1. AllLast /\ MapOK
  BY VisitLasts DEF MatchInv, MapInv
<1>2. PICK v : UnitBecomes(u, v) /\ Fits(u, v)
  BY UnitBecomesStep
<1>3. u \in DOMAIN objects /\ DOMAIN objects' = DOMAIN objects
  BY <1>2, Visited DEF UnitBecomes
<1>4. Class(objects'[u].type) = Class(objects[u].type)
  BY <1>1, <1>3 DEF AllLast, Lasts, MapOK
<1> QED
  BY <1>3, <1>4, TradeUttered

\* Whatever the server does but for the end of a step, it says what may be said then.
LEMMA ServerUtters ==
    ASSUME MatchInv, MatchNext
    PROVE  Told_EndStep \/ ParseMessagesUntil \/ PressResign
             \/ \E msgs : Uttered(msgs) /\ Tell(msgs)
<1> SUFFICES ASSUME ~Told_EndStep, ~ParseMessagesUntil, ~PressResign
             PROVE  \E msgs : Uttered(msgs) /\ Tell(msgs)
  OBVIOUS
<1>0. Uttered(<<>>) /\ AllLast /\ MapOK
  BY QuietAlone, StepLasts, MatchIsNext DEF MatchInv, MapInv
<1>q. ASSUME NEW msgs, Quiet(msgs), Tell(msgs) PROVE \E ms : Uttered(ms) /\ Tell(ms)
  BY <1>q, QuietUttered
<1>1. CASE Told_MoveToMapCoord \/ Told_PlayerGone \/ Told_Polled \/ Told_BeginStep
             \/ Told_WaitForSpace \/ Told_ContinueProduction
  <2>1. Tell(<<>>)
    BY <1>1 DEF Told_MoveToMapCoord, Told_PlayerGone, Told_Polled, Told_BeginStep,
                Told_WaitForSpace, Told_ContinueProduction, TellCommand, TellVisit
  <2> QED
    BY <1>0, <2>1
<1>2. CASE Told_SetTarget
  <2>1. PICK p \in Players : \E u, t \in DOMAIN objects :
               HandleSetTarget(p, u, t) /\ Tell(ChangeUnitType(u))
    BY <1>2 DEF Told_SetTarget, TellCommand
  <2>2. PICK u \in DOMAIN objects, t \in DOMAIN objects :
               HandleSetTarget(p, u, t) /\ Tell(ChangeUnitType(u))
    BY <2>1
  <2>3. DOMAIN objects' = DOMAIN objects
    BY <2>2 DEF HandleSetTarget
  <2>4. Class(objects'[u].type) = Class(objects[u].type)
    BY <1>0, <2>3 DEF AllLast, Lasts, MapOK
  <2> QED
    BY <2>2, <2>4, TradeUttered
<1>3. CASE Told_ProduceUnit
  <2>1. PICK o, m : Tell(ToOwner(o, <<m>>)) /\ m.type \notin Loud
    BY <1>3 DEF Told_ProduceUnit, TellCommand, Message, Loud
  <2>2. Quiet(ToOwner(o, <<m>>))
    BY <2>1, QuietAlone, QuietMessages
  <2> QED
    BY <1>q, <2>1, <2>2
<1>4. CASE Told_DequeueProductionQueueItem
  <2>1. PICK b, k : Tell(ToOwner(objects[b],
               <<Message("RemoveFromProductionQueue", b, Len(objects[b].queue) - k)>>))
    BY <1>4 DEF Told_DequeueProductionQueueItem, TellCommand
  <2> DEFINE o == objects[b]
             m == Message("RemoveFromProductionQueue", b, Len(objects[b].queue) - k)
  <2>3. Tell(ToOwner(o, <<m>>)) /\ m.type \notin Loud
    BY <2>1 DEF Message, Loud
  <2> HIDE DEF o, m
  <2>2. Quiet(ToOwner(o, <<m>>))
    BY <2>3, QuietAlone, QuietMessages
  <2> QED
    BY <1>q, <2>2, <2>3
<1>6. CASE Told_DeleteObject
  BY <1>q, <1>6, QuietMessages DEF Told_DeleteObject, TellCommand
<1>10. CASE Told_ContinueAttack
  <2>1. PICK u, t : Tell(<<>>) \/ Tell(ObjectDeath(t)) \/ Tell(HPUpdate(t))
    BY <1>10 DEF Told_ContinueAttack, TellVisit
  <2> QED
    BY <1>0, <1>q, <2>1, QuietMessages
<1>15. CASE Told_StartProduction
  <2>1. PICK o, m : Tell(ToOwner(o, <<m>>)) /\ m.type \notin Loud
    BY <1>15 DEF Told_StartProduction, TellVisit, Message, Loud
  <2>2. Quiet(ToOwner(o, <<m>>))
    BY <2>1, QuietAlone, QuietMessages
  <2> QED
    BY <1>q, <2>1, <2>2
<1>5. CASE Told_PlaceBuildingFoundation
  <2>1. PICK p \in Players : \E t \in PlaceableTypes : \E tiles \in Footprints[t] :
               \E builders \in SUBSET {u \in DOMAIN objects : OwnUnit(p, u)} :
                 /\ HandlePlaceBuildingFoundation(p, t, tiles, builders)
                 /\ LET id   == nextObjectID
                        told == SetToSeq({u \in builders : objects[u].type # "Builder"})
                    IN  Tell(ToOwner(objects'[id], AddObject(id, objects'[id]))
                               \o [i \in DOMAIN told |->
                                     Message("ChangeUnitType", told[i], "Builder")])
    BY <1>5 DEF Told_PlaceBuildingFoundation, TellCommand
  <2>2. PICK t \in PlaceableTypes : \E tiles \in Footprints[t] :
               \E builders \in SUBSET {u \in DOMAIN objects : OwnUnit(p, u)} :
                 /\ HandlePlaceBuildingFoundation(p, t, tiles, builders)
                 /\ LET id   == nextObjectID
                        told == SetToSeq({u \in builders : objects[u].type # "Builder"})
                    IN  Tell(ToOwner(objects'[id], AddObject(id, objects'[id]))
                               \o [i \in DOMAIN told |->
                                     Message("ChangeUnitType", told[i], "Builder")])
    BY <2>1
  <2>3. PICK tiles \in Footprints[t] :
               \E builders \in SUBSET {u \in DOMAIN objects : OwnUnit(p, u)} :
                 /\ HandlePlaceBuildingFoundation(p, t, tiles, builders)
                 /\ LET id   == nextObjectID
                        told == SetToSeq({u \in builders : objects[u].type # "Builder"})
                    IN  Tell(ToOwner(objects'[id], AddObject(id, objects'[id]))
                               \o [i \in DOMAIN told |->
                                     Message("ChangeUnitType", told[i], "Builder")])
    BY <2>2
  <2>4. PICK builders \in SUBSET {u \in DOMAIN objects : OwnUnit(p, u)} :
                 /\ HandlePlaceBuildingFoundation(p, t, tiles, builders)
                 /\ LET id   == nextObjectID
                        told == SetToSeq({u \in builders : objects[u].type # "Builder"})
                    IN  Tell(ToOwner(objects'[id], AddObject(id, objects'[id]))
                               \o [i \in DOMAIN told |->
                                     Message("ChangeUnitType", told[i], "Builder")])
    BY <2>3
  <2> DEFINE id    == nextObjectID
             o     == objects'[id]
             turned == {u \in builders : objects[u].type # "Builder"}
             told  == SetToSeq(turned)
             added == ToOwner(o, AddObject(id, o))
             types == [i \in DOMAIN told |-> Message("ChangeUnitType", told[i], "Builder")]
  <2>5. Tell(added \o types) /\ me' = me
    BY <2>4 DEF Tell
  <2>6. IsFiniteSet(turned) /\ \A u \in turned : u \in DOMAIN objects /\ IsVillager(objects[u])
    <3>1. turned \subseteq DOMAIN objects /\ \A u \in turned : IsVillager(objects[u])
      BY <2>4 DEF HandlePlaceBuildingFoundation
    <3> HIDE DEF turned
    <3> QED
      BY <1>0, <3>1, FiniteObjects, FS_Subset
  <2>7. Uttered(types) /\ \A m \in Elements(types) : m.id \in turned
    <3> HIDE DEF turned
    <3> QED
      BY <2>6, TurnedUttered
  <2>8. o = NewBuilding(p, t, tiles, 0) /\ nextObjectID' = nextObjectID + 1 /\ nextObjectID >= 1
    BY <1>0, <2>4, PlaceLasts DEF MapOK
  <2>9. o.type \in UnitTypes \cup BuildingTypes
    BY <2>8 DEF NewBuilding, PlaceableTypes
  <2>10. o.owner = me => Uttered(AddObject(id, o))
    <3> DEFINE x == o
    <3>1. x = objects'[nextObjectID]
      OBVIOUS
    <3> HIDE DEF x
    <3>2. x.owner = me => Uttered(AddObject(nextObjectID, x))
      BY <1>0, <2>5, <2>8, <2>9, <3>1, AddUttered
    <3> QED
      BY <3>2 DEF x
  <2> HIDE DEF types, told, turned, o
  <2>11. Uttered(added)
    BY <1>0, <2>10 DEF ToOwner
  <2> HIDE DEF added
  <2>12. \A m \in Elements(added), n \in Elements(types) : Follows(m, n)
    <3>1. \A m \in Elements(added) : m.id = id
      BY FewListed DEF added, ToOwner, AddObject, Message
    <3>2. \A n \in Elements(types) : n.id # nextObjectID
      BY <1>0, <2>6, <2>7 DEF MapOK
    <3> QED
      BY <3>1, <3>2 DEF Follows
  <2>13. Uttered(added \o types)
    BY <2>7, <2>11, <2>12, UtteredTogether
  <2> QED
    BY <2>5, <2>13
<1>11. CASE Told_Move
  <2>1. PICK u : /\ Tell(ChangeUnitType(u) \o UnitMovement(u))
                 /\ Walk(u) \/ BeginAttack(u) \/ ConstructionBlocked(u)
    BY <1>11 DEF Told_Move, TellVisit
  <2>2. Uttered(ChangeUnitType(u))
    BY <2>1, VisitTrade
  <2> QED
    BY <2>1, <2>2, QuietMessages, UtteredThenQuiet
<1>12. CASE Told_Construct
  <2>1. PICK u :
          /\ Construct(u)
          /\ LET id == Ready(u).target
                 b  == objects[id]
             IN  Tell(ChangeUnitType(u)
                    \o (IF IsFoundation(b) /\ b.owner # me THEN AddObject(id, b) ELSE <<>>)
                    \o <<Message("BuildPercentageUpdate", id, objects'[id].built)>>
                    \o HPUpdate(id) \o UnitMovement(u))
    BY <1>12 DEF Told_Construct, TellVisit
  <2> DEFINE id == Ready(u).target
             shown == IF IsFoundation(objects[id]) /\ objects[id].owner # me
                        THEN AddObject(id, objects[id]) ELSE <<>>
             built == <<Message("BuildPercentageUpdate", id, objects'[id].built)>>
             trade == ChangeUnitType(u)
  <2>2. Tell((((trade \o shown) \o built) \o HPUpdate(id)) \o UnitMovement(u)) /\ me' = me
    BY <2>1 DEF Tell
  <2>3. /\ id \in DOMAIN objects /\ IsBuilding(objects[id]) /\ id # u
        /\ u \in DOMAIN objects
        /\ Class(objects'[u].type) = Class(objects[u].type)
        /\ objects'[id].type = objects[id].type /\ objects'[id].owner = objects[id].owner
        /\ objects'[id].built \in 1 .. BuildSteps
        /\ IsCompleted(objects[id]) => IsCompleted(objects'[id])
    BY <2>1, ConstructLasts
  <2>4. Uttered(trade) /\ \A m \in Elements(trade) : m.type = "ChangeUnitType"
    BY <2>3, TradeUttered
  <2>5. /\ Uttered(shown) /\ Uttered(built)
        /\ \A x \in Elements(shown), y \in Elements(built) : Follows(x, y)
    <3> DEFINE n == objects'[id].built
    <3>1. n = objects'[id].built /\ n \in 1 .. BuildSteps
      BY <2>3
    <3> HIDE DEF n, id
    <3>2. LET b == objects[id]
              s == IF IsFoundation(b) /\ b.owner # me THEN AddObject(id, b) ELSE <<>>
              t == <<Message("BuildPercentageUpdate", id, n)>>
          IN  /\ Uttered(s) /\ Uttered(t)
              /\ \A x \in Elements(s), y \in Elements(t) : Follows(x, y)
      BY <1>0, <2>2, <2>3, <3>1, StartUttered
    <3> QED
      BY <3>2 DEF n
  <2> HIDE DEF id, shown, built, trade
  <2>6. Uttered(trade \o shown) /\ Elements(trade \o shown) = Elements(trade) \cup Elements(shown)
    BY <2>4, <2>5, QuietFollows, UtteredTogether
  <2>7. Uttered((trade \o shown) \o built)
    BY <2>4, <2>5, <2>6, QuietFollows, UtteredTogether
  <2> DEFINE said == (trade \o shown) \o built
  <2>8. Tell((said \o HPUpdate(id)) \o UnitMovement(u)) /\ Uttered(said)
    BY <2>2, <2>7
  <2> HIDE DEF said
  <2>9. Uttered(said \o HPUpdate(id))
    BY <2>8, QuietMessages, UtteredThenQuiet
  <2>10. Uttered((said \o HPUpdate(id)) \o UnitMovement(u))
    BY <2>9, QuietMessages, UtteredThenQuiet
  <2> QED
    BY <2>8, <2>10
<1>13. CASE Told_Gather
  <2>1. PICK u : /\ Gather(u)
                 /\ Tell(((IF objects'[u].carried = objects[u].carried THEN <<>>
                           ELSE SetCarriedResources(u)) \o ChangeUnitType(u)) \o UnitMovement(u))
    BY <1>13 DEF Told_Gather, TellVisit
  <2> DEFINE load == IF objects'[u].carried = objects[u].carried THEN <<>>
                     ELSE SetCarriedResources(u)
  <2>2. Quiet(load)
    BY QuietAlone, QuietMessages
  <2>3. Uttered(ChangeUnitType(u))
    BY <2>1, VisitTrade
  <2> HIDE DEF load
  <2>4. Uttered(load \o ChangeUnitType(u))
    BY <2>2, <2>3, QuietUttered, QuietFollows, UtteredTogether DEF Quiet, Loud
  <2>5. Uttered((load \o ChangeUnitType(u)) \o UnitMovement(u))
    BY <2>4, QuietMessages, UtteredThenQuiet
  <2> QED
    BY <2>1, <2>5 DEF load
<1>14. CASE Told_DropOff
  <2>1. PICK u : /\ DropOff(u)
                 /\ Tell((SetCarriedResources(u) \o ChangeUnitType(u)) \o UnitMovement(u))
    BY <1>14 DEF Told_DropOff, TellVisit
  <2>2. Uttered(ChangeUnitType(u))
    BY <2>1, VisitTrade
  <2>3. Uttered(SetCarriedResources(u) \o ChangeUnitType(u))
    <3>1. Quiet(SetCarriedResources(u))
      BY QuietMessages
    <3> QED
      BY <2>2, <3>1, QuietUttered, QuietFollows, UtteredTogether DEF Quiet, Loud
  <2> QED
    BY <2>1, <2>3, QuietMessages, UtteredThenQuiet
<1>18. CASE Told_CompleteProduction
  <2>1. PICK b :
          /\ CompleteProduction(b)
          /\ Tell(AddObject(nextObjectID, objects'[nextObjectID])
               \o ToOwner(objects[b], <<Message("RemoveFromProductionQueue", b, 1)>>))
    BY <1>18 DEF Told_CompleteProduction, TellVisit
  <2> DEFINE o == objects'[nextObjectID]
             done == ToOwner(objects[b], <<Message("RemoveFromProductionQueue", b, 1)>>)
  <2>2. /\ o \in Units /\ nextObjectID' = nextObjectID + 1 /\ nextObjectID >= 1
        /\ o = objects'[nextObjectID] /\ me' = me
    BY <1>0, <2>1, CompleteLasts DEF MapOK, Tell
  <2>3. Quiet(done)
    BY QuietMessages DEF Loud
  <2>4. Tell(AddObject(nextObjectID, o) \o done)
    BY <2>1
  <2> HIDE DEF o, done
  <2>5. o.type \in UnitTypes \cup BuildingTypes /\ ~IsBuilding(o)
    BY <2>2, Kinds DEF Units
  <2>6. Uttered(AddObject(nextObjectID, o))
    BY <1>0, <2>2, <2>5, AddUttered
  <2> QED
    BY <2>3, <2>4, <2>6, UtteredThenQuiet
<1> QED
  BY <1>1, <1>2, <1>3, <1>4, <1>5, <1>6, <1>10, <1>11, <1>12, <1>13, <1>14, <1>15, <1>18
     DEF MatchNext

(***************************************************************************)
(* The client handles one message, and its counters stay those of its map. *)
(***************************************************************************)
\* What counts of an object, read from what is seen of it.
LEMMA SeenSays ==
    ASSUME NEW o, Shaped(o)
    PROVE  /\ IsBuilding(o) <=> Seen(o).type \in BuildingTypes
           /\ IsUnit(o) <=> ~IsBuilding(o)
           /\ IsBuilding(o) => Seen(o).built = o.built /\ Seen(o).type = o.type
           /\ IsUnit(o) => Seen(o).type \in UnitTypes
           /\ Seen(o).type \in VillagerTypes <=> o.type \in VillagerTypes
           /\ Seen(o).owner = o.owner /\ Seen(o).production = 0
<1>1. Seen(o).type = Class(o.type) /\ Seen(o).owner = o.owner /\ Seen(o).production = 0
  BY DEF Seen
<1>2. o.type \in UnitTypes \cup BuildingTypes
  BY DEF Shaped
<1>3. IsUnit(o) <=> ~IsBuilding(o)
  BY <1>2, TypesDisjoint DEF IsUnit, IsBuilding
<1>4. IsBuilding(o) => Seen(o).built = o.built
  BY <1>3 DEF Seen
<1> QED
  BY <1>1, <1>2, <1>3, <1>4 DEF Class, IsUnit, IsBuilding, UnitTypes, BuildingTypes, VillagerTypes

\* An object that looks the same is as good as the one that was added.
LEMMA AddedAlike ==
    ASSUME NEW id, NEW a, NEW b, Shaped(a), Shaped(b), Seen(a) = Seen(b)
    PROVE  LET x == Message("AddObject", id, a)
               y == Message("AddObject", id, b)
           IN  /\ Fact(x) => Fact(y)
               /\ \A n : Follows(x, n) => Follows(y, n)
<1> DEFINE x == Message("AddObject", id, a)
           y == Message("AddObject", id, b)
<1>1. /\ x.type = "AddObject" /\ x.id = id /\ x.value = a
      /\ y.type = "AddObject" /\ y.id = id /\ y.value = b
  BY DEF Message
<1>2. (IsBuilding(a) <=> IsBuilding(b)) /\ (IsBuilding(a) => a.built = b.built)
  BY SeenSays
<1>3. (IsBuilding(a) /\ IsCompleted(a)) <=> (IsBuilding(b) /\ IsCompleted(b))
  BY <1>2 DEF IsCompleted
<1> HIDE DEF x, y
<1>4. Fact(x) => Fact(y)
  BY <1>1, <1>3 DEF Fact
<1>5. ASSUME NEW n, Follows(x, n) PROVE Follows(y, n)
  BY <1>1, <1>2, <1>3, <1>5 DEF Follows
<1> QED
  BY <1>4, <1>5 DEF x, y

\* The tally of a client, whose objects all look the same.
LEMMA LooksSame ==
    ASSUME NEW c, NEW c2, DOMAIN c2.objects = DOMAIN c.objects,
           \A id \in DOMAIN c.objects : Seen(c2.objects[id]) = Seen(c.objects[id])
    PROVE  SeenMap(c2) = SeenMap(c) /\ OwnOf(c2) = OwnOf(c)
<1>1. SeenMap(c2) = SeenMap(c)
  BY DEF SeenMap
<1>2. \A id \in DOMAIN c.objects : c2.objects[id].owner = c.objects[id].owner
  BY DEF Seen
<1> QED
  BY <1>1, <1>2 DEF OwnOf

\* A message that changes nothing that counts.
LEMMA QuietHandled ==
    ASSUME NEW c, NEW M, Sound(c, M), NEW c2, "objects" \in DOMAIN c2, "stats" \in DOMAIN c2,
           c2.stats \in Stats, SameCounts(c2.stats, c.stats),
           DOMAIN c2.objects = DOMAIN c.objects,
           \A id \in DOMAIN c.objects : /\ Shaped(c2.objects[id])
                                        /\ Seen(c2.objects[id]) = Seen(c.objects[id])
    PROVE  Sound(c2, M)
<1>1. ASSUME NEW id \in DOMAIN c.objects
      PROVE  Fact(Added(c2, id)) /\ \A n \in M : Follows(Added(c2, id), n)
  <2> DEFINE a == c.objects[id]
             b == c2.objects[id]
  <2>1. Shaped(a) /\ Shaped(b) /\ Seen(a) = Seen(b)
    BY DEF Sound
  <2>2. Fact(Message("AddObject", id, a)) /\ \A n \in M : Follows(Message("AddObject", id, a), n)
    BY DEF Sound, Added
  <2> HIDE DEF a, b
  <2>3. Fact(Message("AddObject", id, b)) /\ \A n \in M : Follows(Message("AddObject", id, b), n)
    BY <2>1, <2>2, AddedAlike
  <2> QED
    BY <2>3 DEF Added, b
<1>2. Mirroring(c2)
  <2>1. SeenMap(c2) = SeenMap(c) /\ OwnOf(c2) = OwnOf(c)
    BY LooksSame
  <2> QED
    BY <2>1 DEF Sound, Mirroring, SameCounts
<1> QED
  BY <1>1, <1>2 DEF Sound

\* One object has changed, but not in what counts of it.
LEMMA DetailHandled ==
    ASSUME NEW c, NEW M, Sound(c, M), NEW id \in DOMAIN c.objects, NEW v,
           DOMAIN v = DOMAIN c.objects[id], v.owner = c.objects[id].owner,
           v.type = c.objects[id].type,
           "built" \in DOMAIN c.objects[id] => v.built = c.objects[id].built,
           NEW c2, c2 = [c EXCEPT !.objects = [c.objects EXCEPT ![id] = v]]
    PROVE  Sound(c2, M)
<1> DEFINE o == c.objects[id]
<1>1. Shaped(o)
  BY DEF Sound
<1> HIDE DEF o
<1>2. v.owner = o.owner /\ v.type = o.type /\ DOMAIN v = DOMAIN o
      /\ ("built" \in DOMAIN o => v.built = o.built)
  BY DEF o
<1>3. (IsBuilding(v) <=> IsBuilding(o)) /\ (IsUnit(v) <=> IsUnit(o))
  BY <1>2 DEF IsBuilding, IsUnit
<1>4. Shaped(v) /\ Seen(v) = Seen(o)
  <2>1. Shaped(v)
    BY <1>1, <1>2, <1>3 DEF Shaped
  <2>2. ~IsUnit(o) => v.built = o.built
    BY <1>1, <1>2, SeenSays DEF Shaped
  <2> QED
    BY <1>2, <1>3, <2>1, <2>2 DEF Seen
<1>5. /\ c2.objects = [c.objects EXCEPT ![id] = v] /\ "objects" \in DOMAIN c2
      /\ c2.stats = c.stats /\ "stats" \in DOMAIN c2
  BY DEF Sound
<1>6. DOMAIN c2.objects = DOMAIN c.objects
      /\ \A i \in DOMAIN c.objects : c2.objects[i] = IF i = id THEN v ELSE c.objects[i]
  BY <1>5
<1>7. \A i \in DOMAIN c.objects : Shaped(c2.objects[i]) /\ Seen(c2.objects[i]) = Seen(c.objects[i])
  BY <1>4, <1>6 DEF Sound, o
<1>8. SameCounts(c2.stats, c.stats) /\ c2.stats \in Stats
  BY <1>5 DEF SameCounts, Sound
<1> QED
  BY <1>5, <1>6, <1>7, <1>8, QuietHandled

\* The messages about details of an object.
DetailTypes == {"UnitMovement", "SetCarriedResources", "HPUpdate", "QueueUnit",
                "UpdateProduction", "RemoveFromProductionQueue"}

\* The client handles one of them, and its counters are as they were.
LEMMA DetailsHandled ==
    ASSUME NEW c, NEW M, Sound(c, M), NEW m, m.type \in DetailTypes, m.id \in DOMAIN c.objects
    PROVE  Sound(ParseMessage(c, m), M)
<1> DEFINE id == m.id
           o  == c.objects[id]
           c2 == ParseMessage(c, m)
           Replaces(v) == c2 = [c EXCEPT !.objects = [c.objects EXCEPT ![id] = v]]
<1>1. Shaped(o)
  BY DEF Sound
<1>2. ASSUME NEW v, DOMAIN v = DOMAIN o, v.owner = o.owner, v.type = o.type,
             "built" \in DOMAIN o => v.built = o.built, Replaces(v)
      PROVE  Sound(c2, M)
  <2> HIDE DEF c2
  <2> QED
    BY <1>2, DetailHandled
<1>3. CASE m.type = "UnitMovement"
  <2> DEFINE v == [o EXCEPT !.attacking = m.value]
  <2>1. Replaces(v)
    BY <1>3 DEF ParseMessage, HandleUnitMovement
  <2>2. DOMAIN v = DOMAIN o /\ v.owner = o.owner /\ v.type = o.type
        /\ ("built" \in DOMAIN o => v.built = o.built)
    BY <1>1 DEF Shaped
  <2> QED
    BY <1>2, <2>1, <2>2
<1>4. CASE m.type = "SetCarriedResources"
  <2> DEFINE v == [o EXCEPT !.carried = m.value]
  <2>1. Replaces(v)
    BY <1>4 DEF ParseMessage, HandleSetCarriedResources
  <2>2. DOMAIN v = DOMAIN o /\ v.owner = o.owner /\ v.type = o.type
        /\ ("built" \in DOMAIN o => v.built = o.built)
    BY <1>1 DEF Shaped
  <2> QED
    BY <1>2, <2>1, <2>2
<1>5. CASE m.type = "HPUpdate"
  <2> DEFINE v == [o EXCEPT !.hp = m.value]
  <2>1. Replaces(v)
    BY <1>5 DEF ParseMessage, HandleHPUpdate
  <2>2. DOMAIN v = DOMAIN o /\ v.owner = o.owner /\ v.type = o.type
        /\ ("built" \in DOMAIN o => v.built = o.built)
    BY <1>1 DEF Shaped
  <2> QED
    BY <1>2, <2>1, <2>2
<1>6. CASE m.type = "UpdateProduction"
  <2> DEFINE v == [o EXCEPT !.producing = m.value]
  <2>1. Replaces(v)
    BY <1>6 DEF ParseMessage, HandleUpdateProduction
  <2>2. DOMAIN v = DOMAIN o /\ v.owner = o.owner /\ v.type = o.type
        /\ ("built" \in DOMAIN o => v.built = o.built)
    BY <1>1 DEF Shaped
  <2> QED
    BY <1>2, <2>1, <2>2
<1>7. CASE m.type = "QueueUnit"
  <2> DEFINE v == [o EXCEPT !.queue = Append(o.queue, m.value)]
  <2>1. Replaces(v)
    BY <1>7 DEF ParseMessage, HandleQueueUnit
  <2>2. DOMAIN v = DOMAIN o /\ v.owner = o.owner /\ v.type = o.type
        /\ ("built" \in DOMAIN o => v.built = o.built)
    BY <1>1 DEF Shaped
  <2> QED
    BY <1>2, <2>1, <2>2
<1>8. CASE m.type = "RemoveFromProductionQueue"
  <2>1. CASE m.value > Len(o.queue)
    BY <1>8, <2>1 DEF ParseMessage, HandleRemoveFromProductionQueue
  <2>2. CASE ~(m.value > Len(o.queue))
    <3> DEFINE v == [o EXCEPT !.queue     = RemoveAt(o.queue, m.value),
                              !.producing = IF m.value = 1 THEN FALSE ELSE o.producing]
    <3>1. Replaces(v)
      BY <1>8, <2>2 DEF ParseMessage, HandleRemoveFromProductionQueue
    <3>2. DOMAIN v = DOMAIN o /\ v.owner = o.owner /\ v.type = o.type
          /\ ("built" \in DOMAIN o => v.built = o.built)
      BY <1>1 DEF Shaped
    <3> QED
      BY <1>2, <3>1, <3>2
  <2> QED
    BY <2>1, <2>2
<1> QED
  BY <1>3, <1>4, <1>5, <1>6, <1>7, <1>8 DEF DetailTypes

\* The counters s with an object of the client counted d times more.
Entered(s, o, d) ==
    IF IsUnit(o) THEN UnitChange(s, o.type, d)
    ELSE IF IsCompleted(o) THEN FinishedBuildingChange(s, o.type, d)
    ELSE UnfinishedBuildingChange(s, o.type, d)

\* Counters that agree still do when both count the object in, or out.
LEMMA EnteredCounts ==
    ASSUME NEW a \in Stats, NEW b \in Stats, SameCounts(a, b), NEW o, Shaped(o), NEW d \in {1, -1}
    PROVE  /\ Entered(a, o, d) \in Stats /\ Counted(b, Seen(o), d) \in Stats
           /\ SameCounts(Entered(a, o, d), Counted(b, Seen(o), d))
<1> DEFINE s == Seen(o)
           x == Entered(a, o, d)
           y == Counted(b, s, d)
<1>1. /\ s.type \in UnitTypes \cup BuildingTypes /\ o.type \in UnitTypes \cup BuildingTypes
      /\ s.production = 0
  BY SeenSays DEF Shaped, IsUnit, IsBuilding
<1>2. y \in Stats
  <2> HIDE DEF s
  <2> QED
    BY <1>1, CountedType
<1>3. CASE IsUnit(o)
  <2>1. IsUnit(s) /\ o.type \in UnitTypes /\ (s.type \in VillagerTypes <=> o.type \in VillagerTypes)
    BY <1>3, SeenSays DEF IsUnit
  <2>2. x = UnitChange(a, o.type, d) /\ x \in Stats
    BY <1>3, <2>1, UnitChanged DEF Entered
  <2>3. /\ x.population = a.population + d /\ x.space = a.space
        /\ x.constructing = a.constructing /\ x.standing = a.standing
        /\ x.villagers = IF o.type \in VillagerTypes THEN a.villagers + d ELSE a.villagers
    <3> HIDE DEF x
    <3> QED
      BY <2>2 DEF UnitChange, Stats
  <2> HIDE DEF s, x
  <2>4. /\ y.population = b.population + d /\ y.space = b.space
        /\ y.constructing = b.constructing /\ y.standing = b.standing
        /\ y.villagers = IF s.type \in VillagerTypes THEN b.villagers + d ELSE b.villagers
    BY <2>1, CountedUnit
  <2> HIDE DEF y
  <2>5. SameCounts(x, y)
    BY <2>1, <2>3, <2>4 DEF SameCounts
  <2> QED
    BY <1>2, <2>2, <2>5 DEF x, y, s
<1>4. CASE ~IsUnit(o)
  <2>1. /\ ~IsUnit(s) /\ s.type \in BuildingTypes /\ o.type = s.type
        /\ (IsCompleted(s) <=> IsCompleted(o)) /\ ~(s.production > 0)
    BY <1>1, <1>4, SeenSays, TypesDisjoint DEF IsUnit, IsBuilding, IsCompleted
  <2>2. x = (IF IsCompleted(o) THEN FinishedBuildingChange(a, o.type, d)
             ELSE UnfinishedBuildingChange(a, o.type, d)) /\ x \in Stats
    BY <1>4, <2>1, BuildingStats DEF Entered
  <2>3. /\ x.population = a.population /\ x.villagers = a.villagers
        /\ x.space = IF IsCompleted(o) THEN a.space + d * PopulationSpace[o.type] ELSE a.space
        /\ \A t \in BuildingTypes :
             /\ x.constructing[t] = IF o.type = t /\ ~IsCompleted(o)
                                      THEN a.constructing[t] + d ELSE a.constructing[t]
             /\ x.standing[t] = IF o.type = t /\ IsCompleted(o)
                                  THEN a.standing[t] + d ELSE a.standing[t]
    <3> HIDE DEF x
    <3>1. CASE IsCompleted(o)
      BY <2>1, <2>2, <3>1 DEF FinishedBuildingChange, Stats
    <3>2. CASE ~IsCompleted(o)
      BY <2>1, <2>2, <3>2 DEF UnfinishedBuildingChange, Stats
    <3> QED
      BY <3>1, <3>2
  <2> HIDE DEF s, x
  <2>4. /\ y.population = b.population /\ y.villagers = b.villagers
        /\ y.space = IF IsCompleted(s) THEN b.space + d * PopulationSpace[s.type] ELSE b.space
        /\ \A t \in BuildingTypes :
             /\ y.constructing[t] = IF s.type = t /\ ~IsCompleted(s)
                                      THEN b.constructing[t] + d ELSE b.constructing[t]
             /\ y.standing[t] = IF s.type = t /\ IsCompleted(s)
                                  THEN b.standing[t] + d ELSE b.standing[t]
    BY <2>1, CountedBuilding
  <2> HIDE DEF y
  <2>5. x.space = y.space
    BY <2>1, <2>3, <2>4 DEF SameCounts
  <2>6. \A t \in BuildingTypes : x.constructing[t] = y.constructing[t] /\ x.standing[t] = y.standing[t]
    BY <2>1, <2>3, <2>4 DEF SameCounts
  <2>7. SameCounts(x, y)
    BY <2>3, <2>4, <2>5, <2>6 DEF SameCounts
  <2> QED
    BY <1>2, <2>2, <2>7 DEF x, y, s
<1> QED
  BY <1>3, <1>4

\* The objects of a client that count are finitely many.
LEMMA OwnFinite ==
    ASSUME NEW c, IsFiniteSet(DOMAIN c.objects)
    PROVE  IsFiniteSet(OwnOf(c)) /\ OwnOf(c) \subseteq DOMAIN c.objects
BY FS_Subset DEF OwnOf

\* AddObject: what is added was not there.
LEMMA AddHandled ==
    ASSUME NEW c, NEW M, NEW m, m.type = "AddObject", Sound(c, M \cup {m}), Fact(m), Proper(m),
           \A n \in M : Follows(m, n)
    PROVE  Sound(ParseMessage(c, m), M)
<1> DEFINE id == m.id
           o  == m.value
           c2 == ParseMessage(c, m)
<1>1. Shaped(o)
  BY DEF Proper
<1>2. id \notin DOMAIN c.objects
  <2>1. \A i \in DOMAIN c.objects : Follows(Message("AddObject", i, c.objects[i]), m)
    BY DEF Sound, Added
  <2> QED
    BY <2>1 DEF Follows, Message
<1>3. /\ c2.objects = [i \in DOMAIN c.objects \cup {id} |-> IF i = id THEN o ELSE c.objects[i]]
      /\ c2.stats = IF o.owner = me THEN Entered(c.stats, o, 1) ELSE c.stats
      /\ "objects" \in DOMAIN c2 /\ "stats" \in DOMAIN c2
  <2>1. c2 = HandleAddObject(c, m)
    BY DEF ParseMessage, ObjectMessages
  <2>2. /\ "objects" \in DOMAIN c /\ "stats" \in DOMAIN c
    BY DEF Sound
  <2> HIDE DEF c2
  <2>3. c2.stats = IF ~Own(o) THEN c.stats
                   ELSE IF IsUnit(o) THEN UnitAdded(c.stats, o.type)
                   ELSE BuildingAdded(c.stats, o.type, IsCompleted(o))
    BY <2>1, <2>2 DEF HandleAddObject
  <2>4. c2.objects = [i \in DOMAIN c.objects \cup {id} |-> IF i = id THEN o ELSE c.objects[i]] /\ "objects" \in DOMAIN c2 /\ "stats" \in DOMAIN c2
    BY <2>1, <2>2 DEF HandleAddObject
  <2> QED
    BY <2>3, <2>4 DEF Own, Entered, UnitAdded, BuildingAdded
<1>4. /\ DOMAIN c2.objects = DOMAIN c.objects \cup {id} /\ c2.objects[id] = o
      /\ \A i \in DOMAIN c.objects : c2.objects[i] = c.objects[i]
  BY <1>2, <1>3
<1> HIDE DEF c2
<1>5. IsFiniteSet(DOMAIN c2.objects)
  BY <1>4, FS_AddElement DEF Sound
<1>6. ASSUME NEW i \in DOMAIN c2.objects
      PROVE  /\ Shaped(c2.objects[i]) /\ Fact(Added(c2, i))
             /\ \A n \in M : Follows(Added(c2, i), n)
  <2>1. CASE i = id
    <3> DEFINE x == Added(c2, i)
    <3>1. x.type = m.type /\ x.id = m.id /\ x.value = m.value
      BY <1>4, <2>1 DEF Added, Message
    <3> HIDE DEF x
    <3>2. Fact(x)
      BY <3>1 DEF Fact
    <3>3. \A n \in M : Follows(x, n)
      BY <3>1 DEF Follows
    <3> QED
      BY <1>1, <1>4, <2>1, <3>2, <3>3 DEF x
  <2>2. CASE i # id
    <3>1. i \in DOMAIN c.objects /\ c2.objects[i] = c.objects[i]
      BY <1>4, <2>2
    <3>2. Added(c2, i) = Added(c, i)
      BY <3>1 DEF Added
    <3> QED
      BY <3>1, <3>2 DEF Sound
  <2> QED
    BY <2>1, <2>2
<1>7. c2.stats \in Stats /\ Mirroring(c2)
  <2> DEFINE f == SeenMap(c)
             g == SeenMap(c2)
             L == OwnOf(c)
             K == OwnOf(c2)
  <2>1. IsFiniteSet(L) /\ L \subseteq DOMAIN c.objects /\ id \notin L
    BY <1>2, OwnFinite DEF Sound
  <2>2. g[id] = Seen(o) /\ \A i \in L : g[i] = f[i]
    BY <1>4, <2>1 DEF SeenMap
  <2>3. K = IF o.owner = me THEN L \cup {id} ELSE L
    BY <1>2, <1>4 DEF OwnOf
  <2>4. Seen(o).type \in UnitTypes \cup BuildingTypes
    BY <1>1, SeenSays DEF IsBuilding
  <2>5. c.stats \in Stats /\ SameCounts(c.stats, Tally(f, L))
    BY DEF Sound, Mirroring
  <2> HIDE DEF f, g, L, K
  <2>6. Tally(g, L) = Tally(f, L) /\ Tally(f, L) \in Stats
    BY <2>1, <2>2, OtherChanged, TallyType
  <2>7. Tally(g, L \cup {id}) = Counted(Tally(g, L), Seen(o), 1)
    <3>1. g[id].type \in UnitTypes \cup BuildingTypes
      BY <2>2, <2>4
    <3>2. Tally(g, L \cup {id}) = Counted(Tally(g, L), g[id], 1)
      BY <2>1, <3>1, TallyWith
    <3> QED
      BY <2>2, <3>2
  <2>8. /\ Entered(c.stats, o, 1) \in Stats
        /\ SameCounts(Entered(c.stats, o, 1), Counted(Tally(f, L), Seen(o), 1))
    BY <1>1, <2>5, <2>6, EnteredCounts
  <2>9. c2.stats \in Stats /\ SameCounts(c2.stats, Tally(g, K))
    BY <1>3, <2>3, <2>5, <2>6, <2>7, <2>8
  <2> QED
    BY <2>9 DEF Mirroring, g, K
<1>8. Sound(c2, M)
  BY <1>3, <1>5, <1>6, <1>7 DEF Sound
<1> QED
  BY <1>8 DEF c2

\* ObjectDeath: what has died is taken off as what it was.
LEMMA DeathHandled ==
    ASSUME NEW c, NEW M, Sound(c, M), NEW m, m.type = "ObjectDeath", m.id \in DOMAIN c.objects
    PROVE  Sound(ParseMessage(c, m), M)
<1> DEFINE id == m.id
           o  == c.objects[id]
           c2 == ParseMessage(c, m)
<1>1. Shaped(o)
  BY DEF Sound
<1>3. /\ c2.objects = [i \in DOMAIN c.objects \ {id} |-> c.objects[i]]
      /\ c2.stats = IF o.owner = me THEN Entered(c.stats, o, -1) ELSE c.stats
      /\ "objects" \in DOMAIN c2 /\ "stats" \in DOMAIN c2
  <2>1. c2 = HandleObjectDeath(c, m)
    BY DEF ParseMessage, ObjectMessages
  <2>2. /\ "objects" \in DOMAIN c /\ "stats" \in DOMAIN c
    BY DEF Sound
  <2> HIDE DEF c2
  <2>3. c2.stats = IF ~Own(o) THEN c.stats
                   ELSE IF IsUnit(o) THEN UnitRemoved(c.stats, o.type)
                   ELSE BuildingRemoved(c.stats, o.type, IsCompleted(o))
    BY <2>1, <2>2 DEF HandleObjectDeath
  <2>4. /\ c2.objects = [i \in DOMAIN c.objects \ {id} |-> c.objects[i]]
        /\ "objects" \in DOMAIN c2 /\ "stats" \in DOMAIN c2
    BY <2>1, <2>2 DEF HandleObjectDeath
  <2> QED
    BY <2>3, <2>4 DEF Own, Entered, UnitRemoved, BuildingRemoved
<1>4. /\ DOMAIN c2.objects = DOMAIN c.objects \ {id}
      /\ \A i \in DOMAIN c2.objects : i \in DOMAIN c.objects /\ c2.objects[i] = c.objects[i]
  BY <1>3
<1> HIDE DEF c2
<1>5. IsFiniteSet(DOMAIN c2.objects)
  BY <1>4, FS_Subset DEF Sound
<1>6. ASSUME NEW i \in DOMAIN c2.objects
      PROVE  /\ Shaped(c2.objects[i]) /\ Fact(Added(c2, i))
             /\ \A n \in M : Follows(Added(c2, i), n)
  <2>1. i \in DOMAIN c.objects /\ c2.objects[i] = c.objects[i]
    BY <1>4
  <2>2. Added(c2, i) = Added(c, i)
    BY <2>1 DEF Added
  <2> QED
    BY <2>1, <2>2 DEF Sound
<1>7. c2.stats \in Stats /\ Mirroring(c2)
  <2> DEFINE f == SeenMap(c)
             g == SeenMap(c2)
             L == OwnOf(c)
             K == OwnOf(c2)
             d == -1
  <2>0. d \in {1, -1}
    OBVIOUS
  <2>1. IsFiniteSet(L) /\ L \subseteq DOMAIN c.objects
    BY OwnFinite DEF Sound
  <2>2. f[id] = Seen(o) /\ \A i \in L \ {id} : g[i] = f[i]
    BY <1>4, <2>1 DEF SeenMap
  <2>3. K = L \ {id} /\ (id \in L <=> o.owner = me)
    BY <1>4 DEF OwnOf
  <2>4. f[id].type \in UnitTypes \cup BuildingTypes
    BY <1>1, <2>2, SeenSays DEF IsBuilding
  <2>5. c.stats \in Stats /\ SameCounts(c.stats, Tally(f, L))
    BY DEF Sound, Mirroring
  <2>6. c2.stats = IF o.owner = me THEN Entered(c.stats, o, d) ELSE c.stats
    BY <1>3
  <2> HIDE DEF f, g, L
  <2>7. IsFiniteSet(K) /\ Tally(g, K) = Tally(f, K) /\ Tally(f, L) \in Stats
    <3>1. IsFiniteSet(K)
      BY <2>1, <2>3, FS_Subset
    <3> HIDE DEF K
    <3> QED
      BY <2>1, <2>2, <2>3, <3>1, OtherChanged, TallyType
  <2> HIDE DEF K
  <2>8. id \in L => Tally(f, K) = Counted(Tally(f, L), Seen(o), d)
    <3>1. id \in L => Tally(f, L \ {id}) = Counted(Tally(f, L), f[id], -1)
      BY <2>1, <2>4, TallyWithout
    <3> QED
      BY <2>2, <2>3, <3>1 DEF d
  <2>9. id \notin L => K = L
    BY <2>3
  <2> HIDE DEF d
  <2>10. /\ Entered(c.stats, o, d) \in Stats
         /\ SameCounts(Entered(c.stats, o, d), Counted(Tally(f, L), Seen(o), d))
    BY <1>1, <2>0, <2>5, <2>7, EnteredCounts
  <2>11. c2.stats \in Stats /\ SameCounts(c2.stats, Tally(g, K))
    BY <2>3, <2>5, <2>6, <2>7, <2>8, <2>9, <2>10
  <2> QED
    BY <2>11 DEF Mirroring, g, K
<1>8. Sound(c2, M)
  BY <1>3, <1>5, <1>6, <1>7 DEF Sound
<1> QED
  BY <1>8 DEF c2

\* BuildPercentageUpdate: what is completed counts as completed from then on.
LEMMA BuildHandled ==
    ASSUME NEW c, NEW M, NEW m, m.type = "BuildPercentageUpdate", Sound(c, M \cup {m}), Fact(m),
           \A n \in M : Follows(m, n), m.id \in DOMAIN c.objects
    PROVE  Sound(ParseMessage(c, m), M)
<1> DEFINE id == m.id
           b  == c.objects[id]
           b2 == [b EXCEPT !.built = m.value]
           c2 == ParseMessage(c, m)
           ends == b.owner = me /\ ~IsCompleted(b) /\ m.value = BuildSteps
<1>1. /\ Shaped(b) /\ IsBuilding(b) /\ (IsCompleted(b) => m.value = BuildSteps)
  <2> DEFINE x == Added(c, id)
  <2>1. x.type = "AddObject" /\ x.id = m.id /\ x.value = b /\ Follows(x, m) /\ Shaped(b)
    BY DEF Added, Message, Sound
  <2> HIDE DEF x, b
  <2> QED
    BY <2>1 DEF Follows
<1>2. /\ c2.objects = [c.objects EXCEPT ![id] = b2]
      /\ c2.stats = IF ends THEN BuildingFinished(c.stats, b.type) ELSE c.stats
      /\ "objects" \in DOMAIN c2 /\ "stats" \in DOMAIN c2
  <2>1. c2 = HandleBuildPercentageUpdate(c, m)
    BY DEF ParseMessage, ObjectMessages
  <2>2. /\ "objects" \in DOMAIN c /\ "stats" \in DOMAIN c
    BY DEF Sound
  <2> HIDE DEF c2
  <2> QED
    BY <2>1, <2>2 DEF HandleBuildPercentageUpdate, Own
<1>3. /\ Shaped(b2) /\ IsBuilding(b2) /\ b2.owner = b.owner /\ b2.type = b.type
      /\ b2.built = m.value /\ (IsCompleted(b2) <=> m.value = BuildSteps)
  <2>1. "owner" \in DOMAIN b /\ "type" \in DOMAIN b /\ "built" \in DOMAIN b
    BY <1>1 DEF Shaped
  <2> HIDE DEF b
  <2>2. b2.owner = b.owner /\ b2.type = b.type /\ b2.built = m.value /\ DOMAIN b2 = DOMAIN b
    BY <2>1
  <2> HIDE DEF b2
  <2> QED
    BY <1>1, <2>1, <2>2 DEF Shaped, IsBuilding, IsCompleted
<1>4. /\ DOMAIN c2.objects = DOMAIN c.objects
      /\ \A i \in DOMAIN c.objects : c2.objects[i] = IF i = id THEN b2 ELSE c.objects[i]
  <2> HIDE DEF c2, b2
  <2> QED
    BY <1>2
<1> HIDE DEF c2, b2
<1>5. ASSUME NEW i \in DOMAIN c2.objects
      PROVE  /\ Shaped(c2.objects[i]) /\ Fact(Added(c2, i))
             /\ \A n \in M : Follows(Added(c2, i), n)
  <2>1. CASE i = id
    <3> DEFINE x == Added(c, id)
               y == Added(c2, id)
    <3>1. /\ y.type = "AddObject" /\ y.id = m.id /\ y.value = b2
          /\ x.type = "AddObject" /\ x.id = m.id /\ x.value = b
          /\ Fact(x) /\ \A n \in M : Follows(x, n)
      BY <1>4 DEF Added, Message, Sound
    <3> HIDE DEF x, y, b
    <3>2. Seen(b2).type = Seen(b).type
      BY <1>3 DEF Seen
    <3>3. Fact(y)
      BY <1>1, <1>3, <3>1, <3>2 DEF Fact
    <3>4. \A n \in M : Follows(y, n)
      BY <1>1, <1>3, <3>1, <3>2 DEF Follows
    <3> QED
      BY <1>3, <1>4, <2>1, <3>3, <3>4 DEF y
  <2>2. CASE i # id
    <3>1. i \in DOMAIN c.objects /\ c2.objects[i] = c.objects[i]
      BY <1>4, <2>2
    <3>2. Added(c2, i) = Added(c, i)
      BY <3>1 DEF Added
    <3> QED
      BY <3>1, <3>2 DEF Sound
  <2> QED
    BY <2>1, <2>2
<1>6. c2.stats \in Stats /\ Mirroring(c2)
  <2> DEFINE f == SeenMap(c)
             g == SeenMap(c2)
             L == OwnOf(c)
             d == -1
  <2>1. IsFiniteSet(L) /\ L \subseteq DOMAIN c.objects
    BY OwnFinite DEF Sound
  <2>2. f[id] = Seen(b) /\ g[id] = Seen(b2) /\ \A i \in L \ {id} : g[i] = f[i]
    BY <1>4, <2>1 DEF SeenMap
  <2>3. OwnOf(c2) = L /\ (id \in L <=> b.owner = me)
    BY <1>3, <1>4 DEF OwnOf
  <2>4. c.stats \in Stats /\ SameCounts(c.stats, Tally(f, L))
    BY DEF Sound, Mirroring
  <2>5. /\ f[id].type = b.type /\ g[id].type = b.type /\ b.type \in BuildingTypes
        /\ f[id].built = b.built /\ g[id].built = b2.built
        /\ f[id].production = 0 /\ g[id].production = 0
    BY <1>1, <1>3, <2>2, SeenSays DEF IsBuilding
  <2> HIDE DEF f, g, L, b
  <2>6. Tally(f, L) \in Stats
    BY <2>1, TallyType
  <2>7. CASE ends
    <3>1. Tally(g, L) = Counted(Counted(Tally(f, L), Seen(b), d), Seen(b2), 1)
      <4>1. id \in L /\ f[id].type \in UnitTypes \cup BuildingTypes
                     /\ g[id].type \in UnitTypes \cup BuildingTypes
        BY <2>3, <2>5, <2>7
      <4>2. Tally(g, L) = Counted(Counted(Tally(f, L), f[id], -1), g[id], 1)
        BY <2>1, <2>2, <4>1, OneChanged
      <4> QED
        BY <2>2, <4>2
    <3>2. c2.stats = Entered(Entered(c.stats, b, d), b2, 1)
      <4>1. ~IsUnit(b) /\ ~IsUnit(b2) /\ ~IsCompleted(b) /\ IsCompleted(b2)
        BY <1>1, <1>3, <2>7, TypesDisjoint DEF IsUnit, IsBuilding
      <4> QED
        BY <1>2, <1>3, <2>7, <4>1 DEF BuildingFinished, Entered
    <3>3. d \in {1, -1}
      OBVIOUS
    <3> HIDE DEF d
    <3>4. /\ Entered(c.stats, b, d) \in Stats /\ Counted(Tally(f, L), Seen(b), d) \in Stats
          /\ SameCounts(Entered(c.stats, b, d), Counted(Tally(f, L), Seen(b), d))
      BY <1>1, <2>4, <2>6, <3>3, EnteredCounts
    <3>5. /\ Entered(Entered(c.stats, b, d), b2, 1) \in Stats
          /\ SameCounts(Entered(Entered(c.stats, b, d), b2, 1),
                        Counted(Counted(Tally(f, L), Seen(b), d), Seen(b2), 1))
      BY <1>3, <3>4, EnteredCounts
    <3> QED
      BY <2>3, <3>1, <3>2, <3>5 DEF Mirroring, g
  <2>8. CASE ~ends
    <3>1. c2.stats = c.stats
      BY <1>2, <2>8
    <3>2. \A i \in L : Alike(f[i], g[i])
      <4>1. ASSUME NEW i \in L PROVE Alike(f[i], g[i])
        <5>1. CASE i = id
          <6>1. IsCompleted(b) <=> IsCompleted(b2)
            BY <1>1, <1>3, <2>3, <2>8, <5>1
          <6> QED
            BY <2>5, <5>1, <6>1 DEF Alike, IsCompleted
        <5>2. CASE i # id
          BY <2>2, <5>2 DEF Alike
        <5> QED
          BY <5>1, <5>2
      <4> QED
        BY <4>1
    <3>3. Tally(f, L) = Tally(g, L)
      BY <2>1, <3>2, TallyAlike
    <3> QED
      BY <2>3, <2>4, <3>1, <3>3 DEF Mirroring, g
  <2> QED
    BY <2>7, <2>8
<1>7. Sound(c2, M)
  BY <1>2, <1>4, <1>5, <1>6 DEF Sound
<1> QED
  BY <1>7 DEF c2

\* ChangeUnitType: a villager turns to another trade, whoever owns it.
LEMMA TradeHandled ==
    ASSUME NEW c, NEW M, NEW m, m.type = "ChangeUnitType", Sound(c, M \cup {m}), Proper(m),
           m.id \in DOMAIN c.objects
    PROVE  Sound(ParseMessage(c, m), M)
<1> DEFINE id == m.id
           o  == c.objects[id]
           o2 == [o EXCEPT !.type = m.value]
           c2 == ParseMessage(c, m)
           from == o.type
           to == m.value
<1>1. Shaped(o) /\ Seen(o).type = "Villager" /\ to \in VillagerTypes
  <2> DEFINE x == Added(c, id)
  <2>1. x.type = "AddObject" /\ x.id = m.id /\ x.value = o /\ Follows(x, m) /\ Shaped(o)
    BY DEF Added, Message, Sound
  <2> HIDE DEF x, o
  <2> QED
    BY <2>1 DEF Follows, Proper
<1>2. from \in VillagerTypes /\ IsUnit(o)
  BY <1>1, SeenSays DEF VillagerTypes, IsUnit, UnitTypes
<1>3. /\ c2.objects = [c.objects EXCEPT ![id] = o2]
      /\ c2.stats = UnitTransformed(c.stats, from, to)
      /\ "objects" \in DOMAIN c2 /\ "stats" \in DOMAIN c2
  <2>1. c2 = HandleChangeUnitType(c, m)
    BY DEF ParseMessage, ObjectMessages
  <2>2. /\ "objects" \in DOMAIN c /\ "stats" \in DOMAIN c
    BY DEF Sound
  <2> HIDE DEF c2
  <2> QED
    BY <2>1, <2>2 DEF HandleChangeUnitType
<1>4. Shaped(o2) /\ Seen(o2) = Seen(o)
  <2>1. "owner" \in DOMAIN o /\ "type" \in DOMAIN o
    BY <1>1 DEF Shaped
  <2> HIDE DEF o
  <2>2. o2.owner = o.owner /\ o2.type = to /\ DOMAIN o2 = DOMAIN o
    BY <2>1
  <2> HIDE DEF o2
  <2>3. ~IsBuilding(o2) /\ IsUnit(o2) /\ to \in UnitTypes
    BY <1>1, <2>2, TypesDisjoint DEF IsUnit, IsBuilding, UnitTypes
  <2>4. Shaped(o2)
    BY <2>1, <2>2, <2>3 DEF Shaped
  <2> QED
    BY <1>1, <1>2, <2>2, <2>3, <2>4 DEF Seen, Class
<1>5. /\ DOMAIN c2.objects = DOMAIN c.objects
      /\ \A i \in DOMAIN c.objects : c2.objects[i] = IF i = id THEN o2 ELSE c.objects[i]
  <2> HIDE DEF c2, o2
  <2> QED
    BY <1>3
<1> HIDE DEF c2, o2
<1>6. \A i \in DOMAIN c.objects : Shaped(c2.objects[i]) /\ Seen(c2.objects[i]) = Seen(c.objects[i])
  BY <1>4, <1>5 DEF Sound
<1>7. c2.stats \in Stats /\ SameCounts(c2.stats, c.stats)
  <2> DEFINE d == -1
             s == c.stats
             u == UnitChange(s, from, d)
             v == UnitChange(u, to, 1)
  <2>1. s \in Stats /\ from \in UnitTypes /\ to \in UnitTypes /\ d \in Int /\ \A n \in Int : n + d + 1 = n
    BY <1>1, <1>2 DEF Sound, UnitTypes
  <2>2. c2.stats = v
    BY <1>3 DEF UnitTransformed
  <2> HIDE DEF d, s, from, to
  <2>3. u \in Stats /\ v \in Stats
    BY <2>1, UnitChanged
  <2>4. /\ u.population = s.population + d /\ u.villagers = s.villagers + d /\ u.space = s.space
        /\ u.constructing = s.constructing /\ u.standing = s.standing
    BY <1>2, <2>1 DEF UnitChange, Stats
  <2> HIDE DEF u
  <2>5. /\ v.population = u.population + 1 /\ v.villagers = u.villagers + 1 /\ v.space = u.space
        /\ v.constructing = u.constructing /\ v.standing = u.standing
    BY <1>1, <2>1, <2>3 DEF UnitChange, Stats
  <2> HIDE DEF v
  <2>6. v.population = s.population /\ v.villagers = s.villagers
    BY <2>1, <2>4, <2>5 DEF Stats
  <2> QED
    BY <2>2, <2>3, <2>4, <2>5, <2>6 DEF SameCounts, s
<1>8. Sound(c, M)
  BY DEF Sound
<1>9. Sound(c2, M)
  BY <1>3, <1>5, <1>6, <1>7, <1>8, QuietHandled
<1> QED
  BY <1>9 DEF c2

\* Whatever the message is.
LEMMA SoundHandled ==
    ASSUME NEW c, NEW M, NEW m, m.type \in SpokenTypes \cup {"PlayerLeaveBroadcast"},
           Sound(c, M \cup {m}), Fact(m), Proper(m), \A n \in M : Follows(m, n)
    PROVE  Sound(ParseMessage(c, m), M)
<1>1. Sound(c, M)
  BY DEF Sound
<1>2. CASE m.type \in ObjectMessages /\ m.id \notin DOMAIN c.objects
  BY <1>1, <1>2 DEF ParseMessage
<1>3. CASE m.type \in ObjectMessages /\ m.id \in DOMAIN c.objects
  <2>1. CASE m.type \in DetailTypes
    BY <1>1, <1>3, <2>1, DetailsHandled
  <2>2. CASE m.type = "ObjectDeath"
    BY <1>1, <1>3, <2>2, DeathHandled
  <2>3. CASE m.type = "BuildPercentageUpdate"
    BY <1>3, <2>3, BuildHandled
  <2>4. CASE m.type = "ChangeUnitType"
    BY <1>3, <2>4, TradeHandled
  <2> QED
    BY <1>3, <2>1, <2>2, <2>3, <2>4 DEF ObjectMessages, DetailTypes
<1>4. CASE m.type = "AddObject"
  BY <1>4, AddHandled
<1>5. CASE m.type \in {"ResourcesUpdate", "SetHoused", "PlayerLeaveBroadcast", "GameStepTime"}
  <2> DEFINE c2 == ParseMessage(c, m)
  <2>1. /\ "objects" \in DOMAIN c /\ "stats" \in DOMAIN c
    BY DEF Sound
  <2>2. /\ c2.objects = c.objects /\ c2.stats = c.stats
        /\ "objects" \in DOMAIN c2 /\ "stats" \in DOMAIN c2
    <3>1. CASE m.type = "ResourcesUpdate"
      BY <2>1, <3>1 DEF ParseMessage, ObjectMessages
    <3>2. CASE m.type = "SetHoused"
      BY <2>1, <3>2 DEF ParseMessage, ObjectMessages
    <3>3. CASE m.type = "PlayerLeaveBroadcast"
      BY <2>1, <3>3 DEF ParseMessage, ObjectMessages, HandlePlayerLeaveBroadcast
    <3>4. CASE m.type = "GameStepTime"
      BY <2>1, <3>4 DEF ParseMessage, ObjectMessages
    <3> QED
      BY <1>5, <3>1, <3>2, <3>3, <3>4
  <2> HIDE DEF c2
  <2>3. c2.stats \in Stats /\ SameCounts(c2.stats, c.stats)
        /\ \A i \in DOMAIN c.objects : Shaped(c2.objects[i]) /\ Seen(c2.objects[i]) = Seen(c.objects[i])
    BY <2>2 DEF Sound, SameCounts
  <2>4. Sound(c2, M)
    BY <1>1, <2>2, <2>3, QuietHandled
  <2> QED
    BY <2>4 DEF c2
<1> QED
  BY <1>2, <1>3, <1>4, <1>5 DEF SpokenTypes, NewsTypes

\* What is still to come after the first i messages of the stream.
Later(i) == {stream[j] : j \in i + 1 .. Len(stream)} \cup Elements(accumulated)

\* And so after any number of messages.
LEMMA SoundAfter ==
    ASSUME OutcomeInv, MirrorInv, NEW n \in 0 .. Len(stream)
    PROVE  Sound(Handled(n), Later(n))
<1>1. Len(stream) \in Nat /\ DOMAIN stream = 1 .. Len(stream)
  BY LenProperties DEF MirrorInv, Listed
<1>0. \A j \in 1 .. Len(stream) : stream[j] \in Elements(stream)
  BY <1>1 DEF Elements
<1> DEFINE N == {i \in Nat : i <= Len(stream) => Sound(Handled(i), Later(i))}
<1>2. 0 \in N
  <2>1. Later(0) = Elements(stream) \cup Elements(accumulated)
    BY <1>1 DEF Later, Elements
  <2> QED
    BY <2>1, HandledSteps DEF MirrorInv
<1>3. ASSUME NEW i \in Nat, i \in N PROVE i + 1 \in N
  <2>1. SUFFICES ASSUME i + 1 <= Len(stream) PROVE Sound(Handled(i + 1), Later(i + 1))
    OBVIOUS
  <2> DEFINE m == stream[i + 1]
  <2>2. i + 1 \in 1 .. Len(stream) /\ i <= Len(stream)
    BY <1>1, <2>1
  <2>3. Later(i) = Later(i + 1) \cup {m}
    <3>1. i + 1 .. Len(stream) = ((i + 1) + 1 .. Len(stream)) \cup {i + 1}
      BY <1>1, <2>1
    <3>2. {stream[j] : j \in i + 1 .. Len(stream)}
            = {stream[j] : j \in (i + 1) + 1 .. Len(stream)} \cup {m}
      BY <3>1
    <3> QED
      BY <3>2 DEF Later
  <2>4. \A x \in Later(i + 1) : Follows(m, x)
    <3>1. \A j \in (i + 1) + 1 .. Len(stream) : Follows(m, stream[j])
      <4>1. \A j \in (i + 1) + 1 .. Len(stream) : j \in 1 .. Len(stream) /\ i + 1 < j
        BY <1>1, <2>2
      <4> QED
        BY <1>1, <2>2, <4>1 DEF MirrorInv, InOrder
    <3>2. \A x \in Elements(accumulated) : Follows(m, x)
      BY <1>0, <2>2 DEF MirrorInv
    <3> QED
      BY <3>1, <3>2 DEF Later
  <2>5. /\ m.type \in SpokenTypes \cup {"PlayerLeaveBroadcast"}
        /\ Fact(m) /\ Proper(m)
    BY <1>0, <2>2 DEF MirrorInv, OutcomeInv
  <2>6. Sound(Handled(i), Later(i + 1) \cup {m})
    BY <1>3, <2>2, <2>3
  <2>7. Handled(i + 1) = ParseMessage(Handled(i), m)
    BY HandledSteps
  <2> HIDE DEF m
  <2> QED
    BY <2>4, <2>5, <2>6, <2>7, SoundHandled
<1> HIDE DEF N
<1>4. n \in N
  BY <1>1, <1>2, <1>3, SetInduction
<1> QED
  BY <1>1, <1>4 DEF N

\* What is handled is no longer to come.
LEMMA StreamAfter ==
    ASSUME MirrorInv, NEW n \in 0 .. Len(stream)
    PROVE  /\ Listed(After(n)) /\ InOrder(After(n)) /\ Elements(After(n)) \subseteq Elements(stream)
           /\ Elements(After(n)) \cup Elements(accumulated) \subseteq Later(n)
<1>1. Len(stream) \in Nat /\ DOMAIN stream = 1 .. Len(stream)
  BY LenProperties DEF MirrorInv, Listed
<1> DEFINE q == After(n)
<1>2. /\ Listed(q) /\ Len(q) = Len(stream) - n
      /\ \A i \in 1 .. Len(stream) - n : q[i] = stream[n + i]
      /\ Elements(q) \subseteq Elements(stream)
  BY AfterListed DEF MirrorInv
<1> HIDE DEF q
<1>3. DOMAIN q = 1 .. Len(stream) - n
  BY <1>2, LenProperties DEF Listed
<1>4. InOrder(q)
  <2>1. ASSUME NEW i \in DOMAIN q, NEW j \in DOMAIN q, i < j PROVE Follows(q[i], q[j])
    <3>1. n + i \in DOMAIN stream /\ n + j \in DOMAIN stream /\ n + i < n + j
      BY <1>1, <1>3, <2>1
    <3>2. q[i] = stream[n + i] /\ q[j] = stream[n + j]
      BY <1>2, <1>3
    <3> QED
      BY <3>1, <3>2 DEF MirrorInv, InOrder
  <2> QED
    BY <2>1 DEF InOrder
<1>5. Elements(q) \subseteq Later(n)
  <2>1. ASSUME NEW i \in DOMAIN q PROVE q[i] \in Later(n)
    <3>1. n + i \in n + 1 .. Len(stream) /\ q[i] = stream[n + i]
      BY <1>1, <1>2, <1>3
    <3> QED
      BY <3>1 DEF Later
  <2> QED
    BY <2>1 DEF Elements
<1> QED
  BY <1>2, <1>4, <1>5 DEF Later, q

\* Whoever has fewer messages to come is right as well.
LEMMA SoundFewer ==
    ASSUME NEW c, NEW M, Sound(c, M), NEW N \in SUBSET M
    PROVE  Sound(c, N)
BY DEF Sound

\* What a step says may come to the client.
LEMMA SoundUttered ==
    ASSUME MatchInv, NEW c, NEW M, Sound(c, M), NEW N,
           \A n \in N : Sayable(n) \/ n.type \notin Loud
    PROVE  Sound(c, M \cup N)
<1>1. ASSUME NEW id \in DOMAIN c.objects, NEW n \in N PROVE Follows(Added(c, id), n)
  <2> DEFINE x == Added(c, id)
  <2>1. Fact(x)
    BY DEF Sound
  <2> HIDE DEF x
  <2>2. Follows(x, n)
    BY <2>1, FactsFollowed, QuietFollows
  <2> QED
    BY <2>2 DEF x
<1> QED
  BY <1>1 DEF Sound

\* At the end of a step nothing that matters is added to what waits.
LEMMA EndNews ==
    ASSUME Listed(accumulated), InOrder(accumulated)
    PROVE  \E q : /\ Quiet(q) /\ Listed(NewsAtEnd) /\ InOrder(NewsAtEnd)
                  /\ Elements(NewsAtEnd) = Elements(accumulated) \cup Elements(q)
<1> DEFINE h == IF housed = wasHoused THEN <<>> ELSE <<Message("SetHoused", 0, housed)>>
           r == IF resources[me] = lastResources THEN <<>>
                ELSE <<Message("ResourcesUpdate", 0, resources[me])>>
           q == h \o r
           a == accumulated
<1>1. Quiet(h) /\ Quiet(r)
  BY QuietAlone, QuietMessages DEF Loud
<1>2. NewsAtEnd = (a \o h) \o r
  BY DEF NewsAtEnd
<1>3. Listed(a) /\ InOrder(a)
  OBVIOUS
<1> HIDE DEF h, r, a
<1>4. Quiet(q) /\ Elements(q) = Elements(h) \cup Elements(r)
  BY <1>1, ConcatListed DEF Quiet
<1> HIDE DEF q
<1>5. Listed(h) /\ Listed(r) /\ InOrder(h) /\ InOrder(r)
  BY <1>1, QuietUttered DEF Uttered
<1>6. \A m, n : n \in Elements(h) \cup Elements(r) => Follows(m, n)
  BY <1>1, QuietFollows DEF Quiet
<1>7. Listed(a \o h) /\ InOrder(a \o h) /\ Elements(a \o h) = Elements(a) \cup Elements(h)
  BY <1>3, <1>5, <1>6, ConcatListed, OrderedTogether
<1> DEFINE w == a \o h
<1> HIDE DEF w
<1>8. Listed(w) /\ InOrder(w)
  BY <1>7 DEF w
<1>9. Listed(w \o r) /\ InOrder(w \o r) /\ Elements(w \o r) = Elements(w) \cup Elements(r)
  BY <1>5, <1>6, <1>8, ConcatListed, OrderedTogether
<1> QED
  BY <1>2, <1>4, <1>7, <1>9 DEF w, a

\* Every step keeps the client, and what is on its way to it, right.
LEMMA MirrorStep ==
    ASSUME MatchInv, OutcomeInv, MirrorInv, [MatchNext]_allVars
    PROVE  MirrorInv'
<1> DEFINE E == Elements(stream) \cup Elements(accumulated)
<1>1. AllLast /\ Leaving
  BY MatchIsNext, StepLasts, LeaversGo
<1>2. ASSUME me' = me, NEW c, NEW N, Sound(c, N), client' = c,
             N = Elements(stream') \cup Elements(accumulated')
      PROVE  Sound(client, Elements(stream) \cup Elements(accumulated))'
  <2>1. Sound(c, N)'
    BY <1>1, <1>2, SoundStays
  <2> QED
    BY <1>2, <2>1 DEF Sound
<1>3. ASSUME me' = me, NEW m, Fact(m) \/ FactNext(m) PROVE Fact(m)'
  BY <1>1, <1>3, FactStays, FactNextIs
\* What is needed of the streams after the step, and of the client.
<1>4. ASSUME NEW s, NEW a, NEW c, s = stream', a = accumulated', c = client', me' = me,
             Listed(s), Listed(a), InOrder(s), InOrder(a),
             \A m \in Elements(s), n \in Elements(a) : Follows(m, n),
             \A m \in Elements(s) \cup Elements(a) : Proper(m) /\ (Fact(m) \/ FactNext(m)),
             Sound(c, Elements(s) \cup Elements(a))
      PROVE  MirrorInv'
  <2>1. Sound(client, Elements(stream) \cup Elements(accumulated))'
    <3> DEFINE N == Elements(s) \cup Elements(a)
    <3>1. N = Elements(stream') \cup Elements(accumulated') /\ Sound(c, N)
      BY <1>4
    <3> HIDE DEF N
    <3> QED
      BY <1>2, <1>4, <3>1
  <2>2. \A m \in Elements(s) \cup Elements(a) : Proper(m) /\ Fact(m)'
    BY <1>3, <1>4
  <2> QED
    BY <1>4, <2>1, <2>2 DEF MirrorInv, Listed, Elements, InOrder, Fact
<1>5. \A m \in E : Proper(m) /\ Fact(m)
  BY DEF MirrorInv
<1>6. ASSUME NEW msgs, Uttered(msgs), Tell(msgs) PROVE MirrorInv'
  <2> DEFINE left == LeaveBroadcast
             s    == stream \o left
             said == accumulated \o msgs
             a    == IF me \in connected' THEN said ELSE <<>>
             A    == Elements(accumulated) \cup Elements(msgs)
  <2>1. /\ s = stream' /\ a = accumulated' /\ client' = client /\ me' = me
    BY <1>6 DEF Tell
  <2>2. Quiet(left) /\ Listed(stream) /\ Listed(accumulated) /\ Listed(msgs)
    BY <1>6, QuietMessages DEF MirrorInv, Uttered
  <2> HIDE DEF left
  <2>3. \A m \in Elements(left) : /\ m.type \notin Loud
                                  /\ Proper(m) /\ Fact(m)
    BY <2>2 DEF Quiet, Proper, Fact, Loud
  <2>4. Listed(s) /\ Elements(s) = Elements(stream) \cup Elements(left) /\ InOrder(s)
    <3>1. Listed(left) /\ InOrder(left)
      BY <2>2, QuietUttered DEF Uttered
    <3>2. \A m \in Elements(stream), n \in Elements(left) : Follows(m, n)
      BY <2>3, QuietFollows
    <3> QED
      BY <2>2, <3>1, <3>2, ConcatListed, OrderedTogether DEF MirrorInv
  <2>5. \A m \in E, n \in Elements(msgs) : Follows(m, n)
    BY <1>5, <1>6, FactsFollowed DEF Uttered
  <2>6. Listed(said) /\ Elements(said) = A /\ InOrder(said)
    BY <1>6, <2>2, <2>5, ConcatListed, OrderedTogether DEF MirrorInv, Uttered
  <2>7. Listed(a) /\ Elements(a) \subseteq A /\ InOrder(a)
    BY <2>6, FewListed, QuietAlone DEF Uttered
  <2>8. \A m \in Elements(s), n \in A : Follows(m, n)
    BY <2>3, <2>4, <2>5, QuietFollows DEF MirrorInv, Loud
  <2>9. \A m \in Elements(s) \cup A : Proper(m) /\ (Fact(m) \/ FactNext(m))
    BY <1>5, <1>6, <2>3, <2>4 DEF Uttered
  <2>10. Sound(client, Elements(s) \cup Elements(a))
    <3> DEFINE N == Elements(left) \cup Elements(msgs)
    <3>1. \A n \in N : Sayable(n) \/ n.type \notin Loud
      BY <1>6, <2>3 DEF Uttered
    <3>2. Elements(s) \cup Elements(a) \subseteq E \cup N
      BY <2>4, <2>7
    <3>3. Sound(client, E)
      BY DEF MirrorInv
    <3> HIDE DEF E, N, a, s
    <3>4. Sound(client, E \cup N)
      BY <3>1, <3>3, SoundUttered
    <3> QED
      BY <3>2, <3>4, SoundFewer
  <2>11. /\ \A m \in Elements(s), n \in Elements(a) : Follows(m, n)
         /\ \A m \in Elements(s) \cup Elements(a) : Proper(m) /\ (Fact(m) \/ FactNext(m))
    BY <2>7, <2>8, <2>9
  <2> DEFINE c == client
  <2>12. c = client' /\ Sound(c, Elements(s) \cup Elements(a))
    BY <2>1, <2>10
  <2> HIDE DEF a, s, c
  <2> QED
    BY <1>4, <2>1, <2>4, <2>7, <2>11, <2>12
<1>7. CASE Told_EndStep
  <2>1. me' = me /\ client' = client /\ accumulated' = <<>>
    BY <1>7 DEF Told_EndStep
  <2>2. /\ Listed(stream) /\ Listed(accumulated) /\ InOrder(stream) /\ InOrder(accumulated)
        /\ \A m \in Elements(stream), n \in Elements(accumulated) : Follows(m, n)
        /\ Sound(client, E)
    BY DEF MirrorInv
  <2>3. Listed(<<>>) /\ Elements(<<>>) = {} /\ InOrder(<<>>)
    BY FewListed, QuietAlone DEF Uttered
  <2>4. CASE stream' = stream
    <3> DEFINE s == stream
               a == <<>>
               c == client
    <3>1. /\ Listed(s) /\ Listed(a) /\ InOrder(s) /\ InOrder(a) /\ Elements(a) = {}
          /\ s = stream' /\ a = accumulated' /\ c = client' /\ Elements(s) \subseteq E
          /\ Sound(c, E)
      BY <2>1, <2>2, <2>3, <2>4
    <3> HIDE DEF s, a, c
    <3>2. Sound(c, Elements(s) \cup Elements(a))
      BY <3>1, SoundFewer
    <3>3. /\ \A m \in Elements(s), n \in Elements(a) : Follows(m, n)
          /\ \A m \in Elements(s) \cup Elements(a) : Proper(m) /\ (Fact(m) \/ FactNext(m))
      BY <1>5, <3>1
    <3> QED
      BY <1>4, <2>1, <3>1, <3>2, <3>3
  <2>5. CASE stream' = (stream \o <<Message("GameStepTime", 0, 0)>>) \o NewsAtEnd
    <3> DEFINE t == <<Message("GameStepTime", 0, 0)>>
               s == (stream \o t) \o NewsAtEnd
               a == <<>>
               c == client
    <3>1. Quiet(t)
      BY QuietMessages DEF Loud
    <3>2. PICK q : Quiet(q) /\ Listed(NewsAtEnd) /\ InOrder(NewsAtEnd)
                   /\ Elements(NewsAtEnd) = Elements(accumulated) \cup Elements(q)
      BY <2>2, EndNews
    <3> HIDE DEF t
    <3>3. /\ \A m \in Elements(t) \cup Elements(q) : Proper(m) /\ Fact(m)
          /\ \A m \in Elements(t) : \A n : Follows(m, n) /\ Follows(n, m)
          /\ \A m, n \in Elements(q) : Follows(n, m)
          /\ Listed(t) /\ InOrder(t)
      BY <3>1, <3>2, QuietFollows, QuietUttered DEF Quiet, Loud, Proper, Fact, Uttered
    <3>4. \A m, n : n \in Elements(q) => Follows(m, n)
      BY <3>2, QuietFollows DEF Quiet
    <3>5. /\ Listed(stream \o t) /\ InOrder(stream \o t)
          /\ Elements(stream \o t) = Elements(stream) \cup Elements(t)
      BY <2>2, <3>3, ConcatListed, OrderedTogether
    <3>6. \A m \in Elements(stream \o t), n \in Elements(NewsAtEnd) : Follows(m, n)
      BY <2>2, <3>2, <3>3, <3>4, <3>5
    <3>7. /\ Listed(s) /\ InOrder(s)
          /\ Elements(s) = Elements(stream \o t) \cup Elements(NewsAtEnd)
      BY <3>2, <3>5, <3>6, ConcatListed, OrderedTogether
    <3>8. Elements(s) \subseteq E \cup (Elements(t) \cup Elements(q))
      BY <3>2, <3>5, <3>7
    <3>9. \A m \in Elements(s) : Proper(m) /\ (Fact(m) \/ FactNext(m))
      BY <1>5, <3>3, <3>8
    <3>10. Sound(c, Elements(s))
      <4> DEFINE N == Elements(t) \cup Elements(q)
      <4>1. \A n \in N : n.type \notin Loud
        BY <3>1, <3>2 DEF Quiet
      <4>2. Elements(s) \subseteq E \cup N
        BY <3>8
      <4> HIDE DEF N, E, s
      <4>3. Sound(c, E \cup N)
        BY <2>2, <4>1, SoundUttered
      <4> QED
        BY <4>2, <4>3, SoundFewer
    <3>11. s = stream' /\ a = accumulated' /\ c = client' /\ Elements(a) = {}
           /\ Listed(a) /\ InOrder(a)
      BY <2>1, <2>3, <2>5 DEF t
    <3> HIDE DEF s, a, c
    <3>12. /\ \A m \in Elements(s), n \in Elements(a) : Follows(m, n)
           /\ \A m \in Elements(s) \cup Elements(a) : Proper(m) /\ (Fact(m) \/ FactNext(m))
           /\ Sound(c, Elements(s) \cup Elements(a))
      <4>1. Elements(s) \cup Elements(a) = Elements(s)
        BY <3>11
      <4> QED
        BY <3>9, <3>10, <3>11, <4>1
    <3> QED
      BY <1>4, <2>1, <3>7, <3>11, <3>12
  <2> QED
    BY <1>7, <2>4, <2>5 DEF Told_EndStep
<1>8. CASE ParseMessagesUntil
  <2>1. PICK n \in 1 .. Len(stream) : /\ client' = Handled(n) /\ stream' = After(n)
                                      /\ UNCHANGED serverVars
    BY <1>8 DEF ParseMessagesUntil
  <2>2. n \in 0 .. Len(stream)
    BY <2>1, LenProperties DEF OutcomeInv, Listed
  <2> DEFINE s == After(n)
             a == accumulated
             c == Handled(n)
  <2>3. s = stream' /\ a = accumulated' /\ c = client' /\ me' = me
    BY <2>1 DEF serverVars
  <2>4. /\ Listed(s) /\ InOrder(s) /\ Elements(s) \subseteq Elements(stream)
        /\ Elements(s) \cup Elements(a) \subseteq Later(n) /\ Sound(c, Later(n))
    BY <2>2, StreamAfter, SoundAfter
  <2>5. Listed(a) /\ InOrder(a)
    BY DEF MirrorInv
  <2>6. \A m \in Elements(stream), x \in Elements(a) : Follows(m, x)
    BY DEF MirrorInv
  <2>7. /\ \A m \in Elements(s), x \in Elements(a) : Follows(m, x)
        /\ \A m \in Elements(s) \cup Elements(a) : Proper(m) /\ (Fact(m) \/ FactNext(m))
    BY <1>5, <2>4, <2>6
  <2> HIDE DEF s, a, c
  <2>8. Sound(c, Elements(s) \cup Elements(a))
    BY <2>4, SoundFewer
  <2> QED
    BY <1>4, <2>3, <2>4, <2>5, <2>7, <2>8
<1>9. CASE PressResign
  <2> DEFINE c == [client EXCEPT !.players[me] = "Resign"]
  <2>1. /\ stream = stream' /\ accumulated = accumulated' /\ c = client' /\ me' = me
    BY <1>9 DEF PressResign, serverVars
  <2>2. Sound(client, E)
    BY DEF MirrorInv
  <2>3. /\ c.objects = client.objects /\ c.stats = client.stats
        /\ "objects" \in DOMAIN c /\ "stats" \in DOMAIN c
    BY <2>2 DEF Sound
  <2> HIDE DEF c
  <2>4. Sound(c, E)
    <3>1. SameCounts(c.stats, client.stats) /\ c.stats \in Stats
      BY <2>2, <2>3 DEF SameCounts, Sound
    <3>2. \A i \in DOMAIN client.objects : /\ Shaped(c.objects[i])
                                           /\ Seen(c.objects[i]) = Seen(client.objects[i])
      BY <2>2, <2>3 DEF Sound
    <3> HIDE DEF E
    <3> QED
      BY <2>2, <2>3, <3>1, <3>2, QuietHandled
  <2> DEFINE s == stream
             a == accumulated
  <2>5. /\ Listed(s) /\ Listed(a) /\ InOrder(s) /\ InOrder(a)
        /\ \A m \in Elements(s), n \in Elements(a) : Follows(m, n)
        /\ \A m \in Elements(s) \cup Elements(a) : Proper(m) /\ (Fact(m) \/ FactNext(m))
        /\ Sound(c, Elements(s) \cup Elements(a)) /\ s = stream' /\ a = accumulated'
    BY <2>1, <2>4 DEF MirrorInv
  <2> HIDE DEF s, a
  <2> QED
    BY <1>4, <2>1, <2>5
<1>10. CASE UNCHANGED allVars
  <2> DEFINE s == stream
             a == accumulated
             c == client
  <2>1. /\ Listed(s) /\ Listed(a) /\ InOrder(s) /\ InOrder(a)
        /\ \A m \in Elements(s), n \in Elements(a) : Follows(m, n)
        /\ \A m \in Elements(s) \cup Elements(a) : Proper(m) /\ (Fact(m) \/ FactNext(m))
        /\ Sound(c, Elements(s) \cup Elements(a))
    BY DEF MirrorInv
  <2>2. me' = me /\ s = stream' /\ a = accumulated' /\ c = client'
    BY <1>10 DEF allVars, serverVars, clientVars
  <2> HIDE DEF s, a, c
  <2> QED
    BY <1>4, <2>1, <2>2
<1> QED
  BY <1>6, <1>7, <1>8, <1>9, <1>10, ServerUtters

\* At the start the client has the counters of the generated map.
LEMMA StartCounts ==
    ASSUME NEW p \in Players, NEW f, DOMAIN f = StartIds,
           \A i \in StartIds : /\ f[i].type = Class(StartObjects[i].type)
                               /\ StartObjects[i].type \in BuildingTypes => IsCompleted(f[i])
    PROVE  SameCounts(StartStats(p), Tally(f, {i \in StartIds : StartObjects[i].owner = p}))
<1> DEFINE L == {i \in StartIds : StartObjects[i].owner = p}
           a == StartStats(p)
           b == Tally(f, L)
<1>1. \A i \in StartIds : StartObjects[i].type \in UnitTypes \cup BuildingTypes
  BY StartFacts
<1>2. \A i \in StartIds :
        /\ f[i].type \in UnitTypes <=> StartObjects[i].type \in UnitTypes
        /\ f[i].type \in VillagerTypes <=> StartObjects[i].type \in VillagerTypes
        /\ StartObjects[i].type \in BuildingTypes <=> IsBuilding(f[i])
        /\ IsBuilding(f[i]) => f[i].type = StartObjects[i].type /\ IsCompleted(f[i])
  BY <1>1 DEF Class, IsBuilding, UnitTypes, VillagerTypes, BuildingTypes
<1>3. /\ {i \in L : f[i].type \in UnitTypes} = StartOf(p, UnitTypes)
      /\ {i \in L : f[i].type \in VillagerTypes} = StartOf(p, VillagerTypes)
      /\ Done(f, L) = StartOf(p, BuildingTypes)
  BY <1>2 DEF StartOf, Done
<1>4. a.population = b.population /\ a.villagers = b.villagers
  BY <1>3 DEF StartStats, Tally
<1>5. ASSUME NEW t \in BuildingTypes
      PROVE  a.constructing[t] = b.constructing[t] /\ a.standing[t] = b.standing[t]
  <2>1. {i \in L : f[i].type = t /\ ~IsCompleted(f[i])} = {}
    BY <1>2 DEF IsBuilding
  <2>2. {i \in L : f[i].type = t /\ IsCompleted(f[i])} = StartOf(p, {t})
    BY <1>2 DEF IsBuilding, StartOf
  <2> QED
    BY <2>1, <2>2, FS_EmptySet DEF StartStats, Tally
<1>6. a.space = b.space
  <2> DEFINE S == StartOf(p, BuildingTypes)
             v == [i \in S |-> PopulationSpace[StartObjects[i].type]]
  <2>1. S \subseteq StartIds /\ IsFiniteSet(S)
    BY StartFacts, FS_Subset DEF StartOf
  <2>2. a.space = Total(v, S)
    BY <2>1, StartSpace DEF StartStats
  <2>3. SpaceOf(f, L) = v
    BY <1>2, <1>3, <2>1 DEF SpaceOf, Done
  <2>4. b.space = Total(SpaceOf(f, L), Done(f, L))
    BY DEF Tally
  <2> QED
    BY <1>3, <2>2, <2>3, <2>4
<1> HIDE DEF a, b
<1>7. SameCounts(a, b)
  BY <1>4, <1>5, <1>6 DEF SameCounts
<1> QED
  BY <1>7 DEF a, b, L

\* At the start the client has the counters of the generated map, and nothing to handle.
LEMMA MirrorInit == MatchInit => MirrorInv
<1> SUFFICES ASSUME MatchInit PROVE MirrorInv
  OBVIOUS
<1>1. /\ Init /\ me \in Players /\ accumulated = <<>> /\ stream = <<>>
      /\ "objects" \in DOMAIN client /\ "stats" \in DOMAIN client
      /\ client.objects = [id \in DOMAIN objects |-> Told(objects[id])]
      /\ client.stats = stats[me]
  BY DEF MatchInit, FirstCopy
<1>2. Listed(<<>>) /\ Elements(<<>>) = {} /\ InOrder(<<>>)
  BY FewListed, QuietAlone DEF Uttered
<1>3. MapOK /\ DOMAIN objects = StartIds
  BY <1>1, MatchInvInit DEF MatchInv, MapInv, Init
<1>4. ASSUME NEW i \in StartIds
      PROVE  /\ objects[i].owner = StartObjects[i].owner /\ objects[i].type = StartObjects[i].type
             /\ IsBuilding(objects[i]) => IsCompleted(objects[i]) /\ ~IsFoundation(objects[i])
             /\ objects[i].type \in UnitTypes \cup BuildingTypes
  <2>1. CASE StartObjects[i].type \in UnitTypes
    <3>1. objects[i] = NewUnit(StartObjects[i].owner, StartObjects[i].type)
      BY <1>1, <2>1 DEF Init
    <3> QED
      BY <2>1, <3>1, TypesDisjoint DEF NewUnit, IsBuilding
  <2>2. CASE StartObjects[i].type \notin UnitTypes
    <3>1. objects[i] = NewBuilding(StartObjects[i].owner, StartObjects[i].type,
                                   StartObjects[i].tiles, BuildSteps)
      BY <1>1, <2>2 DEF Init
    <3>2. StartObjects[i].type \in BuildingTypes
      BY <2>2, StartFacts
    <3> QED
      BY <3>1, <3>2, Sizes DEF NewBuilding, IsCompleted, IsFoundation
  <2> QED
    BY <2>1, <2>2
<1>5. ASSUME NEW i \in DOMAIN client.objects
      PROVE  /\ Shaped(client.objects[i]) /\ Seen(client.objects[i]) = Seen(objects[i])
             /\ Fact(Added(client, i))
  <2> DEFINE o == objects[i]
             v == client.objects[i]
             x == Added(client, i)
  <2>1. /\ i \in DOMAIN objects /\ i \in StartIds /\ v = Told(o)
        /\ o.type \in UnitTypes \cup BuildingTypes
        /\ (IsBuilding(o) => IsCompleted(o) /\ ~IsFoundation(o))
    BY <1>1, <1>3, <1>4
  <2>2. x.type = "AddObject" /\ x.id = i /\ x.value = v
    BY DEF Added, Message
  <2> HIDE DEF v, x, o
  <2>3. /\ Shaped(v) /\ Seen(v) = Seen(o) /\ (IsBuilding(v) <=> IsBuilding(o))
    BY <2>1, ToldForm
  <2>4. Seen(v).type = Class(o.type)
    BY <2>3 DEF Seen
  <2>5. ~Hidden(i)
    BY <2>1 DEF Hidden, o
  <2>6. i \in 1 .. nextObjectID - 1
    BY <1>3, <2>1 DEF MapOK
  <2>7. Fact(x)
    BY <2>1, <2>2, <2>3, <2>4, <2>5, <2>6 DEF Fact, o
  <2> QED
    BY <2>3, <2>7 DEF v, x, o
<1>6. Mirroring(client) /\ client.stats \in Stats
  <2> DEFINE f == SeenMap(client)
             L == {i \in StartIds : StartObjects[i].owner = me}
  <2>1. DOMAIN client.objects = StartIds
    BY <1>1, <1>3
  <2>2. DOMAIN f = StartIds /\ \A i \in StartIds : f[i] = Seen(objects[i])
    BY <1>5, <2>1 DEF SeenMap
  <2> HIDE DEF f
  <2>3. \A i \in StartIds : /\ f[i].type = Class(StartObjects[i].type)
                            /\ StartObjects[i].type \in BuildingTypes => IsCompleted(f[i])
    BY <1>4, <2>2, TypesDisjoint DEF Seen, IsBuilding, IsUnit, IsCompleted
  <2>4. OwnOf(client) = L
    <3>1. \A i \in StartIds : client.objects[i].owner = StartObjects[i].owner
      BY <1>4, <1>5, <2>1 DEF Seen
    <3> QED
      BY <2>1, <3>1 DEF OwnOf
  <2>5. client.stats = StartStats(me) /\ StartStats(me) \in Stats
    BY <1>1, StartStatsType DEF Init
  <2>6. SameCounts(StartStats(me), Tally(f, L))
    BY <1>1, <2>2, <2>3, StartCounts
  <2> QED
    BY <2>4, <2>5, <2>6 DEF Mirroring, f
<1>7. IsFiniteSet(DOMAIN client.objects)
  BY <1>1, <1>3, StartFacts
<1> QED
  BY <1>1, <1>2, <1>5, <1>6, <1>7 DEF MirrorInv, Sound

\* Counters that agree with the tally are those of the client's map.
LEMMA MirrorCounts == MirrorInv => CountersMatchMirror
<1> SUFFICES ASSUME MirrorInv PROVE CountersMatchMirror
  OBVIOUS
<1> DEFINE f == SeenMap(client)
           L == OwnOf(client)
           T == Tally(f, L)
<1>1. /\ \A i \in DOMAIN client.objects : Shaped(client.objects[i])
      /\ IsFiniteSet(DOMAIN client.objects) /\ SameCounts(client.stats, T)
  BY DEF MirrorInv, Sound, Mirroring
<1>2. IsFiniteSet(L) /\ L \subseteq DOMAIN client.objects
  BY <1>1, OwnFinite
<1>3. L = {i \in DOMAIN client.objects : Own(client.objects[i])}
  BY DEF OwnOf, Own
<1>4. \A i \in L : f[i] = Seen(client.objects[i])
  BY <1>2 DEF SeenMap
<1> HIDE DEF f, L
<1>5. \A i \in L : LET o == client.objects[i]
                   IN  /\ f[i].type \in UnitTypes <=> o.type \in UnitTypes
                       /\ f[i].type \in VillagerTypes <=> o.type \in VillagerTypes
                       /\ IsBuilding(f[i]) <=> o.type \in BuildingTypes
                       /\ IsBuilding(f[i]) => /\ f[i].type = o.type
                                              /\ IsCompleted(f[i]) <=> IsCompleted(o)
  <2>1. ASSUME NEW i \in L
        PROVE  LET o == client.objects[i]
               IN  /\ f[i].type \in UnitTypes <=> o.type \in UnitTypes
                   /\ f[i].type \in VillagerTypes <=> o.type \in VillagerTypes
                   /\ IsBuilding(f[i]) <=> o.type \in BuildingTypes
                   /\ IsBuilding(f[i]) => /\ f[i].type = o.type
                                          /\ IsCompleted(f[i]) <=> IsCompleted(o)
    <3> DEFINE o == client.objects[i]
    <3>1. Shaped(o) /\ f[i] = Seen(o)
      BY <1>1, <1>2, <1>4
    <3> HIDE DEF o
    <3>2. /\ f[i].type \in UnitTypes <=> o.type \in UnitTypes
          /\ f[i].type \in VillagerTypes <=> o.type \in VillagerTypes
          /\ IsBuilding(f[i]) <=> o.type \in BuildingTypes
          /\ IsBuilding(f[i]) => /\ f[i].type = o.type
                                 /\ IsCompleted(f[i]) <=> IsCompleted(o)
      BY <3>1, SeenSays, TypesDisjoint DEF IsUnit, IsBuilding, IsCompleted
    <3> QED
      BY <3>2 DEF o
  <2> QED
    BY <2>1
<1>6. /\ {i \in L : f[i].type \in UnitTypes}
           = {i \in DOMAIN client.objects : Own(client.objects[i])
                                             /\ client.objects[i].type \in UnitTypes}
      /\ {i \in L : f[i].type \in VillagerTypes}
           = {i \in DOMAIN client.objects : Own(client.objects[i])
                                             /\ client.objects[i].type \in VillagerTypes}
  BY <1>3, <1>5
<1>7. \A t \in BuildingTypes :
        /\ {i \in L : f[i].type = t /\ IsCompleted(f[i])} = MirrorBuildings({t}, TRUE)
        /\ {i \in L : f[i].type = t /\ ~IsCompleted(f[i])} = MirrorBuildings({t}, FALSE)
  BY <1>3, <1>5 DEF MirrorBuildings, IsBuilding
<1>8. client.stats.space = MapThenSumSet(LAMBDA id : PopulationSpace[client.objects[id].type],
                                         MirrorBuildings(BuildingTypes, TRUE))
  <2> DEFINE S == MirrorBuildings(BuildingTypes, TRUE)
             g == client.objects
             v == [i \in S |-> PopulationSpace[g[i].type]]
  <2>1. Done(f, L) = S
    BY <1>3, <1>5 DEF MirrorBuildings, Done
  <2>2. IsFiniteSet(S)
    BY <1>2, <2>1, FS_Subset DEF Done
  <2>3. SpaceOf(f, L) = v
    BY <1>5, <2>1 DEF SpaceOf, Done
  <2>4. client.stats.space = Total(v, S)
    BY <1>1, <2>1, <2>3 DEF SameCounts, Tally
  <2> HIDE DEF S
  <2>5. SpaceSum(g, S) = Total(v, S)
    <3> HIDE DEF g
    <3> QED
      BY <2>2, SpaceSumIsTotal
  <2>6. SpaceSum(g, S) = MapThenSumSet(LAMBDA id : PopulationSpace[client.objects[id].type], S)
    BY DEF SpaceSum
  <2> QED
    BY <2>4, <2>5, <2>6 DEF S
<1>9. /\ client.stats.population = MirrorCount(UnitTypes)
      /\ client.stats.villagers = MirrorCount(VillagerTypes)
  BY <1>1, <1>6 DEF SameCounts, Tally, MirrorCount
<1>10. \A t \in BuildingTypes :
         /\ client.stats.standing[t] = Cardinality(MirrorBuildings({t}, TRUE))
         /\ client.stats.constructing[t] = Cardinality(MirrorBuildings({t}, FALSE))
  BY <1>1, <1>7 DEF SameCounts, Tally
<1> QED
  BY <1>8, <1>9, <1>10 DEF CountersMatchMirror

\* GameController and PlayerStats: in every frame, in the middle of a step as well as after
\* it, what a client has counted is what is on its map.
THEOREM CountersAlwaysMirror == MatchSpec => []CountersMatchMirror
<1>1. MatchInv /\ OutcomeInv /\ MirrorInv /\ [MatchNext]_allVars => MirrorInv'
  BY MirrorStep
<1>2. MatchInv /\ OutcomeInv /\ [MatchNext]_allVars => OutcomeInv'
  BY OutcomeStep
<1> QED
  BY <1>1, <1>2, MirrorCounts, OutcomeInit, MirrorInit, WatchedMatch, PTL DEF MatchSpec
-----------------------------------------------------------------------------
(***************************************************************************)
(* The copy a client shows.                                                *)
(***************************************************************************)
\* What of a client the copy is made from: no handler looks at anything else for it.
Held3(o, r, h) == [objects |-> o, resources |-> r, housed |-> h]

Trim(c) == Held3(c.objects, c.resources, c.housed)

\* The client has that, and its map is one.
Formed(c) ==
    /\ {"objects", "resources", "housed"} \subseteq DOMAIN c
    /\ c.objects = [id \in DOMAIN c.objects |-> c.objects[id]]

Details == ObjectMessages \ {"ObjectDeath"}

\* What a message makes of the object it is about.
Detailed(o, m) ==
    CASE m.type = "UnitMovement"          -> [o EXCEPT !.attacking = m.value]
      [] m.type = "BuildPercentageUpdate" -> [o EXCEPT !.built = m.value]
      [] m.type = "ChangeUnitType"        -> [o EXCEPT !.type = m.value]
      [] m.type = "SetCarriedResources"   -> [o EXCEPT !.carried = m.value]
      [] m.type = "HPUpdate"              -> [o EXCEPT !.hp = m.value]
      [] m.type = "QueueUnit"             -> [o EXCEPT !.queue = Append(o.queue, m.value)]
      [] m.type = "UpdateProduction"      -> [o EXCEPT !.producing = m.value]
      [] m.type = "RemoveFromProductionQueue" ->
           IF m.value > Len(o.queue) THEN o
           ELSE [o EXCEPT !.queue     = RemoveAt(o.queue, m.value),
                          !.producing = IF m.value = 1 THEN FALSE ELSE o.producing]

\* What a message makes of the map.
Mapped(f, m) ==
    CASE m.type = "AddObject"   -> [id \in DOMAIN f \cup {m.id} |-> IF id = m.id THEN m.value ELSE f[id]]
      [] m.type = "ObjectDeath" -> [id \in DOMAIN f \ {m.id} |-> f[id]]
      [] m.type \in Details     -> [id \in DOMAIN f |-> IF id = m.id THEN Detailed(f[id], m) ELSE f[id]]
      [] OTHER                  -> f

\* What a message makes of all that the copy is made from.
Hear(v, m) ==
    Held3(Mapped(v.objects, m),
          IF m.type = "ResourcesUpdate" THEN m.value ELSE v.resources,
          IF m.type = "SetHoused" THEN m.value ELSE v.housed)

\* The map of v is one.
HasMap(v) ==
    /\ v = Held3(v.objects, v.resources, v.housed)
    /\ v.objects = [id \in DOMAIN v.objects |-> v.objects[id]]

\* The parts of it.
LEMMA TrimIs ==
    ASSUME NEW c
    PROVE  /\ Trim(c).objects = c.objects /\ Trim(c).resources = c.resources
           /\ Trim(c).housed = c.housed
BY DEF Trim, Held3

\* What a message makes of each part.
LEMMA HearIs ==
    ASSUME NEW v, NEW m
    PROVE  /\ Hear(v, m).objects = Mapped(v.objects, m)
           /\ Hear(v, m).resources = (IF m.type = "ResourcesUpdate" THEN m.value ELSE v.resources)
           /\ Hear(v, m).housed = (IF m.type = "SetHoused" THEN m.value ELSE v.housed)
BY DEF Hear, Held3

\* One object of a map is replaced by what a handler makes of it.
LEMMA Replaced ==
    ASSUME NEW c, Formed(c), NEW id \in DOMAIN c.objects, NEW w,
           NEW d, d = [c EXCEPT !.objects = [c.objects EXCEPT ![id] = w]]
    PROVE  /\ Formed(d) /\ d.resources = c.resources /\ d.housed = c.housed
           /\ d.objects = [i \in DOMAIN c.objects |-> IF i = id THEN w ELSE c.objects[i]]
<1> DEFINE f == c.objects
           g == [f EXCEPT ![id] = w]
<1>1. "objects" \in DOMAIN c /\ "resources" \in DOMAIN c /\ "housed" \in DOMAIN c
  BY DEF Formed
<1>2. d = [c EXCEPT !.objects = g]
  OBVIOUS
<1>3. g = [i \in DOMAIN f |-> IF i = id THEN w ELSE f[i]]
  OBVIOUS
<1> HIDE DEF g, f
<1>4. d.objects = g /\ d.resources = c.resources /\ d.housed = c.housed /\ DOMAIN d = DOMAIN c
  BY <1>1, <1>2
<1>5. g = [i \in DOMAIN g |-> g[i]]
  BY <1>3
<1> QED
  BY <1>1, <1>3, <1>4, <1>5 DEF Formed, f

\* A message is ignored: the map it is about does not change.
LEMMA Ignored ==
    ASSUME NEW f, f = [i \in DOMAIN f |-> f[i]], NEW m
    PROVE  /\ (m.type \in ObjectMessages /\ m.id \notin DOMAIN f) => Mapped(f, m) = f
           /\ (m.type \in Details /\ m.id \in DOMAIN f /\ Detailed(f[m.id], m) = f[m.id])
                => Mapped(f, m) = f
<1>1. CASE m.type = "ObjectDeath" /\ m.id \notin DOMAIN f
  <2>1. DOMAIN f \ {m.id} = DOMAIN f
    BY <1>1
  <2>2. Mapped(f, m) = [id \in DOMAIN f \ {m.id} |-> f[id]]
    BY <1>1 DEF Mapped
  <2> QED
    BY <1>1, <2>1, <2>2 DEF Details
<1>2. CASE m.type \in Details
  <2> DEFINE g == [id \in DOMAIN f |-> IF id = m.id THEN Detailed(f[id], m) ELSE f[id]]
  <2>1. Mapped(f, m) = g
    BY <1>2 DEF Mapped, Details, ObjectMessages
  <2>2. ASSUME m.id \notin DOMAIN f \/ Detailed(f[m.id], m) = f[m.id]
        PROVE  g = f
    BY <2>2
  <2> HIDE DEF g
  <2> QED
    BY <2>1, <2>2
<1> QED
  BY <1>1, <1>2 DEF Details

\* The map after a message about a detail.
LEMMA DetailMapped ==
    ASSUME NEW f, NEW m, m.type \in Details
    PROVE  Mapped(f, m) = [id \in DOMAIN f |-> IF id = m.id THEN Detailed(f[id], m) ELSE f[id]]
BY DEF Mapped, Details, ObjectMessages

\* What the handlers of the client do to its copy.
LEMMA ParseHears ==
    ASSUME NEW c, Formed(c), NEW m, m.type \in SpokenTypes \cup {"PlayerLeaveBroadcast"}
    PROVE  Formed(ParseMessage(c, m)) /\ Trim(ParseMessage(c, m)) = Hear(Trim(c), m)
<1> DEFINE d == ParseMessage(c, m)
           f == c.objects
<1>0. /\ "objects" \in DOMAIN c /\ "resources" \in DOMAIN c /\ "housed" \in DOMAIN c
      /\ f = [i \in DOMAIN f |-> f[i]]
  BY DEF Formed
<1> SUFFICES /\ Formed(d) /\ d.objects = Mapped(f, m)
             /\ d.resources = (IF m.type = "ResourcesUpdate" THEN m.value ELSE c.resources)
             /\ d.housed = (IF m.type = "SetHoused" THEN m.value ELSE c.housed)
  BY TrimIs DEF Hear, Trim
<1>1. CASE m.type \in ObjectMessages /\ m.id \notin DOMAIN f
  <2>1. d = c
    BY <1>1 DEF ParseMessage
  <2> HIDE DEF d
  <2> QED
    BY <1>0, <1>1, <2>1, Ignored DEF ObjectMessages
<1> DEFINE Heeded == m.type \notin ObjectMessages \/ m.id \in DOMAIN f
           Puts(w) == d = [c EXCEPT !.objects = [f EXCEPT ![m.id] = w]]
<1>2. ASSUME Heeded, m.type \in Details, Puts(Detailed(f[m.id], m))
      PROVE  Formed(d) /\ d.objects = Mapped(f, m) /\ d.resources = c.resources /\ d.housed = c.housed
  <2> DEFINE w == Detailed(f[m.id], m)
  <2>1. m.id \in DOMAIN f
    BY <1>2 DEF Details
  <2>2. Mapped(f, m) = [i \in DOMAIN f |-> IF i = m.id THEN w ELSE f[i]]
    BY <1>2, DetailMapped
  <2>3. d = [c EXCEPT !.objects = [f EXCEPT ![m.id] = w]]
    BY <1>2
  <2> HIDE DEF d, w
  <2> QED
    BY <2>1, <2>2, <2>3, Replaced
<1>3. ASSUME Heeded, m.type \in Details
      PROVE  Formed(d) /\ d.objects = Mapped(f, m) /\ d.resources = c.resources /\ d.housed = c.housed
  <2>1. CASE m.type = "UnitMovement"
    BY <1>2, <1>3, <2>1 DEF ParseMessage, HandleUnitMovement, Detailed
  <2>2. CASE m.type = "BuildPercentageUpdate"
    <3> DEFINE g == [f EXCEPT ![m.id] = Detailed(f[m.id], m)]
    <3>1. g = [f EXCEPT ![m.id] = [f[m.id] EXCEPT !.built = m.value]]
      BY <2>2 DEF Detailed
    <3>2. d.objects = g /\ d.resources = c.resources /\ d.housed = c.housed /\ DOMAIN d = DOMAIN c
      BY <1>0, <1>3, <2>2, <3>1 DEF ParseMessage, HandleBuildPercentageUpdate
    <3>3. g = [i \in DOMAIN f |-> IF i = m.id THEN Detailed(f[m.id], m) ELSE f[i]]
      OBVIOUS
    <3>4. Mapped(f, m) = g
      BY <1>3, <3>3, DetailMapped
    <3>5. g = [i \in DOMAIN g |-> g[i]]
      BY <3>3
    <3> HIDE DEF g, d
    <3> QED
      BY <1>0, <3>2, <3>4, <3>5 DEF Formed
  <2>3. CASE m.type = "ChangeUnitType"
    <3> DEFINE g == [f EXCEPT ![m.id] = Detailed(f[m.id], m)]
    <3>1. g = [f EXCEPT ![m.id] = [f[m.id] EXCEPT !.type = m.value]]
      BY <2>3 DEF Detailed
    <3>2. d.objects = g /\ d.resources = c.resources /\ d.housed = c.housed /\ DOMAIN d = DOMAIN c
      BY <1>0, <1>3, <2>3, <3>1 DEF ParseMessage, HandleChangeUnitType
    <3>3. g = [i \in DOMAIN f |-> IF i = m.id THEN Detailed(f[m.id], m) ELSE f[i]]
      OBVIOUS
    <3>4. Mapped(f, m) = g
      BY <1>3, <3>3, DetailMapped
    <3>5. g = [i \in DOMAIN g |-> g[i]]
      BY <3>3
    <3> HIDE DEF g, d
    <3> QED
      BY <1>0, <3>2, <3>4, <3>5 DEF Formed
  <2>4. CASE m.type = "SetCarriedResources"
    BY <1>2, <1>3, <2>4 DEF ParseMessage, HandleSetCarriedResources, Detailed
  <2>5. CASE m.type = "HPUpdate"
    BY <1>2, <1>3, <2>5 DEF ParseMessage, HandleHPUpdate, Detailed
  <2>6. CASE m.type = "QueueUnit"
    BY <1>2, <1>3, <2>6 DEF ParseMessage, HandleQueueUnit, Detailed
  <2>7. CASE m.type = "UpdateProduction"
    BY <1>2, <1>3, <2>7 DEF ParseMessage, HandleUpdateProduction, Detailed
  <2>8. CASE m.type = "RemoveFromProductionQueue"
    <3>1. CASE m.value > Len(f[m.id].queue)
      <4>1. d = c
        BY <1>3, <2>8, <3>1 DEF ParseMessage, HandleRemoveFromProductionQueue
      <4>2. Detailed(f[m.id], m) = f[m.id] /\ m.id \in DOMAIN f
        BY <1>3, <2>8, <3>1 DEF Detailed, Details
      <4> HIDE DEF d
      <4> QED
        BY <1>0, <1>3, <4>1, <4>2, Ignored
    <3>2. CASE ~(m.value > Len(f[m.id].queue))
      BY <1>2, <1>3, <2>8, <3>2 DEF ParseMessage, HandleRemoveFromProductionQueue, Detailed
    <3> QED
      BY <3>1, <3>2
  <2> QED
    BY <1>3, <2>1, <2>2, <2>3, <2>4, <2>5, <2>6, <2>7, <2>8 DEF Details, ObjectMessages
<1>4. CASE Heeded /\ m.type \in Details
  BY <1>3, <1>4 DEF Details, ObjectMessages
<1>5. CASE Heeded /\ m.type \notin Details
  <2>1. CASE m.type = "ObjectDeath"
    <3> DEFINE g == [i \in DOMAIN f \ {m.id} |-> f[i]]
    <3>1. d.objects = g /\ d.resources = c.resources /\ d.housed = c.housed /\ DOMAIN d = DOMAIN c
      BY <1>0, <1>5, <2>1 DEF ParseMessage, HandleObjectDeath
    <3>2. Mapped(f, m) = g
      BY <2>1 DEF Mapped, Details, ObjectMessages
    <3>3. g = [i \in DOMAIN g |-> g[i]]
      OBVIOUS
    <3> HIDE DEF g, d
    <3> QED
      BY <1>0, <2>1, <3>1, <3>2, <3>3 DEF Formed
  <2>2. CASE m.type = "AddObject"
    <3> DEFINE g == [i \in DOMAIN f \cup {m.id} |-> IF i = m.id THEN m.value ELSE f[i]]
    <3>1. d.objects = g /\ d.resources = c.resources /\ d.housed = c.housed /\ DOMAIN d = DOMAIN c
      BY <1>0, <1>5, <2>2 DEF ParseMessage, HandleAddObject
    <3>2. Mapped(f, m) = g
      BY <2>2 DEF Mapped, Details, ObjectMessages
    <3>3. g = [i \in DOMAIN g |-> g[i]]
      OBVIOUS
    <3> HIDE DEF g, d
    <3> QED
      BY <1>0, <2>2, <3>1, <3>2, <3>3 DEF Formed
  <2>3. ASSUME m.type \notin {"ObjectDeath", "AddObject"} PROVE Mapped(f, m) = f
    BY <1>5, <2>3 DEF Mapped
  <2>4. CASE m.type = "ResourcesUpdate"
    <3>1. d.objects = f /\ d.resources = m.value /\ d.housed = c.housed /\ DOMAIN d = DOMAIN c
      BY <1>0, <1>5, <2>4 DEF ParseMessage
    <3> HIDE DEF d
    <3> QED
      BY <1>0, <2>3, <2>4, <3>1 DEF Formed
  <2>5. CASE m.type = "SetHoused"
    <3>1. d.objects = f /\ d.resources = c.resources /\ d.housed = m.value /\ DOMAIN d = DOMAIN c
      BY <1>0, <1>5, <2>5 DEF ParseMessage
    <3> HIDE DEF d
    <3> QED
      BY <1>0, <2>3, <2>5, <3>1 DEF Formed
  <2>6. CASE m.type = "GameStepTime"
    <3>1. d = c
      BY <1>5, <2>6 DEF ParseMessage
    <3> HIDE DEF d
    <3> QED
      BY <1>0, <2>3, <2>6, <3>1 DEF Formed
  <2>7. CASE m.type = "PlayerLeaveBroadcast"
    <3>1. d.objects = f /\ d.resources = c.resources /\ d.housed = c.housed /\ DOMAIN d = DOMAIN c
      BY <1>0, <1>5, <2>7 DEF ParseMessage, HandlePlayerLeaveBroadcast
    <3> HIDE DEF d
    <3> QED
      BY <1>0, <2>3, <2>7, <3>1 DEF Formed
  <2> QED
    BY <1>5, <2>1, <2>2, <2>4, <2>5, <2>6, <2>7 DEF SpokenTypes, NewsTypes, Details
<1> QED
  BY <1>1, <1>4, <1>5

\* g is what becomes of v, message by message, in the first l of s.
Listening(g, v, s, l) == g = [i \in 0 .. l |-> IF i = 0 THEN v ELSE Hear(g[i - 1], s[i])]

Heard(v, s, n) ==
    LET g == CHOOSE h : Listening(h, v, s, n)
    IN  g[n]

Hears(v, s) == Heard(v, s, Len(s))

\* There is such a function.
LEMMA ListeningExists ==
    ASSUME NEW v, NEW s, NEW l \in Nat
    PROVE  \E g : Listening(g, v, s, l)
<1> DEFINE H(g, n) == IF n = 0 THEN v ELSE Hear(g[n - 1], s[n])
           S == {m \in Nat : \E g : g = [n \in 0 .. m |-> H(g, n)]}
<1>1. 0 \in S
  <2> DEFINE g == [n \in 0 .. 0 |-> v]
  <2>1. g = [n \in 0 .. 0 |-> H(g, n)]
    OBVIOUS
  <2> HIDE DEF g
  <2> QED
    BY <2>1
<1>2. ASSUME NEW m \in Nat, m \in S PROVE m + 1 \in S
  <2>1. PICK f : f = [n \in 0 .. m |-> H(f, n)]
    BY <1>2
  <2> DEFINE g == [n \in 0 .. m + 1 |-> H(f, n)]
  <2>2. \A n \in 0 .. m : g[n] = f[n]
    <3>1. \A n \in 0 .. m : n \in 0 .. m + 1
      OBVIOUS
    <3> HIDE DEF H
    <3> QED
      BY <3>1, <2>1
  <2>3. \A n \in 0 .. m + 1 : n # 0 => n - 1 \in 0 .. m
    OBVIOUS
  <2>4. \A n \in 0 .. m + 1 : H(f, n) = H(g, n)
    BY <2>2, <2>3
  <2>5. g = [n \in 0 .. m + 1 |-> H(g, n)]
    <3> HIDE DEF H
    <3> QED
      BY <2>4
  <2> HIDE DEF g, H
  <2> QED
    BY <2>5
<1> HIDE DEF S
<1>3. l \in S
  BY <1>1, <1>2, SetInduction
<1> QED
  BY <1>3 DEF S, Listening

\* The same messages make the same of the same.
LEMMA ListeningAlike ==
    ASSUME NEW v, NEW s, NEW t, NEW l \in Nat, NEW k \in Nat, l <= k,
           \A i \in 1 .. l : s[i] = t[i],
           NEW f, Listening(f, v, s, l), NEW g, Listening(g, v, t, k)
    PROVE  f[l] = g[l]
<1>1. /\ \A i \in 0 .. l : f[i] = IF i = 0 THEN v ELSE Hear(f[i - 1], s[i])
      /\ \A i \in 0 .. k : g[i] = IF i = 0 THEN v ELSE Hear(g[i - 1], t[i])
  BY DEF Listening
<1> DEFINE N == {i \in Nat : i <= l => f[i] = g[i]}
<1>2. 0 \in N
  BY <1>1
<1>3. ASSUME NEW i \in Nat, i \in N PROVE i + 1 \in N
  <2>1. SUFFICES ASSUME i + 1 <= l PROVE f[i + 1] = g[i + 1]
    OBVIOUS
  <2>2. /\ i + 1 \in 0 .. l /\ i + 1 \in 0 .. k /\ i + 1 \in 1 .. l /\ i + 1 # 0
        /\ (i + 1) - 1 = i /\ f[i] = g[i]
    BY <1>3, <2>1
  <2> QED
    BY <1>1, <2>2
<1> HIDE DEF N
<1>4. l \in N
  BY <1>2, <1>3, SetInduction
<1> QED
  BY <1>4 DEF N

\* What is heard is a value of that function.
LEMMA HeardIs ==
    ASSUME NEW v, NEW s, NEW n \in Nat
    PROVE  \E g : Listening(g, v, s, n) /\ Heard(v, s, n) = g[n]
<1> DEFINE g == CHOOSE h : Listening(h, v, s, n)
<1>1. Listening(g, v, s, n)
  BY ListeningExists
<1>2. Heard(v, s, n) = g[n]
  BY DEF Heard
<1> HIDE DEF g
<1> QED
  BY <1>1, <1>2

\* One message after the other.
LEMMA HeardSteps ==
    ASSUME NEW v, NEW s
    PROVE  /\ Heard(v, s, 0) = v
           /\ \A n \in Nat : Heard(v, s, n + 1) = Hear(Heard(v, s, n), s[n + 1])
<1>1. PICK f : Listening(f, v, s, 0) /\ Heard(v, s, 0) = f[0]
  BY HeardIs
<1>2. Heard(v, s, 0) = v
  BY <1>1 DEF Listening
<1>3. ASSUME NEW n \in Nat
      PROVE  Heard(v, s, n + 1) = Hear(Heard(v, s, n), s[n + 1])
  <2>1. PICK g : Listening(g, v, s, n) /\ Heard(v, s, n) = g[n]
    BY HeardIs
  <2>2. PICK h : Listening(h, v, s, n + 1) /\ Heard(v, s, n + 1) = h[n + 1]
    BY HeardIs
  <2>3. g[n] = h[n]
    BY <2>1, <2>2, ListeningAlike
  <2>4. n + 1 \in 0 .. n + 1 /\ n + 1 # 0 /\ (n + 1) - 1 = n
    OBVIOUS
  <2>5. h[n + 1] = Hear(h[n], s[n + 1])
    BY <2>2, <2>4 DEF Listening
  <2> QED
    BY <2>1, <2>2, <2>3, <2>5
<1> QED
  BY <1>2, <1>3

\* Only the messages that are heard matter.
LEMMA HeardSame ==
    ASSUME NEW v, NEW s, NEW t, NEW n \in Nat, \A i \in 1 .. n : s[i] = t[i]
    PROVE  Heard(v, s, n) = Heard(v, t, n)
<1>1. PICK f : Listening(f, v, s, n) /\ Heard(v, s, n) = f[n]
  BY HeardIs
<1>2. PICK g : Listening(g, v, t, n) /\ Heard(v, t, n) = g[n]
  BY HeardIs
<1> QED
  BY <1>1, <1>2, ListeningAlike

\* The first n messages, and then the others.
LEMMA HeardOn ==
    ASSUME NEW v, NEW s, NEW t, NEW n \in Nat, NEW k \in Nat, \A i \in 1 .. k : t[i] = s[n + i]
    PROVE  Heard(v, s, n + k) = Heard(Heard(v, s, n), t, k)
<1> DEFINE w == Heard(v, s, n)
           N == {i \in Nat : i <= k => Heard(v, s, n + i) = Heard(w, t, i)}
<1>1. 0 \in N
  <2>1. n + 0 = n
    OBVIOUS
  <2> QED
    BY <2>1, HeardSteps
<1>2. ASSUME NEW i \in Nat, i \in N PROVE i + 1 \in N
  <2>1. SUFFICES ASSUME i + 1 <= k PROVE Heard(v, s, n + (i + 1)) = Heard(w, t, i + 1)
    OBVIOUS
  <2>2. n + (i + 1) = (n + i) + 1 /\ i + 1 \in 1 .. k /\ n + i \in Nat /\ i <= k
    BY <2>1
  <2>3. t[i + 1] = s[(n + i) + 1]
    BY <2>2
  <2>4. Heard(v, s, n + i) = Heard(w, t, i)
    BY <1>2, <2>2
  <2> HIDE DEF w
  <2>5. ASSUME NEW a, NEW b, NEW m \in Nat PROVE Heard(a, b, m + 1) = Hear(Heard(a, b, m), b[m + 1])
    BY HeardSteps, Zenon
  <2>6. Heard(v, s, (n + i) + 1) = Hear(Heard(v, s, n + i), s[(n + i) + 1])
    BY <2>2, <2>5
  <2>7. Heard(w, t, i + 1) = Hear(Heard(w, t, i), t[i + 1])
    BY <2>5
  <2> QED
    BY <2>2, <2>3, <2>4, <2>6, <2>7
<1> HIDE DEF N
<1>3. k \in N
  BY <1>1, <1>2, SetInduction
<1> QED
  BY <1>3 DEF N

\* What is said first is heard first.
LEMMA HeardWithin ==
    ASSUME NEW v, NEW s, NEW t, Listed(s), Listed(t), NEW n \in 0 .. Len(s)
    PROVE  Heard(v, s \o t, n) = Heard(v, s, n)
<1>1. Len(s) \in Nat /\ \A i \in 1 .. Len(s) : (s \o t)[i] = s[i]
  BY ConcatListed
<1>2. n \in Nat /\ \A i \in 1 .. n : (s \o t)[i] = s[i]
  BY <1>1
<1> QED
  BY <1>2, HeardSame

\* What is heard of the second sequence is heard after all of the first.
LEMMA HeardBeyond ==
    ASSUME NEW v, NEW s, NEW t, Listed(s), Listed(t), NEW n \in 0 .. Len(t)
    PROVE  Heard(v, s \o t, Len(s) + n) = Heard(Hears(v, s), t, n)
<1> DEFINE u == s \o t
           l == Len(s)
<1>1. /\ l \in 0 .. l /\ l \in Nat /\ Len(t) \in Nat
      /\ \A i \in 1 .. Len(t) : u[l + i] = t[i]
  BY ConcatListed
<1>2. Heard(v, u, l) = Hears(v, s)
  BY <1>1, HeardWithin DEF Hears
<1> HIDE DEF u, l
<1>3. n \in Nat /\ \A i \in 1 .. n : t[i] = u[l + i]
  BY <1>1
<1>4. Heard(v, u, l + n) = Heard(Heard(v, u, l), t, n)
  BY <1>1, <1>3, HeardOn
<1> QED
  BY <1>2, <1>4 DEF u, l

\* All of two sequences is heard one after the other.
LEMMA HearsTogether ==
    ASSUME NEW v, NEW s, NEW t, Listed(s), Listed(t)
    PROVE  Hears(v, s \o t) = Hears(Hears(v, s), t)
<1>1. Len(s \o t) = Len(s) + Len(t) /\ Len(t) \in 0 .. Len(t)
  BY ConcatListed
<1>2. Heard(v, s \o t, Len(s) + Len(t)) = Heard(Hears(v, s), t, Len(t))
  BY <1>1, HeardBeyond
<1> QED
  BY <1>1, <1>2 DEF Hears

\* No message, and one.
LEMMA HearsAlone ==
    ASSUME NEW v
    PROVE  Hears(v, <<>>) = v /\ \A m : Hears(v, <<m>>) = Hear(v, m)
<1>1. Hears(v, <<>>) = v
  BY HeardSteps DEF Hears
<1>2. ASSUME NEW m PROVE Hears(v, <<m>>) = Hear(v, m)
  <2> DEFINE s == <<m>>
  <2>1. Len(s) = 1 /\ s[1] = m
    OBVIOUS
  <2> HIDE DEF s
  <2>2. Heard(v, s, 0 + 1) = Hear(Heard(v, s, 0), s[0 + 1]) /\ Heard(v, s, 0) = v
    BY HeardSteps
  <2>3. Hears(v, s) = Hear(v, m)
    BY <2>1, <2>2 DEF Hears
  <2> QED
    BY <2>3 DEF s
<1> QED
  BY <1>1, <1>2

\* Whatever is heard, there is a map.
LEMMA HearsMap ==
    ASSUME NEW v, NEW m
    PROVE  HasMap(v) => HasMap(Hear(v, m))
<1>1. SUFFICES ASSUME HasMap(v) PROVE HasMap(Hear(v, m))
  OBVIOUS
<1> DEFINE f == v.objects
           g == Mapped(f, m)
<1>2. f = [i \in DOMAIN f |-> f[i]]
  BY <1>1 DEF HasMap
<1> HIDE DEF f
<1>3. g = [i \in DOMAIN g |-> g[i]]
  <2>1. CASE m.type = "AddObject"
    <3> DEFINE h == [id \in DOMAIN f \cup {m.id} |-> IF id = m.id THEN m.value ELSE f[id]]
    <3>1. g = h
      BY <2>1 DEF Mapped, Details, ObjectMessages
    <3> QED
      BY <3>1
  <2>2. CASE m.type = "ObjectDeath"
    <3> DEFINE h == [id \in DOMAIN f \ {m.id} |-> f[id]]
    <3>1. g = h
      BY <2>2 DEF Mapped, Details, ObjectMessages
    <3> QED
      BY <3>1
  <2>3. CASE m.type \in Details
    <3> DEFINE h == [id \in DOMAIN f |-> IF id = m.id THEN Detailed(f[id], m) ELSE f[id]]
    <3>1. g = h
      BY <2>3, DetailMapped
    <3> QED
      BY <3>1
  <2>4. CASE m.type \notin {"AddObject", "ObjectDeath"} \cup Details
    <3>1. g = f
      BY <2>4 DEF Mapped
    <3> QED
      BY <1>2, <3>1
  <2> QED
    BY <2>1, <2>2, <2>3, <2>4
<1> HIDE DEF g
<1>4. Hear(v, m).objects = g /\ Hear(v, m) = Held3(g, Hear(v, m).resources, Hear(v, m).housed)
  BY DEF Hear, Held3, f, g
<1> QED
  BY <1>3, <1>4 DEF HasMap

\* After any number of messages there is a map.
LEMMA HeardMap ==
    ASSUME NEW v, NEW s, NEW n \in Nat, HasMap(v)
    PROVE  HasMap(Heard(v, s, n))
<1> DEFINE N == {i \in Nat : HasMap(Heard(v, s, i))}
<1>1. 0 \in N
  BY HeardSteps
<1>2. ASSUME NEW i \in Nat, i \in N PROVE i + 1 \in N
  <2>1. HasMap(Heard(v, s, i)) /\ Heard(v, s, i + 1) = Hear(Heard(v, s, i), s[i + 1])
    BY <1>2, HeardSteps
  <2> QED
    BY <2>1, HearsMap
<1> HIDE DEF N
<1>3. n \in N
  BY <1>1, <1>2, SetInduction
<1> QED
  BY <1>3 DEF N

\* The time of a step, and who is gone, are no part of the copy.
LEMMA NothingHeard ==
    ASSUME NEW v, NEW s, NEW n \in Nat, HasMap(v),
           \A i \in 1 .. n : s[i].type \in {"PlayerLeaveBroadcast", "GameStepTime"}
    PROVE  Heard(v, s, n) = v
<1>1. ASSUME NEW m, m.type \in {"PlayerLeaveBroadcast", "GameStepTime"} PROVE Hear(v, m) = v
  <2>1. Mapped(v.objects, m) = v.objects
    BY <1>1 DEF Mapped, Details, ObjectMessages
  <2> QED
    BY <1>1, <2>1 DEF Hear, HasMap
<1> DEFINE N == {i \in Nat : i <= n => Heard(v, s, i) = v}
<1>2. 0 \in N
  BY HeardSteps
<1>3. ASSUME NEW i \in Nat, i \in N PROVE i + 1 \in N
  <2>1. SUFFICES ASSUME i + 1 <= n PROVE Heard(v, s, i + 1) = v
    OBVIOUS
  <2>2. i + 1 \in 1 .. n /\ i <= n
    BY <2>1
  <2>3. Heard(v, s, i + 1) = Hear(Heard(v, s, i), s[i + 1])
    BY HeardSteps
  <2> QED
    BY <1>1, <1>3, <2>2, <2>3
<1> HIDE DEF N
<1>4. n \in N
  BY <1>2, <1>3, SetInduction
<1> QED
  BY <1>4 DEF N

\* A frame makes of the client's copy what its messages say.
LEMMA HandledHears ==
    ASSUME OutcomeInv, Formed(client), NEW n \in 0 .. Len(stream)
    PROVE  Formed(Handled(n)) /\ Trim(Handled(n)) = Heard(Trim(client), stream, n)
<1>1. Len(stream) \in Nat /\ DOMAIN stream = 1 .. Len(stream)
  BY LenProperties DEF OutcomeInv, Listed
<1> DEFINE R(i) == Formed(Handled(i)) /\ Trim(Handled(i)) = Heard(Trim(client), stream, i)
           N == {i \in Nat : i <= Len(stream) => R(i)}
<1>2. 0 \in N
  BY HandledSteps, HeardSteps
<1>3. ASSUME NEW i \in Nat, i \in N PROVE i + 1 \in N
  <2>1. SUFFICES ASSUME i + 1 <= Len(stream) PROVE R(i + 1)
    OBVIOUS
  <2> DEFINE m == stream[i + 1]
             c == Handled(i)
  <2>2. i + 1 \in DOMAIN stream /\ i <= Len(stream)
    BY <1>1, <2>1
  <2>3. m.type \in SpokenTypes \cup {"PlayerLeaveBroadcast"}
    BY <2>2 DEF Elements, OutcomeInv
  <2>4. Formed(c) /\ Trim(c) = Heard(Trim(client), stream, i)
    BY <1>3, <2>2
  <2>5. Handled(i + 1) = ParseMessage(c, m)
    BY HandledSteps
  <2>6. Heard(Trim(client), stream, i + 1) = Hear(Heard(Trim(client), stream, i), m)
    BY HeardSteps
  <2> HIDE DEF c, m
  <2> QED
    BY <2>3, <2>4, <2>5, <2>6, ParseHears
<1> HIDE DEF N
<1>4. n \in N
  BY <1>1, <1>2, <1>3, SetInduction
<1> QED
  BY <1>1, <1>4 DEF N

(***************************************************************************)
(* The steps on a stream.                                                  *)
(***************************************************************************)
Rest(s, n) == SubSeq(s, n + 1, Len(s))

\* What is left when the first n are gone.
LEMMA RestListed ==
    ASSUME NEW s, Listed(s), NEW n \in 0 .. Len(s)
    PROVE  /\ Listed(Rest(s, n)) /\ Len(Rest(s, n)) = Len(s) - n
           /\ DOMAIN Rest(s, n) = 1 .. Len(s) - n
           /\ \A i \in 1 .. Len(s) - n : Rest(s, n)[i] = s[n + i]
           /\ Elements(Rest(s, n)) \subseteq Elements(s)
           /\ Len(s) \in Nat
<1>1. Len(s) \in Nat /\ DOMAIN s = 1 .. Len(s)
  BY LenProperties DEF Listed
<1> DEFINE q == SubSeq(s, n + 1, Len(s))
           l == Len(s)
<1>2. \A i \in (n + 1) .. Len(s) : s[i] \in Elements(s)
  BY <1>1 DEF Elements
<1>3. /\ q \in Seq(Elements(s))
      /\ Len(q) = IF n + 1 <= l THEN l - (n + 1) + 1 ELSE 0
      /\ \A i \in 1 .. l - (n + 1) + 1 : q[i] = s[(n + 1) + i - 1]
  BY <1>1, <1>2, SubSeqProperties DEF Listed
<1>4. l \in Nat /\ n \in 0 .. l
  BY <1>1
<1> HIDE DEF q, l
<1>5. l - (n + 1) + 1 = l - n /\ (~(n + 1 <= l) => l - n = 0)
  BY <1>4
<1>6. \A i \in 1 .. l - n : (n + 1) + i - 1 = n + i
  BY <1>4
<1>7. Len(q) = l - n
  BY <1>3, <1>5
<1>8. \A i \in 1 .. l - n : q[i] = s[n + i]
  BY <1>3, <1>5, <1>6
<1>9. Elements(q) \subseteq Elements(s) /\ DOMAIN q = 1 .. Len(q)
  BY <1>3, LenProperties DEF Elements
<1>10. Listed(q)
  BY <1>3, IsListed
<1> QED
  BY <1>1, <1>7, <1>8, <1>9, <1>10 DEF q, Rest, l

\* Sequences with the same elements in the same places are the same.
LEMMA SameListed ==
    ASSUME NEW s, NEW t, Listed(s), Listed(t), Len(s) = Len(t),
           \A i \in 1 .. Len(s) : s[i] = t[i]
    PROVE  s = t
<1>1. /\ s \in Seq(Elements(s)) /\ t \in Seq(Elements(t))
      /\ s = [i \in 1 .. Len(s) |-> s[i]] /\ t = [i \in 1 .. Len(t) |-> t[i]]
  BY LenProperties DEF Listed
<1> QED
  BY <1>1

\* What is left of what is left.
LEMMA RestOfRest ==
    ASSUME NEW s, Listed(s), NEW n \in 0 .. Len(s), NEW k \in 0 .. Len(s) - n
    PROVE  /\ n + k \in 0 .. Len(s) /\ Len(Rest(s, n)) = Len(s) - n
           /\ Rest(Rest(s, n), k) = Rest(s, n + k)
<1>1. Len(s) \in Nat /\ n + k \in 0 .. Len(s)
  BY RestListed
<1> DEFINE q == Rest(s, n)
           l == Len(s)
<1>2. Listed(q) /\ Len(q) = l - n /\ \A i \in 1 .. l - n : q[i] = s[n + i]
  BY RestListed
<1> HIDE DEF q
<1>3. /\ Listed(Rest(s, n + k)) /\ Len(Rest(s, n + k)) = l - (n + k)
      /\ \A i \in 1 .. l - (n + k) : Rest(s, n + k)[i] = s[(n + k) + i]
  BY <1>1, RestListed
<1>4. l \in Nat /\ Len(q) - k = l - (n + k) /\ k \in 0 .. Len(q)
  BY <1>1, <1>2
<1> HIDE DEF l
<1>5. /\ Listed(Rest(q, k)) /\ Len(Rest(q, k)) = Len(q) - k
      /\ \A i \in 1 .. Len(q) - k : Rest(q, k)[i] = q[k + i]
  BY <1>2, <1>4, RestListed
<1>6. \A i \in 1 .. l - (n + k) : k + i \in 1 .. l - n /\ n + (k + i) = (n + k) + i
  BY <1>4
<1>7. \A i \in 1 .. l - (n + k) : Rest(q, k)[i] = Rest(s, n + k)[i]
  BY <1>2, <1>3, <1>5, <1>4, <1>6
<1>8. Rest(q, k) = Rest(s, n + k)
  BY <1>3, <1>5, <1>4, <1>7, SameListed
<1> QED
  BY <1>1, <1>2, <1>8 DEF q, l

\* What is left of two sequences.
LEMMA RestTogether ==
    ASSUME NEW s, NEW t, Listed(s), Listed(t)
    PROVE  /\ \A k \in 0 .. Len(s) : Rest(s \o t, k) = Rest(s, k) \o t
           /\ \A k \in 0 .. Len(t) : Rest(s \o t, Len(s) + k) = Rest(t, k)
<1> DEFINE u == s \o t
           l == Len(s)
           m == Len(t)
<1>1. /\ Listed(u) /\ Len(u) = l + m /\ l \in Nat /\ m \in Nat
      /\ \A i \in 1 .. l : u[i] = s[i]
      /\ \A i \in 1 .. m : u[l + i] = t[i]
  BY ConcatListed
<1> HIDE DEF u
<1>2. ASSUME NEW k \in 0 .. l PROVE Rest(u, k) = Rest(s, k) \o t
  <2> DEFINE q == Rest(s, k)
             r == q \o t
             a == Rest(u, k)
  <2>1. Listed(q) /\ Len(q) = l - k /\ \A i \in 1 .. l - k : q[i] = s[k + i]
    BY RestListed
  <2> HIDE DEF q
  <2>0. Listed(q) /\ Listed(t)
    BY <2>1
  <2>2. /\ Listed(r) /\ Len(r) = Len(q) + m
        /\ \A i \in 1 .. Len(q) : r[i] = q[i]
        /\ \A i \in 1 .. m : r[Len(q) + i] = t[i]
    BY ONLY <2>0, ConcatListed
  <2>3. k \in 0 .. Len(u)
    BY <1>1
  <2>4. Listed(a) /\ Len(a) = Len(u) - k /\ \A i \in 1 .. Len(u) - k : a[i] = u[k + i]
    BY <1>1, <2>3, RestListed
  <2> HIDE DEF r, a, l, m
  <2>5. Len(a) = (l + m) - k /\ Len(r) = (l + m) - k
    BY <1>1, <2>1, <2>2, <2>4
  <2>6. ASSUME NEW i \in 1 .. (l + m) - k PROVE a[i] = r[i]
    <3>1. CASE i <= l - k
      <4>1. i \in 1 .. l - k /\ k + i \in 1 .. l
        BY <1>1, <3>1
      <4> QED
        BY <1>1, <2>1, <2>2, <2>4, <4>1
    <3>2. CASE ~(i <= l - k)
      <4> DEFINE j == i - (l - k)
      <4>1. j \in 1 .. m /\ (l - k) + j = i /\ l + j = k + i
        BY <1>1, <3>2
      <4> HIDE DEF j
      <4>2. r[i] = t[j]
        BY <2>1, <2>2, <4>1
      <4>3. a[i] = u[l + j]
        BY <1>1, <2>4, <4>1
      <4> QED
        BY <1>1, <4>1, <4>2, <4>3
    <3> QED
      BY <3>1, <3>2
  <2>7. a = r
    BY <2>2, <2>4, <2>5, <2>6, SameListed
  <2> QED
    BY <2>7 DEF a, r, q
<1>3. ASSUME NEW k \in 0 .. m PROVE Rest(u, l + k) = Rest(t, k)
  <2> DEFINE q == Rest(t, k)
             a == Rest(u, l + k)
  <2>1. Listed(q) /\ Len(q) = m - k /\ \A i \in 1 .. m - k : q[i] = t[k + i]
    BY RestListed
  <2>2. l + k \in 0 .. Len(u)
    BY <1>1
  <2>3. /\ Listed(a) /\ Len(a) = Len(u) - (l + k)
        /\ \A i \in 1 .. Len(u) - (l + k) : a[i] = u[(l + k) + i]
    BY <1>1, <2>2, RestListed
  <2> HIDE DEF q, a, l, m
  <2>4. Len(u) - (l + k) = m - k
    BY <1>1
  <2>5. \A i \in 1 .. m - k : k + i \in 1 .. m /\ l + (k + i) = (l + k) + i
    BY <1>1
  <2>6. \A i \in 1 .. m - k : a[i] = q[i]
    BY <1>1, <2>1, <2>3, <2>4, <2>5
  <2>7. a = q
    BY <2>1, <2>3, <2>4, <2>6, SameListed
  <2> QED
    BY <2>7 DEF a, q
<1> QED
  BY <1>2, <1>3 DEF u

\* The messages with the time of a step.
Times(s) == {i \in DOMAIN s : s[i].type = "GameStepTime"}

IsNews(m) == m.type \notin {"PlayerLeaveBroadcast", "GameStepTime"}

\* There are finitely many times on a stream.
LEMMA TimesFinite ==
    ASSUME NEW s, Listed(s)
    PROVE  IsFiniteSet(Times(s)) /\ Cardinality(Times(s)) \in Nat
<1>1. DOMAIN s = 1 .. Len(s) /\ Len(s) \in Nat
  BY LenProperties DEF Listed
<1>2. IsFiniteSet(DOMAIN s) /\ Times(s) \in SUBSET (DOMAIN s)
  BY <1>1, FS_Interval DEF Times
<1> QED
  BY <1>2, FS_Subset, FS_CardinalityType

\* One less, if it is one.
LEMMA TimesFirst ==
    ASSUME NEW s, NEW t, Listed(s), Listed(t), Len(s) = Len(t) + 1,
           \A i \in 1 .. Len(t) : t[i] = s[i + 1]
    PROVE  Cardinality(Times(s))
             = Cardinality(Times(t)) + IF s[1].type = "GameStepTime" THEN 1 ELSE 0
<1>1. /\ DOMAIN s = 1 .. Len(s) /\ DOMAIN t = 1 .. Len(t) /\ Len(t) \in Nat /\ Len(s) \in Nat
  BY LenProperties DEF Listed
<1> DEFINE A == Times(t)
           B == Times(s) \ {1}
           f == [i \in A |-> i + 1]
<1>2. /\ \A i \in A : i \in 1 .. Len(t) /\ t[i].type = "GameStepTime"
      /\ \A i \in B : i \in 2 .. Len(s) /\ s[i].type = "GameStepTime"
  BY <1>1 DEF Times
<1>3. \A i \in A : i + 1 \in B
  <2>1. ASSUME NEW i \in A PROVE i + 1 \in B
    <3>1. i + 1 \in 1 .. Len(s) /\ i + 1 # 1 /\ s[i + 1].type = "GameStepTime"
      BY <1>1, <1>2
    <3> QED
      BY <1>1, <3>1 DEF Times
  <2> QED
    BY <2>1
<1>4. \A j \in B : j - 1 \in A /\ (j - 1) + 1 = j
  <2>1. ASSUME NEW j \in B PROVE j - 1 \in A /\ (j - 1) + 1 = j
    <3>1. j - 1 \in 1 .. Len(t) /\ (j - 1) + 1 = j
      BY <1>1, <1>2
    <3>2. t[j - 1].type = "GameStepTime"
      BY <1>2, <3>1
    <3> QED
      BY <1>1, <3>1, <3>2 DEF Times
  <2> QED
    BY <2>1
<1>5. IsFiniteSet(A) /\ Cardinality(A) \in Nat /\ IsFiniteSet(Times(s)) /\ Cardinality(Times(s)) \in Nat
  BY TimesFinite
<1>6. Cardinality(B) = Cardinality(A)
  <2>1. \A i, j \in A : i + 1 = j + 1 => i = j
    BY <1>1, <1>2
  <2> HIDE DEF A, B
  <2>2. f \in Bijection(A, B)
    <3>1. f \in [A -> B] /\ \A i, j \in A : f[i] = f[j] => i = j
      BY <1>3, <2>1
    <3>2. \A j \in B : \E i \in A : f[i] = j
      BY <1>4
    <3> HIDE DEF f
    <3> QED
      BY <3>1, <3>2 DEF Bijection, Injection, Surjection, IsInjective
  <2> QED
    BY <1>5, <2>2, FS_Bijection DEF ExistsBijection
<1>7. Cardinality(B) = IF 1 \in Times(s) THEN Cardinality(Times(s)) - 1 ELSE Cardinality(Times(s))
  BY <1>5, FS_RemoveElement
<1>8. 1 \in Times(s) <=> s[1].type = "GameStepTime"
  BY <1>1 DEF Times
<1> QED
  BY <1>5, <1>6, <1>7, <1>8

\* What the first message tells of where a stream stands.
LEMMA MidFirst ==
    ASSUME NEW s, NEW t, Listed(s), Listed(t), Len(s) = Len(t) + 1,
           \A i \in 1 .. Len(t) : t[i] = s[i + 1]
    PROVE  /\ IsNews(s[1]) => MidStep(s)
           /\ s[1].type = "GameStepTime" => ~MidStep(s)
           /\ s[1].type = "PlayerLeaveBroadcast" => (MidStep(s) <=> MidStep(t))
<1>1. /\ DOMAIN s = 1 .. Len(s) /\ DOMAIN t = 1 .. Len(t) /\ Len(t) \in Nat /\ Len(s) \in Nat
  BY LenProperties DEF Listed
<1>2. ASSUME IsNews(s[1]) PROVE MidStep(s)
  <2>1. 1 \in DOMAIN s /\ \A j \in 1 .. 1 - 1 : s[j].type = "PlayerLeaveBroadcast"
    BY <1>1
  <2> QED
    BY <1>2, <2>1 DEF MidStep, IsNews
<1>3. ASSUME s[1].type = "GameStepTime" PROVE ~MidStep(s)
  <2>1. SUFFICES ASSUME NEW i \in DOMAIN s, s[i].type \notin {"PlayerLeaveBroadcast", "GameStepTime"},
                        \A j \in 1 .. i - 1 : s[j].type = "PlayerLeaveBroadcast"
                 PROVE  FALSE
    BY DEF MidStep
  <2>2. i # 1
    BY <1>3, <2>1
  <2>3. 1 \in 1 .. i - 1
    BY <1>1, <2>2
  <2> QED
    BY <1>3, <2>1, <2>3
<1>4. ASSUME s[1].type = "PlayerLeaveBroadcast", MidStep(s) PROVE MidStep(t)
  <2>1. PICK i \in DOMAIN s : /\ s[i].type \notin {"PlayerLeaveBroadcast", "GameStepTime"}
                              /\ \A j \in 1 .. i - 1 : s[j].type = "PlayerLeaveBroadcast"
    BY <1>4 DEF MidStep
  <2>2. i # 1 /\ i - 1 \in 1 .. Len(t) /\ (i - 1) + 1 = i
    BY <1>1, <1>4, <2>1
  <2>3. t[i - 1].type \notin {"PlayerLeaveBroadcast", "GameStepTime"}
    BY <2>1, <2>2
  <2>4. ASSUME NEW j \in 1 .. (i - 1) - 1 PROVE t[j].type = "PlayerLeaveBroadcast"
    <3>1. j \in 1 .. Len(t) /\ j + 1 \in 1 .. i - 1
      BY <1>1, <2>2
    <3> QED
      BY <2>1, <3>1
  <2> QED
    BY <1>1, <2>2, <2>3, <2>4 DEF MidStep
<1>5. ASSUME s[1].type = "PlayerLeaveBroadcast", MidStep(t) PROVE MidStep(s)
  <2>1. PICK i \in DOMAIN t : /\ t[i].type \notin {"PlayerLeaveBroadcast", "GameStepTime"}
                              /\ \A j \in 1 .. i - 1 : t[j].type = "PlayerLeaveBroadcast"
    BY <1>5 DEF MidStep
  <2>2. i + 1 \in 1 .. Len(s) /\ i \in 1 .. Len(t)
    BY <1>1
  <2>3. s[i + 1].type \notin {"PlayerLeaveBroadcast", "GameStepTime"}
    BY <2>1, <2>2
  <2>4. ASSUME NEW j \in 1 .. (i + 1) - 1 PROVE s[j].type = "PlayerLeaveBroadcast"
    <3>1. CASE j = 1
      BY <1>5, <3>1
    <3>2. CASE j # 1
      <4>1. j - 1 \in 1 .. i - 1 /\ j - 1 \in 1 .. Len(t) /\ (j - 1) + 1 = j
        BY <2>2, <3>2
      <4>2. t[j - 1] = s[(j - 1) + 1]
        BY <4>1
      <4> QED
        BY <2>1, <4>1, <4>2
    <3> QED
      BY <3>1, <3>2
  <2> QED
    BY <1>1, <2>2, <2>3, <2>4 DEF MidStep
<1> QED
  BY <1>2, <1>3, <1>4, <1>5

\* The steps on a stream are its times and the step that it is in the middle of.
LEMMA StepsType ==
    ASSUME NEW s, Listed(s)
    PROVE  StepsOn(s) \in Nat /\ StepsOn(s) = Cardinality(Times(s)) + IF MidStep(s) THEN 1 ELSE 0
BY TimesFinite DEF StepsOn, Times

\* Taking a message off the stream.
LEMMA StepsFirst ==
    ASSUME NEW s, NEW t, Listed(s), Listed(t), Len(s) = Len(t) + 1,
           \A i \in 1 .. Len(t) : t[i] = s[i + 1]
    PROVE  /\ StepsOn(t) <= StepsOn(s)
           /\ MidStep(t) => StepsOn(s) = StepsOn(t)
           /\ MidStep(s) /\ ~MidStep(t) => StepsOn(s) = StepsOn(t) + 1
<1> DEFINE a == Cardinality(Times(s))
           b == Cardinality(Times(t))
<1>1. /\ StepsOn(s) = a + IF MidStep(s) THEN 1 ELSE 0
      /\ StepsOn(t) = b + IF MidStep(t) THEN 1 ELSE 0
      /\ a \in Nat /\ b \in Nat
  BY StepsType, TimesFinite
<1>2. a = b + IF s[1].type = "GameStepTime" THEN 1 ELSE 0
  BY TimesFirst
<1>3. /\ IsNews(s[1]) => MidStep(s)
      /\ s[1].type = "GameStepTime" => ~MidStep(s)
      /\ s[1].type = "PlayerLeaveBroadcast" => (MidStep(s) <=> MidStep(t))
  BY MidFirst
<1> HIDE DEF a, b
<1>4. CASE IsNews(s[1])
  <2>1. a = b /\ MidStep(s)
    BY <1>1, <1>2, <1>3, <1>4 DEF IsNews
  <2> QED
    BY <1>1, <2>1
<1>5. CASE s[1].type = "GameStepTime"
  <2>1. a = b + 1 /\ ~MidStep(s)
    BY <1>1, <1>2, <1>3, <1>5
  <2> QED
    BY <1>1, <2>1
<1>6. CASE s[1].type = "PlayerLeaveBroadcast"
  <2>1. a = b /\ (MidStep(s) <=> MidStep(t))
    BY <1>1, <1>2, <1>3, <1>6
  <2> QED
    BY <1>1, <2>1
<1> QED
  BY <1>4, <1>5, <1>6 DEF IsNews

\* Taking several.
LEMMA StepsLater ==
    ASSUME NEW s, Listed(s), NEW n \in 0 .. Len(s), NEW j \in 0 .. Len(s), n <= j
    PROVE  /\ StepsOn(Rest(s, j)) \in Nat /\ StepsOn(Rest(s, n)) \in Nat
           /\ StepsOn(Rest(s, j)) <= StepsOn(Rest(s, n))
           /\ MidStep(Rest(s, n)) /\ ~MidStep(Rest(s, j)) => StepsOn(Rest(s, j)) < StepsOn(Rest(s, n))
           /\ (\A k \in n + 1 .. j : MidStep(Rest(s, k))) => StepsOn(Rest(s, j)) = StepsOn(Rest(s, n))
<1> DEFINE S(i)   == StepsOn(Rest(s, i))
           M(i)   == MidStep(Rest(s, i))
           Q(i)   == /\ S(i) <= S(n)
                     /\ M(n) /\ ~M(i) => S(i) < S(n)
                     /\ (\A k \in n + 1 .. i : M(k)) => S(i) = S(n)
           N      == {d \in Nat : n + d <= Len(s) => Q(n + d)}
<1>1. Len(s) \in Nat
  BY RestListed
<1>2. \A i \in 0 .. Len(s) : S(i) \in Nat
  BY RestListed, StepsType
<1>3. ASSUME NEW i \in 0 .. Len(s) - 1
      PROVE  /\ S(i + 1) <= S(i) /\ S(i) \in Nat /\ S(i + 1) \in Nat
             /\ M(i + 1) => S(i) = S(i + 1)
             /\ M(i) /\ ~M(i + 1) => S(i) = S(i + 1) + 1
  <2> DEFINE a == Rest(s, i)
             b == Rest(s, i + 1)
  <2>1. i \in 0 .. Len(s) /\ i + 1 \in 0 .. Len(s)
    BY <1>1
  <2>2. /\ Listed(a) /\ Len(a) = Len(s) - i /\ \A k \in 1 .. Len(s) - i : a[k] = s[i + k]
        /\ Listed(b) /\ Len(b) = Len(s) - (i + 1) /\ \A k \in 1 .. Len(s) - (i + 1) : b[k] = s[(i + 1) + k]
    BY <2>1, RestListed
  <2> HIDE DEF a, b
  <2>3. Len(a) = Len(b) + 1
    BY <1>1, <2>2
  <2>4. ASSUME NEW k \in 1 .. Len(b) PROVE b[k] = a[k + 1]
    <3>1. k \in 1 .. Len(s) - (i + 1) /\ k + 1 \in 1 .. Len(s) - i /\ i + (k + 1) = (i + 1) + k
      BY <1>1, <2>2
    <3> QED
      BY <2>2, <3>1
  <2>5. /\ StepsOn(b) <= StepsOn(a)
        /\ MidStep(b) => StepsOn(a) = StepsOn(b)
        /\ MidStep(a) /\ ~MidStep(b) => StepsOn(a) = StepsOn(b) + 1
    BY <2>2, <2>3, <2>4, StepsFirst
  <2> QED
    BY <1>2, <2>1, <2>5 DEF a, b
<1> HIDE DEF S, M
<1>4. 0 \in N
  <2>1. n + 0 = n /\ S(n) \in Nat
    BY <1>2
  <2> QED
    BY <2>1
<1>5. ASSUME NEW d \in Nat, d \in N PROVE d + 1 \in N
  <2>1. SUFFICES ASSUME n + (d + 1) <= Len(s) PROVE Q(n + (d + 1))
    OBVIOUS
  <2> DEFINE i == n + d
  <2>2. i \in 0 .. Len(s) - 1 /\ n + (d + 1) = i + 1 /\ n <= i /\ i <= Len(s)
    BY <1>1, <2>1
  <2>3. Q(i)
    BY <1>5, <2>2
  <2> HIDE DEF i
  <2>4. S(n) \in Nat
    BY <1>2
  <2>5. /\ S(i + 1) <= S(i) /\ S(i) \in Nat /\ S(i + 1) \in Nat
        /\ M(i + 1) => S(i) = S(i + 1)
        /\ M(i) /\ ~M(i + 1) => S(i) = S(i + 1) + 1
    BY <1>3, <2>2
  <2>6. S(i + 1) <= S(n)
    BY <2>3, <2>4, <2>5
  <2>7. ASSUME M(n), ~M(i + 1) PROVE S(i + 1) < S(n)
    BY <2>3, <2>4, <2>5, <2>7
  <2>8. ASSUME \A k \in n + 1 .. i + 1 : M(k) PROVE S(i + 1) = S(n)
    <3>1. i + 1 \in n + 1 .. i + 1 /\ \A k \in n + 1 .. i : k \in n + 1 .. i + 1
      BY <2>2
    <3>2. M(i + 1) /\ S(i) = S(n)
      BY <2>3, <2>8, <3>1
    <3> QED
      BY <2>5, <3>2
  <2> QED
    BY <2>2, <2>6, <2>7, <2>8
<1> HIDE DEF Q, N
<1>6. j - n \in N
  <2>1. j - n \in Nat
    OBVIOUS
  <2> QED
    BY <1>4, <1>5, <2>1, SetInduction
<1>7. n + (j - n) = j /\ n \in Nat /\ j \in Nat
  OBVIOUS
<1>8. Q(j)
  BY <1>6, <1>7 DEF N
<1> QED
  BY <1>2, <1>8 DEF Q, S, M

(***************************************************************************)
(* What the client holds at each end of a step, and what was published.    *)
(***************************************************************************)
\* The copy that is made from v, but for the strays.
CopyFrom(v, str) ==
    [objects   |-> [id \in DOMAIN v.objects \ str |-> v.objects[id]],
     resources |-> v.resources,
     housed    |-> v.housed]

\* The i-th copy: w is shown, and p is pending.
ShownOf(w, p, i) == IF i = 0 THEN w ELSE p[i]

\* Who has handled s up to the end of a step has the copy that was published then.
UpToDate(v, s, w, p, str) ==
    \A k \in 0 .. Len(s) :
      ~MidStep(Rest(s, k))
        => CopyFrom(Heard(v, s, k), str) = ShownOf(w, p, Len(p) - StepsOn(Rest(s, k)))

\* What follows the end of a step does not change what is before it.
LEMMA MidTogether ==
    ASSUME NEW s, NEW t, Listed(s), Listed(t), ~MidStep(t)
    PROVE  MidStep(s \o t) <=> MidStep(s)
<1> DEFINE u == s \o t
           l == Len(s)
           m == Len(t)
<1>1. /\ Listed(u) /\ Len(u) = l + m /\ l \in Nat /\ m \in Nat
      /\ DOMAIN s = 1 .. l /\ DOMAIN t = 1 .. m /\ DOMAIN u = 1 .. l + m
      /\ \A i \in 1 .. l : u[i] = s[i]
      /\ \A i \in 1 .. m : u[l + i] = t[i]
  BY ConcatListed
<1> HIDE DEF u, l, m
<1>2. ASSUME MidStep(s) PROVE MidStep(u)
  <2>1. PICK i \in 1 .. l : /\ s[i].type \notin {"PlayerLeaveBroadcast", "GameStepTime"}
                            /\ \A j \in 1 .. i - 1 : s[j].type = "PlayerLeaveBroadcast"
    BY <1>1, <1>2 DEF MidStep
  <2>2. i \in DOMAIN u /\ \A j \in 1 .. i - 1 : j \in 1 .. l
    BY <1>1
  <2> QED
    BY <1>1, <2>1, <2>2 DEF MidStep
<1>3. ASSUME MidStep(u) PROVE MidStep(s)
  <2>1. PICK i \in 1 .. l + m : /\ u[i].type \notin {"PlayerLeaveBroadcast", "GameStepTime"}
                                /\ \A j \in 1 .. i - 1 : u[j].type = "PlayerLeaveBroadcast"
    BY <1>1, <1>3 DEF MidStep
  <2>2. CASE i <= l
    <3>1. i \in 1 .. l /\ \A j \in 1 .. i - 1 : j \in 1 .. l
      BY <1>1, <2>2
    <3> QED
      BY <1>1, <2>1, <3>1 DEF MidStep
  <2>3. CASE ~(i <= l)
    <3>1. i - l \in 1 .. m /\ l + (i - l) = i
      BY <1>1, <2>3
    <3>2. t[i - l].type \notin {"PlayerLeaveBroadcast", "GameStepTime"}
      BY <1>1, <2>1, <3>1
    <3>3. ASSUME NEW j \in 1 .. (i - l) - 1 PROVE t[j].type = "PlayerLeaveBroadcast"
      <4>1. j \in 1 .. m /\ l + j \in 1 .. i - 1
        BY <1>1, <3>1
      <4> QED
        BY <1>1, <2>1, <4>1
    <3>4. MidStep(t)
      BY <1>1, <3>1, <3>2, <3>3 DEF MidStep
    <3> QED
      BY <3>4
  <2> QED
    BY <2>2, <2>3
<1> QED
  BY <1>2, <1>3 DEF u

\* The news that players have left belongs to no step.
LEMMA LeaversTogether ==
    ASSUME NEW s, NEW t, Listed(s), Listed(t),
           \A i \in 1 .. Len(t) : t[i].type = "PlayerLeaveBroadcast"
    PROVE  (MidStep(s \o t) <=> MidStep(s)) /\ StepsOn(s \o t) = StepsOn(s)
<1> DEFINE u == s \o t
           l == Len(s)
           m == Len(t)
<1>1. /\ Listed(u) /\ Len(u) = l + m /\ l \in Nat /\ m \in Nat
      /\ DOMAIN s = 1 .. l /\ DOMAIN t = 1 .. m /\ DOMAIN u = 1 .. l + m
      /\ \A i \in 1 .. l : u[i] = s[i]
      /\ \A i \in 1 .. m : u[l + i] = t[i]
  BY ConcatListed
<1>2. ~MidStep(t)
  BY <1>1 DEF MidStep
<1>3. MidStep(u) <=> MidStep(s)
  BY <1>2, MidTogether
<1> HIDE DEF u, l, m
<1>4. Times(u) = Times(s)
  <2>1. ASSUME NEW i \in 1 .. l + m, u[i].type = "GameStepTime" PROVE i \in 1 .. l
    <3>1. CASE ~(i <= l)
      <4>1. i - l \in 1 .. m /\ l + (i - l) = i
        BY <1>1, <3>1
      <4>2. t[i - l].type = "PlayerLeaveBroadcast" /\ u[i] = t[i - l]
        BY <1>1, <4>1 DEF m
      <4> QED
        BY <2>1, <4>2
    <3> QED
      BY <1>1, <3>1
  <2>2. \A i \in 1 .. l : i \in 1 .. l + m
    BY <1>1
  <2> QED
    BY <1>1, <2>1, <2>2 DEF Times
<1>5. StepsOn(u) = StepsOn(s)
  BY <1>1, <1>3, <1>4, StepsType
<1> QED
  BY <1>3, <1>5 DEF u

\* What is written at the end of a step.
OneStep(t) ==
    /\ Listed(t) /\ Len(t) >= 2 /\ t[1].type = "GameStepTime"
    /\ \A i \in 2 .. Len(t) : IsNews(t[i])

\* A step that is written behind the others is one more.
LEMMA StepTogether ==
    ASSUME NEW s, NEW t, Listed(s), OneStep(t)
    PROVE  (MidStep(s \o t) <=> MidStep(s)) /\ StepsOn(s \o t) = StepsOn(s) + 1
<1> DEFINE u == s \o t
           l == Len(s)
           m == Len(t)
<1>0. Listed(t)
  BY DEF OneStep
<1>1. /\ Listed(u) /\ Len(u) = l + m /\ l \in Nat /\ m \in Nat
      /\ DOMAIN s = 1 .. l /\ DOMAIN t = 1 .. m /\ DOMAIN u = 1 .. l + m
      /\ \A i \in 1 .. l : u[i] = s[i]
      /\ \A i \in 1 .. m : u[l + i] = t[i]
  BY <1>0, ConcatListed
<1>2. /\ 1 \in 1 .. m /\ t[1].type = "GameStepTime"
      /\ \A i \in 2 .. m : t[i].type # "GameStepTime"
  BY <1>1 DEF OneStep, IsNews
<1> HIDE DEF u, l, m
<1>3. ~MidStep(t)
  <2>1. ASSUME NEW i \in 1 .. m, t[i].type \notin {"PlayerLeaveBroadcast", "GameStepTime"},
               \A j \in 1 .. i - 1 : t[j].type = "PlayerLeaveBroadcast"
        PROVE  FALSE
    <3>1. 1 \in 1 .. i - 1
      BY <1>1, <1>2, <2>1
    <3> QED
      BY <1>2, <2>1, <3>1
  <2> QED
    BY <1>1, <2>1 DEF MidStep
<1>4. MidStep(u) <=> MidStep(s)
  BY <1>0, <1>3, MidTogether DEF u
<1>5. Times(u) = Times(s) \cup {l + 1} /\ l + 1 \notin Times(s)
  <2>1. ASSUME NEW i \in 1 .. l + m, u[i].type = "GameStepTime" PROVE i \in 1 .. l \/ i = l + 1
    <3>1. CASE ~(i <= l) /\ i # l + 1
      <4>1. i - l \in 1 .. m /\ i - l \in 2 .. m /\ l + (i - l) = i
        BY <1>1, <3>1
      <4>2. u[l + (i - l)] = t[i - l]
        BY <1>1, <4>1
      <4> QED
        BY <1>2, <2>1, <4>1, <4>2
    <3> QED
      BY <1>1, <3>1
  <2>2. (\A i \in 1 .. l : i \in 1 .. l + m) /\ l + 1 \in 1 .. l + m /\ l + 1 \notin 1 .. l
    BY <1>1, <1>2
  <2>3. u[l + 1].type = "GameStepTime"
    BY <1>1, <1>2
  <2>4. \A i \in Times(u) : i \in Times(s) \/ i = l + 1
    BY <1>1, <2>1 DEF Times
  <2>5. \A i \in Times(s) : i \in Times(u) /\ i # l + 1
    BY <1>1, <2>2 DEF Times
  <2>6. l + 1 \in Times(u)
    BY <1>1, <2>2, <2>3 DEF Times
  <2> QED
    BY <2>4, <2>5, <2>6
<1>6. Cardinality(Times(u)) = Cardinality(Times(s)) + 1
  BY <1>5, TimesFinite, FS_AddElement
<1>7. StepsOn(u) = StepsOn(s) + 1
  BY <1>1, <1>4, <1>6, StepsType, TimesFinite
<1> QED
  BY <1>4, <1>7 DEF u

\* Nothing is on a stream that is empty.
LEMMA NothingOn ==
    ASSUME NEW s, Listed(s)
    PROVE  Rest(s, Len(s)) = <<>> /\ ~MidStep(<<>>) /\ StepsOn(<<>>) = 0
<1>1. Len(s) \in Nat
  BY RestListed
<1>2. Listed(Rest(s, Len(s))) /\ Len(Rest(s, Len(s))) = 0
  BY <1>1, RestListed
<1>3. Rest(s, Len(s)) = <<>>
  BY <1>2, LenProperties DEF Listed
<1>4. ~MidStep(<<>>) /\ Times(<<>>) = {}
  BY DEF MidStep, Times
<1>5. StepsOn(<<>>) = 0
  <2> DEFINE e == <<>>
  <2>1. Listed(e) /\ ~MidStep(e) /\ Times(e) = {}
    BY <1>4, FewListed
  <2> HIDE DEF e
  <2>2. StepsOn(e) = 0
    BY <2>1, StepsType, FS_EmptySet
  <2> QED
    BY <2>2 DEF e
<1> QED
  BY <1>3, <1>4, <1>5

\* The index of a published copy is one.
LEMMA StepsBounded ==
    ASSUME NEW s, Listed(s), NEW k \in 0 .. Len(s)
    PROVE  StepsOn(s) \in Nat /\ StepsOn(Rest(s, k)) \in 0 .. StepsOn(s)
<1>1. Rest(s, 0) = s
  <2>1. Len(s) \in Nat
    BY RestListed
  <2>2. /\ Listed(Rest(s, 0)) /\ Len(Rest(s, 0)) = Len(s)
        /\ \A i \in 1 .. Len(s) : Rest(s, 0)[i] = s[i]
    BY <2>1, RestListed
  <2> QED
    BY <2>2, SameListed
<1>2. 0 \in 0 .. Len(s) /\ 0 <= k
  BY RestListed
<1> QED
  BY <1>1, <1>2, StepsLater

\* The news that players have left changes nothing.
LEMMA UpToDateLeavers ==
    ASSUME NEW v, NEW s, NEW t, NEW w, NEW p, NEW str, Listed(s), Listed(t), HasMap(v),
           \A i \in 1 .. Len(t) : t[i].type = "PlayerLeaveBroadcast",
           UpToDate(v, s, w, p, str), Listed(p), Len(p) = StepsOn(s)
    PROVE  UpToDate(v, s \o t, w, p, str) /\ Len(p) = StepsOn(s \o t)
           /\ Hears(v, s \o t) = Hears(v, s)
<1>0. /\ \A k \in 0 .. Len(s) : Heard(v, s \o t, k) = Heard(v, s, k)
      /\ \A k \in 0 .. Len(t) : Heard(v, s \o t, Len(s) + k) = Heard(Hears(v, s), t, k)
      /\ Hears(v, s \o t) = Hears(Hears(v, s), t)
  <2>1. ASSUME NEW k \in 0 .. Len(s) PROVE Heard(v, s \o t, k) = Heard(v, s, k)
    BY HeardWithin
  <2>2. ASSUME NEW k \in 0 .. Len(t)
        PROVE  Heard(v, s \o t, Len(s) + k) = Heard(Hears(v, s), t, k)
    BY HeardBeyond
  <2> QED
    BY <2>1, <2>2, HearsTogether
<1> DEFINE u == s \o t
           l == Len(s)
           m == Len(t)
<1>1. Len(u) = l + m /\ l \in Nat /\ m \in Nat
  BY ConcatListed
<1>2. /\ \A k \in 0 .. l : Rest(u, k) = Rest(s, k) \o t
      /\ \A k \in 0 .. m : Rest(u, l + k) = Rest(t, k)
  BY RestTogether
<1>3. /\ \A k \in 0 .. l : Heard(v, u, k) = Heard(v, s, k)
      /\ \A k \in 0 .. m : Heard(v, u, l + k) = Heard(Hears(v, s), t, k)
      /\ Hears(v, u) = Hears(Hears(v, s), t)
  BY <1>0
<1>4. HasMap(Hears(v, s))
  BY <1>1, HeardMap DEF Hears
<1> HIDE DEF u
<1>5. ASSUME NEW k \in 0 .. l, ~MidStep(Rest(u, k))
      PROVE  CopyFrom(Heard(v, u, k), str) = ShownOf(w, p, Len(p) - StepsOn(Rest(u, k)))
  <2>1. Listed(Rest(s, k))
    BY RestListed
  <2>2. (MidStep(Rest(s, k) \o t) <=> MidStep(Rest(s, k))) /\ StepsOn(Rest(s, k) \o t) = StepsOn(Rest(s, k))
    BY <2>1, LeaversTogether DEF m
  <2> QED
    BY <1>2, <1>3, <1>5, <2>2 DEF UpToDate
<1>6. ASSUME NEW k \in 0 .. m
      PROVE  /\ Heard(v, u, l + k) = Heard(v, u, l)
             /\ StepsOn(Rest(u, l + k)) = StepsOn(Rest(u, l))
             /\ ~MidStep(Rest(u, l)) /\ Heard(Hears(v, s), t, k) = Hears(v, s)
  <2>1. Heard(Hears(v, s), t, k) = Hears(v, s)
    <3>1. k \in Nat /\ \A i \in 1 .. k : i \in 1 .. m
      BY <1>1
    <3>2. \A i \in 1 .. k : t[i].type \in {"PlayerLeaveBroadcast", "GameStepTime"}
      BY <3>1
    <3> QED
      BY <1>4, <3>1, <3>2, NothingHeard
  <2>2. ASSUME NEW j \in 0 .. m
        PROVE  StepsOn(Rest(u, l + j)) = 0 /\ ~MidStep(Rest(u, l + j))
    <3> DEFINE a == Rest(t, j)
    <3>1. Listed(a) /\ Len(a) = m - j /\ \A i \in 1 .. m - j : a[i] = t[j + i]
      BY RestListed
    <3> HIDE DEF a
    <3>2. \A i \in 1 .. Len(a) : a[i].type = "PlayerLeaveBroadcast"
      <4>1. \A i \in 1 .. m - j : j + i \in 1 .. m
        BY <1>1
      <4> QED
        BY <3>1, <4>1
    <3>3. Listed(<<>>) /\ <<>> \o a = a
      <4>1. a \in Seq(Elements(a))
        BY <3>1 DEF Listed
      <4> QED
        BY <4>1, FewListed
    <3>4. StepsOn(a) = 0 /\ ~MidStep(a)
      BY <3>1, <3>2, <3>3, LeaversTogether, NothingOn, FewListed
    <3> QED
      BY <1>2, <3>4 DEF a
  <2>3. 0 \in 0 .. m /\ l + 0 = l
    BY <1>1
  <2>4. Heard(v, u, l) = Hears(v, s)
    BY <1>1, <1>3 DEF Hears
  <2> QED
    BY <1>3, <2>1, <2>2, <2>3, <2>4
<1>7. UpToDate(v, u, w, p, str)
  <2>1. SUFFICES ASSUME NEW k \in 0 .. Len(u), ~MidStep(Rest(u, k))
                 PROVE  CopyFrom(Heard(v, u, k), str) = ShownOf(w, p, Len(p) - StepsOn(Rest(u, k)))
    BY DEF UpToDate
  <2>2. k \in 0 .. l \/ (k - l \in 0 .. m /\ l + (k - l) = k)
    BY <1>1
  <2>3. l \in 0 .. l
    BY <1>1
  <2> QED
    BY <1>5, <1>6, <2>1, <2>2, <2>3
<1>8. StepsOn(u) = StepsOn(s)
  BY LeaversTogether DEF u
<1>9. Hears(v, u) = Hears(v, s)
  <2>1. m \in 0 .. m
    BY <1>1
  <2>2. Hears(Hears(v, s), t) = Heard(Hears(v, s), t, m)
    BY DEF Hears
  <2> QED
    BY <1>3, <1>6, <2>1, <2>2
<1> QED
  BY <1>7, <1>8, <1>9 DEF u

\* An object that nobody who is up to date has is a stray like any other.
LEMMA MoreStrays ==
    ASSUME NEW v, NEW str, NEW str2, str \subseteq str2, (str2 \ str) \cap DOMAIN v.objects = {}
    PROVE  CopyFrom(v, str2) = CopyFrom(v, str)
<1>1. DOMAIN v.objects \ str2 = DOMAIN v.objects \ str
  OBVIOUS
<1> QED
  BY <1>1 DEF CopyFrom

\* Objects that are on no map may as well be left out of the copies.
LEMMA UpToDateStrays ==
    ASSUME NEW v, NEW s, NEW w, NEW p, NEW str, NEW str2, str \subseteq str2,
           UpToDate(v, s, w, p, str),
           \A k \in 0 .. Len(s) : (str2 \ str) \cap DOMAIN Heard(v, s, k).objects = {}
    PROVE  UpToDate(v, s, w, p, str2)
<1>1. \A k \in 0 .. Len(s) : CopyFrom(Heard(v, s, k), str2) = CopyFrom(Heard(v, s, k), str)
  BY MoreStrays
<1> QED
  BY <1>1 DEF UpToDate

\* A copy is published with the messages of the step.
LEMMA UpToDatePublished ==
    ASSUME NEW v, NEW s, NEW t, NEW w, NEW p, NEW str, NEW c, Listed(s), OneStep(t), HasMap(v),
           UpToDate(v, s, w, p, str), Listed(p), Len(p) = StepsOn(s),
           c = CopyFrom(Hears(v, s \o t), str)
    PROVE  UpToDate(v, s \o t, w, Append(p, c), str)
<1> DEFINE u == s \o t
           l == Len(s)
           m == Len(t)
           q == Append(p, c)
           n == Len(p)
<1>0. Listed(t)
  BY DEF OneStep
<1>1. Len(u) = l + m /\ l \in Nat /\ m \in Nat /\ Listed(u)
  BY <1>0, ConcatListed
<1>2. /\ \A k \in 0 .. l : Rest(u, k) = Rest(s, k) \o t
      /\ \A k \in 0 .. m : Rest(u, l + k) = Rest(t, k)
  BY <1>0, RestTogether
<1>3. \A k \in 0 .. l : Heard(v, u, k) = Heard(v, s, k)
  <2>1. ASSUME NEW k \in 0 .. Len(s) PROVE Heard(v, s \o t, k) = Heard(v, s, k)
    BY <1>0, HeardWithin
  <2> QED
    BY <2>1
<1>4. n \in Nat /\ Len(q) = n + 1 /\ q[n + 1] = c /\ \A i \in 1 .. n : q[i] = p[i]
  <2>1. p \in Seq(Elements(p) \cup {c})
    <3>1. p \in Seq(Elements(p)) /\ Elements(p) \subseteq Elements(p) \cup {c}
      BY DEF Listed
    <3> QED
      BY <3>1
  <2> QED
    BY <2>1, AppendProperties, LenProperties
<1>5. StepsOn(s) \in Nat /\ \A k \in 0 .. l : StepsOn(Rest(s, k)) \in 0 .. StepsOn(s)
  <2>1. ASSUME NEW k \in 0 .. Len(s) PROVE StepsOn(Rest(s, k)) \in 0 .. StepsOn(s)
    BY StepsBounded
  <2> QED
    BY <2>1, StepsType
<1>6. Hears(v, u) = Heard(v, u, l + m)
  BY <1>1 DEF Hears
<1>7. m >= 2 /\ \A i \in 2 .. m : IsNews(t[i])
  BY DEF OneStep
<1> HIDE DEF u, l, q, n
<1>8. ASSUME NEW k \in 0 .. l, ~MidStep(Rest(u, k))
      PROVE  CopyFrom(Heard(v, u, k), str) = ShownOf(w, q, Len(q) - StepsOn(Rest(u, k)))
  <2> DEFINE r == Rest(s, k)
  <2>1. Listed(r)
    BY RestListed DEF l
  <2> HIDE DEF r
  <2>2. (MidStep(r \o t) <=> MidStep(r)) /\ StepsOn(r \o t) = StepsOn(r) + 1
    BY <2>1, StepTogether
  <2>3. ~MidStep(r) /\ StepsOn(Rest(u, k)) = StepsOn(r) + 1
    BY <1>2, <1>8, <2>2 DEF r
  <2>4. CopyFrom(Heard(v, s, k), str) = ShownOf(w, p, n - StepsOn(r))
    BY <2>3 DEF UpToDate, r, n, l
  <2>5. StepsOn(r) \in 0 .. n
    BY <1>5 DEF r, n
  <2> DEFINE i == n - StepsOn(r)
  <2>6. Len(q) - (StepsOn(r) + 1) = i /\ (i = 0 \/ i \in 1 .. n)
    BY <1>4, <2>5
  <2> HIDE DEF i
  <2>7. ShownOf(w, q, i) = ShownOf(w, p, i)
    BY <1>4, <2>6 DEF ShownOf
  <2>8. Heard(v, u, k) = Heard(v, s, k)
    BY <1>3
  <2> QED
    BY <2>3, <2>4, <2>6, <2>7, <2>8 DEF i
<1>9. ASSUME NEW k \in 1 .. m - 1 PROVE MidStep(Rest(u, l + k))
  <2> DEFINE r == Rest(t, k)
  <2>1. k \in 0 .. m
    BY <1>1
  <2>2. Listed(r) /\ DOMAIN r = 1 .. m - k /\ \A i \in 1 .. m - k : r[i] = t[k + i]
    BY <1>0, <2>1, RestListed
  <2>3. Rest(u, l + k) = r
    BY <1>2, <2>1
  <2> HIDE DEF r, m
  <2>4. 1 \in 1 .. m - k /\ k + 1 \in 2 .. m
    BY <1>1
  <2>5. IsNews(r[1])
    BY <1>7, <2>2, <2>4
  <2>6. r[1].type \notin {"PlayerLeaveBroadcast", "GameStepTime"}
    BY <2>5 DEF IsNews
  <2>7. \A j \in 1 .. 1 - 1 : r[j].type = "PlayerLeaveBroadcast"
    OBVIOUS
  <2> QED
    BY <2>2, <2>3, <2>4, <2>6, <2>7 DEF MidStep
<1> HIDE DEF m
<1>10. CopyFrom(Heard(v, u, l + m), str) = ShownOf(w, q, Len(q) - StepsOn(Rest(u, l + m)))
  <2>1. Rest(u, l + m) = <<>> /\ StepsOn(<<>>) = 0
    BY <1>1, NothingOn
  <2>2. Len(q) - 0 = n + 1 /\ n + 1 # 0
    BY <1>4
  <2>3. ShownOf(w, q, n + 1) = c
    BY <1>4, <2>2 DEF ShownOf
  <2> QED
    BY <1>6, <2>1, <2>2, <2>3 DEF u
<1>11. SUFFICES ASSUME NEW k \in 0 .. Len(u), ~MidStep(Rest(u, k))
                PROVE  CopyFrom(Heard(v, u, k), str) = ShownOf(w, q, Len(q) - StepsOn(Rest(u, k)))
  BY DEF UpToDate, u, q
<1>12. k \in 0 .. l \/ (k - l \in 1 .. m - 1 /\ l + (k - l) = k) \/ k = l + m
  BY <1>1
<1> QED
  BY <1>8, <1>9, <1>10, <1>11, <1>12

\* The last of some numbers.
LEMMA LargestEnd ==
    ASSUME NEW n \in Nat, NEW ends, ends \subseteq 1 .. n, ends # {}
    PROVE  Max(ends) \in ends /\ \A y \in ends : Max(ends) >= y
<1>1. IsFiniteSet(ends)
  <2>1. IsFiniteSet(1 .. n)
    BY FS_Interval
  <2> QED
    BY <2>1, FS_Subset
<1> DEFINE g == [y \in ends |-> y]
<1>2. \A y \in ends : g[y] = y /\ g[y] \in Int
  OBVIOUS
<1> HIDE DEF g
<1>3. PICK z \in ends : \A y \in ends : g[y] <= g[z]
  BY <1>1, <1>2, LargestOf
<1>4. ASSUME NEW y \in ends PROVE z >= y
  <2>1. g[y] = y /\ g[z] = z /\ g[y] <= g[z] /\ y \in Int /\ z \in Int
    BY <1>2, <1>3
  <2> QED
    BY <2>1
<1> QED
  BY <1>4 DEF Max

\* The ends of steps among the first n messages.
Ends(s, n) == {k \in 1 .. n : ~MidStep(Rest(s, k))}

\* The copy of the last of them, and how many that were published are no longer pending.
TakenUp(v, s, w, str, n) ==
    IF Ends(s, n) = {} THEN w ELSE CopyFrom(Heard(v, s, Max(Ends(s, n))), str)

Passed(s, p, n) == Len(p) - StepsOn(Rest(s, n))

\* A frame: the copy that is shown goes on to a later one.
LEMMA UpToDateShown ==
    ASSUME NEW v, NEW s, NEW w, NEW p, NEW str, Listed(s), UpToDate(v, s, w, p, str),
           Listed(p), Len(p) = StepsOn(s), NEW n \in 1 .. Len(s)
    PROVE  LET d  == Passed(s, p, n)
               w2 == TakenUp(v, s, w, str, n)
           IN  /\ d \in 0 .. Len(p) /\ w2 = ShownOf(w, p, d)
               /\ Listed(Rest(p, d)) /\ Len(Rest(p, d)) = StepsOn(Rest(s, n))
               /\ UpToDate(Heard(v, s, n), Rest(s, n), w2, Rest(p, d), str)
<1> DEFINE ends == Ends(s, n)
           w2 == TakenUp(v, s, w, str, n)
           d == Passed(s, p, n)
           q == Rest(p, d)
<1>0. /\ ends = {k \in 1 .. n : ~MidStep(Rest(s, k))}
      /\ w2 = IF ends = {} THEN w ELSE CopyFrom(Heard(v, s, Max(ends)), str)
      /\ d = Len(p) - StepsOn(Rest(s, n)) /\ q = Rest(p, d)
  BY DEF Ends, TakenUp, Passed
<1> HIDE DEF ends, w2, d, q
<1> USE <1>0
<1> DEFINE l == Len(s)
           S(k) == StepsOn(Rest(s, k))
           M(k) == MidStep(Rest(s, k))
           m == Len(p)
<1>1. l \in Nat /\ n \in 0 .. l /\ n \in 1 .. l /\ 0 \in 0 .. l
  BY RestListed
<1>2. m \in Nat /\ \A k \in 0 .. l : S(k) \in 0 .. m
  <2>1. ASSUME NEW k \in 0 .. Len(s) PROVE S(k) \in 0 .. StepsOn(s)
    BY StepsBounded
  <2> QED
    BY <2>1, StepsType
<1>3. S(0) = m
  <2>1. Listed(Rest(s, 0)) /\ Len(Rest(s, 0)) = Len(s)
        /\ \A i \in 1 .. Len(s) : Rest(s, 0)[i] = s[i]
    BY <1>1, RestListed
  <2>2. Rest(s, 0) = s
    BY <2>1, SameListed
  <2> QED
    BY <2>2
<1>4. \A k \in 0 .. l : ~M(k) => CopyFrom(Heard(v, s, k), str) = ShownOf(w, p, m - S(k))
  BY DEF UpToDate
<1>5. ASSUME NEW k \in 0 .. n, \A i \in k + 1 .. n : M(i) PROVE S(n) = S(k)
  <2>1. k \in 0 .. l /\ k <= n
    BY <1>1
  <2> QED
    BY <1>1, <1>5, <2>1, StepsLater
<1>6. ASSUME NEW k \in 0 .. l, n <= k PROVE S(k) <= S(n)
  BY <1>1, <1>6, StepsLater
<1>7. d = m - S(n) /\ d \in 0 .. m
  BY <1>1, <1>2
<1>8. Listed(q) /\ Len(q) = m - d /\ \A i \in 1 .. m - d : q[i] = p[d + i]
  BY <1>7, RestListed
<1> HIDE DEF S, M, l, m
<1>9. Len(q) = S(n)
  BY <1>1, <1>2, <1>7, <1>8
<1>10. ends \subseteq 1 .. n /\ \A k \in 1 .. n : k \in ends <=> ~M(k)
  BY DEF M
<1>11. w2 = ShownOf(w, p, d)
  <2>1. CASE ends = {}
    <3>1. \A i \in 0 + 1 .. n : M(i)
      BY <1>10, <2>1
    <3>2. 0 \in 0 .. n
      BY <1>1
    <3>3. S(n) = S(0)
      BY <1>5, <3>1, <3>2
    <3>4. d = 0
      BY <1>2, <1>3, <1>7, <3>3
    <3> QED
      BY <2>1, <3>4 DEF ShownOf
  <2>2. CASE ends # {}
    <3> DEFINE x == Max(ends)
    <3>1. x \in ends /\ \A y \in ends : x >= y
      <4>1. n \in Nat /\ ends \subseteq 1 .. n
        BY <1>1, <1>10
      <4> QED
        BY <2>2, <4>1, LargestEnd
    <3> HIDE DEF x
    <3>2. x \in 1 .. n /\ ~M(x)
      BY <1>10, <3>1
    <3>3. \A i \in x + 1 .. n : M(i)
      <4>1. ASSUME NEW i \in x + 1 .. n, ~M(i) PROVE FALSE
        <5>1. i \in 1 .. n /\ ~(x >= i)
          BY <1>1, <3>2
        <5> QED
          BY <1>10, <3>1, <4>1, <5>1
      <4> QED
        BY <4>1
    <3>4. x \in 0 .. n /\ x \in 0 .. l
      BY <1>1, <3>2
    <3>5. S(n) = S(x)
      BY <1>5, <3>3, <3>4
    <3> QED
      BY <1>4, <1>7, <2>2, <3>2, <3>4, <3>5 DEF x
  <2> QED
    BY <2>1, <2>2
<1>12. UpToDate(Heard(v, s, n), Rest(s, n), w2, q, str)
  <2>1. SUFFICES ASSUME NEW k \in 0 .. Len(Rest(s, n)), ~MidStep(Rest(Rest(s, n), k))
                 PROVE  CopyFrom(Heard(Heard(v, s, n), Rest(s, n), k), str)
                          = ShownOf(w2, q, Len(q) - StepsOn(Rest(Rest(s, n), k)))
    BY DEF UpToDate
  <2>2. Len(Rest(s, n)) = l - n /\ \A i \in 1 .. l - n : Rest(s, n)[i] = s[n + i]
    BY <1>1, RestListed DEF l
  <2>3. k \in 0 .. l - n /\ k \in Nat /\ n \in Nat
    BY <1>1, <2>2
  <2>4. Rest(Rest(s, n), k) = Rest(s, n + k) /\ n + k \in 0 .. l /\ n <= n + k
    BY <1>1, <2>3, RestOfRest DEF l
  <2>5. Heard(Heard(v, s, n), Rest(s, n), k) = Heard(v, s, n + k)
    <3> DEFINE r == Rest(s, n)
    <3>1. \A i \in 1 .. k : i \in 1 .. l - n
      BY <1>1, <2>3
    <3>2. \A i \in 1 .. k : r[i] = s[n + i]
      BY <2>2, <3>1
    <3> HIDE DEF r
    <3>3. Heard(v, s, n + k) = Heard(Heard(v, s, n), r, k)
      BY <2>3, <3>2, HeardOn
    <3> QED
      BY <3>3 DEF r
  <2>6. StepsOn(Rest(Rest(s, n), k)) = S(n + k) /\ ~M(n + k)
    BY <2>1, <2>4 DEF S, M
  <2>7. CopyFrom(Heard(v, s, n + k), str) = ShownOf(w, p, m - S(n + k))
    BY <1>4, <2>4, <2>6
  <2> DEFINE i == S(n) - S(n + k)
  <2>8. i \in 0 .. m - d /\ d + i = m - S(n + k)
    BY <1>1, <1>2, <1>6, <1>7, <2>4
  <2> HIDE DEF i
  <2>9. ShownOf(w2, q, i) = ShownOf(w, p, d + i)
    <3>1. CASE i = 0
      <4>1. d + i = d
        BY <1>7, <3>1
      <4> QED
        BY <1>11, <3>1, <4>1 DEF ShownOf
    <3>2. CASE i # 0
      <4>1. i \in 1 .. m - d /\ d + i # 0
        BY <1>7, <2>8, <3>2
      <4> QED
        BY <1>8, <3>2, <4>1 DEF ShownOf
    <3> QED
      BY <3>1, <3>2
  <2> QED
    BY <1>9, <2>5, <2>6, <2>7, <2>8, <2>9 DEF i
<1> QED
  BY <1>7, <1>8, <1>9, <1>11, <1>12 DEF S, m, w2, d, q

(***************************************************************************)
(* What a client knows when it has heard everything.                       *)
(***************************************************************************)
UnitTold(o, t, h, a, c) == [owner |-> o, type |-> t, hp |-> h, attacking |-> a, carried |-> c]

BuildingTold(o, t, h, b, q, p) ==
    [owner |-> o, type |-> t, hp |-> h, built |-> b, queue |-> q, producing |-> p]

\* Told, whoever me is.
ToldTo(p, o) ==
    IF IsUnit(o)
      THEN UnitTold(o.owner, o.type, o.hp, o.attacking, IF o.owner = p THEN o.carried ELSE 0)
      ELSE BuildingTold(o.owner, o.type, o.hp, o.built, IF o.owner = p THEN o.queue ELSE <<>>,
                        o.owner = p /\ o.production > 0)

\* e is what player p is to have of map f, of which it knows the objects k, with the
\* strays str.
Holds(e, f, k, str, p, r, h) ==
    /\ HasMap(e) /\ DOMAIN e.objects = k
    /\ k \subseteq DOMAIN f \cup str /\ str \cap DOMAIN f = {}
    /\ \A id \in k \cap DOMAIN f : e.objects[id] = ToldTo(p, f[id])
    /\ e.resources = r /\ e.housed = h

\* e is right before the step, and after it.
Accurate(e)     == Holds(e, objects, known[me], strays, me, lastResources, wasHoused)
AccurateNext(e) == Holds(e, objects', known'[me], strays, me, lastResources, wasHoused)

\* The messages of a step say all there is to say.
Conveys(msgs) ==
    /\ Spoken(msgs)
    /\ me \in connected' => \A e : Accurate(e) => AccurateNext(Hears(e, msgs))

\* d is e, but for object u, which is w if it is there.
Turned(e, d, u, w) ==
    /\ HasMap(d) /\ DOMAIN d.objects = DOMAIN e.objects
    /\ \A id \in DOMAIN e.objects : d.objects[id] = IF id = u THEN w ELSE e.objects[id]
    /\ d.resources = e.resources /\ d.housed = e.housed

\* Told is what me is told.
LEMMA ToldIs == \A o : Told(o) = ToldTo(me, o)
BY DEF Told, ToldTo, UnitTold, BuildingTold

\* A message about an object changes that object only.
LEMMA DetailTurns ==
    ASSUME NEW e, HasMap(e), NEW m, m.type \in Details
    PROVE  Turned(e, Hears(e, <<m>>), m.id, Detailed(e.objects[m.id], m))
<1> DEFINE f == e.objects
           d == Hear(e, m)
<1>1. Hears(e, <<m>>) = d /\ HasMap(d)
  BY HearsAlone, HearsMap
<1>2. /\ d.objects = [id \in DOMAIN f |-> IF id = m.id THEN Detailed(f[id], m) ELSE f[id]]
      /\ d.resources = e.resources /\ d.housed = e.housed
  BY HearIs, DetailMapped DEF Details, ObjectMessages
<1> HIDE DEF f, d
<1>3. DOMAIN d.objects = DOMAIN f
  BY <1>2
<1>4. \A id \in DOMAIN f : d.objects[id] = IF id = m.id THEN Detailed(f[m.id], m) ELSE f[id]
  BY <1>2
<1> QED
  BY <1>1, <1>2, <1>3, <1>4 DEF Turned, f

\* No message changes none.
LEMMA NothingTurns ==
    ASSUME NEW e, HasMap(e), NEW u
    PROVE  Turned(e, Hears(e, <<>>), u, e.objects[u])
BY HearsAlone DEF Turned

\* The last of two changes counts.
LEMMA TurnsTwice ==
    ASSUME NEW e, NEW d, NEW c, NEW u, NEW w, NEW x, Turned(e, d, u, w), Turned(d, c, u, x)
    PROVE  Turned(e, c, u, x)
BY DEF Turned

\* What the messages make of what was told of a unit.
LEMMA UnitDetails ==
    ASSUME NEW o, NEW t, NEW h, NEW a, NEW c, NEW id, NEW x
    PROVE  LET w == UnitTold(o, t, h, a, c)
           IN  /\ Detailed(w, Message("ChangeUnitType", id, x)) = UnitTold(o, x, h, a, c)
               /\ Detailed(w, Message("UnitMovement", id, x)) = UnitTold(o, t, h, x, c)
               /\ Detailed(w, Message("HPUpdate", id, x)) = UnitTold(o, t, x, a, c)
               /\ Detailed(w, Message("SetCarriedResources", id, x)) = UnitTold(o, t, h, a, x)
BY DEF Detailed, Message, UnitTold

\* What the messages make of what was told of a building.
LEMMA BuiltDetail ==
    ASSUME NEW o, NEW t, NEW h, NEW b, NEW q, NEW p, NEW id, NEW x
    PROVE  Detailed(BuildingTold(o, t, h, b, q, p), Message("BuildPercentageUpdate", id, x))
             = BuildingTold(o, t, h, x, q, p)
BY DEF Detailed, Message, BuildingTold

\* The same of its hit points.
LEMMA DamageDetail ==
    ASSUME NEW o, NEW t, NEW h, NEW b, NEW q, NEW p, NEW id, NEW x
    PROVE  Detailed(BuildingTold(o, t, h, b, q, p), Message("HPUpdate", id, x))
             = BuildingTold(o, t, x, b, q, p)
BY DEF Detailed, Message, BuildingTold

\* The same of its queue.
LEMMA QueueDetail ==
    ASSUME NEW o, NEW t, NEW h, NEW b, NEW q, NEW p, NEW id, NEW x
    PROVE  Detailed(BuildingTold(o, t, h, b, q, p), Message("QueueUnit", id, x))
             = BuildingTold(o, t, h, b, Append(q, x), p)
BY DEF Detailed, Message, BuildingTold

\* The same of a unit that is taken out of the queue behind the first.
LEMMA RemovalDetail ==
    ASSUME NEW o, NEW t, NEW h, NEW b, NEW q, NEW p, NEW id, NEW x, ~(x > Len(q)), x # 1
    PROVE  Detailed(BuildingTold(o, t, h, b, q, p), Message("RemoveFromProductionQueue", id, x))
             = BuildingTold(o, t, h, b, RemoveAt(q, x), p)
BY DEF Detailed, Message, BuildingTold

\* What is said of the type of a unit, of its action and of its load.
LEMMA TypeSaid ==
    ASSUME NEW e, HasMap(e), NEW u, NEW o, NEW h, NEW a, NEW c,
           u \in DOMAIN e.objects => e.objects[u] = UnitTold(o, objects[u].type, h, a, c)
    PROVE  Turned(e, Hears(e, ChangeUnitType(u)), u, UnitTold(o, objects'[u].type, h, a, c))
<1> DEFINE m == Message("ChangeUnitType", u, objects'[u].type)
<1>1. CASE objects'[u].type = objects[u].type
  <2>1. Turned(e, Hears(e, <<>>), u, e.objects[u])
    BY NothingTurns
  <2> QED
    BY <1>1, <2>1 DEF ChangeUnitType, Turned
<1>2. CASE objects'[u].type # objects[u].type
  <2>1. m.type \in Details /\ m.id = u
    BY DEF Message, Details, ObjectMessages
  <2>2. Detailed(UnitTold(o, objects[u].type, h, a, c), m) = UnitTold(o, objects'[u].type, h, a, c)
    BY UnitDetails
  <2>3. ChangeUnitType(u) = <<m>>
    BY <1>2 DEF ChangeUnitType
  <2> HIDE DEF m
  <2>4. Turned(e, Hears(e, <<m>>), u, Detailed(e.objects[u], m))
    BY <2>1, DetailTurns
  <2> QED
    BY <2>2, <2>3, <2>4 DEF Turned
<1> QED
  BY <1>1, <1>2

\* What is said of its action.
LEMMA MovementSaid ==
    ASSUME NEW e, HasMap(e), NEW u, NEW o, NEW t, NEW h, NEW c,
           u \in DOMAIN e.objects => e.objects[u] = UnitTold(o, t, h, objects[u].attacking, c)
    PROVE  Turned(e, Hears(e, UnitMovement(u)), u, UnitTold(o, t, h, objects'[u].attacking, c))
<1> DEFINE m == Message("UnitMovement", u, objects'[u].attacking)
<1>1. CASE objects'[u].attacking = objects[u].attacking
  <2>1. Turned(e, Hears(e, <<>>), u, e.objects[u])
    BY NothingTurns
  <2> QED
    BY <1>1, <2>1 DEF UnitMovement, Turned
<1>2. CASE objects'[u].attacking # objects[u].attacking
  <2>1. m.type \in Details /\ m.id = u
    BY DEF Message, Details, ObjectMessages
  <2>2. Detailed(UnitTold(o, t, h, objects[u].attacking, c), m)
          = UnitTold(o, t, h, objects'[u].attacking, c)
    BY UnitDetails
  <2>3. UnitMovement(u) = <<m>>
    BY <1>2 DEF UnitMovement
  <2> HIDE DEF m
  <2>4. Turned(e, Hears(e, <<m>>), u, Detailed(e.objects[u], m))
    BY <2>1, DetailTurns
  <2> QED
    BY <2>2, <2>3, <2>4 DEF Turned
<1> QED
  BY <1>1, <1>2

\* What is said of its load.
LEMMA LoadSaid ==
    ASSUME NEW e, HasMap(e), NEW u, NEW o, NEW t, NEW h, NEW a,
           u \in DOMAIN e.objects =>
             e.objects[u] = UnitTold(o, t, h, a, IF objects[u].owner = me THEN objects[u].carried ELSE 0)
    PROVE  Turned(e, Hears(e, SetCarriedResources(u)), u,
                  UnitTold(o, t, h, a, IF objects[u].owner = me THEN objects'[u].carried ELSE 0))
<1> DEFINE m == Message("SetCarriedResources", u, objects'[u].carried)
<1>1. CASE objects[u].owner # me
  <2>1. Turned(e, Hears(e, <<>>), u, e.objects[u])
    BY NothingTurns
  <2>2. SetCarriedResources(u) = <<>>
    BY <1>1 DEF SetCarriedResources, ToOwner
  <2> QED
    BY <1>1, <2>1, <2>2 DEF Turned
<1>2. CASE objects[u].owner = me
  <2>1. m.type \in Details /\ m.id = u
    BY DEF Message, Details, ObjectMessages
  <2>2. Detailed(UnitTold(o, t, h, a, objects[u].carried), m)
          = UnitTold(o, t, h, a, objects'[u].carried)
    BY UnitDetails
  <2>3. SetCarriedResources(u) = <<m>>
    BY <1>2 DEF SetCarriedResources, ToOwner
  <2> HIDE DEF m
  <2>4. Turned(e, Hears(e, <<m>>), u, Detailed(e.objects[u], m))
    BY <2>1, DetailTurns
  <2> QED
    BY <1>2, <2>2, <2>3, <2>4 DEF Turned
<1> QED
  BY <1>1, <1>2

\* One object is another one now, and that is what the client has heard.
LEMMA TurnedRight ==
    ASSUME NEW e, Accurate(e), NEW d, NEW u \in DOMAIN objects, NEW w, Turned(e, d, u, w),
           DOMAIN objects' = DOMAIN objects,
           \A i \in DOMAIN objects \ {u} : objects'[i] = objects[i],
           known'[me] = known[me], w = ToldTo(me, objects'[u])
    PROVE  AccurateNext(d)
<1>1. /\ HasMap(d) /\ DOMAIN d.objects = known'[me]
      /\ known'[me] \subseteq DOMAIN objects' \cup strays /\ strays \cap DOMAIN objects' = {}
      /\ d.resources = lastResources /\ d.housed = wasHoused
  BY DEF Accurate, Holds, Turned
<1>2. ASSUME NEW id \in known'[me] \cap DOMAIN objects' PROVE d.objects[id] = ToldTo(me, objects'[id])
  <2>1. id \in DOMAIN e.objects /\ e.objects[id] = ToldTo(me, objects[id])
    BY <1>2 DEF Accurate, Holds
  <2> QED
    BY <1>2, <2>1 DEF Turned
<1> QED
  BY <1>1, <1>2 DEF AccurateNext, Holds

\* What is said when a unit has become another one.
LEMMA OneConveys ==
    ASSUME NEW u, OneBecomes(u), known'[me] = known[me], NEW load,
           \/ load = <<>> /\ objects'[u].carried = objects[u].carried
           \/ load = SetCarriedResources(u)
    PROVE  Conveys((load \o ChangeUnitType(u)) \o UnitMovement(u))
<1> DEFINE o  == objects[u]
           v  == objects'[u]
           C(x) == IF o.owner = me THEN x.carried ELSE 0
           T  == ChangeUnitType(u)
           M  == UnitMovement(u)
<1>1. Spoken(load) /\ Spoken(T) /\ Spoken(M)
  BY MessagesSpoken, SpokenAlone
<1>2. Spoken(load \o T)
  BY <1>1, SpokenTogether
<1>3. Spoken((load \o T) \o M)
  BY <1>1, <1>2, SpokenTogether
<1>4. u \in DOMAIN objects /\ IsUnit(o) /\ v.owner = o.owner /\ v.hp = o.hp /\ IsUnit(v)
  BY DEF OneBecomes, SameTrade, Units, IsUnit
<1>5. /\ ToldTo(me, o) = UnitTold(o.owner, o.type, o.hp, o.attacking, C(o))
      /\ ToldTo(me, v) = UnitTold(o.owner, v.type, o.hp, v.attacking, C(v))
  BY <1>4 DEF ToldTo
<1>6. ASSUME NEW e, Accurate(e) PROVE AccurateNext(Hears(e, (load \o T) \o M))
  <2> DEFINE d1 == Hears(e, load)
             d2 == Hears(d1, T)
             d3 == Hears(d2, M)
  <2>1. Hears(e, (load \o T) \o M) = d3
    <3>1. Listed(load) /\ Listed(T) /\ Listed(M) /\ Listed(load \o T)
      BY <1>1, <1>2 DEF Spoken
    <3> HIDE DEF T, M
    <3>2. Hears(e, load \o T) = d2
      BY <3>1, HearsTogether
    <3> HIDE DEF d2
    <3> QED
      BY <3>1, <3>2, HearsTogether
  <2>2. HasMap(e) /\ (u \in DOMAIN e.objects => e.objects[u] = ToldTo(me, o))
    BY <1>4, <1>6 DEF Accurate, Holds
  <2>3. Turned(e, d1, u, UnitTold(o.owner, o.type, o.hp, o.attacking, C(v)))
    <3>1. CASE load = <<>> /\ v.carried = o.carried
      <4>1. Turned(e, d1, u, e.objects[u])
        BY <2>2, <3>1, NothingTurns
      <4> QED
        BY <1>5, <2>2, <3>1, <4>1 DEF Turned
    <3>2. CASE load = SetCarriedResources(u)
      BY <1>5, <2>2, <3>2, LoadSaid
    <3> QED
      BY <3>1, <3>2
  <2> DEFINE w1 == UnitTold(o.owner, o.type, o.hp, o.attacking, C(v))
             w2 == UnitTold(o.owner, v.type, o.hp, o.attacking, C(v))
             w3 == UnitTold(o.owner, v.type, o.hp, v.attacking, C(v))
  <2>4. HasMap(d1) /\ (u \in DOMAIN d1.objects => d1.objects[u] = w1)
    BY <2>3 DEF Turned
  <2> HIDE DEF d1, C
  <2>5. Turned(d1, d2, u, w2)
    BY <2>4, TypeSaid
  <2>6. HasMap(d2) /\ (u \in DOMAIN d2.objects => d2.objects[u] = w2)
    BY <2>5 DEF Turned
  <2> HIDE DEF d2
  <2>7. Turned(d2, d3, u, w3)
    BY <2>6, MovementSaid
  <2> HIDE DEF d3, w1, w2, w3
  <2>8. Turned(e, d3, u, w3)
    BY <2>3, <2>5, <2>7, TurnsTwice DEF w1
  <2>9. w3 = ToldTo(me, v)
    BY <1>5 DEF w3
  <2> QED
    BY <1>4, <1>6, <2>1, <2>8, <2>9, TurnedRight DEF OneBecomes
<1> QED
  BY <1>3, <1>6 DEF Conveys

\* Nothing is said, and nothing has changed that anybody is told of.
LEMMA NothingConveys ==
    ASSUME known'[me] = known[me] \/ me \notin connected', DOMAIN objects' = DOMAIN objects,
           \A id \in DOMAIN objects : ToldTo(me, objects'[id]) = ToldTo(me, objects[id])
    PROVE  Conveys(<<>>)
<1>1. Spoken(<<>>)
  BY SpokenAlone
<1>2. ASSUME me \in connected', NEW e, Accurate(e) PROVE AccurateNext(Hears(e, <<>>))
  <2>1. Hears(e, <<>>) = e
    BY HearsAlone
  <2> QED
    BY <1>2, <2>1 DEF Accurate, AccurateNext, Holds
<1> QED
  BY <1>1, <1>2 DEF Conveys

\* One detail of one object.
LEMMA DetailConveys ==
    ASSUME NEW m, m.type \in Details, NEW u \in DOMAIN objects, m.id = u,
           DOMAIN objects' = DOMAIN objects,
           \A i \in DOMAIN objects \ {u} : ToldTo(me, objects'[i]) = ToldTo(me, objects[i]),
           known'[me] = known[me],
           ToldTo(me, objects'[u]) = Detailed(ToldTo(me, objects[u]), m)
    PROVE  Conveys(<<m>>)
<1>1. Spoken(<<m>>)
  BY SpokenAlone DEF NewsTypes, Details
<1>2. ASSUME NEW e, Accurate(e) PROVE AccurateNext(Hears(e, <<m>>))
  <2> DEFINE d == Hears(e, <<m>>)
  <2>1. HasMap(e)
    BY <1>2 DEF Accurate, Holds
  <2>2. Turned(e, d, u, Detailed(e.objects[u], m))
    BY <2>1, DetailTurns
  <2> HIDE DEF d
  <2>3. /\ HasMap(d) /\ DOMAIN d.objects = known'[me]
        /\ known'[me] \subseteq DOMAIN objects' \cup strays /\ strays \cap DOMAIN objects' = {}
        /\ d.resources = lastResources /\ d.housed = wasHoused
    BY <1>2, <2>2 DEF Accurate, Holds, Turned
  <2>4. ASSUME NEW id \in known'[me] \cap DOMAIN objects' PROVE d.objects[id] = ToldTo(me, objects'[id])
    <3>1. id \in DOMAIN e.objects /\ e.objects[id] = ToldTo(me, objects[id])
      BY <1>2, <2>4 DEF Accurate, Holds
    <3> QED
      BY <2>2, <2>4, <3>1 DEF Turned
  <2> QED
    BY <2>3, <2>4 DEF AccurateNext, Holds, d
<1> QED
  BY <1>1, <1>2 DEF Conveys

\* d is e with the new object id, which is v.
Gains(e, d, id, v) ==
    /\ HasMap(d) /\ DOMAIN d.objects = DOMAIN e.objects \cup {id} /\ d.objects[id] = v
    /\ \A i \in DOMAIN e.objects \ {id} : d.objects[i] = e.objects[i]
    /\ d.resources = e.resources /\ d.housed = e.housed

\* d is e without object id.
Loses(e, d, id) ==
    /\ HasMap(d) /\ DOMAIN d.objects = DOMAIN e.objects \ {id}
    /\ \A i \in DOMAIN e.objects \ {id} : d.objects[i] = e.objects[i]
    /\ d.resources = e.resources /\ d.housed = e.housed

\* A new object is added.
LEMMA AddHeard ==
    ASSUME NEW e, HasMap(e), NEW id, NEW v
    PROVE  Gains(e, Hears(e, <<Message("AddObject", id, v)>>), id, v)
<1> DEFINE m == Message("AddObject", id, v)
           d == Hears(e, <<m>>)
           f == e.objects
<1>1. m.type = "AddObject" /\ m.id = id /\ m.value = v
  BY DEF Message
<1> HIDE DEF m, f, d
<1>2. Mapped(f, m) = [i \in DOMAIN f \cup {id} |-> IF i = id THEN v ELSE f[i]]
  BY <1>1 DEF Mapped, Details, ObjectMessages
<1>3. d = Hear(e, m) /\ HasMap(d)
  BY HearsAlone, HearsMap DEF d
<1>4. d.objects = Mapped(f, m) /\ d.resources = e.resources /\ d.housed = e.housed
  BY <1>1, <1>3, HearIs DEF f
<1> QED
  BY <1>2, <1>3, <1>4 DEF f, d, m, Gains

\* An object is removed.
LEMMA DeathHeard ==
    ASSUME NEW e, HasMap(e), NEW id
    PROVE  Loses(e, Hears(e, <<Message("ObjectDeath", id, TRUE)>>), id)
<1> DEFINE m == Message("ObjectDeath", id, TRUE)
           d == Hears(e, <<m>>)
           f == e.objects
<1>1. m.type = "ObjectDeath" /\ m.id = id
  BY DEF Message
<1> HIDE DEF m, f, d
<1>2. d = Hear(e, m) /\ HasMap(d)
  BY HearsAlone, HearsMap DEF d
<1>3. Mapped(f, m) = [i \in DOMAIN f \ {id} |-> f[i]]
  BY <1>1 DEF Mapped, Details, ObjectMessages
<1>4. d.objects = Mapped(f, m) /\ d.resources = e.resources /\ d.housed = e.housed
  BY <1>1, <1>2, HearIs DEF f
<1> QED
  BY <1>2, <1>3, <1>4 DEF f, d, m, Loses

\* A building is told of as a building, and a unit as a unit.
LEMMA ToldKinds ==
    ASSUME NEW o
    PROVE  /\ IsUnit(o) => ToldTo(me, o) = UnitTold(o.owner, o.type, o.hp, o.attacking,
                                                    IF o.owner = me THEN o.carried ELSE 0)
           /\ IsBuilding(o) => ToldTo(me, o) =
                BuildingTold(o.owner, o.type, o.hp, o.built,
                             IF o.owner = me THEN o.queue ELSE <<>>, o.owner = me /\ o.production > 0)
BY TypesDisjoint DEF ToldTo, IsUnit, IsBuilding

\* What is told of a building.
LEMMA BuildingsTold ==
    ASSUME NEW o, IsBuilding(o)
    PROVE  /\ o.owner = me =>
                ToldTo(me, o) = BuildingTold(o.owner, o.type, o.hp, o.built, o.queue, o.production > 0)
           /\ o.owner # me =>
                ToldTo(me, o) = BuildingTold(o.owner, o.type, o.hp, o.built, <<>>, FALSE)
<1>1. ToldTo(me, o) = BuildingTold(o.owner, o.type, o.hp, o.built,
             IF o.owner = me THEN o.queue ELSE <<>>, o.owner = me /\ o.production > 0)
  BY ToldKinds
<1>2. CASE o.owner = me
  <2>1. (o.owner = me /\ o.production > 0) = (o.production > 0)
    BY <1>2
  <2> QED
    BY <1>1, <1>2, <2>1
<1>3. CASE o.owner # me
  <2>1. (o.owner = me /\ o.production > 0) = FALSE
    BY <1>3
  <2> QED
    BY <1>1, <1>3, <2>1
<1> QED
  BY <1>2, <1>3

\* What is said of a building to its owner only.
LEMMA OwnerConveys ==
    ASSUME NEW b \in DOMAIN objects, NEW m, m.type \in Details, m.id = b,
           DOMAIN objects' = DOMAIN objects,
           \A i \in DOMAIN objects \ {b} : objects'[i] = objects[i],
           known'[me] = known[me],
           IF objects[b].owner = me THEN ToldTo(me, objects'[b]) = Detailed(ToldTo(me, objects[b]), m)
                                    ELSE ToldTo(me, objects'[b]) = ToldTo(me, objects[b])
    PROVE  Conveys(ToOwner(objects[b], <<m>>))
<1>1. CASE objects[b].owner = me
  <2>1. Conveys(<<m>>)
    BY <1>1, DetailConveys
  <2> QED
    BY <1>1, <2>1 DEF ToOwner
<1>2. CASE objects[b].owner # me
  <2>1. \A i \in DOMAIN objects : ToldTo(me, objects'[i]) = ToldTo(me, objects[i])
    BY <1>2
  <2>2. Conveys(<<>>)
    BY <2>1, NothingConveys
  <2> QED
    BY <1>2, <2>2 DEF ToOwner
<1> QED
  BY <1>1, <1>2

\* The type of one unit.
LEMMA TypeConveys ==
    ASSUME NEW u, OneBecomes(u), known'[me] = known[me],
           objects'[u].carried = objects[u].carried, objects'[u].attacking = objects[u].attacking
    PROVE  Conveys(ChangeUnitType(u))
<1> DEFINE T == ChangeUnitType(u)
<1>1. Conveys((<<>> \o T) \o UnitMovement(u))
  BY OneConveys
<1>2. UnitMovement(u) = <<>>
  BY DEF UnitMovement
<1>3. T \in Seq(Elements(T))
  BY MessagesSpoken DEF Spoken, Listed
<1> HIDE DEF T
<1>4. (<<>> \o T) \o <<>> = T
  BY <1>3
<1> QED
  BY <1>1, <1>2, <1>4 DEF T

\* The commands.
LEMMA MoveConveys ==
    ASSUME MatchInv, BooksOK, NEW p \in Players, NEW u, HandleMoveToMapCoord(p, u)
    PROVE  Conveys(<<>>)
<1> DEFINE v == [objects[u] EXCEPT !.moving = TRUE, !.target = NoObject, !.manual = NoObject]
<1>1. /\ u \in DOMAIN objects /\ IsUnit(objects[u]) /\ objects' = [objects EXCEPT ![u] = v]
      /\ known' = known
  BY DEF HandleMoveToMapCoord, OwnUnit
<1>2. objects[u] \in Units
  BY <1>1, Kinds DEF MatchInv, MapInv, MapOK
<1>3. /\ v.owner = objects[u].owner /\ v.type = objects[u].type /\ v.hp = objects[u].hp
      /\ v.attacking = objects[u].attacking /\ v.carried = objects[u].carried
  BY <1>2 DEF Units
<1> HIDE DEF v
<1>4. ToldTo(me, v) = ToldTo(me, objects[u])
  BY <1>1, <1>3 DEF ToldTo, IsUnit
<1>5. DOMAIN objects' = DOMAIN objects
      /\ \A i \in DOMAIN objects : ToldTo(me, objects'[i]) = ToldTo(me, objects[i])
  BY <1>1, <1>4
<1> QED
  BY <1>1, <1>5, NothingConveys

\* A unit that is sent to a target may change its type.
LEMMA TargetConveys ==
    ASSUME MatchInv, BooksOK, NEW p \in Players, NEW u \in DOMAIN objects, NEW t \in DOMAIN objects,
           HandleSetTarget(p, u, t)
    PROVE  Conveys(ChangeUnitType(u))
<1> DEFINE v == SetTarget(objects[u], t, TRUE)
<1>1. objects' = [objects EXCEPT ![u] = v] /\ IsUnit(objects[u]) /\ known' = known
  BY DEF HandleSetTarget, OwnUnit
<1>2. MapInv /\ MapOK /\ objects[u] \in Units
  BY <1>1, Kinds DEF MatchInv, MapInv, MapOK
<1>3. v \in Units
  BY <1>1, <1>2, UnitFits, SetTargetFits DEF Fits
<1>4. /\ SameTrade(objects[u], v) /\ v.carried = objects[u].carried
      /\ v.attacking = objects[u].attacking
  <2> DEFINE o == objects[u]
  <2>1. o \in Units /\ SetTarget(o, t, TRUE) \in Units
    BY <1>2, <1>3
  <2> HIDE DEF o
  <2>2. /\ SameTrade(o, SetTarget(o, t, TRUE)) /\ SetTarget(o, t, TRUE).carried = o.carried
        /\ SetTarget(o, t, TRUE).attacking = o.attacking
    BY <2>1, SentKeepsTrade
  <2> QED
    BY <2>2 DEF o
<1> HIDE DEF v
<1>5. OneBecomes(u) /\ objects'[u] = v
  BY <1>1, <1>4 DEF OneBecomes
<1> QED
  BY <1>1, <1>4, <1>5, TypeConveys

\* Only the owner is told what is queued.
LEMMA ProduceConveys ==
    ASSUME MatchInv, BooksOK, NEW p \in Players, NEW b \in DOMAIN objects, NEW t,
           HandleProduceUnit(p, b, t)
    PROVE  Conveys(ToOwner(objects[b], <<Message("QueueUnit", b, t)>>))
<1> DEFINE o  == objects[b]
           b2 == [o EXCEPT !.queue = Append(o.queue, t)]
           m  == Message("QueueUnit", b, t)
<1>1. objects' = [objects EXCEPT ![b] = b2] /\ IsBuilding(o) /\ known' = known
  BY DEF HandleProduceUnit, OwnBuilding
<1>2. o \in Buildings
  BY <1>1, Kinds DEF MatchInv, MapInv, MapOK
<1>3. /\ b2.owner = o.owner /\ b2.type = o.type /\ b2.hp = o.hp /\ b2.built = o.built
      /\ b2.production = o.production /\ b2.queue = Append(o.queue, t)
  BY <1>2 DEF Buildings
<1>4. m.type \in Details /\ m.id = b
  BY DEF Message, Details, ObjectMessages
<1>5. ASSUME NEW x1, NEW x2, NEW x3, NEW x4, NEW x5, NEW x6
      PROVE  Detailed(BuildingTold(x1, x2, x3, x4, x5, x6), m)
               = BuildingTold(x1, x2, x3, x4, Append(x5, t), x6)
  BY QueueDetail
<1> HIDE DEF o, b2, m
<1>6. IsBuilding(b2)
  BY <1>1, <1>3 DEF IsBuilding
<1>7. IF o.owner = me THEN ToldTo(me, b2) = Detailed(ToldTo(me, o), m)
                      ELSE ToldTo(me, b2) = ToldTo(me, o)
  <2> DEFINE told(q) == BuildingTold(o.owner, o.type, o.hp, o.built, q, o.production > 0)
  <2>1. CASE o.owner = me
    <3>1. ToldTo(me, o) = told(o.queue)
      BY <1>1, <2>1, BuildingsTold
    <3>2. (b2.production > 0) = (o.production > 0)
      BY <1>3
    <3>3. ToldTo(me, b2) = told(Append(o.queue, t))
      BY <1>3, <1>6, <2>1, <3>2, BuildingsTold
    <3>4. Detailed(told(o.queue), m) = told(Append(o.queue, t))
      BY <1>5
    <3> QED
      BY <2>1, <3>1, <3>3, <3>4
  <2>2. CASE o.owner # me
    BY <1>1, <1>3, <1>6, <2>2, BuildingsTold
  <2> QED
    BY <2>1, <2>2
<1>8. /\ DOMAIN objects' = DOMAIN objects /\ objects'[b] = b2
      /\ \A i \in DOMAIN objects \ {b} : objects'[i] = objects[i]
  BY <1>1
<1> QED
  BY <1>1, <1>4, <1>7, <1>8, OwnerConveys DEF m, o

\* Only the owner is told what is taken out of the queue.
LEMMA DequeueConveys ==
    ASSUME MatchInv, BooksOK, NEW p \in Players, NEW b \in DOMAIN objects,
           NEW k \in 0 .. MaxQueue - 1, HandleDequeueProductionQueueItem(p, b, k)
    PROVE  Conveys(ToOwner(objects[b],
             <<Message("RemoveFromProductionQueue", b, Len(objects[b].queue) - k)>>))
<1> DEFINE o  == objects[b]
           n  == Len(o.queue) - k
           b2 == Dequeued(o, n)
           m  == Message("RemoveFromProductionQueue", b, n)
<1>1. objects' = [objects EXCEPT ![b] = b2] /\ IsBuilding(o) /\ known' = known
      /\ k < Len(o.queue)
  BY DEF HandleDequeueProductionQueueItem, OwnBuilding
<1>2. o \in Buildings
  BY <1>1, Kinds DEF MatchInv, MapInv, MapOK
<1>3. /\ b2.owner = o.owner /\ b2.type = o.type /\ b2.hp = o.hp /\ b2.built = o.built
      /\ b2.production = (IF n = 1 THEN 0 ELSE o.production) /\ b2.queue = RemoveAt(o.queue, n)
  BY <1>2 DEF Buildings, Dequeued
<1>4. m.type \in Details /\ m.id = b
  BY DEF Message, Details, ObjectMessages
<1>5. Len(o.queue) \in Nat /\ ~(n > Len(o.queue))
  <2>1. Len(o.queue) \in Nat
    BY <1>2, LenProperties DEF Buildings
  <2> QED
    BY <2>1
<1> HIDE DEF o, b2, m, n
<1>6. IsBuilding(b2)
  BY <1>1, <1>3 DEF IsBuilding
<1>7. m = Message("RemoveFromProductionQueue", b, n)
  BY DEF m
<1>8. IF o.owner = me THEN ToldTo(me, b2) = Detailed(ToldTo(me, o), m)
                      ELSE ToldTo(me, b2) = ToldTo(me, o)
  <2> DEFINE told(q, x) == BuildingTold(o.owner, o.type, o.hp, o.built, q, x)
  <2>1. CASE o.owner = me
    <3>1. ToldTo(me, o) = told(o.queue, o.production > 0)
      BY <1>1, <2>1, BuildingsTold
    <3>2. ToldTo(me, b2) = told(RemoveAt(o.queue, n), b2.production > 0)
      BY <1>3, <1>6, <2>1, BuildingsTold
    <3>3. CASE n = 1
      <4>1. (b2.production > 0) = FALSE
        BY <1>3, <3>3
      <4>2. Detailed(told(o.queue, o.production > 0), m) = told(RemoveAt(o.queue, n), FALSE)
        BY <1>5, <1>7, <3>3 DEF Detailed, Message, BuildingTold
      <4> QED
        BY <2>1, <3>1, <3>2, <4>1, <4>2
    <3>4. CASE n # 1
      <4>1. (b2.production > 0) = (o.production > 0)
        BY <1>3, <3>4
      <4>2. Detailed(told(o.queue, o.production > 0), m)
              = told(RemoveAt(o.queue, n), o.production > 0)
        BY <1>5, <1>7, <3>4, RemovalDetail
      <4> QED
        BY <2>1, <3>1, <3>2, <4>1, <4>2
    <3> QED
      BY <3>3, <3>4
  <2>2. CASE o.owner # me
    BY <1>1, <1>3, <1>6, <2>2, BuildingsTold
  <2> QED
    BY <2>1, <2>2
<1>9. /\ DOMAIN objects' = DOMAIN objects /\ objects'[b] = b2
      /\ \A i \in DOMAIN objects \ {b} : objects'[i] = objects[i]
  BY <1>1
<1> QED
  BY <1>1, <1>4, <1>8, <1>9, OwnerConveys DEF m, n, o

\* A player that leaves changes nothing on the map of the others.
LEMMA GoneConveys ==
    ASSUME MatchInv, BooksOK, me' = me, me \in Players, NEW p \in Players, Resign(p) \/ Drop(p)
    PROVE  Conveys(<<>>)
<1>1. objects' = objects /\ connected' = connected \ {p} /\ known' = [known EXCEPT ![p] = {}]
  BY DEF Resign, Drop, PlayerGone, RemovePlayer
<1>2. known'[me] = known[me] \/ me \notin connected'
  BY <1>1 DEF BooksOK
<1> QED
  BY <1>1, <1>2, NothingConveys

\* The visits that say nothing: an item waits, or goes on.
LEMMA StillConveys ==
    ASSUME objects' = objects, known' = known
    PROVE  Conveys(<<>>)
BY NothingConveys

\* A production that goes on is not told of.
LEMMA ContinueConveys ==
    ASSUME MatchInv, NEW b, ContinueProduction(b)
    PROVE  Conveys(<<>>)
<1> DEFINE o  == objects[b]
           b2 == [o EXCEPT !.production = o.production + 1]
<1>1. /\ b \in todo /\ IsBuilding(o) /\ objects' = [objects EXCEPT ![b] = b2] /\ known' = known
      /\ o.production \in 1 .. ProductionSteps - 2
  BY DEF ContinueProduction, VisitBuilding, Visit
<1>2. b \in DOMAIN objects /\ o \in Buildings
  BY <1>1, Kinds DEF MatchInv, MapInv, MapOK
<1>3. /\ b2.owner = o.owner /\ b2.type = o.type /\ b2.hp = o.hp /\ b2.built = o.built
      /\ b2.production = o.production + 1 /\ b2.queue = o.queue
  BY <1>2 DEF Buildings
<1>4. (b2.production > 0) = (o.production > 0)
  BY <1>1, <1>3, GameAssumption DEF GameAssumption
<1> HIDE DEF o, b2
<1>5. IsBuilding(b2)
  BY <1>1, <1>3 DEF IsBuilding
<1>6. ToldTo(me, b2) = ToldTo(me, o)
  <2>1. CASE o.owner = me
    BY <1>1, <1>3, <1>4, <1>5, <2>1, BuildingsTold
  <2>2. CASE o.owner # me
    BY <1>1, <1>3, <1>5, <2>2, BuildingsTold
  <2> QED
    BY <2>1, <2>2
<1>7. DOMAIN objects' = DOMAIN objects
      /\ \A i \in DOMAIN objects : ToldTo(me, objects'[i]) = ToldTo(me, objects[i])
  BY <1>1, <1>2, <1>6 DEF o
<1> QED
  BY <1>1, <1>7, NothingConveys

\* Only the owner is told that a production starts.
LEMMA StartConveys ==
    ASSUME MatchInv, NEW b, StartProduction(b)
    PROVE  Conveys(ToOwner(objects[b], <<Message("UpdateProduction", b, TRUE)>>))
<1> DEFINE o  == objects[b]
           b2 == [o EXCEPT !.production = 1]
           m  == Message("UpdateProduction", b, TRUE)
<1>1. /\ b \in todo /\ IsBuilding(o) /\ objects' = [objects EXCEPT ![b] = b2] /\ known' = known
  BY DEF StartProduction, VisitBuilding, Visit
<1>2. b \in DOMAIN objects /\ o \in Buildings
  BY <1>1, Kinds DEF MatchInv, MapInv, MapOK
<1>3. /\ b2.owner = o.owner /\ b2.type = o.type /\ b2.hp = o.hp /\ b2.built = o.built
      /\ b2.production = 1 /\ b2.queue = o.queue
  BY <1>2 DEF Buildings
<1>4. m.type \in Details /\ m.id = b
  BY DEF Message, Details, ObjectMessages
<1>5. m = Message("UpdateProduction", b, TRUE)
  OBVIOUS
<1> HIDE DEF o, b2, m
<1>6. IsBuilding(b2)
  BY <1>1, <1>3 DEF IsBuilding
<1>7. IF o.owner = me THEN ToldTo(me, b2) = Detailed(ToldTo(me, o), m)
                      ELSE ToldTo(me, b2) = ToldTo(me, o)
  <2> DEFINE told(x) == BuildingTold(o.owner, o.type, o.hp, o.built, o.queue, x)
  <2>1. CASE o.owner = me
    <3>1. ToldTo(me, o) = told(o.production > 0)
      BY <1>1, <2>1, BuildingsTold
    <3>2. ToldTo(me, b2) = told(b2.production > 0)
      BY <1>3, <1>6, <2>1, BuildingsTold
    <3>3. (b2.production > 0) = TRUE
      BY <1>3
    <3>4. Detailed(told(o.production > 0), m) = told(TRUE)
      BY <1>5 DEF Detailed, Message, BuildingTold
    <3> QED
      BY <2>1, <3>1, <3>2, <3>3, <3>4
  <2>2. CASE o.owner # me
    BY <1>1, <1>3, <1>6, <2>2, BuildingsTold
  <2> QED
    BY <2>1, <2>2
<1>8. /\ DOMAIN objects' = DOMAIN objects /\ objects'[b] = b2
      /\ \A i \in DOMAIN objects \ {b} : objects'[i] = objects[i]
  BY <1>1, <1>2
<1> QED
  BY <1>1, <1>2, <1>4, <1>7, <1>8, OwnerConveys DEF m, o

\* The visits to a unit that change nothing but the unit.
LEMMA VisitConveys ==
    ASSUME MatchInv, NEW u,
           Walk(u) \/ BeginAttack(u) \/ ConstructionBlocked(u)
    PROVE  Conveys(ChangeUnitType(u) \o UnitMovement(u))
<1> DEFINE T == ChangeUnitType(u)
<1>1. OneBecomes(u) /\ objects'[u].carried = objects[u].carried
  BY VisitLasts
<1>2. known' = known
  BY DEF Walk, BeginAttack, ConstructionBlocked
<1>3. Conveys((<<>> \o T) \o UnitMovement(u))
  BY <1>1, <1>2, OneConveys
<1>4. T \in Seq(Elements(T))
  BY MessagesSpoken DEF Spoken, Listed
<1> HIDE DEF T
<1>5. <<>> \o T = T
  BY <1>4
<1> QED
  BY <1>3, <1>5 DEF T

\* A gatherer: what it carries, what it is and whether it attacks.
LEMMA GatherConveys ==
    ASSUME MatchInv, NEW u, Gather(u)
    PROVE  Conveys((IF objects'[u].carried = objects[u].carried THEN <<>>
                     ELSE SetCarriedResources(u)) \o ChangeUnitType(u) \o UnitMovement(u))
<1>1. OneBecomes(u)
  BY VisitLasts
<1>2. known' = known
  BY DEF Gather
<1> QED
  BY <1>1, <1>2, OneConveys

\* A villager that drops off its load.
LEMMA DropOffConveys ==
    ASSUME MatchInv, NEW u, DropOff(u)
    PROVE  Conveys(SetCarriedResources(u) \o ChangeUnitType(u) \o UnitMovement(u))
<1>1. OneBecomes(u)
  BY VisitLasts
<1>2. known' = known
  BY DEF DropOff
<1> QED
  BY <1>1, <1>2, OneConveys

\* The objects that the client has never been told to remove are of former steps.
StraysOld == strays \subseteq 1 .. nextObjectID - 1

\* A unit is added to every map, and its building starts over.
LEMMA CompleteConveys ==
    ASSUME MatchInv, BooksOK, StraysOld, me \in Players, me' = me, NEW b, CompleteProduction(b)
    PROVE  Conveys(AddObject(nextObjectID, objects'[nextObjectID])
             \o ToOwner(objects[b], <<Message("RemoveFromProductionQueue", b, 1)>>))
<1> DEFINE n  == nextObjectID
           o  == objects[b]
           b2 == [o EXCEPT !.queue = Tail(o.queue), !.production = 0]
           v  == NewUnit(o.owner, Head(o.queue))
           m  == Message("RemoveFromProductionQueue", b, 1)
           A  == AddObject(n, objects'[n])
           R  == ToOwner(objects[b], <<m>>)
<1>1. /\ b \in todo /\ IsBuilding(o) /\ o.queue # <<>> /\ known' = AddKnown(n, Players)
      /\ objects' = [i \in DOMAIN objects \cup {n} |->
                       IF i = n THEN v ELSE IF i = b THEN b2 ELSE objects[i]]
      /\ connected' = connected
  BY DEF CompleteProduction
<1>2. b \in DOMAIN objects /\ o \in Buildings
  BY <1>1, Kinds DEF MatchInv, MapInv, MapOK
<1>3. /\ b2.owner = o.owner /\ b2.type = o.type /\ b2.hp = o.hp /\ b2.built = o.built
      /\ b2.production = 0 /\ b2.queue = Tail(o.queue)
  BY <1>2 DEF Buildings
<1>4. m.type \in Details /\ m.id = b /\ m.type \in NewsTypes
  BY DEF Message, Details, ObjectMessages, NewsTypes
<1>5. n \notin DOMAIN objects /\ n \notin strays
  BY DEF MatchInv, MapInv, MapOK, StraysOld
<1>6. Tail(o.queue) = RemoveAt(o.queue, 1) /\ ~(1 > Len(o.queue))
  <2>1. o.queue \in Seq(UnitTypes) /\ Len(o.queue) \in Nat \ {0}
    BY <1>1, <1>2, EmptySeq, LenProperties DEF Buildings
  <2> HIDE DEF o
  <2>2. RemoveAt(o.queue, 1) = SubSeq(o.queue, 1, 0) \o SubSeq(o.queue, 2, Len(o.queue))
    BY DEF RemoveAt
  <2>3. SubSeq(o.queue, 1, 0) = <<>> /\ SubSeq(o.queue, 2, Len(o.queue)) = Tail(o.queue)
    BY <2>1
  <2>4. Tail(o.queue) \in Seq(UnitTypes)
    BY <2>1
  <2>5. <<>> \o Tail(o.queue) = Tail(o.queue)
    BY <2>4
  <2>6. RemoveAt(o.queue, 1) = Tail(o.queue)
    BY <2>2, <2>3, <2>5, Zenon
  <2> QED
    BY <2>1, <2>6
<1>7. m = Message("RemoveFromProductionQueue", b, 1)
  OBVIOUS
<1>8. A = <<Message("AddObject", n, ToldTo(me, v))>>
  BY <1>1, ToldIs DEF AddObject
<1>9. Spoken(A) /\ Spoken(R) /\ Spoken(A \o R)
  BY <1>4, MessagesSpoken, SpokenAlone, SpokenTogether
<1> HIDE DEF o, b2, m, A, R
<1>10. IsBuilding(b2)
  BY <1>1, <1>3 DEF IsBuilding
<1>11. o.owner = me => ToldTo(me, b2) = Detailed(ToldTo(me, o), m)
  <2> SUFFICES ASSUME o.owner = me PROVE ToldTo(me, b2) = Detailed(ToldTo(me, o), m)
    OBVIOUS
  <2> DEFINE told(q, x) == BuildingTold(o.owner, o.type, o.hp, o.built, q, x)
  <2>1. ToldTo(me, o) = told(o.queue, o.production > 0)
    BY <1>1, BuildingsTold
  <2>2. ToldTo(me, b2) = told(RemoveAt(o.queue, 1), b2.production > 0)
    BY <1>3, <1>6, <1>10, BuildingsTold
  <2>3. (b2.production > 0) = FALSE
    BY <1>3
  <2>4. Detailed(told(o.queue, o.production > 0), m) = told(RemoveAt(o.queue, 1), FALSE)
    BY <1>6, <1>7 DEF Detailed, Message, BuildingTold
  <2> QED
    BY <2>1, <2>2, <2>3, <2>4
<1>12. o.owner # me => ToldTo(me, b2) = ToldTo(me, o)
  BY <1>1, <1>3, <1>10, BuildingsTold
<1>13. ASSUME me \in connected', NEW e, Accurate(e)
       PROVE  AccurateNext(Hears(e, A \o R))
  <2> DEFINE d == Hears(e, A)
             c == Hears(d, R)
  <2>1. c = Hears(e, A \o R)
    BY <1>9, HearsTogether DEF Spoken
  <2>2. HasMap(e)
    BY <1>13 DEF Accurate, Holds
  <2>3. /\ HasMap(d) /\ DOMAIN d.objects = DOMAIN e.objects \cup {n}
        /\ d.objects[n] = ToldTo(me, v)
        /\ \A i \in DOMAIN e.objects \ {n} : d.objects[i] = e.objects[i]
        /\ d.resources = e.resources /\ d.housed = e.housed
    <3>1. Gains(e, d, n, ToldTo(me, v))
      BY <1>8, <2>2, AddHeard
    <3> QED
      BY <3>1 DEF Gains
  <2> HIDE DEF d
  <2>4. Turned(d, c, b, IF o.owner = me THEN Detailed(d.objects[b], m) ELSE d.objects[b])
    <3>1. CASE o.owner = me
      BY <1>4, <2>3, <3>1, DetailTurns DEF R, ToOwner, o
    <3>2. CASE o.owner # me
      BY <2>3, <3>2, NothingTurns DEF R, ToOwner, o
    <3> QED
      BY <3>1, <3>2
  <2> HIDE DEF c
  <2>5. known'[me] = known[me] \cup {n}
    BY <1>1, <1>13 DEF AddKnown
  <2>6. /\ HasMap(c) /\ DOMAIN c.objects = known'[me]
        /\ known'[me] \subseteq DOMAIN objects' \cup strays /\ strays \cap DOMAIN objects' = {}
        /\ c.resources = lastResources /\ c.housed = wasHoused
    BY <1>1, <1>5, <1>13, <2>3, <2>4, <2>5 DEF Accurate, Holds, Turned
  <2>7. ASSUME NEW id \in known'[me] \cap DOMAIN objects'
        PROVE  c.objects[id] = ToldTo(me, objects'[id])
    <3>1. CASE id = n
      BY <1>1, <1>2, <1>5, <2>3, <2>4, <3>1 DEF Turned
    <3>2. CASE id # n
      <4>1. id \in DOMAIN objects /\ id \in known[me] /\ id \in DOMAIN e.objects
        BY <1>1, <1>13, <2>5, <2>7, <3>2 DEF Accurate, Holds
      <4>2. d.objects[id] = ToldTo(me, objects[id])
        BY <1>13, <2>3, <3>2, <4>1 DEF Accurate, Holds
      <4>3. CASE id # b
        BY <1>1, <2>3, <2>4, <3>2, <4>1, <4>2, <4>3 DEF Turned
      <4>4. CASE id = b
        BY <1>1, <1>2, <1>11, <1>12, <2>3, <2>4, <3>2, <4>1, <4>2, <4>4 DEF Turned, o
      <4> QED
        BY <4>3, <4>4
    <3> QED
      BY <3>1, <3>2
  <2>8. AccurateNext(c)
    BY <2>6, <2>7 DEF AccurateNext, Holds
  <2> QED
    BY <2>1, <2>8
<1> QED
  BY <1>9, <1>13 DEF Conveys, A, R, m

\* Who knows of an object hears of its death.
LEMMA DeathConveys ==
    ASSUME me \in Players, NEW id \in DOMAIN objects, NEW manual, DeleteObject(id, manual),
           DOMAIN objects' = DOMAIN objects,
           \A i \in DOMAIN objects : ToldTo(me, objects'[i]) = ToldTo(me, objects[i])
    PROVE  Conveys(ObjectDeath(id))
<1> DEFINE p == objects[id].owner
<1>1. Spoken(ObjectDeath(id))
  BY MessagesSpoken
<1>2. CASE id \in objectDeleteList
  <2>1. known' = known /\ ObjectDeath(id) = <<>>
    BY <1>2 DEF DeleteObject, ObjectDeath
  <2> QED
    BY <2>1, NothingConveys
<1>3. CASE id \notin objectDeleteList /\ p = me /\ Defeated(p, id)
  <2>1. me \notin connected'
    BY <1>3 DEF DeleteObject, RemovePlayer
  <2> QED
    BY <1>1, <2>1 DEF Conveys
<1>4. CASE id \notin objectDeleteList /\ ~(p = me /\ Defeated(p, id))
  <2>1. known'[me] = IF IsBuilding(objects[id]) /\ IsFoundation(objects[id]) /\ me # p
                       THEN known[me] ELSE known[me] \ {id}
    BY <1>4 DEF DeleteObject
  <2>2. CASE IsBuilding(objects[id]) /\ IsFoundation(objects[id]) /\ me # p
    <3>1. known'[me] = known[me] /\ ObjectDeath(id) = <<>>
      BY <2>1, <2>2 DEF ObjectDeath
    <3> QED
      BY <3>1, NothingConveys
  <2>3. CASE ~(IsBuilding(objects[id]) /\ IsFoundation(objects[id]) /\ me # p)
    <3>1. known'[me] = known[me] \ {id} /\ ObjectDeath(id) = <<Message("ObjectDeath", id, TRUE)>>
      BY <1>4, <2>1, <2>3 DEF ObjectDeath
    <3>2. ASSUME NEW e, Accurate(e) PROVE AccurateNext(Hears(e, ObjectDeath(id)))
      <4> DEFINE d == Hears(e, ObjectDeath(id))
      <4>1. HasMap(e)
        BY <3>2 DEF Accurate, Holds
      <4>2. Loses(e, d, id)
        BY <3>1, <4>1, DeathHeard
      <4> HIDE DEF d
      <4>3. /\ HasMap(d) /\ DOMAIN d.objects = known'[me]
            /\ known'[me] \subseteq DOMAIN objects' \cup strays /\ strays \cap DOMAIN objects' = {}
            /\ d.resources = lastResources /\ d.housed = wasHoused
        BY <3>1, <3>2, <4>2 DEF Accurate, Holds, Loses
      <4>4. ASSUME NEW i \in known'[me] \cap DOMAIN objects'
            PROVE  d.objects[i] = ToldTo(me, objects'[i])
        <5>1. i \in DOMAIN e.objects \ {id} /\ i \in DOMAIN objects
              /\ e.objects[i] = ToldTo(me, objects[i])
          BY <3>1, <3>2, <4>4 DEF Accurate, Holds
        <5> QED
          BY <4>2, <5>1 DEF Loses
      <4>5. AccurateNext(d)
        BY <4>3, <4>4 DEF AccurateNext, Holds
      <4> QED
        BY <4>5 DEF d
    <3> QED
      BY <1>1, <3>2 DEF Conveys
  <2> QED
    BY <2>2, <2>3
<1> QED
  BY <1>2, <1>3, <1>4

\* A player deletes an object of its own.
LEMMA DeleteConveys ==
    ASSUME me \in Players, NEW p \in Players, NEW id \in DOMAIN objects, HandleDeleteObject(p, id)
    PROVE  Conveys(ObjectDeath(id))
<1>1. DeleteObject(id, TRUE) /\ objects' = objects
  BY DEF HandleDeleteObject
<1> QED
  BY <1>1, DeathConveys

\* What is told of an object that is hit.
LEMMA HitTold ==
    ASSUME NEW o \in Units \cup Buildings, NEW id, NEW x, NEW w, w = [o EXCEPT !.hp = x]
    PROVE  /\ w.hp = x
           /\ ToldTo(me, w) = Detailed(ToldTo(me, o), Message("HPUpdate", id, x))
           /\ x = o.hp => ToldTo(me, w) = ToldTo(me, o)
<1> DEFINE m == Message("HPUpdate", id, x)
<1>1. CASE o \in Units
  <2>1. /\ w.owner = o.owner /\ w.type = o.type /\ w.hp = x /\ w.attacking = o.attacking
        /\ w.carried = o.carried /\ IsUnit(o) /\ IsUnit(w)
    BY <1>1 DEF Units, IsUnit
  <2>2. ToldTo(me, w) = UnitTold(o.owner, o.type, x, o.attacking,
                                 IF o.owner = me THEN o.carried ELSE 0)
    BY <2>1, ToldKinds
  <2>3. ToldTo(me, o) = UnitTold(o.owner, o.type, o.hp, o.attacking,
                                 IF o.owner = me THEN o.carried ELSE 0)
    BY <2>1, ToldKinds
  <2>4. Detailed(ToldTo(me, o), m) = UnitTold(o.owner, o.type, x, o.attacking,
                                              IF o.owner = me THEN o.carried ELSE 0)
    <3> DEFINE c == IF o.owner = me THEN o.carried ELSE 0
    <3>1. ToldTo(me, o) = UnitTold(o.owner, o.type, o.hp, o.attacking, c)
      BY <2>3
    <3> HIDE DEF c
    <3> QED
      BY <3>1 DEF Detailed, Message, UnitTold, c
  <2> QED
    BY <2>1, <2>2, <2>3, <2>4
<1>2. CASE o \in Buildings
  <2>1. /\ w.owner = o.owner /\ w.type = o.type /\ w.hp = x /\ w.built = o.built
        /\ w.queue = o.queue /\ w.production = o.production /\ IsBuilding(o) /\ IsBuilding(w)
    BY <1>2 DEF Buildings, IsBuilding
  <2> DEFINE q == IF o.owner = me THEN o.queue ELSE <<>>
             p == IF o.owner = me THEN o.production > 0 ELSE FALSE
  <2>2. ToldTo(me, w) = BuildingTold(o.owner, o.type, x, o.built, q, p)
    BY <2>1, BuildingsTold
  <2>3. ToldTo(me, o) = BuildingTold(o.owner, o.type, o.hp, o.built, q, p)
    BY <2>1, BuildingsTold
  <2> HIDE DEF q, p
  <2>4. Detailed(ToldTo(me, o), m) = BuildingTold(o.owner, o.type, x, o.built, q, p)
    BY <2>3, DamageDetail
  <2> QED
    BY <2>1, <2>2, <2>3, <2>4
<1> QED
  BY <1>1, <1>2

\* A hit is told to everyone, a swing to nobody.
LEMMA AttackConveys ==
    ASSUME MatchInv, me \in Players, NEW u, ContinueAttack(u)
    PROVE  LET t == objects[u].target
           IN  Conveys(IF objects[u].clock + 1 # DamageTime \/ t \notin DOMAIN objects THEN <<>>
                       ELSE IF objects[t].hp = 1 THEN ObjectDeath(t) ELSE HPUpdate(t))
<1> DEFINE o == objects[u]
           t == o.target
           hits  == o.clock + 1 = DamageTime /\ t \in DOMAIN objects
           v     == [o EXCEPT !.clock = o.clock + 1]
           swung == [objects EXCEPT ![u] = v]
           x     == IF swung[t].hp > 1 THEN swung[t].hp - 1 ELSE swung[t].hp
           w     == [swung[t] EXCEPT !.hp = x]
<1>1. /\ u \in todo /\ IsUnit(o) /\ Swings(o)
      /\ objects' = IF hits THEN [swung EXCEPT ![t] = w] ELSE swung
      /\ IF hits /\ objects[t].hp = 1 THEN DeleteObject(t, FALSE) ELSE known' = known
  BY DEF ContinueAttack, VisitUnit, Visit
<1>2. u \in DOMAIN objects /\ o \in Units /\ \A i \in DOMAIN objects : objects[i] \in Units \cup Buildings
  BY <1>1, Kinds DEF MatchInv, MapInv, MapOK
<1>3. v \in Units
  <2>1. o.clock \in 0 .. AttackTime
    BY <1>2 DEF Units
  <2>2. o.clock + 1 < AttackTime
    BY <1>1 DEF Swings
  <2>3. o.clock + 1 \in 0 .. AttackTime
    BY <2>1, <2>2, Sizes
  <2> QED
    BY <1>2, <2>3 DEF Units
<1>4. /\ v.owner = o.owner /\ v.type = o.type /\ v.hp = o.hp /\ v.attacking = o.attacking
      /\ v.carried = o.carried
  BY <1>2 DEF Units
<1> HIDE DEF v
<1>5. ToldTo(me, v) = ToldTo(me, o)
  BY <1>1, <1>4 DEF ToldTo, IsUnit
<1>6. /\ DOMAIN swung = DOMAIN objects
      /\ \A i \in DOMAIN objects : /\ swung[i] \in Units \cup Buildings
                                   /\ ToldTo(me, swung[i]) = ToldTo(me, objects[i])
                                   /\ swung[i].hp = objects[i].hp
  BY <1>2, <1>3, <1>4, <1>5
<1> HIDE DEF swung
<1>7. CASE ~hits
  <2>1. Conveys(<<>>)
    BY <1>1, <1>6, <1>7, NothingConveys
  <2> QED
    BY <1>7, <2>1
<1>8. CASE hits
  <2>1. /\ w.hp = x
        /\ ToldTo(me, w) = Detailed(ToldTo(me, swung[t]), Message("HPUpdate", t, x))
        /\ x = swung[t].hp => ToldTo(me, w) = ToldTo(me, swung[t])
    <3> DEFINE s == swung[t]
               y == x
    <3>1. s \in Units \cup Buildings /\ w = [s EXCEPT !.hp = y]
      BY <1>6, <1>8
    <3> HIDE DEF s, y, w
    <3> QED
      BY <3>1, HitTold DEF s, y
  <2> HIDE DEF x, w
  <2>2. /\ DOMAIN objects' = DOMAIN objects /\ objects'[t] = w
        /\ \A i \in DOMAIN objects \ {t} : objects'[i] = swung[i]
    BY <1>1, <1>6, <1>8
  <2>3. CASE objects[t].hp = 1
    <3>1. x = swung[t].hp
      BY <1>6, <1>8, <2>3 DEF x
    <3>2. \A i \in DOMAIN objects : ToldTo(me, objects'[i]) = ToldTo(me, objects[i])
      BY <1>6, <2>1, <2>2, <3>1
    <3>3. Conveys(ObjectDeath(t))
      BY <1>1, <1>8, <2>2, <2>3, <3>2, DeathConveys
    <3> QED
      BY <1>8, <2>3, <3>3
  <2>4. CASE objects[t].hp # 1
    <3> DEFINE m == Message("HPUpdate", t, x)
    <3>1. HPUpdate(t) = <<m>>
      BY <2>1, <2>2 DEF HPUpdate
    <3>2. m.type \in Details /\ m.id = t
      BY DEF Message, Details, ObjectMessages
    <3>3. ToldTo(me, objects'[t]) = Detailed(ToldTo(me, objects[t]), m)
      BY <1>6, <1>8, <2>1, <2>2
    <3> HIDE DEF m
    <3>4. \A i \in DOMAIN objects \ {t} : ToldTo(me, objects'[i]) = ToldTo(me, objects[i])
      BY <1>6, <2>2
    <3>5. known'[me] = known[me]
      BY <1>1, <2>4
    <3>6. Conveys(<<m>>)
      BY <1>8, <2>2, <3>2, <3>3, <3>4, <3>5, DetailConveys
    <3> QED
      BY <1>8, <2>4, <3>1, <3>6
  <2> QED
    BY <2>3, <2>4
<1> QED
  BY <1>7, <1>8

\* A villager builds: what it builds is shown to the others when it begins.
LEMMA ConstructConveys ==
    ASSUME MatchInv, BooksOK, me \in Players, NEW u, Construct(u)
    PROVE  LET id == Ready(u).target
               b  == objects[id]
           IN  Conveys(ChangeUnitType(u)
                  \o (IF IsFoundation(b) /\ b.owner # me THEN AddObject(id, b) ELSE <<>>)
                  \o <<Message("BuildPercentageUpdate", id, objects'[id].built)>>
                  \o HPUpdate(id) \o UnitMovement(u))
<1> DEFINE id == Ready(u).target
           b  == objects[id]
           b2 == objects'[id]
           o  == objects[u]
           v  == objects'[u]
           shown == IsFoundation(b) /\ b.owner # me
           C  == ChangeUnitType(u)
           F  == IF shown THEN AddObject(id, b) ELSE <<>>
           m  == Message("BuildPercentageUpdate", id, b2.built)
           B  == <<m>>
           h  == Message("HPUpdate", id, b2.hp)
           H  == HPUpdate(id)
           M  == UnitMovement(u)
           c  == IF o.owner = me THEN o.carried ELSE 0
           q  == IF b.owner = me THEN b.queue ELSE <<>>
           p  == b.owner = me /\ b.production > 0
<1>1. /\ id \in DOMAIN objects /\ IsBuilding(b) /\ id # u
      /\ u \in DOMAIN objects /\ IsUnit(o) /\ DOMAIN objects' = DOMAIN objects
      /\ b2.type = b.type /\ b2.owner = b.owner /\ b2.queue = b.queue
      /\ b2.production = b.production
      /\ SameTrade(o, v) /\ v.carried = o.carried
      /\ \A i \in DOMAIN objects \ {u, id} : objects'[i] = objects[i]
  BY ConstructLasts
<1>2. known'[me] = IF shown /\ me \in connected THEN known[me] \cup {id} ELSE known[me]
  BY DEF Construct, AddKnown, BooksOK
<1>3. connected' = connected
  BY DEF Construct
<1>4. v.owner = o.owner /\ v.hp = o.hp /\ IsUnit(v) /\ IsBuilding(b2)
  BY <1>1 DEF SameTrade, Units, IsUnit, IsBuilding
<1>5. /\ ToldTo(me, o) = UnitTold(o.owner, o.type, o.hp, o.attacking, c)
      /\ ToldTo(me, v) = UnitTold(o.owner, v.type, o.hp, v.attacking, c)
  BY <1>1, <1>4, ToldKinds
<1>6. /\ ToldTo(me, b)  = BuildingTold(b.owner, b.type, b.hp, b.built, q, p)
      /\ ToldTo(me, b2) = BuildingTold(b.owner, b.type, b2.hp, b2.built, q, p)
  BY <1>1, <1>4, ToldKinds
<1>7. F = IF shown THEN <<Message("AddObject", id, ToldTo(me, b))>> ELSE <<>>
  BY ToldIs DEF AddObject
<1>8. H = <<h>>
  BY DEF HPUpdate
<1>9. /\ m.type \in Details /\ m.id = id /\ m.type \in NewsTypes
      /\ h.type \in Details /\ h.id = id
  BY DEF Message, Details, ObjectMessages, NewsTypes
<1>10. Spoken(C) /\ Spoken(F) /\ Spoken(B) /\ Spoken(H) /\ Spoken(M)
  BY <1>9, MessagesSpoken, SpokenAlone
<1> DEFINE CF == C \o F
           CFB == CF \o B
           CFBH == CFB \o H
<1> HIDE DEF C, F, B, H, M
<1>11. Spoken(CF)
  BY <1>10, SpokenTogether
<1> HIDE DEF CF
<1>12. Spoken(CFB)
  BY <1>10, <1>11, SpokenTogether
<1> HIDE DEF CFB
<1>13. Spoken(CFBH)
  BY <1>10, <1>12, SpokenTogether
<1> HIDE DEF CFBH
<1>14. Spoken(CFBH \o M)
  BY <1>10, <1>13, SpokenTogether
<1>15. ASSUME me \in connected', NEW e, Accurate(e) PROVE AccurateNext(Hears(e, CFBH \o M))
  <2> DEFINE d1 == Hears(e, C)
             d2 == Hears(d1, F)
             d3 == Hears(d2, B)
             d4 == Hears(d3, H)
             d5 == Hears(d4, M)
             x1 == UnitTold(o.owner, v.type, o.hp, o.attacking, c)
             x2 == UnitTold(o.owner, v.type, o.hp, v.attacking, c)
             y0 == BuildingTold(b.owner, b.type, b.hp, b.built, q, p)
             y1 == BuildingTold(b.owner, b.type, b.hp, b2.built, q, p)
             y2 == BuildingTold(b.owner, b.type, b2.hp, b2.built, q, p)
  <2>1. Hears(e, CFBH \o M) = d5
    <3>1. Hears(e, CF) = d2
      BY <1>10, HearsTogether DEF CF, Spoken
    <3> HIDE DEF d2
    <3>2. Hears(e, CFB) = d3
      BY <1>10, <1>11, <3>1, HearsTogether DEF CFB, Spoken
    <3> HIDE DEF d3
    <3>3. Hears(e, CFBH) = d4
      BY <1>10, <1>12, <3>2, HearsTogether DEF CFBH, Spoken
    <3> HIDE DEF d4
    <3> QED
      BY <1>10, <1>13, <3>3, HearsTogether DEF Spoken
  <2>2. /\ HasMap(e) /\ DOMAIN e.objects = known[me]
        /\ u \in DOMAIN e.objects => e.objects[u] = ToldTo(me, o)
        /\ id \in DOMAIN e.objects => e.objects[id] = y0
    BY <1>1, <1>6, <1>15 DEF Accurate, Holds
  <2>3. Turned(e, d1, u, x1)
    BY <1>5, <2>2, TypeSaid DEF C
  <2> HIDE DEF d1, c, q, p
  <2>4. /\ HasMap(d2) /\ DOMAIN d2.objects = DOMAIN d1.objects \cup (IF shown THEN {id} ELSE {})
        /\ \A i \in DOMAIN d1.objects \ {id} : d2.objects[i] = d1.objects[i]
        /\ id \in DOMAIN d2.objects => d2.objects[id] = y0
        /\ d2.resources = d1.resources /\ d2.housed = d1.housed
    <3>1. HasMap(d1) /\ (id \in DOMAIN d1.objects => d1.objects[id] = y0)
      BY <1>1, <2>2, <2>3 DEF Turned
    <3>2. CASE shown
      <4>1. Gains(d1, d2, id, y0)
        BY <1>6, <1>7, <3>1, <3>2, AddHeard
      <4> QED
        BY <3>2, <4>1 DEF Gains
    <3>3. CASE ~shown
      <4>1. Turned(d1, d2, id, d1.objects[id])
        BY <1>7, <3>1, <3>3, NothingTurns
      <4> QED
        BY <3>1, <3>3, <4>1 DEF Turned
    <3> QED
      BY <3>2, <3>3
  <2> HIDE DEF d2
  <2>5. Turned(d2, d3, id, y1)
    <3>1. Turned(d2, d3, id, Detailed(d2.objects[id], m))
      BY <1>9, <2>4, DetailTurns DEF B
    <3>2. Detailed(y0, m) = y1
      BY BuiltDetail
    <3> HIDE DEF y0, y1, m
    <3> QED
      BY <2>4, <3>1, <3>2 DEF Turned
  <2> HIDE DEF d3
  <2>6. Turned(d3, d4, id, y2)
    <3>1. HasMap(d3) /\ (id \in DOMAIN d3.objects => d3.objects[id] = y1)
      BY <2>5 DEF Turned
    <3>2. Turned(d3, d4, id, Detailed(d3.objects[id], h))
      BY <1>8, <1>9, <3>1, DetailTurns
    <3>3. Detailed(y1, h) = y2
      BY DamageDetail
    <3> HIDE DEF y1, y2, h
    <3> QED
      BY <3>1, <3>2, <3>3 DEF Turned
  <2> HIDE DEF d4, y0, y1
  <2>7. Turned(d2, d4, id, y2)
    BY <2>5, <2>6, TurnsTwice
  <2> HIDE DEF y2
  <2>8. HasMap(d4) /\ (u \in DOMAIN d4.objects => d4.objects[u] = x1)
    BY <1>1, <2>3, <2>4, <2>7 DEF Turned
  <2>9. Turned(d4, d5, u, x2)
    BY <2>8, MovementSaid DEF M
  <2> HIDE DEF d5, x1
  <2>10. y2 = ToldTo(me, b2) /\ x2 = ToldTo(me, v)
    BY <1>5, <1>6 DEF y2, q, p, c
  <2> HIDE DEF x2
  <2>11. known'[me] = known[me] \cup (IF shown THEN {id} ELSE {})
    BY <1>2, <1>3, <1>15
  <2>12. /\ HasMap(d5) /\ DOMAIN d5.objects = known'[me]
         /\ d5.resources = e.resources /\ d5.housed = e.housed
    BY <2>2, <2>3, <2>4, <2>7, <2>9, <2>11 DEF Turned
  <2>13. /\ known'[me] \subseteq DOMAIN objects' \cup strays /\ strays \cap DOMAIN objects' = {}
         /\ d5.resources = lastResources /\ d5.housed = wasHoused
    BY <1>1, <1>15, <2>11, <2>12 DEF Accurate, Holds
  <2>14. ASSUME NEW i \in known'[me] \cap DOMAIN objects'
         PROVE  d5.objects[i] = ToldTo(me, objects'[i])
    <3>1. CASE i = u
      BY <2>9, <2>10, <2>12, <2>14, <3>1 DEF Turned
    <3>2. CASE i = id
      <4>1. i \in DOMAIN d2.objects
        BY <2>7, <2>9, <2>12, <2>14 DEF Turned
      <4> QED
        BY <1>1, <2>7, <2>9, <2>10, <3>2, <4>1 DEF Turned
    <3>3. CASE i # u /\ i # id
      <4>1. i \in known[me] /\ i \in DOMAIN objects /\ objects'[i] = objects[i]
        BY <1>1, <2>11, <2>14, <3>3
      <4>2. e.objects[i] = ToldTo(me, objects[i]) /\ i \in DOMAIN e.objects
        BY <1>15, <4>1 DEF Accurate, Holds
      <4>3. i \in DOMAIN d1.objects /\ d1.objects[i] = e.objects[i]
        BY <2>3, <3>3, <4>2 DEF Turned
      <4>4. i \in DOMAIN d2.objects /\ d2.objects[i] = e.objects[i]
        BY <2>4, <3>3, <4>3
      <4>5. d5.objects[i] = e.objects[i]
        BY <2>7, <2>9, <3>3, <4>4 DEF Turned
      <4> QED
        BY <4>1, <4>2, <4>5
    <3> QED
      BY <3>1, <3>2, <3>3
  <2>15. AccurateNext(d5)
    BY <2>12, <2>13, <2>14 DEF AccurateNext, Holds
  <2> QED
    BY <2>1, <2>15
<1> QED
  BY <1>3, <1>14, <1>15 DEF Conveys, CFBH, CFB, CF, C, F, B, m, H, M, Spoken

\* None of them is left out.
LEMMA AllTold ==
    ASSUME NEW S, IsFiniteSet(S)
    PROVE  Elements(SetToSeq(S)) = S
<1> DEFINE told == SetToSeq(S)
           n == Cardinality(S)
<1>1. n \in Nat /\ \E f : ExistsBijection(1 .. n, S)
  BY FS_CardinalityType, FS_CountingElements
<1>2. PICK f \in Bijection(1 .. n, S) : TRUE
  BY <1>1 DEF ExistsBijection
<1>3. f \in [1 .. n -> S] /\ IsInjective(f)
  BY <1>2 DEF Bijection, Injection, IsInjective
<1>4. told \in [1 .. n -> S] /\ IsInjective(told)
  BY <1>3 DEF SetToSeq
<1>5. IsFiniteSet(1 .. n) /\ Cardinality(1 .. n) = n
  BY <1>1, FS_Interval
<1> HIDE DEF told
<1>6. told \in Injection(1 .. n, S)
  BY <1>4 DEF Injection
<1>7. told \in Surjection(1 .. n, S)
  BY <1>5, <1>6, FS_Injection
<1> HIDE DEF n
<1>8. S \subseteq Elements(told)
  BY <1>7 DEF Surjection, Elements
<1>9. Elements(told) \subseteq S
  BY <1>4 DEF Elements
<1> QED
  BY <1>8, <1>9 DEF told

\* What is counted up to one more.
LEMMA OneMore ==
    ASSUME NEW f, NEW n \in Nat
    PROVE  {f[i] : i \in 1 .. n + 1} = {f[i] : i \in 1 .. n} \cup {f[n + 1]}
<1>1. 1 .. n + 1 = (1 .. n) \cup {n + 1}
  OBVIOUS
<1> QED
  BY <1>1

\* The builders, one after the other.
LEMMA BuildersHeard ==
    ASSUME NEW d, HasMap(d), NEW S, NEW told \in Seq(S), NEW W,
           \A u \in S \cap DOMAIN d.objects : \A v \in {d.objects[u], W[u]} :
             Detailed(v, Message("ChangeUnitType", u, "Builder")) = W[u],
           NEW msgs, Len(msgs) = Len(told),
           \A i \in 1 .. Len(told) : msgs[i] = Message("ChangeUnitType", told[i], "Builder"),
           NEW c, c = Hears(d, msgs)
    PROVE  /\ HasMap(c) /\ DOMAIN c.objects = DOMAIN d.objects
           /\ \A i \in DOMAIN d.objects :
                c.objects[i] = IF i \in Elements(told) THEN W[i] ELSE d.objects[i]
           /\ c.resources = d.resources /\ c.housed = d.housed
<1> DEFINE First(n) == {told[i] : i \in 1 .. n}
           Right(v, n) ==
             /\ HasMap(v) /\ DOMAIN v.objects = DOMAIN d.objects
             /\ \A i \in DOMAIN d.objects :
                  v.objects[i] = IF i \in First(n) THEN W[i] ELSE d.objects[i]
             /\ v.resources = d.resources /\ v.housed = d.housed
           N == {n \in Nat : n <= Len(told) => Right(Heard(d, msgs, n), n)}
<1>1. /\ Len(told) \in Nat /\ DOMAIN told = 1 .. Len(told)
      /\ \A i \in 1 .. Len(told) : told[i] \in S
  BY LenProperties
<1>3. 0 \in N
  <2>1. First(0) = {}
    OBVIOUS
  <2>2. Right(d, 0)
    BY <2>1
  <2> HIDE DEF Right
  <2> QED
    BY <2>2, HeardSteps
<1>4. ASSUME NEW n \in Nat, n \in N PROVE n + 1 \in N
  <2> SUFFICES ASSUME n + 1 <= Len(told) PROVE Right(Heard(d, msgs, n + 1), n + 1)
    OBVIOUS
  <2> DEFINE u == told[n + 1]
             m == Message("ChangeUnitType", u, "Builder")
             v == Heard(d, msgs, n)
             w == Heard(d, msgs, n + 1)
  <2>1. Right(v, n)
    BY <1>1, <1>4
  <2>2. n + 1 \in 1 .. Len(told) /\ msgs[n + 1] = m /\ u \in S
    BY <1>1
  <2>3. m.type \in Details /\ m.id = u
    BY DEF Message, Details, ObjectMessages
  <2>4. First(n + 1) = First(n) \cup {u}
    BY OneMore
  <2>5. w = Hear(v, m)
    <3> HIDE DEF N, Right, First, m
    <3>1. Heard(d, msgs, n + 1) = Hear(Heard(d, msgs, n), msgs[n + 1])
      BY HeardSteps
    <3> QED
      BY <2>2, <3>1
  <2> HIDE DEF First, v
  <2>6. HasMap(v)
    BY <2>1
  <2>7. Turned(v, Hears(v, <<m>>), m.id, Detailed(v.objects[m.id], m))
    BY <2>3, <2>6, DetailTurns
  <2>8. w = Hears(v, <<m>>)
    BY <2>5, HearsAlone
  <2> HIDE DEF w
  <2>9. u \in DOMAIN d.objects => Detailed(v.objects[u], m) = W[u]
    BY <2>1, <2>2
  <2> HIDE DEF m, u
  <2>10. Turned(v, w, u, Detailed(v.objects[u], m))
    BY <2>3, <2>7, <2>8
  <2>11. Right(w, n + 1)
    BY <2>1, <2>4, <2>9, <2>10 DEF Turned
  <2> QED
    BY <2>11 DEF w
<1> HIDE DEF N
<1>5. Len(told) \in N
  BY <1>1, <1>3, <1>4, SetInduction
<1>6. Right(Hears(d, msgs), Len(told))
  <2> HIDE DEF Right
  <2> QED
    BY <1>1, <1>5 DEF N, Hears
<1>7. First(Len(told)) = Elements(told)
  BY <1>1 DEF Elements
<1> HIDE DEF First
<1> QED
  BY <1>6, <1>7

\* A foundation is shown to its owner, and the builders that are sent to it turn to it.
LEMMA PlaceConveys ==
    ASSUME MatchInv, BooksOK, StraysOld, me \in Players, NEW p \in Players,
           NEW t \in PlaceableTypes, NEW tiles,
           NEW builders \in SUBSET {u \in DOMAIN objects : OwnUnit(p, u)},
           HandlePlaceBuildingFoundation(p, t, tiles, builders)
    PROVE  LET id   == nextObjectID
               told == SetToSeq({u \in builders : objects[u].type # "Builder"})
           IN  Conveys(ToOwner(objects'[id], AddObject(id, objects'[id]))
                         \o [i \in DOMAIN told |-> Message("ChangeUnitType", told[i], "Builder")])
<1> DEFINE id   == nextObjectID
           S    == {u \in builders : objects[u].type # "Builder"}
           told == SetToSeq(S)
           T    == [i \in DOMAIN told |-> Message("ChangeUnitType", told[i], "Builder")]
           b    == NewBuilding(p, t, tiles, 0)
           A    == ToOwner(objects'[id], AddObject(id, objects'[id]))
           Sent(u) == [objects[u] EXCEPT !.type   = "Builder",
                                         !.moving = TRUE,
                                         !.target = IF objects[u].attacking
                                                      THEN @ ELSE id,
                                         !.manual = id]
           W    == [u \in builders |-> ToldTo(me, objects'[u])]
<1>1. /\ \A u \in builders : u \in DOMAIN objects /\ IsUnit(objects[u])
      /\ objects' = [i \in DOMAIN objects \cup {id} |->
                       IF i = id THEN b ELSE IF i \in builders THEN Sent(i) ELSE objects[i]]
      /\ known' = AddKnown(id, {p}) /\ connected' = connected
  BY DEF HandlePlaceBuildingFoundation, OwnUnit
<1>2. id \notin DOMAIN objects /\ id \notin strays /\ b.owner = p
  BY DEF MatchInv, MapInv, MapOK, StraysOld, NewBuilding
<1>3. ASSUME NEW u \in builders
      PROVE  /\ Sent(u).owner = objects[u].owner /\ Sent(u).type = "Builder"
             /\ Sent(u).hp = objects[u].hp /\ Sent(u).attacking = objects[u].attacking
             /\ Sent(u).carried = objects[u].carried
  <2>1. objects[u] \in Units
    BY <1>1, <1>3, Kinds DEF MatchInv, MapInv, MapOK
  <2> QED
    BY <2>1 DEF Units
<1> HIDE DEF Sent, b
<1>4. ASSUME NEW u \in builders
      PROVE  LET o == objects[u]
                 c == IF o.owner = me THEN o.carried ELSE 0
             IN  /\ ToldTo(me, o) = UnitTold(o.owner, o.type, o.hp, o.attacking, c)
                 /\ ToldTo(me, objects'[u]) = UnitTold(o.owner, "Builder", o.hp, o.attacking, c)
  <2>1. objects'[u] = Sent(u)
    BY <1>1, <1>2, <1>4
  <2>2. IsUnit(objects[u]) /\ IsUnit(Sent(u))
    BY <1>1, <1>3, <1>4 DEF IsUnit, UnitTypes, VillagerTypes
  <2> QED
    BY <1>3, <1>4, <2>1, <2>2, ToldKinds
<1>5. IsFiniteSet(S)
  <2>1. S \subseteq DOMAIN objects
    OBVIOUS
  <2> HIDE DEF S
  <2> QED
    BY <2>1, FiniteObjects, FS_Subset DEF MatchInv, MapInv
<1>6. /\ told \in Seq(S) /\ Spoken(T) /\ Elements(told) = S
      /\ Len(T) = Len(told)
      /\ \A i \in 1 .. Len(told) : T[i] = Message("ChangeUnitType", told[i], "Builder")
  <2> HIDE DEF S
  <2>1. told \in Seq(S) /\ Spoken(T) /\ Elements(told) = S
    BY <1>5, TurnedSpoken, AllTold
  <2> HIDE DEF told
  <2>2. Len(told) \in Nat /\ DOMAIN told = 1 .. Len(told)
    BY <2>1, LenProperties
  <2> QED
    BY <2>1, <2>2
<1>7. Spoken(A)
  BY MessagesSpoken
<1>8. A = IF p = me THEN <<Message("AddObject", id, ToldTo(me, b))>> ELSE <<>>
  BY <1>1, <1>2, ToldIs DEF AddObject, ToOwner
<1>9. \A u \in S : u \in builders
  OBVIOUS
<1>10. \A u \in builders : u \notin S => objects[u].type = "Builder"
  OBVIOUS
<1> HIDE DEF A, T, told, S, W
<1>11. Spoken(A \o T)
  BY <1>6, <1>7, SpokenTogether
<1>12. ASSUME me \in connected', NEW e, Accurate(e) PROVE AccurateNext(Hears(e, A \o T))
  <2> DEFINE d == Hears(e, A)
             c == Hears(d, T)
  <2>1. Hears(e, A \o T) = c
    BY <1>6, <1>7, HearsTogether DEF Spoken
  <2>2. HasMap(e) /\ DOMAIN e.objects = known[me] /\ id \notin DOMAIN e.objects
    BY <1>2, <1>12 DEF Accurate, Holds
  <2>3. /\ HasMap(d) /\ DOMAIN d.objects = DOMAIN e.objects \cup (IF p = me THEN {id} ELSE {})
        /\ \A i \in DOMAIN e.objects : d.objects[i] = e.objects[i]
        /\ p = me => d.objects[id] = ToldTo(me, b)
        /\ d.resources = e.resources /\ d.housed = e.housed
    <3>1. CASE p = me
      <4>1. Gains(e, d, id, ToldTo(me, b))
        BY <1>8, <2>2, <3>1, AddHeard
      <4> QED
        BY <2>2, <3>1, <4>1 DEF Gains
    <3>2. CASE p # me
      <4>1. d = e
        BY <1>8, <3>2, HearsAlone
      <4> QED
        BY <2>2, <3>2, <4>1
    <3> QED
      BY <3>1, <3>2
  <2> HIDE DEF d
  <2>4. ASSUME NEW u \in builders, u \in DOMAIN d.objects
        PROVE  d.objects[u] = ToldTo(me, objects[u])
    <3>1. u \in DOMAIN e.objects
      BY <1>1, <1>2, <2>3, <2>4
    <3> QED
      BY <1>1, <1>12, <2>2, <2>3, <2>4, <3>1 DEF Accurate, Holds
  <2>5. ASSUME NEW u \in S \cap DOMAIN d.objects, NEW v \in {d.objects[u], W[u]}
        PROVE  Detailed(v, Message("ChangeUnitType", u, "Builder")) = W[u]
    <3> DEFINE o == objects[u]
               x == IF o.owner = me THEN o.carried ELSE 0
    <3>1. u \in builders /\ d.objects[u] = ToldTo(me, o) /\ W[u] = ToldTo(me, objects'[u])
      BY <1>9, <2>4, <2>5 DEF W
    <3>2. /\ d.objects[u] = UnitTold(o.owner, o.type, o.hp, o.attacking, x)
          /\ W[u] = UnitTold(o.owner, "Builder", o.hp, o.attacking, x)
      BY <1>4, <3>1
    <3> HIDE DEF o, x
    <3> QED
      BY <2>5, <3>2, UnitDetails
  <2>6. /\ HasMap(c) /\ DOMAIN c.objects = DOMAIN d.objects
        /\ \A i \in DOMAIN d.objects : c.objects[i] = IF i \in S THEN W[i] ELSE d.objects[i]
        /\ c.resources = d.resources /\ c.housed = d.housed
    BY <1>6, <2>3, <2>5, BuildersHeard
  <2> HIDE DEF c
  <2>7. known'[me] = known[me] \cup (IF p = me THEN {id} ELSE {})
    BY <1>1, <1>12 DEF AddKnown, BooksOK
  <2>8. /\ HasMap(c) /\ DOMAIN c.objects = known'[me]
        /\ known'[me] \subseteq DOMAIN objects' \cup strays /\ strays \cap DOMAIN objects' = {}
        /\ c.resources = lastResources /\ c.housed = wasHoused
    BY <1>1, <1>2, <1>12, <2>2, <2>3, <2>6, <2>7 DEF Accurate, Holds
  <2>9. ASSUME NEW i \in known'[me] \cap DOMAIN objects'
        PROVE  c.objects[i] = ToldTo(me, objects'[i])
    <3>1. CASE i = id
      <4>1. p = me /\ i \notin S /\ objects'[i] = b
        BY <1>1, <1>2, <1>9, <2>2, <2>7, <2>9, <3>1
      <4> QED
        BY <2>3, <2>6, <3>1, <4>1
    <3>2. CASE i # id /\ i \in builders
      <4>1. i \in DOMAIN d.objects
        BY <2>6, <2>8, <2>9
      <4>2. CASE i \in S
        BY <2>6, <3>2, <4>1, <4>2 DEF W
      <4>3. CASE i \notin S
        BY <1>4, <1>10, <2>4, <2>6, <3>2, <4>1, <4>3
      <4> QED
        BY <4>2, <4>3
    <3>3. CASE i # id /\ i \notin builders
      <4>1. i \in DOMAIN objects /\ i \in known[me] /\ objects'[i] = objects[i] /\ i \notin S
        BY <1>1, <1>9, <2>7, <2>9, <3>3
      <4> QED
        BY <1>12, <2>2, <2>3, <2>6, <4>1 DEF Accurate, Holds
    <3> QED
      BY <3>1, <3>2, <3>3
  <2>10. AccurateNext(c)
    BY <2>8, <2>9 DEF AccurateNext, Holds
  <2> QED
    BY <2>1, <2>10
<1>13. Conveys(A \o T)
  BY <1>11, <1>12 DEF Conveys
<1> QED
  BY <1>13 DEF A, T, told, S

\* Whatever the server does but for the end of a step, what it says is all there is to say.
LEMMA ServerConveys ==
    ASSUME MatchInv, BooksOK, StraysOld, me \in Players, MatchNext,
           ~Told_EndStep, ~ParseMessagesUntil, ~PressResign
    PROVE  \E msgs : Conveys(msgs) /\ Tell(msgs)
<1>0. \A msgs : Tell(msgs) => me' = me
  BY DEF Tell
<1>1. CASE Told_MoveToMapCoord
  BY <1>1, MoveConveys DEF Told_MoveToMapCoord, TellCommand
<1>2. CASE Told_SetTarget
  BY <1>2, TargetConveys DEF Told_SetTarget, TellCommand
<1>3. CASE Told_ProduceUnit
  BY <1>3, ProduceConveys DEF Told_ProduceUnit, TellCommand
<1>4. CASE Told_DequeueProductionQueueItem
  BY <1>4, DequeueConveys DEF Told_DequeueProductionQueueItem, TellCommand
<1>5. CASE Told_PlaceBuildingFoundation
  <2> DEFINE Sent(builders) == SetToSeq({u \in builders : objects[u].type # "Builder"})
             Said(builders) ==
               ToOwner(objects'[nextObjectID], AddObject(nextObjectID, objects'[nextObjectID]))
                 \o [i \in DOMAIN Sent(builders) |->
                       Message("ChangeUnitType", Sent(builders)[i], "Builder")]
  <2>1. PICK p \in Players : \E t \in PlaceableTypes : \E tiles \in Footprints[t] :
               \E builders \in SUBSET {u \in DOMAIN objects : OwnUnit(p, u)} :
                 /\ HandlePlaceBuildingFoundation(p, t, tiles, builders)
                 /\ TellCommand(Said(builders))
    BY <1>5 DEF Told_PlaceBuildingFoundation
  <2>2. PICK t \in PlaceableTypes : \E tiles \in Footprints[t] :
               \E builders \in SUBSET {u \in DOMAIN objects : OwnUnit(p, u)} :
                 /\ HandlePlaceBuildingFoundation(p, t, tiles, builders)
                 /\ TellCommand(Said(builders))
    BY <2>1
  <2>3. PICK tiles \in Footprints[t] :
               \E builders \in SUBSET {u \in DOMAIN objects : OwnUnit(p, u)} :
                 /\ HandlePlaceBuildingFoundation(p, t, tiles, builders)
                 /\ TellCommand(Said(builders))
    BY <2>2
  <2>4. PICK builders \in SUBSET {u \in DOMAIN objects : OwnUnit(p, u)} :
                 /\ HandlePlaceBuildingFoundation(p, t, tiles, builders)
                 /\ TellCommand(Said(builders))
    BY <2>3
  <2>5. Conveys(Said(builders))
    BY <2>4, PlaceConveys
  <2> HIDE DEF Said
  <2> QED
    BY <2>4, <2>5 DEF TellCommand
<1>6. CASE Told_DeleteObject
  BY <1>6, DeleteConveys DEF Told_DeleteObject, TellCommand
<1>7. CASE Told_PlayerGone
  <2>1. PICK p \in Players : (Resign(p) \/ Drop(p)) /\ TellCommand(<<>>)
    BY <1>7 DEF Told_PlayerGone
  <2>2. Tell(<<>>)
    BY <2>1 DEF TellCommand
  <2>3. Conveys(<<>>)
    BY <1>0, <2>1, <2>2, GoneConveys
  <2> QED
    BY <2>2, <2>3
<1>8. CASE Told_Polled
  BY <1>8, StillConveys DEF Told_Polled, TellVisit, EndPoll, EndIteration
<1>9. CASE Told_BeginStep
  BY <1>9, StillConveys DEF Told_BeginStep, BeginStep
<1>10. CASE Told_ContinueAttack
  <2> DEFINE Said(u) ==
               IF objects[u].clock + 1 # DamageTime \/ objects[u].target \notin DOMAIN objects
                 THEN <<>>
               ELSE IF objects[objects[u].target].hp = 1 THEN ObjectDeath(objects[u].target)
                    ELSE HPUpdate(objects[u].target)
  <2>1. PICK u \in UnitsToVisit : ContinueAttack(u) /\ TellVisit(Said(u))
    BY <1>10 DEF Told_ContinueAttack
  <2>2. Conveys(Said(u))
    BY <2>1, AttackConveys
  <2> HIDE DEF Said
  <2> QED
    BY <2>1, <2>2 DEF TellVisit
<1>11. CASE Told_Move
  BY <1>11, VisitConveys DEF Told_Move, TellVisit
<1>12. CASE Told_Construct
  <2> DEFINE Said(u) ==
               ChangeUnitType(u)
                 \o (IF IsFoundation(objects[Ready(u).target]) /\ objects[Ready(u).target].owner # me
                       THEN AddObject(Ready(u).target, objects[Ready(u).target]) ELSE <<>>)
                 \o <<Message("BuildPercentageUpdate", Ready(u).target,
                              objects'[Ready(u).target].built)>>
                 \o HPUpdate(Ready(u).target) \o UnitMovement(u)
  <2>1. PICK u \in UnitsToVisit : Construct(u) /\ TellVisit(Said(u))
    BY <1>12 DEF Told_Construct
  <2>2. Conveys(Said(u))
    BY <2>1, ConstructConveys
  <2> HIDE DEF Said
  <2> QED
    BY <2>1, <2>2 DEF TellVisit
<1>13. CASE Told_Gather
  <2> DEFINE Said(u) == (IF objects'[u].carried = objects[u].carried THEN <<>>
                          ELSE SetCarriedResources(u)) \o ChangeUnitType(u) \o UnitMovement(u)
  <2>1. PICK u \in UnitsToVisit : Gather(u) /\ TellVisit(Said(u))
    BY <1>13 DEF Told_Gather
  <2>2. Conveys(Said(u))
    BY <2>1, GatherConveys
  <2> HIDE DEF Said
  <2> QED
    BY <2>1, <2>2 DEF TellVisit
<1>14. CASE Told_DropOff
  <2> DEFINE Said(u) == SetCarriedResources(u) \o ChangeUnitType(u) \o UnitMovement(u)
  <2>1. PICK u \in UnitsToVisit : DropOff(u) /\ TellVisit(Said(u))
    BY <1>14 DEF Told_DropOff
  <2>2. Conveys(Said(u))
    BY <2>1, DropOffConveys
  <2> HIDE DEF Said
  <2> QED
    BY <2>1, <2>2 DEF TellVisit
<1>15. CASE Told_StartProduction
  BY <1>15, StartConveys DEF Told_StartProduction, TellVisit
<1>16. CASE Told_WaitForSpace
  BY <1>16, StillConveys DEF Told_WaitForSpace, WaitForSpace
<1>17. CASE Told_ContinueProduction
  BY <1>17, ContinueConveys DEF Told_ContinueProduction, TellVisit
<1>18. CASE Told_CompleteProduction
  <2> DEFINE Said(b) == AddObject(nextObjectID, objects'[nextObjectID])
                          \o ToOwner(objects[b], <<Message("RemoveFromProductionQueue", b, 1)>>)
  <2>1. PICK b \in BuildingsToVisit : CompleteProduction(b) /\ TellVisit(Said(b))
    BY <1>18 DEF Told_CompleteProduction
  <2>2. me' = me
    BY <2>1 DEF TellVisit, Tell
  <2>3. Conveys(Said(b))
    BY <2>1, <2>2, CompleteConveys
  <2> HIDE DEF Said
  <2> QED
    BY <2>1, <2>3 DEF TellVisit
<1> QED
  BY <1>1, <1>2, <1>3, <1>4, <1>5, <1>6, <1>7, <1>8, <1>9, <1>10, <1>11, <1>12, <1>13, <1>14,
     <1>15, <1>16, <1>17, <1>18 DEF MatchNext

(***************************************************************************)
(* The copies that were published are those the client comes to.           *)
(***************************************************************************)
\* The objects of this step that the client will not be told to remove.
Doomed == known[me] \cap objectDeleteList

\* The client does not get to see an object of D before the step ends.
Unseen(D, v, s) == \A k \in 0 .. Len(s) : D \cap DOMAIN Heard(v, s, k).objects = {}

CopyInv ==
    /\ Formed(client) /\ Listed(published) /\ Len(published) = StepsOn(stream)
    /\ UpToDate(Trim(client), stream, whole, published, strays)
    /\ StraysOld
    /\ Unseen(Doomed, Trim(client), stream)
    /\ me \in connected => Accurate(Hears(Hears(Trim(client), stream), accumulated))

\* The copy that is made from a client has a map.
LEMMA TrimHasMap ==
    ASSUME NEW c, Formed(c)
    PROVE  HasMap(Trim(c))
BY TrimIs DEF HasMap, Formed, Trim, Held3

\* An object becomes one of those only when it is a foundation of another player.
LEMMA DoomedHidden ==
    ASSUME MatchInv, BooksOK, me \in Players, me' = me, [Next]_vars,
           NEW x \in known'[me] \cap objectDeleteList'
    PROVE  x \in Doomed \/ (x \in DOMAIN objects /\ Hidden(x))
<1> DEFINE Goal == x \in Doomed \/ (x \in DOMAIN objects /\ Hidden(x))
<1>0. /\ objectDeleteList \subseteq DOMAIN objects /\ nextObjectID \notin DOMAIN objects
      /\ known \in [Players -> SUBSET ObjectIds]
  BY DEF MatchInv, MapInv, MapOK, BooksOK
<1>1. CASE objectDeleteList' = objectDeleteList /\ known'[me] \subseteq known[me]
  BY <1>1 DEF Doomed
<1>2. ASSUME objectDeleteList' = objectDeleteList, NEW R, known' = AddKnown(nextObjectID, R)
      PROVE  Goal
  <2>1. known'[me] \subseteq known[me] \cup {nextObjectID}
    BY <1>2 DEF AddKnown
  <2> QED
    BY <1>0, <1>2, <2>1 DEF Doomed
<1>3. ASSUME NEW id \in DOMAIN objects, NEW manually, DeleteObject(id, manually) PROVE Goal
  <2>1. CASE id \in objectDeleteList
    BY <1>3, <2>1 DEF DeleteObject, Doomed
  <2>2. CASE id \notin objectDeleteList
    <3> DEFINE o == objects[id]
    <3>1. /\ objectDeleteList' = objectDeleteList \cup {id}
          /\ known'[me] = IF me = o.owner /\ Defeated(o.owner, id) THEN {}
                          ELSE IF IsBuilding(o) /\ IsFoundation(o) /\ me # o.owner THEN known[me]
                          ELSE known[me] \ {id}
      BY <1>3, <2>2 DEF DeleteObject
    <3>2. x \in known[me] /\ (x = id => Hidden(id))
      BY <3>1 DEF Hidden
    <3> QED
      BY <1>3, <3>1, <3>2 DEF Doomed
  <2> QED
    BY <2>1, <2>2
<1>4. ASSUME NEW p \in Players, Command(p) PROVE Goal
  <2>1. ASSUME NEW id \in DOMAIN objects, HandleDeleteObject(p, id) PROVE Goal
    BY <1>3, <2>1 DEF HandleDeleteObject
  <2>2. CASE Resign(p) \/ Drop(p)
    <3>1. objectDeleteList' = objectDeleteList /\ known' = [known EXCEPT ![p] = {}]
      BY <2>2 DEF Resign, Drop, PlayerGone
    <3> QED
      BY <1>0, <1>1, <3>1
  <2>3. ASSUME NEW u \in DOMAIN objects, HandleMoveToMapCoord(p, u) PROVE Goal
    BY <1>1, <2>3 DEF HandleMoveToMapCoord
  <2>4. ASSUME NEW u \in DOMAIN objects, NEW t \in DOMAIN objects, HandleSetTarget(p, u, t)
        PROVE  Goal
    BY <1>1, <2>4 DEF HandleSetTarget
  <2>5. ASSUME NEW b \in DOMAIN objects, NEW t, HandleProduceUnit(p, b, t) PROVE Goal
    BY <1>1, <2>5 DEF HandleProduceUnit
  <2>6. ASSUME NEW b \in DOMAIN objects, NEW k, HandleDequeueProductionQueueItem(p, b, k)
        PROVE  Goal
    BY <1>1, <2>6 DEF HandleDequeueProductionQueueItem
  <2>7. ASSUME NEW t, NEW tiles, NEW builders,
               HandlePlaceBuildingFoundation(p, t, tiles, builders)
        PROVE  Goal
    BY <1>2, <2>7 DEF HandlePlaceBuildingFoundation
  <2> HIDE DEF Goal
  <2> QED
    BY <1>4, <2>1, <2>2, <2>3, <2>4, <2>5, <2>6, <2>7 DEF Command
<1>5. ASSUME NEW id \in todo, VisitObject(id) PROVE Goal
  <2>1. ASSUME ContinueAttack(id) PROVE Goal
    <3>1. CASE UNCHANGED <<objectDeleteList, known>>
      BY <1>1, <3>1
    <3>2. CASE ~UNCHANGED <<objectDeleteList, known>>
      <4>1. objects[id].target \in DOMAIN objects /\ DeleteObject(objects[id].target, FALSE)
        BY <2>1, <3>2 DEF ContinueAttack
      <4> QED
        BY <1>3, <4>1
    <3> QED
      BY <3>1, <3>2
  <2>2. CASE Construct(id)
    <3> DEFINE t == Ready(id).target
    <3>1. /\ t \in DOMAIN objects /\ objectDeleteList' = objectDeleteList
          /\ IsBuilding(objects[t])
          /\ known' = IF IsFoundation(objects[t]) THEN AddKnown(t, Players \ {objects[t].owner})
                      ELSE known
      BY <2>2, ConstructLasts DEF Construct
    <3>2. x \in known[me] \/ (x = t /\ IsFoundation(objects[t]) /\ objects[t].owner # me)
      BY <3>1 DEF AddKnown
    <3> HIDE DEF t
    <3> QED
      BY <3>1, <3>2 DEF Doomed, Hidden
  <2>3. CASE Walk(id) \/ BeginAttack(id) \/ ConstructionBlocked(id)
    BY <1>1, <2>3 DEF Walk, BeginAttack, ConstructionBlocked
  <2>4. CASE Gather(id) \/ DropOff(id)
    BY <1>1, <2>4 DEF Gather, DropOff
  <2>5. CASE StartProduction(id) \/ WaitForSpace(id) \/ ContinueProduction(id)
    BY <1>1, <2>5 DEF StartProduction, WaitForSpace, ContinueProduction
  <2>6. CASE CompleteProduction(id)
    BY <1>2, <2>6 DEF CompleteProduction
  <2> HIDE DEF Goal
  <2> QED
    BY <1>5, <2>1, <2>2, <2>3, <2>4, <2>5, <2>6 DEF VisitObject, VisitedUnit, VisitedBuilding
<1>6. CASE EndPoll \/ EndIteration \/ BeginStep
  BY <1>1, <1>6 DEF EndPoll, EndIteration, BeginStep
<1>7. CASE EndStep
  BY <1>7 DEF EndStep
<1>8. CASE UNCHANGED vars
  BY <1>1, <1>8 DEF vars
<1> QED
  BY <1>4, <1>5, <1>6, <1>7, <1>8 DEF Next, SimulateStep

\* Such a foundation is on no map of the client's, whatever it handles.
LEMMA HiddenUnseen ==
    ASSUME OutcomeInv, MirrorInv, Formed(client), NEW x \in DOMAIN objects, Hidden(x),
           NEW k \in 0 .. Len(stream)
    PROVE  x \notin DOMAIN Heard(Trim(client), stream, k).objects
<1> DEFINE c == Handled(k)
<1>1. Trim(c) = Heard(Trim(client), stream, k) /\ Sound(c, Later(k))
  BY HandledHears, SoundAfter
<1> HIDE DEF c
<1>2. Trim(c).objects = c.objects
  BY TrimIs
<1>3. ASSUME x \in DOMAIN c.objects PROVE FALSE
  <2> DEFINE m == Added(c, x)
  <2>1. Fact(m) /\ m.type = "AddObject" /\ m.id = x
    BY <1>1, <1>3 DEF Sound, Added, Message
  <2> HIDE DEF m
  <2> QED
    BY <2>1 DEF Fact
<1> QED
  BY <1>1, <1>2, <1>3

\* So none of them is seen after a step either.
LEMMA DoomedUnseen ==
    ASSUME MatchInv, BooksOK, OutcomeInv, MirrorInv, CopyInv, me' = me, [Next]_vars
    PROVE  Unseen(known'[me] \cap objectDeleteList', Trim(client), stream)
<1>1. ASSUME NEW x \in known'[me] \cap objectDeleteList', NEW k \in 0 .. Len(stream)
      PROVE  x \notin DOMAIN Heard(Trim(client), stream, k).objects
  <2>1. me \in Players /\ Formed(client) /\ Unseen(Doomed, Trim(client), stream)
    BY DEF OutcomeInv, CopyInv
  <2>2. CASE x \in Doomed
    BY <2>1, <2>2 DEF Unseen
  <2>3. CASE x \in DOMAIN objects /\ Hidden(x)
    BY <2>1, <2>3, HiddenUnseen
  <2> QED
    BY <2>1, <2>2, <2>3, DoomedHidden
<1> QED
  BY <1>1 DEF Unseen

\* The news of a player that left does not change what is seen.
LEMMA UnseenLeavers ==
    ASSUME NEW D, NEW v, HasMap(v), NEW s, NEW t, Listed(s), Listed(t),
           \A i \in 1 .. Len(t) : t[i].type = "PlayerLeaveBroadcast", Unseen(D, v, s)
    PROVE  Unseen(D, v, s \o t)
<1> SUFFICES ASSUME NEW k \in 0 .. Len(s \o t)
             PROVE  D \cap DOMAIN Heard(v, s \o t, k).objects = {}
  BY DEF Unseen
<1>1. Len(s) \in Nat /\ Len(t) \in Nat /\ Len(s \o t) = Len(s) + Len(t)
  BY LenProperties, ConcatProperties DEF Listed
<1>2. CASE k <= Len(s)
  <2>1. k \in 0 .. Len(s)
    BY <1>1, <1>2
  <2> QED
    BY <2>1, HeardWithin DEF Unseen
<1>3. CASE k > Len(s)
  <2> DEFINE j == k - Len(s)
             w == Hears(v, s)
  <2>1. j \in 0 .. Len(t) /\ k = Len(s) + j /\ j \in Nat /\ Len(s) \in 0 .. Len(s)
    BY <1>1, <1>3
  <2> HIDE DEF j
  <2>2. Heard(v, s \o t, k) = Heard(w, t, j)
    BY <2>1, HeardBeyond
  <2>3. HasMap(w) /\ w = Heard(v, s, Len(s))
    BY <1>1, HeardMap DEF Hears
  <2> HIDE DEF w
  <2>4. \A i \in 1 .. j : t[i].type \in {"PlayerLeaveBroadcast", "GameStepTime"}
    BY <1>1, <2>1
  <2>5. Heard(w, t, j) = w
    BY <2>1, <2>3, <2>4, NothingHeard
  <2> QED
    BY <2>1, <2>2, <2>3, <2>5 DEF Unseen
<1> QED
  BY <1>1, <1>2, <1>3

\* What was old stays so.
LEMMA OldStays ==
    ASSUME NEW a \in Nat, NEW b \in Nat, a <= b, NEW S, S \subseteq 1 .. a - 1
    PROVE  S \subseteq 1 .. b - 1
OBVIOUS

\* What is needed of the copies after a step.
LEMMA CopyAfter ==
    ASSUME me' = me, NEW c, c = client', NEW s, s = stream', NEW w, w = whole', NEW p, p = published',
           NEW a, a = accumulated',
           Formed(c), Listed(p), Len(p) = StepsOn(s), UpToDate(Trim(c), s, w, p, strays'),
           strays' \subseteq 1 .. nextObjectID' - 1,
           Unseen(known'[me] \cap objectDeleteList', Trim(c), s),
           me \in connected' => Holds(Hears(Hears(Trim(c), s), a), objects', known'[me], strays', me,
                                      lastResources', wasHoused')
    PROVE  CopyInv'
BY DEF CopyInv, StraysOld, Doomed, Accurate

\* When the server does something, what it says follows what it has said.
LEMMA ServerCopies ==
    ASSUME MatchInv, BooksOK, OutcomeInv, MirrorInv, CopyInv, [MatchNext]_allVars,
           NEW msgs, Conveys(msgs), Tell(msgs)
    PROVE  CopyInv'
<1> DEFINE L == LeaveBroadcast
           v == Trim(client)
           s == stream \o L
           a == IF me \in connected' THEN accumulated \o msgs ELSE <<>>
           e == Hears(Hears(v, stream), accumulated)
<1>1. [Next]_vars /\ Leaving /\ AllLast
  BY MatchIsNext, LeaversGo, StepLasts
<1>2. /\ a = accumulated' /\ s = stream' /\ me' = me /\ strays' = strays /\ client = client'
      /\ whole = whole' /\ published = published' /\ lastResources' = lastResources
      /\ wasHoused' = wasHoused
  BY DEF Tell
<1>3. /\ Formed(client) /\ Listed(published) /\ Len(published) = StepsOn(stream)
      /\ UpToDate(v, stream, whole, published, strays) /\ StraysOld
      /\ me \in connected => Accurate(e)
      /\ Listed(stream) /\ Listed(accumulated) /\ Listed(msgs)
  BY DEF CopyInv, OutcomeInv, Spoken, Conveys
<1>4. Listed(L) /\ \A i \in 1 .. Len(L) : L[i].type = "PlayerLeaveBroadcast"
  <2>1. Listed(L) /\ \A m \in Elements(L) : m.type = "PlayerLeaveBroadcast"
    BY <1>1, TrueBroadcast
  <2> HIDE DEF L
  <2> QED
    BY <2>1, LenProperties DEF Listed, Elements
<1>5. HasMap(v) /\ Unseen(known'[me] \cap objectDeleteList', v, stream)
  BY <1>1, <1>2, <1>3, TrimHasMap, DoomedUnseen
<1> HIDE DEF L, v
<1>6. /\ UpToDate(v, s, whole, published, strays) /\ Len(published) = StepsOn(s)
      /\ Hears(v, s) = Hears(v, stream)
  BY <1>3, <1>4, <1>5, UpToDateLeavers
<1>7. Unseen(known'[me] \cap objectDeleteList', v, s)
  BY <1>3, <1>4, <1>5, UnseenLeavers
<1>8. strays' \subseteq 1 .. nextObjectID' - 1
  <2>1. strays \subseteq 1 .. nextObjectID - 1 /\ strays' = strays
    BY <1>2, <1>3 DEF StraysOld
  <2>2. nextObjectID \in Nat /\ nextObjectID' \in Nat /\ nextObjectID <= nextObjectID'
    BY <1>1 DEF AllLast
  <2> QED
    BY <2>1, <2>2, OldStays
<1>9. ASSUME me \in connected'
      PROVE  Holds(Hears(Hears(v, s), a), objects', known'[me], strays', me,
                   lastResources', wasHoused')
  <2>1. Accurate(e) /\ a = accumulated \o msgs
    BY <1>1, <1>3, <1>9 DEF Leaving
  <2>2. AccurateNext(Hears(e, msgs))
    BY <1>9, <2>1 DEF Conveys
  <2>3. Hears(Hears(v, s), a) = Hears(e, msgs)
    <3> DEFINE x == Hears(v, stream)
    <3>1. Hears(Hears(v, s), a) = Hears(x, accumulated \o msgs) /\ e = Hears(x, accumulated)
      BY <1>6, <2>1
    <3> HIDE DEF x, e, s, a
    <3>2. Listed(accumulated) /\ Listed(msgs)
      BY <1>3
    <3> QED
      BY <3>1, <3>2, HearsTogether
  <2> QED
    BY <1>2, <2>2, <2>3 DEF AccurateNext
<1> HIDE DEF s, a, e
<1> DEFINE c == client
           w == whole
           p == published
<1>10. /\ c = client' /\ w = whole' /\ p = published' /\ Formed(c) /\ Listed(p)
       /\ Len(p) = StepsOn(s) /\ UpToDate(Trim(c), s, w, p, strays')
       /\ Unseen(known'[me] \cap objectDeleteList', Trim(c), s)
       /\ me \in connected' => Holds(Hears(Hears(Trim(c), s), a), objects', known'[me], strays', me,
                                     lastResources', wasHoused')
  BY <1>2, <1>3, <1>6, <1>7, <1>9 DEF v
<1> HIDE DEF c, w, p
<1> QED
  BY <1>2, <1>8, <1>10, CopyAfter

\* The player that resigns changes nothing of the copy.
LEMMA ResignCopies ==
    ASSUME CopyInv, PressResign \/ UNCHANGED allVars
    PROVE  CopyInv'
<1> DEFINE c == IF PressResign THEN [client EXCEPT !.players[me] = "Resign"] ELSE client
           s == stream
           w == whole
           p == published
           a == accumulated
<1>1. /\ c = client' /\ s = stream' /\ w = whole' /\ p = published' /\ a = accumulated'
      /\ me' = me /\ strays' = strays /\ nextObjectID' = nextObjectID /\ known' = known
      /\ objectDeleteList' = objectDeleteList /\ connected' = connected /\ objects' = objects
      /\ lastResources' = lastResources /\ wasHoused' = wasHoused
  BY DEF PressResign, allVars, vars, serverVars, clientVars
<1>2. Formed(c) /\ Trim(c) = Trim(client)
  BY DEF CopyInv, Formed, Trim, Held3
<1>3. /\ Listed(p) /\ Len(p) = StepsOn(s) /\ UpToDate(Trim(client), s, w, p, strays)
      /\ strays \subseteq 1 .. nextObjectID - 1
      /\ Unseen(known[me] \cap objectDeleteList, Trim(client), s)
      /\ me \in connected => Holds(Hears(Hears(Trim(client), s), a), objects, known[me], strays, me,
                                   lastResources, wasHoused)
  BY DEF CopyInv, StraysOld, Doomed, Accurate
<1> HIDE DEF c, s, w, p, a
<1> QED
  BY <1>1, <1>2, <1>3, CopyAfter

\* What is said at the end of a step besides what was accumulated: of being housed and
\* of the resources.
HousedNews ==
    IF housed = wasHoused THEN <<>> ELSE <<Message("SetHoused", 0, housed)>>

ResourceNews ==
    IF resources[me] = lastResources THEN <<>>
    ELSE <<Message("ResourcesUpdate", 0, resources[me])>>

\* The client then has what the server has.
LEMMA HousedHeard ==
    ASSUME NEW e, HasMap(e), e.housed = wasHoused
    PROVE  LET d == Hears(e, HousedNews)
           IN  HasMap(d) /\ d.objects = e.objects /\ d.resources = e.resources /\ d.housed = housed
<1> DEFINE m == Message("SetHoused", 0, housed)
<1>1. CASE housed = wasHoused
  BY <1>1, HearsAlone DEF HousedNews
<1>2. CASE housed # wasHoused
  <2>1. m.type = "SetHoused" /\ m.value = housed
    BY DEF Message
  <2>2. HousedNews = <<m>>
    BY <1>2 DEF HousedNews
  <2> HIDE DEF m
  <2>3. Hears(e, HousedNews) = Hear(e, m) /\ HasMap(Hear(e, m))
    BY <2>2, HearsAlone, HearsMap
  <2>4. Mapped(e.objects, m) = e.objects
    BY <2>1 DEF Mapped, Details, ObjectMessages
  <2> QED
    BY <2>1, <2>3, <2>4, HearIs
<1> QED
  BY <1>1, <1>2

\* The same of the resources.
LEMMA ResourcesHeard ==
    ASSUME NEW e, HasMap(e), e.resources = lastResources
    PROVE  LET d == Hears(e, ResourceNews)
           IN  HasMap(d) /\ d.objects = e.objects /\ d.resources = resources[me]
               /\ d.housed = e.housed
<1> DEFINE m == Message("ResourcesUpdate", 0, resources[me])
<1>1. CASE resources[me] = lastResources
  BY <1>1, HearsAlone DEF ResourceNews
<1>2. CASE resources[me] # lastResources
  <2>1. m.type = "ResourcesUpdate" /\ m.value = resources[me]
    BY DEF Message
  <2>2. ResourceNews = <<m>>
    BY <1>2 DEF ResourceNews
  <2> HIDE DEF m
  <2>3. Hears(e, ResourceNews) = Hear(e, m) /\ HasMap(Hear(e, m))
    BY <2>2, HearsAlone, HearsMap
  <2>4. Mapped(e.objects, m) = e.objects
    BY <2>1 DEF Mapped, Details, ObjectMessages
  <2> QED
    BY <2>1, <2>3, <2>4, HearIs
<1> QED
  BY <1>1, <1>2

\* Who has heard all that was accumulated and hears the rest knows all of the match.
LEMMA EndHeard ==
    ASSUME NEW x, Spoken(accumulated), Accurate(Hears(x, accumulated))
    PROVE  Holds(Hears(x, NewsAtEnd), objects, known[me], strays, me, resources[me], housed)
<1> DEFINE e == Hears(x, accumulated)
           h == HousedNews
           r == ResourceNews
           a == accumulated
           d == Hears(e, h)
           f == Hears(d, r)
<1>1. /\ HasMap(e) /\ e.housed = wasHoused /\ e.resources = lastResources
  BY DEF Accurate, Holds
<1>2. HasMap(d) /\ d.objects = e.objects /\ d.resources = e.resources /\ d.housed = housed
  BY <1>1, HousedHeard
<1>3. d.resources = lastResources
  BY <1>1, <1>2
<1> HIDE DEF d
<1>4. HasMap(f) /\ f.objects = d.objects /\ f.resources = resources[me] /\ f.housed = d.housed
  BY <1>2, <1>3, ResourcesHeard
<1>5. NewsAtEnd = (a \o h) \o r
  BY DEF NewsAtEnd, HousedNews, ResourceNews
<1>6. Listed(h) /\ Listed(r) /\ Listed(a)
  BY FewListed DEF Spoken, HousedNews, ResourceNews
<1> HIDE DEF h, r, a
<1>7. Listed(a \o h)
  BY <1>6, ConcatListed
<1>8. Hears(x, (a \o h) \o r) = Hears(Hears(x, a \o h), r) /\ Hears(x, a \o h) = Hears(Hears(x, a), h)
  BY <1>6, <1>7, HearsTogether
<1>9. Hears(x, NewsAtEnd) = f
  BY <1>5, <1>8 DEF f, d, e, a
<1> HIDE DEF f
<1>10. f.objects = e.objects /\ f.housed = housed
  BY <1>2, <1>4
<1> QED
  BY <1>4, <1>9, <1>10 DEF Accurate, Holds

\* The time of the step in front of it says nothing of the match.
LEMMA TimeHeard ==
    ASSUME NEW x, HasMap(x)
    PROVE  Hears(x, <<Message("GameStepTime", 0, 0)>>) = x
<1> DEFINE m == Message("GameStepTime", 0, 0)
<1>1. m.type = "GameStepTime"
  BY DEF Message
<1> HIDE DEF m
<1>2. Mapped(x.objects, m) = x.objects
  BY <1>1 DEF Mapped, Details, ObjectMessages
<1>3. Hear(x, m) = x
  BY <1>1, <1>2 DEF Hear, HasMap
<1> QED
  BY <1>3, HearsAlone DEF m

\* What is written at the end of a step is one step.
LEMMA WrittenStep ==
    ASSUME Spoken(NewsAtEnd), NewsAtEnd # <<>>
    PROVE  OneStep(<<Message("GameStepTime", 0, 0)>> \o NewsAtEnd)
<1> DEFINE m == Message("GameStepTime", 0, 0)
           q == NewsAtEnd
           t == <<m>> \o q
<1>1. m.type = "GameStepTime"
  BY DEF Message
<1>2. Listed(q) /\ \A i \in 1 .. Len(q) : IsNews(q[i])
  <2>1. Listed(q) /\ \A x \in Elements(q) : x.type \in NewsTypes
    BY DEF Spoken
  <2> HIDE DEF q
  <2>2. \A i \in 1 .. Len(q) : q[i].type \in NewsTypes
    BY <2>1, LenProperties DEF Listed, Elements
  <2> QED
    BY <2>1, <2>2 DEF IsNews, NewsTypes, ObjectMessages
<1>3. q # <<>>
  OBVIOUS
<1> HIDE DEF m, q
<1>4. Listed(<<m>>) /\ Listed(t)
  BY <1>2, FewListed, ConcatListed
<1>5. Len(q) \in Nat /\ Len(q) # 0
  BY <1>2, <1>3, LenProperties, EmptySeq DEF Listed
<1>6. Len(t) = Len(q) + 1 /\ t[1] = m /\ \A i \in 1 .. Len(q) : t[i + 1] = q[i]
  <2>1. <<m>> \in Seq({m} \cup Elements(q)) /\ q \in Seq({m} \cup Elements(q)) /\ Len(<<m>>) = 1
    BY <1>2 DEF Listed
  <2> QED
    BY <1>5, <2>1, ConcatProperties
<1> HIDE DEF t
<1>7. \A i \in 2 .. Len(t) : IsNews(t[i])
  <2>1. ASSUME NEW i \in 2 .. Len(t) PROVE IsNews(t[i])
    <3>1. i - 1 \in 1 .. Len(q) /\ (i - 1) + 1 = i
      BY <1>5, <1>6
    <3> QED
      BY <1>2, <1>6, <3>1
  <2> QED
    BY <2>1
<1> QED
  BY <1>1, <1>4, <1>5, <1>6, <1>7 DEF OneStep, t, m, q

\* Three sequences, one after the other.
LEMMA TogetherTwice ==
    ASSUME NEW s, NEW t, NEW q, Listed(s), Listed(t), Listed(q)
    PROVE  (s \o t) \o q = s \o (t \o q)
<1> DEFINE A == Elements(s) \cup Elements(t) \cup Elements(q)
<1>1. s \in Seq(A) /\ t \in Seq(A) /\ q \in Seq(A)
  BY SeqDef DEF Listed
<1> QED
  BY <1>1, ConcatAssociative

\* One more.
LEMMA AppendListed ==
    ASSUME NEW p, Listed(p), NEW c
    PROVE  /\ Listed(Append(p, c)) /\ Len(p) \in Nat /\ Len(Append(p, c)) = Len(p) + 1
           /\ Append(p, c)[Len(p) + 1] = c
           /\ \A i \in 1 .. Len(p) : Append(p, c)[i] = p[i]
<1> DEFINE A == Elements(p) \cup {c}
<1>1. p \in Seq(A)
  BY SeqDef DEF Listed
<1>2. Append(p, c) \in Seq(A)
  BY <1>1, AppendProperties
<1>3. Listed(Append(p, c))
  BY <1>2, IsListed
<1> QED
  BY <1>1, <1>3, AppendProperties, LenProperties

\* The copy that is made from what a client has when it has handled a whole step is that of
\* the match, once the client has forgotten the strays.
LEMMA PublishedIs ==
    ASSUME MapOK, StraysOld, NEW e, NEW str, str = strays \cup Doomed,
           Holds(e, objects, known[me], strays, me, resources[me], housed)
    PROVE  /\ CopyFrom(e, str) = PublishedCopy
           /\ Holds(e, [id \in Live |-> objects[id]], known[me], str, me, resources[me], housed)
<1> DEFINE k == known[me]
           f == e.objects
           D == objectDeleteList
<1>1. /\ HasMap(e) /\ DOMAIN f = k /\ k \subseteq DOMAIN objects \cup strays
      /\ strays \cap DOMAIN objects = {}
      /\ \A id \in k \cap DOMAIN objects : f[id] = ToldTo(me, objects[id])
      /\ e.resources = resources[me] /\ e.housed = housed
  BY DEF Holds
<1>2. str = strays \cup (k \cap D) /\ D \subseteq DOMAIN objects /\ Live = DOMAIN objects \ D
  BY DEF Doomed, MapOK, Live
<1> HIDE DEF k, f, D
<1>3. k \ str = k \cap Live
  BY <1>1, <1>2
<1>4. \A id \in k \cap Live : f[id] = Told(objects[id])
  BY <1>1, <1>2, ToldIs
<1>5. [id \in DOMAIN f \ str |-> f[id]] = [id \in k \cap Live |-> Told(objects[id])]
  BY <1>1, <1>3, <1>4
<1>6. CopyFrom(e, str) = PublishedCopy
  BY <1>1, <1>5 DEF CopyFrom, PublishedCopy, f, k
<1> DEFINE g == [id \in Live |-> objects[id]]
<1>7. /\ k \subseteq DOMAIN g \cup str /\ str \cap DOMAIN g = {}
      /\ \A id \in k \cap DOMAIN g : f[id] = ToldTo(me, g[id])
  BY <1>1, <1>2
<1> HIDE DEF g
<1>8. Holds(e, g, k, str, me, resources[me], housed)
  BY <1>1, <1>7 DEF Holds, f
<1> QED
  BY <1>6, <1>8 DEF g, k

\* The end of a step publishes the copy of the match as it is then, if there is anything to
\* say, and the client comes to it after it has handled what is written.
LEMMA EndCopies ==
    ASSUME MatchInv, OutcomeInv, CopyInv, Told_EndStep
    PROVE  /\ CopyInv'
           /\ UNCHANGED published \/ published' = Append(published, PublishedCopy)
           /\ whole' = whole /\ Listed(published)
<1> DEFINE v   == Trim(client)
           T   == <<Message("GameStepTime", 0, 0)>>
           t   == T \o NewsAtEnd
           e   == Hears(Hears(v, stream), accumulated)
           str == strays \cup Doomed
           g   == [id \in Live |-> objects[id]]
           a   == <<>>
           c   == client
           w   == whole
<1>1. /\ me' = me /\ c = client' /\ w = whole' /\ a = accumulated' /\ strays' = str
      /\ objects' = g /\ objectDeleteList' = {} /\ nextObjectID' = nextObjectID
      /\ connected' = connected /\ known' = known
  BY DEF Told_EndStep, EndStep, Doomed
<1>2. /\ Formed(client) /\ Listed(published) /\ Len(published) = StepsOn(stream)
      /\ UpToDate(v, stream, whole, published, strays) /\ StraysOld
      /\ me \in connected => Accurate(e)
      /\ Listed(stream) /\ Spoken(accumulated) /\ MapOK
      /\ Unseen(Doomed, v, stream)
  BY DEF CopyInv, OutcomeInv, MatchInv, MapInv
<1>3. HasMap(v) /\ Spoken(NewsAtEnd)
  BY <1>2, TrimHasMap, StepSpoken
<1>4. str \subseteq 1 .. nextObjectID' - 1
  BY <1>1, <1>2 DEF StraysOld, Doomed, MapOK
<1>5. \A s : Unseen(known'[me] \cap objectDeleteList', v, s)
  BY <1>1 DEF Unseen
<1>6. UpToDate(v, stream, whole, published, str)
  <2>1. \A k \in 0 .. Len(stream) : (str \ strays) \cap DOMAIN Heard(v, stream, k).objects = {}
    BY <1>2 DEF Unseen
  <2>2. strays \subseteq str
    OBVIOUS
  <2> HIDE DEF v, str
  <2> QED
    BY <1>2, <2>1, <2>2, UpToDateStrays
\* What is heard of what is said at the end of the step, whether it is written or not.
<1>7. ASSUME me \in connected, NEW d, d = Hears(Hears(v, stream), NewsAtEnd)
      PROVE  /\ CopyFrom(d, str) = PublishedCopy
             /\ Holds(d, g, known[me], str, me, resources[me], housed)
  <2> DEFINE x == Hears(v, stream)
  <2>1. Accurate(Hears(x, accumulated)) /\ d = Hears(x, NewsAtEnd)
    BY <1>2, <1>7
  <2> HIDE DEF x
  <2>2. Holds(d, objects, known[me], strays, me, resources[me], housed)
    BY <1>2, <2>1, EndHeard
  <2> QED
    BY <1>2, <2>2, PublishedIs
<1> HIDE DEF v, str, g
<1>8. CASE me \notin connected
  <2> DEFINE s == stream
             p == published
  <2>1. s = stream' /\ p = published'
    BY <1>8 DEF Told_EndStep
  <2>2. /\ Formed(c) /\ Listed(p) /\ Len(p) = StepsOn(s) /\ UpToDate(Trim(c), s, w, p, strays')
        /\ strays' \subseteq 1 .. nextObjectID' - 1
        /\ Unseen(known'[me] \cap objectDeleteList', Trim(c), s)
    BY <1>1, <1>2, <1>4, <1>5, <1>6 DEF v
  <2>3. me \notin connected'
    BY <1>1, <1>8
  <2> HIDE DEF s, p, c, w, a
  <2>4. CopyInv'
    BY <1>1, <2>1, <2>2, <2>3, CopyAfter
  <2> QED
    BY <1>1, <1>2, <2>1, <2>4 DEF p, w
<1>9. CASE me \in connected /\ NewsAtEnd = <<>>
  <2> DEFINE s == stream
             p == published
  <2>1. /\ s = stream' /\ p = published' /\ lastResources' = resources[me] /\ wasHoused' = housed
    BY <1>9 DEF Told_EndStep
  <2>2. /\ Formed(c) /\ Listed(p) /\ Len(p) = StepsOn(s) /\ UpToDate(Trim(c), s, w, p, strays')
        /\ strays' \subseteq 1 .. nextObjectID' - 1
        /\ Unseen(known'[me] \cap objectDeleteList', Trim(c), s)
    BY <1>1, <1>2, <1>4, <1>5, <1>6 DEF v
  <2>3. Holds(Hears(Hears(Trim(c), s), a), objects', known'[me], strays', me,
              lastResources', wasHoused')
    BY <1>1, <1>7, <1>9, <2>1 DEF v
  <2> HIDE DEF s, p, c, w, a
  <2>4. CopyInv'
    BY <1>1, <2>1, <2>2, <2>3, CopyAfter
  <2> QED
    BY <1>1, <1>2, <2>1, <2>4 DEF p, w
<1>10. CASE me \in connected /\ NewsAtEnd # <<>>
  <2> DEFINE s == stream \o t
             p == Append(published, PublishedCopy)
             d == Hears(Hears(v, stream), NewsAtEnd)
  <2>1. OneStep(t) /\ Listed(T) /\ Listed(NewsAtEnd) /\ Listed(t)
    BY <1>3, <1>10, WrittenStep, FewListed, ConcatListed DEF Spoken
  <2>2. /\ s = stream' /\ p = published' /\ lastResources' = resources[me] /\ wasHoused' = housed
    <3>1. /\ stream' = (stream \o T) \o NewsAtEnd /\ p = published'
          /\ lastResources' = resources[me] /\ wasHoused' = housed
      BY <1>10 DEF Told_EndStep
    <3> DEFINE q == NewsAtEnd
    <3> HIDE DEF T, p, q
    <3>2. (stream \o T) \o q = stream \o (T \o q)
      BY <1>2, <2>1, TogetherTwice DEF q
    <3> QED
      BY <3>1, <3>2 DEF q
  <2> HIDE DEF t
  <2>3. Hears(v, s) = d
    <3>1. Hears(v, s) = Hears(Hears(v, stream), t)
      BY <1>2, <2>1, HearsTogether
    <3> DEFINE x == Hears(v, stream)
    <3>2. HasMap(x)
      BY <1>2, <1>3, HeardMap, LenProperties DEF Hears, Listed
    <3> HIDE DEF x
    <3>3. Hears(x, t) = Hears(Hears(x, T), NewsAtEnd)
      BY <2>1, HearsTogether DEF t
    <3>4. Hears(x, T) = x
      BY <3>2, TimeHeard
    <3> QED
      BY <3>1, <3>3, <3>4 DEF x
  <2> HIDE DEF d
  <2>4. CopyFrom(d, str) = PublishedCopy /\ Holds(d, g, known[me], str, me, resources[me], housed)
    BY <1>7, <1>10 DEF d
  <2>5. Listed(p) /\ Len(p) = Len(published) + 1
    BY <1>2, AppendListed
  <2>6. StepsOn(s) = StepsOn(stream) + 1
    BY <1>2, <2>1, StepTogether
  <2>7. UpToDate(v, s, whole, p, str)
    BY <1>2, <1>3, <1>6, <2>1, <2>3, <2>4, UpToDatePublished
  <2>8. /\ Formed(c) /\ Listed(p) /\ Len(p) = StepsOn(s) /\ UpToDate(Trim(c), s, w, p, strays')
        /\ strays' \subseteq 1 .. nextObjectID' - 1
        /\ Unseen(known'[me] \cap objectDeleteList', Trim(c), s)
    BY <1>1, <1>2, <1>4, <1>5, <2>5, <2>6, <2>7 DEF v
  <2>9. Holds(Hears(Hears(Trim(c), s), a), objects', known'[me], strays', me,
              lastResources', wasHoused')
    BY <1>1, <2>2, <2>3, <2>4, HearsAlone DEF v
  <2>10. published' = p
    BY <2>2
  <2> HIDE DEF s, p, c, w, a
  <2>11. CopyInv'
    BY <1>1, <2>2, <2>8, <2>9, CopyAfter
  <2> QED
    BY <1>1, <1>2, <2>10, <2>11 DEF p, w
<1> QED
  BY <1>8, <1>9, <1>10

\* All of a sequence is left when nothing is taken off it.
LEMMA RestOfNone ==
    ASSUME NEW s, Listed(s)
    PROVE  Rest(s, 0) = s
<1>1. 0 \in 0 .. Len(s) /\ Len(s) \in Nat
  BY LenProperties DEF Listed
<1>2. /\ Listed(Rest(s, 0)) /\ Len(Rest(s, 0)) = Len(s) - 0
      /\ \A i \in 1 .. Len(s) - 0 : Rest(s, 0)[i] = s[0 + i]
  BY <1>1, RestListed
<1> DEFINE q == Rest(s, 0)
<1>3. Listed(q) /\ Len(q) = Len(s) /\ \A i \in 1 .. Len(q) : q[i] = s[i]
  BY <1>1, <1>2
<1> HIDE DEF q
<1>4. q = s
  BY <1>3, SameListed
<1> QED
  BY <1>4 DEF q

\* What is before the last element.
LEMMA FrontOfAppend ==
    ASSUME NEW s, Listed(s), NEW c
    PROVE  Front(Append(s, c)) = s /\ Append(s, c) # <<>>
<1> DEFINE q == Append(s, c)
           f == Front(q)
           n == Len(s)
<1>1. Listed(q) /\ n \in Nat /\ Len(q) = n + 1 /\ \A i \in 1 .. n : q[i] = s[i]
  BY AppendListed
<1>3. f = SubSeq(q, 1, n)
  BY <1>1 DEF Front
<1> HIDE DEF q, f
<1>2. q # <<>>
  <2>1. Len(<<>>) = 0
    BY EmptySeq
  <2> QED
    BY <1>1, <2>1
<1>4. Listed(f) /\ Len(f) = n /\ \A i \in 1 .. n : f[i] = q[i]
  <2>1. q \in Seq(Elements(q)) /\ 1 \in 1 .. n + 1 /\ \A i \in 1 .. n : q[i] \in Elements(q)
    BY <1>1, LenProperties DEF Listed, Elements
  <2>2. /\ SubSeq(q, 1, n) \in Seq(Elements(q)) /\ Len(SubSeq(q, 1, n)) = n
        /\ \A i \in 1 .. n : SubSeq(q, 1, n)[i] = q[i]
    BY <1>1, <2>1, SubSeqProperties
  <2> QED
    BY <1>3, <2>2, IsListed
<1>5. f = s
  BY <1>1, <1>4, SameListed
<1> QED
  BY <1>2, <1>5 DEF f, q

\* A frame takes the copy on to the last of the steps it has handled to their end.
LEMMA FrameCopies ==
    ASSUME OutcomeInv, CopyInv, ParseMessagesUntil
    PROVE  /\ CopyInv'
           /\ \E d \in 0 .. Len(published) :
                /\ published' = SubSeq(published, d + 1, Len(published))
                /\ whole' = IF d = 0 THEN whole ELSE published[d]
           /\ Listed(published)
<1> DEFINE v == Trim(client)
<1>1. /\ Formed(client) /\ Listed(published) /\ Len(published) = StepsOn(stream)
      /\ UpToDate(v, stream, whole, published, strays) /\ StraysOld
      /\ Unseen(Doomed, v, stream)
      /\ me \in connected => Accurate(Hears(Hears(v, stream), accumulated))
      /\ Listed(stream)
  BY DEF CopyInv, OutcomeInv
<1>2. PICK n \in 1 .. Len(stream) :
        LET stepEnds == {k \in 1 .. n : ~MidStep(After(k))}
        IN  /\ client' = Handled(n)
            /\ stream' = After(n)
            /\ published' = SubSeq(published, Len(published) - StepsOn(After(n)) + 1,
                                   Len(published))
            /\ whole' = IF stepEnds = {} THEN whole ELSE ClientCopy(Handled(Max(stepEnds)))
            /\ UNCHANGED <<vars, serverVars, strays>>
  BY DEF ParseMessagesUntil
<1>3. Len(stream) \in Nat /\ n \in Nat /\ n \in 0 .. Len(stream)
  BY <1>1, LenProperties DEF Listed
<1> DEFINE ends == {k \in 1 .. n : ~MidStep(Rest(stream, k))}
           s    == Rest(stream, n)
           d    == Len(published) - StepsOn(s)
           p    == Rest(published, d)
           c    == Handled(n)
           a    == accumulated
           w    == IF ends = {} THEN whole ELSE CopyFrom(Heard(v, stream, Max(ends)), strays)
<1>4. \A k : After(k) = Rest(stream, k)
  BY DEF After, Rest
<1>5. /\ c = client' /\ s = stream' /\ p = published' /\ a = accumulated' /\ me' = me
      /\ strays' = strays /\ nextObjectID' = nextObjectID /\ known' = known /\ objects' = objects
      /\ objectDeleteList' = objectDeleteList /\ connected' = connected
      /\ lastResources' = lastResources /\ wasHoused' = wasHoused
      /\ whole' = IF ends = {} THEN whole ELSE ClientCopy(Handled(Max(ends)))
  BY <1>2, <1>4 DEF vars, serverVars, Rest
<1>6. \A k \in 0 .. Len(stream) : Formed(Handled(k)) /\ Trim(Handled(k)) = Heard(v, stream, k)
  <2>1. ASSUME NEW k \in 0 .. Len(stream)
        PROVE  Formed(Handled(k)) /\ Trim(Handled(k)) = Heard(v, stream, k)
    BY <1>1, HandledHears
  <2> QED
    BY <2>1
<1>7. w = whole'
  <2>1. CASE ends = {}
    BY <1>5, <2>1
  <2>2. CASE ends # {}
    <3> DEFINE x == Max(ends)
               h == Handled(x)
    <3>1. x \in ends
      <4>1. n \in Nat /\ ends \subseteq 1 .. n
        BY <1>3
      <4> HIDE DEF ends
      <4> QED
        BY <2>2, <4>1, LargestEnd
    <3>2. x \in 0 .. Len(stream)
      BY <1>3, <3>1
    <3>3. w = CopyFrom(Heard(v, stream, x), strays) /\ whole' = ClientCopy(h)
      BY <1>5, <2>2
    <3> HIDE DEF x, ends, w
    <3>4. Trim(h) = Heard(v, stream, x)
      BY <1>6, <3>2
    <3> HIDE DEF h
    <3>5. ClientCopy(h) = CopyFrom(Trim(h), strays)
      BY TrimIs DEF ClientCopy, CopyFrom
    <3> QED
      BY <3>3, <3>4, <3>5
  <2> QED
    BY <2>1, <2>2
<1>8. /\ d \in 0 .. Len(published) /\ w = ShownOf(whole, published, d)
      /\ Listed(p) /\ Len(p) = StepsOn(s)
      /\ UpToDate(Heard(v, stream, n), s, w, p, strays)
  <2>1. n \in 1 .. Len(stream)
    OBVIOUS
  <2>2. /\ Listed(stream) /\ UpToDate(v, stream, whole, published, strays)
        /\ Listed(published) /\ Len(published) = StepsOn(stream)
    BY <1>1
  <2>3. d = Passed(stream, published, n) /\ w = TakenUp(v, stream, whole, strays, n)
    BY DEF Passed, TakenUp, Ends
  <2> HIDE DEF v, ends, w, d
  <2> QED
    BY <2>1, <2>2, <2>3, UpToDateShown
<1>9. Formed(c) /\ Trim(c) = Heard(v, stream, n)
  BY <1>3, <1>6
<1>10. Listed(s) /\ Len(s) = Len(stream) - n /\ \A i \in 1 .. Len(stream) - n : s[i] = stream[n + i]
  BY <1>1, <1>3, RestListed
<1> HIDE DEF c, s, w, p, a, d, v
<1>11. ASSUME NEW k \in 0 .. Len(s)
       PROVE  Heard(Trim(c), s, k) = Heard(v, stream, n + k) /\ n + k \in 0 .. Len(stream)
  <2>1. k \in Nat /\ n + k \in 0 .. Len(stream) /\ \A i \in 1 .. k : s[i] = stream[n + i]
    BY <1>3, <1>10
  <2>2. Heard(v, stream, n + k) = Heard(Heard(v, stream, n), s, k)
    BY <1>3, <2>1, HeardOn
  <2> QED
    BY <1>9, <2>1, <2>2
<1>12. Hears(Trim(c), s) = Hears(v, stream)
  <2>1. Len(s) \in 0 .. Len(s) /\ n + Len(s) = Len(stream)
    BY <1>3, <1>10
  <2> QED
    BY <1>11, <2>1 DEF Hears
<1>13. Unseen(known'[me] \cap objectDeleteList', Trim(c), s)
  BY <1>1, <1>5, <1>11 DEF Unseen, Doomed
<1>14. /\ UpToDate(Trim(c), s, w, p, strays') /\ strays' \subseteq 1 .. nextObjectID' - 1
       /\ me \in connected' => Holds(Hears(Hears(Trim(c), s), a), objects', known'[me], strays', me,
                                     lastResources', wasHoused')
  BY <1>1, <1>5, <1>8, <1>9, <1>12 DEF StraysOld, Accurate, a
<1>15. CopyInv'
  BY <1>5, <1>7, <1>8, <1>9, <1>13, <1>14, CopyAfter
<1>16. /\ published' = SubSeq(published, d + 1, Len(published))
       /\ whole' = IF d = 0 THEN whole ELSE published[d]
  BY <1>5, <1>7, <1>8 DEF ShownOf, p, Rest
<1> QED
  BY <1>1, <1>8, <1>15, <1>16

\* At the start the client has the map that the server has.
LEMMA CopiesInit ==
    ASSUME MatchInit
    PROVE  CopyInv
<1> DEFINE v == Trim(client)
<1>1. /\ objects = [id \in DOMAIN objects |-> objects[id]] /\ DOMAIN objects = StartIds
      /\ known = [p \in Players |-> StartIds] /\ objectDeleteList = {} /\ me \in Players
      /\ nextObjectID = Len(StartObjects) + 1
      /\ accumulated = <<>> /\ stream = <<>> /\ published = <<>> /\ strays = {}
      /\ wasHoused = FALSE /\ lastResources = StartResources /\ whole = FirstCopy
      /\ client = [objects   |-> FirstCopy.objects, resources |-> StartResources,
                   housed    |-> FALSE, stats |-> stats[me],
                   players   |-> [p \in Players |-> "Playing"]]
  BY DEF MatchInit, Init
<1>2. FirstCopy.objects = [id \in DOMAIN objects |-> Told(objects[id])]
      /\ FirstCopy.resources = StartResources /\ FirstCopy.housed = FALSE
  BY DEF FirstCopy
<1>3. /\ Formed(client) /\ v.objects = FirstCopy.objects /\ v.resources = StartResources
      /\ v.housed = FALSE
  BY <1>1, <1>2 DEF Formed, Trim, Held3
<1>4. HasMap(v)
  BY <1>3, TrimHasMap
<1> HIDE DEF v
<1>5. Listed(<<>>) /\ Len(<<>>) = 0 /\ StepsOn(<<>>) = 0
  BY FewListed, NothingOn, EmptySeq
<1>6. Heard(v, <<>>, 0) = v /\ Hears(v, <<>>) = v /\ Hears(Hears(v, <<>>), <<>>) = v
  BY HeardSteps, HearsAlone
<1>7. UpToDate(v, <<>>, whole, <<>>, {})
  <2>1. Rest(<<>>, 0) = <<>> /\ 0 .. Len(<<>>) = {0}
    BY <1>5, NothingOn
  <2>2. CopyFrom(v, {}) = FirstCopy
    BY <1>2, <1>3 DEF CopyFrom, FirstCopy
  <2> QED
    BY <1>1, <1>5, <1>6, <2>1, <2>2 DEF UpToDate, ShownOf
<1>8. Unseen(Doomed, v, <<>>) /\ StraysOld
  BY <1>1 DEF Unseen, Doomed, StraysOld
<1>9. Accurate(v)
  BY <1>1, <1>2, <1>3, <1>4, ToldIs DEF Accurate, Holds
<1> QED
  BY <1>1, <1>3, <1>5, <1>6, <1>7, <1>8, <1>9 DEF CopyInv, v

\* In every step the copy stays right, and takes a step of DelayedCopy or none.
LEMMA CopyStep ==
    ASSUME MatchInv, BooksOK, OutcomeInv, MirrorInv, CopyInv, [MatchNext]_allVars
    PROVE  CopyInv' /\ [Copy!CopyNext]_(Copy!copyVars)
<1>1. CASE PressResign \/ UNCHANGED allVars
  <2>1. UNCHANGED <<whole, published>>
    BY <1>1 DEF PressResign, allVars, clientVars
  <2> QED
    BY <1>1, <2>1, ResignCopies DEF Copy!copyVars
<1>2. CASE Told_EndStep
  <2>1. CASE published' = published
    BY <1>2, <2>1, EndCopies DEF Copy!copyVars
  <2>2. CASE published' = Append(published, PublishedCopy)
    <3>1. Front(published') = published /\ published' # <<>>
      BY <1>2, <2>2, EndCopies, FrontOfAppend
    <3> QED
      BY <1>2, <3>1, EndCopies DEF Copy!CopyNext, Copy!Publish, Front, Copy!Front
  <2> QED
    BY <1>2, <2>1, <2>2, EndCopies
<1>3. CASE ParseMessagesUntil
  <2>1. PICK d \in 0 .. Len(published) :
          /\ published' = SubSeq(published, d + 1, Len(published))
          /\ whole' = IF d = 0 THEN whole ELSE published[d]
    BY <1>3, FrameCopies
  <2>2. CASE d = 0
    <3>1. Listed(published) /\ SubSeq(published, 0 + 1, Len(published)) = published
      BY <1>3, FrameCopies, RestOfNone DEF Rest
    <3> QED
      BY <1>3, <2>1, <2>2, <3>1, FrameCopies DEF Copy!copyVars
  <2>3. CASE d # 0
    <3>1. d \in 1 .. Len(published)
      BY <2>3
    <3> QED
      BY <1>3, <2>1, <2>3, <3>1, FrameCopies DEF Copy!CopyNext, Copy!Show
  <2> QED
    BY <2>2, <2>3
<1>4. CASE MatchNext /\ ~Told_EndStep /\ ~ParseMessagesUntil /\ ~PressResign
  <2>1. StraysOld /\ me \in Players
    BY DEF CopyInv, OutcomeInv
  <2>2. PICK msgs : Conveys(msgs) /\ Tell(msgs)
    BY <1>4, <2>1, ServerConveys
  <2>3. UNCHANGED <<whole, published>>
    BY <2>2 DEF Tell
  <2> QED
    BY <2>2, <2>3, ServerCopies DEF Copy!copyVars
<1> QED
  BY <1>1, <1>2, <1>3, <1>4

\* GameController and Game: whatever a frame handles, and wherever in a step it ends, what
\* the client shows after the last whole step is the copy that the server had published
\* with it, never an earlier one than before, through every command and every step of the
\* server.
THEOREM CopyAlwaysPublished == MatchSpec => Copy!CopySafety
<1>1. MatchInit => Copy!CopyInit
  BY DEF MatchInit, Copy!CopyInit
<1>2. MatchInit => CopyInv
  BY CopiesInit
<1>3. MatchInv /\ BooksOK /\ OutcomeInv /\ MirrorInv /\ CopyInv /\ [MatchNext]_allVars => CopyInv'
  BY CopyStep
<1>4. MatchInv /\ BooksOK /\ OutcomeInv /\ MirrorInv /\ CopyInv /\ [MatchNext]_allVars
        => [Copy!CopyNext]_(Copy!copyVars)
  BY CopyStep
<1>5. MatchInv /\ OutcomeInv /\ MirrorInv /\ [MatchNext]_allVars => OutcomeInv' /\ MirrorInv'
  BY OutcomeStep, MirrorStep
<1>6. MatchInit => BooksOK
  BY BooksInit DEF MatchInit
<1>7. MatchInv /\ BooksOK /\ [MatchNext]_allVars => BooksOK'
  BY MatchIsNext, BooksStep
<1> QED
  BY <1>1, <1>2, <1>3, <1>4, <1>5, <1>6, <1>7, OutcomeInit, MirrorInit, WatchedMatch, PTL
     DEF MatchSpec, Copy!CopySafety
=============================================================================
