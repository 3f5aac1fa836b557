-------------------------- MODULE ConnectionProofs --------------------------
(***************************************************************************)
(* Proofs about the client's connection to the server: for any number of   *)
(* joins, messages and pings, and any interleaving of its two threads, the *)
(* server and the network; and about its estimate of the server's time.    *)
(***************************************************************************)
EXTENDS ServerConnection, TimeSync, SequenceTheorems, Induction, TLAPS

Types == {"Welcome", "PlayerList", "GameAborted", "StartGame", "GameStepTime",
          "PingResponse", "garbled"}
Messages == [type : Types, number : Int]
MessageParts == Messages \X {1, 2}

\* The network thread has a message to store iff its buffer holds a whole one.
TypesOK ==
    /\ server \in {"setup", "aborted", "started", "down"}
    /\ socket \in {"connected", "unconnected"}
    /\ wire \in Seq(MessageParts) /\ buffer \in Seq(MessageParts)
    /\ receivedMessages \in Seq(Messages)
    /\ handled \in Seq(Int)
    /\ oldTimers \in Nat
    /\ net = (IF Complete(buffer) THEN "store" ELSE "idle")
    /\ pings \in {0, 1}
    /\ main \in {"settings", "connecting", "welcome", "handling", "abort", "take", "lobby",
                 "game", "leave", "shutdown"}
    /\ outcome \in {"open", "accepted", "rejected"}
    /\ pos \in Nat /\ sent \in Nat
    /\ main \in {"handling", "abort"} => pos > 0

\* Where the main thread stands tells who holds the mutex and which call it waits for.
ThreadsInStep ==
    /\ mutex = (IF main \in {"handling", "abort"} THEN "main" ELSE "none")
    /\ call = CASE main = "connecting" -> "Connect"
                [] main \in {"shutdown", "abort"} -> "Shutdown"
                [] OTHER -> "none"
    /\ socket = "unconnected" => wire = <<>>
    /\ main \in {"connecting", "welcome"} => handled = <<>>
-----------------------------------------------------------------------------
(***************************************************************************)
(* NeverLockedOut and LossNoticed.  Neither is inductive.  The dialog      *)
(* waits for the network thread when it handles GameAborted; the thread    *)
(* has nothing to store then since the server sends nothing after the      *)
(* abortion, so that it is the last in the list and nothing comes in       *)
(* behind it.  The dialog loses its timer in this shutdown, but it has     *)
(* then rejected the match, and this stays so until the dialog closes.     *)
(***************************************************************************)
\* The parts of messages that the client has not looked at yet.
Incoming == buffer \o wire

Over == server \in {"aborted", "down"}

AbortsAtEnd(p) == \A i \in DOMAIN p : p[i][1].type = "GameAborted" /\ p[i][2] = 2 => i = Len(p)
AbortComes(p)  == \E i \in DOMAIN p : p[i][1].type = "GameAborted"
AbortListed(l) == \E i \in DOMAIN l : l[i].type = "GameAborted"
AbortListedAtEnd(l) == \A i \in DOMAIN l : l[i].type = "GameAborted" => i = Len(l)

AbortionIsLast ==
    /\ AbortsAtEnd(Incoming)
    /\ AbortListedAtEnd(receivedMessages)
    /\ AbortComes(Incoming) => Over
    /\ AbortListed(receivedMessages) => Over /\ Incoming = <<>>

AbortionEndsDialog ==
    /\ main \in {"connecting", "welcome", "take", "lobby"} => outcome = "open"
    /\ main = "abort" => outcome = "rejected"
    /\ main = "abort" => /\ pos \in DOMAIN receivedMessages
                         /\ receivedMessages[pos].type = "GameAborted"
    /\ main = "handling" /\ outcome = "rejected" => pos > Len(receivedMessages)

Watched == TimersRunning \/ connectionToServerLost \/ "ConnectionLost" \in signals

WatchLasts ==
    \/ main \in {"welcome", "take", "lobby", "game"}
    \/ main = "handling" /\ outcome # "rejected"
    => Watched

LossInv == TypesOK /\ ThreadsInStep /\ AbortionIsLast /\ AbortionEndsDialog /\ WatchLasts
-----------------------------------------------------------------------------
(***************************************************************************)
(* MessagesInOrder.  Its inductive form follows a message on its whole     *)
(* way: what comes in consists of whole messages with the numbers after    *)
(* the last one received, up to the last one sent while the socket is      *)
(* connected; what lies in the list continues what was handled.  A ping    *)
(* response may lie between the others, but only one at a time, so that    *)
(* it is never at the front when the thread stores a message.              *)
(***************************************************************************)
\* The first parts of the messages that will be stored, and a message's number.
Heads(p) == {i \in DOMAIN p : p[i][2] = 1 /\ p[i][1] # Pong}
Number(p, i) == p[i][1].number

WholeMessages(p) ==
    /\ p # <<>> => p[1][2] = 1
    /\ \A i \in DOMAIN p : i + 1 \in DOMAIN p =>
          IF p[i][2] = 1 THEN p[i + 1] = <<p[i][1], 2>> ELSE p[i + 1][2] = 1

\* The messages have the numbers n + 1, n + 2 and so on ...
InSequence(p, n) ==
    /\ \A i \in Heads(p) : Number(p, i) > n
    /\ \A i, j \in Heads(p) : i < j => Number(p, i) < Number(p, j)
    /\ \A i \in Heads(p) : Number(p, i) = n + 1
                              \/ \E j \in Heads(p) : j < i /\ Number(p, j) = Number(p, i) - 1

\* ... up to the last one, which is there as a whole.
UpTo(p, n, last) ==
    /\ p # <<>> => p[Len(p)][2] = 2
    /\ \A i \in Heads(p) : Number(p, i) <= last
    /\ n = last \/ \E i \in Heads(p) : Number(p, i) = last

OnePong(p) == \A i, j \in DOMAIN p : p[i] = <<Pong, 1>> /\ p[j] = <<Pong, 1>> => i = j
NoPong(p) == \A i \in DOMAIN p : p[i][1] # Pong

WelcomeIsFirst ==
    /\ \A i \in DOMAIN Incoming : IsWelcome(Incoming[i][1]) => Incoming[i][1].number = 1
    /\ \A i \in DOMAIN receivedMessages :
          IsWelcome(receivedMessages[i]) => receivedMessages[i].number = 1

\* How many messages of the list have been handled already.
Skip == CASE main = "handling" -> pos - 1 [] main = "abort" -> pos [] OTHER -> 0

\* How many messages the main thread has got.
Received == Len(handled) + Len(receivedMessages) - Skip

Joined == fresh /\ main # "connecting"

StreamInOrder ==
    Joined =>
       /\ WholeMessages(Incoming)
       /\ OnePong(Incoming)
       /\ net = "store" => First(buffer) # Pong
       /\ pings > 0 => NoPong(Incoming)
       /\ InSequence(Incoming, Received)
       /\ socket = "connected" => UpTo(Incoming, Received, sent)

ListInOrder ==
    Joined =>
       /\ \A i \in DOMAIN handled : handled[i] = i
       /\ \A i \in Skip + 1 .. Len(receivedMessages) :
              receivedMessages[i].number = Len(handled) + i - Skip

WithinList == Skip <= Len(receivedMessages)

OrderInv == TypesOK /\ ThreadsInStep /\ WithinList /\ WelcomeIsFirst /\ StreamInOrder /\ ListInOrder
-----------------------------------------------------------------------------
\* The parts that are left when the first message is cut off the buffer.
LEMMA RestProperties ==
    ASSUME NEW p \in Seq(MessageParts)
    PROVE  /\ Rest(p) \in Seq(MessageParts)
           /\ Complete(p) => Len(Rest(p)) = Len(p) - 2
           /\ ~Complete(p) => Rest(p) = <<>>
           /\ \A i \in 1 .. Len(Rest(p)) : Rest(p)[i] = p[i + 2]
<1>0. Len(p) \in Nat
  OBVIOUS
<1>1. \A i \in 3 .. Len(p) : p[i] \in MessageParts
  BY ElementOfSeq
<1>2. Rest(p) \in Seq(MessageParts)
  BY <1>0, <1>1, SubSeqProperties DEF Rest
<1>3. (3 <= Len(p) => Len(Rest(p)) = Len(p) - 2) /\ (Len(p) < 3 => Len(Rest(p)) = 0)
  <2>1. CASE 3 <= Len(p)
    BY <1>0, <1>1, <2>1, SubSeqProperties DEF Rest
  <2>2. CASE Len(p) < 3
    BY <1>0, <1>1, <2>2, SubSeqProperties, EmptySeq DEF Rest
  <2> QED BY <1>0, <2>1, <2>2
<1>4. \A i \in 1 .. Len(p) - 2 : Rest(p)[i] = p[i + 2]
  BY <1>0, <1>1, SubSeqProperties DEF Rest
<1>5. Complete(p) => Len(Rest(p)) = Len(p) - 2
  BY <1>0, <1>3 DEF Complete
<1>6. ~Complete(p) => Rest(p) = <<>>
  BY <1>0, <1>2, <1>3, EmptySeq DEF Complete
<1> QED
  BY <1>0, <1>2, <1>3, <1>4, <1>5, <1>6

\* Cutting a message off the buffer cuts it off all that comes in.
LEMMA RestOfConcat ==
    ASSUME NEW p \in Seq(MessageParts), NEW q \in Seq(MessageParts), Complete(p)
    PROVE  Rest(p) \o q = Rest(p \o q)
<1> DEFINE r == p \o q
           l == Rest(p) \o q
<1>1. /\ r \in Seq(MessageParts) /\ Len(r) = Len(p) + Len(q)
      /\ \A i \in 1 .. Len(p) + Len(q) : r[i] = IF i <= Len(p) THEN p[i] ELSE q[i - Len(p)]
  BY ConcatProperties
<1>2. Len(p) \in Nat /\ Len(q) \in Nat /\ Len(p) >= 2
  BY DEF Complete
<1>3. /\ Rest(p) \in Seq(MessageParts) /\ Len(Rest(p)) = Len(p) - 2
      /\ \A i \in 1 .. Len(p) - 2 : Rest(p)[i] = p[i + 2]
  BY RestProperties
<1>4. /\ l \in Seq(MessageParts) /\ Len(l) = Len(p) - 2 + Len(q)
      /\ \A i \in 1 .. Len(p) - 2 + Len(q) :
            l[i] = IF i <= Len(p) - 2 THEN Rest(p)[i] ELSE q[i - (Len(p) - 2)]
  <2>1. /\ l \in Seq(MessageParts) /\ Len(l) = Len(Rest(p)) + Len(q)
        /\ \A i \in 1 .. Len(Rest(p)) + Len(q) :
            l[i] = IF i <= Len(Rest(p)) THEN Rest(p)[i] ELSE q[i - Len(Rest(p))]
    BY <1>3, ConcatProperties
  <2> QED
    BY <1>3, <2>1
<1> HIDE DEF r, l
<1>5. Complete(r)
  BY <1>1, <1>2 DEF Complete
<1>6. /\ Rest(r) \in Seq(MessageParts) /\ Len(Rest(r)) = Len(p) + Len(q) - 2
      /\ \A i \in 1 .. Len(p) + Len(q) - 2 : Rest(r)[i] = r[i + 2]
  <2>1. /\ Rest(r) \in Seq(MessageParts) /\ Len(Rest(r)) = Len(r) - 2
        /\ \A i \in 1 .. Len(Rest(r)) : Rest(r)[i] = r[i + 2]
    BY <1>1, <1>5, RestProperties
  <2> QED
    BY <1>1, <1>2, <2>1
<1>7. ASSUME NEW i \in 1 .. Len(p) - 2 + Len(q)
      PROVE  l[i] = Rest(r)[i]
  <2>1. CASE i <= Len(p) - 2
    <3>1. l[i] = p[i + 2]
      BY <1>2, <1>3, <1>4, <2>1
    <3>2. Rest(r)[i] = p[i + 2]
      BY <1>1, <1>2, <1>6, <2>1
    <3> QED
      BY <3>1, <3>2
  <2>2. CASE i > Len(p) - 2
    BY <1>1, <1>2, <1>4, <1>6, <2>2
  <2> QED
    BY <1>2, <2>1, <2>2
<1>8. l = Rest(r)
  BY <1>2, <1>4, <1>6, <1>7, SeqEqual
<1> QED
  BY <1>8 DEF l, r

\* Reading or storing takes one or two whole messages from what comes in, or none.
TakenByThread(p, q) ==
    \/ q = p
    \/ Complete(p) /\ p[1][1] = Pong /\ q = Rest(p)

\* What TryParseMessages leaves in the buffer.
LEMMA Parsing ==
    ASSUME TypesOK, NEW b \in Seq(MessageParts), Parse(b)
    PROVE  /\ buffer' \in Seq(MessageParts)
           /\ net' = (IF Complete(buffer') THEN "store" ELSE "idle")
           /\ \/ buffer' = b /\ ~HandledByThread(b)
              \/ buffer' = Rest(b) /\ HandledByThread(b)
  BY RestProperties DEF Parse

\* A part of a sequence has elements of the sequence.
LEMMA SubSeqTyped ==
    ASSUME NEW S, NEW p \in Seq(S), NEW a \in Nat \ {0}, NEW b \in Nat, b <= Len(p)
    PROVE  /\ SubSeq(p, a, b) \in Seq(S)
           /\ a <= b => Len(SubSeq(p, a, b)) = b - a + 1
           /\ a > b => SubSeq(p, a, b) = <<>>
           /\ \A i \in 1 .. b - a + 1 : SubSeq(p, a, b)[i] = p[a + i - 1]
<1>1. Len(p) \in Nat /\ \A i \in a .. b : p[i] \in S
  BY ElementOfSeq
<1> QED
  BY <1>1, SubSeqProperties, SubSeqEmpty

\* The elements of the list are messages with numbers.
LEMMA StoredMessages ==
    ASSUME TypesOK
    PROVE  /\ Len(receivedMessages) \in Nat
           /\ DOMAIN receivedMessages = 1 .. Len(receivedMessages)
           /\ \A i \in 1 .. Len(receivedMessages) :
                 receivedMessages[i] \in Messages /\ receivedMessages[i].number \in Int
<1>1. \A m \in Messages : m.number \in Int
  BY DEF Messages
<1>2. receivedMessages \in Seq(Messages)
  BY DEF TypesOK
<1> HIDE DEF Messages
<1> QED
  BY <1>1, <1>2

\* The empty list is a list of each kind.
LEMMA EmptyTyped == <<>> \in Seq(MessageParts) /\ <<>> \in Seq(Messages) /\ <<>> \in Seq(Int)
  OBVIOUS

\* Sending adds parts of a message to the wire.
LEMMA SendTyped ==
    ASSUME TypesOK, NEW m \in Messages
    PROVE  wire \o Parts(m) \in Seq(MessageParts)
<1>1. Parts(m) \in Seq(MessageParts)
  BY DEF Parts, MessageParts
<1> QED
  BY <1>1 DEF TypesOK

\* Handling a message adds a number to those handled.
LEMMA AppendTyped ==
    ASSUME NEW h \in Seq(Int), NEW n \in Int
    PROVE  Append(h, n) \in Seq(Int)
  OBVIOUS

\* What the network thread stores is what was sent, or garbage.
LEMMA Storing ==
    ASSUME TypesOK, NetStores
    PROVE  /\ Complete(buffer)
           /\ receivedMessages' \in Seq(Messages)
           /\ Len(receivedMessages') = Len(receivedMessages) + 1
           /\ \A i \in 1 .. Len(receivedMessages) : receivedMessages'[i] = receivedMessages[i]
           /\ receivedMessages'[Len(receivedMessages) + 1] =
                 IF IsWhole(buffer) THEN First(buffer) ELSE Msg("garbled", -1)
<1> DEFINE m == IF IsWhole(buffer) THEN First(buffer) ELSE Msg("garbled", -1)
<1>1. Complete(buffer) /\ receivedMessages \in Seq(Messages) /\ buffer \in Seq(MessageParts)
  BY DEF NetStores, TypesOK
<1>2. buffer[1] \in MessageParts
  BY <1>1 DEF Complete
<1>3. First(buffer) \in Messages
  BY <1>2 DEF First, MessageParts
<1>4. Msg("garbled", -1) \in Messages
  BY DEF Msg, Messages, Types
<1>5. m \in Messages
  BY <1>3, <1>4
<1>6. receivedMessages' = Append(receivedMessages, m)
  BY DEF NetStores
<1> HIDE DEF m, Messages
<1>7. /\ receivedMessages' \in Seq(Messages)
      /\ Len(receivedMessages') = Len(receivedMessages) + 1
      /\ \A i \in 1 .. Len(receivedMessages) : receivedMessages'[i] = receivedMessages[i]
      /\ receivedMessages'[Len(receivedMessages) + 1] = m
  BY <1>1, <1>5, <1>6, AppendProperties
<1> QED
  BY <1>1, <1>7 DEF m

\* The first welcome is taken out of the list.
LEMMA TakingWelcome ==
    ASSUME TypesOK, TakeWelcome
    PROVE  /\ handled' \in Seq(Int) /\ receivedMessages' \in Seq(Messages)
           /\ \E i \in 1 .. Len(receivedMessages) :
                 /\ IsWelcome(receivedMessages[i])
                 /\ handled' = Append(handled, receivedMessages[i].number)
                 /\ receivedMessages' = RemoveAt(receivedMessages, i)
<1>1. receivedMessages \in Seq(Messages) /\ handled \in Seq(Int)
  BY DEF TypesOK
<1>2. PICK i \in 1 .. Len(receivedMessages) :
         /\ IsWelcome(receivedMessages[i])
         /\ handled' = Append(handled, receivedMessages[i].number)
         /\ receivedMessages' = RemoveAt(receivedMessages, i)
  BY StoredMessages DEF TakeWelcome
<1>3. handled' \in Seq(Int)
  BY <1>1, <1>2, StoredMessages, AppendTyped
<1>4. /\ SubSeq(receivedMessages, 1, i - 1) \in Seq(Messages)
      /\ SubSeq(receivedMessages, i + 1, Len(receivedMessages)) \in Seq(Messages)
  BY <1>1, <1>2, SubSeqTyped
<1>5. receivedMessages' \in Seq(Messages)
  BY <1>2, <1>4 DEF RemoveAt
<1> QED
  BY <1>2, <1>3, <1>5

\* Each step of either thread, the server and the network keeps the types.
LEMMA TypesStep ==
    ASSUME TypesOK, [ConnNext]_connVars
    PROVE  TypesOK'
<1>1. CASE NetConnects
  <2>1. wire' = wire \/ wire' = <<>>
    BY <1>1 DEF NetConnects
  <2>2. oldTimers' \in Nat
    BY <1>1 DEF NetConnects, TypesOK
  <2>3. pings' \in {0, 1} /\ sent' \in Nat
    BY <1>1 DEF NetConnects, TypesOK
  <2>4. main' \in {"settings", "welcome"} /\ socket' \in {"connected", "unconnected"}
    BY <1>1 DEF NetConnects, TypesOK
  <2>5. buffer' = <<>> /\ receivedMessages' = <<>> /\ UNCHANGED <<server, handled, net, pos, outcome>>
    BY <1>1 DEF NetConnects, ClearedBuffer
  <2>6. net' = "idle" /\ ~Complete(buffer')
    BY <1>1, <2>5, EmptySeq DEF NetConnects, Complete
  <2> QED
    BY <2>1, <2>2, <2>3, <2>4, <2>5, <2>6, EmptyTyped DEF TypesOK
<1>2. CASE NetShutsDown
  BY <1>2, EmptyTyped DEF NetShutsDown, TypesOK
<1>3. CASE NetReads
  <2>1. PICK k \in {1, Len(wire)} : /\ Parse(buffer \o SubSeq(wire, 1, k))
                                   /\ wire' = SubSeq(wire, k + 1, Len(wire))
    BY <1>3 DEF NetReads
  <2>2. buffer \o SubSeq(wire, 1, k) \in Seq(MessageParts) /\ wire' \in Seq(MessageParts)
    BY <1>3, <2>1, SubSeqTyped DEF NetReads, TypesOK
  <2>3. buffer' \in Seq(MessageParts) /\ net' = (IF Complete(buffer') THEN "store" ELSE "idle")
    BY <2>1, <2>2, Parsing
  <2> QED
    BY <1>3, <2>2, <2>3 DEF NetReads, mainVars, sharedVars, TypesOK
<1>4. CASE NetStores
  <2>1. Rest(buffer) \in Seq(MessageParts)
    BY RestProperties DEF TypesOK
  <2>2. buffer' \in Seq(MessageParts) /\ net' = (IF Complete(buffer') THEN "store" ELSE "idle")
    BY <1>4, <2>1, Parsing DEF NetStores
  <2>3. receivedMessages' \in Seq(Messages)
    BY <1>4, Storing
  <2> QED
    BY <1>4, <2>2, <2>3 DEF NetStores, mainVars, wireVars, TypesOK
<1>5. CASE NetChecks
  BY <1>5 DEF NetChecks, mainVars, TypesOK
<1>6. CASE Join
  BY <1>6, EmptyTyped DEF Join, netVars, wireVars, TypesOK
<1>7. CASE WelcomeArrives
  <2>1. handled' \in Seq(Int) /\ receivedMessages' \in Seq(Messages)
    BY <1>7, TakingWelcome DEF WelcomeArrives
  <2> QED
    BY <1>7, <2>1 DEF WelcomeArrives, TakeWelcome, netVars, wireVars, TypesOK
<1>8. CASE RefuseVersion
  <2>1. handled' \in Seq(Int) /\ receivedMessages' \in Seq(Messages)
    BY <1>8, TakingWelcome DEF RefuseVersion
  <2> QED
    BY <1>8, <2>1 DEF RefuseVersion, TakeWelcome, netVars, wireVars, TypesOK
<1>9. CASE WelcomeMissing
  BY <1>9 DEF WelcomeMissing, netVars, sharedVars, wireVars, TypesOK
<1>10. CASE TakeSignal
  BY <1>10 DEF TakeSignal, netVars, wireVars, TypesOK
<1>11. CASE StartHandling
  BY <1>11 DEF StartHandling, netVars, wireVars, TypesOK
<1>12. CASE HandleMessage
  <2>1. pos \in 1 .. Len(receivedMessages) /\ handled \in Seq(Int)
    BY <1>12, StoredMessages DEF TypesOK, HandleMessage
  <2>2. handled' = Append(handled, receivedMessages[pos].number)
    BY <1>12 DEF HandleMessage
  <2>3. handled' \in Seq(Int)
    BY <2>1, <2>2, StoredMessages, AppendTyped
  <2> QED
    BY <1>12, <2>1, <2>3 DEF HandleMessage, netVars, wireVars, TypesOK
<1>13. CASE EndHandling
  BY <1>13, EmptyTyped DEF EndHandling, netVars, wireVars, TypesOK
<1>14. CASE LeaveLobby
  BY <1>14 DEF LeaveLobby, netVars, sharedVars, wireVars, TypesOK
<1>15. CASE LeaveAndShutdown
  BY <1>15 DEF LeaveAndShutdown, netVars, wireVars, TypesOK
<1>16. CASE GameFrame
  <2>1. [i \in DOMAIN receivedMessages |-> receivedMessages[i].number] \in Seq(Int)
    BY StoredMessages
  <2>2. handled' \in Seq(Int)
    BY <1>16, <2>1 DEF GameFrame, TypesOK
  <2> QED
    BY <1>16, <2>2, EmptyTyped DEF GameFrame, netVars, wireVars, TypesOK
<1>17. CASE ServerSends
  <2>1. PICK t \in Types : Send(t)
    BY <1>17 DEF ServerSends, Types
  <2>2. Msg(t, sent + 1) \in Messages
    BY DEF Msg, Messages, TypesOK
  <2>3. wire' \in Seq(MessageParts) /\ sent' \in Nat
    BY <2>1, <2>2, SendTyped DEF Send, TypesOK
  <2>4. server' \in {"setup", "aborted", "started", "down"}
    BY <1>17 DEF ServerSends, ServerAfter, TypesOK
  <2> QED
    BY <1>17, <2>3, <2>4 DEF ServerSends, netVars, mainVars, sharedVars, TypesOK
<1>18. CASE ServerPongs
  <2>1. wire' \in Seq(MessageParts)
    BY <1>18, SendTyped DEF ServerPongs, Pong, Msg, Messages, Types
  <2> QED
    BY <1>18, <2>1 DEF ServerPongs, netVars, mainVars, sharedVars, TypesOK
<1>19. CASE ServerEnds
  BY <1>19 DEF ServerEnds, netVars, mainVars, sharedVars, TypesOK
<1>20. CASE SocketCloses
  BY <1>20 DEF SocketCloses, netVars, mainVars, sharedVars, TypesOK
<1>21. CASE UNCHANGED connVars
  BY <1>21 DEF connVars, netVars, mainVars, sharedVars, wireVars, TypesOK
<1> QED
  BY <1>1, <1>2, <1>3, <1>4, <1>5, <1>6, <1>7, <1>8, <1>9, <1>10, <1>11, <1>12, <1>13, <1>14,
     <1>15, <1>16, <1>17, <1>18, <1>19, <1>20, <1>21 DEF ConnNext, NetNext, MainNext

\* The types of the variables, with what the state of the network thread says of its buffer.
LEMMA TypesAlways == ConnSpec => []TypesOK
<1>1. ConnInit => TypesOK
  BY EmptySeq DEF ConnInit, TypesOK, Complete
<1>2. TypesOK /\ [ConnNext]_connVars => TypesOK'
  BY TypesStep
<1> QED
  BY <1>1, <1>2, PTL DEF ConnSpec
-----------------------------------------------------------------------------
\* What comes in is the buffer, followed by the wire.
LEMMA IncomingTyped ==
    ASSUME TypesOK
    PROVE  /\ Incoming \in Seq(MessageParts)
           /\ Len(Incoming) \in Nat
           /\ Len(buffer) \in Nat /\ Len(wire) \in Nat
           /\ Len(Incoming) = Len(buffer) + Len(wire)
           /\ \A i \in 1 .. Len(buffer) : Incoming[i] = buffer[i]
           /\ \A i \in 1 .. Len(wire) : Incoming[Len(buffer) + i] = wire[i]
  BY DEF TypesOK, Incoming

\* A part of a message is a message and 1 or 2.
LEMMA PartPair ==
    ASSUME NEW x \in MessageParts
    PROVE  x = <<x[1], x[2]>> /\ x[1] \in Messages /\ x[2] \in {1, 2}
<1> HIDE DEF Messages
<1> QED
  BY DEF MessageParts

\* TryParseMessages takes a ping response or nothing from what comes in, and if two ping
\* responses never come in together, it stops at a message to be stored.
LEMMA ParsingTakes ==
    ASSUME TypesOK, NEW b \in Seq(MessageParts), NEW w \in Seq(MessageParts), Parse(b), wire' = w
    PROVE  /\ Incoming' \in Seq(MessageParts)
           /\ TakenByThread(b \o w, Incoming')
           /\ WholeMessages(b \o w) /\ OnePong(b \o w) /\ net' = "store" => First(buffer') # Pong
<1>1. /\ b \o w \in Seq(MessageParts) /\ Len(b \o w) = Len(b) + Len(w)
      /\ \A i \in 1 .. Len(b) : (b \o w)[i] = b[i]
      /\ Len(b) \in Nat /\ Len(w) \in Nat
  OBVIOUS
<1>2. CASE buffer' = b /\ ~HandledByThread(b)
  <2>1. Incoming' = b \o w
    BY <1>2 DEF Incoming
  <2>2. net' = "store" => First(buffer') # Pong
    BY <1>2 DEF Parse, HandledByThread
  <2> QED
    BY <1>1, <2>1, <2>2 DEF TakenByThread
<1>3. CASE buffer' = Rest(b) /\ HandledByThread(b)
  <2>1. Complete(b) /\ b[1][1] = Pong
    BY <1>3 DEF HandledByThread, First
  <2>2. Incoming' = Rest(b \o w)
    BY <1>3, <2>1, RestOfConcat DEF Incoming
  <2>3. Complete(b \o w) /\ (b \o w)[1][1] = Pong
    BY <1>1, <2>1 DEF Complete
  <2>4. ASSUME WholeMessages(b \o w), OnePong(b \o w), net' = "store"
        PROVE  First(buffer') # Pong
    <3> DEFINE q == b \o w
    <3>1. Complete(Rest(b))
      BY <1>3, <2>4 DEF Parse
    <3>2. Len(b) >= 4
      BY <1>1, <2>1, <3>1, RestProperties DEF Complete
    <3>3. Rest(b)[1] = b[3]
      BY <3>1, <2>1, RestProperties DEF Complete
    <3>4. q[1] = b[1] /\ q[2] = b[2] /\ q[3] = b[3] /\ DOMAIN q = 1 .. Len(b) + Len(w)
      BY <1>1, <3>2
    <3>5. q[1] \in MessageParts /\ q[3] \in MessageParts
      BY <1>1, <3>2
    <3>6. q[1][2] = 1 /\ q[2][2] = 2 /\ q[3][2] = 1
      BY <1>1, <2>4, <3>2, <3>4, SMTT(30) DEF WholeMessages
    <3>7. q[1] = <<Pong, 1>>
      BY <2>3, <3>5, <3>6, PartPair
    <3>8. q[3] # <<Pong, 1>>
      BY <1>1, <2>4, <3>2, <3>4, <3>7 DEF OnePong
    <3>9. q[3][1] # Pong
      BY <3>5, <3>6, <3>8, PartPair
    <3> QED
      BY <1>3, <3>3, <3>4, <3>9 DEF First
  <2> QED
    BY <1>1, <2>2, <2>3, <2>4, RestProperties DEF TakenByThread
<1> QED
  BY <1>2, <1>3, Parsing

\* So does readyRead, however many bytes have arrived.
LEMMA Reading ==
    ASSUME TypesOK, NetReads
    PROVE  /\ Incoming # <<>>
           /\ Incoming' \in Seq(MessageParts)
           /\ TakenByThread(Incoming, Incoming')
           /\ WholeMessages(Incoming) /\ OnePong(Incoming) /\ net' = "store" => First(buffer') # Pong
<1>1. PICK k \in {1, Len(wire)} : /\ Parse(buffer \o SubSeq(wire, 1, k))
                                 /\ wire' = SubSeq(wire, k + 1, Len(wire))
  BY DEF NetReads
<1> DEFINE b == buffer \o SubSeq(wire, 1, k)
           w == SubSeq(wire, k + 1, Len(wire))
<1>2. wire \in Seq(MessageParts) /\ buffer \in Seq(MessageParts) /\ wire # <<>>
  BY DEF NetReads, TypesOK
<1>3. k \in 1 .. Len(wire) /\ Len(wire) \in Nat
  BY <1>2, EmptySeq
<1>4. /\ SubSeq(wire, 1, k) \in Seq(MessageParts) /\ w \in Seq(MessageParts)
  BY <1>2, <1>3, SubSeqTyped
<1>5. b \in Seq(MessageParts)
  BY <1>2, <1>4
<1>6. SubSeq(wire, 1, k) \o w = wire
  BY <1>2, <1>3, ConcatAdjacentSubSeq, SubSeqFull
<1>7. b \o w = Incoming
  <2> DEFINE a == SubSeq(wire, 1, k)
  <2> HIDE DEF a, w
  <2>1. a \in Seq(MessageParts) /\ w \in Seq(MessageParts)
    BY <1>4 DEF a
  <2>2. (buffer \o a) \o w = buffer \o (a \o w)
    BY <1>2, <2>1, ConcatAssociative, SMTT(30)
  <2> QED
    BY <1>6, <2>2 DEF a, Incoming
<1> HIDE DEF b, w
<1>8. Parse(b) /\ wire' = w
  BY <1>1 DEF b, w
<1>9. Incoming # <<>>
  BY <1>2, IncomingTyped, ConcatEqualIffEmpty DEF Incoming
<1> QED
  BY <1>4, <1>5, <1>7, <1>8, <1>9, ParsingTakes DEF w

\* Storing takes the first message, and goes on in the same way behind it.
LEMMA StoringTakes ==
    ASSUME TypesOK, NetStores
    PROVE  /\ Complete(Incoming) /\ Incoming[1] = buffer[1] /\ Incoming[2] = buffer[2]
           /\ Incoming' \in Seq(MessageParts)
           /\ TakenByThread(Rest(Incoming), Incoming')
           /\ WholeMessages(Rest(Incoming)) /\ OnePong(Rest(Incoming)) /\ net' = "store" => First(buffer') # Pong
<1>1. Complete(buffer) /\ Parse(Rest(buffer)) /\ wire' = wire
  BY Storing DEF NetStores, wireVars
<1>2. wire \in Seq(MessageParts) /\ buffer \in Seq(MessageParts)
  BY DEF TypesOK
<1>3. Rest(buffer) \in Seq(MessageParts)
  BY <1>2, RestProperties
<1>4. Rest(buffer) \o wire = Rest(Incoming)
  BY <1>1, <1>2, RestOfConcat DEF Incoming
<1>5. Complete(Incoming) /\ Incoming[1] = buffer[1] /\ Incoming[2] = buffer[2]
  BY <1>1, IncomingTyped DEF Complete
<1> QED
  BY <1>1, <1>2, <1>3, <1>4, <1>5, ParsingTakes

\* q is p without its first d parts.
Shifted(p, q, d) == Len(q) = Len(p) - d /\ \A i \in 1 .. Len(q) : q[i] = p[i + d]

\* To take a message is to shift the rest to the front.
LEMMA TakenShifts ==
    ASSUME NEW p \in Seq(MessageParts), NEW q, TakenByThread(p, q)
    PROVE  \E d \in {0, 2} : Shifted(p, q, d)
<1>1. CASE q = p
  <2>1. Shifted(p, q, 0)
    BY <1>1, LenProperties DEF Shifted
  <2> QED
    BY <2>1
<1>2. CASE Complete(p) /\ q = Rest(p)
  <2>1. Shifted(p, q, 2)
    BY <1>2, RestProperties DEF Shifted
  <2> QED
    BY <2>1
<1> QED
  BY <1>1, <1>2 DEF TakenByThread

\* Storing a message takes it away, and perhaps the ping response after it.
LEMMA StoringShifts ==
    ASSUME TypesOK, NetStores
    PROVE  \E d \in {2, 4} : Shifted(Incoming, Incoming', d)
<1>1. Rest(Incoming) \in Seq(MessageParts) /\ Shifted(Incoming, Rest(Incoming), 2)
  BY IncomingTyped, StoringTakes, RestProperties DEF Shifted
<1>2. PICK d \in {0, 2} : Shifted(Rest(Incoming), Incoming', d)
  BY <1>1, StoringTakes, TakenShifts
<1>3. Len(Incoming') \in Nat /\ Len(Incoming) \in Nat
  BY StoringTakes, IncomingTyped
<1>4. Shifted(Incoming, Incoming', d + 2)
  BY <1>1, <1>2, <1>3 DEF Shifted
<1> QED
  BY <1>4
-----------------------------------------------------------------------------
\* The mutex and the blocking call follow the main thread.
LEMMA ThreadsStep ==
    ASSUME TypesOK, ThreadsInStep, [ConnNext]_connVars
    PROVE  ThreadsInStep'
<1> USE DEF ThreadsInStep
<1>1. CASE NetConnects
  BY <1>1 DEF NetConnects
<1>2. CASE NetShutsDown
  BY <1>2 DEF NetShutsDown
<1>3. CASE NetReads
  BY <1>3 DEF NetReads, mainVars, sharedVars
<1>4. CASE NetStores
  BY <1>4 DEF NetStores, mainVars, wireVars
<1>5. CASE NetChecks
  BY <1>5 DEF NetChecks, mainVars
<1>6. CASE Join
  BY <1>6 DEF Join, netVars, wireVars
<1>7. CASE WelcomeArrives
  BY <1>7 DEF WelcomeArrives, TakeWelcome, netVars, wireVars
<1>8. CASE RefuseVersion
  BY <1>8 DEF RefuseVersion, TakeWelcome, netVars, wireVars
<1>9. CASE WelcomeMissing
  BY <1>9 DEF WelcomeMissing, netVars, sharedVars, wireVars
<1>10. CASE TakeSignal
  BY <1>10 DEF TakeSignal, netVars, wireVars
<1>11. CASE StartHandling
  BY <1>11 DEF StartHandling, netVars, wireVars
<1>12. CASE HandleMessage
  BY <1>12 DEF HandleMessage, netVars, wireVars
<1>13. CASE EndHandling
  BY <1>13 DEF EndHandling, netVars, wireVars
<1>14. CASE LeaveLobby
  BY <1>14 DEF LeaveLobby, netVars, sharedVars, wireVars
<1>15. CASE LeaveAndShutdown
  BY <1>15 DEF LeaveAndShutdown, netVars, wireVars
<1>16. CASE GameFrame
  BY <1>16 DEF GameFrame, netVars, wireVars
<1>17. CASE ServerSends
  BY <1>17 DEF ServerSends, netVars, mainVars, sharedVars
<1>18. CASE ServerPongs
  BY <1>18 DEF ServerPongs, netVars, mainVars, sharedVars
<1>19. CASE ServerEnds
  BY <1>19 DEF ServerEnds, netVars, mainVars, sharedVars
<1>20. CASE SocketCloses
  BY <1>20 DEF SocketCloses, netVars, mainVars, sharedVars
<1>21. CASE UNCHANGED connVars
  BY <1>21 DEF connVars, netVars, mainVars, sharedVars, wireVars
<1> QED
  BY <1>1, <1>2, <1>3, <1>4, <1>5, <1>6, <1>7, <1>8, <1>9, <1>10, <1>11, <1>12, <1>13, <1>14,
     <1>15, <1>16, <1>17, <1>18, <1>19, <1>20, <1>21 DEF ConnNext, NetNext, MainNext

\* Taking messages from the front leaves an abortion the last one.
LEMMA ShiftKeepsAbortion ==
    ASSUME NEW p \in Seq(MessageParts), NEW q \in Seq(MessageParts), NEW d \in Nat, Shifted(p, q, d)
    PROVE  /\ AbortsAtEnd(p) => AbortsAtEnd(q)
           /\ AbortComes(q) => AbortComes(p)
           /\ p = <<>> => q = <<>>
<1>1. /\ Len(p) \in Nat /\ Len(q) \in Nat
      /\ DOMAIN p = 1 .. Len(p) /\ DOMAIN q = 1 .. Len(q)
      /\ p = <<>> => Len(p) = 0
      /\ q # <<>> => Len(q) > 0
  BY EmptySeq
<1>2. \A i \in DOMAIN q : i + d \in DOMAIN p /\ q[i] = p[i + d]
  BY <1>1 DEF Shifted
<1>3. AbortComes(q) => AbortComes(p)
  BY <1>2 DEF AbortComes
<1>4. AbortsAtEnd(p) => AbortsAtEnd(q)
  <2>1. Len(q) = Len(p) - d
    BY DEF Shifted
  <2> SUFFICES ASSUME AbortsAtEnd(p), NEW i \in DOMAIN q,
                      q[i][1].type = "GameAborted", q[i][2] = 2
               PROVE  i = Len(q)
    BY DEF AbortsAtEnd
  <2>2. i + d = Len(p)
    BY <1>2 DEF AbortsAtEnd
  <2> QED
    BY <1>1, <2>1, <2>2
<1>5. p = <<>> => q = <<>>
  BY <1>1 DEF Shifted
<1> QED
  BY <1>3, <1>4, <1>5

\* Appending is associative.
LEMMA ConcatParts ==
    ASSUME NEW p \in Seq(MessageParts), NEW q \in Seq(MessageParts), NEW r \in Seq(MessageParts)
    PROVE  (p \o q) \o r = p \o (q \o r)
<1> HIDE DEF MessageParts
<1> QED
  BY ConcatAssociative, SMTT(30)

\* A sequence extended by two elements.
LEMMA ConcatTwo ==
    ASSUME NEW S, NEW p \in Seq(S), NEW e \in Seq(S), Len(e) = 2
    PROVE  /\ p \o e \in Seq(S)
           /\ Len(p \o e) = Len(p) + 2
           /\ \A i \in 1 .. Len(p) : (p \o e)[i] = p[i]
           /\ (p \o e)[Len(p) + 1] = e[1]
           /\ (p \o e)[Len(p) + 2] = e[2]
<1>1. Len(p) \in Nat
  OBVIOUS
<1> DEFINE q == p \o e
<1>2. /\ q \in Seq(S) /\ Len(q) = Len(p) + Len(e)
      /\ \A i \in 1 .. Len(p) + Len(e) : q[i] = IF i <= Len(p) THEN p[i] ELSE e[i - Len(p)]
  BY ConcatProperties
<1> HIDE DEF q
<1>3. \A i \in 1 .. Len(p) : q[i] = p[i]
  BY <1>1, <1>2
<1>4. q[Len(p) + 1] = e[1] /\ q[Len(p) + 2] = e[2]
  BY <1>1, <1>2
<1> QED
  BY <1>2, <1>3, <1>4 DEF q

\* Two more parts of one message.
LEMMA SendExtends ==
    ASSUME TypesOK, NEW m \in Messages, wire' = wire \o Parts(m), buffer' = buffer
    PROVE  /\ Incoming' \in Seq(MessageParts)
           /\ Len(Incoming') = Len(Incoming) + 2
           /\ \A i \in 1 .. Len(Incoming) : Incoming'[i] = Incoming[i]
           /\ Incoming'[Len(Incoming) + 1] = <<m, 1>>
           /\ Incoming'[Len(Incoming) + 2] = <<m, 2>>
<1> HIDE DEF Messages
<1> DEFINE e == Parts(m)
<1>1. e \in Seq(MessageParts) /\ Len(e) = 2 /\ e[1] = <<m, 1>> /\ e[2] = <<m, 2>>
  BY DEF Parts, MessageParts
<1> HIDE DEF e
<1>2. wire \in Seq(MessageParts) /\ buffer \in Seq(MessageParts)
  BY DEF TypesOK
<1>3. Incoming' = Incoming \o e
  <2>1. (buffer \o wire) \o e = buffer \o (wire \o e)
    BY <1>1, <1>2, ConcatParts
  <2> QED
    BY <2>1 DEF Incoming, e
<1>4. Incoming \in Seq(MessageParts) /\ Len(Incoming) \in Nat
  BY IncomingTyped
<1> DEFINE p == Incoming
<1> HIDE DEF p
<1>5. p \in Seq(MessageParts) /\ Len(p) \in Nat
  BY <1>4 DEF p
<1>6. /\ p \o e \in Seq(MessageParts)
      /\ Len(p \o e) = Len(p) + 2
      /\ \A i \in 1 .. Len(p) : (p \o e)[i] = p[i]
      /\ (p \o e)[Len(p) + 1] = e[1]
      /\ (p \o e)[Len(p) + 2] = e[2]
  BY <1>1, <1>5, ConcatTwo
<1> QED
  BY <1>1, <1>3, <1>6 DEF p
\* A list without its element i.
LEMMA RemoveOne ==
    ASSUME NEW S, NEW l \in Seq(S), NEW i \in 1 .. Len(l)
    PROVE  /\ RemoveAt(l, i) \in Seq(S)
           /\ Len(RemoveAt(l, i)) = Len(l) - 1
           /\ \A j \in 1 .. i - 1 : RemoveAt(l, i)[j] = l[j]
           /\ \A j \in i .. Len(l) - 1 : RemoveAt(l, i)[j] = l[j + 1]
<1> DEFINE a == SubSeq(l, 1, i - 1)
           b == SubSeq(l, i + 1, Len(l))
<1>1. Len(l) \in Nat /\ i \in Nat /\ i >= 1 /\ i <= Len(l)
  OBVIOUS
<1>2. /\ a \in Seq(S) /\ Len(a) = i - 1
      /\ \A j \in 1 .. i - 1 : a[j] = l[j]
  <2>1. /\ a \in Seq(S)
        /\ 1 <= i - 1 => Len(a) = i - 1 - 1 + 1
        /\ 1 > i - 1 => a = <<>>
        /\ \A j \in 1 .. i - 1 - 1 + 1 : a[j] = l[1 + j - 1]
    BY <1>1, SubSeqTyped
  <2> HIDE DEF a
  <2> QED
    BY <1>1, <2>1, EmptySeq
<1>3. /\ b \in Seq(S) /\ Len(b) = Len(l) - i
      /\ \A j \in 1 .. Len(l) - i : b[j] = l[i + j]
  <2>1. /\ b \in Seq(S)
        /\ i + 1 <= Len(l) => Len(b) = Len(l) - (i + 1) + 1
        /\ i + 1 > Len(l) => b = <<>>
        /\ \A j \in 1 .. Len(l) - (i + 1) + 1 : b[j] = l[i + 1 + j - 1]
    BY <1>1, SubSeqTyped
  <2> HIDE DEF b
  <2> QED
    BY <1>1, <2>1, EmptySeq
<1> HIDE DEF a, b
<1> DEFINE r == a \o b
<1>4. /\ r \in Seq(S) /\ Len(r) = Len(a) + Len(b)
      /\ \A j \in 1 .. Len(a) + Len(b) : r[j] = IF j <= Len(a) THEN a[j] ELSE b[j - Len(a)]
  BY <1>2, <1>3, ConcatProperties
<1>5. r = RemoveAt(l, i)
  BY DEF a, b, RemoveAt
<1> HIDE DEF r
<1>6. \A j \in 1 .. i - 1 : r[j] = l[j]
  BY <1>1, <1>2, <1>3, <1>4, SMTT(30)
<1>7. \A j \in i .. Len(l) - 1 : r[j] = l[j + 1]
  <2> SUFFICES ASSUME NEW j \in i .. Len(l) - 1 PROVE r[j] = l[j + 1]
    OBVIOUS
  <2>1. r[j] = b[j - (i - 1)]
    BY <1>1, <1>2, <1>3, <1>4
  <2>2. b[j - (i - 1)] = l[i + (j - (i - 1))]
    BY <1>1, <1>3
  <2> QED
    BY <1>1, <2>1, <2>2
<1>8. Len(r) = Len(l) - 1
  BY <1>1, <1>2, <1>3, <1>4
<1> QED
  BY <1>4, <1>5, <1>6, <1>7, <1>8

\* As long as no abortion is under way, any message may be sent.
LEMMA SendingKeepsAbortion ==
    ASSUME TypesOK, NEW m \in Messages, wire' = wire \o Parts(m), buffer' = buffer,
           ~AbortComes(Incoming), m.type = "GameAborted" => Over'
    PROVE  AbortsAtEnd(Incoming') /\ (AbortComes(Incoming') => Over')
<1> DEFINE p == Incoming
           q == Incoming'
<1>1. /\ p \in Seq(MessageParts) /\ q \in Seq(MessageParts) /\ Len(p) \in Nat
      /\ Len(q) = Len(p) + 2
      /\ \A i \in 1 .. Len(p) : q[i] = p[i]
      /\ q[Len(p) + 1] = <<m, 1>>
      /\ q[Len(p) + 2] = <<m, 2>>
  BY IncomingTyped, SendExtends
<1>2. ~AbortComes(p)
  OBVIOUS
<1> HIDE DEF p, q
<1>3. \A i \in 1 .. Len(p) : q[i][1].type # "GameAborted"
  <2>1. DOMAIN p = 1 .. Len(p)
    BY <1>1, LenProperties
  <2>2. \A i \in 1 .. Len(p) : p[i][1].type # "GameAborted"
    BY <1>2, <2>1 DEF AbortComes
  <2> QED
    BY <1>1, <2>2
<1>4. ASSUME NEW i \in DOMAIN q, q[i][1].type = "GameAborted"
      PROVE  Over' /\ (q[i][2] = 2 => i = Len(q))
  <2>1. i = Len(p) + 1 \/ i = Len(p) + 2
    BY <1>1, <1>3, <1>4
  <2> QED
    BY <1>1, <1>4, <2>1
<1> QED
  BY <1>4 DEF AbortsAtEnd, AbortComes, q

\* Nothing follows the abortion: the server sends nothing after it, neither messages nor pongs.
LEMMA AbortionStep ==
    ASSUME TypesOK, TypesOK', ThreadsInStep, AbortionIsLast, [ConnNext]_connVars
    PROVE  AbortionIsLast'
<1> USE DEF AbortionIsLast
<1>0. /\ Incoming \in Seq(MessageParts) /\ Incoming' \in Seq(MessageParts)
      /\ Len(Incoming) \in Nat /\ Len(Incoming') \in Nat
      /\ AbortListedAtEnd(<<>>) /\ ~AbortListed(<<>>)
  BY IncomingTyped, EmptySeq DEF TypesOK, Incoming, AbortListedAtEnd, AbortListed
<1>1. CASE NetConnects
  <2>1. wire' = wire \/ wire' = <<>>
    BY <1>1 DEF NetConnects
  <2>2. buffer' = <<>> /\ receivedMessages' = <<>> /\ server' = server
    BY <1>1 DEF NetConnects, ClearedBuffer
  <2>3. Incoming' = wire'
    BY <2>2, ConcatEmptySeq DEF Incoming, TypesOK
  <2>4. CASE wire' = <<>>
    BY <1>0, <2>2, <2>3, <2>4, EmptySeq DEF AbortsAtEnd, AbortComes
  <2>5. CASE wire' = wire
    <3>1. Shifted(Incoming, Incoming', Len(buffer))
      BY <2>3, <2>5, IncomingTyped DEF Shifted
    <3>2. AbortsAtEnd(Incoming') /\ (AbortComes(Incoming') => AbortComes(Incoming))
      BY <1>0, <3>1, ShiftKeepsAbortion, IncomingTyped
    <3> QED
      BY <1>0, <2>2, <3>2 DEF Over
  <2> QED
    BY <2>1, <2>4, <2>5
<1>2. CASE NetShutsDown
  <2>1. buffer' = buffer /\ wire' = <<>> /\ UNCHANGED <<receivedMessages, server>>
    BY <1>2 DEF NetShutsDown
  <2>2. Incoming' = buffer
    BY <2>1, ConcatEmptySeq DEF Incoming, TypesOK
  <2>3. AbortsAtEnd(buffer) /\ (AbortComes(buffer) => AbortComes(Incoming))
    <3>1. DOMAIN buffer = 1 .. Len(buffer) /\ DOMAIN Incoming = 1 .. Len(Incoming)
      BY <1>0 DEF TypesOK
    <3>2. \A i \in DOMAIN buffer : i \in DOMAIN Incoming /\ Incoming[i] = buffer[i]
      BY <3>1, IncomingTyped
    <3>3. ASSUME NEW i \in DOMAIN buffer, i = Len(Incoming)
          PROVE  i = Len(buffer)
      <4>1. i <= Len(buffer) /\ i \in Nat
        BY <3>1, IncomingTyped
      <4> QED
        BY <3>3, <4>1, IncomingTyped
    <3> QED
      BY <3>2, <3>3 DEF AbortsAtEnd, AbortComes
  <2>4. Incoming = <<>> => buffer = <<>>
    BY ConcatEqualIffEmpty DEF Incoming, TypesOK
  <2> QED
    BY <2>1, <2>2, <2>3, <2>4 DEF Over
<1>3. CASE NetReads
  <2>1. PICK d \in {0, 2} : Shifted(Incoming, Incoming', d)
    BY <1>0, <1>3, Reading, TakenShifts
  <2>2. AbortsAtEnd(Incoming') /\ (AbortComes(Incoming') => AbortComes(Incoming))
    BY <1>0, <2>1, ShiftKeepsAbortion
  <2>3. ~AbortListed(receivedMessages)
    BY <1>3, Reading
  <2> QED
    BY <1>3, <2>2, <2>3 DEF NetReads, sharedVars, Over
<1>4. CASE NetStores
  <2>1. PICK d \in {2, 4} : Shifted(Incoming, Incoming', d)
    BY <1>4, StoringShifts
  <2>2. AbortsAtEnd(Incoming') /\ (AbortComes(Incoming') => AbortComes(Incoming))
    BY <1>0, <2>1, ShiftKeepsAbortion
  <2>3. Len(Incoming) >= 2 /\ Incoming[1] = buffer[1] /\ Incoming[2] = buffer[2]
    BY <1>4, StoringTakes DEF Complete
  <2>4. ~AbortListed(receivedMessages)
    BY <2>3, EmptySeq
  <2> DEFINE n == Len(receivedMessages) + 1
  <2>5. /\ Len(receivedMessages') = n /\ n \in Nat /\ DOMAIN receivedMessages' = 1 .. n
        /\ \A i \in 1 .. n - 1 : receivedMessages'[i] = receivedMessages[i]
        /\ receivedMessages'[n] = IF IsWhole(buffer) THEN First(buffer) ELSE Msg("garbled", -1)
    BY <1>4, Storing, StoredMessages DEF TypesOK
  <2> HIDE DEF n
  <2>6. \A i \in 1 .. n - 1 : receivedMessages[i].type # "GameAborted"
    BY <2>4, <2>5, StoredMessages DEF AbortListed, n
  <2>7. AbortListedAtEnd(receivedMessages')
    BY <2>5, <2>6 DEF AbortListedAtEnd
  <2>8. ASSUME AbortListed(receivedMessages')
        PROVE  Over /\ Incoming' = <<>>
    <3>1. receivedMessages'[n].type = "GameAborted"
      BY <2>5, <2>6, <2>8 DEF AbortListed
    <3>2. IsWhole(buffer) /\ First(buffer).type = "GameAborted"
      BY <2>5, <3>1 DEF Msg
    <3>3. Incoming[2] = <<First(buffer), 2>>
      BY <2>3, <3>2 DEF IsWhole
    <3>4. Incoming[2][1].type = "GameAborted" /\ Incoming[2][2] = 2 /\ 2 \in DOMAIN Incoming
      BY <1>0, <2>3, <3>2, <3>3
    <3>5. Len(Incoming) = 2 /\ Over
      BY <3>4 DEF AbortsAtEnd, AbortComes
    <3>6. Incoming' = <<>>
      BY <1>0, <2>1, <3>5, EmptySeq DEF Shifted
    <3> QED
      BY <3>5, <3>6
  <2> QED
    BY <1>4, <2>2, <2>7, <2>8 DEF NetStores, wireVars, Over
<1>5. CASE ServerSends
  <2>1. server \in {"setup", "started"} /\ UNCHANGED <<receivedMessages, buffer>>
    BY <1>5 DEF ServerSends, netVars, sharedVars
  <2>2. ~AbortComes(Incoming) /\ ~AbortListed(receivedMessages)
    BY <2>1 DEF Over
  <2>3. PICK t \in Types : Send(t) /\ (t = "GameAborted" => Over')
    BY <1>5 DEF ServerSends, Types, ServerAfter, Over
  <2> QED
    <3>1. Msg(t, sent + 1) \in Messages /\ Msg(t, sent + 1).type = t
      BY DEF Msg, Messages, TypesOK
    <3>2. AbortsAtEnd(Incoming') /\ (AbortComes(Incoming') => Over')
      BY <2>1, <2>2, <2>3, <3>1, SendingKeepsAbortion DEF Send
    <3> QED
      BY <2>1, <2>2, <3>2
<1>6. CASE ServerPongs
  <2>1. server \in {"setup", "started"} /\ UNCHANGED <<receivedMessages, buffer>>
        /\ wire' = wire \o Parts(Pong) /\ Pong \in Messages /\ Pong.type # "GameAborted"
    BY <1>6 DEF ServerPongs, netVars, sharedVars, Pong, Msg, Messages, Types
  <2>2. ~AbortComes(Incoming) /\ ~AbortListed(receivedMessages)
    BY <2>1 DEF Over
  <2>3. AbortsAtEnd(Incoming') /\ (AbortComes(Incoming') => Over')
    BY <2>1, <2>2, SendingKeepsAbortion
  <2> QED
    BY <2>1, <2>2, <2>3
<1>10. CASE UNCHANGED <<buffer, wire, receivedMessages>> /\ (Over => Over')
  BY <1>10 DEF Incoming
<1>11. CASE UNCHANGED <<buffer, wire>> /\ receivedMessages' = <<>> /\ (Over => Over')
  BY <1>0, <1>11 DEF Incoming
<1>12. CASE TakeWelcome
  <2>1. PICK i \in 1 .. Len(receivedMessages) :
           IsWelcome(receivedMessages[i]) /\ receivedMessages' = RemoveAt(receivedMessages, i)
    BY <1>12, TakingWelcome
  <2> DEFINE l == receivedMessages
             r == receivedMessages'
  <2>. l \in Seq(Messages) /\ r = RemoveAt(l, i) /\ i \in 1 .. Len(l)
    BY <2>1 DEF TypesOK
  <2>3. l[i].type # "GameAborted"
    BY <2>1 DEF IsWelcome
  <2> HIDE DEF l, r
  <2>2. /\ l \in Seq(Messages) /\ r \in Seq(Messages)
        /\ Len(r) = Len(l) - 1 /\ Len(l) \in Nat
        /\ \A j \in 1 .. i - 1 : r[j] = l[j]
        /\ \A j \in i .. Len(l) - 1 : r[j] = l[j + 1]
    BY RemoveOne, SMTT(30)
  <2>4. ASSUME NEW j \in DOMAIN r, r[j].type = "GameAborted"
        PROVE  AbortListed(l) /\ (AbortListedAtEnd(l) => j = Len(r))
    <3>1. CASE j < i
      BY <2>1, <2>2, <2>3, <2>4, <3>1 DEF AbortListed, AbortListedAtEnd, l
    <3>2. CASE j >= i
      BY <2>1, <2>2, <2>4, <3>2, SMTT(30) DEF AbortListed, AbortListedAtEnd, l
    <3> QED
      BY <2>2, <3>1, <3>2
  <2>5. AbortListedAtEnd(r) /\ (AbortListed(r) => AbortListed(l))
    BY <2>4 DEF AbortListed, AbortListedAtEnd, l
  <2>6. UNCHANGED <<buffer, wire, server>>
    BY <1>12 DEF TakeWelcome, netVars, wireVars
  <2> QED
    BY <2>5, <2>6 DEF l, r, Incoming, Over
<1> QED
  <2>1. ASSUME NetChecks \/ Join \/ WelcomeMissing \/ TakeSignal \/ StartHandling \/ HandleMessage
               \/ LeaveLobby \/ LeaveAndShutdown \/ ServerEnds \/ SocketCloses \/ UNCHANGED connVars
        PROVE  UNCHANGED <<buffer, wire, receivedMessages>> /\ (Over => Over')
    BY <2>1 DEF NetChecks, Join, WelcomeMissing, TakeSignal, StartHandling, HandleMessage, LeaveLobby,
                LeaveAndShutdown, ServerEnds, SocketCloses, connVars, netVars, mainVars, sharedVars,
                wireVars, Over
  <2>2. ASSUME EndHandling \/ GameFrame
        PROVE  UNCHANGED <<buffer, wire>> /\ receivedMessages' = <<>> /\ (Over => Over')
    BY <2>2 DEF EndHandling, GameFrame, netVars, wireVars, Over
  <2> QED
    BY <1>1, <1>2, <1>3, <1>4, <1>5, <1>6, <1>10, <1>11, <1>12, <2>1, <2>2
    DEF ConnNext, NetNext, MainNext, WelcomeArrives, RefuseVersion

\* The abortion ends what the dialog handles.
LEMMA DialogStep ==
    ASSUME TypesOK, ThreadsInStep, AbortionIsLast, AbortionEndsDialog, [ConnNext]_connVars
    PROVE  AbortionEndsDialog'
<1> USE DEF AbortionEndsDialog
<1>1. CASE NetConnects
  <2>1. main = "connecting" /\ outcome' = outcome /\ main' \in {"welcome", "settings"}
    BY <1>1 DEF NetConnects, ThreadsInStep
  <2> QED
    BY <2>1
<1>2. CASE NetShutsDown
  <2>1. CASE main = "abort"
    <3>1. pos = Len(receivedMessages) /\ pos \in Nat
      BY <2>1 DEF TypesOK, AbortionIsLast, AbortListedAtEnd
    <3>2. pos' > Len(receivedMessages') /\ main' = "handling" /\ outcome' = outcome
      BY <1>2, <2>1, <3>1 DEF NetShutsDown
    <3> QED
      BY <3>2
  <2>2. CASE main = "shutdown"
    BY <1>2, <2>2 DEF NetShutsDown
  <2> QED
    BY <1>2, <2>1, <2>2 DEF NetShutsDown, ThreadsInStep
<1>3. CASE NetReads
  BY <1>3 DEF NetReads, mainVars, sharedVars
<1>4. CASE NetStores
  BY <1>4 DEF NetStores, mainVars, ThreadsInStep
<1>5. CASE NetChecks
  BY <1>5 DEF NetChecks, mainVars
<1>6. CASE Join
  BY <1>6 DEF Join
<1>7. CASE WelcomeArrives
  BY <1>7 DEF WelcomeArrives, TakeWelcome
<1>8. CASE RefuseVersion
  BY <1>8 DEF RefuseVersion
<1>9. CASE WelcomeMissing
  BY <1>9 DEF WelcomeMissing
<1>10. CASE TakeSignal
  <2>1. /\ UNCHANGED outcome
        /\ main' \in {main, "take"} /\ (main' = "take" => main = "lobby")
        /\ main \in {"settings", "lobby", "game"}
    BY <1>10 DEF TakeSignal
  <2> QED
    BY <2>1
<1>11. CASE StartHandling
  BY <1>11 DEF StartHandling
<1>12. CASE HandleMessage
  <2>1. outcome # "rejected" /\ pos \in DOMAIN receivedMessages
    BY <1>12, StoredMessages DEF HandleMessage, TypesOK
  <2>2. CASE receivedMessages[pos].type = "GameAborted"
    BY <1>12, <2>1, <2>2 DEF HandleMessage
  <2>3. CASE receivedMessages[pos].type # "GameAborted"
    BY <1>12, <2>1, <2>3 DEF HandleMessage
  <2> QED
    BY <2>2, <2>3
<1>13. CASE EndHandling
  BY <1>13 DEF EndHandling, TypesOK
<1>14. CASE LeaveLobby
  BY <1>14 DEF LeaveLobby
<1>15. CASE LeaveAndShutdown
  BY <1>15 DEF LeaveAndShutdown
<1>16. CASE GameFrame
  BY <1>16 DEF GameFrame
<1>17. CASE ServerSends
  BY <1>17 DEF ServerSends, mainVars, sharedVars
<1>18. CASE ServerPongs
  BY <1>18 DEF ServerPongs, mainVars, sharedVars
<1>19. CASE ServerEnds
  BY <1>19 DEF ServerEnds, mainVars, sharedVars
<1>20. CASE SocketCloses
  BY <1>20 DEF SocketCloses, mainVars, sharedVars
<1>21. CASE UNCHANGED connVars
  BY <1>21 DEF connVars, mainVars, sharedVars
<1> QED
  BY <1>1, <1>2, <1>3, <1>4, <1>5, <1>6, <1>7, <1>8, <1>9, <1>10, <1>11, <1>12, <1>13, <1>14,
     <1>15, <1>16, <1>17, <1>18, <1>19, <1>20, <1>21 DEF ConnNext, NetNext, MainNext

\* The watch lasts while the dialog may still enter the lobby or the match.
LEMMA WatchStep ==
    ASSUME TypesOK, ThreadsInStep, AbortionEndsDialog, WatchLasts, [ConnNext]_connVars
    PROVE  WatchLasts'
<1> USE DEF WatchLasts, Watched, TimersRunning
<1>1. CASE NetConnects
  BY <1>1 DEF NetConnects
<1>2. CASE NetShutsDown
  BY <1>2 DEF NetShutsDown, ThreadsInStep, AbortionEndsDialog
<1>3. CASE NetReads
  BY <1>3 DEF NetReads, mainVars, sharedVars
<1>4. CASE NetStores
  BY <1>4 DEF NetStores, mainVars
<1>5. CASE NetChecks
  BY <1>5 DEF NetChecks, mainVars, LossSignal
<1>6. CASE Join
  BY <1>6 DEF Join
<1>7. CASE WelcomeArrives
  BY <1>7 DEF WelcomeArrives, TakeWelcome, netVars
<1>8. CASE RefuseVersion
  BY <1>8 DEF RefuseVersion
<1>9. CASE WelcomeMissing
  BY <1>9 DEF WelcomeMissing
<1>10. CASE TakeSignal
  BY <1>10 DEF TakeSignal, netVars
<1>11. CASE StartHandling
  BY <1>11 DEF StartHandling, netVars
<1>12. CASE HandleMessage
  BY <1>12, StoredMessages DEF HandleMessage, netVars, AbortionEndsDialog, TypesOK
<1>13. CASE EndHandling
  BY <1>13 DEF EndHandling, netVars
<1>14. CASE LeaveLobby
  BY <1>14 DEF LeaveLobby
<1>15. CASE LeaveAndShutdown
  BY <1>15 DEF LeaveAndShutdown
<1>16. CASE GameFrame
  BY <1>16 DEF GameFrame, netVars
<1>17. CASE ServerSends
  BY <1>17 DEF ServerSends, netVars, mainVars, sharedVars
<1>18. CASE ServerPongs
  BY <1>18 DEF ServerPongs, netVars, mainVars, sharedVars
<1>19. CASE ServerEnds
  BY <1>19 DEF ServerEnds, netVars, mainVars, sharedVars
<1>20. CASE SocketCloses
  BY <1>20 DEF SocketCloses, netVars, mainVars, sharedVars
<1>21. CASE UNCHANGED connVars
  BY <1>21 DEF connVars, netVars, mainVars, sharedVars
<1> QED
  BY <1>1, <1>2, <1>3, <1>4, <1>5, <1>6, <1>7, <1>8, <1>9, <1>10, <1>11, <1>12, <1>13, <1>14,
     <1>15, <1>16, <1>17, <1>18, <1>19, <1>20, <1>21 DEF ConnNext, NetNext, MainNext

\* The inductive invariant of the two theorems below.
LEMMA LossInvariant == ConnSpec => []LossInv
<1>1. ConnInit => LossInv
  <2> SUFFICES ASSUME ConnInit PROVE LossInv
    OBVIOUS
  <2>1. TypesOK
    BY EmptySeq DEF ConnInit, TypesOK, Complete
  <2>2. Incoming = <<>>
    BY DEF ConnInit, Incoming
  <2>3. AbortionIsLast
    BY <2>2 DEF ConnInit, AbortionIsLast, AbortsAtEnd, AbortComes, AbortListed, AbortListedAtEnd
  <2>4. ThreadsInStep /\ AbortionEndsDialog /\ WatchLasts
    BY DEF ConnInit, ThreadsInStep, AbortionEndsDialog, WatchLasts
  <2> QED
    BY <2>1, <2>3, <2>4 DEF LossInv
<1>2. LossInv /\ [ConnNext]_connVars => LossInv'
  BY TypesStep, ThreadsStep, AbortionStep, DialogStep, WatchStep DEF LossInv
<1> QED
  BY <1>1, <1>2, PTL DEF ConnSpec

\* The dialog never waits in Shutdown, holding the mutex of the list, for a network thread
\* that needs this mutex to store a message: no message follows GameAborted.
THEOREM ClientNeverLockedOut == ConnSpec => []NeverLockedOut
<1>1. LossInv => NeverLockedOut
  <2> SUFFICES ASSUME LossInv, main = "abort", net = "store" PROVE FALSE
    BY DEF NeverLockedOut
  <2>1. AbortListed(receivedMessages)
    BY DEF LossInv, AbortionEndsDialog, AbortListed
  <2>2. Incoming = <<>> /\ Complete(buffer)
    BY <2>1 DEF LossInv, AbortionIsLast, TypesOK
  <2> QED
    BY <2>2, IncomingTyped, EmptySeq DEF LossInv, Complete
<1> QED
  BY <1>1, LossInvariant, PTL

\* Whoever waits in the lobby or plays has a timer watching the connection, or its loss has
\* been signalled: PingAndCheckConnection never stops without telling.
THEOREM LossAlwaysNoticed == ConnSpec => []LossNoticed
<1>1. LossInv => LossNoticed
  BY DEF LossInv, WatchLasts, Watched, LossNoticed
<1> QED
  BY <1>1, LossInvariant, PTL
-----------------------------------------------------------------------------
\* Taking the first message away: the heads of messages move by two.
LEMMA RestOfStream ==
    ASSUME NEW p \in Seq(MessageParts), Complete(p), WholeMessages(p)
    PROVE  /\ Rest(p) \in Seq(MessageParts)
           /\ WholeMessages(Rest(p))
           /\ OnePong(p) => OnePong(Rest(p))
           /\ NoPong(p) => NoPong(Rest(p))
           /\ \A i \in Heads(Rest(p)) : i + 2 \in Heads(p) /\ Number(Rest(p), i) = Number(p, i + 2)
           /\ \A i \in Heads(p) : i = 1 \/ (i > 2 /\ i - 2 \in Heads(Rest(p)))
           /\ p[1][1] # Pong => 1 \in Heads(p)
           /\ p[2] = <<p[1][1], 2>>
           /\ Rest(p) # <<>> => Rest(p)[Len(Rest(p))] = p[Len(p)]
           /\ Heads(p) \subseteq Nat /\ Heads(Rest(p)) \subseteq Nat
<1> DEFINE r == Rest(p)
<1>1. /\ r \in Seq(MessageParts) /\ Len(r) = Len(p) - 2 /\ Len(p) \in Nat /\ Len(r) \in Nat /\ Len(p) >= 2
      /\ DOMAIN p = 1 .. Len(p) /\ DOMAIN r = 1 .. Len(r)
      /\ p # <<>> /\ (r # <<>> => Len(r) > 0)
  BY RestProperties, EmptySeq, LenProperties DEF Complete
<1>2. \A i \in DOMAIN r : i + 2 \in DOMAIN p /\ r[i] = p[i + 2]
  BY <1>1, RestProperties
<1> HIDE DEF r
<1>3. p[1][2] = 1 /\ p[2] = <<p[1][1], 2>>
  BY <1>1 DEF WholeMessages
<1>4. WholeMessages(r)
  <2>1. r # <<>> => r[1][2] = 1
    <3>1. r # <<>> => 3 \in DOMAIN p /\ 2 \in DOMAIN p /\ r[1] = p[3]
      BY <1>1, <1>2
    <3>2. 3 \in DOMAIN p /\ 2 \in DOMAIN p => p[3][2] = 1
      BY <1>3 DEF WholeMessages
    <3> QED
      BY <3>1, <3>2
  <2>2. ASSUME NEW i \in DOMAIN r, i + 1 \in DOMAIN r
        PROVE  IF r[i][2] = 1 THEN r[i + 1] = <<r[i][1], 2>> ELSE r[i + 1][2] = 1
    <3>1. /\ i + 2 \in DOMAIN p /\ (i + 2) + 1 \in DOMAIN p
          /\ r[i] = p[i + 2] /\ r[i + 1] = p[(i + 2) + 1]
      <4>1. (i + 1) + 2 = (i + 2) + 1
        BY <1>1
      <4> QED
        BY <1>2, <2>2, <4>1
    <3> QED
      BY <3>1 DEF WholeMessages
  <2> QED
    BY <2>1, <2>2 DEF WholeMessages
<1>5. OnePong(p) => OnePong(r)
  <2> SUFFICES ASSUME OnePong(p), NEW i \in DOMAIN r, NEW j \in DOMAIN r,
                      r[i] = <<Pong, 1>>, r[j] = <<Pong, 1>>
               PROVE  i = j
    BY DEF OnePong
  <2>1. i + 2 = j + 2
    BY <1>2 DEF OnePong
  <2> QED
    BY <1>1, <2>1
<1>6. NoPong(p) => NoPong(r)
  BY <1>2 DEF NoPong
<1>7. \A i \in Heads(r) : i + 2 \in Heads(p) /\ Number(r, i) = Number(p, i + 2)
  BY <1>2 DEF Heads, Number
<1>8. ASSUME NEW i \in Heads(p) PROVE i = 1 \/ (i > 2 /\ i - 2 \in Heads(r))
  <2>1. i # 2
    BY <1>3 DEF Heads
  <2>2. CASE i > 2
    <3>1. i - 2 \in DOMAIN r /\ (i - 2) + 2 = i
      BY <1>1, <2>2 DEF Heads
    <3>2. r[i - 2] = p[i]
      BY <1>2, <3>1
    <3> QED
      BY <2>2, <3>1, <3>2 DEF Heads
  <2> QED
    BY <1>1, <2>1, <2>2 DEF Heads
<1>9. p[1][1] # Pong => 1 \in Heads(p)
  BY <1>1, <1>3 DEF Heads
<1>10. r # <<>> => r[Len(r)] = p[Len(p)]
  BY <1>1, <1>2
<1>11. Heads(p) \subseteq Nat /\ Heads(r) \subseteq Nat
  BY <1>1 DEF Heads
<1> QED
  BY <1>1, <1>3, <1>4, <1>5, <1>6, <1>7, <1>8, <1>9, <1>10, <1>11 DEF r

\* The numbers of messages are integers.
LEMMA NumberTyped ==
    ASSUME NEW p \in Seq(MessageParts), NEW i \in DOMAIN p
    PROVE  p[i] \in MessageParts /\ Number(p, i) \in Int
<1>1. p[i] \in MessageParts
  <2> HIDE DEF MessageParts
  <2> QED OBVIOUS
<1>2. p[i][1] \in Messages
  BY <1>1, PartPair
<1> QED
  BY <1>1, <1>2 DEF Number, Messages

\* Without a ping response in front, the same numbers follow.
LEMMA PongLeaves ==
    ASSUME NEW p \in Seq(MessageParts), Complete(p), WholeMessages(p), p[1][1] = Pong,
           NEW n \in Int, InSequence(p, n), NEW last \in Int
    PROVE  /\ InSequence(Rest(p), n)
           /\ UpTo(p, n, last) => UpTo(Rest(p), n, last)
<1> DEFINE r == Rest(p)
<1>1. /\ \A i \in Heads(r) : i + 2 \in Heads(p) /\ Number(r, i) = Number(p, i + 2)
      /\ \A i \in Heads(p) : i > 2 /\ i - 2 \in Heads(r)
      /\ r # <<>> => r[Len(r)] = p[Len(p)]
      /\ Heads(p) \subseteq Nat /\ Heads(r) \subseteq Nat
      /\ p # <<>>
  <2>1. 1 \notin Heads(p)
    BY DEF Heads
  <2> QED
    BY <2>1, RestOfStream, EmptySeq DEF Complete
<1> HIDE DEF r
<1>2. \A i \in Heads(p) : Number(r, i - 2) = Number(p, i)
  BY <1>1
<1>3. ASSUME NEW i \in Heads(r)
      PROVE  Number(r, i) = n + 1 \/ \E j \in Heads(r) : j < i /\ Number(r, j) = Number(r, i) - 1
  <2>1. CASE Number(p, i + 2) = n + 1
    BY <1>1, <2>1
  <2>2. CASE \E j \in Heads(p) : j < i + 2 /\ Number(p, j) = Number(p, i + 2) - 1
    <3>1. PICK j \in Heads(p) : j < i + 2 /\ Number(p, j) = Number(p, i + 2) - 1
      BY <2>2
    <3>2. j - 2 \in Heads(r) /\ j - 2 < i /\ Number(r, j - 2) = Number(r, i) - 1
      BY <1>1, <1>2, <3>1
    <3> QED
      BY <3>2
  <2> QED
    BY <1>1, <2>1, <2>2 DEF InSequence
<1>4. \A i, j \in Heads(r) : i < j => Number(r, i) < Number(r, j)
  <2> SUFFICES ASSUME NEW i \in Heads(r), NEW j \in Heads(r), i < j PROVE Number(r, i) < Number(r, j)
    OBVIOUS
  <2>1. i + 2 < j + 2
    BY <1>1
  <2> QED
    BY <1>1, <2>1 DEF InSequence
<1>5. InSequence(r, n)
  BY <1>1, <1>3, <1>4 DEF InSequence
<1>6. UpTo(p, n, last) => UpTo(r, n, last)
  <2> SUFFICES ASSUME UpTo(p, n, last) PROVE UpTo(r, n, last)
    OBVIOUS
  <2>1. n = last \/ \E i \in Heads(r) : Number(r, i) = last
    BY <1>1, <1>2 DEF UpTo
  <2> QED
    BY <1>1, <2>1 DEF UpTo
<1> QED
  BY <1>5, <1>6 DEF r

\* With another message in front, that message is the next one.
LEMMA HeadLeaves ==
    ASSUME NEW p \in Seq(MessageParts), Complete(p), WholeMessages(p), p[1][1] # Pong,
           NEW n \in Int, InSequence(p, n), NEW last \in Int
    PROVE  /\ Number(p, 1) = n + 1
           /\ InSequence(Rest(p), n + 1)
           /\ UpTo(p, n, last) => UpTo(Rest(p), n + 1, last)
<1> DEFINE r == Rest(p)
<1>1. /\ \A i \in Heads(r) : i + 2 \in Heads(p) /\ Number(r, i) = Number(p, i + 2)
      /\ \A i \in Heads(p) : i = 1 \/ (i > 2 /\ i - 2 \in Heads(r))
      /\ 1 \in Heads(p)
      /\ r # <<>> => r[Len(r)] = p[Len(p)]
      /\ Heads(p) \subseteq Nat /\ Heads(r) \subseteq Nat
      /\ p # <<>>
  BY RestOfStream, EmptySeq DEF Complete
<1>2. Heads(p) \subseteq 1 .. Len(p) /\ Heads(r) \subseteq 1 .. Len(r)
  BY RestProperties, LenProperties DEF Heads
<1>3. \A i \in Heads(p) : Number(p, i) \in Int
  BY NumberTyped DEF Heads
<1> HIDE DEF r
<1>4. Number(p, 1) = n + 1
  BY <1>1, <1>2 DEF InSequence
<1>5. \A i \in Heads(p) : i # 1 => Number(r, i - 2) = Number(p, i)
  BY <1>1
<1>6. \A i \in Heads(r) : Number(r, i) > n + 1 /\ Number(r, i) \in Int
  <2> SUFFICES ASSUME NEW i \in Heads(r) PROVE Number(r, i) > n + 1 /\ Number(r, i) \in Int
    OBVIOUS
  <2>1. i + 2 \in Heads(p) /\ 1 < i + 2
    BY <1>1
  <2> QED
    BY <1>1, <1>3, <1>4, <2>1 DEF InSequence
<1>7. ASSUME NEW i \in Heads(r)
      PROVE  \/ Number(r, i) = (n + 1) + 1
             \/ \E j \in Heads(r) : j < i /\ Number(r, j) = Number(r, i) - 1
  <2>1. Number(p, i + 2) # n + 1
    BY <1>1, <1>6
  <2>2. PICK j \in Heads(p) : j < i + 2 /\ Number(p, j) = Number(p, i + 2) - 1
    BY <1>1, <2>1 DEF InSequence
  <2>3. CASE j = 1
    BY <1>1, <1>4, <1>6, <2>2, <2>3
  <2>4. CASE j # 1
    <3>1. j - 2 \in Heads(r) /\ j - 2 < i /\ Number(r, j - 2) = Number(r, i) - 1
      BY <1>1, <1>5, <2>2, <2>4
    <3> QED
      BY <3>1
  <2> QED
    BY <2>3, <2>4
<1>8. \A i, j \in Heads(r) : i < j => Number(r, i) < Number(r, j)
  <2> SUFFICES ASSUME NEW i \in Heads(r), NEW j \in Heads(r), i < j PROVE Number(r, i) < Number(r, j)
    OBVIOUS
  <2>1. i + 2 < j + 2
    BY <1>1
  <2> QED
    BY <1>1, <2>1 DEF InSequence
<1>9. InSequence(r, n + 1)
  BY <1>6, <1>7, <1>8 DEF InSequence
<1>10. UpTo(p, n, last) => UpTo(r, n + 1, last)
  <2> SUFFICES ASSUME UpTo(p, n, last) PROVE UpTo(r, n + 1, last)
    OBVIOUS
  <2>1. n # last
    BY <1>1, <1>4 DEF UpTo
  <2>2. PICK i \in Heads(p) : Number(p, i) = last
    BY <2>1 DEF UpTo
  <2>3. n + 1 = last \/ \E j \in Heads(r) : Number(r, j) = last
    BY <1>1, <1>4, <1>5, <2>2
  <2> QED
    BY <1>1, <2>3 DEF UpTo
<1> QED
  BY <1>4, <1>9, <1>10 DEF r

\* q is p with the two parts of m at its end.
Extended(p, q, m) ==
    /\ Len(q) = Len(p) + 2
    /\ \A i \in 1 .. Len(p) : q[i] = p[i]
    /\ q[Len(p) + 1] = <<m, 1>>
    /\ q[Len(p) + 2] = <<m, 2>>

\* A message sent after whole messages leaves them whole, and only adds its own head.
LEMMA ExtendedStream ==
    ASSUME NEW p \in Seq(MessageParts), NEW q \in Seq(MessageParts), NEW m \in Messages,
           Extended(p, q, m), p # <<>> => p[Len(p)][2] = 2
    PROVE  /\ WholeMessages(p) => WholeMessages(q)
           /\ Heads(q) = Heads(p) \cup (IF m = Pong THEN {} ELSE {Len(p) + 1})
           /\ \A i \in Heads(p) : Number(q, i) = Number(p, i) /\ i <= Len(p)
           /\ Number(q, Len(p) + 1) = m.number
           /\ q # <<>> /\ q[Len(q)][2] = 2
           /\ m # Pong => (NoPong(p) => NoPong(q)) /\ (OnePong(p) => OnePong(q))
           /\ NoPong(p) => OnePong(q)
<1>1. /\ Len(p) \in Nat /\ Len(q) = Len(p) + 2
      /\ DOMAIN p = 1 .. Len(p) /\ DOMAIN q = 1 .. Len(p) + 2
      /\ p # <<>> <=> Len(p) > 0
      /\ q # <<>>
  BY LenProperties, EmptySeq DEF Extended
<1>2. /\ \A i \in 1 .. Len(p) : q[i] = p[i]
      /\ q[Len(p) + 1] = <<m, 1>> /\ q[Len(p) + 2] = <<m, 2>>
  BY DEF Extended
<1>3. WholeMessages(p) => WholeMessages(q)
  <2> SUFFICES ASSUME WholeMessages(p) PROVE WholeMessages(q)
    OBVIOUS
  <2>1. q[1][2] = 1
    BY <1>1, <1>2 DEF WholeMessages
  <2>2. ASSUME NEW i \in DOMAIN q, i + 1 \in DOMAIN q
        PROVE  IF q[i][2] = 1 THEN q[i + 1] = <<q[i][1], 2>> ELSE q[i + 1][2] = 1
    <3>1. CASE i < Len(p)
      BY <1>1, <1>2, <2>2, <3>1 DEF WholeMessages
    <3>2. CASE i = Len(p)
      BY <1>1, <1>2, <2>2, <3>2
    <3>3. CASE i = Len(p) + 1
      BY <1>1, <1>2, <2>2, <3>3
    <3> QED
      BY <1>1, <2>2, <3>1, <3>2, <3>3
  <2> QED
    BY <2>1, <2>2 DEF WholeMessages
<1>4. Heads(q) = Heads(p) \cup (IF m = Pong THEN {} ELSE {Len(p) + 1})
  <2>1. \A i \in 1 .. Len(p) : i \in Heads(q) <=> i \in Heads(p)
    BY <1>1, <1>2 DEF Heads
  <2>2. Len(p) + 1 \in Heads(q) <=> m # Pong
    BY <1>1, <1>2 DEF Heads
  <2>3. Len(p) + 2 \notin Heads(q)
    BY <1>1, <1>2 DEF Heads
  <2>4. Heads(p) \subseteq 1 .. Len(p) /\ Heads(q) \subseteq 1 .. Len(p) + 2
    BY <1>1 DEF Heads
  <2> QED
    BY <1>1, <2>1, <2>2, <2>3, <2>4
<1>5. \A i \in Heads(p) : Number(q, i) = Number(p, i) /\ i <= Len(p)
  BY <1>1, <1>2 DEF Heads, Number
<1>6. Number(q, Len(p) + 1) = m.number
  BY <1>2 DEF Number
<1>7. q[Len(q)][2] = 2
  BY <1>1, <1>2
<1>8. m # Pong => (NoPong(p) => NoPong(q)) /\ (OnePong(p) => OnePong(q))
  <2> SUFFICES ASSUME m # Pong PROVE (NoPong(p) => NoPong(q)) /\ (OnePong(p) => OnePong(q))
    OBVIOUS
  <2>1. \A i \in DOMAIN q : q[i][1] = Pong => i \in DOMAIN p /\ q[i] = p[i]
    BY <1>1, <1>2
  <2>2. NoPong(p) => NoPong(q)
    BY <2>1 DEF NoPong
  <2>3. \A i \in DOMAIN q : q[i] = <<Pong, 1>> => i \in DOMAIN p /\ p[i] = <<Pong, 1>>
    BY <2>1
  <2>4. OnePong(p) => OnePong(q)
    BY <2>3 DEF OnePong
  <2> QED
    BY <2>2, <2>4
<1>9. NoPong(p) => OnePong(q)
  <2> SUFFICES ASSUME NoPong(p) PROVE OnePong(q)
    OBVIOUS
  <2>1. \A i \in DOMAIN q : q[i] = <<Pong, 1>> => i = Len(p) + 1
    BY <1>1, <1>2 DEF NoPong
  <2> QED
    BY <2>1 DEF OnePong
<1> QED
  BY <1>1, <1>3, <1>4, <1>5, <1>6, <1>7, <1>8, <1>9

\* Sending the next message keeps the numbers in sequence.
LEMMA SendingKeepsSequence ==
    ASSUME NEW p \in Seq(MessageParts), NEW q \in Seq(MessageParts), NEW m \in Messages,
           Extended(p, q, m), NEW n \in Int, NEW last \in Int,
           InSequence(p, n), UpTo(p, n, last)
    PROVE  /\ m = Pong => InSequence(q, n) /\ UpTo(q, n, last)
           /\ m # Pong /\ m.number = last + 1 => InSequence(q, n) /\ UpTo(q, n, last + 1)
<1>1. /\ Heads(q) = Heads(p) \cup (IF m = Pong THEN {} ELSE {Len(p) + 1})
      /\ \A i \in Heads(p) : Number(q, i) = Number(p, i) /\ i <= Len(p)
      /\ Number(q, Len(p) + 1) = m.number
      /\ q[Len(q)][2] = 2
  BY ExtendedStream DEF UpTo
<1>2. Heads(p) \subseteq 1 .. Len(p) /\ Len(p) \in Nat
  BY LenProperties DEF Heads
<1>3. \A i \in Heads(p) : Number(p, i) \in Int
  BY NumberTyped DEF Heads
<1>6. n <= last
  BY <1>3 DEF InSequence, UpTo
<1>4. CASE m = Pong
  BY <1>1, <1>4 DEF InSequence, UpTo
<1>5. ASSUME m # Pong, m.number = last + 1
      PROVE  InSequence(q, n) /\ UpTo(q, n, last + 1)
  <2> DEFINE h == Len(p) + 1
  <2>1. Heads(q) = Heads(p) \cup {h} /\ Number(q, h) = last + 1
    BY <1>1, <1>5
  <2>2. \A i \in Heads(p) : i < h /\ Number(q, i) <= last /\ Number(q, i) > n
    BY <1>1, <1>2, <1>3 DEF UpTo, InSequence
  <2>3. \A i \in Heads(q) : Number(q, i) > n /\ Number(q, i) <= last + 1
    BY <1>1, <1>3, <1>6, <2>1, <2>2
  <2>4. \A i, j \in Heads(q) : i < j => Number(q, i) < Number(q, j)
    BY <1>1, <1>2, <1>3, <2>1, <2>2 DEF InSequence
  <2>5. ASSUME NEW i \in Heads(q)
        PROVE  Number(q, i) = n + 1 \/ \E j \in Heads(q) : j < i /\ Number(q, j) = Number(q, i) - 1
    <3>1. CASE i \in Heads(p)
      BY <1>1, <2>1, <3>1 DEF InSequence
    <3>2. CASE i = h
      <4>1. CASE n = last
        BY <2>1, <3>2, <4>1
      <4>2. CASE \E j \in Heads(p) : Number(p, j) = last
        BY <1>1, <2>1, <2>2, <3>2, <4>2
      <4> QED
        BY <4>1, <4>2 DEF UpTo
    <3> QED
      BY <2>1, <3>1, <3>2
  <2>6. InSequence(q, n)
    BY <2>3, <2>4, <2>5 DEF InSequence
  <2>7. UpTo(q, n, last + 1)
    BY <1>1, <2>1, <2>3 DEF UpTo
  <2> QED
    BY <2>6, <2>7
<1> QED
  BY <1>4, <1>5

\* An end of the stream that is lost leaves the rest as it was.
LEMMA LostEnd ==
    ASSUME NEW p \in Seq(MessageParts), NEW q \in Seq(MessageParts), NEW n,
           Len(q) <= Len(p), \A i \in 1 .. Len(q) : q[i] = p[i]
    PROVE  /\ WholeMessages(p) => WholeMessages(q)
           /\ OnePong(p) => OnePong(q)
           /\ InSequence(p, n) => InSequence(q, n)
<1>1. /\ Len(p) \in Nat /\ Len(q) \in Nat
      /\ DOMAIN p = 1 .. Len(p) /\ DOMAIN q = 1 .. Len(q)
      /\ (p # <<>> <=> Len(p) > 0) /\ (q # <<>> <=> Len(q) > 0)
  BY LenProperties, EmptySeq
<1>2. DOMAIN q \subseteq DOMAIN p /\ (q # <<>> => p # <<>> /\ q[1] = p[1])
  BY <1>1
<1>3. WholeMessages(p) => WholeMessages(q)
  BY <1>1, <1>2 DEF WholeMessages
<1>4. OnePong(p) => OnePong(q)
  BY <1>1, <1>2 DEF OnePong
<1>5. /\ Heads(q) \subseteq Heads(p)
      /\ \A i \in Heads(q) : Number(q, i) = Number(p, i)
      /\ \A i \in Heads(q), j \in Heads(p) : j < i => j \in Heads(q)
  BY <1>1, <1>2 DEF Heads, Number
<1>6. InSequence(p, n) => InSequence(q, n)
  <2> SUFFICES ASSUME InSequence(p, n) PROVE InSequence(q, n)
    OBVIOUS
  <2>1. \A i \in Heads(q) : Number(q, i) = n + 1
                              \/ \E j \in Heads(q) : j < i /\ Number(q, j) = Number(q, i) - 1
    BY <1>5 DEF InSequence
  <2>2. \A i, j \in Heads(q) : i < j => Number(q, i) < Number(q, j)
    BY <1>5 DEF InSequence
  <2> QED
    BY <1>5, <2>1, <2>2 DEF InSequence
<1> QED
  BY <1>3, <1>4, <1>6

\* Nothing is on its way.
LEMMA EmptyStream ==
    ASSUME NEW n \in Int
    PROVE  /\ WholeMessages(<<>>) /\ OnePong(<<>>) /\ NoPong(<<>>)
           /\ InSequence(<<>>, n) /\ UpTo(<<>>, n, n)
<1>1. DOMAIN <<>> = {}
  OBVIOUS
<1>2. Heads(<<>>) = {}
  BY <1>1 DEF Heads
<1> QED
  BY <1>1, <1>2 DEF WholeMessages, OnePong, NoPong, InSequence, UpTo
-----------------------------------------------------------------------------
\* The position in the list never lies behind its end.
LEMMA WithinStep ==
    ASSUME TypesOK, ThreadsInStep, WithinList, [ConnNext]_connVars
    PROVE  WithinList'
<1> USE DEF WithinList, Skip
<1>0. Len(receivedMessages) \in Nat /\ pos \in Nat
  BY StoredMessages DEF TypesOK
<1>1. CASE NetConnects
  <2>1. main' \in {"welcome", "settings"} /\ receivedMessages' = <<>>
    BY <1>1 DEF NetConnects
  <2> QED
    BY <2>1
<1>2. CASE NetShutsDown
  BY <1>0, <1>2 DEF NetShutsDown, ThreadsInStep
<1>3. CASE NetStores
  BY <1>0, <1>3, Storing DEF NetStores, mainVars, ThreadsInStep
<1>4. CASE TakeWelcome /\ main' \in {"handling", "leave"} /\ (main' = "handling" => pos' = 1)
  BY <1>4, TakingWelcome
<1>5. CASE HandleMessage
  BY <1>0, <1>5 DEF HandleMessage
<1>6. CASE EndHandling \/ GameFrame
  <2>1. receivedMessages' = <<>> /\ main' \in {"game", "leave", "lobby"}
    BY <1>6 DEF EndHandling, GameFrame
  <2> QED
    BY <2>1
<1>7. CASE StartHandling
  BY <1>0, <1>7 DEF StartHandling
<1>8. CASE UNCHANGED receivedMessages /\ main' \notin {"handling", "abort"}
  BY <1>0, <1>8
<1>9. CASE UNCHANGED <<receivedMessages, main, pos>>
  BY <1>0, <1>9
<1> QED
  <2>1. ASSUME Join \/ WelcomeMissing \/ TakeSignal \/ LeaveLobby \/ LeaveAndShutdown
        PROVE  UNCHANGED receivedMessages /\ main' \notin {"handling", "abort"}
    BY <2>1 DEF Join, WelcomeMissing, TakeSignal, LeaveLobby, LeaveAndShutdown, sharedVars
  <2>2. ASSUME NetReads \/ NetChecks \/ ServerSends \/ ServerPongs \/ ServerEnds \/ SocketCloses
               \/ UNCHANGED connVars
        PROVE  UNCHANGED <<receivedMessages, main, pos>>
    BY <2>2 DEF NetReads, NetChecks, ServerSends, ServerPongs, ServerEnds, SocketCloses, connVars,
                mainVars, sharedVars
  <2> QED
    BY <1>1, <1>2, <1>3, <1>4, <1>5, <1>6, <1>7, <1>8, <1>9, <2>1, <2>2
    DEF ConnNext, NetNext, MainNext, WelcomeArrives, RefuseVersion

\* Only the first message is a welcome.
LEMMA WelcomeStep ==
    ASSUME TypesOK, TypesOK', WelcomeIsFirst, [ConnNext]_connVars
    PROVE  WelcomeIsFirst'
<1> USE DEF WelcomeIsFirst
<1>0. /\ Incoming \in Seq(MessageParts) /\ Incoming' \in Seq(MessageParts)
      /\ DOMAIN Incoming = 1 .. Len(Incoming) /\ DOMAIN Incoming' = 1 .. Len(Incoming')
      /\ DOMAIN receivedMessages = 1 .. Len(receivedMessages)
      /\ DOMAIN receivedMessages' = 1 .. Len(receivedMessages')
      /\ Len(Incoming) \in Nat /\ Len(Incoming') \in Nat
      /\ Len(receivedMessages) \in Nat /\ Len(receivedMessages') \in Nat
  BY IncomingTyped, LenProperties DEF TypesOK, Incoming
<1>1. CASE NetConnects
  <2>1. receivedMessages' = <<>> /\ buffer' = <<>> /\ wire' \in {wire, <<>>}
    BY <1>1 DEF NetConnects, ClearedBuffer
  <2>2. Incoming' = wire' /\ wire \in Seq(MessageParts) /\ Len(wire) \in Nat
    BY <2>1, IncomingTyped DEF Incoming, TypesOK
  <2>3. CASE wire' = <<>>
    BY <2>1, <2>2, <2>3
  <2>4. CASE wire' = wire
    <3>1. \A i \in 1 .. Len(wire) : Len(buffer) + i \in DOMAIN Incoming
                                    /\ Incoming[Len(buffer) + i] = Incoming'[i]
      BY <1>0, <2>2, <2>4, IncomingTyped
    <3>2. DOMAIN Incoming' = 1 .. Len(wire)
      BY <1>0, <2>2, <2>4
    <3>3. DOMAIN receivedMessages' = {}
      BY <2>1
    <3> QED
      BY <3>1, <3>2, <3>3
  <2> QED
    BY <2>1, <2>3, <2>4
<1>2. CASE NetShutsDown
  <2>1. UNCHANGED <<buffer, receivedMessages>> /\ wire' = <<>>
    BY <1>2 DEF NetShutsDown
  <2>2. Incoming' = buffer
    BY <2>1 DEF Incoming, TypesOK
  <2>3. \A i \in DOMAIN Incoming' : i \in DOMAIN Incoming /\ Incoming[i] = Incoming'[i]
    BY <1>0, <2>2, IncomingTyped
  <2> QED
    BY <2>1, <2>3
<1>3. CASE NetReads
  <2>1. PICK d \in {0, 2} : Shifted(Incoming, Incoming', d)
    BY <1>0, <1>3, Reading, TakenShifts
  <2>2. \A i \in DOMAIN Incoming' : i + d \in DOMAIN Incoming /\ Incoming[i + d] = Incoming'[i]
    BY <1>0, <2>1 DEF Shifted
  <2>3. UNCHANGED receivedMessages
    BY <1>3 DEF NetReads, sharedVars
  <2> QED
    BY <2>2, <2>3
<1>4. CASE NetStores
  <2>1. PICK d \in {2, 4} : Shifted(Incoming, Incoming', d)
    BY <1>4, StoringShifts
  <2>2. \A i \in DOMAIN Incoming' : i + d \in DOMAIN Incoming /\ Incoming[i + d] = Incoming'[i]
    BY <1>0, <2>1 DEF Shifted
  <2>3. 1 \in DOMAIN Incoming /\ buffer[1] = Incoming[1]
    BY <1>0, <1>4, StoringTakes DEF Complete
  <2>4. ~IsWelcome(Msg("garbled", -1))
    BY DEF IsWelcome, Msg
  <2>5. \A i \in DOMAIN receivedMessages' :
           \/ i \in DOMAIN receivedMessages /\ receivedMessages'[i] = receivedMessages[i]
           \/ receivedMessages'[i] = First(buffer)
           \/ receivedMessages'[i] = Msg("garbled", -1)
    BY <1>0, <1>4, Storing
  <2> QED
    BY <2>2, <2>3, <2>4, <2>5 DEF First
<1>5. CASE ServerSends \/ ServerPongs
  <2>1. PICK m \in Messages : /\ wire' = wire \o Parts(m) /\ UNCHANGED <<buffer, receivedMessages>>
                              /\ IsWelcome(m) => m.number = 1
    <3>1. CASE ServerSends
      <4>1. PICK t \in Types : Send(t) /\ (t = "Welcome" => sent = 0)
        BY <3>1 DEF ServerSends, Types, Welcomed, TypesOK
      <4>2. Msg(t, sent + 1) \in Messages /\ (IsWelcome(Msg(t, sent + 1)) => sent + 1 = 1)
        BY <4>1 DEF Msg, Messages, TypesOK, IsWelcome
      <4> QED
        BY <3>1, <4>1, <4>2 DEF Send, ServerSends, netVars, sharedVars, Msg
    <3>2. CASE ServerPongs
      <4>1. Pong \in Messages /\ ~IsWelcome(Pong)
        BY DEF Pong, Msg, Messages, Types, IsWelcome
      <4> QED
        BY <3>2, <4>1 DEF ServerPongs, netVars, sharedVars
    <3> QED
      BY <1>5, <3>1, <3>2
  <2>2. \A i \in DOMAIN Incoming' :
           (i \in DOMAIN Incoming /\ Incoming'[i] = Incoming[i]) \/ Incoming'[i][1] = m
    <3>1. /\ Len(Incoming') = Len(Incoming) + 2
          /\ \A i \in 1 .. Len(Incoming) : Incoming'[i] = Incoming[i]
          /\ Incoming'[Len(Incoming) + 1] = <<m, 1>> /\ Incoming'[Len(Incoming) + 2] = <<m, 2>>
      BY <2>1, SendExtends
    <3>2. Incoming'[Len(Incoming) + 1][1] = m /\ Incoming'[Len(Incoming) + 2][1] = m
      BY <3>1
    <3>3. \A i \in DOMAIN Incoming' : i \in DOMAIN Incoming \/ i = Len(Incoming) + 1
                                                            \/ i = Len(Incoming) + 2
      BY <1>0, <3>1
    <3> QED
      BY <1>0, <3>1, <3>2, <3>3
  <2> QED
    BY <2>1, <2>2
<1>6. CASE TakeWelcome
  <2>1. PICK i \in 1 .. Len(receivedMessages) : receivedMessages' = RemoveAt(receivedMessages, i)
    BY <1>6, TakingWelcome
  <2>2. /\ Len(receivedMessages') = Len(receivedMessages) - 1
        /\ \A j \in 1 .. i - 1 : receivedMessages'[j] = receivedMessages[j]
        /\ \A j \in i .. Len(receivedMessages) - 1 : receivedMessages'[j] = receivedMessages[j + 1]
    BY <2>1, RemoveOne DEF TypesOK
  <2>3. \A j \in DOMAIN receivedMessages' :
           \E k \in DOMAIN receivedMessages : receivedMessages'[j] = receivedMessages[k]
    <3> SUFFICES ASSUME NEW j \in DOMAIN receivedMessages'
                 PROVE  \E k \in DOMAIN receivedMessages : receivedMessages'[j] = receivedMessages[k]
      OBVIOUS
    <3>1. CASE j < i
      BY <1>0, <2>2, <3>1
    <3>2. CASE j >= i
      <4>1. j + 1 \in DOMAIN receivedMessages /\ receivedMessages'[j] = receivedMessages[j + 1]
        BY <1>0, <2>2, <3>2
      <4> QED
        BY <4>1
    <3> QED
      BY <1>0, <3>1, <3>2
  <2>4. UNCHANGED Incoming
    BY <1>6 DEF TakeWelcome, netVars, wireVars, Incoming
  <2> QED
    BY <2>3, <2>4
<1>7. CASE UNCHANGED <<buffer, wire, receivedMessages>>
  BY <1>7 DEF Incoming
<1>8. CASE UNCHANGED <<buffer, wire>> /\ receivedMessages' = <<>>
  BY <1>8 DEF Incoming
<1> QED
  <2>1. ASSUME NetChecks \/ Join \/ WelcomeMissing \/ TakeSignal \/ StartHandling \/ HandleMessage
               \/ LeaveLobby \/ LeaveAndShutdown \/ ServerEnds \/ SocketCloses \/ UNCHANGED connVars
        PROVE  UNCHANGED <<buffer, wire, receivedMessages>>
    BY <2>1 DEF NetChecks, Join, WelcomeMissing, TakeSignal, StartHandling, HandleMessage, LeaveLobby,
                LeaveAndShutdown, ServerEnds, SocketCloses, connVars, netVars, sharedVars, wireVars
  <2>2. ASSUME EndHandling \/ GameFrame
        PROVE  UNCHANGED <<buffer, wire>> /\ receivedMessages' = <<>>
    BY <2>2 DEF EndHandling, GameFrame, netVars, wireVars
  <2> QED
    BY <1>1, <1>2, <1>3, <1>4, <1>5, <1>6, <1>7, <1>8, <2>1, <2>2
    DEF ConnNext, NetNext, MainNext, WelcomeArrives, RefuseVersion
-----------------------------------------------------------------------------
\* The welcome that is taken out of the list is the first message of it.
LEMMA WelcomeInFront ==
    ASSUME TypesOK, ThreadsInStep, WelcomeIsFirst, ListInOrder, Joined, TakeWelcome
    PROVE  /\ Len(handled') = 1 /\ handled'[1] = 1 /\ handled = <<>>
           /\ Len(receivedMessages') = Len(receivedMessages) - 1
           /\ \A j \in 1 .. Len(receivedMessages) - 1 :
                 receivedMessages'[j] = receivedMessages[j + 1]
<1>0. Len(receivedMessages) \in Nat /\ DOMAIN receivedMessages = 1 .. Len(receivedMessages)
  BY StoredMessages
<1>1. PICK i \in 1 .. Len(receivedMessages) :
         /\ IsWelcome(receivedMessages[i])
         /\ handled' = Append(handled, receivedMessages[i].number)
         /\ receivedMessages' = RemoveAt(receivedMessages, i)
  BY TakingWelcome
<1>2. handled = <<>> /\ Len(handled) = 0 /\ Skip = 0
  BY EmptySeq DEF TakeWelcome, ThreadsInStep, Skip
<1>3. receivedMessages[i].number = 1
  BY <1>0, <1>1 DEF WelcomeIsFirst
<1>4. i = 1
  BY <1>0, <1>2, <1>3 DEF ListInOrder
<1>5. handled' = Append(<<>>, 1)
  BY <1>1, <1>2, <1>3
<1> QED
  <2>1. Len(handled') = 1 /\ handled'[1] = 1
    BY <1>5
  <2>2. /\ Len(receivedMessages') = Len(receivedMessages) - 1
        /\ \A j \in 1 .. Len(receivedMessages) - 1 : receivedMessages'[j] = receivedMessages[j + 1]
    BY <1>1, <1>4, RemoveOne DEF TypesOK
  <2> QED
    BY <1>2, <2>1, <2>2

\* The main thread moves messages from the list to the handled ones, in order: in no step but
\* a connection, a join and a stored message does the number of received ones change.
LEMMA HandlingStep ==
    ASSUME TypesOK, TypesOK', ThreadsInStep, WithinList, WelcomeIsFirst, ListInOrder,
           [ConnNext]_connVars, ~NetConnects, ~NetStores, ~Join, Joined'
    PROVE  Joined /\ ListInOrder' /\ Received' = Received
<1>0. /\ Len(receivedMessages) \in Nat /\ Len(handled) \in Nat /\ pos \in Nat
      /\ DOMAIN handled = 1 .. Len(handled) /\ DOMAIN handled' = 1 .. Len(handled')
      /\ Len(receivedMessages') \in Nat /\ Len(handled') \in Nat /\ pos' \in Nat
      /\ handled \in Seq(Int)
  BY StoredMessages, LenProperties DEF TypesOK
<1>00. Skip \in Int
  BY <1>0 DEF Skip
<1>1. CASE UNCHANGED <<receivedMessages, handled, Skip>> /\ Joined
  BY <1>1 DEF ListInOrder, Received, Joined
<1>2. CASE TakeWelcome /\ UNCHANGED fresh /\ Skip' = 0
  <2>1. Joined /\ Skip = 0
    BY <1>2 DEF TakeWelcome, Joined, Skip
  <2>2. /\ Len(handled') = 1 /\ handled'[1] = 1 /\ Len(handled) = 0
        /\ Len(receivedMessages') = Len(receivedMessages) - 1
        /\ \A j \in 1 .. Len(receivedMessages) - 1 : receivedMessages'[j] = receivedMessages[j + 1]
    BY <1>2, <2>1, WelcomeInFront, EmptySeq
  <2>3. Received' = Received
    BY <1>0, <1>2, <2>1, <2>2 DEF Received
  <2>4. \A j \in 1 .. Len(receivedMessages) - 1 : receivedMessages[j + 1].number = j + 1
    BY <1>0, <2>1, <2>2 DEF ListInOrder
  <2>5. ListInOrder'
    BY <1>0, <1>2, <2>2, <2>4 DEF ListInOrder
  <2> QED
    BY <2>1, <2>3, <2>5
<1>3. CASE HandleMessage
  <2>1. /\ pos \in 1 .. Len(receivedMessages) /\ Skip = pos - 1 /\ Skip' = pos
        /\ Joined /\ UNCHANGED receivedMessages
    BY <1>0, <1>3, SMTT(30) DEF HandleMessage, TypesOK, Skip, Joined
  <2> DEFINE n == receivedMessages[pos].number
  <2>2. n = Len(handled) + 1 /\ n \in Int
    BY <1>0, <2>1, StoredMessages DEF ListInOrder
  <2>3. handled' = Append(handled, n)
    BY <1>3 DEF HandleMessage
  <2> HIDE DEF n
  <2>4. /\ Len(handled') = Len(handled) + 1 /\ handled'[Len(handled) + 1] = n
        /\ \A i \in 1 .. Len(handled) : handled'[i] = handled[i]
    BY <1>0, <2>2, <2>3, AppendProperties
  <2>5. \A i \in DOMAIN handled' : handled'[i] = i
    BY <1>0, <2>1, <2>2, <2>4, SMTT(30) DEF ListInOrder
  <2>6. \A i \in pos + 1 .. Len(receivedMessages) : receivedMessages[i].number = Len(handled) + i - (pos - 1)
    BY <1>0, <2>1, SMTT(30) DEF ListInOrder
  <2>7. \A i \in pos + 1 .. Len(receivedMessages) : receivedMessages[i].number = Len(handled') + i - pos
    BY <1>0, <2>4, <2>6
  <2>8. ListInOrder'
    BY <2>1, <2>5, <2>7 DEF ListInOrder
  <2> QED
    BY <1>0, <2>1, <2>4, <2>8 DEF Received
<1>4. CASE EndHandling
  <2>1. /\ receivedMessages' = <<>> /\ UNCHANGED <<handled, fresh>> /\ main = "handling"
        /\ main' \in {"game", "leave", "lobby"} /\ pos > Len(receivedMessages)
    BY <1>4 DEF EndHandling
  <2>2. Skip = Len(receivedMessages) /\ Skip' = 0 /\ Joined
    BY <1>0, <2>1 DEF WithinList, Skip, Joined
  <2>3. Len(receivedMessages') = 0
    BY <2>1
  <2> QED
    BY <1>0, <2>1, <2>2, <2>3 DEF Received, ListInOrder
<1>5. CASE GameFrame
  <2> DEFINE l == [i \in DOMAIN receivedMessages |-> receivedMessages[i].number]
  <2>1. /\ receivedMessages' = <<>> /\ handled' = handled \o l /\ UNCHANGED fresh
        /\ main = "game" /\ main' = "game"
    BY <1>5 DEF GameFrame
  <2>2. Skip = 0 /\ Skip' = 0 /\ Joined /\ Len(receivedMessages') = 0
    BY <2>1 DEF Skip, Joined
  <2>3. /\ l \in Seq(Int) /\ Len(l) = Len(receivedMessages)
        /\ \A i \in 1 .. Len(receivedMessages) : l[i] = receivedMessages[i].number
    BY StoredMessages
  <2> HIDE DEF l
  <2>4. /\ Len(handled') = Len(handled) + Len(l)
        /\ \A i \in 1 .. Len(handled) + Len(l) :
              handled'[i] = IF i <= Len(handled) THEN handled[i] ELSE l[i - Len(handled)]
    <3>1. /\ Len(handled \o l) = Len(handled) + Len(l)
          /\ \A i \in 1 .. Len(handled) + Len(l) :
                (handled \o l)[i] = IF i <= Len(handled) THEN handled[i] ELSE l[i - Len(handled)]
      BY <1>0, <2>3, ConcatProperties
    <3> QED
      BY <2>1, <3>1
  <2>5. \A i \in 1 .. Len(receivedMessages) : receivedMessages[i].number = Len(handled) + i
    BY <1>0, <2>2 DEF ListInOrder
  <2>6. ASSUME NEW i \in DOMAIN handled' PROVE handled'[i] = i
    <3>1. CASE i <= Len(handled)
      BY <1>0, <2>2, <2>4, <3>1 DEF ListInOrder
    <3>2. CASE i > Len(handled)
      <4>1. i \in Int /\ i <= Len(handled) + Len(l) /\ i >= 1
        BY <1>0, <2>4
      <4>2. i - Len(handled) \in 1 .. Len(receivedMessages)
        BY <1>0, <2>3, <3>2, <4>1
      <4>3. l[i - Len(handled)] = Len(handled) + (i - Len(handled))
        BY <2>3, <2>5, <4>2
      <4>4. handled'[i] = l[i - Len(handled)]
        BY <1>0, <2>3, <2>4, <3>2, <4>1
      <4> QED
        BY <1>0, <4>1, <4>3, <4>4
    <3> QED
      BY <1>0, <3>1, <3>2
  <2>7. ListInOrder'
    BY <2>2, <2>6 DEF ListInOrder
  <2>8. Received' = Received
    BY <1>0, <2>2, <2>3, <2>4 DEF Received
  <2> QED
    BY <2>2, <2>7, <2>8
<1> QED
  <2>1. ASSUME WelcomeMissing \/ TakeSignal \/ StartHandling \/ LeaveLobby \/ LeaveAndShutdown
               \/ NetShutsDown \/ NetReads \/ NetChecks \/ ServerSends \/ ServerPongs \/ ServerEnds
               \/ SocketCloses \/ UNCHANGED connVars
        PROVE  UNCHANGED <<receivedMessages, handled, Skip>> /\ Joined
    <3>1. CASE WelcomeMissing \/ LeaveLobby \/ LeaveAndShutdown
      BY <2>1, <3>1 DEF WelcomeMissing, LeaveLobby, LeaveAndShutdown, sharedVars, Skip, Joined
    <3>2. CASE TakeSignal
      BY <3>2 DEF TakeSignal, Skip, Joined
    <3>3. CASE StartHandling
      BY <3>3 DEF StartHandling, Skip, Joined
    <3>4. CASE NetShutsDown
      BY <1>0, <3>4 DEF NetShutsDown, ThreadsInStep, Skip, Joined
    <3>5. CASE NetReads \/ NetChecks
      BY <3>5 DEF NetReads, NetChecks, mainVars, sharedVars, Skip, Joined
    <3>6. CASE ServerSends \/ ServerPongs \/ ServerEnds \/ SocketCloses
      BY <3>6 DEF ServerSends, ServerPongs, ServerEnds, SocketCloses, mainVars, sharedVars, Skip, Joined
    <3>7. CASE UNCHANGED connVars
      BY <3>7 DEF connVars, mainVars, sharedVars, Skip, Joined
    <3> QED
      BY <2>1, <3>1, <3>2, <3>3, <3>4, <3>5, <3>6, <3>7
  <2>2. ASSUME WelcomeArrives \/ RefuseVersion
        PROVE  TakeWelcome /\ UNCHANGED fresh /\ Skip' = 0
    BY <2>2 DEF WelcomeArrives, RefuseVersion, TakeWelcome, Skip
  <2> QED
    BY <1>1, <1>2, <1>3, <1>4, <1>5, <2>1, <2>2 DEF ConnNext, NetNext, MainNext

\* What flows to the client is in order when whole messages with the next numbers come in.
FlowInOrder(p, n) == WholeMessages(p) /\ OnePong(p) /\ InSequence(p, n)

\* What the network thread takes by itself does not disturb the order.
LEMMA TakingKeepsFlow ==
    ASSUME NEW p \in Seq(MessageParts), NEW q, TakenByThread(p, q), NEW n \in Int, NEW last \in Int,
           FlowInOrder(p, n)
    PROVE  /\ FlowInOrder(q, n)
           /\ NoPong(p) => NoPong(q)
           /\ UpTo(p, n, last) => UpTo(q, n, last)
<1>1. CASE q = p
  BY <1>1
<1>2. CASE Complete(p) /\ p[1][1] = Pong /\ q = Rest(p)
  BY <1>2, RestOfStream, PongLeaves DEF FlowInOrder
<1> QED
  BY <1>1, <1>2 DEF TakenByThread

\* A message is stored whole and in its turn.
LEMMA StoreInOrder ==
    ASSUME TypesOK, TypesOK', ThreadsInStep, StreamInOrder, ListInOrder, NetStores, Joined'
    PROVE  StreamInOrder' /\ ListInOrder'
<1>1. /\ mutex = "none" /\ UNCHANGED <<handled, main, pos, wire, fresh, sent, socket, pings>>
      /\ Joined /\ net = "store"
  BY DEF NetStores, mainVars, wireVars, Joined
<1>2. Skip = 0 /\ Skip' = 0
  BY <1>1 DEF ThreadsInStep, Skip
<1>3. /\ Incoming \in Seq(MessageParts) /\ Complete(Incoming)
      /\ Incoming[1] = buffer[1] /\ Incoming[2] = buffer[2]
      /\ TakenByThread(Rest(Incoming), Incoming')
      /\ WholeMessages(Rest(Incoming)) /\ OnePong(Rest(Incoming)) /\ net' = "store"
            => First(buffer') # Pong
  BY StoringTakes, IncomingTyped
<1>4. /\ FlowInOrder(Incoming, Received) /\ (pings > 0 => NoPong(Incoming))
      /\ (socket = "connected" => UpTo(Incoming, Received, sent))
      /\ Incoming[1][1] # Pong
  BY <1>1, <1>3 DEF StreamInOrder, FlowInOrder, First
<1>5. /\ Len(receivedMessages) \in Nat /\ Len(handled) \in Nat /\ Received \in Int /\ sent \in Int
      /\ Received = Len(handled) + Len(receivedMessages)
  BY <1>2, StoredMessages DEF TypesOK, Received
<1>6. /\ Len(receivedMessages') = Len(receivedMessages) + 1
      /\ \A i \in 1 .. Len(receivedMessages) : receivedMessages'[i] = receivedMessages[i]
      /\ receivedMessages'[Len(receivedMessages) + 1] =
            IF IsWhole(buffer) THEN First(buffer) ELSE Msg("garbled", -1)
  BY Storing
<1>7. Received' = Received + 1
  BY <1>1, <1>2, <1>5, <1>6 DEF Received
<1>8. /\ Rest(Incoming) \in Seq(MessageParts)
      /\ FlowInOrder(Rest(Incoming), Received + 1)
      /\ pings > 0 => NoPong(Rest(Incoming))
      /\ socket = "connected" => UpTo(Rest(Incoming), Received + 1, sent)
      /\ Number(Incoming, 1) = Received + 1
  BY <1>3, <1>4, <1>5, RestOfStream, HeadLeaves DEF FlowInOrder
<1>9. StreamInOrder'
  <2>1. Received + 1 \in Int
    BY <1>5
  <2>2. /\ FlowInOrder(Incoming', Received + 1)
        /\ pings > 0 => NoPong(Incoming')
        /\ socket = "connected" => UpTo(Incoming', Received + 1, sent)
    BY <1>3, <1>5, <1>8, <2>1, TakingKeepsFlow
  <2>3. net' = "store" => First(buffer') # Pong
    BY <1>3, <1>8 DEF FlowInOrder
  <2> QED
    BY <1>1, <1>7, <2>2, <2>3 DEF StreamInOrder, FlowInOrder
<1>10. IsWhole(buffer)
  <2>1. Incoming[1] \in MessageParts /\ Incoming # <<>>
    <3> HIDE DEF MessageParts
    <3> QED
      BY <1>3, ElementOfSeq, LenProperties, EmptySeq DEF Complete
  <2>2. Incoming[1][2] = 1 /\ Incoming[2] = <<Incoming[1][1], 2>>
    BY <1>3, <1>4, <2>1, RestOfStream DEF FlowInOrder, WholeMessages
  <2>3. Incoming[1] = <<Incoming[1][1], 1>>
    BY <2>1, <2>2, PartPair
  <2> QED
    BY <1>3, <2>2, <2>3 DEF IsWhole, First
<1>11. receivedMessages'[Len(receivedMessages) + 1].number = Received + 1
  BY <1>3, <1>6, <1>8, <1>10 DEF First, Number
<1>12. ListInOrder'
  <2>1. \A i \in 1 .. Len(receivedMessages) : receivedMessages'[i].number = Len(handled) + i
    <3>1. \A i \in 1 .. Len(receivedMessages) : receivedMessages[i].number = Len(handled) + i
      <4>1. \A i \in 0 + 1 .. Len(receivedMessages) :
                receivedMessages[i].number = Len(handled) + i - 0
        BY <1>1, <1>2 DEF ListInOrder
      <4> QED
        BY <1>5, <4>1
    <3> QED
      BY <1>6, <3>1
  <2>2. \A i \in 1 .. Len(receivedMessages') : receivedMessages'[i].number = Len(handled) + i
    BY <1>5, <1>6, <1>11, <2>1
  <2>3. \A i \in DOMAIN handled' : handled'[i] = i
    BY <1>1 DEF ListInOrder
  <2> QED
    BY <1>1, <1>2, <1>5, <1>6, <2>2, <2>3 DEF ListInOrder
<1> QED
  BY <1>9, <1>12

\* A connection starts with nothing on its way, nothing received and nothing handled.
LEMMA ConnectInOrder ==
    ASSUME TypesOK, TypesOK', ThreadsInStep, NetConnects, Joined'
    PROVE  StreamInOrder' /\ ListInOrder'
<1>1. /\ main = "connecting" /\ handled = <<>> /\ handled' = <<>> /\ net' = "idle"
      /\ buffer' = <<>> /\ receivedMessages' = <<>>
      /\ main' \in {"welcome", "settings"}
  BY DEF NetConnects, ThreadsInStep, ClearedBuffer
<1>2. wire' = <<>> /\ (socket' = "connected" => sent' = 0)
  <2>1. CASE main' = "welcome"
    BY <2>1, <1>1 DEF NetConnects, Joined, TypesOK
  <2>2. CASE main' = "settings"
    BY <2>2, <1>1 DEF NetConnects, ThreadsInStep
  <2> QED
    BY <1>1, <2>1, <2>2
<1>3. Incoming' = <<>>
  BY <1>1, <1>2 DEF Incoming
<1>4. Skip' = 0 /\ Len(handled') = 0 /\ Len(receivedMessages') = 0 /\ DOMAIN handled' = {}
  BY <1>1 DEF Skip
<1>5. Received' = 0
  BY <1>4 DEF Received
<1>6. StreamInOrder'
  BY <1>1, <1>2, <1>3, <1>5, EmptyStream DEF StreamInOrder
<1>7. ListInOrder'
  BY <1>4 DEF ListInOrder
<1> QED
  BY <1>6, <1>7

\* The stream stays in order in every other step.
LEMMA StreamStep ==
    ASSUME TypesOK, TypesOK', ThreadsInStep, StreamInOrder, [ConnNext]_connVars,
           ~NetConnects, ~NetStores, Joined, Joined', Received' = Received
    PROVE  StreamInOrder'
<1>0. /\ Incoming \in Seq(MessageParts) /\ Received \in Int /\ sent \in Int
      /\ FlowInOrder(Incoming, Received)
      /\ pings > 0 => NoPong(Incoming)
      /\ net = "store" => First(buffer) # Pong
      /\ socket = "connected" => UpTo(Incoming, Received, sent)
  <2>1. Skip \in Int /\ sent \in Int /\ Len(handled) \in Int
    BY DEF TypesOK, Skip
  <2>2. Received \in Int
    BY <2>1, StoredMessages DEF Received
  <2> QED
    BY <2>1, <2>2, IncomingTyped DEF StreamInOrder, FlowInOrder
<1>1. CASE NetShutsDown
  <2>1. /\ socket' = "unconnected" /\ pings' = 0 /\ net' = "idle" /\ buffer' = buffer /\ wire' = <<>>
    BY <1>1 DEF NetShutsDown
  <2>2. Incoming' = buffer /\ buffer \in Seq(MessageParts)
    BY <2>1 DEF Incoming, TypesOK
  <2>3. FlowInOrder(Incoming', Received)
    <3>1. /\ Len(buffer) <= Len(Incoming)
          /\ \A i \in 1 .. Len(buffer) : buffer[i] = Incoming[i]
      BY IncomingTyped
    <3> QED
      BY <1>0, <2>2, <3>1, LostEnd DEF FlowInOrder
  <2> QED
    BY <2>1, <2>3 DEF StreamInOrder, FlowInOrder
<1>2. CASE NetReads
  <2>1. /\ TakenByThread(Incoming, Incoming') /\ UNCHANGED <<pings, socket, sent>>
        /\ net' = "store" => First(buffer') # Pong
    BY <1>0, <1>2, Reading DEF NetReads, FlowInOrder
  <2>2. /\ FlowInOrder(Incoming', Received)
        /\ NoPong(Incoming) => NoPong(Incoming')
        /\ UpTo(Incoming, Received, sent) => UpTo(Incoming', Received, sent)
    BY <1>0, <2>1, TakingKeepsFlow
  <2> QED
    BY <1>0, <2>1, <2>2 DEF StreamInOrder, FlowInOrder
<1>3. CASE NetChecks
  <2>1. UNCHANGED <<buffer, wire, net, socket, sent>> /\ (pings' = pings \/ ~PongOnItsWay)
    BY <1>3 DEF NetChecks
  <2>2. Incoming' = Incoming
    BY <2>1 DEF Incoming
  <2>3. ~PongOnItsWay => NoPong(Incoming)
    BY IncomingTyped, LenProperties DEF PongOnItsWay, NoPong, Incoming, TypesOK
  <2> QED
    BY <1>0, <2>1, <2>2, <2>3 DEF StreamInOrder, FlowInOrder
<1>4. ASSUME NEW m \in Messages, wire' = wire \o Parts(m), UNCHANGED <<buffer, net, socket>>,
             socket = "connected"
      PROVE  /\ Extended(Incoming, Incoming', m) /\ Incoming' \in Seq(MessageParts)
             /\ Incoming # <<>> => Incoming[Len(Incoming)][2] = 2
  BY <1>0, <1>4, SendExtends DEF Extended, UpTo
<1>5. CASE ServerSends
  <2>1. PICK t \in Types \ {"PingResponse"} : Send(t)
    BY <1>5 DEF ServerSends, Types
  <2> DEFINE m == Msg(t, sent + 1)
  <2>2. m \in Messages /\ m # Pong /\ m.number = sent + 1
    BY <2>1 DEF Msg, Messages, Pong, TypesOK
  <2>3. /\ wire' = wire \o Parts(m) /\ UNCHANGED <<buffer, net, socket, pings>>
        /\ socket = "connected" /\ sent' = sent + 1
    BY <1>5, <2>1 DEF ServerSends, Send, netVars
  <2> HIDE DEF m, Messages
  <2>4. /\ Extended(Incoming, Incoming', m) /\ Incoming' \in Seq(MessageParts)
        /\ Incoming # <<>> => Incoming[Len(Incoming)][2] = 2
    BY <1>4, <2>2, <2>3
  <2>5. InSequence(Incoming', Received) /\ UpTo(Incoming', Received, sent + 1)
    BY <1>0, <2>2, <2>3, <2>4, SendingKeepsSequence DEF FlowInOrder
  <2>6. /\ WholeMessages(Incoming') /\ OnePong(Incoming')
        /\ NoPong(Incoming) => NoPong(Incoming')
    BY <1>0, <2>2, <2>4, ExtendedStream DEF FlowInOrder
  <2> QED
    BY <1>0, <2>3, <2>5, <2>6 DEF StreamInOrder
<1>6. CASE ServerPongs
  <2>1. Pong \in Messages
    BY DEF Pong, Msg, Messages, Types
  <2>2. /\ wire' = wire \o Parts(Pong) /\ UNCHANGED <<buffer, net, socket, sent>>
        /\ socket = "connected" /\ pings > 0 /\ pings' = pings - 1
    BY <1>6 DEF ServerPongs, netVars
  <2>3. pings' = 0
    BY <2>2 DEF TypesOK
  <2>4. /\ Extended(Incoming, Incoming', Pong) /\ Incoming' \in Seq(MessageParts)
        /\ Incoming # <<>> => Incoming[Len(Incoming)][2] = 2
    BY <1>4, <2>1, <2>2
  <2>5. InSequence(Incoming', Received) /\ UpTo(Incoming', Received, sent)
    BY <1>0, <2>1, <2>2, <2>4, SendingKeepsSequence DEF FlowInOrder
  <2>6. WholeMessages(Incoming') /\ OnePong(Incoming')
    BY <1>0, <2>1, <2>2, <2>4, ExtendedStream DEF FlowInOrder
  <2> QED
    BY <1>0, <2>2, <2>3, <2>5, <2>6 DEF StreamInOrder
<1>7. CASE /\ UNCHANGED <<buffer, wire, net, pings, sent>>
           /\ socket' = "connected" => socket = "connected"
  <2>1. Incoming' = Incoming
    BY <1>7 DEF Incoming
  <2> QED
    BY <1>0, <1>7, <2>1 DEF StreamInOrder, FlowInOrder
<1> QED
  <2>1. ASSUME MainNext
        PROVE  UNCHANGED <<buffer, wire, net, pings, sent, socket>>
    BY <2>1 DEF MainNext, Join, WelcomeArrives, RefuseVersion, TakeWelcome, WelcomeMissing, TakeSignal,
                StartHandling, HandleMessage, EndHandling, LeaveLobby, LeaveAndShutdown, GameFrame,
                netVars, wireVars
  <2>2. ASSUME ServerEnds \/ SocketCloses \/ UNCHANGED connVars
        PROVE  /\ UNCHANGED <<buffer, wire, net, pings, sent>>
               /\ socket' = "connected" => socket = "connected"
    BY <2>2 DEF ServerEnds, SocketCloses, connVars, netVars, wireVars
  <2> QED
    BY <1>1, <1>2, <1>3, <1>5, <1>6, <1>7, <2>1, <2>2 DEF ConnNext, NetNext

\* The inductive invariant of the theorem below.
LEMMA OrderInvariant == ConnSpec => []OrderInv
<1>1. ConnInit => OrderInv
  <2> SUFFICES ASSUME ConnInit PROVE OrderInv
    OBVIOUS
  <2>1. TypesOK
    BY EmptySeq DEF ConnInit, TypesOK, Complete
  <2>2. Incoming = <<>> /\ receivedMessages = <<>> /\ ~Joined /\ Skip = 0
    BY DEF ConnInit, Incoming, Joined, Skip
  <2>3. WelcomeIsFirst /\ WithinList /\ StreamInOrder /\ ListInOrder
    BY <2>2 DEF WelcomeIsFirst, WithinList, StreamInOrder, ListInOrder
  <2>4. ThreadsInStep
    BY DEF ConnInit, ThreadsInStep
  <2> QED
    BY <2>1, <2>3, <2>4 DEF OrderInv
<1>2. OrderInv /\ [ConnNext]_connVars => OrderInv'
  <2> SUFFICES ASSUME OrderInv, [ConnNext]_connVars PROVE OrderInv'
    OBVIOUS
  <2> USE DEF OrderInv
  <2>1. TypesOK' /\ ThreadsInStep' /\ WithinList' /\ WelcomeIsFirst'
    BY TypesStep, ThreadsStep, WithinStep, WelcomeStep
  <2>2. CASE ~Joined'
    BY <2>1, <2>2 DEF StreamInOrder, ListInOrder
  <2>3. CASE Joined' /\ NetConnects
    BY <2>1, <2>3, ConnectInOrder
  <2>4. CASE Joined' /\ NetStores
    BY <2>1, <2>4, StoreInOrder
  <2>5. CASE Joined' /\ ~NetConnects /\ ~NetStores
    <3>1. ~Join
      BY <2>5 DEF Join, Joined
    <3>2. Joined /\ ListInOrder' /\ Received' = Received
      BY <2>1, <2>5, <3>1, HandlingStep
    <3>3. StreamInOrder'
      BY <2>1, <2>5, <3>2, StreamStep
    <3> QED
      BY <2>1, <3>2, <3>3
  <2> QED
    BY <2>2, <2>3, <2>4, <2>5
<1> QED
  BY <1>1, <1>2, PTL DEF ConnSpec

\* Over a connection that was made while no other was open, the client handles every message
\* of the server once, whole and in order: cutting the bytes into messages, storing them and
\* the welcome taken out of the middle of the list lose and swap nothing.
THEOREM MessagesAlwaysInOrder == ConnSpec => []MessagesInOrder
<1>1. OrderInv => MessagesInOrder
  <2> SUFFICES ASSUME OrderInv, Joined
               PROVE  LET numbers == handled \o [i \in DOMAIN Unhandled |-> Unhandled[i].number]
                      IN  \A i \in DOMAIN numbers : numbers[i] = i
    BY DEF MessagesInOrder, Joined
  <2> DEFINE u == [i \in DOMAIN Unhandled |-> Unhandled[i].number]
  <2>0. /\ receivedMessages \in Seq(Messages) /\ Len(receivedMessages) \in Nat
        /\ handled \in Seq(Int) /\ Len(handled) \in Nat
        /\ pos \in Nat /\ (main = "handling" => pos > 0)
    BY StoredMessages DEF OrderInv, TypesOK
  <2>1. Skip \in Nat /\ Skip <= Len(receivedMessages)
    BY <2>0 DEF OrderInv, WithinList, Skip
  <2>2. /\ Len(Unhandled) = Len(receivedMessages) - Skip
        /\ Unhandled \in Seq(Messages)
        /\ \A i \in 1 .. Len(receivedMessages) - Skip : Unhandled[i] = receivedMessages[Skip + i]
    <3>1. CASE main \in {"handling", "abort"}
      <4>1. Unhandled = SubSeq(receivedMessages, Skip + 1, Len(receivedMessages))
        <5>1. CASE main = "abort"
          BY <5>1 DEF Unhandled, Skip
        <5>2. CASE main = "handling"
          <6>1. Skip + 1 = pos
            BY <2>0, <5>2 DEF Skip
          <6> QED
            BY <5>2, <6>1 DEF Unhandled
        <5> QED
          BY <3>1, <5>1, <5>2
      <4> QED
        BY <2>0, <2>1, <4>1, SubSeqTyped
    <3>2. CASE main \notin {"handling", "abort"}
      BY <2>0, <3>2 DEF Unhandled, Skip
    <3> QED
      BY <3>1, <3>2
  <2>3. /\ Len(u) = Len(Unhandled) /\ DOMAIN u = 1 .. Len(Unhandled)
        /\ \A i \in 1 .. Len(Unhandled) : u[i] = Unhandled[i].number
    BY <2>2
  <2>4. \A i \in 1 .. Len(Unhandled) : u[i] = Len(handled) + i
    <3>1. ASSUME NEW i \in 1 .. Len(receivedMessages) - Skip
          PROVE  receivedMessages[Skip + i].number = Len(handled) + i
      <4>1. Skip + i \in Skip + 1 .. Len(receivedMessages)
        BY <2>0, <2>1
      <4>2. receivedMessages[Skip + i].number = Len(handled) + (Skip + i) - Skip
        BY <4>1 DEF OrderInv, ListInOrder
      <4> QED
        BY <2>0, <2>1, <4>2
    <3> QED
      BY <2>2, <2>3, <3>1
  <2>5. u \in Seq(Int)
    BY <2>0, <2>2, <2>3, <2>4
  <2> HIDE DEF u
  <2> DEFINE n == handled \o u
  <2>6. /\ Len(n) = Len(handled) + Len(u)
        /\ n \in Seq(Int)
        /\ \A i \in 1 .. Len(handled) + Len(u) :
              n[i] = IF i <= Len(handled) THEN handled[i] ELSE u[i - Len(handled)]
    BY <2>0, <2>5, ConcatProperties
  <2> HIDE DEF n
  <2>7. Len(u) \in Nat /\ DOMAIN n = 1 .. Len(handled) + Len(u)
    BY <2>5, <2>6
  <2>8. ASSUME NEW i \in DOMAIN n PROVE n[i] = i
    <3>1. CASE i <= Len(handled)
      <4>1. i \in DOMAIN handled
        BY <2>0, <2>7, <3>1, LenProperties
      <4>2. handled[i] = i
        BY <4>1 DEF OrderInv, ListInOrder
      <4>3. i \in 1 .. Len(handled) + Len(u)
        BY <2>7
      <4> QED
        BY <2>6, <3>1, <4>2, <4>3
    <3>2. CASE i > Len(handled)
      <4>1. i \in 1 .. Len(handled) + Len(u)
        BY <2>7
      <4>4. ~(i <= Len(handled)) /\ i - Len(handled) \in 1 .. Len(u)
        BY <2>0, <2>7, <3>2, <4>1
      <4>2. n[i] = u[i - Len(handled)] /\ i - Len(handled) \in 1 .. Len(Unhandled)
        BY <2>3, <2>6, <4>1, <4>4
      <4>3. u[i - Len(handled)] = Len(handled) + (i - Len(handled))
        BY <2>4, <4>2
      <4> QED
        BY <2>0, <4>1, <4>2, <4>3
    <3> QED
      BY <2>0, <2>7, <3>1, <3>2
  <2> QED
    BY <2>8 DEF n, u
<1> QED
  BY <1>1, OrderInvariant, PTL

(***************************************************************************)
(* The estimate of the server's time.                                      *)
(***************************************************************************)
\* The least and the largest of two numbers.
LEMMA OfTwo ==
    ASSUME NEW a \in Int, NEW b \in Int
    PROVE  /\ Min({a, b}) = IF a <= b THEN a ELSE b
           /\ Max({a, b}) = IF a >= b THEN a ELSE b
<1>1. ASSUME NEW x \in {a, b}, \A y \in {a, b} : x <= y,
             NEW z \in {a, b}, \A y \in {a, b} : z <= y
      PROVE  x = z
  BY <1>1
<1>2. ASSUME NEW x \in {a, b}, \A y \in {a, b} : x >= y,
             NEW z \in {a, b}, \A y \in {a, b} : z >= y
      PROVE  x = z
  BY <1>2
<1> DEFINE least == IF a <= b THEN a ELSE b
           largest == IF a >= b THEN a ELSE b
<1>3. /\ least \in {a, b} /\ \A y \in {a, b} : least <= y
      /\ largest \in {a, b} /\ \A y \in {a, b} : largest >= y
  OBVIOUS
<1> HIDE DEF least, largest
<1>4. Min({a, b}) = least
  BY <1>1, <1>3 DEF Min
<1>5. Max({a, b}) = largest
  BY <1>2, <1>3 DEF Max
<1> QED
  BY <1>4, <1>5 DEF least, largest

\* The offset that is used at a time: towards the target, and not beyond it.
LEMMA OffsetAt ==
    ASSUME smoothed \in Int, robust \in Int, lastPingResponseTime \in Int, NEW time \in Int
    PROVE  CurrentOffset(time) =
             LET way == time - lastPingResponseTime
             IN  IF robust > smoothed
                   THEN IF robust <= smoothed + way THEN robust ELSE smoothed + way
                   ELSE IF robust >= smoothed - way THEN robust ELSE smoothed - way
<1> DEFINE up == smoothed + (time - lastPingResponseTime)
           down == smoothed - (time - lastPingResponseTime)
<1>1. up \in Int /\ down \in Int
  OBVIOUS
<1>2. CurrentOffset(time) = IF robust > smoothed THEN Min({robust, up}) ELSE Max({robust, down})
  BY DEF CurrentOffset
<1> HIDE DEF up, down
<1>3. /\ Min({robust, up}) = IF robust <= up THEN robust ELSE up
      /\ Max({robust, down}) = IF robust >= down THEN robust ELSE down
  BY <1>1, OfTwo
<1> QED
  BY <1>2, <1>3 DEF up, down

\* The average of a window of measurements is a number.
LEMMA AverageIsNumber ==
    ASSUME NEW s \in Seq(Int), s # <<>>
    PROVE  RobustAverage(s) \in Int
<1> DEFINE n == Len(s)
           I == DOMAIN s
           V == ToSet(s)
<1>1. n \in Nat /\ n > 0 /\ I = 1 .. n /\ \A i \in I : s[i] \in Int
  BY LenProperties, EmptySeq
<1>2. IsFiniteSet(I) /\ I # {}
  BY <1>1, IntervalFinite
<1>3. SumOf(s) \in Int
  <2>1. SumOf(s) = Total(s, I)
    BY DEF SumOf, Total
  <2> HIDE DEF I
  <2> QED
    BY <1>1, <1>2, <2>1, TotalType
<1>4. Min(V) \in Int /\ Max(V) \in Int
  <2>1. V = {s[i] : i \in I}
    BY DEF ToSet
  <2> HIDE DEF I, V
  <2>2. PICK i \in I : \A j \in I : s[i] <= s[j]
    BY <1>1, <1>2, LeastOf
  <2>3. PICK k \in I : \A j \in I : s[j] <= s[k]
    BY <1>1, <1>2, LargestOf
  <2>4. /\ s[i] \in V /\ \A y \in V : s[i] <= y
        /\ s[k] \in V /\ \A y \in V : s[k] >= y
        /\ \A y \in V : y \in Int
    BY <1>1, <2>1, <2>2, <2>3
  <2>5. Min(V) \in V
    BY <2>4 DEF Min
  <2>6. Max(V) \in V
    BY <2>4 DEF Max
  <2> QED
    BY <2>4, <2>5, <2>6
<1> DEFINE sum == SumOf(s)
           least == Min(V)
           largest == Max(V)
<1>5. RobustAverage(s) = IF n < 3 THEN sum \div n ELSE (sum - least - largest) \div (n - 2)
  BY DEF RobustAverage
<1>6. sum \in Int /\ least \in Int /\ largest \in Int
  BY <1>3, <1>4
<1> HIDE DEF sum, least, largest, n
<1> QED
  BY <1>1, <1>5, <1>6

\* Where the offset in use is now: at the smoothed one while the time of a response
\* is not written yet.
OffsetNow == IF pending > 0 THEN smoothed ELSE CurrentOffset(now)

SyncTypes ==
    /\ now \in Nat /\ lastPingResponseTime \in Nat /\ pending \in Nat /\ shownAt \in Nat
    /\ lastTimeOffsets \in Seq(Int)
    /\ smoothed \in Int /\ robust \in Int /\ shown \in Int /\ slack \in Int
    /\ hasSmoothed \in BOOLEAN /\ hasRobust \in BOOLEAN

\* What was shown last is no farther from the offset in use than the time since
\* then, and what was counted twice.
SyncInv ==
    /\ SyncTypes
    /\ lastPingResponseTime <= now /\ shownAt <= now
    /\ pending > 0 => pending = now
    /\ slack >= 0 => hasRobust
    /\ hasRobust => hasSmoothed
    /\ slack >= 0 => Distance(OffsetNow, shown) <= (now - shownAt) + slack

\* The offset in use moves by one in a tick, and by the time since the last response
\* away from the smoothed one.
LEMMA OffsetMoves ==
    ASSUME SyncTypes, lastPingResponseTime <= now
    PROVE  /\ CurrentOffset(now) \in Int /\ CurrentOffset(now + 1) \in Int
           /\ CurrentOffset(now + 1) - CurrentOffset(now) \in -1 .. 1
           /\ CurrentOffset(now) - smoothed <= now - lastPingResponseTime
           /\ smoothed - CurrentOffset(now) <= now - lastPingResponseTime
<1> DEFINE c == CurrentOffset(now)
           d == CurrentOffset(now + 1)
           s == smoothed
           r == robust
           w == now - lastPingResponseTime
<1>1. s \in Int /\ r \in Int /\ w \in Nat /\ (now + 1) - lastPingResponseTime = w + 1
  BY DEF SyncTypes
<1>2. c = IF r > s THEN IF r <= s + w THEN r ELSE s + w
          ELSE IF r >= s - w THEN r ELSE s - w
  BY OffsetAt DEF SyncTypes
<1>3. d = IF r > s THEN IF r <= s + (w + 1) THEN r ELSE s + (w + 1)
          ELSE IF r >= s - (w + 1) THEN r ELSE s - (w + 1)
  <2>1. now + 1 \in Int
    BY DEF SyncTypes
  <2> QED
    BY <1>1, <2>1, OffsetAt DEF SyncTypes
<1> HIDE DEF c, d, s, r, w
<1>4. c \in Int /\ d \in Int /\ d - c \in -1 .. 1 /\ c - s <= w /\ s - c <= w
  BY <1>1, <1>2, <1>3
<1> QED
  BY <1>4 DEF c, d, s, w

\* A response sets a new target, and keeps the way made towards the old one.
LEMMA ResponseKeeps ==
    ASSUME SyncInv, Response
    PROVE  SyncInv'
<1>1. PICK m \in Measurements :
        LET kept   == IF Len(lastTimeOffsets) = WindowSize THEN Tail(lastTimeOffsets)
                                                            ELSE lastTimeOffsets
            window == Append(kept, m)
        IN  /\ lastTimeOffsets' = window
            /\ IF ~hasSmoothed
                 THEN smoothed' = m /\ UNCHANGED <<robust, hasRobust>>
                 ELSE /\ smoothed' = Updated(now)
                      /\ robust' = RobustAverage(window)
                      /\ hasRobust' = TRUE
  BY DEF Response
<1>2. /\ pending = 0 /\ lastPingResponseTime < now /\ hasSmoothed' = TRUE /\ pending' = now
      /\ UNCHANGED <<now, lastPingResponseTime, shown, shownAt, slack>>
  BY DEF Response
<1> DEFINE kept   == IF Len(lastTimeOffsets) = WindowSize THEN Tail(lastTimeOffsets)
                                                           ELSE lastTimeOffsets
           window == Append(kept, m)
<1>3. SyncTypes /\ m \in Int
  BY TimeSyncAssumption DEF SyncInv
<1>4. window \in Seq(Int) /\ window # <<>>
  <2>1. kept \in Seq(Int)
    <3>1. lastTimeOffsets \in Seq(Int)
      BY <1>3 DEF SyncTypes
    <3>2. Len(lastTimeOffsets) = WindowSize => lastTimeOffsets # <<>>
      BY TimeSyncAssumption, EmptySeq
    <3> QED
      BY <3>1, <3>2, HeadTailProperties
  <2> HIDE DEF kept
  <2> QED
    BY <1>3, <2>1, AppendProperties
<1>5. lastTimeOffsets' = window
  BY <1>1
<1> HIDE DEF kept
<1>6. RobustAverage(window) \in Int
  <2> HIDE DEF window
  <2> QED
    BY <1>4, AverageIsNumber
<1>7. /\ ~hasSmoothed => smoothed' = m /\ robust' = robust /\ hasRobust' = hasRobust
      /\ hasSmoothed => /\ smoothed' = Updated(now) /\ robust' = RobustAverage(window)
                        /\ hasRobust' = TRUE
  BY <1>1 DEF kept
<1> HIDE DEF window
<1>8. CurrentOffset(now) \in Int /\ Updated(now) \in Int
  BY <1>3, OffsetMoves DEF SyncInv, SyncTypes, Updated
<1>9. SyncTypes'
  BY <1>2, <1>3, <1>4, <1>5, <1>6, <1>7, <1>8 DEF SyncTypes
<1>10. /\ (lastPingResponseTime <= now)' /\ (shownAt <= now)' /\ (pending > 0 => pending = now)'
       /\ (hasRobust => hasSmoothed)'
  BY <1>2 DEF SyncInv
<1>11. slack >= 0 => hasRobust' /\ smoothed' = CurrentOffset(now)
  BY <1>7 DEF SyncInv, Updated
<1>12. now' > 0
  BY <1>2, <1>3 DEF SyncTypes
<1>13. ASSUME slack' >= 0 PROVE Distance(OffsetNow', shown') <= (now' - shownAt') + slack'
  <2>1. OffsetNow' = smoothed' /\ OffsetNow = CurrentOffset(now)
    BY <1>2, <1>3, <1>12 DEF OffsetNow, SyncTypes
  <2>2. smoothed' = OffsetNow
    BY <1>2, <1>11, <1>13, <2>1
  <2> QED
    BY <1>2, <1>13, <2>1, <2>2 DEF SyncInv
<1>14. (slack >= 0 => Distance(OffsetNow, shown) <= (now - shownAt) + slack)'
  BY <1>13 DEF Distance
<1> QED
  BY <1>2, <1>9, <1>10, <1>11, <1>14 DEF SyncInv

\* When the time of the response is written, the offset in use is the smoothed one.
LEMMA ResponseTimeKeeps ==
    ASSUME SyncInv, ResponseTime
    PROVE  SyncInv'
<1>1. /\ pending > 0 /\ lastPingResponseTime' = pending /\ pending' = 0 /\ pending = now
      /\ UNCHANGED <<now, lastTimeOffsets, smoothed, robust, hasSmoothed, hasRobust, shown,
                     shownAt, slack>>
  BY DEF ResponseTime, SyncInv
<1>2. SyncTypes /\ SyncTypes'
  BY <1>1 DEF SyncInv, SyncTypes
<1>3. CurrentOffset(now)' = smoothed
  <2>1. /\ smoothed' \in Int /\ robust' \in Int /\ lastPingResponseTime' \in Int /\ now' \in Int
    BY <1>2 DEF SyncTypes
  <2>2. CurrentOffset(now)' =
          LET way == now' - lastPingResponseTime'
          IN  IF robust' > smoothed'
                THEN Min({robust', smoothed' + way}) ELSE Max({robust', smoothed' - way})
    BY DEF CurrentOffset
  <2>3. now' - lastPingResponseTime' = 0 /\ smoothed + 0 = smoothed /\ smoothed - 0 = smoothed
    BY <1>1, <1>2 DEF SyncTypes
  <2>4. CurrentOffset(now)' = IF robust > smoothed THEN Min({robust, smoothed})
                                                   ELSE Max({robust, smoothed})
    BY <1>1, <2>2, <2>3
  <2>5. smoothed \in Int /\ robust \in Int
    BY <1>2 DEF SyncTypes
  <2> QED
    BY <2>4, <2>5, OfTwo
<1>4. OffsetNow' = OffsetNow
  BY <1>1, <1>3 DEF OffsetNow
<1> QED
  BY <1>1, <1>2, <1>4 DEF SyncInv, Distance, SyncTypes

\* What a frame shows is near the offset in use, and so near what the last one showed.
LEMMA FrameShows ==
    ASSUME SyncInv, ShowFrame
    PROVE  /\ SyncInv'
           /\ slack >= 0 => Distance(shown', shown) <= (shownAt' - shownAt) + slack + slack'
<1>1. /\ shown' = CurrentOffset(now) /\ shownAt' = now
      /\ slack' = IF ~hasRobust THEN -1
                  ELSE IF pending > 0 THEN pending - lastPingResponseTime ELSE 0
      /\ UNCHANGED <<now, lastTimeOffsets, smoothed, robust, lastPingResponseTime, pending,
                     hasSmoothed, hasRobust>>
  BY DEF ShowFrame
<1> DEFINE c == CurrentOffset(now)
           o == OffsetNow
           w == now - lastPingResponseTime
           old == shown
           was == slack
           gap == now - shownAt
<1>2. SyncTypes /\ lastPingResponseTime <= now /\ (pending > 0 => pending = now)
  BY DEF SyncInv
<1>3. c \in Int /\ smoothed \in Int /\ c - smoothed <= w /\ smoothed - c <= w /\ w \in Nat
  BY <1>2, OffsetMoves DEF SyncTypes
<1>4. o = IF pending > 0 THEN smoothed ELSE c
  BY DEF OffsetNow
<1>5. slack' = IF ~hasRobust THEN -1 ELSE IF pending > 0 THEN w ELSE 0
  <2>1. pending > 0 => pending - lastPingResponseTime = w
    BY <1>2
  <2> QED
    BY <1>1, <2>1
<1>6. OffsetNow' = o
  <2>1. CurrentOffset(now)' = CurrentOffset(now)
    BY <1>1 DEF CurrentOffset
  <2> QED
    BY <1>1, <2>1 DEF OffsetNow
<1> HIDE DEF c, o, w
<1>7. hasRobust => o \in Int /\ c - o <= slack' /\ o - c <= slack' /\ slack' >= 0 /\ slack' \in Int
  BY <1>3, <1>4, <1>5
<1>8. slack' \in Int /\ (slack' >= 0 => hasRobust)
  BY <1>3, <1>5
<1>9. shown' = c /\ c \in Int
  BY <1>1, <1>3 DEF c
<1>10. SyncInv'
  <2>1. SyncTypes'
    BY <1>1, <1>2, <1>8, <1>9 DEF SyncTypes
  <2>2. now' - shownAt' = 0
    BY <1>1, <1>2 DEF SyncTypes
  <2>3. ASSUME slack' >= 0 PROVE Distance(o, c) <= slack'
    BY <1>3, <1>7, <1>8, <2>3 DEF Distance
  <2>4. (slack >= 0 => Distance(OffsetNow, shown) <= (now - shownAt) + slack)'
    BY <1>6, <1>8, <1>9, <2>2, <2>3 DEF Distance
  <2>5. /\ (lastPingResponseTime <= now)' /\ (shownAt <= now)' /\ (pending > 0 => pending = now)'
        /\ (slack >= 0 => hasRobust)' /\ (hasRobust => hasSmoothed)'
    BY <1>1, <1>2, <1>8 DEF SyncInv, SyncTypes
  <2> QED
    BY <2>1, <2>4, <2>5 DEF SyncInv
<1>11. ASSUME slack >= 0 PROVE Distance(shown', shown) <= (shownAt' - shownAt) + slack + slack'
  <2>1. /\ hasRobust /\ Distance(o, old) <= gap + was
        /\ old \in Int /\ was \in Int /\ gap \in Int
    BY <1>2, <1>11 DEF SyncInv, SyncTypes, o
  <2>2. shownAt' - shownAt = gap
    BY <1>1
  <2> DEFINE new == slack'
  <2>3. o \in Int /\ c - o <= new /\ o - c <= new /\ new \in Int
    BY <1>7, <2>1
  <2> HIDE DEF old, was, gap, new
  <2>4. Distance(c, old) <= gap + was + new
    BY <1>9, <2>1, <2>3 DEF Distance
  <2> QED
    BY <1>9, <2>2, <2>4 DEF old, was, new
<1> QED
  BY <1>10, <1>11

\* In a tick the offset in use moves by one at most.
LEMMA TickKeeps ==
    ASSUME SyncInv, Tick
    PROVE  SyncInv'
<1>1. /\ pending = 0 /\ now' = now + 1
      /\ UNCHANGED <<lastTimeOffsets, smoothed, robust, lastPingResponseTime, pending,
                     hasSmoothed, hasRobust, shown, shownAt, slack>>
  BY DEF Tick
<1>2. SyncTypes /\ SyncTypes' /\ lastPingResponseTime <= now /\ shownAt <= now
  BY <1>1 DEF SyncInv, SyncTypes
<1> DEFINE c == CurrentOffset(now)
           d == CurrentOffset(now + 1)
<1>3. OffsetNow = c /\ OffsetNow' = d
  BY <1>1 DEF OffsetNow, CurrentOffset
<1>4. c \in Int /\ d \in Int /\ d - c \in -1 .. 1
  BY <1>2, OffsetMoves
<1> HIDE DEF c, d
<1>5. ASSUME slack >= 0 PROVE Distance(d, shown) <= ((now + 1) - shownAt) + slack
  <2>1. Distance(c, shown) <= (now - shownAt) + slack
    BY <1>3, <1>5 DEF SyncInv
  <2> QED
    BY <1>2, <1>4, <2>1 DEF Distance, SyncTypes
<1>6. (slack >= 0 => Distance(OffsetNow, shown) <= (now - shownAt) + slack)'
  BY <1>1, <1>3, <1>5 DEF Distance
<1>7. /\ (lastPingResponseTime <= now)' /\ (shownAt <= now)' /\ (pending > 0 => pending = now)'
      /\ (slack >= 0 => hasRobust)' /\ (hasRobust => hasSmoothed)'
  BY <1>1, <1>2 DEF SyncInv, SyncTypes
<1> QED
  BY <1>2, <1>6, <1>7 DEF SyncInv

\* The time of the game that a client shows never jumps: for any measurements, any
\* size of the window and any interleaving of the threads.
THEOREM TimeNeverJumps == SyncSpec => NoJumps
<1>1. SyncInit => SyncInv
  <2> SUFFICES ASSUME SyncInit PROVE SyncInv
    OBVIOUS
  <2>1. ~(slack >= 0) /\ ~(pending > 0) /\ hasRobust = FALSE /\ hasSmoothed = FALSE
    BY DEF SyncInit
  <2>2. SyncTypes /\ lastPingResponseTime <= now /\ shownAt <= now
    <3>1. <<>> \in Seq(Int) /\ -1 \in Int /\ 0 \in Nat /\ 1 \in Nat /\ 1 <= 1 /\ 0 <= 1
      OBVIOUS
    <3> QED
      BY <3>1 DEF SyncInit, SyncTypes
  <2> QED
    BY <2>1, <2>2 DEF SyncInv
<1>2. ASSUME SyncInv, [SyncNext]_syncVars
      PROVE  /\ SyncInv'
             /\ shownAt' > shownAt /\ slack >= 0 =>
                  Distance(shown', shown) <= (shownAt' - shownAt) + slack + slack'
  <2>1. CASE Response
    <3>1. shownAt' = shownAt /\ shownAt \in Nat
      BY <1>2, <2>1 DEF Response, SyncInv, SyncTypes
    <3> QED
      BY <1>2, <2>1, <3>1, ResponseKeeps
  <2>2. CASE ResponseTime
    <3>1. shownAt' = shownAt /\ shownAt \in Nat
      BY <1>2, <2>2 DEF ResponseTime, SyncInv, SyncTypes
    <3> QED
      BY <1>2, <2>2, <3>1, ResponseTimeKeeps
  <2>3. CASE ShowFrame
    BY <1>2, <2>3, FrameShows
  <2>4. CASE Tick
    <3>1. shownAt' = shownAt /\ shownAt \in Nat
      BY <1>2, <2>4 DEF Tick, SyncInv, SyncTypes
    <3> QED
      BY <1>2, <2>4, <3>1, TickKeeps
  <2>5. CASE UNCHANGED syncVars
    <3>1. SyncInv'
      BY <1>2, <2>5 DEF syncVars, SyncInv, SyncTypes, OffsetNow, CurrentOffset
    <3>2. shownAt' = shownAt /\ shownAt \in Nat
      BY <1>2, <2>5 DEF syncVars, SyncInv, SyncTypes
    <3> QED
      BY <3>1, <3>2
  <2> QED
    BY <1>2, <2>1, <2>2, <2>3, <2>4, <2>5 DEF SyncNext
<1>3. SyncInv /\ [SyncNext]_syncVars =>
        (shownAt' > shownAt /\ slack >= 0 =>
           Distance(shown', shown) <= (shownAt' - shownAt) + slack + slack')
  BY <1>2
<1>4. SyncInv /\ [SyncNext]_syncVars => SyncInv'
  BY <1>2
<1> QED
  BY <1>1, <1>3, <1>4, PTL DEF SyncSpec, NoJumps
=============================================================================
