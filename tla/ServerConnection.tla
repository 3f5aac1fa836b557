-------------------------- MODULE ServerConnection --------------------------
(***************************************************************************)
(* The client's connection to the server (server_connection.cpp) with the  *)
(* part of the client that uses it until the match runs: the settings loop *)
(* of main() and the message loop of the lobby dialog.                     *)
(*                                                                         *)
(* Two threads take part.  The network thread owns the socket, cuts the    *)
(* received bytes into messages, answers pings itself and puts all other   *)
(* messages into receivedMessages.  The main thread takes them from there. *)
(* It lets the network thread connect and shut down by a blocking call,    *)
(* and learns of news by signals queued for it.  A mutex guards            *)
(* receivedMessages.                                                       *)
(*                                                                         *)
(* A message has two parts, <<m, 1>> and <<m, 2>>, that may arrive apart.  *)
(* A PingResponse is numbered 0; other messages are numbered in the order  *)
(* in which the server sends them.                                         *)
(***************************************************************************)
EXTENDS Integers, Sequences, SequencesExt

CONSTANTS
    PingTimeout,   \* kNoPingTimeout, in runs of the ping timer (500 ms)
    MaxAttempts,   \* bound: calls of ConnectToServer
    MaxMessages,   \* bound: messages the server sends before the match
    MaxOnWire      \* bound: parts of messages that are on the wire when one is sent

ASSUME ConnectionAssumption == PingTimeout \in Nat \ {0}

VARIABLES
    server,            \* "setup", "aborted", "started" or "down"
    wire,              \* parts of messages on their way to the client
    pings,             \* pings on their way to the server
    socket,            \* "connected" or "unconnected"
    buffer,            \* unparsedReceivedBuffer
    receivedMessages,
    mutex,             \* who holds receivedMessagesMutex: "net", "main", "none"
    timer,             \* pingAndConnectionCheckTimer is running
    oldTimers,         \* timers of earlier connections that were never stopped
    silent,            \* runs of the timer since lastPingResponseTime
    net,               \* the network thread: "idle", or it has a message to "store"
    call,              \* the blocking call it is asked for: "Connect", "Shutdown"
    signals,           \* signals queued for the main thread: what they do commutes
    connectionToServerLost,
    main,              \* where the main thread stands
    pos,               \* message of receivedMessages the dialog is at
    outcome,           \* of the dialog: "open", "accepted", "rejected"
    gameWasAborted,
    sent,              \* number of the last message the server sent
    handled,           \* numbers of the messages main has handled since it joined
    fresh,             \* the connection was made while no other was open
    attempts

netVars    == <<buffer, timer, oldTimers, silent, net>>
mainVars   == <<connectionToServerLost, main, pos, outcome, gameWasAborted, handled>>
sharedVars == <<receivedMessages, mutex, call, signals>>
wireVars   == <<server, wire, pings, socket, sent>>
connVars   == <<netVars, mainVars, sharedVars, wireVars, fresh, attempts>>

Parts(m)  == <<<<m, 1>>, <<m, 2>>>>
Msg(t, n) == [type |-> t, number |-> n]
Pong      == Msg("PingResponse", 0)

ConnInit ==
    /\ server = "setup" /\ wire = <<>> /\ pings = 0 /\ socket = "unconnected"
    /\ buffer = <<>> /\ receivedMessages = <<>> /\ mutex = "none"
    /\ timer = FALSE /\ oldTimers = 0 /\ silent = 0 /\ net = "idle"
    /\ call = "none" /\ signals = {} /\ connectionToServerLost = FALSE
    /\ main = "settings" /\ pos = 0 /\ outcome = "open" /\ gameWasAborted = FALSE
    /\ sent = 0 /\ handled = <<>> /\ fresh = FALSE /\ attempts = 0
-----------------------------------------------------------------------------
(***************************************************************************)
(* The server and the network, as the client sees them.                    *)
(***************************************************************************)
Welcomed == sent > 0

Send(type) ==
    /\ sent' = sent + 1
    /\ wire' = wire \o Parts(Msg(type, sent + 1))

\* Mutant: the server goes on when the host has left.
ServerAfterGoesOn(t) == IF t = "StartGame" THEN "started" ELSE "setup"

ServerAfter(t) ==
    CASE t = "GameAborted" -> "aborted" [] t = "StartGame" -> "started" [] OTHER -> "setup"

\* Connect is answered with Welcome; lists (also for settings and chats) follow,
\* then the end of the room, after which only game messages are sent.
ServerSends ==
    /\ socket = "connected" /\ main \notin {"settings", "connecting"}
    /\ Len(wire) <= MaxOnWire
    /\ \/ ~Welcomed /\ server = "setup" /\ Send("Welcome") /\ UNCHANGED server
       \/ /\ Welcomed /\ server = "setup" /\ sent < MaxMessages
          /\ \E t \in {"PlayerList", "GameAborted", "StartGame"} :
               /\ Send(t)
               /\ server' = ServerAfter(t)
       \/ /\ server = "started" /\ sent <= MaxMessages /\ Send("GameStepTime")
          /\ UNCHANGED server
    /\ UNCHANGED <<netVars, mainVars, sharedVars, pings, socket, fresh, attempts>>

ServerPongs ==
    /\ socket = "connected" /\ server \in {"setup", "started"} /\ pings > 0
    /\ pings' = pings - 1
    /\ wire' = wire \o Parts(Pong)
    /\ UNCHANGED <<netVars, mainVars, sharedVars, server, socket, sent, fresh, attempts>>

\* The server process ends, after an abortion or in a crash; what it sent arrives.
ServerEnds ==
    /\ server # "down"
    /\ server' = "down"
    /\ UNCHANGED <<netVars, mainVars, sharedVars, wire, pings, socket, sent, fresh, attempts>>

\* The end of the connection reaches the client.
SocketCloses ==
    /\ socket = "connected" /\ server = "down" /\ wire = <<>>
    /\ socket' = "unconnected"
    /\ UNCHANGED <<netVars, mainVars, sharedVars, server, wire, pings, sent, fresh, attempts>>
-----------------------------------------------------------------------------
(***************************************************************************)
(* The network thread.                                                     *)
(***************************************************************************)
\* Mutant: bytes of the last connection are kept.
KeptBuffer == buffer

ClearedBuffer == <<>>

(***************************************************************************)
(* ConnectToServer.  An open socket ignores connectToHost: the call then   *)
(* succeeds with the old connection, whose timer goes on beside the new.   *)
(* The main thread does not hold the mutex while it waits for this call.   *)
(***************************************************************************)
NetConnects ==
    /\ call = "Connect" /\ net = "idle" /\ mutex = "none"
    /\ call' = "none"
    /\ buffer' = ClearedBuffer
    /\ receivedMessages' = <<>>
    /\ \/ /\ socket = "connected" \/ server = "setup"
          /\ socket' = "connected"
          /\ fresh' = (socket = "unconnected")
          /\ timer' = TRUE
          /\ oldTimers' = oldTimers + (IF timer THEN 1 ELSE 0)
          /\ silent' = 0
          /\ main' = "welcome"
          /\ IF socket = "connected" THEN UNCHANGED <<wire, pings, sent>>
             ELSE wire' = <<>> /\ pings' = 0 /\ sent' = 0
       \/ /\ socket = "unconnected"
          /\ main' = "settings"
          /\ UNCHANGED <<socket, fresh, timer, oldTimers, silent, wire, pings, sent>>
    /\ UNCHANGED <<server, net, mutex, signals, connectionToServerLost, pos, outcome,
                   gameWasAborted, handled, attempts>>

\* Shutdown, and what the caller does next.
NetShutsDown ==
    /\ call = "Shutdown" /\ net = "idle"
    /\ call' = "none"
    /\ timer' = FALSE
    /\ socket' = "unconnected" /\ wire' = <<>> /\ pings' = 0
    /\ main' = IF main = "shutdown" THEN "settings" ELSE "handling"
    /\ pos' = IF main = "shutdown" THEN pos ELSE pos + 1
    /\ UNCHANGED <<buffer, oldTimers, silent, net, receivedMessages, mutex, signals, server,
                   connectionToServerLost, outcome, gameWasAborted, sent, handled, fresh, attempts>>

Complete(b) == Len(b) >= 2
First(b)    == b[1][1]
Rest(b)     == SubSeq(b, 3, Len(b))
IsWhole(b)  == b[1] = <<First(b), 1>> /\ b[2] = <<First(b), 2>>

HandledByThread(b) == Complete(b) /\ First(b) = Pong

\* The loop of TryParseMessages up to a message to be stored: a ping response
\* is handled by the thread itself.
Parse(b) ==
    LET rest == IF HandledByThread(b) THEN Rest(b) ELSE b
    IN  /\ buffer' = rest
        /\ silent' = IF HandledByThread(b) THEN 0 ELSE silent
        /\ net' = IF Complete(rest) THEN "store" ELSE "idle"

\* readyRead: all bytes that are under way have arrived, or only the first.
NetReads ==
    /\ net = "idle" /\ wire # <<>>
    /\ \E k \in {1, Len(wire)} :
         /\ Parse(buffer \o SubSeq(wire, 1, k))
         /\ wire' = SubSeq(wire, k + 1, Len(wire))
    /\ UNCHANGED <<timer, oldTimers, mainVars, sharedVars, server, pings, socket, sent, fresh,
                   attempts>>

\* The message is stored when the mutex is free.
NetStores ==
    /\ net = "store" /\ mutex = "none"
    /\ receivedMessages' = Append(receivedMessages,
                                  IF IsWhole(buffer) THEN First(buffer) ELSE Msg("garbled", -1))
    /\ signals' = signals \cup {"NewMessage"}
    /\ Parse(Rest(buffer))
    /\ UNCHANGED <<timer, oldTimers, mainVars, mutex, call, wireVars, fresh, attempts>>

\* Bound: one ping is on its way at a time, with its answer.
PongOnItsWay == \E i \in 1 .. Len(buffer \o wire) : (buffer \o wire)[i][1] = Pong

TimersRunning == timer \/ oldTimers > 0

\* Mutant: only a closed socket is told, not a timeout.
LossSignalIfClosed == IF socket = "unconnected" THEN {"ConnectionLost"} ELSE {}

LossSignal == {"ConnectionLost"}

\* PingAndCheckConnection, by the timer of this connection or of an older one.
\* Only the former is ever stopped.
NetChecks ==
    /\ net = "idle" /\ TimersRunning
    /\ IF socket = "unconnected" \/ silent > PingTimeout
         THEN /\ signals' = signals \cup LossSignal
              /\ timer' = FALSE
              /\ UNCHANGED <<silent, pings>>
         ELSE /\ pings' = IF PongOnItsWay THEN pings ELSE 1
              /\ silent' = silent + 1
              /\ UNCHANGED <<signals, timer>>
    /\ UNCHANGED <<buffer, oldTimers, net, mainVars, receivedMessages, mutex, call, server, wire,
                   socket, sent, fresh, attempts>>
-----------------------------------------------------------------------------
(***************************************************************************)
(* The main thread: main() and the lobby dialog.                           *)
(***************************************************************************)
\* The user joins a game.
Join ==
    /\ main = "settings" /\ attempts < MaxAttempts
    /\ attempts' = attempts + 1
    /\ connectionToServerLost' = FALSE
    /\ call' = "Connect"
    /\ main' = "connecting"
    /\ handled' = <<>>
    /\ outcome' = "open" /\ gameWasAborted' = FALSE
    /\ UNCHANGED <<netVars, receivedMessages, mutex, signals, wireVars, pos, fresh>>

IsWelcome(m) == m.type = "Welcome"

\* WaitForWelcomeMessage takes the message out of the middle of the others.
TakeWelcome ==
    /\ main = "welcome" /\ mutex = "none"
    /\ \E i \in DOMAIN receivedMessages :
         /\ IsWelcome(receivedMessages[i])
         /\ \A j \in 1 .. i - 1 : ~IsWelcome(receivedMessages[j])
         /\ handled' = Append(handled, receivedMessages[i].number)
         /\ receivedMessages' = RemoveAt(receivedMessages, i)
    /\ UNCHANGED <<netVars, connectionToServerLost, gameWasAborted, call, signals, wireVars,
                   fresh, attempts>>

\* The constructor of the dialog then handles the others.
WelcomeArrives ==
    /\ TakeWelcome
    /\ mutex' = "main" /\ main' = "handling" /\ pos' = 1
    /\ UNCHANGED outcome

\* The user does not like the version of the server.
RefuseVersion ==
    /\ TakeWelcome
    /\ main' = "leave" /\ outcome' = "rejected"
    /\ UNCHANGED <<mutex, pos>>

\* No welcome within kWelcomeWaitTimeout: back to the settings, still connected.
WelcomeMissing ==
    /\ main = "welcome" /\ mutex = "none"
    /\ \A i \in DOMAIN receivedMessages : ~IsWelcome(receivedMessages[i])
    /\ main' = "settings"
    /\ UNCHANGED <<netVars, connectionToServerLost, pos, outcome, gameWasAborted, handled,
                   sharedVars, wireVars, fresh, attempts>>

\* The event loop of a dialog takes the next signal.
TakeSignal ==
    /\ main \in {"settings", "lobby", "game"} /\ signals # {}
    /\ \E s \in signals :
         /\ signals' = signals \ {s}
         /\ connectionToServerLost' = (connectionToServerLost \/ s = "ConnectionLost")
         /\ main' = IF main = "lobby" /\ s = "NewMessage" THEN "take" ELSE main
    /\ UNCHANGED <<netVars, pos, outcome, gameWasAborted, handled, receivedMessages, mutex, call,
                   wireVars, fresh, attempts>>

\* TryParseServerMessages of the dialog locks the list ...
StartHandling ==
    /\ main = "take" /\ mutex = "none"
    /\ mutex' = "main" /\ main' = "handling" /\ pos' = 1
    /\ UNCHANGED <<netVars, connectionToServerLost, outcome, gameWasAborted, handled,
                   receivedMessages, call, signals, wireVars, fresh, attempts>>

\* ... and handles its messages.  An abortion shuts the connection down while
\* the list is still locked.
HandleMessage ==
    /\ main = "handling" /\ pos <= Len(receivedMessages)
    /\ LET m == receivedMessages[pos]
       IN  /\ handled' = Append(handled, m.number)
           /\ IF m.type = "GameAborted"
                THEN /\ gameWasAborted' = TRUE /\ outcome' = "rejected"
                     /\ call' = "Shutdown" /\ main' = "abort"
                     /\ UNCHANGED pos
                ELSE /\ outcome' = IF m.type = "StartGame" THEN "accepted" ELSE outcome
                     /\ pos' = pos + 1
                     /\ UNCHANGED <<gameWasAborted, call, main>>
    /\ UNCHANGED <<netVars, connectionToServerLost, receivedMessages, mutex, signals, wireVars,
                   fresh, attempts>>

\* The list is cleared and unlocked.  What was decided takes effect.
EndHandling ==
    /\ main = "handling" /\ pos > Len(receivedMessages)
    /\ receivedMessages' = <<>>
    /\ mutex' = "none"
    /\ main' = CASE outcome = "accepted" -> "game" [] outcome = "rejected" -> "leave"
                 [] OTHER -> "lobby"
    /\ UNCHANGED <<netVars, connectionToServerLost, pos, outcome, gameWasAborted, handled, call,
                   signals, wireVars, fresh, attempts>>

\* The user leaves the lobby.
LeaveLobby ==
    /\ main = "lobby"
    /\ main' = "leave" /\ outcome' = "rejected"
    /\ UNCHANGED <<netVars, connectionToServerLost, pos, gameWasAborted, handled, sharedVars,
                   wireVars, fresh, attempts>>

\* main() shuts the connection down, in any case.
LeaveAndShutdown ==
    /\ main = "leave"
    /\ main' = "shutdown" /\ call' = "Shutdown"
    /\ UNCHANGED <<netVars, connectionToServerLost, pos, outcome, gameWasAborted, handled,
                   receivedMessages, mutex, signals, wireVars, fresh, attempts>>

\* A frame of the match: all messages that are due are handled.
GameFrame ==
    /\ main = "game" /\ mutex = "none" /\ receivedMessages # <<>>
    /\ handled' = handled \o [i \in DOMAIN receivedMessages |-> receivedMessages[i].number]
    /\ receivedMessages' = <<>>
    /\ UNCHANGED <<netVars, connectionToServerLost, main, pos, outcome, gameWasAborted, mutex,
                   call, signals, wireVars, fresh, attempts>>

NetNext == NetConnects \/ NetShutsDown \/ NetReads \/ NetStores \/ NetChecks

MainNext ==
    \/ Join \/ WelcomeArrives \/ RefuseVersion \/ WelcomeMissing \/ TakeSignal
    \/ StartHandling \/ HandleMessage \/ EndHandling \/ LeaveLobby \/ LeaveAndShutdown \/ GameFrame

ConnNext == NetNext \/ MainNext \/ ServerSends \/ ServerPongs \/ ServerEnds \/ SocketCloses

ConnSpec == ConnInit /\ [][ConnNext]_connVars
-----------------------------------------------------------------------------
\* The dialog waits for the network thread while it holds the list's mutex: the
\* thread must never need that mutex to become free for the call.  It would if
\* a message to be stored could follow GameAborted.
NeverLockedOut == ~(main = "abort" /\ net = "store")

\* The messages that lie in the list and wait to be handled.
Unhandled ==
    CASE main = "handling" -> SubSeq(receivedMessages, pos, Len(receivedMessages))
      [] main = "abort"    -> SubSeq(receivedMessages, pos + 1, Len(receivedMessages))
      [] OTHER             -> receivedMessages

\* Over a connection made while no other was open, the main thread gets every
\* message whole, once and in the order in which the server sent them, even if
\* bytes of an earlier connection were left in the buffer.
MessagesInOrder ==
    fresh /\ main # "connecting" =>
       LET numbers == handled \o [i \in DOMAIN Unhandled |-> Unhandled[i].number]
       IN  \A i \in DOMAIN numbers : numbers[i] = i

\* While the client waits in the lobby or plays, a timer watches the connection,
\* or its loss has been told: the watch never ends in silence, whatever timers
\* and signals of an earlier connection are left.
LossNoticed ==
    main \in {"lobby", "game"} =>
       TimersRunning \/ connectionToServerLost \/ "ConnectionLost" \in signals
=============================================================================
