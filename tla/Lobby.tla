-------------------------------- MODULE Lobby --------------------------------
(***************************************************************************)
(* The game room before a match: the server's RunMatchSetupLoop            *)
(* (server/match_setup.cpp and the hand-over in server/main.cpp) and the   *)
(* LobbyDialogs of the clients, connected by one TCP stream per direction. *)
(*                                                                         *)
(* A client stands for one connection; somebody who connects again is      *)
(* another client.  Names, chat texts, the map size and the announcements  *)
(* in the chat are left out, and so are pings: a connection may break, or  *)
(* time out, at any moment.                                                *)
(***************************************************************************)
EXTENDS Naturals, Sequences, FiniteSets

CONSTANTS
    Clients,
    TokenHolders, \* those who know the host token, and connect with HostConnect
    Lossy,        \* bound: the clients whose connection may break or time out
    MaxToggles,   \* bound: clicks on the check boxes, per client
    MaxChats      \* bound: chat messages, per client

ASSUME LobbyAssumption ==
    /\ IsFiniteSet(Clients)
    /\ TokenHolders \subseteq Clients
    /\ Lossy \subseteq Clients
    /\ MaxToggles \in [Clients -> Nat] /\ MaxChats \in [Clients -> Nat]

VARIABLES
    order,    \* the connections of playersInMatch, in the order of the vector
    player,   \* PlayerInMatch of every connection: state "None" if not in order
    allow,    \* settings->allowNewConnections
    paused,   \* settings->acceptingConnectionsPaused
    server,   \* "setup", "started" (the game), or "aborted" (exited)
    inGame,   \* playersInGame: the connections in the order of their index
    client,   \* LobbyDialog of every client
    toServer, \* messages on their way to the server
    toClient  \* messages on their way to a client

vars == <<order, player, allow, paused, server, inGame, client, toServer, toClient>>

serverVars == <<order, player, allow, paused, server, inGame>>

Colors == 0 .. Cardinality(Clients)

NoPlayer == [state |-> "None", isHost |-> FALSE, color |-> 0, ready |-> FALSE]

NewPlayer == [NoPlayer EXCEPT !.state = "Connected"]

IsJoined(c) == player[c].state = "Joined"

Joined == {c \in Clients : IsJoined(c)}
Hosts  == {c \in Clients : player[c].isHost}

\* The elements of s that are in S, in the order of s.
Kept(s, S) ==
    LET kept[i \in 0 .. Len(s)] ==
          IF i = 0 THEN <<>>
          ELSE IF s[i] \in S THEN Append(kept[i - 1], s[i]) ELSE kept[i - 1]
    IN  kept[Len(s)]

(***************************************************************************)
(* CreatePlayerListMessage: the joined players of a table of players, in   *)
(* order, with color and ready state.  SetPlayerListMessagePlayerIndex     *)
(* adds to the copy for client c the position of c.                        *)
(***************************************************************************)
Roster(connections, table) ==
    LET joined == Kept(connections, {c \in Clients : table[c].state = "Joined"})
    IN  [i \in DOMAIN joined |-> [id    |-> joined[i],
                                  color |-> table[joined[i]].color,
                                  ready |-> table[joined[i]].ready]]

\* Mutant: the position among all connections.
IndexInOrder(list, c) == CHOOSE i \in DOMAIN order : order[i] = c

IndexIn(list, c) == CHOOSE i \in DOMAIN list : list[i].id = c

PlayerList(list, c) == [type |-> "PlayerList", list |-> list, index |-> IndexIn(list, c)]

Send(channel, c, msgs) == [channel EXCEPT ![c] = @ \o msgs]

\* msgs are the messages for each client.  Those for a client that is gone are
\* written to a dead socket.
Broadcast(msgs) ==
    [c \in Clients |-> IF client[c].status = "gone" THEN <<>> ELSE toClient[c] \o msgs[c]]

\* Mutant: the host, who had the room to itself, gets no list.
ListForGuests(connections, table) ==
    LET list == Roster(connections, table)
    IN  [c \in Clients |-> IF table[c].state = "Joined" /\ ~table[c].isHost
                             THEN <<PlayerList(list, c)>> ELSE <<>>]

\* The new player list for every player that is joined in table.
ListFor(connections, table) ==
    LET list == Roster(connections, table)
    IN  [c \in Clients |-> IF table[c].state = "Joined" THEN <<PlayerList(list, c)>>
                                                        ELSE <<>>]

Chat(from, index) == [type |-> "ChatBroadcast", from |-> from, index |-> index]

Message(type)     == [type |-> type]
Update(type, on)  == [type |-> type, on |-> on]

Init ==
    /\ order    = <<>>
    /\ player   = [c \in Clients |-> NoPlayer]
    /\ allow    = TRUE
    /\ paused   = FALSE
    /\ server   = "setup"
    /\ inGame   = <<>>
    /\ client   = [c \in Clients |->
                     [status |-> "away", list |-> <<>>, index |-> 0, ready |-> FALSE,
                      allow |-> TRUE, pressed |-> FALSE, toggles |-> 0, chats |-> 0]]
    /\ toServer = [c \in Clients |-> <<>>]
    /\ toClient = [c \in Clients |-> <<>>]

-----------------------------------------------------------------------------
(***************************************************************************)
(* The client: client/main.cpp and client/lobby_dialog.cpp.                *)
(***************************************************************************)
Connect(c) ==
    /\ client[c].status = "away"
    /\ server = "setup"
    /\ client' = [client EXCEPT ![c].status = "connecting"]
    /\ toServer' = Send(toServer, c,
         <<Message(IF c \in TokenHolders THEN "HostConnect" ELSE "Connect")>>)
    /\ UNCHANGED <<serverVars, toClient>>

InLobby(c) == client[c].status = "lobby"

\* ReadyCheckChanged
ClickReady(c) ==
    /\ InLobby(c)
    /\ client[c].toggles < MaxToggles[c]
    /\ client' = [client EXCEPT ![c].ready = ~@, ![c].toggles = @ + 1]
    /\ toServer' = Send(toServer, c, <<Update("ReadyUp", ~client[c].ready)>>)
    /\ UNCHANGED <<serverVars, toClient>>

\* SendSettingsUpdate: the check box is only enabled for the host
ClickAllow(c) ==
    /\ InLobby(c)
    /\ c \in TokenHolders
    /\ client[c].toggles < MaxToggles[c]
    /\ client' = [client EXCEPT ![c].allow = ~@, ![c].toggles = @ + 1]
    /\ toServer' = Send(toServer, c, <<Update("SettingsUpdate", ~client[c].allow)>>)
    /\ UNCHANGED <<serverVars, toClient>>

SendChat(c) ==
    /\ InLobby(c)
    /\ client[c].chats < MaxChats[c]
    /\ client' = [client EXCEPT ![c].chats = @ + 1]
    /\ toServer' = Send(toServer, c, <<Message("Chat")>>)
    /\ UNCHANGED <<serverVars, toClient>>

StartEnabled(c) ==
    /\ c \in TokenHolders
    /\ client[c].list # <<>>
    /\ \A i \in DOMAIN client[c].list : client[c].list[i].ready

\* The start button, enabled by the last player list the host has seen.  One
\* click is enough: the server never refuses it.
ClickStart(c) ==
    /\ InLobby(c)
    /\ StartEnabled(c)
    /\ ~client[c].pressed
    /\ client' = [client EXCEPT ![c].pressed = TRUE]
    /\ toServer' = Send(toServer, c, <<Message("StartGame")>>)
    /\ UNCHANGED <<serverVars, toClient>>

\* The dialog is cancelled: a Leave message is the last thing the server hears.
ClickLeave(c) ==
    /\ InLobby(c)
    /\ client' = [client EXCEPT ![c].status = "gone"]
    /\ toServer' = Send(toServer, c, <<Message("Leave")>>)
    /\ toClient' = [toClient EXCEPT ![c] = <<>>]
    /\ UNCHANGED serverVars

\* The connection breaks: what is in flight is lost.
Break(c) ==
    /\ c \in Lossy
    /\ client[c].status \in {"connecting", "lobby"}
    /\ client' = [client EXCEPT ![c].status = "gone"]
    /\ toServer' = [toServer EXCEPT ![c] = <<>>]
    /\ toClient' = [toClient EXCEPT ![c] = <<>>]
    /\ UNCHANGED serverVars

(***************************************************************************)
(* The next message from the server is handled.  A host whose settings     *)
(* check box is changed by a message tells the server so, like a click.    *)
(***************************************************************************)
Receive(c) ==
    /\ client[c].status \in {"connecting", "lobby"}
    /\ toClient[c] # <<>>
    /\ LET m == Head(toClient[c])
           echoes == m.type = "SettingsUpdateBroadcast" /\ c \in TokenHolders
                       /\ m.on # client[c].allow
       IN  /\ client' = [client EXCEPT ![c] =
                CASE m.type = "Welcome"                 -> [@ EXCEPT !.status = "lobby"]
                  [] m.type = "SettingsUpdateBroadcast" -> [@ EXCEPT !.allow = m.on]
                  [] m.type = "PlayerList" -> [@ EXCEPT !.list = m.list, !.index = m.index]
                  [] m.type = "ChatBroadcast"           -> @
                  [] m.type = "GameAborted"             -> [@ EXCEPT !.status = "gone"]
                  [] m.type = "StartGameBroadcast"      -> [@ EXCEPT !.status = "game"]]
           /\ toServer' = IF echoes
                            THEN Send(toServer, c, <<Update("SettingsUpdate", ~client[c].allow)>>)
                            ELSE toServer
    /\ toClient' = [toClient EXCEPT ![c] = Tail(@)]
    /\ UNCHANGED serverVars

-----------------------------------------------------------------------------
(***************************************************************************)
(* The server.                                                             *)
(***************************************************************************)
InMatch(c) == player[c].state # "None"

Without(c) == Kept(order, Clients \ {c})

\* A connection waits in the listen queue while accepting is paused.
Accept(c) ==
    /\ server = "setup"
    /\ ~paused
    /\ client[c].status = "connecting"
    /\ ~InMatch(c)
    /\ order' = Append(order, c)
    /\ player' = [player EXCEPT ![c] = NewPlayer]
    /\ UNCHANGED <<allow, paused, server, inGame, client, toServer, toClient>>

\* Mutant: nothing is read while accepting is paused.
HandleUnlessPaused(c, type) ==
    /\ server = "setup"
    /\ ~paused
    /\ InMatch(c)
    /\ toServer[c] # <<>>
    /\ Head(toServer[c]).type = type
    /\ toServer' = [toServer EXCEPT ![c] = Tail(@)]

\* The first message of c, of the given type, is taken from its buffer.
Handle(c, type) ==
    /\ server = "setup"
    /\ InMatch(c)
    /\ toServer[c] # <<>>
    /\ Head(toServer[c]).type = type
    /\ toServer' = [toServer EXCEPT ![c] = Tail(@)]

\* Mutant: a new player is not told the settings.
WelcomeWithoutSettings(c, table) ==
    LET lists == ListFor(order, table)
    IN  Broadcast([d \in Clients |->
          (IF d = c THEN <<Message("Welcome")>> ELSE <<>>) \o lists[d]])

\* SendWelcomeAndJoinMessage, table being the players after c has joined.
WelcomeAndJoin(c, table) ==
    LET lists == ListFor(order, table)
    IN  Broadcast([d \in Clients |->
          (IF d = c THEN <<Message("Welcome"), Update("SettingsUpdateBroadcast", allow)>>
                    ELSE <<>>) \o lists[d]])

\* Mutant: the host is taken to be the first connection.
HasHostFirst == order # <<>> /\ player[order[1]].isHost

HasHost == Hosts # {}

HandleHostConnect(c) ==
    /\ Handle(c, "HostConnect")
    /\ ~HasHost
    /\ player' = [player EXCEPT ![c] = [@ EXCEPT !.state = "Joined", !.isHost = TRUE,
                                                 !.color = 0]]
    /\ toClient' = WelcomeAndJoin(c, player')
    /\ UNCHANGED <<order, allow, paused, server, inGame, client>>

\* Mutant: the host's color is not looked at.
LowestFreeOfOthers(color) ==
    /\ \A d \in Joined \ Hosts : player[d].color # color
    /\ \A lower \in 0 .. color - 1 : \E d \in Joined \ Hosts : player[d].color = lower

LowestFree(color) ==
    /\ \A d \in Joined : player[d].color # color
    /\ \A lower \in 0 .. color - 1 : \E d \in Joined : player[d].color = lower

HandleConnect(c) ==
    /\ Handle(c, "Connect")
    /\ HasHost
    /\ \E color \in Colors :
         /\ LowestFree(color)
         /\ player' = [player EXCEPT ![c] = [@ EXCEPT !.state = "Joined", !.color = color]]
    /\ toClient' = WelcomeAndJoin(c, player')
    /\ UNCHANGED <<order, allow, paused, server, inGame, client>>

\* A HostConnect when there is a host, or a Connect when there is none: the
\* server closes the connection.
Reject(c) ==
    /\ \/ Handle(c, "HostConnect") /\ HasHost
       \/ Handle(c, "Connect") /\ ~HasHost
    /\ order' = Without(c)
    /\ player' = [player EXCEPT ![c] = NoPlayer]
    /\ client' = [client EXCEPT ![c].status = "gone"]
    /\ UNCHANGED <<allow, paused, server, inGame, toClient>>

\* Mutant: only the settings pause accepting.
HostNeverReady == FALSE

\* The first host of the vector, if there is one, is ready.
HostReady == \E c \in Hosts : player[c].ready

HandleSettingsUpdate(c) ==
    /\ Handle(c, "SettingsUpdate")
    /\ allow' = Head(toServer[c]).on
    /\ paused' = (~allow' \/ HostReady)
    /\ toClient' = Broadcast([d \in Clients |->
         IF IsJoined(d) /\ ~player[d].isHost
           THEN <<Update("SettingsUpdateBroadcast", allow')>> ELSE <<>>])
    /\ UNCHANGED <<order, player, server, inGame, client>>

HandleReadyUp(c) ==
    /\ Handle(c, "ReadyUp")
    /\ LET ready == Head(toServer[c]).on
       IN  /\ player' = [player EXCEPT ![c] = [@ EXCEPT !.ready = ready]]
           /\ paused' = IF player[c].isHost THEN ~allow \/ ready ELSE paused
    /\ toClient' = Broadcast(ListFor(order, player'))
    /\ UNCHANGED <<order, allow, server, inGame, client>>

\* The sender is named by the number of joined players before it.
HandleChat(c) ==
    /\ Handle(c, "Chat")
    /\ toClient' = Broadcast([d \in Clients |->
         IF IsJoined(d) THEN <<Chat(c, IndexIn(Roster(order, player), c))>> ELSE <<>>])
    /\ UNCHANGED <<order, player, allow, paused, server, inGame, client>>

\* HandleLeave, and the removal of the player by RunMatchSetupLoop.  When the
\* host leaves the match is aborted and the server exits.
HandleLeave(c) ==
    /\ Handle(c, "Leave")
    /\ player' = [player EXCEPT ![c] = NoPlayer]
    /\ order' = Without(c)
    /\ LET lists == ListFor(order', player')
       IN  toClient' = Broadcast([d \in Clients |->
             IF ~IsJoined(d) \/ d = c THEN <<>>
             ELSE IF player[c].isHost THEN <<Message("GameAborted")>>
             ELSE lists[d]])
    /\ server' = IF player[c].isHost THEN "aborted" ELSE server
    /\ UNCHANGED <<allow, paused, inGame, client>>

\* Mutant: connections that have not joined get an index as well.
AllInGame == order

\* The connections main() hands to the game: those that have joined.
PlayersInGame == Kept(order, Joined)

(***************************************************************************)
(* HandleStartGame warns if the sender is not the host or if a player is   *)
(* not ready, but its result is not used: the game starts in any case.     *)
(* main() drops the connections that have not joined.                      *)
(***************************************************************************)
HandleStartGame(c) ==
    /\ Handle(c, "StartGame")
    /\ server' = "started"
    /\ inGame' = PlayersInGame
    /\ toClient' = Broadcast([d \in Clients |->
         IF IsJoined(d) THEN <<Message("StartGameBroadcast")>> ELSE <<>>])
    /\ client' = [d \in Clients |->
         IF IsJoined(d) \/ client[d].status = "away" THEN client[d]
         ELSE [client[d] EXCEPT !.status = "gone"]]
    /\ UNCHANGED <<order, player, allow, paused>>

(***************************************************************************)
(* The connection of a joined player broke or sent no ping for 5 seconds,  *)
(* or one that is not joined did so or did not authorize itself in time.   *)
(* The host is no exception: the room goes on without it.                  *)
(***************************************************************************)
TimeOut(c) ==
    /\ c \in Lossy
    /\ server = "setup"
    /\ InMatch(c)
    /\ player' = [player EXCEPT ![c] = NoPlayer]
    /\ order' = Without(c)
    /\ client' = [client EXCEPT ![c].status = "gone"]
    /\ toServer' = [toServer EXCEPT ![c] = <<>>]
    /\ LET lists == ListFor(order', player')
       IN  toClient' = [d \in Clients |->
             IF d = c THEN <<>>
             ELSE IF IsJoined(c) /\ IsJoined(d)
               THEN toClient[d] \o lists[d]
             ELSE toClient[d]]
    /\ UNCHANGED <<allow, paused, server, inGame>>

\* Mutant: a client that is not in the room yet waits forever.
NoticeLossInLobby(c) ==
    /\ client[c].status = "lobby"
    /\ server # "setup"
    /\ toClient[c] = <<>>
    /\ client' = [client EXCEPT ![c].status = "gone"]
    /\ UNCHANGED <<serverVars, toServer, toClient>>

\* A client whose server is gone, or never took it in, notices it.
NoticeLoss(c) ==
    /\ client[c].status \in {"connecting", "lobby"}
    /\ server # "setup"
    /\ toClient[c] = <<>>
    /\ client' = [client EXCEPT ![c].status = "gone"]
    /\ UNCHANGED <<serverVars, toServer, toClient>>

Handler(c) ==
    \/ HandleHostConnect(c) \/ HandleConnect(c) \/ Reject(c)
    \/ HandleSettingsUpdate(c) \/ HandleReadyUp(c) \/ HandleChat(c)
    \/ HandleLeave(c) \/ HandleStartGame(c)

Click(c) ==
    \/ Connect(c) \/ ClickReady(c) \/ ClickAllow(c) \/ SendChat(c) \/ ClickStart(c)
    \/ ClickLeave(c)

Next ==
    \E c \in Clients :
      \/ Click(c) \/ Break(c) \/ Receive(c) \/ NoticeLoss(c)
      \/ Accept(c) \/ Handler(c) \/ TimeOut(c)

Spec == Init /\ [][Next]_vars

(***************************************************************************)
(* The server loop never blocks, TCP delivers, and a client handles what   *)
(* it receives.  Nobody has to click on anything.                          *)
(***************************************************************************)
Fairness ==
    \A c \in Clients :
      /\ WF_vars(Receive(c))
      /\ WF_vars(NoticeLoss(c))
      /\ WF_vars(Handler(c))

FairSpec == Spec /\ Fairness
-----------------------------------------------------------------------------
(***************************************************************************)
(* Properties.                                                             *)
(***************************************************************************)
Players == [state : {"None", "Connected", "Joined"}, isHost : BOOLEAN,
            color : Colors, ready : BOOLEAN]

\* At any time one client administrates the match, although hosts may vanish
\* and others may follow them with the same token; and it has joined.
AtMostOneHost ==
    /\ \A c, d \in Hosts : c = d
    /\ Hosts \subseteq Joined

\* No two players have the same color, in whatever order hosts and players
\* come and go: a host takes color 0 without looking.
ColorsDistinct ==
    \A c, d \in Joined : c # d => player[c].color # player[d].color

\* Where messages of a type are among those on their way to c.
Coming(c, type) == {i \in DOMAIN toClient[c] : toClient[c][i].type = type}

\* The last of the messages at these places.
Newest(c, coming) == toClient[c][CHOOSE i \in coming : \A j \in coming : j <= i]

\* The player list c will show once it has handled what is on its way to it, and
\* the place of c in it.
LastList(c) ==
    LET coming == Coming(c, "PlayerList")
        last   == IF coming = {} THEN client[c] ELSE Newest(c, coming)
    IN  [list |-> last.list, index |-> last.index]

Present(c) == IsJoined(c) /\ client[c].status # "gone"

\* Every join, leave, loss and click reaches every player: nobody is left with
\* an outdated list, and everybody finds themselves in it.
ListsConverge ==
    server # "aborted" =>
      \A c \in Clients : Present(c) =>
        /\ LastList(c).list = Roster(order, player)
        /\ LastList(c).list[LastList(c).index].id = c

\* A chat message is shown under the name of its sender: the index in it is
\* read against the list the client has by then, not the one the server had.
ChatsAttributed ==
    [][\A c \in Clients :
         (/\ client[c].status = "lobby" /\ toClient[c] # <<>>
          /\ Head(toClient[c]).type = "ChatBroadcast"
          /\ toClient'[c] = Tail(toClient[c]))
         => LET m == Head(toClient[c])
            IN  m.index \in DOMAIN client[c].list /\ client[c].list[m.index].id = m.from]_vars

\* The game takes names, colors and indices of the players from the list the
\* dialog showed last (GetPlayerList): it is the one the server plays with.
SamePlayersInGame ==
    \A c \in Clients : client[c].status = "game" =>
      /\ [i \in DOMAIN client[c].list |-> client[c].list[i].id] = inGame
      /\ inGame[client[c].index] = c

\* A player that is not the host sees the setting of the server, or is about to.
SettingsConverge ==
    server = "setup" =>
      \A c \in Clients \ Hosts : Present(c) =>
        LET coming == Coming(c, "SettingsUpdateBroadcast")
        IN  (IF coming = {} THEN client[c].allow ELSE Newest(c, coming).on) = allow

\* New connections wait exactly while the host forbids them or is ready, as
\* long as there is a host; in particular no host finds its room closed
\* against its settings.
PausedByHost == \A h \in Hosts : paused <=> (~allow \/ player[h].ready)

\* "Received StartGame by host, but not all players are ready. This can happen in
\* case of delays." with return false (HandleStartGame): the game does not start
\* unless everybody is ready.
StartsWhenReady == server = "started" => \A c \in Joined : player[c].ready

\* Once the server has started the game, every player gets into it or is lost;
\* once it has aborted, nobody stays in the room.
RoomEmpties ==
    \A c \in Clients :
      server # "setup" ~> client[c].status \notin {"connecting", "lobby"}

\* A client that goes away on purpose does not stay in the room as a player.
LeaversLeave ==
    \A c \in Clients :
      (IsJoined(c) /\ toServer[c] # <<>> /\ toServer[c][Len(toServer[c])].type = "Leave")
        ~> (~IsJoined(c) \/ server # "setup")
=============================================================================
