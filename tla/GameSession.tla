----------------------------- MODULE GameSession -----------------------------
(***************************************************************************)
(* From the start of the match to the game: the clients leave the lobby    *)
(* dialog, load their resources, and the server makes the map once all of  *)
(* them have told it that they are ready (Game::RunGameLoop with its       *)
(* handlers for the loading phase; LobbyDialog, RenderWindow and main() of *)
(* the client).                                                            *)
(*                                                                         *)
(* The server reads one connection after the other, and what a read has    *)
(* brought is handled at once.  Players are numbered by their index in the *)
(* game.  What the game itself is about (GameServer) is left out but for   *)
(* one command: that a player deletes the last object it has.              *)
(***************************************************************************)
EXTENDS Integers, Sequences, FiniteSets, SequencesExt

CONSTANTS
    Seats,          \* number of players
    maxLoadingStep,
    Host,           \* the player whose program has started the server
    Fragile         \* players whose program may stall, fail to load, crash or be closed

ASSUME SeatsAssumption == Seats \in Nat \ {0} /\ maxLoadingStep \in Nat

Sitters == 1 .. Seats

VARIABLES
    game,       \* the server's part
    turn,       \* the player whose connection is read next, 0 when the server is gone
    toGame,     \* what each client has written and the server will read
    window      \* each client

gameSessionVars == <<game, turn, toGame, window>>

News(type, player) == [type |-> type, player |-> player]

(***************************************************************************)
(* The server.  game is [isConnected, finishedLoading: sets of players,    *)
(* map: whether there is one, shouldExit, sent: what is written to each    *)
(* client and not handled]; a handler returns the game after it.           *)
(***************************************************************************)
Closed(p) == window[p].at = "closed"

\* What is written to a client that is gone is lost.
WriteTo(s, players, m) ==
    [s EXCEPT !.sent = [p \in Sitters |->
       IF p \in players /\ ~Closed(p) THEN Append(@[p], m) ELSE @[p]]]

\* Players that were removed are written to as well.
HandleLoadingProgress(s, p) == WriteTo(s, Sitters \ {p}, News("LoadingProgressBroadcast", p))

StartGame(s) == [WriteTo(s, Sitters, News("GameBegin", 0)) EXCEPT !.map = TRUE]

HandleLoadingFinished(s, p) ==
    LET marked == [s EXCEPT !.finishedLoading = @ \cup {p}]
    IN  IF p \in s.finishedLoading THEN s
        ELSE IF marked.finishedLoading = Sitters THEN StartGame(marked)
        ELSE marked

\* Mutant: who still loads is not told.
RemoveTellingPlayers(s, p, reason) ==
    LET rest == s.isConnected \ {p}
        told == (rest \cap s.finishedLoading) \cup (IF reason = "Defeat" THEN {p} ELSE {})
    IN  [WriteTo(s, told, News("PlayerLeaveBroadcast", p)) EXCEPT
           !.isConnected = rest,
           !.shouldExit  = @ \/ Cardinality(rest) <= 1]

RemoveFromSession(s, p, reason) ==
    LET rest == s.isConnected \ {p}
        told == rest \cup (IF reason = "Defeat" THEN {p} ELSE {})
    IN  [WriteTo(s, told, News("PlayerLeaveBroadcast", p)) EXCEPT
           !.isConnected = rest,
           !.shouldExit  = @ \/ Cardinality(rest) <= 1]

\* A player that is removed while its messages are handled loses the others.
HandleClientMessage(s, p, m) ==
    IF p \notin s.isConnected THEN s
    ELSE CASE m = "LoadingProgress" -> HandleLoadingProgress(s, p)
           [] m = "LoadingFinished" -> HandleLoadingFinished(s, p)
           [] m = "DeleteObject"    -> RemoveFromSession(s, p, "Defeat")
           [] m = "Leave"           -> s

\* What has been read is handled, one message after the other.
HandleMessages(s, p, read) ==
    LET after[n \in 0 .. Len(read)] ==
          IF n = 0 THEN s ELSE HandleClientMessage(after[n - 1], p, read[n])
    IN  after[Len(read)]

NextTurn(s) ==
    turn' = IF turn < Seats THEN turn + 1 ELSE IF s.shouldExit THEN 0 ELSE 1

\* One pass of the loop over the connections: what has arrived is handled; a player
\* that leaves, whose socket is found closed once all is read, or that has sent no
\* ping for too long, is removed, maybe for the second time.
ReadConnection(p, read, lost) ==
    LET handled == HandleMessages(game, p, read)
        leaves  == p \in handled.isConnected /\ Contains(read, "Leave")
    IN  /\ turn = p /\ p \in game.isConnected
        /\ game' = IF lost THEN RemoveFromSession(handled, p, "Drop")
                   ELSE IF leaves THEN RemoveFromSession(handled, p, "Resign")
                   ELSE handled
        /\ NextTurn(game')
        /\ toGame' = [toGame EXCEPT ![p] = IF p \in game'.isConnected
                                              THEN SubSeq(@, Len(read) + 1, Len(@)) ELSE <<>>]
        /\ UNCHANGED window

ReadSome(p) ==
    \E n \in 0 .. Len(toGame[p]) :
      /\ n < Len(toGame[p]) \/ Closed(p)
      /\ ReadConnection(p, SubSeq(toGame[p], 1, n), FALSE)

ReadAll(p) == ReadConnection(p, toGame[p], Closed(p))

\* The ping time-out.  The socket stays open: the program may go on and is still
\* written to, but nothing it says is read any more.
ReadTooLate(p) ==
    /\ p \in Fragile
    /\ \E n \in 0 .. Len(toGame[p]) : ReadConnection(p, SubSeq(toGame[p], 1, n), TRUE)

PassOver(p) ==
    /\ turn = p /\ p \notin game.isConnected
    /\ NextTurn(game)
    /\ UNCHANGED <<game, toGame, window>>

\* The server is a process of the host's program, and ends with it.
HostEndsServer ==
    /\ turn # 0 /\ Closed(Host)
    /\ turn' = 0
    /\ UNCHANGED <<game, toGame, window>>

(***************************************************************************)
(* A client: the dialog, then the window with its loading thread.          *)
(***************************************************************************)
In(p, places) == window[p].at \in places

\* What a removed player writes is never read.
WriteGame(p, m) ==
    toGame' = IF p \in game.isConnected THEN [toGame EXCEPT ![p] = Append(@, m)] ELSE toGame
Unwritten == UNCHANGED <<game, turn, toGame>>
Discard(p, n) == game' = [game EXCEPT !.sent[p] = SubSeq(@, n + 1, Len(@))]

\* Mutant: of several messages that have arrived together, the last one is handled.
CloseDialogAtLast(p) ==
    /\ In(p, {"lobby"}) /\ game.sent[p] = <<News("StartGameBroadcast", 0)>>
    /\ Discard(p, 1)
    /\ window' = [window EXCEPT ![p].at = "loading"]
    /\ UNCHANGED <<turn, toGame>>

LeaversAmong(messages) ==
    {q \in Sitters : Contains(messages, News("PlayerLeaveBroadcast", q))}

\* StartGameBroadcast closes the dialog, which clears all that has arrived with it.
CloseDialog(p) ==
    \E n \in 1 .. Len(game.sent[p]) :
      /\ In(p, {"lobby"})
      /\ Discard(p, n)
      /\ window' = [window EXCEPT ![p].at = "loading",
                                  ![p].missed = LeaversAmong(SubSeq(game.sent[p], 1, n))]
      /\ UNCHANGED <<turn, toGame>>

Opened(at) == [at |-> at, loadingStep |-> 0, loaded |-> FALSE, gameBegun |-> FALSE,
               left |-> {}, missed |-> {}]

Close(p) ==
    /\ window' = [window EXCEPT ![p] = Opened("closed")]
    /\ Discard(p, Len(game.sent[p]))
    /\ UNCHANGED turn

\* The program ends, and says so as the last thing.
Quit(p) == WriteGame(p, "Leave") /\ Close(p)

\* The loading thread reports with signals that the main thread takes in their order,
\* so what is sent to the server is in their order as well.
Loads(p) == In(p, {"loading"}) /\ ~window[p].loaded

DidLoadingStep(p) ==
    /\ Loads(p) /\ window[p].loadingStep < maxLoadingStep
    /\ window' = [window EXCEPT ![p].loadingStep = @ + 1]
    /\ WriteGame(p, "LoadingProgress")
    /\ UNCHANGED <<game, turn>>

LoadingSucceeds(p) ==
    /\ Loads(p) /\ window[p].loadingStep = maxLoadingStep
    /\ window' = [window EXCEPT ![p].loaded = TRUE]
    /\ WriteGame(p, "LoadingFinished")
    /\ UNCHANGED <<game, turn>>

\* The error is shown, and then the window closes.
LoadingFails(p) ==
    /\ p \in Fragile
    /\ Loads(p) /\ window[p].loadingStep < maxLoadingStep
    /\ Quit(p)

\* A frame after the time at which the game starts.
ShowGame(p) ==
    /\ In(p, {"loading"}) /\ window[p].gameBegun
    /\ window' = [window EXCEPT ![p].at = "playing"]
    /\ Unwritten

HandleServerMessage(p) ==
    /\ In(p, {"loading", "playing"}) /\ game.sent[p] # <<>>
    /\ LET m == Head(game.sent[p])
       IN  window' = CASE m.type = "LoadingProgressBroadcast" -> window
                       [] m.type = "GameBegin" -> [window EXCEPT ![p].gameBegun = TRUE]
                       [] m.type = "PlayerLeaveBroadcast" ->
                            [window EXCEPT ![p].left = @ \cup {m.player}]
    /\ Discard(p, 1)
    /\ UNCHANGED <<turn, toGame>>

\* The user closes the dialog or the window, or deletes the last object it has.
UserQuits(p) ==
    /\ p \in Fragile /\ ~Closed(p)
    /\ Quit(p)

UserDeletes(p) ==
    /\ p \in Fragile /\ In(p, {"playing"}) /\ ~Contains(toGame[p], "DeleteObject")
    /\ p \notin window[p].left
    /\ WriteGame(p, "DeleteObject")
    /\ UNCHANGED <<game, turn, window>>

\* The connection breaks: the last messages are lost.
Crash(p) ==
    /\ p \in Fragile /\ ~Closed(p)
    /\ \E n \in 0 .. Len(toGame[p]) : toGame' = [toGame EXCEPT ![p] = SubSeq(@, 1, n)]
    /\ Close(p)

SessionInit ==
    /\ game = [isConnected |-> Sitters, finishedLoading |-> {}, map |-> FALSE,
               shouldExit |-> FALSE,
               sent |-> [p \in Sitters |-> <<News("StartGameBroadcast", 0)>>]]
    /\ turn = 1
    /\ toGame = [p \in Sitters |-> <<>>]
    /\ window = [p \in Sitters |-> Opened("lobby")]

ServerReads ==
    \E p \in Sitters : ReadSome(p) \/ ReadAll(p) \/ ReadTooLate(p) \/ PassOver(p)

ClientRuns(p) ==
    \/ CloseDialog(p) \/ DidLoadingStep(p) \/ LoadingSucceeds(p) \/ LoadingFails(p)
    \/ ShowGame(p) \/ HandleServerMessage(p)

UserActs(p) == UserQuits(p) \/ UserDeletes(p) \/ Crash(p)

SessionNext ==
    \/ ServerReads \/ HostEndsServer
    \/ \E p \in Sitters : ClientRuns(p) \/ UserActs(p)

(***************************************************************************)
(* The loop of the server goes on, each thread of a client as well, and    *)
(* what is sent is read at some time.                                      *)
(***************************************************************************)
SessionFairness ==
    /\ WF_gameSessionVars(ServerReads)
    /\ \A p \in Sitters : /\ WF_gameSessionVars(ClientRuns(p))
                          /\ SF_gameSessionVars(ReadAll(p))

SessionSpec == SessionInit /\ [][SessionNext]_gameSessionVars /\ SessionFairness
-----------------------------------------------------------------------------
\* Who sees the game, or gives a command in it, does so on a map that the server has,
\* with everybody who is still there ready; and what the dialog of a client may
\* discard is never the beginning of the game.
NobodyAhead ==
    \A p \in Sitters :
      /\ In(p, {"playing"}) => game.map /\ game.isConnected \subseteq game.finishedLoading
      /\ Contains(toGame[p], "DeleteObject") => game.map
      /\ In(p, {"lobby"}) => ~Contains(game.sent[p], News("GameBegin", 0))

\* A client that has handled all it was sent shows exactly those players as gone that
\* the server has removed, whatever was lost, unless the news of it had arrived in
\* the lobby dialog (missed).
ShowsWhoIsLeft ==
    \A p \in game.isConnected :
      In(p, {"loading", "playing"}) /\ game.sent[p] = <<>>
        => window[p].left = (Sitters \ game.isConnected) \ window[p].missed

\* Through drops, crashes and departures of players in whatever phase, what the clients
\* do and show agrees with the server.
SessionConsistent == NobodyAhead /\ ShowsWhoIsLeft

\* Every client gets into the game.  It waits forever in two cases only: when the server
\* is gone, and when a player was removed that had not finished loading, for whom
\* the server waits.
LoadingEnds ==
    <>(\/ \A p \in Sitters : In(p, {"playing", "closed"})
       \/ turn = 0
       \/ ~(Sitters \subseteq (game.isConnected \cup game.finishedLoading)))
=============================================================================
