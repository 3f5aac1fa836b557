# FreeAge in TLA+

FreeAge is an engine for a real-time strategy game with a dedicated server. The
server (`src/src/FreeAge/server`) is authoritative: it runs the room in which a
match is set up, then simulates the match at 30 game steps per second. The
clients (`src/src/FreeAge/client`) send commands over one TCP stream each and
draw what the server tells them. This directory holds TLA+ models of that
logic, TLC runs on small instances, and proofs.

All paths below are relative to `src/src/FreeAge/`.

## 1. Inventory

| Component | State | Operations | Talks to | What is hard |
|---|---|---|---|---|
| **Match setup** `server/match_setup.cpp`, `server/main.cpp` | `playersInMatch` (connection, state, host flag, color, ready), `ServerSettings` (accepting allowed / paused) | accept, the handlers for HostConnect, Connect, SettingsUpdate, ReadyUp, Chat, Leave, StartGame, time-outs, hand-over to the game | one stream per lobby dialog, `Game` | indices refer to a list that changes; the host may vanish; host flags come in separate messages |
| **Lobby dialog** `client/lobby_dialog.cpp`, `client/main.cpp` | player list, own index, check boxes | clicks, message parser, `GetPlayerList` for the match | server stream, `GameController` | list and chat arrive asynchronously; echo of a settings change |
| **Match simulation** `server/game.cpp`, `unit.cpp`, `building.cpp`, `object.cpp` | `Game`: players, delete list, `shouldExit`; units with action, target, manual target, load; buildings with queue and progress | eight command handlers, one game step (attack, walk, construct, gather, drop off, produce), deletion, defeat | clients (accumulated messages), `ServerMap`, `PlayerStats` | objects are deleted at once in the books and at the end of the step on the map; objects of a step are visited in hash order, and the table may be rehashed during it |
| **Map** `server/map.cpp` | object table, next ID, occupancy | add an object, occupancy, collision tests, generation | simulation, pathfinding | foundations do not occupy their tiles |
| **Player statistics** `common/player.cpp` | incremental counters per player | added / removed / transformed / finished | server and client | never recounted: an error stays |
| **Resources and types** `common/resources.hpp`, `*_types.cpp` | none | can afford, pay, refund, interaction type | simulation | unsigned, rounding |
| **Loading phase** `server/game.cpp`, `client/main.cpp`, `render_window.cpp` | players that have finished loading; the loading thread of each client | progress, end of loading, start of the game when the last one is ready, removal of players | lobby dialog, clients | connections are read one after the other; a player drops, twice even, while others wait |
| **Pathfinding** `server/pathfinding.cpp` | none kept | search on the tile grid, path simplification | simulation | directions are pruned, corners cut, goals unreachable |
| **Server connection** `client/server_connection.cpp` | socket, receive buffer, list of received messages, ping queue, clock offset | connect, read, ping, shut down, in a thread of its own | server, dialogs, controller | two threads and a mutex; half a message, a second attempt, late signals |
| **Game controller, client objects, client map** `client/game_controller.cpp`, `match.cpp`, `object.cpp`, `unit.cpp`, `building.cpp`, `map.cpp` | mirror of the objects, resources, queues and counters; how many own objects see each tile | one handler per server message, applied at its game time | server connection, window | messages of several steps, half handled; nothing is ever recounted |
| **User input** `client/render_window.cpp`, `command_button.cpp` | selection, control groups, command buttons, construction mode, drag, menu | events of mouse and keyboard, each frame | client map, server stream | what was selected, shown or pressed may be gone when it is used |
| **Sprites** `client/sprite.cpp`, `sprite_atlas.cpp` | frames and layers, packing of each sprite and its cache file | decompress, combine layers, search the texture size, load and save the cache | window, packer | in-place filters, bit-packed pixels, a cache file of an interrupted run |
| **Rectangle packing** `RectangleBinPack/` | used and free rectangles | insert one, insert many | sprites | the list of maximal free rectangles |
| **Message encoding** `common/messages.cpp` | none | serialisation | all | no decisions |
| **Game data, timing, logging** `common/` | tables | loading | all | file formats |
| **Rendering, widgets, mods** `client/` | graphics state | drawing | Qt, OpenGL | nothing the match depends on |

What makes the components correct, in a sentence each:

- *Match setup and lobby*: everybody has the same list of players as the server
  or will get it, one host, distinct colors, accepting follows the host's
  settings, a started game is entered by all with the server's player indices,
  and an aborted room is left by all.
- *Match simulation*: no building is built over another, the population cap holds, nobody
  gets resources for nothing, the counters agree with the map, clients learn of
  every object they may see, a player is out exactly when it has nothing left or
  has gone, and the match ends when it is decided.
- *Loading phase*: no client is ahead of the server's map, all clients agree
  with the server on who is left, and loading ends for everybody.
- *Client mirror*: what is shown is at every time a state the server was in, in
  order, and the outcome shown is the one that happened.
- *Connection*: every message is handled once and in order, the threads never
  wait for each other, a loss is noticed, the displayed time never jumps.
- *Window and fog*: orders name what exists and what the player owns; the fog is
  that of the own objects.
- *Pathfinding, map, sprites, packing*: paths are shortest and free of
  obstacles; nothing on a new map overlaps but town centers; the sprite that is
  drawn is the one in the file.

`PROJECT.json` lists under `hazards` the places of the code where these can fail
in ways a unit test would hardly find, with the property that watches each. Three
have none, since the code does go wrong there and no text of the repository says
that it does not: messages for a building that is deleted already
(`game.cpp:493`), players that wait for one who has gone (`game.cpp:146`), and a
host that is lost while it pauses the room (`match_setup.cpp:459`). The properties
around them name these cases as exceptions and would not notice more going wrong
in them.

## 2. Modules

```
PlayerStats ── GameState ─┬─ GameCommands ─┐
                          └─ GameStep ─────┴─ GameServer ─┬─ MCGame              (TLC)
                                                          ├─ GameServerProofs ─┐
                               DelayedCopy <··implements·· └─ ClientMatch ──────┼─ ClientMatchProofs (TLAPS)
                                                                               └─ MCMatch (TLC)
GameSession ─┬─ MCMatch           (TLC)
             └─ GameSessionProofs (TLAPS)
Lobby ─┬─ MCLobby     (TLC)
       └─ LobbyProofs (TLAPS)

Pathfinding, MapGeneration, ServerConnection, TimeSync,        ┐
GameWindow, FieldOfView, MaxRects ─┬─ MaxRectsBinPack,         ├─ MCParts (TLC)
                                   └─ SpriteAtlas, SpriteLayers ┘

MapGeneration + Pathfinding ── MapProofs, ServerConnection + TimeSync ── ConnectionProofs,
GameWindow + FieldOfView + MaxRectsBinPack + SpriteAtlas + SpriteLayers ── DisplayProofs  (TLAPS)
Induction: sums and finite sets, for GameServerProofs, LobbyProofs, MapProofs,
           GameSessionProofs, ConnectionProofs, DisplayProofs
```

### The match: PlayerStats, GameState, GameCommands, GameStep, GameServer

`PlayerStats` has the counters as a record; each operator is the method of its
name. `GameState` declares the state of `Game` and its players and objects and
the helpers both halves of the loop use: interaction types, `SetTarget`, refunds,
`DeleteObject`, `RemovePlayer`. `GameCommands` has one action per message
handler, with the checks of the handler as its guard; rejected messages change
nothing, and are not actions. `GameStep` has the branches of one object's visit.
`GameServer` puts them into `RunGameLoop`.

| Variable | In the code |
|---|---|
| `objects`, `nextObjectID` | `ServerMap::objects`, `nextObjectID` |
| `occupied` | `ServerMap::occupiedForBuildings` |
| `objectDeleteList` | `Game::objectDeleteList` |
| `resources`, `stats`, `connected` | `PlayerInGame` of each player |
| `exitReason`, `shouldExit` | the last PlayerLeave broadcast of a player; `Game::shouldExit` |
| `known` | for each client, the objects for which AddObject has been sent and ObjectDeath has not |
| `phase`, `todo` | where `RunGameLoop` stands; the iterator of `SimulateGameStep` |

One action is one command of one client, or the whole visit to one object. This
is the grain of the program: the server is one thread, so nothing comes between
the statements of a handler; what is nondeterministic is which messages have
arrived when the loop polls, which order the hash table has, and how far a step's
geometry takes a unit.

Abstractions, chosen by what the properties can tell apart:

- *Geometry.* A tile is a value and a building type has a set of possible
  footprints. Whether a unit touches its target, whether it is blocked by a unit
  and how far it gets is open in every visit (`Walk`, `BeginAttack`,
  `ConstructionBlocked`, ...). So every pathfinding result is allowed, and
  nothing that depends on one is claimed.
- *Kinds.* One representative for each behaviour: `Villager`, `Builder`,
  `Lumberjack` (all genders and gatherers), `Militia` (all fighters),
  `TownCenter`, `House`, `Barracks`, `Tree`. There is one resource. Costs, hit
  points and durations are constants; an attack takes one hit point; percentages
  and animations count game steps.
- *Current action.* Idle, Moving and Task make a difference only on screen. What
  the simulation reads is whether the action is `Attack`.
- *Objects without work* (no goal, empty queue) are not visited: their visit
  changes nothing. `todo` holds the others.
- *Rehash.* `ProduceUnit` inserts into the `unordered_map` that
  `SimulateGameStep` iterates over. If the map is rehashed, the objects still to
  come are any subset of the busy ones.
- *Left out*: the housed notification (`isHoused`, `wasHousedBefore`; it is in
  `ClientMatch`), counters that are only logged (`unitsDied`,
  `buildingExisted`), `BuildingTransformed`, which nothing calls, Gaia's
  counters and chat. That `RemovePlayer` may be called a second time, for a
  player whose own command defeated it in the turn in which its connection is
  found broken, is in `GameSession` and not here.
- *Messages*: only what they make a client know is kept (`known`); they are in
  `ClientMatch`.

### The room: Lobby

A client stands for one connection; who connects again is another client.
`toServer` and `toClient` are the two TCP streams of a connection. The server's
part has one action per handler of `RunMatchSetupLoop`, which includes all the
broadcasts of the handler. The client's part is the message parser of
`LobbyDialog` (`Receive`), and one action per click. A connection may break or time
out at any moment (`Break`, `TimeOut`), which loses what is in flight; pings only
appear as that time-out. Names, chat texts, the announcements the server makes in
the chat, and the map size are left out. `HandleStartGame` is modelled with what
`main()` does next: connections that have not joined are dropped and the others
get their index.

### From the lobby to the game: GameSession

Everything that happens between the start of the match and the first frame of
the game, for all clients at once: `game` is the server's part (`PlayerInGame`
and what is written to each socket), `toGame` what each client has written,
`window` each client: in the lobby dialog, loading, playing or gone. `turn` is
the loop over the connections in `RunGameLoop`: a player's messages are read,
some of them or all, handled in order, and the player is removed at the end of
its turn if it has left, its socket is closed or its pings are late
(`ReadTooLate`), be it for the second time. After a time-out the socket stays open:
the client goes on, is written to, and is not read any more. Any client in
`Fragile` may stall for so long. The client has the dialog's end (`CloseDialog`, which throws away what came along),
the loading thread, whose signals the main thread sends on in order, the loading
screen, and the ends of its program: regular, by an error, or by a crash that
loses the last messages. The host's program takes the server with it
(`HostEndsServer`). Of the game itself only one command is left: deleting the
last object, which defeats the player in the middle of its turn.

### A match and its client: ClientMatch, DelayedCopy

`ClientMatch` extends `GameServer`. Each of its `Told_` actions is an action of
the server together with the messages it accumulates for one client, `me`; the
end of a step writes them behind the time of the step, while the news that a
player has left is written at once. One handler per message of `GameController`
changes the client's copy. `Advance` is a frame, `ParseMessagesUntil`: it
handles any prefix of the stream, so a step may be half handled when the frame
is drawn.

`DelayedCopy` is what a client promises: a copy that may be old and may skip,
but that is always one of the published states, never goes back, and gets to
each of them or past it. `ClientMatch` implements it (`ImplementsDelayedCopy`)
with `shown` the copy after the last whole step, and `pending` what the server
had at the end of the steps that are on their way: `INSTANCE DelayedCopy WITH
shown <- whole, pending <- published`.

### Parts on their own

These modules share no state with the match; `MCParts` puts their instances side
by side in one specification, in which a behavior is one of the part it starts
with.

| Module | Models | One action is |
|---|---|---|
| `Pathfinding` | `PlanUnitPath`: the A* search with its pruned directions, the way out when the goal cannot be reached, and the removal of corners with `IsPathFree`, which traces the four borders of a leg from tile to tile as the code does, with its emergency exit, its rounding towards zero and its clamping to the map. Costs are exact integers that order as the code's do; points are rounded to 1/2000 of a tile (`Grain`), more coarsely than floats are | a tile taken from the queue, a corner looked at |
| `MapGeneration` | `GenerateRandomMap` with clumps, hills and `DoesUnitCollide`; `rand()` may return anything, and the map may be smaller than the borders that town centers are to keep. Its loops are an agenda of things to place | a thing placed or given up, a ring of a hill |
| `ServerConnection` | the network thread and the main thread with their blocking calls, signals, mutex and timers, from the first attempt to the game; messages arrive in two parts | a step of one thread between two points where the other can see it |
| `TimeSync` | the estimate of the server's clock | a ping response in its two parts, a frame, a tick |
| `GameWindow` | selection, control groups, command buttons, construction mode, queue icons, dragging, the menu, and the orders these send; an event says what is under the cursor: nothing on the map, a place, or an object in sight, in the case of a building one that was seen before and is in the fog now | an event, or a frame with news of the match |
| `FieldOfView` | the view counts of the tiles and the rectangle of the fog texture to be refreshed | an object appearing, walking, completed, dying; a frame |
| `MaxRects`, `MaxRectsBinPack` | the packer with all of its heuristics: pure operators, and the calls | an insertion |
| `SpriteAtlas` | the search for a texture size and the cache file, with runs that end while writing it and sprites that are replaced | a step of loading, a part of the file written |
| `SpriteLayers` | decompression of SMX and SMP layers, the shadow behind the graphic, the outline. The code does not check that the pixels of a row fit into it, nor that commands and data suffice: files in which they do not are left out | a command, a pixel |

## 3. Runs

Every pass run is exhaustive within its bounds. Each property has a mutant in
`PROJECT.json`: a plausible bug in one mapped definition, under which the same run
finds that property violated. The mutated definitions stand in the modules above
the definition they replace, marked `Mutant`.

| Run | Instance | Shows |
|---|---|---|
| `game_Production` | town center and barracks of one player, a second player that may resign; room for one unit, queues of two, three steps to produce | types; the counters follow the map, the cap holds, resources are conserved; a started production ends |
| `game_Economy` | a villager, a tree, a drop-off point and two overlapping sites for foundations, an enemy's town center that stands over that of the player and over a site; all may be deleted | no two buildings share a tile but those that the two town centers share from the start; counters and resources as above with construction, gathering and partial refunds |
| `game_Combat` | two warriors against a player with a villager and a house, and a third player that may drop | who has nothing left is out, and the match is over exactly when at most one is left |
| `match_Clients` | loading: three players, one of which may stall or fail in every way and is the host; match: a villager with a tree and a site, a town center that produces, a third player, the client of any of the three | clients and server agree on who is left and nobody is ahead of the map; loading ends; the client implements `DelayedCopy`, its counters are those of its objects, the outcome it shows is true, and the winner learns of it |
| `parts` | see below | a property or two for each part (table below) |
| `lobby_Room` | four connections, two of which know the host token; the first host may be lost at any time; one chat message | lists and own indices are right at the end of each stream, one host, distinct colors, each chat message under its sender's name |
| `lobby_Start` | a host and two players who join, change their minds and leave while the start is on its way | all enter the game with the server's list and their own index |
| `lobby_Pair` | a host and a player with all clicks and a loss, under fairness | accepting is paused exactly when it should be, the setting shown is the server's; nobody stays in a room that is over, and who leaves is removed |
| `game_StaleCounters`, `game_StuckTiles`, `game_OtherCommand`, `lobby_NotReady` | as above | a sentence of the sources that the code does not keep (next section) |

The properties of `parts`:

| Part | Property | Says |
|---|---|---|
| `Pathfinding` | `FindsBestPath`, `LegsClear` | a goal that can be reached is reached by a shortest way, else the closest tile is; a corner is cut only where the whole width of the unit finds room, whatever tiles the traced lines pass or miss, and no leg of a path leads the unit's middle through an obstacle, however many corners were cut |
| `MapGeneration` | `NothingOverlaps`, `SlopesGentle` | what is placed has tiles of its own, town centers excepted; neighboring corners differ by one at most, whatever hills overlap |
| `ServerConnection` | `NeverLockedOut`, `MessagesInOrder`, `LossNoticed` | the threads do not wait for each other; each message once, whole and in order, whatever an earlier attempt left behind; the connection is never unwatched in silence |
| `TimeSync` | `NoJumps` | two frames differ by what the smoothing allows, and what frames within an unprotected write count twice |
| `GameWindow` | `SelectionKnown`, `OrdersNameOwn` | what is selected is there; orders name own objects that exist |
| `FieldOfView` | `ViewCountsExact`, `FogStaleOnlyWhereChanged` | the count of each tile is that of the objects that see it; nothing changed is left out of the next refresh |
| `MaxRectsBinPack` | `FreeListExact` | the list holds exactly the maximal free rectangles |
| `SpriteAtlas` | `AtlasSound` | every frame drawn has its own place of its own size, whatever the cache went through |
| `SpriteLayers` | `LayersCombine` | the colors drawn are those that were compressed, the border stays empty, the shadow is made of shadow |

**Bounds.** `MaxObjects` limits the IDs ever given out; `IDsLeft` refuses orders
(units, foundations) that would need more. `MaxResources` refuses a drop-off
above it, `Commands` says who gives which commands, `MaxQueue` is the code's
limit made small. Five or six objects are enough for two buildings producing for
one player, for two overlapping foundations with a builder, and for two
attackers with the same victim; three or four steps of production or
construction are enough to have a first, a middle and a last one. In the room,
`Lossy` names the connections that may be lost and `MaxToggles` and `MaxChats`
bound the clicks; messages are not bounded otherwise. Four connections allow a
host, its successor and two players that leave and join around them.
`lobby_Room` uses symmetry in the two players without token, who are alike, and
checks no liveness. In `match_Clients` players give at most two commands
(`MaxOrders`) and the client is at most two steps behind (`MaxLag`): two
commands of different players meet in one step, and a frame handles parts of two
steps. Its loading phase has one loading step before the end, so that there is
progress to lose, and one `Fragile` player, who is the host as well; a third
player is needed for the match to go on without one. In `parts`, up to three of
twelve tiles are occupied for paths, which is enough for detours, for dead ends
and for goals that cannot be reached; the unit starts on the edge of a tile or in it,
and the goal is a tile or a building of two; in other searches, with up to two
occupied tiles, unit and goal lie beside the map or close to its border. `LegsClear` compares
with the tiles that the rectangle overlaps by more than the thousandth of a tile
that the code adds for rounding (`kErrorEpsilon`). `GameWindow` has no building of
another player in `parts`, where the instance would become too large; the theorems
hold with them. `game_Economy` has `MaxResources` 1, which is enough to
carry, drop off and be refunded, to have two sites and overlapping town centers. New maps are of 6 by 6 tiles, more
than their borders, with up to two town centers (smaller ones are the theorem's); a connection carries three messages (`MaxMessages`), sent while at
most one part of an earlier one is on the wire (`MaxOnWire`), with two attempts
to connect (`MaxAttempts`); the clock runs for six ticks (`MaxTime`); three
rectangles are packed (`MaxUsed`). No bound of them is the code's. The 205,643
states of `match_Clients` and the 754,601 of `parts` take about three minutes
each. `parts` uses a VIEW without the orders that were sent, which no action
reads and a property sees in the step that sends them. Deadlock checking is off
since a server that has exited does nothing more.

**Fairness** (`game_Production`, `lobby_Pair`, `match_Clients`). The game loop
is one thread that never waits for anybody: weak fairness for the end of
polling, for visiting some object of the current step, and for the end of the
step. Strong fairness for beginning a step and for ending the iteration: both
are enabled together whenever the loop looks at the clock, and the clock makes
both happen again and again as long as a step takes less than its share of a
second, which the code assumes (TODO at `server/game.cpp:82`). No command is
ever forced. In the room the server polls every connection, TCP delivers, and
Qt's event loop handles what arrives: weak fairness for `Handler`, `Receive` and
`NoticeLoss` of each client; no click is fair, and neither is accepting. While a
match is loading the server's loop goes on (weak fairness for `ServerReads`),
each client's event loop and loading thread do (weak fairness for `ClientRuns`
of each client; a user who is shown an error message confirms it), and a read of
a socket that happens again and again gets all there is at some time (strong
fairness for `ReadAll`: TCP delivers). In the match a client draws frames, and
its clock passes every step (weak fairness for `Advance`); `WinnerLearns` and
`ImplementsDelayedCopy` need nothing of the server.

**The delayed deletion.** `DeleteObject` takes an object off the counters, gives
back what is due and frees its tiles at once, but the object stays in the table
until `EndStep`, and whatever visits it before acts on it as usual.
`TouchesDoomed` is exactly this, and `StatsFollowObjects`, `PopulationCapped`
and `NoFreeResources` except steps with it: all other steps of the match are
shown to keep the books. What happens to counters and tiles in the excepted steps
is shown by the violation runs; that resources are made in them
(`game.cpp:493`) is not the subject of any run.

## 4. Where sources and code disagree

- `StatsReproducible` (`player.hpp:12`): a production or a construction that starts
  or ends on an object that is already deleted is booked, and stays booked.
- `NoStuckTiles` (`game.cpp:1507`): a foundation that is deleted and then started by
  a villager in the same step takes its tiles and is erased without giving them
  back. The same window shows it to the other clients after its death was
  decided.
- `FollowsOtherCommand` (`game.cpp:885`): after an attack the unit heads for its
  manual target, but since its action is still `Attack`, `SetTargetInternal` leaves
  the old `targetObjectId` in place.
- `StartsWhenReady` (`match_setup.cpp:337`): the handler returns false if a player
  is not ready; its result is dropped and the game starts.

`PausedByHost` is checked with one holder of the host token. With two it fails: a
host that is lost while it was ready leaves accepting paused for its successor.
No text of the repository promises otherwise, so it is a hazard with a note.

Other places where the code does what a reader may not expect, found while
modelling. No text of the repository says otherwise, or it says so in a TODO, so
there is no run for them; the properties name them as exceptions where they
matter.

- A foundation that is deleted and started in the same step is shown to the
  other clients and never taken away (`strays` in `ClientMatch`).
- `HandleChangeUnitTypeMessage` (`game_controller.cpp:481`) counts villagers of
  other players in the client's own counters when they change their type
  (`CountersMatchMirror` leaves that one counter out).
- The lobby dialog discards a PlayerLeaveBroadcast that arrives together with
  StartGameBroadcast: the client shows that player as playing (`missed` in
  `GameSession`).
- The lobby takes any map size from 10 to 99999 (`lobby_dialog.cpp:71`) and the
  server does not look at it again. Town centers are placed on a rectangle that is
  12 tiles inside the map (`map.cpp:54`). With a size of 24 the rectangle is a point,
  and `map.cpp:68` divides by zero: `PlaceTownCenter` cannot be taken. Below 24 its
  edges are negative, and town centers may come to stand off the map (on one of 20
  tiles already); their occupancy is written without a check, to the tile at the
  other side of the map or outside the array. `Stored` does the former; the latter is undefined in the code and
  lost in the model. `NothingOverlaps` excepts the tiles of town centers on such a map.
- Town centers are placed without a look at the map (`map.cpp:65`), so two of them
  may overlap. When one of the two is deleted, `SetBuildingOccupancy` frees the tiles
  that the other one stands on, and foundations may be built there. `NothingOverlaps`
  and `OccupancyExclusive` except these tiles (`Contested`).
- A client whose pings are late is removed, but its socket is not closed
  (`game.cpp:71`): it goes on, gets what the loading phase tells everybody, and what
  it says is not read.
- A player that is removed before it has finished loading keeps the others
  waiting (TODO at `game.cpp:1598`). With two players the other one wins in its
  loading screen.
- The tile a unit stands on is never the closest one to a goal that cannot be
  reached, and if no tile is reached at all the search hands over an empty path
  (`GiveUp`, `SetPath` in `Pathfinding`).
- Construction mode survives a change of the selection, so a foundation may be
  ordered to be built by another player's villager; queue icons and command
  buttons may be older than the selection (`OrdersNameOwn`). The server checks
  the owner.
- The timers of a connection are never stopped when another one is made
  (`TimersRunning` in `ServerConnection`).
- The time of the last ping response is written after the mutex has been given
  back (`server_connection.cpp:279`): a frame drawn in between counts an
  interval twice. Two such frames in a row may be off into opposite directions
  (`NoJumps`).

## 5. Proofs

TLAPS proves, for every value of the constants:

| Theorem | Statement |
|---|---|
| `GameServerProofs!MatchInvariant` | `Spec => []MatchInv` |
| `GameServerProofs!TypesOfTheMap` | `MapOK` and `PlayersOK`, the parts of `TypeOK` about map and players |
| `GameServerProofs!NoOverlap` | `OccupancyExclusive` |
| `GameServerProofs!NobodyWithoutObjects` | `StillThere` |
| `GameServerProofs!EndsWhenDecided` | `ExitIffDecided` |
| `GameServerProofs!TypesAlwaysRight` | `TypeOK` |
| `GameServerProofs!CountersFollowObjects` | `StatsFollowObjects`, an action property |
| `GameServerProofs!PopulationNeverForced` | `PopulationCapped`, an action property |
| `GameServerProofs!WealthIsEarned` | `NoFreeResources`, an action property |
| `ClientMatchProofs!OutcomeAlwaysTrue` | `OutcomeTrue`, of `MatchSpec` |
| `ClientMatchProofs!CountersAlwaysMirror` | `CountersMatchMirror`, of `MatchSpec` |
| `ClientMatchProofs!CopyAlwaysPublished` | `MatchSpec => Copy!CopySafety`: the refinement `ImplementsDelayedCopy`, but for its fairness |
| `LobbyProofs!RoomInvariant` | `Spec => []RoomInv` |
| `LobbyProofs!OneHost` | `AtMostOneHost` |
| `LobbyProofs!DistinctColors` | `ColorsDistinct` |
| `LobbyProofs!ViewInvariant` | `Spec => [](EntryInv /\ ViewInv)` |
| `LobbyProofs!ListsAlwaysConverge` | `ListsConverge` |
| `LobbyProofs!SettingsAlwaysConverge` | `SettingsConverge` |
| `LobbyProofs!AlwaysSamePlayers` | `SamePlayersInGame` |
| `LobbyProofs!ChatsAlwaysAttributed` | `ChatsAttributed`, an action property |
| `LobbyProofs!AlwaysPausedByHost` | `PausedByHost`, if a holder of the token that may be lost is the only holder |
| `GameSessionProofs!SessionStaysConsistent` | `SessionConsistent` |
| `ConnectionProofs!ClientNeverLockedOut` | `NeverLockedOut` |
| `ConnectionProofs!LossAlwaysNoticed` | `LossNoticed` |
| `ConnectionProofs!MessagesAlwaysInOrder` | `MessagesInOrder` |
| `ConnectionProofs!TimeNeverJumps` | `NoJumps`, an action property |
| `DisplayProofs!SelectionAlwaysKnown` | `SelectionKnown` |
| `DisplayProofs!OrdersAlwaysNameOwn` | `OrdersNameOwn`, an action property |
| `DisplayProofs!ViewCountsAlwaysExact` | `ViewCountsExact` |
| `DisplayProofs!FogUpToDate` | `FogStaleOnlyWhereChanged` |
| `DisplayProofs!FreeListAlwaysExact` | `FreeListExact` |
| `DisplayProofs!AtlasAlwaysSound` | `AtlasSound` |
| `DisplayProofs!LayersAlwaysCombine` | `LayersCombine` |
| `MapProofs!HillsStayGentle` | `SlopesGentle` |
| `MapProofs!EverythingHasItsPlace` | `NothingOverlaps` |
| `MapProofs!LegsAlwaysTested` | `PlanSpec => []LegsTested`: what of `LegsClear` does not depend on the tracing |
| `MapProofs!PathsAlwaysBest` | `FindsBestPath` |

### The match

The assumptions are `GameAssumption` and `PopulationSpaceAssumption`: the players
are finitely many and do not include Gaia, the start map has an object for each
player, and Gaia owns no units. Its buildings may overlap.

*The map.* The inductive invariant `MatchInv` joins the types, `OccupancyExclusive`,
`StillThere` and `ExitIffDecided` with two facts that the code relies on without
saying so. `AttacksPlayers`: the target of a unit that attacks belongs to a
player; otherwise an attack could delete an object of Gaia, and `DeleteObject`
books a deletion on a player. `GaiaIdle`: what Gaia owns has no production
queue; otherwise a unit without a player would be produced. `OccupancyExclusive`
is inductive with the types: freeing the tiles of a deleted building harms no
other building because none shares them, but for the tiles that two buildings of the
start map share (`Contested`, which is fixed by the constants), and a foundation is
started only where nothing is occupied. So whoever stands on a tile that is not
contested stands there alone, also when a contested tile has been freed and built upon. `StillThere` needs that a deletion that leaves a player
nothing is the one that removes it, also when the deleted object waits on the
list already. A command and an attack call `DeleteObject`, and most actions
change objects in place, so the first lemmas are about `DeleteObject` and about
what may take the place of an object (`Fits`); each command, each branch of a
visit and the end of the step then get a lemma of their own.

*The books.* `MatchInv /\ BooksOK` is the invariant of the bookkeeping;
`BooksOK` are the types of the resources, of the counters and of what clients
know. The counters are records of integers, since nothing in the code stops one
from becoming negative; that none does while they are right follows from
`StatsFollowObjects`. The proof of `StatsFollowObjects` states a recount as
cardinalities (`Counted`) and one sum (`Tally`) over the objects of a player
that are not deleted. A step that adds, takes away or replaces one object
changes a `Tally` by what that object counts, and every operator of
`PlayerStats` changes the counters by the same amount; a lemma per command and
per branch of a visit says which object it is. An object that was deleted already
is the exception: `DeleteObject` has booked it, and what is booked on it again is
in no recount. The property excepts it (`TouchesDoomed`), and the run
`game_StaleCounters` shows that it happens. `PopulationCapped` needs in addition
that of all steps only the start of a production adds to what a player has to
house (`Load`): the code checks the space then, and the finished unit takes the
place of its production.
`NoFreeResources` is proved in the same way with the wealth as a sum (`Worth` of
an object, `Holdings` of a player): no step but gathering makes the sum over stock
and objects larger, so whatever is refunded was paid, and not refunded before. It
needs that a refund becomes smaller with each percent that is built, also after
the rounding of the code (`RefundShrinks`), and that the cost of a queue is a sum
from which taking an entry out subtracts its cost (`QueueCostShortened`).

*What a client is told.* `OutcomeTrue` is a property of `ClientMatch`: the server's
steps, what they write, and a client that handles any prefix of it in a frame. Each
step of it is a step of the match (`MatchIsNext`), so `MatchInv` holds (`WatchedMatch`).
Of the match only this is needed: who is gone does not come back, and is gone for a
reason (`LeaversGo`). Of the messages: everything a step accumulates is `Spoken` (about
objects, resources, time), and only the news that a player has left, which is written
at once, says anything of players. `OutcomeInv` adds that each such news in the stream
is about somebody who is not connected, and that the client is right so far. Then it
does not matter which of them are handled: by induction over the messages of a frame
(`TruthAfter`) a client that has heard of all the others, and calls itself the winner,
is the only one left. For this proof `Handled(n)` is a recursive function; a fold of
the community modules could not be expanded.

*What a client counts.* `CountersMatchMirror` says more than that server and client
agree in the end: it holds after every frame, also when half of the messages of a step
have been handled. `MirrorInv` has three parts. The messages on their way are in order
(`Follows`): no object is added twice, only villagers become villagers of another trade,
and what was added complete or has been completed is not told to be less. Each of them is
a `Fact` about the server's object as long as that exists, so that what is told later can
follow it. And the client is `Sound`: what it has on its map came as such a message would
have come, and its counters are the tally of it. For the server, `AllLast` says that an
object keeps owner and class and gets no less complete in any step, and a lemma per
command and branch of a visit says that what it accumulates is in order and true when the
step is done (`Uttered`). For the client, each handler changes by one object what is counted, as in
the proof about the server. The counter of the population in production is left out here
as in the property (`SameCounts`).

*What a client shows.* `CopyAlwaysPublished` is the refinement: under the mapping
`shown <- whole`, `pending <- published`, `MatchInit` implies `CopyInit`, and every step
of `MatchSpec` is a `Publish`, a `Show` or a stutter. Nothing in `published` and `whole`
can be said of one step alone, since the client handles any number of messages: what it
shows in the end depends on every message that is on its way. `CopyInv` says:

- `published` has one copy for each step that has news on the stream (`StepsOn`);
- `UpToDate`: a client that handles the stream up to the end of one of these steps has
  the copy that was published with it, or `whole` if it is still at the last one;
- `Accurate`: a client that handles the stream and then what the running step has
  accumulated has all that the server knows: the same objects with the same hit points,
  progress, load, attack and queue, and the resources and the flag it was told last. What
  was erased without a word to it (`strays`) is excepted;
- `StraysOld` and `Unseen`: what will be such a stray at the end of this step (`Doomed`)
  is a foundation the client has not been told of at any point of the stream; its
  first message comes in this step. So the copies published before do not change
  when it is taken out of them.

`Accurate` becomes `UpToDate` for the new copy when the step ends. That it is inductive
takes a lemma for each command and each branch of a visit that compares what is told with
all that is changed (`Conveys`, `ServerConveys`): every attribute that the client shows is
either unchanged or in a message, and the messages of one visit may overlap. `MatchInv` and
`BooksOK` give the types, `OutcomeInv` what the stream may hold, and `MirrorInv` that
a foundation of another player has not been added by any message on its way
(`HiddenUnseen`), which is what keeps `Unseen`. A frame is then a matter of streams
(`FrameCopies`): the last end of a step that it handles is a prefix for which `UpToDate`
already says what is shown.

The proof found an omission in the model that the instance of the run is too small to
show: a unit whose attack has ended goes back to its manual target, may become a
villager of another trade by that, and gathers in the same visit if it touches the
target already. The client is told both (`Told_Gather`).

### The room

The assumption is `LobbyAssumption`. `ColorsDistinct` is not inductive: a new
host takes color 0 without looking whether it is free. `RoomInv` says that hosts
hold the token and have color 0, and that only hosts have color 0: a `Connect` is
only accepted while there is a host, so the lowest free color of others is above
0, and when the host is lost its color is free for the next one. That a host is
not joined a second time with another color needs what may be in its stream, so
messages enter by `MessagesOK`: a holder of the token only ever sends
`HostConnect`, and the others only `Connect`.

What the clients see needs two more invariants. `EntryInv` says who is where:
the vector has exactly the clients that are in the match, who is not joined has sent
at most its request to be let in, who is joined has none left in its stream, and only
a client that is gone has sent a Leave. `ViewInv`
is about what is on its way to a client that is a player. Of the player lists the
last one is the server's, with the player's own place, or the client shows that list
already and none comes (`ListsComing`); the same of the setting, except for the host,
who chose it (`SettingsComing`). `ListsConverge` and `SettingsConverge` follow at once.
A chat message names its sender by an index: the index is right in the list that
comes last before it, or in the shown one (`ChatsComing`). This is inductive because
a list is sent to all players in the same handler that changes the table, so the
chats that follow are numbered by it. The start is the last message of a stream
(`StartComes`), and then what a client has shown by the time it handles it is what
the server had when it wrote it (`StartedWithRoster`): that is `SamePlayersInGame`.
One lemma per handler says what it writes to each client (`StepWrites` joins them); the
rest are lemmas about streams: what a stream ends with after something is put behind
it, and after its head is handled. A list message is the order of the connections
without those that have not joined; that `Kept` keeps the order and each of the
chosen once is proved by induction over positions.

`PausedByHost` has a hypothesis. The pause belongs to the host that asked for it,
and only that host ends it. When the host is lost while it is ready nobody ends the
pause, and if somebody else holds the token there can be a new host. So the theorem
assumes that a holder of the token that may be lost is the only one; the run has
one holder, and in the program the token is given to one client. `PauseInv` adds that
before there is a host, while one may still come, only the setting closes the room.

### From the lobby to the game

`SessionStaysConsistent` holds for any number of players and loading steps
(`SeatsAssumption`). A read of the server handles one message after the other,
and each finds the state the last one left. So the parts of `SessionInv` that
are about the server are stated of any state `s` of it (`Sound(s)`), the lemmas
carry `Sound` through one message, and induction over the messages of a read
carries it through `HandleMessages`. Nobody is ahead of the server because a map
is only made when all have finished loading, the news that the game begins is
written only with a map, and who is still in the dialog has not finished. That a
client shows who is left needs an account of the news on its way. There are two
of them: in the dialog, where news is thrown away unhandled, there must be exactly
one message for each player that is gone (`ToldOnce`); after it, what is shown and
what is on its way together are who is gone, without what was missed
(`ToldOrMissed`). A second removal of a player, which would tell of it twice,
needs a map, and then nobody is in the dialog.

### The connection

`ConnectionAssumption` only says that there is a timeout. `TypesOK` and
`ThreadsInStep` say where the two threads may stand at once: who holds the mutex
and which blocking call is waited for follow from where the main thread is.

`LossInv` is for the two properties about waiting. The dialog waits for the
network thread when it handles GameAborted, and that thread has nothing to store
then: the server sends nothing after the abortion, so it is the last message in the
list and nothing comes in behind it (`AbortionIsLast`). The dialog loses its
timer in this shutdown, but it has rejected the match then, and this stays so
until it closes (`AbortionEndsDialog`); everywhere else a timer, the flag or a
signal is left (`WatchLasts`).

`OrderInv` follows a message on its whole way. What comes in consists of whole
messages with the numbers after the last one received (`StreamInOrder`), up to
the last one sent while the socket is connected; what lies in the list continues
what was handled (`ListInOrder`). A ping response may lie between the others, but
only one at a time: the thread sends the next ping when the answer is there. The
property is about connections made while no other was open (`fresh`); others may
have a part of an earlier message in the buffer, which is why it says so.

The estimate of the server's time is a system of its own (`TimeSyncAssumption`: the
measurements are integers, and the window holds more than two). `NoJumps` compares
two frames, so `SyncInv` says what stays true between them: what was shown last is no
farther from the offset in use (`OffsetNow`) than the time that has passed since plus
what that frame counted twice. The offset in use moves by at most one in a tick
(`OffsetMoves`), a response moves only the target, since the way made so far is
kept, and writing the time of the response changes nothing once the smoothed offset
is that of this time. A frame in between is off by the interval that it counts
twice. The larger of the two intervals would not be a bound: of two
such frames one may be off upwards and the next one downwards, when the target has
changed sides between them.

### What a player sees and chooses

*GameWindow* (`WindowAssumption`): `SelectionKnown` is inductive. Where a right
click sends orders to, also to a building in the fog or off the map, only matters for whom it
names: the selection (`ClickOrders`). Orders name own
objects because no selection or control group has objects of both sides (a box
selects the own units if there are any), and because buttons for production are
shown only for own buildings (`ChoiceInv`). A button may be older than the
selection only through events that leave both alone.

*FieldOfView* (`ViewAssumption`): any sizes, sights and own objects, finitely
many; places are pairs of integers on or off the map. `ViewCountsExact` counts
the watchers that see a tile by cardinality; an object that appears, dies, walks
or is completed changes that set by at most itself, and the code adds and
subtracts one on the same circle, except that a tile never seen (-1) is lifted to
0 first. `FogStaleOnlyWhereChanged` needs that the rectangle of changes only
grows between two frames, and contains the range around the object before and
after it walked (`GrownRange`).

*MaxRectsBinPack* (`BinAssumption`): any bins and rectangles that are not empty. The
invariant of a packer has two parts. `UsedApart`: used rectangles lie in the bin and
apart from each other and from the free ones. `FreeExact`: everything that is free
lies in one rectangle of the list, and no rectangle of the list in another.
`PlaceRectKeeps` is the step: the parts that `SplitFreeNode` makes of a free
rectangle miss the used one (`PartsAreFree`), every rectangle within the free one
that misses the used one lies in a part (`PartsCover`), and of a list the pruned one
keeps just the largest, one of equal ones (`PrunedKeepsLargest`). `UsedApart` alone
needs no positive sizes, which is what the atlas has. The heuristics only matter in
that one of the placements is chosen: `BestExists` says that the order of `Before`
has a first one among finitely many, and `PlacementsFit` that each fits into a free
rectangle.

*SpriteAtlas* (`AtlasAssumption`): any sprites, empty frames included. `Books` says of
a running insertion that each frame is either placed, with its own size, or still
waits, and none twice; what holds at its start and is kept by each round holds at
its end (`InsertAllKeeps`). So an atlas with as many entries as frames has each
frame once. The cache file is at any time the beginning of the contents of some
atlas that was once sound (`CacheSound`), not necessarily of this sprite: if it has
the expected number of entries it is the whole of that atlas (`LoadableWhole`), and
`IsConsistent` then settles the sizes.

*SpriteLayers* (`FramesAssumption`): any files whose first layer is a graphic, with each
kind of layer at most once, whose pixel data are colors that the palette has, written in
one of the three formats. `LayersInv` speaks of the rows so far: the finished ones with
the pixels of the current row behind them (`RowsSoFar`), so that a command which ends a row, a
skipped row and a pixel that is drawn are all one step of the same kind. Its core ties
what is seen to where the code reads (`GraphicRead`): the visible pixels are the first
colors in their order, and their number settles `pixelPtr` and `decompressionState`
(`Position`). The next pixel is then the next color, which is arithmetic on the bits of a
block: two colors share the second and third of its bytes (`PairsOfColors`), or four
have their sections in the fifth one (`FoursOfColors`). Each new pixel is the last of
those that are seen, so the order of the others does not change (`NextInOrder`). The
outline is painted later over pixels of the graphic: none becomes visible or hidden and
none passes the threshold of the shadow's inpainting (`OutlineKeeps`). That one works
in place. It only writes where the graphic is opaque and only reads where it is not, so
what was blended stays blended (`InpaintBlends`); the weights and the rounding of the mean
play no role.

### The map a match starts with

`GenerationAssumption` asks for a map of at least one tile, and that the variances of
the code fit into its border; the map may be too small for the rectangle of town
centers. `AgendaAssumption` says of the list of things to place what the loops of
`GenerateRandomMap` do: town centers first, units last, and the clumps and units
of players that have a town center (`InOrder`).

`SlopesGentle` holds between hills only. While a hill is made, `SlopeInv` says for
a corner of a finished ring and its outer neighbor that the neighbor, once brought
between the bounds of the current ring (`Clamped`), is at most one away. This also
covers the early end: if a ring needed no change then the next one needs none,
and the slopes are gentle already.

`NothingOverlaps` (`PlacedInv`) needs that the tiles of what stands are marked, as
far as they are on the map, and that only town centers are placed without looking. On a
map larger than the borders they are on it (`TownCenterInMap`, with the remainders of
C++ for positions before the first corner). Things of another kind come only on tiles that are
free and on the map, so a town center that stands partly off the map can share only
tiles with them that are on it, and those are marked. Units stand in no building
because no building comes after the first unit, which is where the order of the
agenda is used. The count of things in a clump, which ends it, plays no role.

### The way to a goal

`PathAssumption` asks of the inputs of a search what the rest of the server gives it: a
unit that is on the map stands in no occupied tile (`DoesUnitCollide` keeps it from walking
into one, and `IsFoundationFree` keeps a foundation from taking its tiles while a unit
touches them), and the goal, moved onto the map if need be, lies in the goal tiles, which are
a rectangle. A unit that `ProduceUnit` found no place for is not on the map, and the
search starts at the tile of the map that is next to it, free or not.

`LegsTested` is about the legs as they are walked: from the point where the unit stands,
which may be anywhere in its tile, to the exact goal. Each of them is a leg between
neighboring tiles or within the goal, and then free, or was let through by `IsPathFree`
from where it begins to where it ends, although corners were removed around it later. It is
proved. That `IsPathFree` lets through only what is free is the rest of `LegsClear`, and is
model-checked: the traced lines round at each border they cross, so the reason why they
miss no tile is the size of the margin against that of the grid, and holds for maps and
distances of a size, not for all.

`SearchOK` is the invariant of the search: what was reached is a free tile, every tile
reached but the start has one it was reached from, by a step the unit may make, and that
one cost less. The entries of the queue and the closest tile were reached. Costs
only ever fall, so a tile that is reached again, more cheaply, keeps costing more than the
one it is reached from, and less than those reached from it. So the costs fall on
the way back (`CostsFall`), no tile is passed twice, there are only as many as the map
has, and the way ends at the start (`BackAtStart`); `TraceBack` is a recursive function,
whose existence is proved first (`GoingExists`). Each leg goes from a tile to a neighbor, and
a diagonal one only where both tiles beside it are free, so whatever points in the two
tiles it joins, it leads through free tiles only (`LegOpen`, for the points that are on the
map). The smoothing removes a corner if `IsPathFree` says so, of the leg that is new then;
the other legs stay as they were (`CutIsWalkable`).

`FindsBestPath` compares the search, which never looks at most neighbors of a tile, with
`Distances`, which looks at all of them. That those are distances is proved first: after
each round a tile that was improved has as many others at most at its cost as rounds have
passed (`RoundFacts`), so after as many rounds as the map has tiles nothing improves
(`DistancesAre`). The invariant of the search is `BestOK`. The queue may hold outdated
entries of a tile, but none that promises too little; each tile that was reached waits in
the queue with no more than its cost and the heuristic, or the neighbors that `Directions`
names for it were reached at no more than its cost and a step; tiles of the goal wait.
`NothingLost` then says of each tile in the order of its distance: its cost is the distance
already, or a tile on a shortest way to it waits, with a priority that is no larger. The step
is the exchange argument behind the pruning (`Pruning`). If the neighbor u of t, reached
from p, was not looked at, then either u is reached from p on a way that is shorter than the
one over t, and t does not lead to it; or u lies diagonally ahead, and there is another
shortest way to it whose last step is a straight one, for which the same argument cannot
end in this case again (`NextTile`). It needs that the tile beside p is on the map and free:
free because `Directions` would name u otherwise, and on the map because a map is a
rectangle. The heuristic is consistent (`OctileStep`), so the first entry of the queue is
a lower bound for all tiles of the goal (`GoalsWait`). Costs are exact numbers here; the
sums of floats the code compares may differ from them by rounding.

### What is only model-checked, and why

- All liveness: `RoomEmpties`, `LeaversLeave`, `ProductionEnds`, `WinnerLearns`,
  `LoadingEnds`. The provers at hand know no rules for fairness and `ENABLED`.
- That a client gets to what was published, the fairness `WF_copyVars(Show)` of
  `ImplementsDelayedCopy`: it is liveness. The rest of it is `CopyAlwaysPublished`.
- `LegsClear`: that the lines `IsPathFree` traces in rounded numbers miss no tile the
  unit would touch. What else it says is `LegsAlwaysTested`.
- The four runs that show a disagreement (`StatsReproducible` and the others): what
  they check does not hold.

Every other invariant and action property of the passing runs is proved. Induction over data is possible
in a limited form only: the theorems of the library that take an operator as a parameter
cannot be used, so the module `Induction` derives, from well-foundedness, rules that range
over sets of numbers and families of sets, and from them that sums over finite sets exist,
are unique and change by one summand. The proofs above use these.

## 6. Plan

What is left: the dialogs before the lobby as processes (`main()` starting the
server, reading its port and token).

## 7. Not modelled

- *Rendering, widgets, decals, text, mods, OpenGL* (`client/shader_*.cpp`,
  `texture.cpp`, `minimap.cpp` and the drawing half of `render_window.cpp`): no
  state that the match or the input depends on.
- *Game data, timing, logging*: reading of data files and formatting.
- *Message encoding*: sizes and number formats; messages are records. A map
  whose message does not fit into 16 bits ends the server (`game.cpp:566`),
  which the models do not see.
- *Chat in a match*, *scrolling and zooming*, *palettes.conf*, *`Occupancy()` of
  the packer*: nothing else reads them.
- *The geometry of a match*: positions of units, animations and collisions while
  walking are nondeterministic in `GameStep`; the pathfinder is modelled on its
  own.
- *Tests*: read as documentation of `PlayerStats` and `SpriteAtlas`.

## 8. Running

`tlc -config MCGame_Production.cfg MCGame` and the like for the other runs. Each
run takes between some seconds and a little over three minutes on two cores; `lobby_Room` is the
largest with 1.5 million states.

`tlapm M.tla` for the modules with proofs: `GameServerProofs`, `ClientMatchProofs`,
`LobbyProofs`, `GameSessionProofs`, `ConnectionProofs`, `DisplayProofs`,
`MapProofs` and `Induction`. From nothing, `ClientMatchProofs` takes about
a quarter of an hour, `GameServerProofs`, `DisplayProofs` and `LobbyProofs` five to ten
minutes, and the others less.
