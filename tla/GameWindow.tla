----------------------------- MODULE GameWindow -----------------------------
(***************************************************************************)
(* The player's input in the game window (render_window.cpp): selection,   *)
(* control groups, command buttons, construction mode, production queue    *)
(* icons, dragging and the menu, with the orders they send.  Between input *)
(* events, frames bring news of the match: objects appear, are completed,  *)
(* vanish in the fog or die, and players leave.                            *)
(*                                                                         *)
(* Positions are abstracted: an event says what is under the cursor.  The  *)
(* order of the selection is left out, its first object is any of it.      *)
(***************************************************************************)
EXTENDS Integers, FiniteSets

CONSTANTS
    MyUnits, MyBuildings, EnemyUnits, EnemyBuildings,  \* object IDs
    Villagers                                          \* among the units

Mine      == MyUnits \cup MyBuildings
Units     == MyUnits \cup EnemyUnits
Buildings == MyBuildings \cup EnemyBuildings
Objects   == Units \cup Buildings

ASSUME WindowAssumption ==
    /\ Mine \cap (EnemyUnits \cup EnemyBuildings) = {}
    /\ Units \cap Buildings = {}
    /\ Villagers \subseteq Units

VARIABLES
    objects,      \* of the client's map
    completed,    \* buildings of it that are complete
    fogged,       \* objects of others fully in the fog of war
    unexplored,   \* buildings fully where nobody has looked yet
    playerState,  \* of this client's player: "Playing", or "Over" in any way
    selection,
    group,        \* a control group
    buttons,      \* what the command buttons show
    mode,         \* constructBuildingType is set
    pressed,      \* "button", "hotkey" or "none": how a command button is pressed
    pressedItem,  \* pressedProductionQueueItem is set
    icons,        \* the last frame showed production queue icons
    drag,         \* "none", "possible" or "dragging"
    ignoreLeftMouseRelease,
    menu,         \* "closed", or it is open "with" or "without" the button to resign
    orders        \* the orders of the last event: [type, ids]

gameVars   == <<objects, completed, fogged, unexplored, playerState>>
chosenVars == <<selection, group, buttons, mode>>
mouseVars  == <<pressed, pressedItem, icons, drag, ignoreLeftMouseRelease>>
windowVars == <<gameVars, chosenVars, mouseVars, menu, orders>>

Order(t, ids) == {[type |-> t, ids |-> ids]}

WindowInit ==
    /\ objects = Mine /\ completed = {} /\ fogged = {} /\ unexplored = {}
    /\ playerState = "Playing"
    /\ selection = {} /\ group = {} /\ buttons = "none" /\ mode = FALSE
    /\ pressed = "none" /\ pressedItem = FALSE /\ icons = FALSE /\ drag = "none"
    /\ ignoreLeftMouseRelease = FALSE
    /\ menu = "closed"
    /\ orders = {}

IsPlayerStillInGame == playerState = "Playing"

\* ShowDefaultCommandButtonsForSelection.  A model building is of one type.
DefaultButtons(sel) ==
    CASE sel # {} /\ sel \subseteq MyBuildings /\ sel \cap completed' # {} -> "production"
      [] sel \cap MyUnits \cap Villagers # {}                              -> "categories"
      [] OTHER                                                             -> "none"

SelectionChanged ==
    buttons' = DefaultButtons(selection')

\* GetInteractionType: may a selected unit do something with the target?  A
\* villager that carries something may drop it off at a building.
Interacts(actor, target, carrying) ==
    /\ actor \in Units
    /\ \/ actor \in Villagers /\ target \in Buildings /\ (actor \in Mine <=> target \in Mine)
          /\ (target \notin completed \/ carrying)
       \/ (actor \in Mine) # (target \in Mine)

\* GetObjectToSelectAt: units in sight, and buildings where the map is explored,
\* in the fog of war or not.
Selectable == objects \ ((fogged \cap Units) \cup unexplored)
-----------------------------------------------------------------------------
(***************************************************************************)
(* Frames.                                                                 *)
(***************************************************************************)
StillSelected(sel) == (sel \cap objects') \ fogged'

\* How much of o is seen now.  What has been explored stays so.
Sight(o) ==
    /\ fogged' \in {fogged \ {o}, fogged \cup ({o} \ Mine)}
    /\ unexplored' \in {unexplored \ {o},
                       IF o \in objects THEN unexplored ELSE unexplored \cup ({o} \cap Buildings)}
    /\ unexplored' \ Mine \subseteq fogged'

\* What the messages of a frame do to the match: one object appears, is
\* completed, is seen or not, or dies, or players leave.
News ==
    \/ UNCHANGED gameVars
    \/ \E o \in Objects \ objects :
         objects' = objects \cup {o} /\ Sight(o) /\ UNCHANGED <<completed, playerState>>
    \/ \E o \in objects :
         /\ objects' = objects \ {o} /\ completed' = completed \ {o}
         /\ fogged' = fogged \ {o} /\ unexplored' = unexplored \ {o}
         /\ UNCHANGED playerState
    \/ \E b \in (objects \cap Buildings) \ completed :
         /\ completed' = completed \cup {b}
         /\ unexplored' = unexplored \ ({b} \cap Mine)     \* it looks around
         /\ UNCHANGED <<objects, fogged, playerState>>
    \/ \E o \in objects : Sight(o) /\ UNCHANGED <<objects, completed, playerState>>
    \/ /\ playerState' = "Over"                            \* Won, Defeated, Dropped
       /\ UNCHANGED <<objects, completed, fogged, unexplored>>

\* paintGL: the news, the selection without what was lost, and the buttons if a
\* building is selected.  Icons are drawn for the queue of a single building.
Frame ==
    /\ News
    /\ selection' = StillSelected(selection)
    /\ IF selection' \cap Buildings # {} THEN SelectionChanged ELSE UNCHANGED buttons
    /\ icons' \in {FALSE} \cup {\E b \in MyBuildings : selection' = {b}}
    /\ orders' = {}
    /\ UNCHANGED <<group, mode, pressed, pressedItem, drag, ignoreLeftMouseRelease, menu>>
-----------------------------------------------------------------------------
(***************************************************************************)
(* Command buttons.  The button that was pressed, or that entered the      *)
(* construction mode, is the button at its place: it may show something    *)
(* else by now.                                                            *)
(***************************************************************************)
ButtonStates ==
    CASE buttons \in {"economy", "military"} -> {"Valid", "MaxLimitReached", "CannotAfford"}
      [] buttons = "production"              -> {"Valid", "CannotAfford"}
      [] OTHER                               -> {"Valid"}

\* PressCommandButton, of any button that is shown.
PressCommandButton ==
    \/ /\ ButtonStates # {"Valid"}                         \* says why it is not valid
       /\ orders' = {}
       /\ UNCHANGED <<buttons, mode>>
    \/ /\ buttons = "production"
       /\ orders' \in {{}} \cup {Order("ProduceUnit", {o}) : o \in selection}
       /\ UNCHANGED <<buttons, mode>>
    \/ /\ buttons \in {"economy", "military"}              \* a building
       /\ mode' = TRUE /\ orders' = {}
       /\ UNCHANGED buttons
    \/ /\ buttons \in {"economy", "military"}              \* the other category, or quit
       /\ mode' = FALSE /\ orders' = {}
       /\ buttons' \in {IF buttons = "economy" THEN "military" ELSE "economy",
                        DefaultButtons(selection)}
    \/ /\ buttons = "categories"
       /\ mode' = FALSE /\ orders' = {}
       /\ buttons' \in {"economy", "military"}
    \/ /\ buttons = "none" /\ orders' = {}                 \* an invisible button
       /\ UNCHANGED <<buttons, mode>>

HotkeyPress ==
    /\ menu = "closed" /\ IsPlayerStillInGame /\ buttons # "none"
    /\ pressed' = "hotkey"
    /\ orders' = {}
    /\ UNCHANGED <<gameVars, chosenVars, pressedItem, icons, drag, ignoreLeftMouseRelease,
                   menu>>

\* The release of a key presses the button that has this hotkey now.
HotkeyRelease ==
    /\ menu = "closed" /\ IsPlayerStillInGame /\ buttons # "none"
    /\ PressCommandButton
    /\ pressed' = "none"
    /\ UNCHANGED <<gameVars, selection, group, pressedItem, icons, drag,
                   ignoreLeftMouseRelease, menu>>
-----------------------------------------------------------------------------
(***************************************************************************)
(* Orders by the mouse.                                                    *)
(***************************************************************************)
\* RightClickOnMap: selected units that can do something with the target, if there
\* is one, are ordered to it, the others to the clicked place, if it is on the map.
OrdersAt(suitable, haveMapCoord) ==
    LET rest == selection \ suitable
    IN  (IF suitable # {} THEN Order("SetTarget", suitable) ELSE {})
        \cup (IF haveMapCoord /\ rest # {} THEN Order("MoveToMapCoord", rest) ELSE {})

MayCommandUnits ==
    /\ IsPlayerStillInGame
    /\ selection \cap MyUnits # {} /\ selection \cap Buildings = {}

RightClick ==
    /\ menu = "closed"
    /\ \/ mode /\ mode' = FALSE /\ orders' = {}              \* leaves the construction mode
       \/ /\ ~mode /\ UNCHANGED mode
          /\ IF ~MayCommandUnits THEN orders' = {}
             ELSE \E haveMapCoord \in BOOLEAN :
                    \/ orders' = OrdersAt({}, haveMapCoord)
                    \/ \E t \in Selectable, carrying \in BOOLEAN :
                         LET suitable == {u \in selection : Interacts(u, t, carrying)}
                         IN  orders' = OrdersAt(suitable, haveMapCoord)
    /\ UNCHANGED <<gameVars, selection, group, buttons, mouseVars, menu>>

\* A right click on the minimap does not leave the construction mode.
RightClickOnMinimap ==
    /\ menu = "closed"
    /\ orders' = IF MayCommandUnits THEN OrdersAt({}, TRUE) ELSE {}
    /\ UNCHANGED <<gameVars, chosenVars, mouseVars, menu>>

PressButton ==
    /\ menu = "closed"
    /\ IF IsPlayerStillInGame /\ pressed = "none" THEN pressed' = "button" ELSE UNCHANGED pressed
    /\ orders' = {}
    /\ UNCHANGED <<gameVars, chosenVars, pressedItem, icons, drag, ignoreLeftMouseRelease,
                   menu>>

PressQueueIcon ==
    /\ menu = "closed"
    /\ icons /\ pressedItem' = TRUE
    /\ orders' = {}
    /\ UNCHANGED <<gameVars, chosenVars, pressed, icons, drag, ignoreLeftMouseRelease, menu>>

StartDrag == drag' = "possible"

\* A foundation is placed by the selected villagers, of whatever player, if the
\* active button is valid and the place is free as far as the client knows.
PlaceFoundation ==
    /\ ignoreLeftMouseRelease' = TRUE
    /\ \E state \in ButtonStates :
         \/ /\ state # "Valid"
            /\ mode' = (state = "CannotAfford")
            /\ orders' = {} /\ UNCHANGED drag
         \/ /\ state = "Valid"                             \* Shift keeps the mode
            /\ mode' \in BOOLEAN
            /\ orders' = Order("PlaceBuildingFoundation", selection \cap Villagers)
            /\ UNCHANGED drag
         \/ /\ state = "Valid"                             \* the place is not free
            /\ StartDrag /\ orders' = {} /\ UNCHANGED mode

PressOnMap ==
    /\ menu = "closed"
    /\ IF mode /\ IsPlayerStillInGame THEN PlaceFoundation
       ELSE StartDrag /\ orders' = {} /\ UNCHANGED <<mode, ignoreLeftMouseRelease>>
    /\ UNCHANGED <<gameVars, selection, group, buttons, pressed, pressedItem, icons, menu>>

\* HandleMouseMoveEvent: a drag starts, a press is given up off its button.
MoveMouse ==
    /\ menu = "closed"
    /\ drag' = IF drag = "possible" THEN "dragging" ELSE drag
    /\ pressed' \in {pressed} \cup (IF pressed = "button" THEN {"none"} ELSE {})
    /\ pressedItem' \in {pressedItem, FALSE}
    /\ orders' = {}
    /\ UNCHANGED <<gameVars, chosenVars, icons, ignoreLeftMouseRelease, menu>>

\* Mutant: all units in the box are selected.
BoxedAll(inBox) == inBox

\* BoxSelection: own units if there are any, else a single one.
Boxed(inBox) == IF inBox \cap Mine # {} THEN inBox \cap Mine
                ELSE IF inBox = {} THEN {} ELSE {CHOOSE u \in inBox : TRUE}

ReleaseIgnored ==
    /\ menu = "closed" /\ ignoreLeftMouseRelease
    /\ ignoreLeftMouseRelease' = FALSE
    /\ drag' = "none"
    /\ orders' = {}
    /\ UNCHANGED <<gameVars, chosenVars, pressed, pressedItem, icons, menu>>

ReleaseBox ==
    /\ menu = "closed" /\ ~ignoreLeftMouseRelease /\ drag = "dragging"
    /\ \E inBox \in SUBSET (objects \cap Units) : selection' = Boxed(inBox)
    /\ UNCHANGED completed /\ SelectionChanged
    /\ drag' = "none"
    /\ orders' = {}
    /\ UNCHANGED <<objects, fogged, unexplored, playerState, group, mode, pressed,
                   pressedItem, icons, ignoreLeftMouseRelease, menu>>

ClickReleased == menu = "closed" /\ ~ignoreLeftMouseRelease /\ drag # "dragging"

ReleaseButton ==
    /\ ClickReleased /\ pressed # "none" /\ IsPlayerStillInGame
    /\ drag' = "none"
    /\ UNCHANGED completed /\ PressCommandButton
    /\ pressed' = "none"
    /\ UNCHANGED <<objects, fogged, unexplored, playerState, selection, group,
                   pressedItem, icons, ignoreLeftMouseRelease, menu>>

\* DequeueProductionQueueItem: the index is told from the back of the queue.
Dequeue ==
    IF pressedItem /\ IsPlayerStillInGame
      THEN /\ pressedItem' = FALSE
           /\ orders' = IF Cardinality(selection) = 1 /\ icons
                        THEN Order("DequeueProductionQueueItem", selection) ELSE {}
      ELSE UNCHANGED pressedItem /\ orders' = {}

\* The release of any other click.  It selects what is under the cursor, the next
\* object each time: whichever that is.
ReleaseClick ==
    /\ ClickReleased /\ (pressed = "none" \/ ~IsPlayerStillInGame)
    /\ drag' = "none"
    /\ Dequeue
    /\ UNCHANGED completed
    /\ selection' \in {{}} \cup {{o} : o \in Selectable}
    /\ SelectionChanged
    /\ UNCHANGED <<objects, fogged, unexplored, playerState, group, mode, pressed, icons,
                   ignoreLeftMouseRelease, menu>>

\* ShowMenu.
OpenMenu == menu' = IF IsPlayerStillInGame THEN "with" ELSE "without"

\* The release over the panels, maybe on the button that shows the menu.
ReleaseOnPanel ==
    /\ ClickReleased /\ (pressed = "none" \/ ~IsPlayerStillInGame)
    /\ drag' = "none"
    /\ Dequeue
    /\ OpenMenu \/ UNCHANGED menu
    /\ UNCHANGED <<gameVars, chosenVars, pressed, icons, ignoreLeftMouseRelease>>
-----------------------------------------------------------------------------
(***************************************************************************)
(* The menu and the keys.                                                  *)
(***************************************************************************)
Resign ==
    /\ menu = "with"
    /\ orders' = Order("Leave", {})
    /\ playerState' = "Over"
    /\ menu' = "closed"
    /\ UNCHANGED <<objects, completed, fogged, unexplored, chosenVars, mouseVars>>

CancelMenu ==
    /\ menu # "closed"
    /\ menu' = "closed"
    /\ orders' = {}
    /\ UNCHANGED <<gameVars, chosenVars, mouseVars>>

\* Escape closes an open menu, see CancelMenu.
Escape ==
    /\ menu = "closed"
    /\ UNCHANGED completed
    /\ IF mode
         THEN /\ mode' = FALSE
              /\ buttons' = DefaultButtons(selection)
              /\ UNCHANGED menu
         ELSE OpenMenu /\ UNCHANGED <<mode, buttons>>
    /\ orders' = {}
    /\ UNCHANGED <<objects, fogged, unexplored, playerState, selection, group, mouseVars>>

\* DeleteSelectedObjects: own objects are deleted, others stay selected.
Delete ==
    /\ menu = "closed" /\ IsPlayerStillInGame /\ selection # {}
    /\ LET own == selection \cap objects \cap Mine
       IN  /\ orders' = UNION {Order("DeleteObject", {o}) : o \in own}
           /\ selection' = selection \ own
    /\ UNCHANGED completed /\ SelectionChanged
    /\ UNCHANGED <<objects, fogged, unexplored, playerState, group, mode, mouseVars, menu>>

DefineControlGroup ==
    /\ menu = "closed"
    /\ group' = selection
    /\ orders' = {}
    /\ UNCHANGED <<gameVars, selection, buttons, mode, mouseVars, menu>>

\* Mutant: members that are gone are selected, too.
GroupMembersGone == group

GroupMembers == group \cap objects

SelectControlGroup ==
    /\ menu = "closed"
    /\ selection' = GroupMembers
    /\ UNCHANGED completed /\ SelectionChanged
    /\ orders' = {}
    /\ UNCHANGED <<objects, fogged, unexplored, playerState, group, mode, mouseVars, menu>>

\* JumpToNextTownCenter.  The construction mode stays on.
JumpToNextTownCenter ==
    /\ menu = "closed"
    /\ \E b \in objects \cap MyBuildings :
         /\ selection' = {b}
         /\ {b} = selection => objects \cap MyBuildings = {b}
    /\ UNCHANGED completed /\ SelectionChanged
    /\ orders' = {}
    /\ UNCHANGED <<objects, fogged, unexplored, playerState, group, mode, mouseVars, menu>>

KeyEvent ==
    \/ HotkeyPress \/ HotkeyRelease \/ Escape \/ Delete
    \/ DefineControlGroup \/ SelectControlGroup \/ JumpToNextTownCenter

MousePress ==
    RightClick \/ RightClickOnMinimap \/ PressButton \/ PressQueueIcon \/ PressOnMap

MouseRelease ==
    ReleaseIgnored \/ ReleaseBox \/ ReleaseButton \/ ReleaseClick \/ ReleaseOnPanel

WindowNext ==
    Frame \/ KeyEvent \/ MousePress \/ MoveMouse \/ MouseRelease \/ Resign \/ CancelMenu

WindowSpec == WindowInit /\ [][WindowNext]_windowVars
-----------------------------------------------------------------------------
\* Every selected object is known: event handlers and the drawing of a frame
\* look selected objects up without checking (map->GetObjects().at).
SelectionKnown == selection \subseteq objects

\* Orders by which objects act, are produced or deleted name only objects of
\* this player that exist, however the selection, control groups and stale
\* buttons came about.  The other two orders may name others: a foundation any
\* selected villager, the production queue what is selected since its icon was drawn.
OrdersNameOwn ==
    [][\A m \in orders' : m.type \in {"SetTarget", "MoveToMapCoord", "DeleteObject", "ProduceUnit"} =>
                           m.ids \subseteq Mine \cap objects]_windowVars
=============================================================================
