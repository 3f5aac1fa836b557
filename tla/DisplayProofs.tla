---------------------------- MODULE DisplayProofs ----------------------------
(***************************************************************************)
(* Proofs about what the player of a match chooses and sees: the input of  *)
(* the game window, the fog of war of the client's map, the textures that  *)
(* its sprites are drawn from, and the layers these are made of.           *)
(***************************************************************************)
EXTENDS GameWindow, FieldOfView, MaxRectsBinPack, SpriteAtlas, SpriteLayers,
        SequenceTheorems, Induction, FiniteSetTheorems, TLAPS

(***************************************************************************)
(* The game window.  SelectionKnown is inductive.  That orders name own    *)
(* objects rests on two more facts: no selection or control group has      *)
(* objects of both sides, and buttons for production go with a selection   *)
(* of own buildings.                                                       *)
(***************************************************************************)
\* Selections and control groups are of one side: a mixed box selects the own units.
OneSided(sel) == sel \subseteq Mine \/ sel \cap Mine = {}

ProducersChosen == buttons = "production" => selection \subseteq MyBuildings

ChoiceInv == SelectionKnown /\ OneSided(selection) /\ OneSided(group) /\ ProducersChosen

\* Buttons for production are shown for own buildings only.
LEMMA ProductionMeansOwn ==
    ASSUME NEW sel, DefaultButtons(sel) = "production"
    PROVE  sel \subseteq MyBuildings
  BY DEF DefaultButtons

\* A box never selects objects of both sides.
LEMMA BoxIsOneSided ==
    ASSUME NEW inBox
    PROVE  Boxed(inBox) \subseteq inBox /\ OneSided(Boxed(inBox))
  BY DEF Boxed, OneSided

\* Pressing a button may show other buttons, of which those for production fit the selection.
LEMMA ButtonsKeepChoice ==
    ASSUME ProducersChosen, PressCommandButton, selection' = selection
    PROVE  ProducersChosen'
<1>1. CASE buttons' = buttons
  BY <1>1 DEF ProducersChosen
<1>2. CASE buttons' \in {"economy", "military"}
  BY <1>2 DEF ProducersChosen
<1>3. CASE buttons' = DefaultButtons(selection)
  BY <1>3, ProductionMeansOwn DEF ProducersChosen
<1> QED
  BY <1>1, <1>2, <1>3 DEF PressCommandButton

\* Every event and frame keeps what is chosen known and of one side.
LEMMA ChoiceStep ==
    ASSUME ChoiceInv, [WindowNext]_windowVars
    PROVE  ChoiceInv'
<1> USE DEF ChoiceInv
<1>1. CASE Frame
  <2>1. selection' \subseteq selection /\ selection' \subseteq objects' /\ group' = group
    BY <1>1 DEF Frame, StillSelected
  <2>2. ProducersChosen'
    BY <1>1, <2>1, ProductionMeansOwn DEF Frame, SelectionChanged, ProducersChosen
  <2> QED
    BY <2>1, <2>2 DEF OneSided, SelectionKnown
<1>2. ASSUME selection' \subseteq objects, OneSided(selection'), group' = group, objects' = objects,
             SelectionChanged
      PROVE  ChoiceInv'
  BY <1>2, ProductionMeansOwn DEF SelectionKnown, OneSided, ProducersChosen, SelectionChanged
<1>3. CASE ReleaseBox
  <2>1. PICK inBox \in SUBSET (objects \cap Units) : selection' = Boxed(inBox)
    BY <1>3 DEF ReleaseBox
  <2> QED
    BY <1>2, <1>3, <2>1, BoxIsOneSided DEF ReleaseBox
<1>4. CASE ReleaseClick
  <2>1. selection' \subseteq objects /\ OneSided(selection')
    BY <1>4 DEF ReleaseClick, Selectable, OneSided
  <2> QED
    BY <1>2, <1>4, <2>1 DEF ReleaseClick
<1>5. CASE Delete
  <2>1. selection' \subseteq selection
    BY <1>5 DEF Delete
  <2>2. selection' \subseteq objects /\ OneSided(selection')
    BY <2>1 DEF SelectionKnown, OneSided
  <2> QED
    BY <1>2, <1>5, <2>2 DEF Delete
<1>6. CASE SelectControlGroup
  <2>1. selection' \subseteq objects /\ OneSided(selection')
    BY <1>6 DEF SelectControlGroup, GroupMembers, OneSided
  <2> QED
    BY <1>2, <1>6, <2>1 DEF SelectControlGroup
<1>7. CASE JumpToNextTownCenter
  <2>1. selection' \subseteq objects /\ OneSided(selection')
    BY <1>7 DEF JumpToNextTownCenter, OneSided
  <2> QED
    BY <1>2, <1>7, <2>1 DEF JumpToNextTownCenter
<1>8. CASE HotkeyRelease \/ ReleaseButton
  <2>1. UNCHANGED <<objects, selection, group>> /\ PressCommandButton
    BY <1>8 DEF HotkeyRelease, ReleaseButton, gameVars
  <2> QED
    BY <2>1, ButtonsKeepChoice DEF SelectionKnown
<1>9. CASE Escape
  <2>1. UNCHANGED <<objects, selection, group>> /\ (buttons' = buttons \/ buttons' = DefaultButtons(selection))
    BY <1>9 DEF Escape
  <2> QED
    BY <2>1, ProductionMeansOwn DEF SelectionKnown, ProducersChosen
<1>10. CASE DefineControlGroup
  BY <1>10 DEF DefineControlGroup, gameVars, SelectionKnown, ProducersChosen
<1>11. CASE UNCHANGED <<objects, selection, group, buttons>>
  BY <1>11 DEF SelectionKnown, ProducersChosen
<1> QED
  <2>1. ASSUME \/ HotkeyPress \/ RightClick \/ RightClickOnMinimap \/ PressButton \/ PressQueueIcon
               \/ PressOnMap \/ MoveMouse \/ ReleaseIgnored \/ ReleaseOnPanel \/ Resign
               \/ CancelMenu \/ UNCHANGED windowVars
        PROVE  UNCHANGED <<objects, selection, group, buttons>>
    BY <2>1 DEF HotkeyPress, RightClick, RightClickOnMinimap, PressButton, PressQueueIcon, PressOnMap,
                MoveMouse, ReleaseIgnored, ReleaseOnPanel, Resign, CancelMenu, windowVars, gameVars,
                chosenVars
  <2> QED
    BY <1>1, <1>3, <1>4, <1>5, <1>6, <1>7, <1>8, <1>9, <1>10, <1>11, <2>1
    DEF WindowNext, KeyEvent, MousePress, MouseRelease

\* The inductive invariant of the two theorems below.
LEMMA ChoiceInvariant == WindowSpec => []ChoiceInv
<1>1. WindowInit => ChoiceInv
  BY DEF WindowInit, ChoiceInv, SelectionKnown, OneSided, ProducersChosen
<1>2. ChoiceInv /\ [WindowNext]_windowVars => ChoiceInv'
  BY ChoiceStep
<1> QED
  BY <1>1, <1>2, PTL DEF WindowSpec

\* However objects die and vanish between clicks, keys and frames, every selected object is
\* one that the map has: the lookups without a check of render_window.cpp succeed.
THEOREM SelectionAlwaysKnown == WindowSpec => []SelectionKnown
<1>1. ChoiceInv => SelectionKnown
  BY DEF ChoiceInv
<1> QED
  BY <1>1, ChoiceInvariant, PTL

\* The orders that OrdersNameOwn is about.
ActingOrders == {"SetTarget", "MoveToMapCoord", "DeleteObject", "ProduceUnit"}

OwnOnly(os) == \A m \in os : m.type \in ActingOrders => m.ids \subseteq Mine \cap objects

\* An event that sends nothing names no foreign object.
LEMMA NoOrders == OwnOnly({})
  BY DEF OwnOnly

\* An order to own objects of the map.
LEMMA OneOrder ==
    ASSUME NEW t, NEW ids, t \in ActingOrders => ids \subseteq Mine \cap objects
    PROVE  OwnOnly(Order(t, ids))
  BY DEF OwnOnly, Order

\* Two sets of orders at once.
LEMMA TwoOrders ==
    ASSUME NEW a, NEW b, OwnOnly(a), OwnOnly(b)
    PROVE  OwnOnly(a \cup b)
  BY DEF OwnOnly

\* Who may command the selected units owns them: one own unit means that all are own.
LEMMA UnitsAreOwn ==
    ASSUME ChoiceInv, MayCommandUnits
    PROVE  selection \subseteq Mine \cap objects
  BY DEF ChoiceInv, SelectionKnown, OneSided, MayCommandUnits, Mine

\* A button, by mouse or key, produces in own buildings only, although it is the button that
\* is at this place when it is released.
LEMMA ButtonOrders ==
    ASSUME ChoiceInv, PressCommandButton
    PROVE  OwnOnly(orders')
<1>1. CASE orders' = {}
  BY <1>1, NoOrders
<1>2. ASSUME NEW o \in selection, buttons = "production", orders' = Order("ProduceUnit", {o})
      PROVE  OwnOnly(orders')
  <2>1. {o} \subseteq Mine \cap objects
    BY <1>2 DEF ChoiceInv, SelectionKnown, ProducersChosen, Mine
  <2> QED
    BY <1>2, <2>1, OneOrder
<1> QED
  BY <1>1, <1>2 DEF PressCommandButton

\* A click on the map sends own units only, those that are suited to what is there and the rest.
LEMMA ClickOrders ==
    ASSUME ChoiceInv, MayCommandUnits, NEW suitable \in SUBSET selection, NEW haveMapCoord,
           orders' = OrdersAt(suitable, haveMapCoord)
    PROVE  OwnOnly(orders')
<1> DEFINE rest == selection \ suitable
<1>1. suitable \subseteq Mine \cap objects /\ rest \subseteq Mine \cap objects
  BY UnitsAreOwn
<1>2. OwnOnly(IF suitable # {} THEN Order("SetTarget", suitable) ELSE {})
  BY <1>1, OneOrder, NoOrders
<1>3. OwnOnly(IF haveMapCoord /\ rest # {} THEN Order("MoveToMapCoord", rest) ELSE {})
  BY <1>1, OneOrder, NoOrders
<1> QED
  BY <1>2, <1>3, TwoOrders DEF OrdersAt

\* Every order that moves, directs, deletes or produces names only own objects that exist when
\* the event is handled, whatever was selected, grouped or pressed before.
THEOREM OrdersAlwaysNameOwn == WindowSpec => OrdersNameOwn
<1>1. ASSUME ChoiceInv, [WindowNext]_windowVars
      PROVE  [OwnOnly(orders')]_windowVars
  <2>1. CASE HotkeyRelease \/ ReleaseButton
    BY <1>1, <2>1, ButtonOrders DEF HotkeyRelease, ReleaseButton
  <2>2. CASE RightClick
    <3>1. CASE orders' = {}
      BY <3>1, NoOrders
    <3>2. CASE orders' # {}
      <4>1. MayCommandUnits
        BY <2>2, <3>2 DEF RightClick
      <4>2. ASSUME NEW suitable \in SUBSET selection, NEW haveMapCoord,
                   orders' = OrdersAt(suitable, haveMapCoord)
            PROVE  OwnOnly(orders')
        BY <1>1, <4>1, <4>2, ClickOrders
      <4> QED
        BY <2>2, <3>2, <4>1, <4>2 DEF RightClick
    <3> QED
      BY <3>1, <3>2
  <2>3. CASE RightClickOnMinimap
    <3>1. CASE MayCommandUnits
      BY <1>1, <2>3, <3>1, ClickOrders DEF RightClickOnMinimap
    <3>2. CASE ~MayCommandUnits
      BY <2>3, <3>2, NoOrders DEF RightClickOnMinimap
    <3> QED
      BY <3>1, <3>2
  <2>4. CASE Delete
    <3>1. orders' = UNION {Order("DeleteObject", {o}) : o \in selection \cap objects \cap Mine}
      BY <2>4 DEF Delete
    <3> QED
      BY <3>1 DEF OwnOnly, Order
  <2>5. CASE PressOnMap
    <3>1. orders' = {} \/ orders' = Order("PlaceBuildingFoundation", selection \cap Villagers)
      BY <2>5 DEF PressOnMap, PlaceFoundation
    <3> QED
      BY <3>1, NoOrders, OneOrder DEF ActingOrders
  <2>6. CASE ReleaseClick \/ ReleaseOnPanel
    <3>1. orders' = {} \/ orders' = Order("DequeueProductionQueueItem", selection)
      BY <2>6 DEF ReleaseClick, ReleaseOnPanel, Dequeue
    <3> QED
      BY <3>1, NoOrders, OneOrder DEF ActingOrders
  <2>7. CASE Resign
    BY <2>7, OneOrder DEF Resign, ActingOrders
  <2>8. CASE orders' = {}
    BY <2>8, NoOrders
  <2>9. CASE UNCHANGED windowVars
    BY <2>9
  <2> QED
    <3>1. ASSUME \/ Frame \/ HotkeyPress \/ Escape \/ DefineControlGroup \/ SelectControlGroup
                 \/ JumpToNextTownCenter \/ PressButton \/ PressQueueIcon \/ MoveMouse
                 \/ ReleaseIgnored \/ ReleaseBox \/ CancelMenu
          PROVE  orders' = {}
      BY <3>1 DEF Frame, HotkeyPress, Escape, DefineControlGroup, SelectControlGroup,
                  JumpToNextTownCenter, PressButton, PressQueueIcon, MoveMouse, ReleaseIgnored,
                  ReleaseBox, CancelMenu
    <3> QED
      BY <1>1, <2>1, <2>2, <2>3, <2>4, <2>5, <2>6, <2>7, <2>8, <2>9, <3>1
      DEF WindowNext, KeyEvent, MousePress, MouseRelease
<1>2. ChoiceInv /\ [WindowNext]_windowVars => [OwnOnly(orders')]_windowVars
  BY <1>1
<1>3. WindowSpec => [][OwnOnly(orders')]_windowVars
  BY <1>2, ChoiceInvariant, PTL DEF WindowSpec
<1> QED
  BY <1>3 DEF OrdersNameOwn, OwnOnly, ActingOrders
-----------------------------------------------------------------------------
(***************************************************************************)
(* The fog of war.  ViewCountsExact and FogStaleOnlyWhereChanged are       *)
(* inductive with the types of the variables: a step that ends the sight   *)
(* of an object finds it counted, so that no count falls below zero and    *)
(* is taken for a tile that was never seen.                                *)
(***************************************************************************)
\* What stands on the map, and the types of the variables.
IsUnit(o) == \E tile \in Int \X Int : o = UnitOn(tile)
IsBuilding(o) == \E tile \in Int \X Int, done \in BOOLEAN : o = BuildingOn(tile, done)
IsPlaced(o) == IsUnit(o) \/ IsBuilding(o)

IsRange(r) == r.minX \in Int /\ r.maxX \in Int /\ r.minY \in Int /\ r.maxY \in Int

ViewTypes ==
    /\ watchers = [i \in Watchers |-> watchers[i]]
    /\ \A i \in Watchers : watchers[i] = Nothing \/ IsPlaced(watchers[i])
    /\ viewCount \in [MapTiles -> Int]
    /\ fogTexture = [t \in MapTiles |-> fogTexture[t]]
    /\ IsRange(changed)

\* Tiles of the map have integer coordinates.
LEMMA TilesAreInts ==
    ASSUME NEW t \in MapTiles
    PROVE  t[1] \in Int /\ t[2] \in Int /\ t[1] \in Columns /\ t[2] \in Rows
  BY ViewAssumption DEF MapTiles, Columns, Rows

\* An object on the map is either a unit or a building, on an integer tile.
LEMMA PlacedKinds ==
    ASSUME NEW o, IsPlaced(o)
    PROVE  /\ o # Nothing
           /\ o.tile[1] \in Int /\ o.tile[2] \in Int
           /\ o.kind \in {"unit", "building"}
           /\ IsUnit(o) <=> o.kind = "unit"
           /\ IsBuilding(o) <=> o.kind = "building"
<1>1. CASE IsUnit(o)
  <2>1. PICK tile \in Int \X Int : o = UnitOn(tile)
    BY <1>1 DEF IsUnit
  <2>2. o.kind = "unit" /\ o.tile = tile /\ o # Nothing
    BY <2>1 DEF UnitOn, Nothing
  <2>3. ~IsBuilding(o)
    BY <2>2 DEF IsBuilding, BuildingOn
  <2> QED
    BY <1>1, <2>2, <2>3
<1>2. CASE IsBuilding(o)
  <2>1. PICK tile \in Int \X Int, done \in BOOLEAN : o = BuildingOn(tile, done)
    BY <1>2 DEF IsBuilding
  <2>2. o.kind = "building" /\ o.tile = tile /\ o # Nothing
    BY <2>1 DEF BuildingOn, Nothing
  <2>3. ~IsUnit(o)
    BY <2>2 DEF IsUnit, UnitOn
  <2> QED
    BY <1>2, <2>2, <2>3
<1> QED
  BY <1>1, <1>2 DEF IsPlaced

\* Centres and radii are integers.
LEMMA CenterTyped ==
    ASSUME NEW o, IsPlaced(o)
    PROVE  /\ ViewCenter(o)[1] \in Int /\ ViewCenter(o)[2] \in Int
           /\ EffectiveRadius(o) \in Nat
<1>1. CASE o.kind = "unit"
  BY <1>1, PlacedKinds, ViewAssumption DEF ViewCenter, EffectiveRadius
<1>2. CASE o.kind # "unit"
  BY <1>2, PlacedKinds, ViewAssumption DEF ViewCenter, EffectiveRadius
<1> QED
  BY <1>1, <1>2

\* What the conversion to whole tiles does to a bound on the middle of a tile.
LEMMA TruncatedTyped ==
    ASSUME NEW n \in Int
    PROVE  /\ Truncated(n) \in Int
           /\ \A k \in Nat : n <= 10 * k + 5 => Truncated(n) <= k
           /\ \A k \in Nat : 10 * k + 5 <= n => k <= Truncated(n)
<1>1. CASE n >= 0
  BY <1>1 DEF Truncated
<1>2. CASE n < 0
  <2>1. (-n) \div 10 \in Nat
    BY <1>2
  <2>2. Truncated(n) = -((-n) \div 10)
    BY <1>2 DEF Truncated
  <2> QED
    BY <1>2, <2>1, <2>2
<1> QED
  BY <1>1, <1>2

\* The square UpdateFieldOfView looks at has integer bounds.
LEMMA RangeTyped ==
    ASSUME NEW o, IsPlaced(o)
    PROVE  IsRange(RangeAround(o))
<1> DEFINE c == ViewCenter(o)
           r == EffectiveRadius(o)
<1>1. c[1] - r \in Int /\ c[1] + r \in Int /\ c[2] - r \in Int /\ c[2] + r \in Int
  BY CenterTyped
<1>2. /\ Truncated(c[1] - r) \in Int /\ Truncated(c[1] + r) \in Int
      /\ Truncated(c[2] - r) \in Int /\ Truncated(c[2] + r) \in Int
  BY <1>1, TruncatedTyped
<1> QED
  BY <1>2, ViewAssumption DEF RangeAround, IsRange, Least, Greatest

\* What lies in a circle lies in the square around it.
LEMMA WithinRadius ==
    ASSUME NEW d \in Int, NEW e \in Int, NEW r \in Nat, d * d + e * e <= r * r
    PROVE  -r <= d /\ d <= r
<1>0. e * e >= 0 /\ d * d \in Int /\ e * e \in Int /\ r * r \in Int
  OBVIOUS
<1>1. d * d <= r * r
  BY <1>0
<1>2. CASE d > r
  <2>1. d * d > r * r
    <3>1. d >= r + 1
      BY <1>2
    <3>2. d * d >= (r + 1) * (r + 1)
      BY <3>1
    <3>3. (r + 1) * (r + 1) > r * r
      OBVIOUS
    <3> QED
      BY <1>0, <3>2, <3>3
  <2> QED
    BY <1>0, <1>1, <2>1
<1>3. CASE d < -r
  <2> DEFINE f == -d
  <2>1. f \in Int /\ f >= r + 1 /\ f * f = d * d
    BY <1>3
  <2> HIDE DEF f
  <2>2. f * f >= (r + 1) * (r + 1)
    BY <2>1
  <2>3. (r + 1) * (r + 1) > r * r
    OBVIOUS
  <2> QED
    BY <1>0, <1>1, <2>1, <2>2, <2>3
<1> QED
  BY <1>2, <1>3

\* The square misses no tile of the circle: UpdateFieldOfView counts for every tile in sight,
\* although its bounds are truncated towards zero and cut off at the edge.
LEMMA SightInRange ==
    ASSUME NEW o, IsPlaced(o), NEW t \in MapTiles, InSight(o, t)
    PROVE  Covers(RangeAround(o), t)
<1> DEFINE c == ViewCenter(o)
           r == EffectiveRadius(o)
           dx == 10 * t[1] + 5 - c[1]
           dy == 10 * t[2] + 5 - c[2]
<1>1. c[1] \in Int /\ c[2] \in Int /\ r \in Nat /\ t[1] \in 0 .. ViewWidth - 1 /\ t[2] \in 0 .. ViewHeight - 1
  BY CenterTyped, TilesAreInts DEF Columns, Rows
<1>2. dx \in Int /\ dy \in Int /\ dx * dx + dy * dy <= r * r /\ dy * dy + dx * dx <= r * r
  BY <1>1 DEF InSight
<1> HIDE DEF c, r
<1>3. -r <= dx /\ dx <= r /\ -r <= dy /\ dy <= r
  <2> HIDE DEF dx, dy
  <2> QED
    BY <1>1, <1>2, WithinRadius
<1>4. /\ c[1] - r <= 10 * t[1] + 5 /\ 10 * t[1] + 5 <= c[1] + r
      /\ c[2] - r <= 10 * t[2] + 5 /\ 10 * t[2] + 5 <= c[2] + r
      /\ t[1] \in Nat /\ t[2] \in Nat
      /\ c[1] - r \in Int /\ c[1] + r \in Int /\ c[2] - r \in Int /\ c[2] + r \in Int
  BY <1>1, <1>3, ViewAssumption
<1>5. /\ Truncated(c[1] - r) <= t[1] /\ t[1] <= Truncated(c[1] + r)
      /\ Truncated(c[2] - r) <= t[2] /\ t[2] <= Truncated(c[2] + r)
      /\ Truncated(c[1] - r) \in Int /\ Truncated(c[1] + r) \in Int
      /\ Truncated(c[2] - r) \in Int /\ Truncated(c[2] + r) \in Int
  BY <1>4, TruncatedTyped
<1> QED
  BY <1>1, <1>5, ViewAssumption DEF RangeAround, Covers, Least, Greatest, c, r

\* The changed rectangle covers what it covered before and the new change.
LEMMA GrownRange ==
    ASSUME NEW rect, NEW range, IsRange(rect), IsRange(range)
    PROVE  /\ IsRange(ViewCountChanged(rect, range))
           /\ \A t \in MapTiles : Covers(rect, t) \/ Covers(range, t)
                                    => Covers(ViewCountChanged(rect, range), t)
<1>1. IsRange(ViewCountChanged(rect, range))
  BY DEF IsRange, ViewCountChanged, Least, Greatest
<1>2. ASSUME NEW t \in MapTiles, Covers(rect, t) \/ Covers(range, t)
      PROVE  Covers(ViewCountChanged(rect, range), t)
  BY <1>2, TilesAreInts DEF IsRange, ViewCountChanged, Least, Greatest, Covers
<1> QED
  BY <1>1, <1>2

\* Counting changes tiles in sight only, all of which lie in the square.
LEMMA CountedTyped ==
    ASSUME NEW count \in [MapTiles -> Int], NEW o, IsPlaced(o), NEW change \in {-1, 1}
    PROVE  /\ Counted(count, o, change) \in [MapTiles -> Int]
           /\ \A t \in MapTiles :
                 Counted(count, o, change)[t] =
                    IF InSight(o, t) THEN (IF count[t] = -1 THEN 0 ELSE count[t]) + change
                    ELSE count[t]
           /\ \A t \in MapTiles : Counted(count, o, change)[t] # count[t] => Covers(RangeAround(o), t)
<1>1. \A t \in MapTiles : Covers(RangeAround(o), t) /\ InSight(o, t) <=> InSight(o, t)
  BY SightInRange
<1>2. \A t \in MapTiles : count[t] \in Int
  OBVIOUS
<1> QED
  BY <1>1, <1>2 DEF Counted

\* The objects that see a tile.
Seers(t) == {i \in Watchers : Sees(watchers[i], t)}

\* When one object changes, the number of those who see a tile changes by one at most.
LEMMA SeersCounted ==
    ASSUME ViewTypes, NEW i \in Watchers, NEW o, watchers' = [watchers EXCEPT ![i] = o],
           NEW t \in MapTiles
    PROVE  /\ Cardinality(Seers(t)) \in Nat
           /\ Sees(o, t) /\ ~Sees(watchers[i], t)
                 => Cardinality(Seers(t)') = Cardinality(Seers(t)) + 1
           /\ ~Sees(o, t) /\ Sees(watchers[i], t)
                 => /\ Cardinality(Seers(t)') = Cardinality(Seers(t)) - 1
                    /\ Cardinality(Seers(t)) >= 1
           /\ (Sees(o, t) <=> Sees(watchers[i], t)) => Cardinality(Seers(t)') = Cardinality(Seers(t))
           /\ Sees(watchers[i], t) => Cardinality(Seers(t)) >= 1
<1>1. IsFiniteSet(Seers(t)) /\ Cardinality(Seers(t)) \in Nat
  BY ViewAssumption, FS_Subset, FS_CardinalityType DEF Seers
<1>2. watchers'[i] = o /\ \A j \in Watchers : j # i => watchers'[j] = watchers[j]
  BY DEF ViewTypes
<1>3. Sees(o, t) /\ ~Sees(watchers[i], t) => Seers(t)' = Seers(t) \cup {i} /\ i \notin Seers(t)
  BY <1>2 DEF Seers, Sees, InSight
<1>4. ~Sees(o, t) /\ Sees(watchers[i], t) => Seers(t)' = Seers(t) \ {i} /\ i \in Seers(t)
  BY <1>2 DEF Seers, Sees, InSight
<1>5. (Sees(o, t) <=> Sees(watchers[i], t)) => Seers(t)' = Seers(t)
  BY <1>2 DEF Seers, Sees, InSight
<1>6. Sees(watchers[i], t) => i \in Seers(t)
  BY DEF Seers
<1>7. i \in Seers(t) => Cardinality(Seers(t)) >= 1
  BY <1>1, FS_EmptySet
<1>8. i \notin Seers(t) => Cardinality(Seers(t) \cup {i}) = Cardinality(Seers(t)) + 1
  BY <1>1, FS_AddElement
<1>9. i \in Seers(t) => Cardinality(Seers(t) \ {i}) = Cardinality(Seers(t)) - 1
  BY <1>1, FS_RemoveElement
<1> QED
  BY <1>1, <1>3, <1>4, <1>5, <1>6, <1>7, <1>8, <1>9

\* The fog stays fresh when every changed count is covered and the rectangle only grows.
LEMMA FogStep ==
    ASSUME ViewTypes, FogStaleOnlyWhereChanged, fogTexture' = fogTexture,
           \A t \in MapTiles : viewCount'[t] # viewCount[t] => Covers(changed', t),
           \A t \in MapTiles : Covers(changed, t) => Covers(changed', t)
    PROVE  FogStaleOnlyWhereChanged'
<1> SUFFICES ASSUME NEW t \in MapTiles, fogTexture[t] /= Shade(viewCount'[t])
             PROVE  Covers(changed', t)
  BY DEF FogStaleOnlyWhereChanged
<1>1. CASE viewCount'[t] = viewCount[t]
  BY <1>1 DEF FogStaleOnlyWhereChanged
<1> QED
  BY <1>1

\* UpdateFieldOfView.
LEMMA UpdateStep ==
    ASSUME ViewTypes, FogStaleOnlyWhereChanged, NEW p, IsPlaced(p), NEW change \in {-1, 1},
           UpdateFieldOfView(p, change), fogTexture' = fogTexture
    PROVE  /\ viewCount' \in [MapTiles -> Int] /\ IsRange(changed') /\ FogStaleOnlyWhereChanged'
           /\ \A t \in MapTiles :
                 viewCount'[t] = IF InSight(p, t) THEN (IF viewCount[t] = -1 THEN 0 ELSE viewCount[t]) + change
                                 ELSE viewCount[t]
<1>1. viewCount' = Counted(viewCount, p, change) /\ changed' = ViewCountChanged(changed, RangeAround(p))
  BY DEF UpdateFieldOfView
<1>2. viewCount \in [MapTiles -> Int] /\ IsRange(changed)
  BY DEF ViewTypes
<1>3. /\ IsRange(changed')
      /\ \A t \in MapTiles : Covers(changed, t) \/ Covers(RangeAround(p), t) => Covers(changed', t)
  BY <1>1, <1>2, RangeTyped, GrownRange
<1>4. /\ viewCount' \in [MapTiles -> Int]
      /\ \A t \in MapTiles :
            viewCount'[t] = IF InSight(p, t) THEN (IF viewCount[t] = -1 THEN 0 ELSE viewCount[t]) + change
                            ELSE viewCount[t]
      /\ \A t \in MapTiles : viewCount'[t] # viewCount[t] => Covers(RangeAround(p), t)
  BY <1>1, <1>2, CountedTyped
<1>5. FogStaleOnlyWhereChanged'
  BY <1>3, <1>4, FogStep
<1> QED
  BY <1>3, <1>4, <1>5

\* Leaving one tile for another: two changes one after the other.
LEMMA MoveStep ==
    ASSUME ViewTypes, FogStaleOnlyWhereChanged, NEW old, IsPlaced(old), NEW new, IsPlaced(new),
           MoveFieldOfView(old, new), fogTexture' = fogTexture
    PROVE  /\ viewCount' \in [MapTiles -> Int] /\ IsRange(changed') /\ FogStaleOnlyWhereChanged'
           /\ \A t \in MapTiles : \E n \in Int :
                 /\ n = IF InSight(old, t) THEN (IF viewCount[t] = -1 THEN 0 ELSE viewCount[t]) - 1
                        ELSE viewCount[t]
                 /\ viewCount'[t] = IF InSight(new, t) THEN (IF n = -1 THEN 0 ELSE n) + 1 ELSE n
<1> DEFINE without == Counted(viewCount, old, -1)
           rect == ViewCountChanged(changed, RangeAround(old))
<1>1. viewCount' = Counted(without, new, 1) /\ changed' = ViewCountChanged(rect, RangeAround(new))
  BY DEF MoveFieldOfView
<1>2. viewCount \in [MapTiles -> Int] /\ IsRange(changed)
  BY DEF ViewTypes
<1>3. /\ IsRange(rect)
      /\ \A t \in MapTiles : Covers(changed, t) \/ Covers(RangeAround(old), t) => Covers(rect, t)
  BY <1>2, RangeTyped, GrownRange
<1>4. /\ without \in [MapTiles -> Int]
      /\ \A t \in MapTiles :
            without[t] = IF InSight(old, t) THEN (IF viewCount[t] = -1 THEN 0 ELSE viewCount[t]) + (-1)
                         ELSE viewCount[t]
      /\ \A t \in MapTiles : without[t] # viewCount[t] => Covers(RangeAround(old), t)
  BY <1>2, CountedTyped
<1> HIDE DEF without, rect
<1>5. /\ IsRange(changed')
      /\ \A t \in MapTiles : Covers(rect, t) \/ Covers(RangeAround(new), t) => Covers(changed', t)
  BY <1>1, <1>3, RangeTyped, GrownRange
<1>6. /\ viewCount' \in [MapTiles -> Int]
      /\ \A t \in MapTiles :
            viewCount'[t] = IF InSight(new, t) THEN (IF without[t] = -1 THEN 0 ELSE without[t]) + 1
                            ELSE without[t]
      /\ \A t \in MapTiles : viewCount'[t] # without[t] => Covers(RangeAround(new), t)
  BY <1>1, <1>4, CountedTyped
<1>7. FogStaleOnlyWhereChanged'
  BY <1>3, <1>4, <1>5, <1>6, FogStep
<1>8. ASSUME NEW t \in MapTiles
      PROVE  \E n \in Int :
                 /\ n = IF InSight(old, t) THEN (IF viewCount[t] = -1 THEN 0 ELSE viewCount[t]) - 1
                        ELSE viewCount[t]
                 /\ viewCount'[t] = IF InSight(new, t) THEN (IF n = -1 THEN 0 ELSE n) + 1 ELSE n
  <2>1. without[t] \in Int /\ viewCount[t] \in Int
    BY <1>2, <1>4
  <2> QED
    BY <1>4, <1>6, <2>1
<1> QED
  BY <1>5, <1>6, <1>7, <1>8

\* What an object of each kind sees.
LEMMA WhoSees ==
    ASSUME NEW t
    PROVE  /\ ~Sees(Nothing, t)
           /\ \A tile : Sees(UnitOn(tile), t) <=> InSight(UnitOn(tile), t)
           /\ \A tile : Sees(BuildingOn(tile, TRUE), t) <=> InSight(BuildingOn(tile, TRUE), t)
           /\ \A tile : ~Sees(BuildingOn(tile, FALSE), t)
           /\ \A tile, done : InSight(BuildingOn(tile, done), t) <=> InSight(BuildingOn(tile, TRUE), t)
  BY DEF Sees, Nothing, UnitOn, BuildingOn, InSight, ViewCenter, EffectiveRadius

ViewInv == ViewTypes /\ ViewCountsExact /\ FogStaleOnlyWhereChanged

\* What a building or a unit is.
LEMMA Kinds ==
    ASSUME ViewTypes, NEW i \in Watchers
    PROVE  /\ watchers[i].kind = "unit" =>
                 \E tile \in Int \X Int : watchers[i] = UnitOn(tile)
           /\ watchers[i].kind = "building" =>
                 \E tile \in Int \X Int, done \in BOOLEAN : watchers[i] = BuildingOn(tile, done)
           /\ watchers[i] # Nothing => watchers[i].kind \in {"unit", "building"}
<1>1. watchers[i] = Nothing => watchers[i].kind = "none"
  BY DEF Nothing
<1>2. watchers[i] = Nothing \/ IsPlaced(watchers[i])
  BY DEF ViewTypes
<1> QED
  BY <1>1, <1>2, PlacedKinds DEF IsUnit, IsBuilding

\* When an object begins to see, is no more or stays as it is: the types and counts.
LEMMA CountsFollow ==
    ASSUME ViewTypes, ViewCountsExact, NEW i \in Watchers, NEW o, o = Nothing \/ IsPlaced(o),
           watchers' = [watchers EXCEPT ![i] = o], fogTexture' = fogTexture,
           viewCount' \in [MapTiles -> Int], IsRange(changed'),
           \A t \in MapTiles :
              \/ /\ ~Sees(watchers[i], t) /\ Sees(o, t)
                 /\ viewCount'[t] = (IF viewCount[t] = -1 THEN 0 ELSE viewCount[t]) + 1
              \/ /\ Sees(watchers[i], t) /\ ~Sees(o, t)
                 /\ viewCount'[t] = (IF viewCount[t] = -1 THEN 0 ELSE viewCount[t]) - 1
              \/ (Sees(watchers[i], t) <=> Sees(o, t)) /\ viewCount'[t] = viewCount[t]
    PROVE  ViewTypes' /\ ViewCountsExact'
<1>1. ViewTypes'
  BY DEF ViewTypes
<1>2. ASSUME NEW t \in MapTiles
      PROVE  viewCount'[t] = Cardinality(Seers(t)') \/ (viewCount'[t] = -1 /\ Cardinality(Seers(t)') = 0)
  <2>1. viewCount[t] = Cardinality(Seers(t)) \/ (viewCount[t] = -1 /\ Cardinality(Seers(t)) = 0)
    BY DEF ViewCountsExact, Seers
  <2> DEFINE n == Cardinality(Seers(t))
             m == Cardinality(Seers(t)')
  <2>2. /\ n \in Nat
        /\ Sees(o, t) /\ ~Sees(watchers[i], t) => m = n + 1
        /\ ~Sees(o, t) /\ Sees(watchers[i], t) => m = n - 1 /\ n >= 1
        /\ (Sees(o, t) <=> Sees(watchers[i], t)) => m = n
    BY SeersCounted
  <2> HIDE DEF n, m
  <2>3. viewCount[t] = n \/ (viewCount[t] = -1 /\ n = 0)
    BY <2>1 DEF n
  <2>4. viewCount'[t] = m \/ (viewCount'[t] = -1 /\ m = 0)
    BY <2>2, <2>3
  <2> QED
    BY <2>4 DEF m
<1>3. ViewCountsExact'
  BY <1>2 DEF ViewCountsExact, Seers
<1> QED
  BY <1>1, <1>3

\* Completing a building changes nothing else of it.
LEMMA Completion ==
    \A tile, before, after :
       [BuildingOn(tile, before) EXCEPT !.completed = after] = BuildingOn(tile, after)
  BY DEF BuildingOn

\* Every handler and frame keeps the counts exact and the fog fresh.
LEMMA ViewStep ==
    ASSUME ViewInv, [ViewNext]_viewVars
    PROVE  ViewInv'
<1> USE DEF ViewInv
<1>1. ASSUME NEW i \in Watchers, UnitAppears(i)
      PROVE  ViewInv'
  <2>1. PICK tile \in Sites : /\ watchers' = [watchers EXCEPT ![i] = UnitOn(tile)]
                              /\ UpdateFieldOfView(UnitOn(tile), 1)
    BY <1>1 DEF UnitAppears
  <2>2. IsPlaced(UnitOn(tile)) /\ watchers[i] = Nothing /\ fogTexture' = fogTexture
    BY <1>1, ViewAssumption DEF UnitAppears, IsPlaced, IsUnit
  <2>3. /\ viewCount' \in [MapTiles -> Int] /\ IsRange(changed') /\ FogStaleOnlyWhereChanged'
        /\ \A t \in MapTiles :
              viewCount'[t] = IF InSight(UnitOn(tile), t)
                              THEN (IF viewCount[t] = -1 THEN 0 ELSE viewCount[t]) + 1 ELSE viewCount[t]
    BY <2>1, <2>2, UpdateStep
  <2>4. \A t \in MapTiles : ~Sees(watchers[i], t) /\ (Sees(UnitOn(tile), t) <=> InSight(UnitOn(tile), t))
    BY <2>2, WhoSees
  <2> QED
    BY <2>1, <2>2, <2>3, <2>4, CountsFollow
<1>2. ASSUME NEW i \in Watchers, BuildingAppears(i)
      PROVE  ViewInv'
  <2>1. PICK tile \in Sites, done \in BOOLEAN :
           /\ watchers' = [watchers EXCEPT ![i] = BuildingOn(tile, done)]
           /\ IF done THEN UpdateFieldOfView(BuildingOn(tile, TRUE), 1)
              ELSE UNCHANGED <<viewCount, changed>>
    BY <1>2 DEF BuildingAppears
  <2>2. /\ IsPlaced(BuildingOn(tile, done)) /\ watchers[i] = Nothing /\ fogTexture' = fogTexture
        /\ IsPlaced(BuildingOn(tile, TRUE))
    BY <1>2, ViewAssumption DEF BuildingAppears, IsPlaced, IsBuilding
  <2>3. CASE done
    <3>1. /\ viewCount' \in [MapTiles -> Int] /\ IsRange(changed') /\ FogStaleOnlyWhereChanged'
          /\ \A t \in MapTiles :
                viewCount'[t] = IF InSight(BuildingOn(tile, TRUE), t)
                                THEN (IF viewCount[t] = -1 THEN 0 ELSE viewCount[t]) + 1 ELSE viewCount[t]
      BY <2>1, <2>2, <2>3, UpdateStep
    <3>2. \A t \in MapTiles : /\ ~Sees(watchers[i], t)
                              /\ Sees(BuildingOn(tile, done), t) <=> InSight(BuildingOn(tile, TRUE), t)
      BY <2>2, <2>3, WhoSees
    <3> QED
      BY <2>1, <2>2, <3>1, <3>2, CountsFollow
  <2>4. CASE ~done
    <3>1. UNCHANGED <<viewCount, changed>>
      BY <2>1, <2>4
    <3>2. \A t \in MapTiles : ~Sees(watchers[i], t) /\ ~Sees(BuildingOn(tile, done), t)
      BY <2>2, <2>4, WhoSees
    <3>3. viewCount' \in [MapTiles -> Int] /\ IsRange(changed') /\ FogStaleOnlyWhereChanged'
      BY <2>2, <3>1 DEF ViewTypes, FogStaleOnlyWhereChanged
    <3> QED
      BY <2>1, <2>2, <3>1, <3>2, <3>3, CountsFollow
  <2> QED
    BY <2>3, <2>4
<1>3. ASSUME NEW i \in Watchers, BuildingFinishes(i)
      PROVE  ViewInv'
  <2>1. PICK tile \in Int \X Int : watchers[i] = BuildingOn(tile, FALSE)
    <3>1. PICK tile \in Int \X Int, done \in BOOLEAN : watchers[i] = BuildingOn(tile, done)
      BY <1>3, Kinds DEF BuildingFinishes
    <3>2. done = FALSE
      BY <1>3, <3>1 DEF BuildingFinishes, BuildingOn
    <3> QED
      BY <3>1, <3>2
  <2>2. watchers' = [watchers EXCEPT ![i] = BuildingOn(tile, TRUE)]
    <3>1. [watchers[i] EXCEPT !.completed = TRUE] = BuildingOn(tile, TRUE)
      <4>1. PICK before, after : before = FALSE /\ after = TRUE
        OBVIOUS
      <4>2. [BuildingOn(tile, before) EXCEPT !.completed = after] = BuildingOn(tile, after)
        BY Completion
      <4>3. [BuildingOn(tile, FALSE) EXCEPT !.completed = TRUE] = BuildingOn(tile, TRUE)
        BY <4>1, <4>2, Zenon
      <4> QED
        BY <2>1, <4>3, Zenon
    <3> QED
      BY <1>3, <3>1 DEF BuildingFinishes
  <2>3. IsPlaced(BuildingOn(tile, FALSE)) /\ IsPlaced(BuildingOn(tile, TRUE)) /\ fogTexture' = fogTexture
    BY <1>3 DEF BuildingFinishes, IsPlaced, IsBuilding
  <2>4. /\ viewCount' \in [MapTiles -> Int] /\ IsRange(changed') /\ FogStaleOnlyWhereChanged'
        /\ \A t \in MapTiles :
              viewCount'[t] = IF InSight(BuildingOn(tile, FALSE), t)
                              THEN (IF viewCount[t] = -1 THEN 0 ELSE viewCount[t]) + 1 ELSE viewCount[t]
    BY <1>3, <2>1, <2>3, UpdateStep DEF BuildingFinishes
  <2>5. \A t \in MapTiles : /\ ~Sees(watchers[i], t)
                            /\ Sees(BuildingOn(tile, TRUE), t) <=> InSight(BuildingOn(tile, FALSE), t)
    BY <2>1, WhoSees
  <2>6. \A t \in MapTiles :
           \/ /\ ~Sees(watchers[i], t) /\ Sees(BuildingOn(tile, TRUE), t)
              /\ viewCount'[t] = (IF viewCount[t] = -1 THEN 0 ELSE viewCount[t]) + 1
           \/ /\ Sees(watchers[i], t) /\ ~Sees(BuildingOn(tile, TRUE), t)
              /\ viewCount'[t] = (IF viewCount[t] = -1 THEN 0 ELSE viewCount[t]) - 1
           \/ (Sees(watchers[i], t) <=> Sees(BuildingOn(tile, TRUE), t)) /\ viewCount'[t] = viewCount[t]
    BY <2>4, <2>5
  <2> QED
    BY <2>2, <2>3, <2>4, <2>6, CountsFollow
<1>4. ASSUME NEW i \in Watchers, UnitWalks(i)
      PROVE  ViewInv'
  <2>1. PICK to \in Reach : /\ watchers' = [watchers EXCEPT ![i] = UnitOn(to)]
                            /\ MoveFieldOfView(watchers[i], UnitOn(to))
    BY <1>4 DEF UnitWalks, UnitOn
  <2>2. PICK tile \in Int \X Int : watchers[i] = UnitOn(tile)
    BY <1>4, Kinds DEF UnitWalks
  <2>3. IsPlaced(UnitOn(tile)) /\ IsPlaced(UnitOn(to)) /\ fogTexture' = fogTexture
    BY <1>4, ViewAssumption DEF UnitWalks, IsPlaced, IsUnit
  <2>4. /\ viewCount' \in [MapTiles -> Int] /\ IsRange(changed') /\ FogStaleOnlyWhereChanged'
        /\ \A t \in MapTiles : \E n \in Int :
              /\ n = IF InSight(UnitOn(tile), t) THEN (IF viewCount[t] = -1 THEN 0 ELSE viewCount[t]) - 1
                     ELSE viewCount[t]
              /\ viewCount'[t] = IF InSight(UnitOn(to), t) THEN (IF n = -1 THEN 0 ELSE n) + 1 ELSE n
    BY <2>1, <2>2, <2>3, MoveStep
  <2>5. ASSUME NEW t \in MapTiles
        PROVE  \/ /\ ~Sees(watchers[i], t) /\ Sees(UnitOn(to), t)
                  /\ viewCount'[t] = (IF viewCount[t] = -1 THEN 0 ELSE viewCount[t]) + 1
               \/ /\ Sees(watchers[i], t) /\ ~Sees(UnitOn(to), t)
                  /\ viewCount'[t] = (IF viewCount[t] = -1 THEN 0 ELSE viewCount[t]) - 1
               \/ (Sees(watchers[i], t) <=> Sees(UnitOn(to), t)) /\ viewCount'[t] = viewCount[t]
    <3>1. /\ Sees(watchers[i], t) <=> InSight(UnitOn(tile), t)
          /\ Sees(UnitOn(to), t) <=> InSight(UnitOn(to), t)
      BY <2>2, WhoSees
    <3>2. Sees(watchers[i], t) => viewCount[t] \in Int /\ viewCount[t] >= 1
      <4>1. Sees(watchers[i], t) => Cardinality(Seers(t)) \in Nat /\ Cardinality(Seers(t)) >= 1
        BY <2>1, SeersCounted
      <4> QED
        BY <4>1 DEF ViewCountsExact, Seers
    <3>3. viewCount[t] \in Int
      BY DEF ViewTypes
    <3>4. PICK n \in Int :
              /\ n = IF InSight(UnitOn(tile), t) THEN (IF viewCount[t] = -1 THEN 0 ELSE viewCount[t]) - 1
                     ELSE viewCount[t]
              /\ viewCount'[t] = IF InSight(UnitOn(to), t) THEN (IF n = -1 THEN 0 ELSE n) + 1 ELSE n
      BY <2>4
    <3> QED
      BY <3>1, <3>2, <3>3, <3>4
  <2> QED
    <3>2. viewCount' \in [MapTiles -> Int] /\ IsRange(changed')
      BY <2>4
    <3>1. ViewTypes' /\ ViewCountsExact'
      BY <2>1, <2>3, <2>5, <3>2, CountsFollow
    <3> QED
      BY <2>4, <3>1
<1>5. ASSUME NEW i \in Watchers, WatcherDies(i)
      PROVE  ViewInv'
  <2>1. watchers' = [watchers EXCEPT ![i] = Nothing] /\ watchers[i] # Nothing /\ fogTexture' = fogTexture
    BY <1>5 DEF WatcherDies
  <2>2. IsPlaced(watchers[i])
    BY <2>1 DEF ViewTypes
  <2>3. CASE watchers[i].kind = "building" /\ ~watchers[i].completed
    <3>1. UNCHANGED <<viewCount, changed>>
      BY <1>5, <2>3 DEF WatcherDies
    <3>2. \A t \in MapTiles : ~Sees(watchers[i], t) /\ ~Sees(Nothing, t)
      BY <2>3, WhoSees DEF Sees
    <3>3. viewCount' \in [MapTiles -> Int] /\ IsRange(changed') /\ FogStaleOnlyWhereChanged'
      BY <2>1, <3>1 DEF ViewTypes, FogStaleOnlyWhereChanged
    <3> QED
      BY <2>1, <3>1, <3>2, <3>3, CountsFollow
  <2>4. CASE ~(watchers[i].kind = "building" /\ ~watchers[i].completed)
    <3>1. UpdateFieldOfView(watchers[i], -1)
      BY <1>5, <2>4 DEF WatcherDies
    <3>2. /\ viewCount' \in [MapTiles -> Int] /\ IsRange(changed') /\ FogStaleOnlyWhereChanged'
          /\ \A t \in MapTiles :
                viewCount'[t] = IF InSight(watchers[i], t)
                                THEN (IF viewCount[t] = -1 THEN 0 ELSE viewCount[t]) + (-1) ELSE viewCount[t]
      BY <2>1, <2>2, <3>1, UpdateStep
    <3>3. \A t \in MapTiles : ~Sees(Nothing, t) /\ (Sees(watchers[i], t) <=> InSight(watchers[i], t))
      BY <2>1, <2>4, WhoSees DEF Sees
    <3>4. \A t \in MapTiles : viewCount[t] \in Int
      BY DEF ViewTypes
    <3>5. \A t \in MapTiles :
                viewCount'[t] = IF InSight(watchers[i], t)
                                THEN (IF viewCount[t] = -1 THEN 0 ELSE viewCount[t]) - 1 ELSE viewCount[t]
      BY <3>2, <3>4
    <3>6. \A t \in MapTiles :
             \/ /\ ~Sees(watchers[i], t) /\ Sees(Nothing, t)
                /\ viewCount'[t] = (IF viewCount[t] = -1 THEN 0 ELSE viewCount[t]) + 1
             \/ /\ Sees(watchers[i], t) /\ ~Sees(Nothing, t)
                /\ viewCount'[t] = (IF viewCount[t] = -1 THEN 0 ELSE viewCount[t]) - 1
             \/ (Sees(watchers[i], t) <=> Sees(Nothing, t)) /\ viewCount'[t] = viewCount[t]
      BY <3>3, <3>5
    <3> QED
      BY <2>1, <3>2, <3>6, CountsFollow
  <2> QED
    BY <2>3, <2>4
<1>6. CASE RenderFog
  <2>1. /\ UNCHANGED <<watchers, viewCount>> /\ changed' = NoChange
        /\ fogTexture' = [t \in MapTiles |->
                             IF Covers(changed, t) THEN Shade(viewCount[t]) ELSE fogTexture[t]]
    BY <1>6 DEF RenderFog
  <2>2. ViewTypes'
    BY <2>1, ViewAssumption DEF ViewTypes, IsRange, NoChange
  <2>3. ViewCountsExact'
    BY <2>1 DEF ViewCountsExact, Sees, InSight
  <2>4. \A t \in MapTiles : fogTexture'[t] = Shade(viewCount'[t])
    BY <2>1 DEF FogStaleOnlyWhereChanged
  <2> QED
    BY <2>2, <2>3, <2>4 DEF FogStaleOnlyWhereChanged
<1>7. CASE UNCHANGED viewVars
  BY <1>7 DEF viewVars, ViewTypes, ViewCountsExact, Sees, InSight, FogStaleOnlyWhereChanged
<1> QED
  BY <1>1, <1>2, <1>3, <1>4, <1>5, <1>6, <1>7 DEF ViewNext

\* The inductive invariant of the two theorems below.
LEMMA ViewInvariant == ViewSpec => []ViewInv
<1>1. ViewInit => ViewInv
  <2> SUFFICES ASSUME ViewInit PROVE ViewInv
    OBVIOUS
  <2>1. ViewTypes
    BY ViewAssumption DEF ViewInit, ViewTypes, IsRange
  <2>2. \A t \in MapTiles : {i \in Watchers : Sees(watchers[i], t)} = {}
    BY WhoSees DEF ViewInit
  <2>3. ViewCountsExact
    BY <2>2, FS_EmptySet DEF ViewInit, ViewCountsExact
  <2>4. FogStaleOnlyWhereChanged
    BY DEF ViewInit, FogStaleOnlyWhereChanged, Shade
  <2> QED
    BY <2>1, <2>3, <2>4 DEF ViewInv
<1>2. ViewInv /\ [ViewNext]_viewVars => ViewInv'
  BY ViewStep
<1> QED
  BY <1>1, <1>2, PTL DEF ViewSpec

\* For any map, sights and own objects, Map::viewCount of a tile is the number of objects that
\* see it, through appearing, walking on and off the map, completion and death.
THEOREM ViewCountsAlwaysExact == ViewSpec => []ViewCountsExact
<1>1. ViewInv => ViewCountsExact
  BY DEF ViewInv
<1> QED
  BY <1>1, ViewInvariant, PTL

\* Whatever changed since the last frame, the texture of the fog differs from the counts only
\* within the rectangle that the next frame refreshes.
THEOREM FogUpToDate == ViewSpec => []FogStaleOnlyWhereChanged
<1>1. ViewInv => FogStaleOnlyWhereChanged
  BY DEF ViewInv
<1> QED
  BY <1>1, ViewInvariant, PTL

(***************************************************************************)
(* Lists: a concatenation of lists has what they have.                     *)
(***************************************************************************)
\* No two places of a list hold the same.
Distinct(s) == \A i, j \in DOMAIN s : s[i] = s[j] => i = j

\* Two lists, one behind the other.
LEMMA TwoLists ==
    ASSUME NEW S, NEW s \in Seq(S), NEW t \in Seq(S)
    PROVE  /\ s \o t \in Seq(S)
           /\ ToSet(s \o t) = ToSet(s) \cup ToSet(t)
           /\ Distinct(s) /\ Distinct(t) /\ ToSet(s) \cap ToSet(t) = {} => Distinct(s \o t)
<1> DEFINE u == s \o t
           m == Len(s)
           n == Len(t)
<1>1. /\ u \in Seq(S) /\ Len(u) = m + n
      /\ \A i \in 1 .. m + n : u[i] = IF i <= m THEN s[i] ELSE t[i - m]
  BY ConcatProperties
<1>2. m \in Nat /\ n \in Nat /\ DOMAIN s = 1 .. m /\ DOMAIN t = 1 .. n /\ DOMAIN u = 1 .. m + n
  BY <1>1, LenProperties
<1> HIDE DEF u, m, n
<1>3. /\ \A i \in 1 .. m : i \in 1 .. m + n /\ u[i] = s[i]
      /\ \A i \in 1 .. n : m + i \in 1 .. m + n /\ u[m + i] = t[i]
  <2>1. \A i \in 1 .. m : i \in 1 .. m + n /\ i <= m
    BY <1>2
  <2>2. \A i \in 1 .. n : m + i \in 1 .. m + n /\ ~(m + i <= m) /\ (m + i) - m = i
    BY <1>2
  <2> QED
    BY <1>1, <2>1, <2>2
<1>4. \A k \in 1 .. m + n : \/ k \in 1 .. m /\ u[k] = s[k]
                            \/ k - m \in 1 .. n /\ u[k] = t[k - m]
  <2>1. \A k \in 1 .. m + n : k <= m => k \in 1 .. m
    BY <1>2
  <2>2. \A k \in 1 .. m + n : ~(k <= m) => k - m \in 1 .. n
    BY <1>2
  <2> QED
    BY <1>1, <2>1, <2>2
<1>5. ToSet(u) = ToSet(s) \cup ToSet(t)
  <2>1. ToSet(u) \subseteq ToSet(s) \cup ToSet(t)
    BY <1>2, <1>4 DEF ToSet
  <2>2. ToSet(s) \subseteq ToSet(u) /\ ToSet(t) \subseteq ToSet(u)
    BY <1>2, <1>3 DEF ToSet
  <2> QED
    BY <2>1, <2>2
<1>6. ASSUME Distinct(s), Distinct(t), ToSet(s) \cap ToSet(t) = {}
      PROVE  Distinct(u)
  <2>1. \A i \in 1 .. m, j \in 1 .. n : s[i] # t[j]
    BY <1>2, <1>6 DEF ToSet
  <2>2. ASSUME NEW i \in 1 .. m + n, NEW j \in 1 .. m + n, u[i] = u[j]
        PROVE  i = j
    <3>1. CASE i \in 1 .. m /\ u[i] = s[i]
      <4>1. j \in 1 .. m /\ u[j] = s[j]
        BY <1>4, <2>1, <2>2, <3>1
      <4> QED
        BY <1>2, <1>6, <2>2, <3>1, <4>1 DEF Distinct
    <3>2. CASE i - m \in 1 .. n /\ u[i] = t[i - m]
      <4>1. j - m \in 1 .. n /\ u[j] = t[j - m]
        BY <1>4, <2>1, <2>2, <3>2
      <4>2. i - m = j - m
        BY <1>2, <1>6, <2>2, <3>2, <4>1 DEF Distinct
      <4> QED
        BY <1>2, <4>2
    <3> QED
      BY <1>4, <3>1, <3>2
  <2> QED
    BY <1>2, <2>2 DEF Distinct
<1> QED
  BY <1>1, <1>5, <1>6 DEF u

\* f is what FlattenSeq puts together, list by list.
JoinedUpTo(f, seqs, l) == f = [i \in 1 .. l |-> IF i = 1 THEN seqs[i] ELSE f[i - 1] \o seqs[i]]

\* There is such a function.
LEMMA JoinedExists ==
    ASSUME NEW seqs, NEW l \in Nat
    PROVE  \E f : JoinedUpTo(f, seqs, l)
<1> DEFINE H(f, n) == IF n = 1 THEN seqs[n] ELSE f[n - 1] \o seqs[n]
           S == {m \in Nat : \E f : f = [n \in 1 .. m |-> H(f, n)]}
<1>1. 0 \in S
  <2> DEFINE f == [n \in 1 .. 0 |-> <<>>]
  <2>1. f = [n \in 1 .. 0 |-> H(f, n)]
    OBVIOUS
  <2> HIDE DEF f, H
  <2> QED
    BY <2>1
<1>2. ASSUME NEW m \in Nat, m \in S PROVE m + 1 \in S
  <2>1. PICK f : f = [n \in 1 .. m |-> H(f, n)]
    BY <1>2
  <2> DEFINE g == [n \in 1 .. m + 1 |-> H(f, n)]
  <2>2. \A n \in 1 .. m : g[n] = f[n]
    <3>1. \A n \in 1 .. m : n \in 1 .. m + 1
      OBVIOUS
    <3> HIDE DEF H
    <3> QED
      BY <3>1, <2>1
  <2>3. \A n \in 1 .. m + 1 : n # 1 => n - 1 \in 1 .. m
    OBVIOUS
  <2>4. \A n \in 1 .. m + 1 : H(f, n) = H(g, n)
    BY <2>2, <2>3
  <2>5. g = [n \in 1 .. m + 1 |-> H(g, n)]
    <3> HIDE DEF H
    <3> QED
      BY <2>4
  <2> HIDE DEF g, H
  <2> QED
    BY <2>5
<1> HIDE DEF S
<1>3. l \in S
  BY <1>1, <1>2, SetInduction
<1> QED
  BY <1>3 DEF S, JoinedUpTo

\* Any number of lists.
LEMMA ManyLists ==
    ASSUME NEW S, NEW seqs \in Seq(Seq(S))
    PROVE  LET all == FlattenSeq(seqs)
           IN  /\ all \in Seq(S)
               /\ ToSet(all) = UNION {ToSet(seqs[i]) : i \in DOMAIN seqs}
               /\ (/\ \A i \in DOMAIN seqs : Distinct(seqs[i])
                   /\ \A i, j \in DOMAIN seqs : i # j => ToSet(seqs[i]) \cap ToSet(seqs[j]) = {})
                     => Distinct(all)
<1> DEFINE l == Len(seqs)
<1>1. l \in Nat /\ DOMAIN seqs = 1 .. l /\ \A i \in 1 .. l : seqs[i] \in Seq(S)
  BY LenProperties
<1>2. CASE l = 0
  <2>1. seqs = <<>> /\ <<>> \in Seq(S)
    BY <1>2
  <2>2. FlattenSeq(seqs) = <<>>
    BY <1>2, <2>1 DEF FlattenSeq
  <2>3. DOMAIN seqs = {} /\ ToSet(<<>>) = {} /\ Distinct(<<>>)
    BY <1>1, <1>2 DEF ToSet, Distinct
  <2> QED
    BY <2>1, <2>2, <2>3
<1>3. CASE l # 0
  <2> DEFINE f == CHOOSE h : JoinedUpTo(h, seqs, l)
  <2>1. JoinedUpTo(f, seqs, l)
    BY <1>1, JoinedExists
  <2>2. FlattenSeq(seqs) = f[l]
    BY <1>3 DEF FlattenSeq, JoinedUpTo
  <2> HIDE DEF f, l
  <2>3. \A i \in 1 .. l : f[i] = IF i = 1 THEN seqs[i] ELSE f[i - 1] \o seqs[i]
    BY <2>1 DEF JoinedUpTo
  <2> DEFINE Single == /\ \A i \in 1 .. l : Distinct(seqs[i])
                       /\ \A i, j \in 1 .. l : i # j => ToSet(seqs[i]) \cap ToSet(seqs[j]) = {}
             Joined(i) == /\ f[i] \in Seq(S)
                          /\ ToSet(f[i]) = UNION {ToSet(seqs[k]) : k \in 1 .. i}
                          /\ Single => Distinct(f[i])
             N == {i \in Nat : i + 1 <= l => Joined(i + 1)}
  <2>4. 0 \in N
    <3>1. 1 \in 1 .. l /\ f[1] = seqs[1]
      BY <1>1, <1>3, <2>3
    <3>2. {ToSet(seqs[k]) : k \in 1 .. 1} = {ToSet(seqs[1])}
      OBVIOUS
    <3>3. Joined(1)
      BY <1>1, <3>1, <3>2
    <3> HIDE DEF Joined
    <3> QED
      BY <3>3
  <2>5. ASSUME NEW i \in Nat, i \in N PROVE i + 1 \in N
    <3>1. SUFFICES ASSUME i + 2 <= l PROVE Joined(i + 2)
      <4> HIDE DEF Joined
      <4>1. (i + 1) + 1 = i + 2
        OBVIOUS
      <4> QED
        BY <4>1
    <3>2. /\ i + 1 <= l /\ i + 2 \in 1 .. l /\ i + 2 # 1 /\ (i + 2) - 1 = i + 1
          /\ i + 1 \in 1 .. l /\ \A k \in 1 .. i + 1 : k \in 1 .. l /\ k # i + 2
          /\ 1 .. i + 2 = (1 .. i + 1) \cup {i + 2}
      BY <1>1, <3>1
    <3>3. Joined(i + 1)
      <4> HIDE DEF Joined
      <4> QED
        BY <2>5, <3>2
    <3>4. f[i + 2] = f[i + 1] \o seqs[i + 2] /\ seqs[i + 2] \in Seq(S)
      BY <1>1, <2>3, <3>2
    <3>5. f[i + 2] \in Seq(S) /\ ToSet(f[i + 2]) = ToSet(f[i + 1]) \cup ToSet(seqs[i + 2])
      BY <3>3, <3>4, TwoLists
    <3>6. ToSet(f[i + 2]) = UNION {ToSet(seqs[k]) : k \in 1 .. i + 2}
      BY <3>2, <3>3, <3>5
    <3>7. ASSUME Single PROVE Distinct(f[i + 2])
      <4>1. ToSet(f[i + 1]) \cap ToSet(seqs[i + 2]) = {}
        <5>1. \A k \in 1 .. i + 1 : ToSet(seqs[k]) \cap ToSet(seqs[i + 2]) = {}
          BY <3>2, <3>7
        <5> QED
          BY <3>3, <5>1
      <4>2. Distinct(f[i + 1]) /\ Distinct(seqs[i + 2])
        BY <3>2, <3>3, <3>7
      <4> DEFINE s == f[i + 1]
                 t == seqs[i + 2]
      <4>3. s \in Seq(S) /\ t \in Seq(S)
        BY <3>3, <3>4
      <4> HIDE DEF s, t
      <4>4. Distinct(s) /\ Distinct(t) /\ ToSet(s) \cap ToSet(t) = {} => Distinct(s \o t)
        BY <4>3, TwoLists
      <4> QED
        BY <3>4, <4>1, <4>2, <4>4 DEF s, t
    <3> QED
      BY <3>5, <3>6, <3>7
  <2>6. l - 1 \in N
    <3> HIDE DEF N
    <3>1. l - 1 \in Nat
      BY <1>1, <1>3
    <3> QED
      BY <2>4, <2>5, <3>1, SetInduction
  <2>7. Joined(l)
    <3> HIDE DEF Joined
    <3>1. (l - 1) + 1 = l /\ l <= l
      BY <1>1
    <3> QED
      BY <2>6, <3>1
  <2> QED
    BY <1>1, <2>2, <2>7
<1> QED
  BY <1>2, <1>3

(***************************************************************************)
(* Rectangles: what is left of a free one, and which ones prune others.    *)
(***************************************************************************)
Rects == [x : Int, y : Int, width : Int, height : Int]

\* The parts of f above, below, left and right of u.
Parts(f, u) ==
    {r \in {[f EXCEPT !.height = u.y - f.y]} : u.y > f.y}
    \cup {r \in {[f EXCEPT !.y = Bottom(u), !.height = Bottom(f) - Bottom(u)]} : Bottom(u) < Bottom(f)}
    \cup {r \in {[f EXCEPT !.width = u.x - f.x]} : u.x > f.x}
    \cup {r \in {[f EXCEPT !.x = Right(u), !.width = Right(f) - Right(u)]} : Right(u) < Right(f)}

\* What a list of one element, and what the empty list has.
LEMMA OneOrNone ==
    ASSUME NEW S
    PROVE  /\ \A r \in S : <<r>> \in Seq(S) /\ ToSet(<<r>>) = {r} /\ Distinct(<<r>>)
           /\ <<>> \in Seq(S) /\ ToSet(<<>>) = {} /\ Distinct(<<>>)
BY DEF ToSet, Distinct

\* SplitFreeNode lists the parts.
LEMMA SplitListsParts ==
    ASSUME NEW f \in Rects, NEW u \in Rects
    PROVE  /\ SplitFreeNode(f, u) \in Seq(Rects)
           /\ ToSet(SplitFreeNode(f, u)) = Parts(f, u)
<1> DEFINE a == [f EXCEPT !.height = u.y - f.y]
           b == [f EXCEPT !.y = Bottom(u), !.height = Bottom(f) - Bottom(u)]
           c == [f EXCEPT !.width = u.x - f.x]
           d == [f EXCEPT !.x = Right(u), !.width = Right(f) - Right(u)]
           A == IF u.y > f.y THEN <<a>> ELSE <<>>
           B == IF Bottom(u) < Bottom(f) THEN <<b>> ELSE <<>>
           C == IF u.x > f.x THEN <<c>> ELSE <<>>
           D == IF Right(u) < Right(f) THEN <<d>> ELSE <<>>
<1>1. a \in Rects /\ b \in Rects /\ c \in Rects /\ d \in Rects
  <2>1. /\ f.x \in Int /\ f.y \in Int /\ f.width \in Int /\ f.height \in Int
        /\ u.y - f.y \in Int /\ u.x - f.x \in Int
        /\ Bottom(u) \in Int /\ Bottom(f) - Bottom(u) \in Int
        /\ Right(u) \in Int /\ Right(f) - Right(u) \in Int
    BY DEF Rects, Bottom, Right
  <2>2. \A v, w \in Int : /\ [f EXCEPT !.height = w] \in Rects /\ [f EXCEPT !.width = w] \in Rects
                          /\ [f EXCEPT !.y = v, !.height = w] \in Rects
                          /\ [f EXCEPT !.x = v, !.width = w] \in Rects
    BY DEF Rects
  <2> QED
    BY <2>1, <2>2
<1>2. SplitFreeNode(f, u) = A \o B \o C \o D
  BY DEF SplitFreeNode
<1>3. Parts(f, u) = {r \in {a} : u.y > f.y} \cup {r \in {b} : Bottom(u) < Bottom(f)}
                      \cup {r \in {c} : u.x > f.x} \cup {r \in {d} : Right(u) < Right(f)}
  BY DEF Parts
<1> HIDE DEF a, b, c, d
<1>4. A \in Seq(Rects) /\ ToSet(A) = {r \in {a} : u.y > f.y}
  BY <1>1, OneOrNone
<1>5. B \in Seq(Rects) /\ ToSet(B) = {r \in {b} : Bottom(u) < Bottom(f)}
  BY <1>1, OneOrNone
<1>6. C \in Seq(Rects) /\ ToSet(C) = {r \in {c} : u.x > f.x}
  BY <1>1, OneOrNone
<1>7. D \in Seq(Rects) /\ ToSet(D) = {r \in {d} : Right(u) < Right(f)}
  BY <1>1, OneOrNone
<1> HIDE DEF A, B, C, D
<1>8. A \o B \in Seq(Rects) /\ ToSet(A \o B) = ToSet(A) \cup ToSet(B)
  BY <1>4, <1>5, TwoLists
<1> DEFINE AB  == A \o B
           ABC == AB \o C
<1>9. AB \in Seq(Rects)
  BY <1>8
<1> HIDE DEF AB
<1>10. ABC \in Seq(Rects) /\ ToSet(ABC) = ToSet(AB) \cup ToSet(C)
  BY <1>6, <1>9, TwoLists
<1> HIDE DEF ABC
<1>11. ABC \o D \in Seq(Rects) /\ ToSet(ABC \o D) = ToSet(ABC) \cup ToSet(D)
  BY <1>7, <1>10, TwoLists
<1> QED
  BY <1>2, <1>3, <1>4, <1>5, <1>6, <1>7, <1>8, <1>10, <1>11 DEF AB, ABC

\* What the list of free rectangles is before it is pruned.
LEMMA SplitList ==
    ASSUME NEW p, p.free \in Seq(Rects), NEW node \in Rects
    PROVE  \E list \in Seq(Rects) :
             /\ PlaceRect(p, node) = [p EXCEPT !.free = Pruned(list), !.used = Append(@, node)]
             /\ ToSet(list) = {f \in ToSet(p.free) : Disjoint(f, node)}
                                \cup UNION {Parts(f, node) : f \in {g \in ToSet(p.free) : ~Disjoint(g, node)}}
<1> DEFINE l == Len(p.free)
           K == [i \in DOMAIN p.free |-> IF ~Disjoint(p.free[i], node) THEN <<>> ELSE <<p.free[i]>>]
           P == [i \in DOMAIN p.free |->
                   IF ~Disjoint(p.free[i], node) THEN SplitFreeNode(p.free[i], node) ELSE <<>>]
<1>1. PlaceRect(p, node) = [p EXCEPT !.free = Pruned(FlattenSeq(K) \o FlattenSeq(P)), !.used = Append(@, node)]
  BY DEF PlaceRect
<1>2. l \in Nat /\ DOMAIN p.free = 1 .. l /\ \A i \in 1 .. l : p.free[i] \in Rects
  BY LenProperties
<1> HIDE DEF l
<1>3. \A i \in 1 .. l : /\ K[i] \in Seq(Rects)
                        /\ ToSet(K[i]) = {f \in {p.free[i]} : Disjoint(f, node)}
  BY <1>2, OneOrNone
<1>4. \A i \in 1 .. l : /\ P[i] \in Seq(Rects)
                        /\ ToSet(P[i]) = UNION {Parts(f, node) : f \in {g \in {p.free[i]} : ~Disjoint(g, node)}}
  <2> TAKE i \in 1 .. l
  <2>1. CASE Disjoint(p.free[i], node)
    <3>1. P[i] = <<>> /\ {g \in {p.free[i]} : ~Disjoint(g, node)} = {}
      BY <1>2, <2>1
    <3> QED
      BY <3>1, OneOrNone
  <2>2. CASE ~Disjoint(p.free[i], node)
    <3>1. P[i] = SplitFreeNode(p.free[i], node) /\ {g \in {p.free[i]} : ~Disjoint(g, node)} = {p.free[i]}
      BY <1>2, <2>2
    <3>2. P[i] \in Seq(Rects) /\ ToSet(P[i]) = Parts(p.free[i], node)
      BY <1>2, <3>1, SplitListsParts
    <3> QED
      BY <3>1, <3>2
  <2> QED
    BY <2>1, <2>2
<1>5. K \in Seq(Seq(Rects)) /\ P \in Seq(Seq(Rects)) /\ DOMAIN K = 1 .. l /\ DOMAIN P = 1 .. l
  <2>1. K \in [1 .. l -> Seq(Rects)] /\ P \in [1 .. l -> Seq(Rects)]
    BY <1>2, <1>3, <1>4
  <2> HIDE DEF K, P
  <2> QED
    BY <1>2, <2>1
<1> HIDE DEF K, P
<1> DEFINE k == FlattenSeq(K)
           q == FlattenSeq(P)
<1>6. /\ k \in Seq(Rects) /\ ToSet(k) = UNION {ToSet(K[i]) : i \in 1 .. l}
      /\ q \in Seq(Rects) /\ ToSet(q) = UNION {ToSet(P[i]) : i \in 1 .. l}
  BY <1>5, ManyLists
<1> HIDE DEF k, q
<1>7. k \o q \in Seq(Rects) /\ ToSet(k \o q) = ToSet(k) \cup ToSet(q)
  BY <1>6, TwoLists
<1> DEFINE F == ToSet(p.free)
<1>8. /\ \A f : f \in F <=> \E i \in 1 .. l : f = p.free[i]
      /\ \A f : f \in ToSet(k) <=> \E i \in 1 .. l : f \in ToSet(K[i])
      /\ \A f : f \in ToSet(q) <=> \E i \in 1 .. l : f \in ToSet(P[i])
  <2>1. \A f : f \in F <=> \E i \in 1 .. l : f = p.free[i]
    BY <1>2 DEF ToSet
  <2> HIDE DEF F
  <2> QED
    BY <1>6, <2>1
<1> HIDE DEF F
<1>9. ToSet(k) = {f \in F : Disjoint(f, node)}
  <2>1. \A i \in 1 .. l : \A f : f \in ToSet(K[i]) <=> f = p.free[i] /\ Disjoint(f, node)
    BY <1>3
  <2>2. \A f : f \in ToSet(k) <=> f \in F /\ Disjoint(f, node)
    BY <1>8, <2>1
  <2> QED
    BY <2>2
<1>10. ToSet(q) = UNION {Parts(f, node) : f \in {g \in F : ~Disjoint(g, node)}}
  <2>1. \A i \in 1 .. l : \A r : r \in ToSet(P[i]) <=> r \in Parts(p.free[i], node) /\ ~Disjoint(p.free[i], node)
    <3> TAKE i \in 1 .. l
    <3>1. ToSet(P[i]) = UNION {Parts(f, node) : f \in {g \in {p.free[i]} : ~Disjoint(g, node)}}
      BY <1>4
    <3>2. \A r : r \in ToSet(P[i]) <=> \E f \in {p.free[i]} : ~Disjoint(f, node) /\ r \in Parts(f, node)
      BY <3>1
    <3> QED
      BY <3>2
  <2>2. \A r : r \in ToSet(q) <=> \E f \in F : ~Disjoint(f, node) /\ r \in Parts(f, node)
    BY <1>8, <2>1
  <2> QED
    BY <2>2
<1> QED
  BY <1>1, <1>7, <1>9, <1>10 DEF k, q, F

Size(r) == r.width + r.height

\* To lie in another is an order, and whatever lies in another of its size is the same.
LEMMA ContainedOrder ==
    ASSUME NEW a \in Rects, NEW b \in Rects
    PROVE  /\ IsContainedIn(a, a)
           /\ \A c \in Rects : IsContainedIn(a, b) /\ IsContainedIn(b, c) => IsContainedIn(a, c)
           /\ Size(a) \in Int
           /\ IsContainedIn(a, b) => Size(a) <= Size(b)
           /\ IsContainedIn(a, b) /\ Size(a) = Size(b) => a = b
           /\ IsContainedIn(a, b) /\ IsContainedIn(b, a) => a = b
<1>1. \A r \in Rects : /\ r = [x |-> r.x, y |-> r.y, width |-> r.width, height |-> r.height]
                       /\ r.x \in Int /\ r.y \in Int /\ r.width \in Int /\ r.height \in Int
  BY DEF Rects
<1>2. a.x = b.x /\ a.y = b.y /\ a.width = b.width /\ a.height = b.height => a = b
  BY <1>1
<1>3. IsContainedIn(a, a) /\ Size(a) \in Int
  BY <1>1 DEF IsContainedIn, Size, Right, Bottom
<1>4. ASSUME NEW c \in Rects, IsContainedIn(a, b), IsContainedIn(b, c)
      PROVE  IsContainedIn(a, c)
  <2>1. /\ a.x \in Int /\ b.x \in Int /\ c.x \in Int /\ Right(a) \in Int /\ Right(b) \in Int /\ Right(c) \in Int
        /\ a.y \in Int /\ b.y \in Int /\ c.y \in Int /\ Bottom(a) \in Int /\ Bottom(b) \in Int /\ Bottom(c) \in Int
    BY <1>1 DEF Right, Bottom
  <2> QED
    BY <1>4, <2>1 DEF IsContainedIn
<1>5. ASSUME IsContainedIn(a, b)
      PROVE  a.width <= b.width /\ a.height <= b.height /\ a.x >= b.x /\ a.y >= b.y
             /\ a.x + a.width <= b.x + b.width /\ a.y + a.height <= b.y + b.height
  BY <1>1, <1>5 DEF IsContainedIn, Right, Bottom
<1>6. ASSUME IsContainedIn(a, b) PROVE Size(a) <= Size(b)
  BY <1>1, <1>5, <1>6 DEF Size
<1>7. ASSUME IsContainedIn(a, b), Size(a) = Size(b) PROVE a = b
  BY <1>1, <1>2, <1>5, <1>7 DEF Size
<1>8. ASSUME IsContainedIn(a, b), IsContainedIn(b, a) PROVE a = b
  <2>1. Size(b) <= Size(a)
    BY <1>1, <1>8 DEF IsContainedIn, Right, Bottom, Size
  <2>2. Size(a) <= Size(b) /\ Size(a) \in Int /\ Size(b) \in Int
    BY <1>1, <1>6, <1>8 DEF Size
  <2> QED
    BY <1>7, <1>8, <2>1, <2>2
<1> QED
  BY <1>3, <1>4, <1>6, <1>7, <1>8

\* PruneFreeList keeps the largest ones, each once.
LEMMA PrunedKeepsLargest ==
    ASSUME NEW list \in Seq(Rects)
    PROVE  /\ Pruned(list) \in Seq(Rects) /\ Distinct(Pruned(list))
           /\ ToSet(Pruned(list)) \subseteq ToSet(list)
           /\ \A a, b \in ToSet(Pruned(list)) : IsContainedIn(a, b) => a = b
           /\ \A r \in ToSet(list) : \E a \in ToSet(Pruned(list)) : IsContainedIn(r, a)
<1> DEFINE l == Len(list)
           R == {i \in DOMAIN list : \E j \in DOMAIN list \ {i} :
                   /\ IsContainedIn(list[i], list[j])
                   /\ list[i] = list[j] => i < j}
           seqs == [i \in DOMAIN list |-> IF i \in R THEN <<>> ELSE <<list[i]>>]
           kept == Pruned(list)
<1>1. kept = FlattenSeq(seqs)
  BY DEF Pruned
<1>2. l \in Nat /\ DOMAIN list = 1 .. l /\ \A i \in 1 .. l : list[i] \in Rects
  BY LenProperties
<1> HIDE DEF l, kept
<1>3. R \subseteq 1 .. l /\ \A i \in 1 .. l : i \in R <=> \E j \in 1 .. l \ {i} :
                              IsContainedIn(list[i], list[j]) /\ (list[i] = list[j] => i < j)
  BY <1>2
<1>4. DOMAIN seqs = 1 .. l /\ \A i \in 1 .. l : seqs[i] = IF i \in R THEN <<>> ELSE <<list[i]>>
  BY <1>2
<1>5. seqs \in Seq(Seq(Rects))
  <2> HIDE DEF R
  <2>1. seqs \in [1 .. l -> Seq(Rects)]
    BY <1>2, OneOrNone
  <2> HIDE DEF seqs
  <2> QED
    BY <1>2, <2>1
<1> HIDE DEF R, seqs
<1>6. \A i \in 1 .. l : /\ Distinct(seqs[i])
                        /\ \A r : r \in ToSet(seqs[i]) <=> i \notin R /\ r = list[i]
  BY <1>2, <1>4, OneOrNone
<1>7. /\ kept \in Seq(Rects) /\ ToSet(kept) = UNION {ToSet(seqs[i]) : i \in 1 .. l}
      /\ (/\ \A i \in 1 .. l : Distinct(seqs[i])
          /\ \A i, j \in 1 .. l : i # j => ToSet(seqs[i]) \cap ToSet(seqs[j]) = {})
            => Distinct(kept)
  BY <1>1, <1>4, <1>5, ManyLists
<1>8. \A r : r \in ToSet(kept) <=> \E i \in 1 .. l : i \notin R /\ r = list[i]
  BY <1>6, <1>7
\* Two that are kept do not lie in each other.
<1>9. ASSUME NEW i \in 1 .. l, NEW j \in 1 .. l, i \notin R, j \notin R, i # j
      PROVE  ~IsContainedIn(list[i], list[j])
  <2>1. CASE list[i] = list[j]
    <3>1. IsContainedIn(list[i], list[j]) /\ IsContainedIn(list[j], list[i])
      BY <1>2, <2>1, ContainedOrder
    <3>2. ~(i < j) /\ ~(j < i)
      BY <1>3, <1>9, <2>1, <3>1
    <3> QED
      BY <1>9, <3>2
  <2>2. CASE list[i] # list[j]
    BY <1>3, <1>9, <2>2
  <2> QED
    BY <2>1, <2>2
<1>10. Distinct(kept)
  <2>1. ASSUME NEW i \in 1 .. l, NEW j \in 1 .. l, i # j, NEW r \in ToSet(seqs[i]), r \in ToSet(seqs[j])
        PROVE  FALSE
    <3>1. i \notin R /\ j \notin R /\ list[i] = list[j]
      BY <1>6, <2>1
    <3>2. IsContainedIn(list[i], list[j])
      BY <1>2, <3>1, ContainedOrder
    <3> QED
      BY <1>9, <2>1, <3>1, <3>2
  <2>2. \A i, j \in 1 .. l : i # j => ToSet(seqs[i]) \cap ToSet(seqs[j]) = {}
    BY <2>1
  <2> QED
    BY <1>6, <1>7, <2>2
<1>11. \A a, b \in ToSet(kept) : IsContainedIn(a, b) => a = b
  BY <1>8, <1>9
<1>12. ASSUME NEW r \in ToSet(list)
       PROVE  \E a \in ToSet(kept) : IsContainedIn(r, a)
  <2>1. PICK i \in 1 .. l : r = list[i]
    BY <1>2, <1>12 DEF ToSet
  <2> DEFINE T == {j \in 1 .. l : IsContainedIn(r, list[j])}
             w == [j \in 1 .. l |-> Size(list[j])]
  <2>2. /\ i \in T /\ IsFiniteSet(T) /\ r \in Rects
        /\ \A j \in T : w[j] \in Int /\ w[j] = Size(list[j]) /\ list[j] \in Rects
    <3>1. IsFiniteSet(1 .. l)
      BY <1>2, FS_Interval
    <3>2. IsFiniteSet(T)
      BY <3>1, FS_Subset
    <3>3. i \in T /\ r \in Rects
      BY <1>2, <2>1, ContainedOrder
    <3> QED
      BY <1>2, <3>2, <3>3, ContainedOrder
  <2>3. PICK j \in T : \A k \in T : w[k] <= w[j]
    <3> HIDE DEF T, w
    <3> QED
      BY <2>2, LargestOf
  <2> DEFINE U == {k \in T : w[k] = w[j]}
             id == [k \in 1 .. l |-> k]
  <2>4. /\ j \in U /\ IsFiniteSet(U) /\ \A k \in U : id[k] \in Int /\ id[k] = k
    <3>1. IsFiniteSet(U)
      BY <2>2, FS_Subset
    <3> QED
      BY <1>2, <3>1
  <2>5. PICK m \in U : \A k \in U : id[k] <= id[m]
    <3> HIDE DEF U, id
    <3> QED
      BY <2>4, LargestOf
  <2>6. /\ m \in 1 .. l /\ IsContainedIn(r, list[m]) /\ list[m] \in Rects
        /\ \A k \in T : Size(list[k]) <= Size(list[m])
        /\ \A k \in T : Size(list[k]) = Size(list[m]) => k <= m
    <3>1. m \in T /\ w[m] = w[j]
      BY <2>5
    <3>2. \A k \in T : w[k] <= w[m] /\ (w[k] = w[m] => k <= m)
      BY <2>3, <2>4, <2>5, <3>1
    <3> QED
      BY <2>2, <3>1, <3>2
  <2>7. m \notin R
    <3>1. SUFFICES ASSUME NEW k \in 1 .. l \ {m}, IsContainedIn(list[m], list[k]),
                          list[m] = list[k] => m < k
                   PROVE  FALSE
      BY <1>3, <2>6
    <3>2. list[k] \in Rects /\ IsContainedIn(r, list[k])
      BY <1>2, <2>2, <2>6, <3>1, ContainedOrder
    <3>3. k \in T
      BY <3>2
    <3>4. Size(list[m]) <= Size(list[k]) /\ Size(list[m]) \in Int /\ Size(list[k]) \in Int
      BY <2>6, <3>1, <3>2, ContainedOrder
    <3>5. Size(list[k]) = Size(list[m]) /\ k <= m
      BY <2>6, <3>3, <3>4
    <3>6. list[m] = list[k]
      BY <2>6, <3>1, <3>2, <3>5, ContainedOrder
    <3> QED
      BY <1>2, <2>6, <3>1, <3>5, <3>6
  <2> QED
    BY <1>8, <2>6, <2>7
<1> QED
  <2>1. ToSet(kept) \subseteq ToSet(list)
    BY <1>2, <1>8 DEF ToSet
  <2> QED
    BY <1>7, <1>10, <1>11, <1>12, <2>1 DEF kept

(***************************************************************************)
(* What is split off a free rectangle.                                     *)
(***************************************************************************)
Positive(r) == r.width > 0 /\ r.height > 0

\* The fields of a rectangle are integers.
LEMMA RectFields ==
    \A r \in Rects : /\ r.x \in Int /\ r.y \in Int /\ r.width \in Int /\ r.height \in Int
                     /\ Right(r) \in Int /\ Bottom(r) \in Int
BY DEF Rects, Right, Bottom

\* The parts lie in the free rectangle and outside of the used one.
LEMMA PartsAreFree ==
    ASSUME NEW f \in Rects, NEW u \in Rects, ~Disjoint(f, u), NEW r \in Parts(f, u)
    PROVE  r \in Rects /\ IsContainedIn(r, f) /\ Disjoint(r, u) /\ (Positive(f) => Positive(r))
<1>1. /\ f.x \in Int /\ f.y \in Int /\ f.width \in Int /\ f.height \in Int
      /\ u.x \in Int /\ u.y \in Int /\ u.width \in Int /\ u.height \in Int
      /\ f = [x |-> f.x, y |-> f.y, width |-> f.width, height |-> f.height]
  BY DEF Rects
<1>2. /\ f.x + f.width > u.x /\ u.x + u.width > f.x
      /\ f.y + f.height > u.y /\ u.y + u.height > f.y
  BY <1>1 DEF Disjoint, Right, Bottom
<1>3. CASE r = [f EXCEPT !.height = u.y - f.y] /\ u.y > f.y
  <2>1. r = [x |-> f.x, y |-> f.y, width |-> f.width, height |-> u.y - f.y]
    BY <1>1, <1>3
  <2> QED
    BY <1>1, <1>2, <1>3, <2>1 DEF Rects, IsContainedIn, Disjoint, Positive, Right, Bottom
<1>4. CASE r = [f EXCEPT !.y = Bottom(u), !.height = Bottom(f) - Bottom(u)] /\ Bottom(u) < Bottom(f)
  <2>1. r = [x |-> f.x, y |-> Bottom(u), width |-> f.width, height |-> Bottom(f) - Bottom(u)]
    BY <1>1, <1>4
  <2> QED
    BY <1>1, <1>2, <1>4, <2>1 DEF Rects, IsContainedIn, Disjoint, Positive, Right, Bottom
<1>5. CASE r = [f EXCEPT !.width = u.x - f.x] /\ u.x > f.x
  <2>1. r = [x |-> f.x, y |-> f.y, width |-> u.x - f.x, height |-> f.height]
    BY <1>1, <1>5
  <2> QED
    BY <1>1, <1>2, <1>5, <2>1 DEF Rects, IsContainedIn, Disjoint, Positive, Right, Bottom
<1>6. CASE r = [f EXCEPT !.x = Right(u), !.width = Right(f) - Right(u)] /\ Right(u) < Right(f)
  <2>1. r = [x |-> Right(u), y |-> f.y, width |-> Right(f) - Right(u), height |-> f.height]
    BY <1>1, <1>6
  <2> QED
    BY <1>1, <1>2, <1>6, <2>1 DEF Rects, IsContainedIn, Disjoint, Positive, Right, Bottom
<1> QED
  BY <1>3, <1>4, <1>5, <1>6 DEF Parts

\* What lies in the free rectangle and outside of the used one lies in one of the parts.
LEMMA PartsCover ==
    ASSUME NEW f \in Rects, NEW u \in Rects, ~Disjoint(f, u),
           NEW r \in Rects, Positive(r), IsContainedIn(r, f), Disjoint(r, u)
    PROVE  \E q \in Parts(f, u) : IsContainedIn(r, q)
<1>1. /\ f.x \in Int /\ f.y \in Int /\ f.width \in Int /\ f.height \in Int
      /\ u.x \in Int /\ u.y \in Int /\ u.width \in Int /\ u.height \in Int
      /\ r.x \in Int /\ r.y \in Int /\ r.width \in Int /\ r.height \in Int
      /\ f = [x |-> f.x, y |-> f.y, width |-> f.width, height |-> f.height]
  BY DEF Rects
<1>2. /\ r.x >= f.x /\ r.y >= f.y /\ r.x + r.width <= f.x + f.width
      /\ r.y + r.height <= f.y + f.height /\ r.width > 0 /\ r.height > 0
  BY DEF IsContainedIn, Positive, Right, Bottom
<1>3. CASE r.y + r.height <= u.y
  <2> DEFINE q == [f EXCEPT !.height = u.y - f.y]
  <2>1. u.y > f.y
    BY <1>1, <1>2, <1>3
  <2>2. q \in Parts(f, u)
    BY <2>1 DEF Parts
  <2>3. q.x = f.x /\ q.y = f.y /\ q.width = f.width /\ q.height = u.y - f.y
    BY <1>1
  <2> HIDE DEF q
  <2>4. IsContainedIn(r, q)
    BY <1>1, <1>2, <1>3, <2>3 DEF IsContainedIn, Right, Bottom
  <2> QED
    BY <2>2, <2>4
<1>4. CASE u.y + u.height <= r.y
  <2> DEFINE q == [f EXCEPT !.y = Bottom(u), !.height = Bottom(f) - Bottom(u)]
  <2>1. Bottom(u) < Bottom(f)
    BY <1>1, <1>2, <1>4 DEF Bottom
  <2>2. q \in Parts(f, u)
    BY <2>1 DEF Parts
  <2>3. q.x = f.x /\ q.y = Bottom(u) /\ q.width = f.width /\ q.height = Bottom(f) - Bottom(u)
    BY <1>1
  <2> HIDE DEF q
  <2>4. IsContainedIn(r, q)
    BY <1>1, <1>2, <1>4, <2>3 DEF IsContainedIn, Right, Bottom
  <2> QED
    BY <2>2, <2>4
<1>5. CASE r.x + r.width <= u.x
  <2> DEFINE q == [f EXCEPT !.width = u.x - f.x]
  <2>1. u.x > f.x
    BY <1>1, <1>2, <1>5
  <2>2. q \in Parts(f, u)
    BY <2>1 DEF Parts
  <2>3. q.x = f.x /\ q.y = f.y /\ q.height = f.height /\ q.width = u.x - f.x
    BY <1>1
  <2> HIDE DEF q
  <2>4. IsContainedIn(r, q)
    BY <1>1, <1>2, <1>5, <2>3 DEF IsContainedIn, Right, Bottom
  <2> QED
    BY <2>2, <2>4
<1>6. CASE u.x + u.width <= r.x
  <2> DEFINE q == [f EXCEPT !.x = Right(u), !.width = Right(f) - Right(u)]
  <2>1. Right(u) < Right(f)
    BY <1>1, <1>2, <1>6 DEF Right
  <2>2. q \in Parts(f, u)
    BY <2>1 DEF Parts
  <2>3. q.x = Right(u) /\ q.y = f.y /\ q.height = f.height /\ q.width = Right(f) - Right(u)
    BY <1>1
  <2> HIDE DEF q
  <2>4. IsContainedIn(r, q)
    BY <1>1, <1>2, <1>6, <2>3 DEF IsContainedIn, Right, Bottom
  <2> QED
    BY <2>2, <2>4
<1> QED
  BY <1>3, <1>4, <1>5, <1>6 DEF Disjoint, Right, Bottom

\* What is apart from a rectangle is apart from all that lies in it.
LEMMA DisjointWithin ==
    ASSUME NEW a \in Rects, NEW b \in Rects, NEW u \in Rects, IsContainedIn(a, b), Disjoint(b, u)
    PROVE  Disjoint(a, u) /\ Disjoint(u, a)
<1>1. /\ a.x \in Int /\ a.y \in Int /\ Right(a) \in Int /\ Bottom(a) \in Int
      /\ b.x \in Int /\ b.y \in Int /\ Right(b) \in Int /\ Bottom(b) \in Int
      /\ u.x \in Int /\ u.y \in Int /\ Right(u) \in Int /\ Bottom(u) \in Int
  BY RectFields
<1> QED
  BY <1>1 DEF IsContainedIn, Disjoint

(***************************************************************************)
(* A packer: what is used lies in the bin, apart from everything else used *)
(* and from the free rectangles; and for rectangles that are not empty,    *)
(* whatever is free lies in one of the list, none of which is redundant.   *)
(***************************************************************************)
Packers ==
    [bin  : [width : Int, height : Int, allowFlip : BOOLEAN],
     free : Seq(Rects),
     used : Seq(Rects)]

Area(p) == Rect(0, 0, p.bin.width, p.bin.height)

UsedApart(p) ==
    /\ p \in Packers
    /\ \A f \in ToSet(p.free) : /\ IsContainedIn(f, Area(p))
                                /\ \A i \in DOMAIN p.used : Disjoint(f, p.used[i])
    /\ \A i \in DOMAIN p.used : IsContainedIn(p.used[i], Area(p))
    /\ \A i, j \in DOMAIN p.used : i # j => Disjoint(p.used[i], p.used[j])

Unused(p) ==
    {r \in Rects : /\ Positive(r) /\ IsContainedIn(r, Area(p))
                   /\ \A i \in DOMAIN p.used : Disjoint(r, p.used[i])}

FreeExact(p) ==
    /\ Distinct(p.free)
    /\ ToSet(p.free) \subseteq Unused(p)
    /\ \A i \in DOMAIN p.used : Positive(p.used[i])
    /\ \A f, g \in ToSet(p.free) : IsContainedIn(f, g) => f = g
    /\ \A r \in Unused(p) : \E f \in ToSet(p.free) : IsContainedIn(r, f)

\* What a packer consists of.
LEMMA PackerFacts ==
    ASSUME NEW p \in Packers
    PROVE  /\ Area(p) \in Rects
           /\ p.free \in Seq(Rects) /\ p.used \in Seq(Rects)
           /\ Len(p.used) \in Nat /\ DOMAIN p.used = 1 .. Len(p.used)
           /\ \A i \in DOMAIN p.used : p.used[i] \in Rects
           /\ \A f \in ToSet(p.free) : f \in Rects
<1>1. /\ p.free \in Seq(Rects) /\ p.used \in Seq(Rects)
      /\ p.bin.width \in Int /\ p.bin.height \in Int
  BY DEF Packers
<1>2. Area(p) \in Rects
  BY <1>1 DEF Area, Rect, Rects
<1>3. /\ Len(p.used) \in Nat /\ DOMAIN p.used = 1 .. Len(p.used)
      /\ \A i \in DOMAIN p.used : p.used[i] \in Rects
  BY <1>1, LenProperties
<1>4. \A f \in ToSet(p.free) : f \in Rects
  BY <1>1, LenProperties DEF ToSet
<1> QED
  BY <1>1, <1>2, <1>3, <1>4

\* An empty bin.
LEMMA EmptyBin ==
    ASSUME NEW bin \in [width : Int, height : Int, allowFlip : BOOLEAN]
    PROVE  /\ UsedApart(Empty(bin))
           /\ bin.width > 0 /\ bin.height > 0 => FreeExact(Empty(bin))
<1> DEFINE p == Empty(bin)
           all == Rect(0, 0, bin.width, bin.height)
<1>1. p.bin = bin /\ p.free = <<all>> /\ p.used = <<>> /\ Area(p) = all
      /\ p = [bin |-> p.bin, free |-> p.free, used |-> p.used]
  BY DEF Empty, Area
<1>2. all \in Rects
  BY DEF Rect, Rects
<1>3. bin.width > 0 /\ bin.height > 0 => Positive(all)
  BY DEF Rect, Positive
<1> HIDE DEF p, all
<1>4. ToSet(p.free) = {all} /\ Distinct(p.free) /\ p.free \in Seq(Rects) /\ p.used \in Seq(Rects)
      /\ DOMAIN p.used = {}
  BY <1>1, <1>2, OneOrNone
<1>5. p \in Packers
  BY <1>1, <1>4 DEF Packers
<1>6. UsedApart(p)
  BY <1>1, <1>2, <1>4, <1>5, ContainedOrder DEF UsedApart
<1>7. ASSUME bin.width > 0, bin.height > 0 PROVE FreeExact(p)
  <2>1. ToSet(p.free) \subseteq Unused(p)
    BY <1>1, <1>2, <1>3, <1>4, <1>7, ContainedOrder DEF Unused
  <2>2. \A r \in Unused(p) : IsContainedIn(r, all)
    BY <1>1 DEF Unused
  <2> QED
    BY <1>4, <2>1, <2>2 DEF FreeExact
<1> QED
  BY <1>6, <1>7 DEF p

\* PlaceRect: a rectangle that lies in a free one is used from then on.
LEMMA PlaceRectKeeps ==
    ASSUME NEW p, UsedApart(p), NEW node \in Rects,
           NEW g \in ToSet(p.free), IsContainedIn(node, g)
    PROVE  LET q == PlaceRect(p, node)
           IN  /\ UsedApart(q) /\ q.bin = p.bin /\ q.used = Append(p.used, node)
               /\ FreeExact(p) /\ Positive(node) => FreeExact(q)
<1> DEFINE q == PlaceRect(p, node)
           n == Len(p.used)
           F == ToSet(p.free)
           G == ToSet(q.free)
<1>1. PICK list \in Seq(Rects) :
        /\ q = [p EXCEPT !.free = Pruned(list), !.used = Append(@, node)]
        /\ ToSet(list) = {f \in F : Disjoint(f, node)}
                           \cup UNION {Parts(f, node) : f \in {h \in F : ~Disjoint(h, node)}}
  BY PackerFacts, SplitList DEF UsedApart
<1>2. /\ p \in Packers /\ Area(p) \in Rects /\ p.used \in Seq(Rects)
      /\ n \in Nat /\ DOMAIN p.used = 1 .. n
      /\ \A i \in 1 .. n : p.used[i] \in Rects
      /\ F \subseteq Rects
  <2>1. p \in Packers
    BY DEF UsedApart
  <2> QED
    BY <2>1, PackerFacts
<1>3. /\ q = [bin |-> p.bin, free |-> Pruned(list), used |-> Append(p.used, node)]
      /\ q.bin = p.bin /\ q.free = Pruned(list) /\ q.used = Append(p.used, node)
      /\ Area(q) = Area(p)
  <2>1. q = [bin |-> p.bin, free |-> Pruned(list), used |-> Append(p.used, node)]
    BY <1>1, <1>2 DEF Packers
  <2> HIDE DEF q
  <2> QED
    BY <2>1 DEF Area
<1> HIDE DEF q, F
<1>4. /\ q.free \in Seq(Rects) /\ Distinct(q.free) /\ G \subseteq ToSet(list)
      /\ \A a, b \in G : IsContainedIn(a, b) => a = b
      /\ \A r \in ToSet(list) : \E a \in G : IsContainedIn(r, a)
  BY <1>3, PrunedKeepsLargest
<1> HIDE DEF G
<1>5. /\ q.used \in Seq(Rects) /\ DOMAIN q.used = 1 .. n + 1
      /\ q.used[n + 1] = node /\ \A i \in 1 .. n : q.used[i] = p.used[i]
  BY <1>2, <1>3
<1>6. \A i \in 1 .. n + 1 : \/ i \in 1 .. n /\ q.used[i] = p.used[i]
                            \/ i = n + 1 /\ q.used[i] = node
  BY <1>2, <1>5
<1> HIDE DEF n
<1>7. /\ \A f \in F : IsContainedIn(f, Area(p)) /\ \A i \in 1 .. n : Disjoint(f, p.used[i])
      /\ \A i \in 1 .. n : IsContainedIn(p.used[i], Area(p))
      /\ \A i, j \in 1 .. n : i # j => Disjoint(p.used[i], p.used[j])
      /\ g \in F
  BY <1>2 DEF UsedApart, F
\* What is put on the list lies in what was free and outside of node.
<1>8. ASSUME NEW r \in ToSet(list)
      PROVE  \E f \in F : /\ r \in Rects /\ IsContainedIn(r, f) /\ Disjoint(r, node)
                          /\ Positive(f) => Positive(r)
  <2>1. CASE r \in F /\ Disjoint(r, node)
    BY <1>2, <2>1, ContainedOrder
  <2>2. CASE \E f \in F : ~Disjoint(f, node) /\ r \in Parts(f, node)
    BY <1>2, <2>2, PartsAreFree
  <2> QED
    BY <1>1, <1>8, <2>1, <2>2
<1>9. ASSUME NEW r \in ToSet(list)
      PROVE  /\ r \in Rects /\ IsContainedIn(r, Area(p)) /\ Disjoint(r, node)
             /\ \A i \in 1 .. n : Disjoint(r, p.used[i])
             /\ (\A f \in F : Positive(f)) => Positive(r)
  <2>1. PICK f \in F : /\ r \in Rects /\ IsContainedIn(r, f) /\ Disjoint(r, node)
                       /\ Positive(f) => Positive(r)
    BY <1>8
  <2>2. f \in Rects /\ IsContainedIn(f, Area(p)) /\ \A i \in 1 .. n : Disjoint(f, p.used[i])
    BY <1>2, <1>7
  <2>3. IsContainedIn(r, Area(p))
    BY <1>2, <2>1, <2>2, ContainedOrder
  <2>4. \A i \in 1 .. n : Disjoint(r, p.used[i])
    BY <1>2, <2>1, <2>2, DisjointWithin
  <2> QED
    BY <2>1, <2>3, <2>4
<1>10. /\ IsContainedIn(node, Area(p))
       /\ \A i \in 1 .. n : Disjoint(node, p.used[i]) /\ Disjoint(p.used[i], node)
  <2>1. g \in Rects /\ IsContainedIn(g, Area(p)) /\ \A i \in 1 .. n : Disjoint(g, p.used[i])
    BY <1>2, <1>7
  <2>2. IsContainedIn(node, Area(p))
    BY <1>2, <2>1, ContainedOrder
  <2> QED
    BY <1>2, <2>1, <2>2, DisjointWithin
<1>11. \A r \in G : \A i \in 1 .. n + 1 : Disjoint(r, q.used[i])
  <2> TAKE r \in G
  <2>1. Disjoint(r, node) /\ \A i \in 1 .. n : Disjoint(r, p.used[i])
    BY <1>4, <1>9
  <2> QED
    BY <1>6, <2>1
<1>12. UsedApart(q)
  <2>1. q \in Packers
    BY <1>2, <1>3, <1>4, <1>5 DEF Packers
  <2>2. \A f \in G : IsContainedIn(f, Area(q)) /\ \A i \in 1 .. n + 1 : Disjoint(f, q.used[i])
    BY <1>3, <1>4, <1>9, <1>11
  <2>3. \A i \in 1 .. n + 1 : IsContainedIn(q.used[i], Area(q))
    BY <1>3, <1>6, <1>7, <1>10
  <2>4. \A i, j \in 1 .. n + 1 : i # j => Disjoint(q.used[i], q.used[j])
    BY <1>6, <1>7, <1>10
  <2> QED
    BY <1>5, <2>1, <2>2, <2>3, <2>4 DEF UsedApart, G
<1>13. ASSUME FreeExact(p), Positive(node) PROVE FreeExact(q)
  <2>1. /\ \A f \in F : Positive(f)
        /\ \A i \in 1 .. n : Positive(p.used[i])
        /\ \A r \in Unused(p) : \E f \in F : IsContainedIn(r, f)
    BY <1>2, <1>13 DEF FreeExact, Unused, F
  <2>2. G \subseteq Unused(q)
    <3> SUFFICES ASSUME NEW r \in G PROVE r \in Unused(q)
      OBVIOUS
    <3>1. r \in Rects /\ Positive(r) /\ IsContainedIn(r, Area(q))
      BY <1>3, <1>4, <1>9, <2>1
    <3> QED
      BY <1>5, <1>11, <3>1 DEF Unused
  <2>3. \A i \in 1 .. n + 1 : Positive(q.used[i])
    BY <1>6, <1>13, <2>1
  <2>4. ASSUME NEW r \in Unused(q) PROVE \E a \in G : IsContainedIn(r, a)
    <3>1. r \in Rects /\ Positive(r) /\ Disjoint(r, node) /\ r \in Unused(p)
      <4>1. n + 1 \in 1 .. n + 1 /\ \A i \in 1 .. n : i \in 1 .. n + 1
        BY <1>2 DEF n
      <4> QED
        BY <1>2, <1>3, <1>5, <4>1 DEF Unused
    <3>2. PICK f \in F : IsContainedIn(r, f)
      BY <2>1, <3>1
    <3>3. PICK s \in ToSet(list) : IsContainedIn(r, s)
      <4>1. CASE Disjoint(f, node)
        BY <1>1, <3>2, <4>1
      <4>2. CASE ~Disjoint(f, node)
        <5>1. PICK s \in Parts(f, node) : IsContainedIn(r, s)
          BY <1>2, <3>1, <3>2, <4>2, PartsCover
        <5>2. s \in ToSet(list)
          BY <1>1, <4>2, <5>1
        <5> QED
          BY <5>1, <5>2
      <4> QED
        BY <4>1, <4>2
    <3>4. PICK a \in G : IsContainedIn(s, a)
      BY <1>4
    <3>5. s \in Rects /\ a \in Rects
      BY <1>4, <1>9, <3>4
    <3> QED
      BY <3>1, <3>3, <3>4, <3>5, ContainedOrder
  <2> QED
    BY <1>4, <1>5, <2>2, <2>3, <2>4 DEF FreeExact, G
<1> QED
  BY <1>3, <1>12, <1>13 DEF q

(***************************************************************************)
(* So the list has exactly the largest free rectangles.                    *)
(***************************************************************************)
LEMMA EverywhereInBin ==
    ASSUME NEW p \in Packers
    PROVE  \A r : r \in Everywhere(p.bin) <=> r \in Rects /\ Positive(r) /\ IsContainedIn(r, Area(p))
<1> TAKE r
<1> DEFINE w == p.bin.width
           h == p.bin.height
<1>1. w \in Int /\ h \in Int
  BY DEF Packers
<1>2. /\ Area(p).x = 0 /\ Area(p).y = 0 /\ Right(Area(p)) = 0 + w /\ Bottom(Area(p)) = 0 + h
  BY DEF Area, Rect, Right, Bottom
<1>3. ASSUME r \in Everywhere(p.bin)
      PROVE  r \in Rects /\ Positive(r) /\ IsContainedIn(r, Area(p))
  <2>1. /\ r \in [x : 0 .. w - 1, y : 0 .. h - 1, width : 1 .. w, height : 1 .. h]
        /\ Right(r) <= w /\ Bottom(r) <= h
    BY <1>3 DEF Everywhere
  <2> HIDE DEF w, h
  <2>2. /\ r \in Rects /\ r.x >= 0 /\ r.y >= 0 /\ r.width > 0 /\ r.height > 0
    BY <1>1, <2>1 DEF Rects
  <2> QED
    BY <1>1, <1>2, <2>1, <2>2, RectFields DEF Positive, IsContainedIn
<1>4. ASSUME r \in Rects, Positive(r), IsContainedIn(r, Area(p))
      PROVE  r \in Everywhere(p.bin)
  <2>1. /\ r.x \in Int /\ r.y \in Int /\ r.width \in Int /\ r.height \in Int
        /\ r = [x |-> r.x, y |-> r.y, width |-> r.width, height |-> r.height]
    BY <1>4 DEF Rects
  <2> HIDE DEF w, h
  <2>2. /\ r.x >= 0 /\ r.y >= 0 /\ r.width > 0 /\ r.height > 0
        /\ r.x + r.width <= w /\ r.y + r.height <= h
    BY <1>1, <1>2, <1>4, <2>1 DEF Positive, IsContainedIn, Right, Bottom
  <2>3. r.x \in 0 .. w - 1 /\ r.y \in 0 .. h - 1 /\ r.width \in 1 .. w /\ r.height \in 1 .. h
    BY <1>1, <2>1, <2>2
  <2>4. r \in [x : 0 .. w - 1, y : 0 .. h - 1, width : 1 .. w, height : 1 .. h]
    BY <2>1, <2>3
  <2> QED
    BY <2>2, <2>4 DEF Everywhere, Right, Bottom, w, h
<1> QED
  BY <1>3, <1>4

\* A list without repetitions is as long as the set of its elements is large.
LEMMA DistinctListCounts ==
    ASSUME NEW S, NEW s \in Seq(S), Distinct(s)
    PROVE  Len(s) = Cardinality(ToSet(s))
<1> DEFINE n == Len(s)
           T == ToSet(s)
<1>1. n \in Nat /\ DOMAIN s = 1 .. n /\ s \in [1 .. n -> S]
  BY LenProperties
<1>2. \A i \in 1 .. n : s[i] \in T
  BY <1>1 DEF ToSet
<1>3. \A t \in T : \E i \in 1 .. n : s[i] = t
  BY <1>1 DEF ToSet
<1> HIDE DEF n, T
<1>4. s \in [1 .. n -> T]
  BY <1>1, <1>2
<1>5. s \in Bijection(1 .. n, T)
  BY <1>1, <1>3, <1>4 DEF Bijection, Injection, Surjection, IsInjective, Distinct
<1>6. IsFiniteSet(1 .. n) /\ Cardinality(1 .. n) = n
  BY <1>1, FS_Interval
<1> QED
  BY <1>5, <1>6, FS_Bijection DEF ExistsBijection, n, T

\* If each free place lies in one of the list, and none of the list in another of
\* it, then the list has exactly the maximal free rectangles.
LEMMA ExactListIsMaximal ==
    ASSUME UsedApart(packer), FreeExact(packer)
    PROVE  FreeListExact
<1> DEFINE used == packer.used
           empty == {r \in Everywhere(packer.bin) : \A i \in DOMAIN used : Disjoint(r, used[i])}
           maximal == {r \in empty : \A s \in empty : IsContainedIn(r, s) => s = r}
           F == ToSet(packer.free)
<1>1. /\ packer \in Packers /\ Len(used) \in Nat /\ DOMAIN used = 1 .. Len(used)
      /\ \A i \in DOMAIN used : used[i] \in Rects
      /\ packer.free \in Seq(Rects)
      /\ \A f \in F : f \in Rects
  <2>1. packer \in Packers
    BY DEF UsedApart
  <2> QED
    BY <2>1, PackerFacts
<1>2. \A r : r \in Everywhere(packer.bin) <=> r \in Rects /\ Positive(r) /\ IsContainedIn(r, Area(packer))
  BY <1>1, EverywhereInBin
<1>3. empty = Unused(packer)
  BY <1>2 DEF Unused
<1>4. ToSet(used) \subseteq Everywhere(packer.bin)
  BY <1>1, <1>2 DEF UsedApart, FreeExact, ToSet
<1>5. \A i, j \in DOMAIN used : i < j => Disjoint(used[i], used[j])
  <2>1. \A i, j \in DOMAIN used : i < j => i # j
    BY <1>1
  <2> QED
    BY <2>1 DEF UsedApart
<1> HIDE DEF empty
<1>6. F = maximal
  <2>1. F \subseteq empty
    BY <1>3 DEF FreeExact
  <2>2. ASSUME NEW f \in F, NEW s \in empty, IsContainedIn(f, s) PROVE s = f
    <3>1. PICK g \in F : IsContainedIn(s, g)
      BY <1>3 DEF FreeExact
    <3>2. s \in Rects /\ f \in Rects /\ g \in Rects
      BY <1>1, <1>3, <3>1 DEF Unused
    <3>3. IsContainedIn(f, g)
      BY <2>2, <3>1, <3>2, ContainedOrder
    <3>4. f = g
      BY <3>1, <3>3 DEF FreeExact
    <3> QED
      BY <2>2, <3>1, <3>2, <3>4, ContainedOrder
  <2>3. ASSUME NEW m \in maximal PROVE m \in F
    <3>1. m \in empty /\ \A s \in empty : IsContainedIn(m, s) => s = m
      OBVIOUS
    <3>2. PICK g \in F : IsContainedIn(m, g)
      BY <1>3, <3>1 DEF FreeExact
    <3> QED
      BY <2>1, <3>1, <3>2
  <2> QED
    BY <2>1, <2>2, <2>3
<1>7. Len(packer.free) = Cardinality(F)
  BY <1>1, DistinctListCounts DEF FreeExact
<1> HIDE DEF F
<1>8. F = maximal /\ Len(packer.free) = Cardinality(maximal)
  BY <1>6, <1>7
<1> QED
  BY <1>4, <1>5, <1>8 DEF FreeListExact, empty, F

(***************************************************************************)
(* The choice of a placement.  The contacts of a rectangle are a sum over  *)
(* the used ones; the best placement is the first in the order of Before.  *)
(***************************************************************************)
Heuristics == {"BottomLeft", "BestShortSide", "BestLongSide", "BestArea", "ContactPoint"}

\* The length of the contact of two rectangles is a number.
LEMMA ContactIsNumber ==
    ASSUME NEW u \in Rects, NEW r \in Rects
    PROVE  Contact(u, r) \in Int
<1>1. \A a, b, c, d \in Int : CommonIntervalLength(<<a, b>>, <<c, d>>) \in Int
  BY DEF CommonIntervalLength, Lesser, Greater
<1>2. /\ CommonIntervalLength(<<u.y, Bottom(u)>>, <<r.y, Bottom(r)>>) \in Int
      /\ CommonIntervalLength(<<u.x, Right(u)>>, <<r.x, Right(r)>>) \in Int
  BY <1>1, RectFields
<1> QED
  BY <1>2 DEF Contact

\* The contacts with all used rectangles add up one by one.
LEMMA ContactSum ==
    ASSUME NEW used, NEW r, NEW S, IsFiniteSet(S)
    PROVE  MapThenSumSet(LAMBDA i : Contact(used[i], r), S) = Total([i \in S |-> Contact(used[i], r)], S)
<1> DEFINE w == [i \in S |-> Contact(used[i], r)]
           H(g, s) == IF s = {} THEN 0 ELSE Contact(used[Picked(s)], r) + g[s \ {Picked(s)}]
           sum == CHOOSE g : g = [s \in SUBSET S |-> H(g, s)]
<1>1. ASSUME NEW g PROVE g = [s \in SUBSET S |-> H(g, s)] <=> IsSum(g, w, S)
  <2>1. \A s \in SUBSET S : s # {} => Picked(s) \in S
    BY DEF Picked
  <2>2. \A s \in SUBSET S : H(g, s) = IF s = {} THEN 0 ELSE w[Picked(s)] + g[s \ {Picked(s)}]
    BY <2>1
  <2> HIDE DEF H, w
  <2> QED
    BY <2>2 DEF IsSum
<1>2. MapThenSumSet(LAMBDA i : Contact(used[i], r), S) = sum[S]
  BY DEF MapThenSumSet, MapThenFoldSet, Picked
<1> HIDE DEF H, w
<1>3. \E g : g = [s \in SUBSET S |-> H(g, s)]
  BY <1>1, SumExists
<1>4. sum = [s \in SUBSET S |-> H(sum, s)]
  BY <1>3
<1> HIDE DEF sum
<1>5. IsSum(sum, w, S)
  BY <1>1, <1>4
<1>6. Total(w, S) = sum[S]
  BY <1>5, TotalIsSum
<1> QED
  BY <1>2, <1>6 DEF w

\* Scores are pairs of numbers.
LEMMA ScoreIsPair ==
    ASSUME NEW p \in Packers, NEW f \in Rects, NEW r \in Rects, NEW method \in Heuristics
    PROVE  \E a, b \in Int : Score(p, f, r, method) = <<a, b>>
<1>1. /\ f.x \in Int /\ f.width \in Int /\ f.height \in Int /\ r.width \in Int /\ r.height \in Int
      /\ Bottom(r) \in Int
  BY RectFields
<1> DEFINE horizontal == f.width - r.width
           vertical   == f.height - r.height
           short == Lesser(horizontal, vertical)
           long  == Greater(horizontal, vertical)
           area  == f.width * f.height - r.width * r.height
<1>2. short \in Int /\ long \in Int /\ area \in Int
  BY <1>1 DEF Lesser, Greater
<1>3. ContactPointScore(p, r) \in Int
  <2> DEFINE S == DOMAIN p.used
             w == [i \in S |-> Contact(p.used[i], r)]
  <2>1. IsFiniteSet(S) /\ \A i \in S : p.used[i] \in Rects
    <3>1. Len(p.used) \in Int /\ 1 \in Int /\ S = 1 .. Len(p.used)
      BY PackerFacts
    <3>2. IsFiniteSet(1 .. Len(p.used))
      BY <3>1, IntervalFinite
    <3> QED
      BY <3>1, <3>2, PackerFacts
  <2>2. \A i \in S : w[i] \in Int
    BY <2>1, ContactIsNumber
  <2> HIDE DEF w
  <2>3. Total(w, S) \in Int
    <3> HIDE DEF S
    <3> QED
      BY <2>1, <2>2, TotalType
  <2>4. MapThenSumSet(LAMBDA i : Contact(p.used[i], r), S) = Total(w, S)
    <3>1. \A u : MapThenSumSet(LAMBDA i : Contact(u[i], r), S) = Total([i \in S |-> Contact(u[i], r)], S)
      BY <2>1, ContactSum
    <3> QED
      BY <3>1 DEF w
  <2> DEFINE t == Total(w, S)
  <2>5. ContactPointScore(p, r) =
          (IF r.x = 0 \/ Right(r) = p.bin.width THEN r.height ELSE 0)
          + (IF r.y = 0 \/ Bottom(r) = p.bin.height THEN r.width ELSE 0) + t
    BY <2>4 DEF ContactPointScore
  <2> HIDE DEF t
  <2> QED
    BY <1>1, <2>3, <2>5 DEF t
<1>4. /\ method = "BottomLeft"    => Score(p, f, r, method) = <<Bottom(r), f.x>>
      /\ method = "BestShortSide" => Score(p, f, r, method) = <<short, long>>
      /\ method = "BestLongSide"  => Score(p, f, r, method) = <<long, short>>
      /\ method = "BestArea"      => Score(p, f, r, method) = <<area, short>>
      /\ method = "ContactPoint"  => Score(p, f, r, method) = <<-ContactPointScore(p, r), 0>>
  BY DEF Score
<1> HIDE DEF short, long, area
<1>5. -ContactPointScore(p, r) \in Int /\ 0 \in Int
  BY <1>3
<1> QED
  BY <1>1, <1>2, <1>4, <1>5 DEF Heuristics

Ranks == [1 .. 5 -> Int]

\* A finite set of ranked placements has one that no other comes before.
LEMMA BestExists ==
    ASSUME NEW P, IsFiniteSet(P), P # {}, \A a \in P : a.rank \in Ranks
    PROVE  BestPlacement(P) \in P
<1> DEFINE Agree(a, b, k) == \A j \in 1 .. k : a.rank[j] = b.rank[j]
           Leads(a, k) == \A b \in P : \A i \in 1 .. k : Agree(a, b, i - 1) => a.rank[i] <= b.rank[i]
           N == {k \in Nat : k <= 5 => \E a \in P : Leads(a, k)}
<1>1. 0 \in N
  OBVIOUS
<1>2. ASSUME NEW k \in Nat, k \in N PROVE k + 1 \in N
  <2>1. SUFFICES ASSUME k + 1 <= 5 PROVE \E c \in P : Leads(c, k + 1)
    <3> HIDE DEF Leads
    <3> QED
      OBVIOUS
  <2>2. PICK a \in P : Leads(a, k)
    <3> HIDE DEF Leads
    <3>1. k <= 5
      BY <2>1
    <3> QED
      BY <1>2, <3>1
  <2> DEFINE A == {b \in P : Agree(a, b, k)}
             w == [b \in P |-> b.rank[k + 1]]
  <2>3. a \in A /\ IsFiniteSet(A) /\ \A b \in A : w[b] \in Int /\ w[b] = b.rank[k + 1]
    <3>1. IsFiniteSet(A)
      BY FS_Subset
    <3>2. k + 1 \in 1 .. 5
      BY <2>1
    <3>3. \A b \in P : b.rank[k + 1] \in Int
      BY <3>2 DEF Ranks
    <3> QED
      BY <3>1, <3>3
  <2>4. PICK c \in A : \A b \in A : w[c] <= w[b]
    <3> HIDE DEF A, w
    <3> QED
      BY <2>3, LeastOf
  <2>5. c \in P /\ Agree(a, c, k) /\ \A b \in A : c.rank[k + 1] <= b.rank[k + 1]
    BY <2>3, <2>4
  <2>6. ASSUME NEW b \in P, NEW i \in 1 .. k + 1, Agree(c, b, i - 1)
        PROVE  c.rank[i] <= b.rank[i]
    <3>1. CASE i = k + 1
      <4>1. Agree(c, b, k)
        <5>1. i - 1 = k
          BY <3>1
        <5> QED
          BY <2>6, <5>1
      <4>2. b \in A
        BY <2>5, <4>1
      <4> QED
        BY <2>5, <3>1, <4>2
    <3>2. CASE i # k + 1
      <4>1. i \in 1 .. k /\ \A j \in 1 .. i - 1 : j \in 1 .. k
        BY <3>2
      <4>2. c.rank[i] = a.rank[i] /\ Agree(a, b, i - 1)
        BY <2>5, <2>6, <4>1
      <4>3. a.rank[i] <= b.rank[i]
        BY <2>2, <4>1, <4>2
      <4> QED
        BY <4>2, <4>3
    <3> QED
      BY <3>1, <3>2
  <2> QED
    BY <2>5, <2>6
<1>3. PICK a \in P : Leads(a, 5)
  <2> HIDE DEF N
  <2>1. 5 \in N
    BY <1>1, <1>2, SetInduction
  <2>2. 5 <= 5
    OBVIOUS
  <2> HIDE DEF Leads
  <2> QED
    BY <2>1, <2>2 DEF N
<1>4. \A b \in P : ~Before(b.rank, a.rank)
  <2> SUFFICES ASSUME NEW b \in P, Before(b.rank, a.rank) PROVE FALSE
    OBVIOUS
  <2>1. a.rank \in [1 .. 5 -> Int] /\ b.rank \in [1 .. 5 -> Int]
    BY DEF Ranks
  <2>2. PICK k \in 1 .. 5 : b.rank[k] < a.rank[k] /\ \A j \in 1 .. k - 1 : b.rank[j] = a.rank[j]
    BY <2>1 DEF Before
  <2>3. a.rank[k] <= b.rank[k]
    BY <1>3, <2>2
  <2>4. a.rank[k] \in Int /\ b.rank[k] \in Int
    BY <2>1
  <2> QED
    BY <2>2, <2>3, <2>4
<1> QED
  BY <1>4 DEF BestPlacement

\* What is no larger than another rectangle, in the same corner, lies in it.
LEMMA SameCorner ==
    ASSUME NEW r \in Rects, NEW f \in Rects, r.x = f.x, r.y = f.y,
           r.width <= f.width, r.height <= f.height
    PROVE  IsContainedIn(r, f)
<1>1. /\ r.x \in Int /\ r.y \in Int /\ r.width \in Int /\ r.height \in Int
      /\ f.width \in Int /\ f.height \in Int
  BY RectFields
<1>2. r.x + r.width <= f.x + f.width /\ r.y + r.height <= f.y + f.height
  BY <1>1
<1> QED
  BY <1>1, <1>2 DEF IsContainedIn, Right, Bottom

\* A size is placed upright or flipped.
LEMMA OrientationsFinite == IsFiniteSet(0 .. 1)
<1>1. 0 \in Int /\ 1 \in Int
  OBVIOUS
<1> QED
  BY <1>1, IntervalFinite

\* A placement puts a size, as it is or turned, into the corner of a free rectangle.
Fits(p, sizes, pl) ==
    /\ pl.rect \in Rects
    /\ \E f \in ToSet(p.free) : IsContainedIn(pl.rect, f)
    /\ pl.index \in DOMAIN sizes
    /\ \/ pl.rect.width = sizes[pl.index][1] /\ pl.rect.height = sizes[pl.index][2]
       \/ /\ p.bin.allowFlip
          /\ pl.rect.width = sizes[pl.index][2] /\ pl.rect.height = sizes[pl.index][1]

\* There are finitely many placements, each of which has a rank and fits.
LEMMA PlacementsFit ==
    ASSUME NEW p \in Packers, NEW sizes \in Seq(Nat \X Nat), NEW method \in Heuristics
    PROVE  LET P == Placements(p, sizes, method)
           IN  /\ IsFiniteSet(P)
               /\ \A pl \in P : pl.rank \in Ranks /\ Fits(p, sizes, pl)
<1> DEFINE P == Placements(p, sizes, method)
           I == DOMAIN sizes
           K == DOMAIN p.free
           W(i, flip) == IF flip = 1 THEN sizes[i][2] ELSE sizes[i][1]
           H(i, flip) == IF flip = 1 THEN sizes[i][1] ELSE sizes[i][2]
           R(i, k, flip) == Rect(p.free[k].x, p.free[k].y, W(i, flip), H(i, flip))
           Of(i, k, flip) == [rect |-> R(i, k, flip), index |-> i,
                              rank |-> Score(p, p.free[k], R(i, k, flip), method) \o <<i, k, flip>>]
<1>1. /\ Len(sizes) \in Nat /\ I = 1 .. Len(sizes) /\ \A i \in I : sizes[i] \in Nat \X Nat
      /\ Len(p.free) \in Nat /\ K = 1 .. Len(p.free)
      /\ \A k \in K : p.free[k] \in Rects /\ p.free[k] \in ToSet(p.free)
  <2>1. p.free \in Seq(Rects)
    BY PackerFacts
  <2>2. Len(p.free) \in Nat /\ K = 1 .. Len(p.free) /\ \A k \in K : p.free[k] \in Rects
    BY <2>1, LenProperties
  <2>3. Len(sizes) \in Nat /\ I = 1 .. Len(sizes) /\ \A i \in I : sizes[i] \in Nat \X Nat
    BY LenProperties
  <2> QED
    BY <2>2, <2>3 DEF ToSet
<1>2. \A pl \in P : \E i \in I, k \in K, flip \in 0 .. 1 :
        /\ pl = Of(i, k, flip)
        /\ W(i, flip) <= p.free[k].width /\ H(i, flip) <= p.free[k].height
        /\ p.bin.allowFlip \/ pl.rank[5] = 0
  <2> DEFINE E(i, k, flip) ==
               IF W(i, flip) <= p.free[k].width /\ H(i, flip) <= p.free[k].height /\ H(i, flip) # 0
                 THEN {Of(i, k, flip)} ELSE {}
             All == UNION {E(i, k, flip) : i \in I, k \in K, flip \in 0 .. 1}
  <2>1. P = {pl \in All : p.bin.allowFlip \/ pl.rank[5] = 0}
    BY DEF Placements
  <2> HIDE DEF E, P
  <2>2. \A pl \in P : /\ p.bin.allowFlip \/ pl.rank[5] = 0
                      /\ \E i \in I, k \in K, flip \in 0 .. 1 : pl \in E(i, k, flip)
    BY <2>1
  <2> HIDE DEF W, H, Of
  <2>3. \A i, k, flip, pl : pl \in E(i, k, flip) =>
          pl = Of(i, k, flip) /\ W(i, flip) <= p.free[k].width /\ H(i, flip) <= p.free[k].height
    BY DEF E
  <2> HIDE DEF All
  <2> SUFFICES ASSUME NEW pl \in P
               PROVE  \E i \in I, k \in K, flip \in 0 .. 1 :
                        /\ pl = Of(i, k, flip)
                        /\ W(i, flip) <= p.free[k].width /\ H(i, flip) <= p.free[k].height
                        /\ p.bin.allowFlip \/ pl.rank[5] = 0
    OBVIOUS
  <2>4. PICK i \in I, k \in K, flip \in 0 .. 1 : pl \in E(i, k, flip)
    BY <2>2
  <2>5. pl = Of(i, k, flip) /\ W(i, flip) <= p.free[k].width /\ H(i, flip) <= p.free[k].height
    BY <2>3, <2>4
  <2>6. p.bin.allowFlip \/ pl.rank[5] = 0
    BY <2>2
  <2> HIDE DEF I, K
  <2> QED
    BY <2>4, <2>5, <2>6
<1> HIDE DEF P
<1>3. ASSUME NEW i \in I, NEW k \in K, NEW flip \in 0 .. 1
      PROVE  /\ R(i, k, flip) \in Rects
             /\ R(i, k, flip).width = W(i, flip) /\ R(i, k, flip).height = H(i, flip)
             /\ R(i, k, flip).x = p.free[k].x /\ R(i, k, flip).y = p.free[k].y
             /\ Of(i, k, flip).rect = R(i, k, flip) /\ Of(i, k, flip).index = i
             /\ Of(i, k, flip).rank \in Ranks
             /\ Of(i, k, flip).rank[3] = i /\ Of(i, k, flip).rank[4] = k /\ Of(i, k, flip).rank[5] = flip
  <2>1. W(i, flip) \in Nat /\ H(i, flip) \in Nat /\ p.free[k] \in Rects
    BY <1>1
  <2> DEFINE f == p.free[k]
             w == W(i, flip)
             h == H(i, flip)
             r == R(i, k, flip)
  <2>2. r = [x |-> f.x, y |-> f.y, width |-> w, height |-> h]
    BY DEF Rect
  <2> HIDE DEF r, f, w, h
  <2>3. r \in Rects /\ r.width = w /\ r.height = h /\ r.x = f.x /\ r.y = f.y
    BY <2>1, <2>2, RectFields DEF Rects, f, w, h
  <2>4. PICK a, b \in Int : Score(p, f, r, method) = <<a, b>>
    BY <2>1, <2>3, ScoreIsPair DEF f
  <2> DEFINE rank == Of(i, k, flip).rank
  <2>5. rank = <<a, b>> \o <<i, k, flip>>
    BY <2>4 DEF f, r
  <2> HIDE DEF rank
  <2>6. i \in Int /\ k \in Int /\ flip \in Int
    BY <1>1
  <2>7. /\ <<a, b>> \in Seq(Int) /\ Len(<<a, b>>) = 2 /\ <<i, k, flip>> \in Seq(Int)
        /\ Len(<<i, k, flip>>) = 3
        /\ <<i, k, flip>>[1] = i /\ <<i, k, flip>>[2] = k /\ <<i, k, flip>>[3] = flip
    BY <2>6
  <2>8. /\ rank \in Seq(Int) /\ Len(rank) = 2 + 3
        /\ \A n \in 1 .. 2 + 3 : rank[n] = IF n <= 2 THEN <<a, b>>[n] ELSE <<i, k, flip>>[n - 2]
    BY <2>5, <2>7, ConcatProperties
  <2>9. rank[3] = i /\ rank[4] = k /\ rank[5] = flip
    BY <2>7, <2>8
  <2>10. rank \in Ranks
    <3>1. rank \in [1 .. Len(rank) -> Int]
      BY <2>8, LenProperties
    <3>2. Len(rank) = 5
      BY <2>8
    <3> QED
      BY <3>1, <3>2 DEF Ranks
  <2>11. Of(i, k, flip).rect = R(i, k, flip) /\ Of(i, k, flip).index = i
    OBVIOUS
  <2> HIDE DEF Of, R
  <2> QED
    BY <2>3, <2>9, <2>10, <2>11 DEF r, f, w, h, rank
<1>6. \A i \in I, flip \in 0 .. 1 : /\ W(i, flip) \in Nat /\ H(i, flip) \in Nat
                                    /\ flip = 0 => /\ W(i, flip) = sizes[i][1]
                                                   /\ H(i, flip) = sizes[i][2]
                                    /\ flip = 1 => /\ W(i, flip) = sizes[i][2]
                                                   /\ H(i, flip) = sizes[i][1]
  BY <1>1
<1> HIDE DEF R, Of, W, H
<1>4. ASSUME NEW pl \in P PROVE pl.rank \in Ranks /\ Fits(p, sizes, pl)
  <2>1. PICK i \in I, k \in K, flip \in 0 .. 1 :
          /\ pl = Of(i, k, flip)
          /\ W(i, flip) <= p.free[k].width /\ H(i, flip) <= p.free[k].height
          /\ p.bin.allowFlip \/ pl.rank[5] = 0
    BY <1>2
  <2>2. pl.rect = R(i, k, flip) /\ pl.index = i
    BY <1>3, <2>1
  <2>3. IsContainedIn(pl.rect, p.free[k])
    <3>1. p.free[k] \in Rects /\ pl.rect \in Rects
      BY <1>1, <1>3, <2>2
    <3>2. pl.rect.width <= p.free[k].width /\ pl.rect.height <= p.free[k].height
      BY <1>3, <2>1, <2>2
    <3>3. pl.rect.x = p.free[k].x /\ pl.rect.y = p.free[k].y
      BY <1>3, <2>2
    <3> QED
      BY <3>1, <3>2, <3>3, SameCorner
  <2>4. p.bin.allowFlip \/ flip = 0
    BY <1>3, <2>1
  <2>5. pl.rect.width = W(i, flip) /\ pl.rect.height = H(i, flip) /\ pl.rect \in Rects /\ pl.rank \in Ranks
    BY <1>3, <2>1, <2>2
  <2> QED
    <3>1. flip = 0 \/ flip = 1
      OBVIOUS
    <3> QED
      BY <1>1, <1>6, <2>2, <2>3, <2>4, <2>5, <3>1 DEF Fits
<1>5. IsFiniteSet(P)
  <2> DEFINE T == (I \X K) \X (0 .. 1)
             key == [pl \in P |-> <<<<pl.rank[3], pl.rank[4]>>, pl.rank[5]>>]
  <2>1. IsFiniteSet(I) /\ IsFiniteSet(K) /\ IsFiniteSet(0 .. 1)
    <3>2. IsFiniteSet(1 .. Len(sizes))
      BY <1>1, IntervalFinite
    <3>3. IsFiniteSet(1 .. Len(p.free))
      BY <1>1, IntervalFinite
    <3>4. IsFiniteSet(0 .. 1)
      BY OrientationsFinite
    <3> QED
      BY <1>1, <3>2, <3>3, <3>4
  <2>2. IsFiniteSet(I \X K)
    BY <2>1, FS_Product
  <2>3. IsFiniteSet(T)
    <3> DEFINE J == I \X K
    <3> HIDE DEF J
    <3>1. IsFiniteSet(J)
      BY <2>2 DEF J
    <3>2. IsFiniteSet(J \X (0 .. 1))
      BY <2>1, <3>1, FS_Product
    <3> QED
      BY <3>2 DEF J
  <2>4. \A pl \in P : \E i \in I, k \in K, flip \in 0 .. 1 :
          pl = Of(i, k, flip) /\ key[pl] = <<<<i, k>>, flip>>
    <3> SUFFICES ASSUME NEW pl \in P
                 PROVE  \E i \in I, k \in K, flip \in 0 .. 1 :
                          pl = Of(i, k, flip) /\ key[pl] = <<<<i, k>>, flip>>
      OBVIOUS
    <3>1. PICK i \in I, k \in K, flip \in 0 .. 1 : pl = Of(i, k, flip)
      BY <1>2
    <3>2. pl.rank[3] = i /\ pl.rank[4] = k /\ pl.rank[5] = flip
      BY <1>3, <3>1
    <3>3. key[pl] = <<<<i, k>>, flip>>
      BY <3>2
    <3> HIDE DEF Of, key
    <3> QED
      BY <3>1, <3>3
  <2>5. DOMAIN key = P /\ key = [pl \in P |-> key[pl]]
    OBVIOUS
  <2> HIDE DEF key, Of
  <2>6. key \in [P -> T]
    BY <2>4, <2>5
  <2>7. \A a, b \in P : key[a] = key[b] => a = b
    BY <2>4
  <2>8. key \in Injection(P, T)
    BY <2>5, <2>6, <2>7 DEF Injection, IsInjective
  <2> HIDE DEF T
  <2> QED
    BY <2>3, <2>8, FS_Injection
<1> QED
  BY <1>4, <1>5 DEF P

\* So the best placement is one.
LEMMA BestFits ==
    ASSUME NEW p \in Packers, NEW sizes \in Seq(Nat \X Nat), NEW method \in Heuristics,
           Placements(p, sizes, method) # {}
    PROVE  Fits(p, sizes, BestPlacement(Placements(p, sizes, method)))
<1> DEFINE P == Placements(p, sizes, method)
<1>1. IsFiniteSet(P) /\ \A pl \in P : pl.rank \in Ranks /\ Fits(p, sizes, pl)
  BY PlacementsFit
<1>2. P # {}
  OBVIOUS
<1> HIDE DEF P
<1>3. BestPlacement(P) \in P
  BY <1>1, <1>2, BestExists
<1> QED
  BY <1>1, <1>3 DEF P

(***************************************************************************)
(* The insertion of many rectangles, round by round.                       *)
(***************************************************************************)
LEMMA Removed ==
    ASSUME NEW S, NEW s \in Seq(S), NEW i \in DOMAIN s
    PROVE  LET t == RemoveAt(s, i)
           IN  /\ t \in Seq(S) /\ Len(t) = Len(s) - 1
               /\ \A j \in 1 .. Len(s) - 1 : t[j] = IF j < i THEN s[j] ELSE s[j + 1]
<1> DEFINE n == Len(s)
           a == SubSeq(s, 1, i - 1)
           b == SubSeq(s, i + 1, n)
<1>1. n \in Nat /\ i \in 1 .. n
  BY LenProperties
<1>2. /\ a \in Seq(S) /\ Len(a) = i - 1
      /\ \A j \in 1 .. i - 1 : a[j] = s[1 + j - 1]
  <2>1. 1 \in 1 .. n + 1 /\ i - 1 \in 0 .. n /\ 1 \in Int /\ i - 1 \in Int
    BY <1>1
  <2> QED
    BY <1>1, <2>1, SubSeqProperties
<1>3. /\ b \in Seq(S) /\ Len(b) = n - i
      /\ \A j \in 1 .. n - i : b[j] = s[i + 1 + j - 1]
  <2>1. i + 1 \in 1 .. n + 1 /\ i + 1 \in Int /\ n \in Int
    BY <1>1
  <2> QED
    BY <1>1, <2>1, SubSeqProperties
<1> HIDE DEF a, b
<1>4. /\ a \o b \in Seq(S) /\ Len(a \o b) = Len(a) + Len(b)
      /\ \A j \in 1 .. Len(a) + Len(b) :
           (a \o b)[j] = IF j <= Len(a) THEN a[j] ELSE b[j - Len(a)]
  BY <1>2, <1>3, ConcatProperties
<1> DEFINE t == a \o b
<1>5. RemoveAt(s, i) = t
  BY DEF RemoveAt, a, b
<1> HIDE DEF n, t
<1>6. t \in Seq(S) /\ Len(t) = n - 1
  BY <1>1, <1>2, <1>3, <1>4 DEF t
<1>7. ASSUME NEW j \in 1 .. n - 1 PROVE t[j] = IF j < i THEN s[j] ELSE s[j + 1]
  <2>1. t[j] = IF j <= i - 1 THEN a[j] ELSE b[j - (i - 1)]
    <3>1. Len(a) = i - 1 /\ Len(b) = n - i
      BY <1>2, <1>3
    <3>2. j \in 1 .. (i - 1) + (n - i)
      BY <1>1
    <3>3. \A k \in 1 .. (i - 1) + (n - i) : t[k] = IF k <= i - 1 THEN a[k] ELSE b[k - (i - 1)]
      BY <1>4, <3>1 DEF t
    <3> QED
      BY <3>2, <3>3
  <2>2. CASE j < i
    BY <1>1, <1>2, <2>1, <2>2
  <2>3. CASE ~(j < i)
    BY <1>1, <1>3, <2>1, <2>3
  <2> QED
    BY <2>2, <2>3
<1> QED
  BY <1>5, <1>6, <1>7 DEF n

\* An insertion that runs: a record of its packer, and of sizes to place there.
Running(s) ==
    /\ s = [packer |-> s.packer, sizes |-> s.sizes, indices |-> s.indices,
            method |-> s.method, dst |-> s.dst]
    /\ UsedApart(s.packer)
    /\ s.sizes \in Seq(Nat \X Nat) /\ s.method \in Heuristics

\* A round places one of the sizes, within a free rectangle.
LEMMA RoundPlaces ==
    ASSUME NEW s, Running(s), ~Ended(s)
    PROVE  LET best == BestPlacement(Placements(s.packer, s.sizes, s.method))
               t == Round(s)
           IN  /\ Fits(s.packer, s.sizes, best)
               /\ t = [packer  |-> PlaceRect(s.packer, best.rect),
                       sizes   |-> RemoveAt(s.sizes, best.index),
                       indices |-> RemoveAt(s.indices, best.index),
                       method  |-> s.method,
                       dst |-> Append(s.dst, [rect |-> best.rect,
                                              index |-> s.indices[best.index]])]
               /\ UsedApart(t.packer) /\ t.packer.bin = s.packer.bin
               /\ t.packer.used = Append(s.packer.used, best.rect)
               /\ FreeExact(s.packer) /\ Positive(best.rect) => FreeExact(t.packer)
               /\ Running(t)
<1> DEFINE best == BestPlacement(Placements(s.packer, s.sizes, s.method))
           t == Round(s)
           q == PlaceRect(s.packer, best.rect)
<1>1. Fits(s.packer, s.sizes, best)
  BY BestFits DEF Running, Ended, UsedApart
<1>2. t = [packer  |-> q, sizes |-> RemoveAt(s.sizes, best.index),
           indices |-> RemoveAt(s.indices, best.index), method |-> s.method,
           dst |-> Append(s.dst, [rect |-> best.rect, index |-> s.indices[best.index]])]
  <2> DEFINE u == [packer |-> s.packer, sizes |-> s.sizes, indices |-> s.indices,
                   method |-> s.method, dst |-> s.dst]
  <2>1. s = u
    BY DEF Running
  <2>2. t = [s EXCEPT !.packer = PlaceRect(@, best.rect), !.sizes = RemoveAt(@, best.index),
                      !.indices = RemoveAt(@, best.index),
                      !.dst = Append(@, [rect |-> best.rect, index |-> s.indices[best.index]])]
    BY DEF Round
  <2> HIDE DEF best, t
  <2> QED
    BY <2>1, <2>2
<1> HIDE DEF best, t
<1>3. /\ UsedApart(q) /\ q.bin = s.packer.bin /\ q.used = Append(s.packer.used, best.rect)
      /\ FreeExact(s.packer) /\ Positive(best.rect) => FreeExact(q)
  BY <1>1, PlaceRectKeeps DEF Running, Fits
<1> HIDE DEF q
<1>4. RemoveAt(s.sizes, best.index) \in Seq(Nat \X Nat)
  BY <1>1, Removed DEF Fits, Running
<1>5. Running(t)
  BY <1>2, <1>3, <1>4 DEF Running
<1>6. t.packer = q
  BY <1>2
<1>7. /\ UsedApart(t.packer) /\ t.packer.bin = s.packer.bin
      /\ t.packer.used = Append(s.packer.used, best.rect)
      /\ FreeExact(s.packer) /\ Positive(best.rect) => FreeExact(t.packer)
  BY <1>3, <1>6
<1>8. q = PlaceRect(s.packer, best.rect)
  BY DEF q
<1> QED
  BY <1>1, <1>2, <1>5, <1>7, <1>8 DEF best, t

(***************************************************************************)
(* The operations of a packer.                                             *)
(***************************************************************************)
BinInv ==
    /\ UsedApart(packer) /\ FreeExact(packer)
    /\ \/ insertion = idle
       \/ /\ Running(insertion) /\ insertion.packer = packer
          /\ insertion.sizes \in Seq(Sizes)

\* The sizes that are inserted are not empty.
LEMMA SizesPositive ==
    /\ Seq(Sizes) \subseteq Seq(Nat \X Nat)
    /\ \A sizes \in Seq(Sizes) : \A i \in DOMAIN sizes : sizes[i][1] > 0 /\ sizes[i][2] > 0
    /\ Methods \subseteq Heuristics
<1>1. \A size \in Sizes : size \in Nat \X Nat /\ size[1] > 0 /\ size[2] > 0
  BY BinAssumption
<1>2. Seq(Sizes) \subseteq Seq(Nat \X Nat)
  BY <1>1, LenProperties
<1>3. ASSUME NEW sizes \in Seq(Sizes), NEW i \in DOMAIN sizes PROVE sizes[i] \in Sizes
  BY LenProperties
<1> QED
  BY <1>1, <1>2, <1>3, BinAssumption DEF Heuristics

\* What is placed is not empty.
LEMMA PlacedPositive ==
    ASSUME NEW p, NEW sizes \in Seq(Sizes), NEW pl, Fits(p, sizes, pl)
    PROVE  Positive(pl.rect)
BY SizesPositive DEF Fits, Positive

\* Insert of one rectangle keeps the invariant.
LEMMA InsertKeeps ==
    ASSUME BinInv, NEW size \in Sizes, NEW method \in Methods, Insert(size, method)
    PROVE  BinInv'
<1> DEFINE sizes == <<size>>
           best == BestPlacement(Placements(packer, sizes, method))
<1>1. sizes \in Seq(Sizes) /\ sizes \in Seq(Nat \X Nat) /\ method \in Heuristics
  <2>1. sizes \in Seq(Sizes)
    OBVIOUS
  <2> HIDE DEF sizes
  <2> QED
    BY <2>1, SizesPositive
<1>2. /\ Placements(packer, sizes, method) # {} /\ packer' = PlaceRect(packer, best.rect)
      /\ insertion = idle /\ insertion' = insertion
  BY DEF Insert
<1> HIDE DEF sizes
<1>3. Fits(packer, sizes, best)
  BY <1>1, <1>2, BestFits DEF BinInv, UsedApart
<1> HIDE DEF best
<1>4. Positive(best.rect)
  BY <1>1, <1>3, PlacedPositive
<1>5. UsedApart(packer') /\ FreeExact(packer')
  BY <1>2, <1>3, <1>4, PlaceRectKeeps DEF BinInv, Fits
<1> QED
  BY <1>2, <1>5 DEF BinInv, idle

\* The start of an insertion of many keeps the invariant.
LEMMA StartKeeps ==
    ASSUME BinInv, NEW n \in 1 .. MaxUsed, NEW method \in Methods, NEW sizes \in [1 .. n -> Sizes],
           StartInsert(sizes, method)
    PROVE  BinInv'
<1>1. insertion' = Insertion(packer, sizes, method) /\ packer' = packer
  BY DEF StartInsert
<1>2. sizes \in Seq(Sizes) /\ sizes \in Seq(Nat \X Nat) /\ method \in Heuristics
  <2>1. n \in Nat
    BY BinAssumption
  <2>2. sizes \in Seq(Sizes)
    BY <2>1
  <2> QED
    BY <2>2, SizesPositive
<1>3. Running(insertion') /\ insertion'.packer = packer' /\ insertion'.sizes = sizes
  BY <1>1, <1>2 DEF Insertion, Running, BinInv
<1> QED
  BY <1>1, <1>2, <1>3 DEF BinInv

\* A round of an insertion of many keeps the invariant.
LEMMA InsertBestKeeps ==
    ASSUME BinInv, InsertBest
    PROVE  BinInv'
<1> DEFINE s == insertion
           best == BestPlacement(Placements(s.packer, s.sizes, s.method))
           t == Round(s)
<1>1. Running(s) /\ s.packer = packer /\ s.sizes \in Seq(Sizes) /\ ~Ended(s)
  BY DEF BinInv, InsertBest
<1>2. insertion' = t /\ packer' = t.packer
  BY DEF InsertBest
<1>3. /\ Fits(s.packer, s.sizes, best) /\ t.sizes = RemoveAt(s.sizes, best.index)
      /\ UsedApart(t.packer) /\ Running(t)
      /\ FreeExact(s.packer) /\ Positive(best.rect) => FreeExact(t.packer)
  <2> HIDE DEF s
  <2>1. /\ Fits(s.packer, s.sizes, best)
        /\ t = [packer  |-> PlaceRect(s.packer, best.rect),
                sizes   |-> RemoveAt(s.sizes, best.index),
                indices |-> RemoveAt(s.indices, best.index),
                method  |-> s.method,
                dst |-> Append(s.dst, [rect |-> best.rect, index |-> s.indices[best.index]])]
        /\ UsedApart(t.packer) /\ Running(t)
        /\ FreeExact(s.packer) /\ Positive(best.rect) => FreeExact(t.packer)
    BY <1>1, RoundPlaces
  <2> HIDE DEF best, t
  <2>2. t.sizes = RemoveAt(s.sizes, best.index)
    BY <2>1
  <2> QED
    BY <2>1, <2>2
<1> HIDE DEF best, t, s
<1>4. Positive(best.rect)
  BY <1>1, <1>3, PlacedPositive
<1>5. t.sizes \in Seq(Sizes)
  BY <1>1, <1>3, Removed DEF Fits
<1>6. UsedApart(packer') /\ FreeExact(packer')
  BY <1>1, <1>2, <1>3, <1>4 DEF BinInv, s
<1>7. Running(insertion') /\ insertion'.packer = packer' /\ insertion'.sizes \in Seq(Sizes)
  BY <1>2, <1>3, <1>5
<1> QED
  BY <1>6, <1>7 DEF BinInv

\* What the name of MaxRectsBinPack promises: after any insertions, one by one or
\* many at once, with any heuristic, the used rectangles lie in the bin, apart
\* from each other, and the list of free rectangles has exactly the maximal ones.
THEOREM FreeListAlwaysExact == BinSpec => []FreeListExact
<1>1. BinInit => BinInv
  <2> SUFFICES ASSUME BinInit PROVE BinInv
    OBVIOUS
  <2>1. PICK bin \in Bins : packer = Empty(bin)
    BY DEF BinInit
  <2>2. /\ bin \in [width : Int, height : Int, allowFlip : BOOLEAN]
        /\ bin.width > 0 /\ bin.height > 0
    BY BinAssumption
  <2>3. UsedApart(packer) /\ FreeExact(packer)
    BY <2>1, <2>2, EmptyBin
  <2> QED
    BY <2>3 DEF BinInit, BinInv
<1>2. BinInv /\ [BinNext]_binVars => BinInv'
  <2> SUFFICES ASSUME BinInv, [BinNext]_binVars PROVE BinInv'
    OBVIOUS
  <2>1. CASE InsertOne
    BY <2>1, InsertKeeps DEF InsertOne
  <2>2. CASE InsertMany
    BY <2>2, StartKeeps DEF InsertMany
  <2>3. CASE InsertBest
    BY <2>3, InsertBestKeeps
  <2>4. CASE EndInsert
    BY <2>4 DEF EndInsert, BinInv, idle
  <2>5. CASE UNCHANGED binVars
    BY <2>5 DEF binVars, BinInv, idle
  <2> QED
    BY <2>1, <2>2, <2>3, <2>4, <2>5 DEF BinNext
<1>3. BinInv => FreeListExact
  BY ExactListIsMaximal DEF BinInv
<1> QED
  BY <1>1, <1>2, <1>3, PTL DEF BinSpec

(***************************************************************************)
(* The insertion of all frames of a sprite.  What holds at its start and   *)
(* is kept by each round holds at its end.                                 *)
(***************************************************************************)
RoundsUpTo(f, s, l) ==
    f = [n \in 0 .. l |-> IF n = 0 THEN s
                          ELSE LET r == f[n - 1] IN IF Ended(r) THEN r ELSE Round(r)]

\* There is such a function.
LEMMA RoundsExist ==
    ASSUME NEW s, NEW l \in Nat
    PROVE  \E f : RoundsUpTo(f, s, l)
<1> DEFINE Next(r) == IF Ended(r) THEN r ELSE Round(r)
           H(f, n) == IF n = 0 THEN s ELSE Next(f[n - 1])
           S == {m \in Nat : \E f : f = [n \in 0 .. m |-> H(f, n)]}
<1> HIDE DEF Next
<1>1. 0 \in S
  <2> DEFINE f == [n \in 0 .. 0 |-> s]
  <2>1. f = [n \in 0 .. 0 |-> H(f, n)]
    OBVIOUS
  <2> HIDE DEF f, H
  <2> QED
    BY <2>1
<1>2. ASSUME NEW m \in Nat, m \in S PROVE m + 1 \in S
  <2>1. PICK f : f = [n \in 0 .. m |-> H(f, n)]
    BY <1>2
  <2> DEFINE g == [n \in 0 .. m + 1 |-> H(f, n)]
  <2>2. \A n \in 0 .. m : g[n] = f[n]
    <3>1. \A n \in 0 .. m : n \in 0 .. m + 1
      OBVIOUS
    <3> HIDE DEF H
    <3> QED
      BY <3>1, <2>1
  <2>3. \A n \in 0 .. m + 1 : n # 0 => n - 1 \in 0 .. m
    OBVIOUS
  <2>4. \A n \in 0 .. m + 1 : H(f, n) = H(g, n)
    BY <2>2, <2>3
  <2>5. g = [n \in 0 .. m + 1 |-> H(g, n)]
    <3> HIDE DEF H
    <3> QED
      BY <2>4
  <2> HIDE DEF g, H
  <2> QED
    BY <2>5
<1> HIDE DEF S
<1>3. l \in S
  BY <1>1, <1>2, SetInduction
<1> QED
  BY <1>3 DEF S, RoundsUpTo, Next

\* A set with the start of an insertion, and with what a round makes of any of it,
\* has the end of the insertion.
LEMMA InsertAllKeeps ==
    ASSUME NEW s, Len(s.sizes) \in Nat, NEW G, s \in G,
           \A t \in G : ~Ended(t) => Round(t) \in G
    PROVE  InsertAll(s) \in G
<1> DEFINE l == Len(s.sizes)
           f == CHOOSE f : RoundsUpTo(f, s, l)
           S == {n \in Nat : n <= l => f[n] \in G}
<1>1. RoundsUpTo(f, s, l)
  BY RoundsExist
<1>2. InsertAll(s) = f[l]
  BY DEF InsertAll, RoundsUpTo
<1> HIDE DEF f, l
<1>3. l \in Nat
  BY DEF l
<1>4. f[0] = s
  <2>1. 0 \in 0 .. l
    BY <1>3
  <2> QED
    BY <1>1, <2>1 DEF RoundsUpTo
<1>5. ASSUME NEW n \in Nat, n \in S PROVE n + 1 \in S
  <2> SUFFICES ASSUME n + 1 <= l PROVE f[n + 1] \in G
    OBVIOUS
  <2>1. f[n] \in G
    BY <1>3, <1>5
  <2>2. n + 1 \in 0 .. l /\ n + 1 # 0 /\ (n + 1) - 1 = n
    BY <1>3
  <2> DEFINE r == f[n]
  <2>3. f[n + 1] = IF Ended(r) THEN r ELSE Round(r)
    <3>1. f[n + 1] = LET q == f[(n + 1) - 1] IN IF Ended(q) THEN q ELSE Round(q)
      BY <1>1, <2>2 DEF RoundsUpTo
    <3> QED
      BY <2>2, <3>1
  <2>4. r \in G
    BY <2>1
  <2> HIDE DEF r
  <2> QED
    BY <2>3, <2>4
<1>6. 0 \in S
  BY <1>4
<1> HIDE DEF S
<1>7. l \in S
  BY <1>3, <1>5, <1>6, SetInduction
<1> QED
  BY <1>2, <1>3, <1>7 DEF S

\* The place in a list of what follows it there once the i-th is removed.
Skip(i, j) == IF j < i THEN j ELSE j + 1

\* Skip goes through all places but the removed one, each once.
LEMMA SkipFacts ==
    ASSUME NEW n \in Nat, NEW i \in 1 .. n
    PROVE  /\ \A j \in 1 .. n - 1 : Skip(i, j) \in 1 .. n /\ Skip(i, j) # i
           /\ \A j, k \in 1 .. n - 1 : Skip(i, j) = Skip(i, k) => j = k
           /\ \A m \in 1 .. n : m # i => \E j \in 1 .. n - 1 : Skip(i, j) = m
<1>1. \A j \in 1 .. n - 1 : Skip(i, j) \in 1 .. n /\ Skip(i, j) # i
  BY DEF Skip
<1>2. \A j, k \in 1 .. n - 1 : Skip(i, j) = Skip(i, k) => j = k
  BY DEF Skip
<1>3. ASSUME NEW m \in 1 .. n, m # i PROVE \E j \in 1 .. n - 1 : Skip(i, j) = m
  <2>1. CASE m < i
    <3>1. m \in 1 .. n - 1 /\ Skip(i, m) = m
      BY <2>1 DEF Skip
    <3> QED
      BY <3>1
  <2>2. CASE ~(m < i)
    <3>1. m - 1 \in 1 .. n - 1 /\ Skip(i, m - 1) = m
      BY <1>3, <2>2 DEF Skip
    <3> QED
      BY <3>1
  <2> QED
    BY <2>1, <2>2
<1> QED
  BY <1>1, <1>2, <1>3

\* What an atlas has of each frame: its rect, and the number of the frame.
Entries == [rect : Rects, index : Nat]

\* The entries of a list are rects of different frames, each of its frame's size.
OfFrames(dst, F) ==
    /\ \A i \in DOMAIN dst : /\ dst[i].index \in DOMAIN F
                             /\ dst[i].rect.width = F[dst[i].index][1]
                             /\ dst[i].rect.height = F[dst[i].index][2]
    /\ \A i, j \in DOMAIN dst : dst[i].index = dst[j].index => i = j

\* The books of an insertion of frames F: each is either placed, or waits.
Books(sizes, indices, dst, used, F) ==
    /\ Len(indices) = Len(sizes) /\ Len(dst) + Len(sizes) = Len(F) /\ Len(dst) = Len(used)
    /\ \A i \in DOMAIN indices : indices[i] \in DOMAIN F /\ sizes[i] = F[indices[i]]
    /\ Distinct(indices)
    /\ \A i \in DOMAIN dst : dst[i].rect = used[i]
    /\ OfFrames(dst, F)
    /\ \A i \in DOMAIN dst, j \in DOMAIN indices : dst[i].index # indices[j]
    /\ \A n \in DOMAIN F : \/ \E i \in DOMAIN dst : dst[i].index = n
                           \/ \E i \in DOMAIN indices : indices[i] = n

\* The books still agree when one of the sizes was placed.
LEMMA OneMorePlaced ==
    ASSUME NEW F \in Seq(Nat \X Nat), NEW sizes \in Seq(Nat \X Nat), NEW indices \in Seq(Nat),
           NEW dst \in Seq(Entries), NEW used \in Seq(Rects), Books(sizes, indices, dst, used, F),
           NEW k \in DOMAIN sizes, NEW r \in Rects,
           r.width = sizes[k][1], r.height = sizes[k][2]
    PROVE  LET e == [rect |-> r, index |-> indices[k]]
           IN  /\ Books(RemoveAt(sizes, k), RemoveAt(indices, k), Append(dst, e),
                        Append(used, r), F)
               /\ RemoveAt(sizes, k) \in Seq(Nat \X Nat) /\ RemoveAt(indices, k) \in Seq(Nat)
               /\ Append(dst, e) \in Seq(Entries)
<1> DEFINE e == [rect |-> r, index |-> indices[k]]
           M == Len(sizes)
           D == Len(dst)
           N == Len(F)
           sizes2 == RemoveAt(sizes, k)
           indices2 == RemoveAt(indices, k)
           dst2 == Append(dst, e)
           used2 == Append(used, r)
<1>1. /\ Len(indices) = M /\ D + M = N /\ Len(used) = D
      /\ \A i \in DOMAIN indices : indices[i] \in DOMAIN F /\ sizes[i] = F[indices[i]]
      /\ \A i, j \in DOMAIN indices : indices[i] = indices[j] => i = j
      /\ \A i \in DOMAIN dst : dst[i].rect = used[i]
      /\ \A i \in DOMAIN dst, j \in DOMAIN indices : dst[i].index # indices[j]
      /\ \A n \in DOMAIN F : \/ \E i \in DOMAIN dst : dst[i].index = n
                             \/ \E i \in DOMAIN indices : indices[i] = n
  BY DEF Books, Distinct
<1>2. /\ \A i \in DOMAIN dst : /\ dst[i].index \in DOMAIN F
                               /\ dst[i].rect.width = F[dst[i].index][1]
                               /\ dst[i].rect.height = F[dst[i].index][2]
      /\ \A i, j \in DOMAIN dst : dst[i].index = dst[j].index => i = j
  BY DEF Books, OfFrames
<1>3. /\ M \in Nat /\ D \in Nat /\ N \in Nat /\ DOMAIN F = 1 .. N /\ DOMAIN sizes = 1 .. M
      /\ DOMAIN indices = 1 .. M /\ DOMAIN dst = 1 .. D
  BY <1>1, LenProperties
<1>4. k \in 1 .. M
  BY <1>3
<1>5. e \in Entries /\ e.rect = r /\ e.index = indices[k]
  <2>1. indices[k] \in Nat
    BY <1>3, <1>4, LenProperties
  <2> QED
    BY <2>1 DEF Entries
<1>6. /\ sizes2 \in Seq(Nat \X Nat) /\ Len(sizes2) = M - 1
      /\ \A j \in 1 .. M - 1 : sizes2[j] = sizes[Skip(k, j)]
  BY Removed DEF Skip
<1>7. /\ indices2 \in Seq(Nat) /\ Len(indices2) = M - 1
      /\ \A j \in 1 .. M - 1 : indices2[j] = indices[Skip(k, j)]
  <2>1. k \in DOMAIN indices /\ Len(indices) = M
    BY <1>1, <1>3, <1>4
  <2>2. /\ indices2 \in Seq(Nat) /\ Len(indices2) = Len(indices) - 1
        /\ \A j \in 1 .. Len(indices) - 1 :
             indices2[j] = IF j < k THEN indices[j] ELSE indices[j + 1]
    BY <2>1, Removed
  <2> HIDE DEF indices2, M
  <2> QED
    BY <2>1, <2>2 DEF Skip
<1> HIDE DEF e
<1>8. /\ dst2 \in Seq(Entries) /\ Len(dst2) = D + 1
      /\ \A j \in 1 .. D : dst2[j] = dst[j]
      /\ dst2[D + 1] = e
  BY <1>5, AppendProperties
<1>9. /\ Len(used2) = D + 1
      /\ \A j \in 1 .. D : used2[j] = used[j]
      /\ used2[D + 1] = r
  <2>1. /\ Len(used2) = Len(used) + 1
        /\ \A j \in 1 .. Len(used) : used2[j] = used[j]
        /\ used2[Len(used) + 1] = r
    BY AppendProperties
  <2>2. Len(used) = D
    BY <1>1
  <2> HIDE DEF D, used2
  <2> QED
    BY <2>1, <2>2
<1> HIDE DEF M, D, N, sizes2, indices2, dst2, used2
<1>10. /\ \A j \in 1 .. M - 1 : Skip(k, j) \in 1 .. M /\ Skip(k, j) # k
       /\ \A j, m \in 1 .. M - 1 : Skip(k, j) = Skip(k, m) => j = m
       /\ \A m \in 1 .. M : m # k => \E j \in 1 .. M - 1 : Skip(k, j) = m
  BY <1>3, <1>4, SkipFacts
<1>11. DOMAIN indices2 = 1 .. M - 1 /\ DOMAIN dst2 = 1 .. D + 1
  BY <1>7, <1>8, LenProperties
<1>12. /\ \A j \in 1 .. D + 1 : j \in 1 .. D \/ j = D + 1
       /\ \A j \in 1 .. D : j \in 1 .. D + 1
       /\ D + 1 \in 1 .. D + 1
  BY <1>3
<1> DEFINE last == D + 1
           before == M - 1
           Waiting == 1 .. before
           Old == 1 .. D
           New == 1 .. last
<1>13. /\ DOMAIN indices2 = Waiting /\ DOMAIN dst2 = New /\ last \in New
       /\ \A j \in New : j \in Old \/ j = last
       /\ \A j \in Old : j \in New /\ dst2[j] = dst[j] /\ used2[j] = used[j]
       /\ dst2[last] = e /\ used2[last] = r
       /\ \A j \in Waiting : /\ sizes2[j] = sizes[Skip(k, j)] /\ indices2[j] = indices[Skip(k, j)]
                             /\ Skip(k, j) \in DOMAIN indices /\ Skip(k, j) # k
       /\ \A j, m \in Waiting : Skip(k, j) = Skip(k, m) => j = m
       /\ \A m \in DOMAIN indices : m # k => \E j \in Waiting : Skip(k, j) = m
       /\ DOMAIN dst = Old /\ k \in DOMAIN indices
  BY <1>3, <1>4, <1>6, <1>7, <1>8, <1>9, <1>10, <1>11, <1>12
<1>14. Len(indices2) = Len(sizes2) /\ Len(dst2) + Len(sizes2) = Len(F) /\ Len(dst2) = Len(used2)
  <2>1. (D + 1) + (M - 1) = N
    BY <1>1, <1>3
  <2> QED
    BY <1>6, <1>7, <1>8, <1>9, <2>1 DEF N
<1> HIDE DEF Waiting, Old, New, last
<1>15. \A i \in DOMAIN indices2 : indices2[i] \in DOMAIN F /\ sizes2[i] = F[indices2[i]]
  BY <1>1, <1>13
<1>16. Distinct(indices2)
  BY <1>1, <1>13 DEF Distinct
<1>17. \A i \in DOMAIN dst2 : dst2[i].rect = used2[i]
  BY <1>1, <1>5, <1>13
<1>18. OfFrames(dst2, F)
  <2>1. indices[k] \in DOMAIN F /\ sizes[k] = F[indices[k]]
    BY <1>1, <1>13
  <2>2. /\ e.index \in DOMAIN F
        /\ e.rect.width = F[e.index][1] /\ e.rect.height = F[e.index][2]
    BY <1>5, <2>1
  <2>3. ASSUME NEW i \in DOMAIN dst2
        PROVE  /\ dst2[i].index \in DOMAIN F
               /\ dst2[i].rect.width = F[dst2[i].index][1]
               /\ dst2[i].rect.height = F[dst2[i].index][2]
    <3>1. CASE i \in Old
      <4>1. i \in DOMAIN dst /\ dst2[i] = dst[i]
        BY <1>13, <3>1
      <4> QED
        BY <1>2, <4>1
    <3>2. CASE i = last
      <4>1. dst2[i] = e
        BY <1>13, <3>2
      <4> QED
        BY <2>2, <4>1
    <3> QED
      BY <1>13, <3>1, <3>2
  <2>4. ASSUME NEW i \in Old PROVE dst2[i].index # dst2[last].index
    <3>1. i \in DOMAIN dst /\ dst2[i] = dst[i] /\ k \in DOMAIN indices /\ dst2[last] = e
      BY <1>13
    <3>2. dst[i].index # indices[k]
      BY <1>1, <3>1
    <3> QED
      BY <1>5, <3>1, <3>2
  <2>5. ASSUME NEW i \in Old, NEW j \in Old, dst2[i].index = dst2[j].index PROVE i = j
    <3>1. i \in DOMAIN dst /\ dst2[i] = dst[i] /\ j \in DOMAIN dst /\ dst2[j] = dst[j]
      BY <1>13
    <3> QED
      BY <1>2, <2>5, <3>1
  <2>6. \A i \in DOMAIN dst2 : i \in Old \/ i = last
    BY <1>13
  <2>7. \A i, j \in DOMAIN dst2 : dst2[i].index = dst2[j].index => i = j
    BY <2>4, <2>5, <2>6
  <2> QED
    BY <2>3, <2>7 DEF OfFrames
<1>19. ASSUME NEW i \in DOMAIN dst2, NEW j \in DOMAIN indices2
       PROVE  dst2[i].index # indices2[j]
  <2>1. /\ j \in Waiting /\ indices2[j] = indices[Skip(k, j)]
        /\ Skip(k, j) \in DOMAIN indices /\ Skip(k, j) # k /\ k \in DOMAIN indices
    BY <1>13
  <2>2. CASE i \in Old
    <3>1. i \in DOMAIN dst /\ dst2[i] = dst[i]
      BY <1>13, <2>2
    <3>2. dst[i].index # indices[Skip(k, j)]
      BY <1>1, <2>1, <3>1
    <3> QED
      BY <2>1, <3>1, <3>2
  <2>3. CASE i = last
    <3>1. dst2[i].index = indices[k]
      BY <1>5, <1>13, <2>3
    <3>2. indices[k] # indices[Skip(k, j)]
      BY <1>1, <2>1
    <3> QED
      BY <2>1, <3>1, <3>2
  <2> QED
    BY <1>13, <2>2, <2>3
<1>20. ASSUME NEW n \in DOMAIN F
       PROVE  \/ \E i \in DOMAIN dst2 : dst2[i].index = n
              \/ \E i \in DOMAIN indices2 : indices2[i] = n
  <2>1. CASE \E i \in DOMAIN dst : dst[i].index = n
    BY <1>13, <2>1
  <2>2. CASE \E i \in DOMAIN indices : indices[i] = n
    <3>1. PICK i \in DOMAIN indices : indices[i] = n
      BY <2>2
    <3>2. CASE i = k
      <4>1. dst2[last].index = n
        BY <1>5, <1>13, <3>1, <3>2
      <4> QED
        BY <1>13, <4>1
    <3>3. CASE i # k
      <4>1. PICK j \in Waiting : Skip(k, j) = i
        BY <1>13, <3>3
      <4> QED
        BY <1>13, <3>1, <4>1
    <3> QED
      BY <3>2, <3>3
  <2> QED
    BY <1>1, <2>1, <2>2
<1>21. Books(sizes2, indices2, dst2, used2, F)
  BY <1>14, <1>15, <1>16, <1>17, <1>18, <1>19, <1>20 DEF Books
<1> QED
  BY <1>6, <1>7, <1>8, <1>21 DEF sizes2, indices2, dst2, used2, e

\* An insertion of frames F into a bin.
Accounted(F, bin) ==
    {s \in [packer : Packers, sizes : Seq(Nat \X Nat), indices : Seq(Nat),
            method : Heuristics, dst : Seq(Entries)] :
       /\ UsedApart(s.packer) /\ s.packer.bin = bin
       /\ Books(s.sizes, s.indices, s.dst, s.packer.used, F)}

\* At the start all frames wait.
LEMMA StartAccounts ==
    ASSUME NEW F \in Seq(Nat \X Nat), NEW width \in Int, NEW height \in Int
    PROVE  LET bin == [width |-> width, height |-> height, allowFlip |-> FALSE]
               s == Insertion(Empty(bin), F, "BottomLeft")
           IN  s \in Accounted(F, bin) /\ s.sizes = F
<1> DEFINE bin == [width |-> width, height |-> height, allowFlip |-> FALSE]
           p == Empty(bin)
           s == Insertion(p, F, "BottomLeft")
           n == Len(F)
           all == [i \in DOMAIN F |-> i]
<1>1. bin \in [width : Int, height : Int, allowFlip : BOOLEAN]
  OBVIOUS
<1> HIDE DEF bin
<1>2. UsedApart(p) /\ p.bin = bin /\ p.used = <<>>
  BY <1>1, EmptyBin DEF Empty
<1>3. n \in Nat /\ DOMAIN F = 1 .. n
  BY LenProperties
<1>4. s = [packer |-> p, sizes |-> F, indices |-> all, method |-> "BottomLeft", dst |-> <<>>]
  BY DEF Insertion
<1> HIDE DEF p, s, n
<1>5. /\ all \in Seq(Nat) /\ Len(all) = n /\ DOMAIN all = DOMAIN F
      /\ \A i \in DOMAIN F : all[i] = i
  <2>1. all \in [1 .. n -> Nat]
    BY <1>3
  <2> QED
    BY <1>3, <2>1
<1> HIDE DEF all
<1>6. /\ s.packer = p /\ s.sizes = F /\ s.indices = all /\ s.dst = <<>>
      /\ s \in [packer : Packers, sizes : Seq(Nat \X Nat), indices : Seq(Nat),
                method : Heuristics, dst : Seq(Entries)]
  <2>1. <<>> \in Seq(Entries) /\ p \in Packers /\ "BottomLeft" \in Heuristics
    BY <1>2 DEF UsedApart, Heuristics
  <2> QED
    BY <1>4, <1>5, <2>1
<1>7. DOMAIN s.dst = {} /\ Len(s.dst) = 0
  BY <1>6
<1>8. Len(s.indices) = Len(s.sizes) /\ Len(s.dst) + Len(s.sizes) = Len(F)
  BY <1>3, <1>5, <1>6, <1>7 DEF n
<1>9. Len(s.dst) = Len(s.packer.used)
  BY <1>2, <1>6
<1>10. Distinct(s.indices)
  BY <1>5, <1>6 DEF Distinct
<1>11. /\ \A i \in DOMAIN s.indices : s.indices[i] \in DOMAIN F /\ s.sizes[i] = F[s.indices[i]]
       /\ \A k \in DOMAIN F : \E i \in DOMAIN s.indices : s.indices[i] = k
  BY <1>5, <1>6
<1>12. OfFrames(s.dst, F)
  BY <1>7 DEF OfFrames
<1>13. Books(s.sizes, s.indices, s.dst, s.packer.used, F)
  BY <1>7, <1>8, <1>9, <1>10, <1>11, <1>12 DEF Books
<1>14. s \in Accounted(F, bin)
  BY <1>2, <1>6, <1>13 DEF Accounted
<1> QED
  BY <1>6, <1>14 DEF s, p, bin

\* A round keeps the books.
LEMMA RoundAccounts ==
    ASSUME NEW F \in Seq(Nat \X Nat), NEW bin, ~bin.allowFlip,
           NEW s \in Accounted(F, bin), ~Ended(s)
    PROVE  Round(s) \in Accounted(F, bin)
<1> DEFINE best == BestPlacement(Placements(s.packer, s.sizes, s.method))
           t == Round(s)
           k == best.index
           r == best.rect
           e == [rect |-> r, index |-> s.indices[k]]
<1>1. /\ s \in [packer : Packers, sizes : Seq(Nat \X Nat), indices : Seq(Nat),
                method : Heuristics, dst : Seq(Entries)]
      /\ UsedApart(s.packer) /\ s.packer.bin = bin
      /\ Books(s.sizes, s.indices, s.dst, s.packer.used, F)
  BY DEF Accounted
<1>2. Running(s)
  BY <1>1 DEF Running
<1>3. /\ Fits(s.packer, s.sizes, best)
      /\ t = [packer  |-> PlaceRect(s.packer, r), sizes |-> RemoveAt(s.sizes, k),
              indices |-> RemoveAt(s.indices, k), method |-> s.method,
              dst |-> Append(s.dst, e)]
      /\ UsedApart(t.packer) /\ t.packer.bin = s.packer.bin
      /\ t.packer.used = Append(s.packer.used, r)
  BY <1>2, RoundPlaces
<1> HIDE DEF t, best
<1>4. /\ t.sizes = RemoveAt(s.sizes, k) /\ t.indices = RemoveAt(s.indices, k)
      /\ t.method = s.method /\ t.dst = Append(s.dst, e)
      /\ t = [packer |-> t.packer, sizes |-> t.sizes, indices |-> t.indices,
              method |-> t.method, dst |-> t.dst]
  BY <1>3
<1>5. /\ r \in Rects /\ k \in DOMAIN s.sizes
      /\ r.width = s.sizes[k][1] /\ r.height = s.sizes[k][2]
  BY <1>1, <1>3 DEF Fits
<1>6. /\ s.sizes \in Seq(Nat \X Nat) /\ s.indices \in Seq(Nat) /\ s.dst \in Seq(Entries)
      /\ s.packer.used \in Seq(Rects) /\ s.method \in Heuristics
  BY <1>1 DEF Packers
<1> HIDE DEF k, r
<1>7. /\ Books(t.sizes, t.indices, t.dst, t.packer.used, F)
      /\ t.sizes \in Seq(Nat \X Nat) /\ t.indices \in Seq(Nat) /\ t.dst \in Seq(Entries)
  <2> DEFINE sizes == s.sizes
             indices == s.indices
             dst == s.dst
             used == s.packer.used
  <2>1. /\ sizes \in Seq(Nat \X Nat) /\ indices \in Seq(Nat) /\ dst \in Seq(Entries)
        /\ used \in Seq(Rects) /\ Books(sizes, indices, dst, used, F)
        /\ k \in DOMAIN sizes /\ r \in Rects /\ r.width = sizes[k][1] /\ r.height = sizes[k][2]
    BY <1>1, <1>5, <1>6
  <2>2. /\ t.sizes = RemoveAt(sizes, k) /\ t.indices = RemoveAt(indices, k)
        /\ t.dst = Append(dst, [rect |-> r, index |-> indices[k]])
        /\ t.packer.used = Append(used, r)
    BY <1>3, <1>4
  <2> HIDE DEF sizes, indices, dst, used
  <2>3. /\ Books(RemoveAt(sizes, k), RemoveAt(indices, k),
                 Append(dst, [rect |-> r, index |-> indices[k]]), Append(used, r), F)
        /\ RemoveAt(sizes, k) \in Seq(Nat \X Nat) /\ RemoveAt(indices, k) \in Seq(Nat)
        /\ Append(dst, [rect |-> r, index |-> indices[k]]) \in Seq(Entries)
    BY <2>1, OneMorePlaced
  <2> QED
    BY <2>2, <2>3
<1>8. t.packer \in Packers /\ t.method \in Heuristics
  BY <1>3, <1>4, <1>6 DEF UsedApart
<1>9. t \in [packer : Packers, sizes : Seq(Nat \X Nat), indices : Seq(Nat),
             method : Heuristics, dst : Seq(Entries)]
  BY <1>4, <1>7, <1>8
<1>10. t \in Accounted(F, bin)
  BY <1>1, <1>3, <1>7, <1>9 DEF Accounted
<1> QED
  BY <1>10 DEF t

(***************************************************************************)
(* A sprite's atlas: of each number up to the number of its entries it has *)
(* one, whose rect lies in the texture, apart from those of all others.    *)
(***************************************************************************)
Atlases == [width : Int, height : Int, packed : Seq(Entries)]

SoundAtlas(a) ==
    /\ \A i \in DOMAIN a.packed : IsContainedIn(a.packed[i].rect, Rect(0, 0, a.width, a.height))
    /\ \A i, j \in DOMAIN a.packed : i # j => /\ Disjoint(a.packed[i].rect, a.packed[j].rect)
                                              /\ a.packed[i].index # a.packed[j].index
    /\ \A n \in 1 .. Len(a.packed) : \E i \in DOMAIN a.packed : a.packed[i].index = n

\* An atlas that all frames fit into is sound, and has each in its size.
LEMMA BuiltSound ==
    ASSUME frames \in Seq(Nat \X Nat), NEW width \in Int, NEW height \in Int,
           AllPacked(BuildAtlas(width, height))
    PROVE  LET a == BuildAtlas(width, height)
           IN  a \in Atlases /\ SoundAtlas(a) /\ OfFrames(a.packed, frames)
<1> DEFINE bin == [width |-> width, height |-> height, allowFlip |-> FALSE]
           s == Insertion(Empty(bin), frames, "BottomLeft")
           t == InsertAll(s)
           a == BuildAtlas(width, height)
           G == Accounted(frames, bin)
           N == Len(frames)
<1>1. s \in G /\ s.sizes = frames
  BY StartAccounts
<1>2. ~bin.allowFlip /\ bin.width = width /\ bin.height = height
  OBVIOUS
<1>3. N \in Nat /\ DOMAIN frames = 1 .. N
  BY LenProperties
<1>4. a = [width |-> width, height |-> height, packed |-> t.dst]
  BY DEF BuildAtlas
<1>5. Len(a.packed) = N
  BY DEF AllPacked
<1> HIDE DEF bin, s, a
<1>6. t \in G
  <2>1. \A u \in G : ~Ended(u) => Round(u) \in G
    BY <1>2, RoundAccounts
  <2>2. Len(s.sizes) \in Nat
    BY <1>1, <1>3
  <2> HIDE DEF G
  <2> QED
    BY <1>1, <2>1, <2>2, InsertAllKeeps
<1> HIDE DEF t
<1>7. /\ t \in [packer : Packers, sizes : Seq(Nat \X Nat), indices : Seq(Nat),
                method : Heuristics, dst : Seq(Entries)]
      /\ UsedApart(t.packer) /\ t.packer.bin = bin
      /\ Books(t.sizes, t.indices, t.dst, t.packer.used, frames)
  BY <1>6 DEF Accounted
<1> DEFINE dst == t.dst
           used == t.packer.used
           indices == t.indices
<1>8. dst \in Seq(Entries) /\ indices \in Seq(Nat) /\ used \in Seq(Rects) /\ a.packed = dst
  BY <1>4, <1>7 DEF Packers
<1>9. /\ Len(indices) = Len(t.sizes) /\ Len(dst) + Len(t.sizes) = N /\ Len(dst) = Len(used)
      /\ \A i \in DOMAIN dst : dst[i].rect = used[i]
      /\ OfFrames(dst, frames)
      /\ \A n \in DOMAIN frames : \/ \E i \in DOMAIN dst : dst[i].index = n
                                  \/ \E i \in DOMAIN indices : indices[i] = n
  BY <1>7 DEF Books
<1>10. /\ \A i \in DOMAIN used : IsContainedIn(used[i], Rect(0, 0, width, height))
       /\ \A i, j \in DOMAIN used : i # j => Disjoint(used[i], used[j])
  BY <1>2, <1>7 DEF UsedApart, Area
<1> HIDE DEF dst, used, indices
<1>11. DOMAIN indices = {} /\ DOMAIN dst = DOMAIN used /\ Len(dst) = N
  <2>1. Len(dst) = N
    BY <1>5, <1>8
  <2>2. Len(indices) \in Nat /\ DOMAIN indices = 1 .. Len(indices)
    BY <1>8, LenProperties
  <2>3. Len(indices) = 0
    <3> DEFINE w == Len(t.sizes)
    <3>1. Len(indices) = w /\ N + w = N
      BY <1>9, <2>1
    <3> HIDE DEF w, N
    <3>2. w \in Nat
      BY <2>2, <3>1
    <3> QED
      BY <1>3, <3>1, <3>2
  <2>4. DOMAIN dst = 1 .. Len(dst) /\ DOMAIN used = 1 .. Len(used)
    BY <1>8, LenProperties
  <2> QED
    BY <1>9, <2>1, <2>2, <2>3, <2>4
<1>12. a \in Atlases /\ a.width = width /\ a.height = height
  <2>1. a = [width |-> width, height |-> height, packed |-> dst]
    BY <1>4 DEF dst
  <2> QED
    BY <1>8, <2>1 DEF Atlases
<1>13. \A i \in DOMAIN dst : IsContainedIn(dst[i].rect, Rect(0, 0, width, height))
  BY <1>9, <1>10, <1>11
<1>14. \A i, j \in DOMAIN dst : i # j => /\ Disjoint(dst[i].rect, dst[j].rect)
                                         /\ dst[i].index # dst[j].index
  <2>1. \A i, j \in DOMAIN dst : dst[i].index = dst[j].index => i = j
    BY <1>9 DEF OfFrames
  <2>2. \A i \in DOMAIN dst : i \in DOMAIN used /\ dst[i].rect = used[i]
    BY <1>9, <1>11
  <2>3. \A i, j \in DOMAIN dst : i # j => Disjoint(dst[i].rect, dst[j].rect)
    BY <1>10, <2>2
  <2> QED
    BY <2>1, <2>3
<1>15. \A n \in 1 .. Len(dst) : \E i \in DOMAIN dst : dst[i].index = n
  BY <1>3, <1>9, <1>11
<1>16. SoundAtlas(a)
  BY <1>8, <1>12, <1>13, <1>14, <1>15 DEF SoundAtlas
<1> QED
  BY <1>8, <1>9, <1>12, <1>16 DEF a

\* The entry with a frame's number is the only one.
LEMMA RectOfEntry ==
    ASSUME NEW a \in Atlases, SoundAtlas(a), NEW i \in DOMAIN a.packed
    PROVE  RectOf(a, a.packed[i].index) = a.packed[i].rect
<1> DEFINE P == a.packed
           entries == {j \in DOMAIN P : P[j].index = P[i].index}
<1>1. entries = {i}
  BY DEF SoundAtlas
<1>2. i \in Int
  <2>1. P \in Seq(Entries)
    BY DEF Atlases
  <2> QED
    BY <2>1, LenProperties
<1>3. Max({i}) = i
  BY <1>2 DEF Max
<1>4. RectOf(a, P[i].index) = P[IF entries = {} THEN 1 ELSE Max(entries)].rect
  BY DEF RectOf
<1> HIDE DEF entries
<1> QED
  BY <1>1, <1>3, <1>4

\* A sound atlas that is consistent with the frames has each in its size.
LEMMA ConsistentOfFrames ==
    ASSUME NEW a \in Atlases, SoundAtlas(a), IsConsistent(a)
    PROVE  OfFrames(a.packed, frames)
<1>1. ASSUME NEW i \in DOMAIN a.packed
      PROVE  /\ a.packed[i].index \in DOMAIN frames
             /\ a.packed[i].rect.width = frames[a.packed[i].index][1]
             /\ a.packed[i].rect.height = frames[a.packed[i].index][2]
  <2>1. RectOf(a, a.packed[i].index) = a.packed[i].rect
    BY RectOfEntry
  <2> QED
    BY <2>1 DEF IsConsistent
<1>2. \A i, j \in DOMAIN a.packed : a.packed[i].index = a.packed[j].index => i = j
  BY DEF SoundAtlas
<1> QED
  BY <1>1, <1>2 DEF OfFrames

(***************************************************************************)
(* The cache file: what of a sound atlas was written into it.              *)
(***************************************************************************)
LEMMA FirstOf ==
    ASSUME NEW S, NEW s \in Seq(S), NEW n \in 0 .. Len(s)
    PROVE  /\ SubSeq(s, 1, n) \in Seq(S) /\ Len(SubSeq(s, 1, n)) = n
           /\ \A i \in 1 .. n : SubSeq(s, 1, n)[i] = s[i]
<1>1. Len(s) \in Nat /\ \A i \in 1 .. Len(s) : s[i] \in S
  BY LenProperties
<1>2. 1 \in Int /\ n \in Int /\ \A i \in 1 .. n : s[i] \in S
  BY <1>1
<1>3. /\ SubSeq(s, 1, n) \in Seq(S) /\ Len(SubSeq(s, 1, n)) = IF 1 <= n THEN n - 1 + 1 ELSE 0
      /\ \A i \in 1 .. n - 1 + 1 : SubSeq(s, 1, n)[i] = s[1 + i - 1]
  BY <1>2, SubSeqProperties
<1> DEFINE t == SubSeq(s, 1, n)
<1> HIDE DEF t
<1>4. Len(t) = n /\ \A i \in 1 .. n : t[i] = s[i]
  <2>1. \A i \in 1 .. n : i \in 1 .. n - 1 + 1 /\ 1 + i - 1 = i
    BY <1>1
  <2>2. n >= 0
    BY <1>1
  <2> QED
    BY <1>2, <1>3, <2>1, <2>2 DEF t
<1> QED
  BY <1>3, <1>4 DEF t

\* The contents of the file of an atlas: a header, then its entries.
LEMMA ContentsFacts ==
    ASSUME NEW a \in Atlases
    PROVE  /\ Contents(a) \in Seq({Header(a)} \cup Entries)
           /\ Len(a.packed) \in Nat /\ Len(Contents(a)) = 1 + Len(a.packed)
           /\ Contents(a)[1] = Header(a)
           /\ \A i \in 1 .. Len(a.packed) : Contents(a)[i + 1] = a.packed[i]
<1> DEFINE P == a.packed
           n == Len(P)
           S == {Header(a)} \cup Entries
           C == Contents(a)
           h == <<Header(a)>>
<1>1. P \in Seq(Entries) /\ n \in Nat
  BY LenProperties DEF Atlases
<1>2. P \in Seq(S)
  BY <1>1, LenProperties
<1>3. h \in Seq(S) /\ Len(h) = 1 /\ h[1] = Header(a)
  OBVIOUS
<1>4. C = h \o P
  BY DEF Contents
<1> HIDE DEF S, C, h
<1>5. /\ C \in Seq(S) /\ Len(C) = Len(h) + Len(P)
      /\ \A i \in 1 .. Len(h) + Len(P) : C[i] = IF i <= Len(h) THEN h[i] ELSE P[i - Len(h)]
  BY <1>2, <1>3, <1>4, ConcatProperties
<1> HIDE DEF n
<1>6. Len(C) = 1 + n /\ \A i \in 1 .. 1 + n : C[i] = IF i <= 1 THEN h[i] ELSE P[i - 1]
  BY <1>3, <1>5 DEF n
<1>7. C[1] = Header(a)
  BY <1>1, <1>3, <1>6
<1>8. \A i \in 1 .. n : C[i + 1] = P[i]
  <2>1. \A i \in 1 .. n : i + 1 \in 1 .. 1 + n /\ ~(i + 1 <= 1) /\ (i + 1) - 1 = i
    BY <1>1
  <2> QED
    BY <1>6, <2>1
<1> QED
  BY <1>1, <1>5, <1>6, <1>7, <1>8 DEF C, S, n

CacheSound(file) ==
    file = <<>> \/ \E a \in Atlases : /\ SoundAtlas(a)
                                      /\ \E n \in 1 .. 1 + Len(a.packed) :
                                           file = SubSeq(Contents(a), 1, n)

\* A file of which all expected rects can be read is the whole of an atlas.
LEMMA LoadableWhole ==
    ASSUME CacheSound(cacheFile), Loadable, frames \in Seq(Nat \X Nat)
    PROVE  Cached \in Atlases /\ SoundAtlas(Cached) /\ Len(Cached.packed) = Len(frames)
<1>1. PICK a \in Atlases : /\ SoundAtlas(a)
                           /\ \E n \in 1 .. 1 + Len(a.packed) :
                                cacheFile = SubSeq(Contents(a), 1, n)
  BY DEF CacheSound, Loadable
<1>2. PICK n \in 1 .. 1 + Len(a.packed) : cacheFile = SubSeq(Contents(a), 1, n)
  BY <1>1
<1> DEFINE P == a.packed
           m == Len(P)
           C == Contents(a)
           S == {Header(a)} \cup Entries
           N == Len(frames)
<1>3. /\ C \in Seq(S) /\ m \in Nat /\ Len(C) = 1 + m /\ C[1] = Header(a)
      /\ \A i \in 1 .. m : C[i + 1] = P[i]
  BY ContentsFacts
<1>4. N \in Nat /\ P \in Seq(Entries) /\ a = [width |-> a.width, height |-> a.height, packed |-> P]
  BY LenProperties DEF Atlases
<1>5. cacheFile[1].numRects = N /\ Len(cacheFile) = 1 + N
  BY DEF Loadable
<1> HIDE DEF C, S, N
<1>6. /\ cacheFile \in Seq(S) /\ Len(cacheFile) = n
      /\ \A i \in 1 .. n : cacheFile[i] = C[i]
  <2>1. n \in 0 .. Len(C)
    BY <1>3
  <2> QED
    BY <1>2, <1>3, <2>1, FirstOf DEF C
<1>7. n \in Nat /\ n >= 1
  BY <1>3
<1>8. cacheFile[1] = Header(a)
  BY <1>3, <1>6, <1>7
<1>9. m = N /\ Header(a).width = a.width /\ Header(a).height = a.height
  BY <1>5, <1>8 DEF Header
<1> DEFINE T == Tail(cacheFile)
<1>10. T \in Seq(S) /\ Len(T) = m /\ \A i \in 1 .. m : T[i] = cacheFile[i + 1]
  <2>1. cacheFile # <<>>
    BY DEF Loadable
  <2>2. T \in Seq(S) /\ Len(T) = Len(cacheFile) - 1 /\ \A i \in 1 .. Len(T) : T[i] = cacheFile[i + 1]
    BY <1>6, <2>1, HeadTailProperties
  <2> HIDE DEF T, m
  <2>3. Len(T) = m
    BY <1>4, <1>5, <1>9, <2>2
  <2> QED
    BY <2>2, <2>3
<1> HIDE DEF T
<1>11. T = P
  <2> HIDE DEF m, P
  <2>1. P \in Seq(Entries) /\ Len(P) = m
    BY <1>4 DEF m
  <2>2. n = 1 + m
    BY <1>3, <1>5, <1>6, <1>9
  <2>3. ASSUME NEW i \in 1 .. m PROVE T[i] = P[i]
    <3>1. i + 1 \in 1 .. n
      BY <1>3, <2>2
    <3> QED
      BY <1>3, <1>6, <1>10, <3>1
  <2>4. \A i \in 1 .. Len(T) : T[i] = P[i]
    BY <1>10, <2>3
  <2> QED
    BY <1>10, <2>1, <2>4, SeqEqual
<1>12. Cached = a
  BY <1>4, <1>8, <1>9, <1>11 DEF Cached, T
<1> QED
  BY <1>1, <1>9, <1>12 DEF N

(***************************************************************************)
(* The loading of sprites.                                                 *)
(***************************************************************************)
AtlasInv ==
    /\ spriteFile \in Sprites /\ frames \in Seq(Nat \X Nat)
    /\ search \in [size : Int, tooSmall : Int, acceptable : Int, attempt : Nat]
    /\ CacheSound(cacheFile)
    /\ loading \in {"render", "save", "shown"} =>
         /\ atlas \in Atlases /\ SoundAtlas(atlas)
         /\ OfFrames(atlas.packed, frames) /\ Len(atlas.packed) = Len(frames)

\* The state that the search starts in.
LEMMA NoSearchTyped ==
    noSearch \in [size : Int, tooSmall : Int, acceptable : Int, attempt : Nat]
BY AtlasAssumption DEF noSearch

\* A step of the search keeps the invariant.
LEMMA TrySizeKeeps ==
    ASSUME AtlasInv, TrySize
    PROVE  AtlasInv'
<1>1. /\ loading = "search"
      /\ UNCHANGED <<spriteFile, cacheFile, loading, frames, atlas, loaded>>
  BY DEF TrySize
<1>2. search' \in [size : Int, tooSmall : Int, acceptable : Int, attempt : Nat]
  <2> DEFINE fits       == AllPacked(BuildAtlas(search.size, search.size))
             tooSmall   == IF fits THEN search.tooSmall ELSE search.size
             acceptable == IF fits THEN search.size ELSE search.acceptable
             size == IF acceptable >= 0 THEN (tooSmall + acceptable) \div 2 ELSE 2 * tooSmall
  <2>1. search' = [size |-> size, tooSmall |-> tooSmall, acceptable |-> acceptable,
                   attempt |-> search.attempt + 1]
    BY DEF TrySize
  <2> HIDE DEF fits
  <2>2. tooSmall \in Int /\ acceptable \in Int /\ search.attempt + 1 \in Nat
    BY DEF AtlasInv
  <2> HIDE DEF tooSmall, acceptable
  <2>3. size \in Int
    BY <2>2
  <2> HIDE DEF size
  <2> QED
    BY <2>1, <2>2, <2>3
<1> QED
  BY <1>1, <1>2 DEF AtlasInv

\* What is loaded from the cache file is sound.
LEMMA LoadCacheKeeps ==
    ASSUME AtlasInv, LoadCache
    PROVE  AtlasInv'
<1>1. /\ Loadable /\ IsConsistent(Cached) /\ atlas' = Cached /\ loading' = "render"
      /\ UNCHANGED <<spriteFile, cacheFile, frames, search>>
  BY DEF LoadCache
<1>2. Cached \in Atlases /\ SoundAtlas(Cached) /\ Len(Cached.packed) = Len(frames)
  BY <1>1, LoadableWhole DEF AtlasInv
<1>3. OfFrames(Cached.packed, frames)
  BY <1>1, <1>2, ConsistentOfFrames
<1> DEFINE a == Cached
<1>4. /\ a \in Atlases /\ SoundAtlas(a) /\ Len(a.packed) = Len(frames)
      /\ OfFrames(a.packed, frames) /\ atlas' = a
  BY <1>1, <1>2, <1>3
<1> HIDE DEF a
<1> QED
  BY <1>1, <1>4 DEF AtlasInv

\* What is built is sound, or is not used.
LEMMA BuildKeeps ==
    ASSUME AtlasInv, Build
    PROVE  AtlasInv'
<1> DEFINE width  == IF Len(frames) = 1 THEN frames[1][1] ELSE search.acceptable
           height == IF Len(frames) = 1 THEN frames[1][2] ELSE search.acceptable
           built  == BuildAtlas(width, height)
           ok     == width > 0 /\ height > 0 /\ AllPacked(built)
<1>1. /\ atlas' = IF ok THEN built ELSE noAtlas
      /\ loading' = IF ok THEN "render" ELSE "failed"
      /\ UNCHANGED <<spriteFile, cacheFile, frames, search, loaded>>
  BY DEF Build
<1>2. width \in Int /\ height \in Int /\ frames \in Seq(Nat \X Nat)
  <2>1. frames \in Seq(Nat \X Nat) /\ search.acceptable \in Int
    BY DEF AtlasInv
  <2>2. Len(frames) = 1 => frames[1] \in Nat \X Nat
    BY <2>1, LenProperties
  <2> QED
    BY <2>1, <2>2
<1> HIDE DEF width, height
<1>3. CASE ok
  <2>1. /\ built \in Atlases /\ SoundAtlas(built) /\ OfFrames(built.packed, frames)
        /\ Len(built.packed) = Len(frames)
    BY <1>2, <1>3, BuiltSound DEF AllPacked
  <2>2. atlas' = built
    BY <1>1, <1>3
  <2> HIDE DEF built, ok
  <2> QED
    BY <1>1, <2>1, <2>2 DEF AtlasInv
<1>4. CASE ~ok
  BY <1>1, <1>4 DEF AtlasInv
<1> QED
  BY <1>3, <1>4

\* The cache file stays a part of a sound atlas while it is written.
LEMMA SaveMoreKeeps ==
    ASSUME AtlasInv, SaveMore
    PROVE  AtlasInv'
<1>1. /\ loading = "save" /\ Len(cacheFile) < Len(Contents(atlas))
      /\ cacheFile' = SubSeq(Contents(atlas), 1, Len(cacheFile) + 1)
      /\ UNCHANGED <<spriteFile, loading, frames, atlas, search, loaded>>
  BY DEF SaveMore
<1>2. atlas \in Atlases /\ SoundAtlas(atlas)
  BY <1>1 DEF AtlasInv
<1>3. Len(cacheFile) \in Nat
  <2>1. CASE cacheFile = <<>>
    BY <2>1
  <2>2. CASE cacheFile # <<>>
    <3>1. PICK a \in Atlases : \E n \in 1 .. 1 + Len(a.packed) :
                                 cacheFile = SubSeq(Contents(a), 1, n)
      BY <2>2 DEF AtlasInv, CacheSound
    <3>2. PICK n \in 1 .. 1 + Len(a.packed) : cacheFile = SubSeq(Contents(a), 1, n)
      BY <3>1
    <3> DEFINE S == {Header(a)} \cup Entries
    <3>3. Contents(a) \in Seq(S) /\ n \in 0 .. Len(Contents(a)) /\ n \in Nat
      BY ContentsFacts
    <3> HIDE DEF S
    <3> QED
      BY <3>2, <3>3, FirstOf
  <2> QED
    BY <2>1, <2>2
<1>4. CacheSound(cacheFile')
  <2>1. Len(cacheFile) + 1 \in 1 .. 1 + Len(atlas.packed)
    <3> DEFINE m == Len(atlas.packed)
               n == Len(cacheFile)
    <3>1. m \in Nat /\ n \in Nat /\ n < 1 + m
      BY <1>1, <1>2, <1>3, ContentsFacts
    <3> HIDE DEF m, n
    <3>2. n + 1 \in 1 .. 1 + m
      BY <3>1
    <3> QED
      BY <3>2 DEF m, n
  <2> QED
    BY <1>1, <1>2, <2>1 DEF CacheSound
<1> QED
  BY <1>1, <1>4 DEF AtlasInv

\* Each step keeps the invariant, the end of the program at any time included.
LEMMA AtlasKept ==
    ASSUME AtlasInv, [AtlasNext]_atlasVars
    PROVE  AtlasInv'
<1>1. CASE ReplaceSprite
  BY <1>1 DEF ReplaceSprite, AtlasInv
<1>2. CASE LoadSprite
  BY <1>2, AtlasAssumption DEF LoadSprite, AtlasInv
<1>3. CASE LoadCache
  BY <1>3, LoadCacheKeeps
<1>4. CASE DiscardCache
  BY <1>4, NoSearchTyped DEF DiscardCache, AtlasInv
<1>5. CASE TrySize
  BY <1>5, TrySizeKeeps
<1>6. CASE EndSearch
  BY <1>6 DEF EndSearch, AtlasInv
<1>7. CASE Build
  BY <1>7, BuildKeeps
<1>8. CASE Render
  <2>1. /\ loading = "render" /\ loading' \in {"shown", "save"}
        /\ cacheFile' = cacheFile \/ cacheFile' = <<>>
        /\ UNCHANGED <<spriteFile, frames, atlas, search, loaded>>
    BY <1>8 DEF Render
  <2>2. CacheSound(cacheFile')
    BY <2>1 DEF AtlasInv, CacheSound
  <2> QED
    BY <2>1, <2>2 DEF AtlasInv
<1>9. CASE SaveMore
  BY <1>9, SaveMoreKeeps
<1>10. CASE EndSave
  BY <1>10 DEF EndSave, AtlasInv
<1>11. CASE Quit
  BY <1>11, NoSearchTyped DEF Quit, AtlasInv
<1>12. CASE UNCHANGED atlasVars
  BY <1>12 DEF atlasVars, AtlasInv
<1> QED
  BY <1>1, <1>2, <1>3, <1>4, <1>5, <1>6, <1>7, <1>8, <1>9, <1>10, <1>11, <1>12 DEF AtlasNext

\* What of an atlas can be drawn: each frame into a rect of its own.
LEMMA InvSound ==
    ASSUME AtlasInv
    PROVE  AtlasSound
<1> SUFFICES ASSUME loading \in {"save", "shown"}, NEW f \in DOMAIN frames
             PROVE  LET r == RectOf(atlas, f)
                    IN  /\ <<r.width, r.height>> = frames[f]
                        /\ IsContainedIn(r, Rect(0, 0, atlas.width, atlas.height))
                        /\ \A g \in DOMAIN frames \ {f} : Disjoint(r, RectOf(atlas, g))
  BY DEF AtlasSound
<1> DEFINE P == atlas.packed
<1>1. /\ atlas \in Atlases /\ SoundAtlas(atlas)
      /\ OfFrames(P, frames) /\ Len(P) = Len(frames) /\ frames \in Seq(Nat \X Nat)
  BY DEF AtlasInv
<1>2. ASSUME NEW g \in DOMAIN frames
      PROVE  \E i \in DOMAIN P : P[i].index = g /\ RectOf(atlas, g) = P[i].rect
  <2>1. g \in 1 .. Len(P)
    BY <1>1, LenProperties
  <2>2. PICK i \in DOMAIN P : P[i].index = g
    BY <1>1, <2>1 DEF SoundAtlas
  <2> QED
    BY <1>1, <2>2, RectOfEntry
<1>3. PICK i \in DOMAIN P : P[i].index = f /\ RectOf(atlas, f) = P[i].rect
  BY <1>2
<1> DEFINE r == P[i].rect
<1>4. <<r.width, r.height>> = frames[f]
  <2>1. r.width = frames[f][1] /\ r.height = frames[f][2]
    BY <1>1, <1>3 DEF OfFrames
  <2>2. frames[f] \in Nat \X Nat
    BY <1>1, LenProperties
  <2> HIDE DEF r
  <2> QED
    BY <2>1, <2>2
<1>5. IsContainedIn(r, Rect(0, 0, atlas.width, atlas.height))
  BY <1>1 DEF SoundAtlas
<1>6. ASSUME NEW g \in DOMAIN frames \ {f} PROVE Disjoint(r, RectOf(atlas, g))
  <2>1. PICK j \in DOMAIN P : P[j].index = g /\ RectOf(atlas, g) = P[j].rect
    BY <1>2
  <2>2. i # j
    BY <1>3, <2>1
  <2> QED
    BY <1>1, <2>1, <2>2 DEF SoundAtlas
<1> QED
  BY <1>3, <1>4, <1>5, <1>6

\* Whatever the cache file went through, every frame that is drawn has a rect of its
\* own size in the texture, apart from those of all others: for every sprite, every
\* size that the search starts with and every number of its attempts.
THEOREM AtlasAlwaysSound == AtlasSpec => []AtlasSound
<1>1. AtlasInit => AtlasInv
  <2> SUFFICES ASSUME AtlasInit PROVE AtlasInv
    OBVIOUS
  <2>1. <<>> \in Seq(Nat \X Nat)
    OBVIOUS
  <2> QED
    BY <2>1, NoSearchTyped DEF AtlasInit, AtlasInv, CacheSound
<1>2. AtlasInv /\ [AtlasNext]_atlasVars => AtlasInv'
  BY AtlasKept
<1>3. AtlasInv => AtlasSound
  BY InvSound
<1> QED
  BY <1>1, <1>2, <1>3, PTL DEF AtlasSpec

(***************************************************************************)
(* The layers of a sprite.  What is known while a layer is read is said of *)
(* its rows so far with the pixels of the current one.                     *)
(***************************************************************************)
LayerTypes == {"graphic", "shadow", "outline"}

\* What is drawn into a layer, and what its pixels may be later.
DrawnPixels(type) == IF type = "graphic" THEN {0, 254, 255} \X Nat ELSE Nat
LaterPixels(type) == IF type = "graphic" THEN {0, 1, 252, 253, 254, 255} \X Nat ELSE Nat

\* What the edges of a row may be: pixels to skip on both sides, or the whole row.
RowEdgeSet == (Nat \cup {Skipped}) \X (Nat \cup {Skipped})

\* The images of a layer, as long as they are read and later.
LayerImages(type) ==
    [width : Int, height : Int, x : Int, y : Int, edges : Seq(RowEdgeSet),
     rows : Seq(Seq(LaterPixels(type)))]

\* The images that are read so far are typed.
ImagesTyped ==
    /\ images = [t \in LayerTypes |-> images[t]]
    /\ \A t \in LayerTypes : images[t] \in LayerImages(t)

\* The rows of a layer are being read.
ReadingRows == reading \in {"row", "command", "pixels"}

\* Where the file is being read.
LayerControl ==
    /\ frame \in Frames
    /\ reading \in {"palette", "header", "row", "command", "pixels", "inpaint", "done", "failed"}
    /\ reading = "palette" => layer = 1
    /\ reading \notin {"palette", "failed"} => frame.palette \in Palettes
    /\ reading \in {"header", "row", "command", "pixels", "inpaint"} =>
         layer \in 1 .. Len(frame.layers)
    /\ reading = "done" => layer = Len(frame.layers) + 1

\* An image whose rows are as wide as it is.
Rectangular(image) ==
    /\ image.width \in Nat /\ image.height \in Nat
    /\ Len(image.rows) = image.height
    /\ \A y \in 1 .. image.height : Len(image.rows[y]) = image.width

\* The rows so far are as wide as the image, and as many as were read.
RowsRead ==
    ReadingRows =>
      /\ Image.width = L.width + 2 * BorderOf(L) /\ Image.height = L.height + 2 * BorderOf(L)
      /\ Image.edges = RowEdges(L)
      /\ row \in 0 .. Image.height /\ Len(Image.rows) = row
      /\ \A y \in 1 .. row : Len(Image.rows[y]) = Image.width
      /\ next \in Nat \ {0} /\ ptr \in Nat
      /\ out \in Seq(DrawnPixels(L.type))
      /\ reading = "row" => out = <<>>
      /\ reading # "row" =>
           /\ row < Image.height
           /\ BorderOf(L) <= Len(out) /\ Len(out) <= L.width + BorderOf(L)
           /\ BorderOf(L) = 1 => row # 0 /\ row + 1 # Image.height
      /\ reading = "pixels" =>
           /\ run.count \in Nat \ {0} /\ run.code \in {1, 2}
           /\ Len(out) + run.count <= L.width + BorderOf(L)

\* The outermost pixels are transparent: there is space for the outline.
EmptyBorder(rows, width, height) ==
    \A y \in DOMAIN rows : \A x \in DOMAIN rows[y] :
       x \in {1, width} \/ y \in {1, height} => rows[y][x][1] \in 0 .. 1

\* Where the next color is, after some.
Position(number) ==
    /\ frame.compression = "none"   => ptr = number
    /\ frame.compression = "8to5"   => ptr = 5 * (number \div 2) /\ decompressionState = number % 2
    /\ frame.compression = "4plus1" => ptr = 5 * (number \div 4) /\ decompressionState = number % 4

\* The rows of the graphic with the pixels of the one that is being read.
RowsSoFar == Append(images.graphic.rows, out)

\* While the graphic is read, its visible pixels are the first colors in their order, and the
\* next color is where the data are read.
GraphicRead ==
    ReadingRows /\ layer = 1 =>
      /\ \A y \in 1 .. row + 1 : RowsSoFar[y] \in Seq(DrawnPixels("graphic"))
      /\ frame.format = "SMX" => EmptyBorder(RowsSoFar, Image.width, Image.height)
      /\ IsFiniteSet(Shown(RowsSoFar))
      /\ ShownInOrder(Shown(RowsSoFar), L.colors)
      /\ Cardinality(Shown(RowsSoFar)) <= Len(L.colors)
      /\ Position(Cardinality(Shown(RowsSoFar)))

\* The outline is still to be drawn into the graphic.
OutlineFollows == \E i \in layer .. Len(frame.layers) : frame.layers[i].type = "outline"

\* Once the graphic is read it stays what was drawn, but for the outline.
GraphicWhole ==
    layer > 1 /\ reading # "failed" =>
      /\ Rectangular(images.graphic)
      /\ OutlineFollows =>
           \A y \in 1 .. images.graphic.height :
              images.graphic.rows[y] \in Seq(DrawnPixels("graphic"))
      /\ frame.format = "SMX" =>
           EmptyBorder(images.graphic.rows, images.graphic.width, images.graphic.height)
      /\ ShownInOrder(Shown(images.graphic.rows), frame.layers[1].colors)

\* What is promised of a pixel of the shadow.
Blended(shadow, graphic, p) ==
    LET q      == Across(shadow, graphic, p)
        beside == Uncovered(shadow, graphic, p)
    IN  Inside(graphic, q) /\ Opaque(graphic, q) /\ beside # {} => At(shadow, p) = Mean(shadow, beside)

\* The places of an image.
PixelsOf(image) == (0 .. image.width - 1) \X (0 .. image.height - 1)

\* Each pixel of the shadow that the graphic covers is blended from those beside it.
ShadowWhole ==
    /\ Rectangular(images.shadow)
    /\ \A p \in PixelsOf(images.shadow) : Blended(images.shadow, images.graphic, p)

\* While the shadow is inpainted, that is said of the pixels before the cursor.
ShadowInpainted ==
    /\ layer > 1 /\ L.type = "shadow"
    /\ Rectangular(images.shadow)
    /\ cursor \in PixelsOf(images.shadow)
    /\ \A p \in PixelsOf(images.shadow) :
          p[2] < cursor[2] \/ (p[2] = cursor[2] /\ p[1] < cursor[1])
            => Blended(images.shadow, images.graphic, p)

\* The shadow at every time.
ShadowRight ==
    reading # "failed" =>
      /\ layer = 1 => images.shadow = noImage
      /\ reading = "inpaint" => ShadowInpainted
      /\ ~ (reading = "inpaint" \/ (ReadingRows /\ L.type = "shadow")) =>
           images.shadow = noImage \/ ShadowWhole

\* The inductive invariant.
LayersInv ==
    ImagesTyped /\ LayerControl /\ RowsRead /\ GraphicRead /\ GraphicWhole /\ ShadowRight

\* What is assumed of files, of the one that is read.
LEMMA FileFacts ==
    ASSUME LayerControl, reading \notin {"palette", "failed"}
    PROVE  /\ Len(frame.layers) \in Nat \ {0}
           /\ frame.layers[1].type = "graphic"
           /\ \A i \in 1 .. Len(frame.layers) : LayerOK(frame, frame.layers[i])
           /\ \A i, j \in 1 .. Len(frame.layers) :
                frame.layers[i].type = frame.layers[j].type => i = j
           /\ frame.format \in {"SMX", "SMP"} /\ frame.compression \in {"none", "8to5", "4plus1"}
<1>1. frame \in Frames /\ frame.palette \in Palettes
  BY DEF LayerControl
<1> DEFINE f == frame
<1>2. /\ f.format \in {"SMX", "SMP"} /\ f.compression \in {"none", "8to5", "4plus1"}
      /\ f.layers \in Seq(Range(f.layers)) /\ f.layers # <<>>
      /\ f.layers[1].type = "graphic"
      /\ \A i \in DOMAIN f.layers : LayerOK(f, f.layers[i])
      /\ \A i, j \in DOMAIN f.layers : f.layers[i].type = f.layers[j].type => i = j
  BY <1>1, FramesAssumption
<1> HIDE DEF f
<1>3. Len(f.layers) \in Nat \ {0} /\ DOMAIN f.layers = 1 .. Len(f.layers)
  BY <1>2
<1> QED
  BY <1>2, <1>3 DEF f

\* The layer that is read.
LEMMA LayerFacts ==
    ASSUME LayerControl, reading \in {"header", "row", "command", "pixels", "inpaint"}
    PROVE  /\ layer \in 1 .. Len(frame.layers) /\ LayerOK(frame, L)
           /\ L.type \in LayerTypes /\ (layer = 1 <=> L.type = "graphic")
           /\ L.width \in Nat /\ L.height \in Nat /\ L.hotspotX \in Int /\ L.hotspotY \in Int
           /\ BorderOf(L) \in {0, 1}
           /\ BorderOf(L) = 1 <=> frame.format = "SMX" /\ layer = 1
<1>1. layer \in 1 .. Len(frame.layers) /\ L = frame.layers[layer]
  BY DEF LayerControl, L
<1>2. /\ Len(frame.layers) \in Nat \ {0}
      /\ frame.layers[1].type = "graphic"
      /\ \A i \in 1 .. Len(frame.layers) : LayerOK(frame, frame.layers[i])
      /\ \A i, j \in 1 .. Len(frame.layers) :
           frame.layers[i].type = frame.layers[j].type => i = j
  BY FileFacts
<1>3. LayerOK(frame, L)
  BY <1>1, <1>2
<1>4. L.type \in LayerTypes /\ L.width \in Nat /\ L.height \in Nat /\ L.hotspotX \in Int /\ L.hotspotY \in Int
  BY <1>3 DEF LayerOK, LayerTypes
<1>5. layer = 1 <=> L.type = "graphic"
  BY <1>1, <1>2
<1>6. BorderOf(L) = IF frame.format = "SMX" /\ layer = 1 THEN 1 ELSE 0
  BY <1>5 DEF BorderOf
<1> QED
  BY <1>1, <1>3, <1>4, <1>5, <1>6

\* Its row edges are those of the file within the border.
LEMMA EdgeFacts ==
    ASSUME LayerControl, reading \in {"header", "row", "command", "pixels", "inpaint"}
    PROVE  /\ RowEdges(L) \in Seq(RowEdgeSet) /\ Len(RowEdges(L)) = L.height + 2 * BorderOf(L)
           /\ \A y \in 1 .. L.height + 2 * BorderOf(L) :
                LET edge == RowEdges(L)[y]
                IN  \/ edge[1] = Skipped \/ edge[2] = Skipped
                    \/ /\ edge[1] \in Nat /\ edge[1] <= L.width
                       /\ BorderOf(L) = 1 => y # 1 /\ y # L.height + 2
<1> DEFINE b == BorderOf(L)
           skipped == [i \in 1 .. b |-> <<Skipped, Skipped>>]
<1>1. /\ b \in {0, 1} /\ L.height \in Nat /\ L.width \in Nat
      /\ L.edges \in Seq(RowEdgeSet) /\ Len(L.edges) = L.height
      /\ \A y \in 1 .. L.height : L.edges[y][2] # Skipped => L.edges[y][1] <= L.width
  BY LayerFacts DEF LayerOK, RowEdgeSet
<1>2. RowEdges(L) = (skipped \o L.edges) \o skipped
  BY DEF RowEdges
<1> HIDE DEF b
<1>3. skipped \in Seq(RowEdgeSet) /\ Len(skipped) = b /\ \A i \in 1 .. b : skipped[i] = <<Skipped, Skipped>>
  <2> DEFINE edge == <<Skipped, Skipped>>
  <2>1. edge \in RowEdgeSet /\ b \in Nat
    BY <1>1 DEF RowEdgeSet
  <2>2. skipped = [i \in 1 .. b |-> edge]
    OBVIOUS
  <2> HIDE DEF edge, skipped
  <2>3. skipped \in Seq(RowEdgeSet) /\ Len(skipped) = b /\ \A i \in 1 .. b : skipped[i] = edge
    BY <2>1, <2>2
  <2> QED
    BY <2>3 DEF edge
<1> HIDE DEF skipped
<1> DEFINE e == L.edges
           r == RowEdges(L)
<1>4. /\ r \in Seq(RowEdgeSet) /\ Len(r) = L.height + 2 * b
      /\ \A y \in 1 .. L.height + 2 * b :
           r[y] = IF y <= b THEN skipped[y] ELSE IF y <= b + L.height THEN e[y - b] ELSE skipped[y - b - L.height]
  <2> HIDE DEF e, r
  <2>1. e \in Seq(RowEdgeSet) /\ Len(e) = L.height /\ L.height \in Nat /\ b \in {0, 1}
    BY <1>1 DEF e
  <2>2. r = (skipped \o e) \o skipped
    BY <1>2 DEF e, r
  <2> DEFINE h == L.height
             front == skipped \o e
  <2>3. /\ h \in Nat /\ Len(e) = h /\ Len(skipped) = b /\ b \in {0, 1}
    BY <1>3, <2>1
  <2> HIDE DEF h
  <2>4. /\ front \in Seq(RowEdgeSet) /\ Len(front) = b + h
        /\ \A y \in 1 .. b + h : front[y] = IF y <= b THEN skipped[y] ELSE e[y - b]
    BY <1>3, <2>1, <2>3
  <2>5. r = front \o skipped
    BY <2>2
  <2> HIDE DEF front
  <2>6. /\ r \in Seq(RowEdgeSet) /\ Len(r) = h + 2 * b
        /\ \A y \in 1 .. h + 2 * b : r[y] = IF y <= b + h THEN front[y] ELSE skipped[y - b - h]
    BY <1>3, <2>3, <2>4, <2>5
  <2>7. \A y \in 1 .. h + 2 * b : y <= b => y <= b + h
    BY <2>3
  <2>8. \A y \in 1 .. h + 2 * b : y <= b + h => y \in 1 .. b + h
    BY <2>3
  <2> QED
    BY <2>4, <2>6, <2>7, <2>8 DEF h
<1>5. ASSUME NEW y \in 1 .. L.height + 2 * b, r[y][1] # Skipped, r[y][2] # Skipped
      PROVE  r[y][1] \in Nat /\ r[y][1] <= L.width /\ (b = 1 => y # 1 /\ y # L.height + 2)
  <2> DEFINE h == L.height
  <2> HIDE DEF r
  <2>1. b \in {0, 1} /\ h \in Nat /\ y \in 1 .. h + 2 * b
    BY <1>1
  <2>2. r[y] = IF y <= b THEN skipped[y] ELSE IF y <= b + h THEN e[y - b] ELSE skipped[y - b - h]
    BY <1>4
  <2> HIDE DEF h, e
  <2>3. b < y
    <3>1. SUFFICES ASSUME y <= b PROVE FALSE
      BY <2>1
    <3>2. r[y] = <<Skipped, Skipped>>
      BY <1>3, <2>1, <2>2, <3>1
    <3> QED
      BY <1>5, <3>2
  <2>4. y <= b + h
    <3>1. SUFFICES ASSUME ~ (y <= b + h) PROVE FALSE
      OBVIOUS
    <3>2. y - b - h \in 1 .. b
      BY <2>1, <3>1
    <3>3. r[y] = <<Skipped, Skipped>>
      BY <1>3, <2>2, <2>3, <2>1, <3>1, <3>2
    <3> QED
      BY <1>5, <3>3
  <2>5. r[y] = e[y - b] /\ y - b \in 1 .. h /\ (b = 1 => y # 1 /\ y # h + 2)
    BY <2>1, <2>2, <2>3, <2>4
  <2>6. /\ e[y - b] \in RowEdgeSet
        /\ e[y - b][2] # Skipped => e[y - b][1] <= L.width
    BY <1>1, <2>5 DEF e, h
  <2>7. r[y][1] \in Nat /\ r[y][2] # Skipped
    <3> DEFINE f == e[y - b]
    <3>1. f \in RowEdgeSet /\ r[y] = f
      BY <2>5, <2>6
    <3> HIDE DEF f
    <3>2. f[1] \in Nat \cup {Skipped}
      BY <3>1 DEF RowEdgeSet
    <3> QED
      BY <1>5, <3>1, <3>2
  <2> QED
    BY <2>5, <2>6, <2>7 DEF h
<1> QED
  BY <1>4, <1>5 DEF b

(***************************************************************************)
(* The visible pixels, as rows are added.                                  *)
(***************************************************************************)
VisibleIn(y, pixels) == {<<x, y, pixels[x][2]>> : x \in {i \in DOMAIN pixels : pixels[i][1] >= 252}}

\* What is shown is shown by one of the rows.
LEMMA ShownMember ==
    ASSUME NEW rows
    PROVE  \A s : s \in Shown(rows) <=> \E y \in DOMAIN rows : s \in VisibleIn(y, rows[y])
  BY DEF Shown, VisibleIn

\* Another row shows its own pixels beside those before it.
LEMMA ShownAppend ==
    ASSUME NEW S, NEW rows \in Seq(S), NEW pixels \in S
    PROVE  Shown(Append(rows, pixels)) = Shown(rows) \cup VisibleIn(Len(rows) + 1, pixels)
<1> DEFINE more == Append(rows, pixels)
           n    == Len(rows)
<1>1. /\ n \in Nat /\ DOMAIN rows = 1 .. n /\ DOMAIN more = 1 .. n + 1
      /\ \A y \in 1 .. n : more[y] = rows[y]
      /\ more[n + 1] = pixels
  OBVIOUS
<1> HIDE DEF more, n
<1>2. \A y : y \in 1 .. n + 1 <=> y \in 1 .. n \/ y = n + 1
  BY <1>1
<1>3. /\ \A s : s \in Shown(more) <=> \E y \in DOMAIN more : s \in VisibleIn(y, more[y])
      /\ \A s : s \in Shown(rows) <=> \E y \in DOMAIN rows : s \in VisibleIn(y, rows[y])
  BY ShownMember
<1>4. \A s : s \in Shown(more) <=> s \in Shown(rows) \/ s \in VisibleIn(n + 1, pixels)
  BY <1>1, <1>2, <1>3
<1>5. Shown(more) = Shown(rows) \cup VisibleIn(n + 1, pixels)
  BY <1>4
<1> QED
  BY <1>5 DEF more, n

\* A visible pixel is in the rows there are.
LEMMA ShownWhere ==
    ASSUME NEW S, NEW rows \in Seq(Seq(S)), NEW s \in Shown(rows)
    PROVE  /\ s[2] \in 1 .. Len(rows) /\ s[1] \in 1 .. Len(rows[s[2]])
           /\ rows[s[2]][s[1]][1] >= 252
           /\ s = <<s[1], s[2], rows[s[2]][s[1]][2]>>
<1>1. PICK y \in DOMAIN rows : s \in VisibleIn(y, rows[y])
  BY DEF Shown, VisibleIn
<1>2. PICK x \in DOMAIN rows[y] : rows[y][x][1] >= 252 /\ s = <<x, y, rows[y][x][2]>>
  BY <1>1 DEF VisibleIn
<1>3. s[1] = x /\ s[2] = y
  BY <1>2
<1>4. rows[y] \in Seq(S)
  BY <1>1
<1> QED
  BY <1>1, <1>2, <1>3, <1>4

\* Pixels that cannot be seen add nothing.
LEMMA VisibleWithBlanks ==
    ASSUME NEW S, NEW pixels \in Seq(S), NEW blanks \in Seq(S), NEW y,
           \A i \in 1 .. Len(blanks) : ~ (blanks[i][1] >= 252)
    PROVE  VisibleIn(y, pixels \o blanks) = VisibleIn(y, pixels)
<1> DEFINE all == pixels \o blanks
           n   == Len(pixels)
<1>1. /\ n \in Nat /\ DOMAIN pixels = 1 .. n /\ DOMAIN all = 1 .. n + Len(blanks)
      /\ Len(blanks) \in Nat
      /\ \A i \in 1 .. n : all[i] = pixels[i]
      /\ \A i \in 1 .. n + Len(blanks) : i > n => all[i] = blanks[i - n]
  OBVIOUS
<1> HIDE DEF all, n
<1>2. ASSUME NEW i \in 1 .. n + Len(blanks), i > n PROVE ~ (all[i][1] >= 252)
  <2>1. i - n \in 1 .. Len(blanks) /\ all[i] = blanks[i - n]
    BY <1>1, <1>2
  <2> QED
    BY <2>1
<1>3. \A i : i \in DOMAIN all /\ all[i][1] >= 252 <=> i \in DOMAIN pixels /\ pixels[i][1] >= 252
  <2> TAKE i
  <2>1. CASE i \in 1 .. n
    BY <1>1, <2>1
  <2>2. CASE i \in 1 .. n + Len(blanks) /\ i > n
    BY <1>1, <1>2, <2>2
  <2>3. CASE i \notin 1 .. n + Len(blanks)
    BY <1>1, <2>3
  <2>4. i \in 1 .. n + Len(blanks) => i \in 1 .. n \/ i > n
    BY <1>1
  <2> QED
    BY <2>1, <2>2, <2>3, <2>4
<1>4. {i \in DOMAIN all : all[i][1] >= 252} = {i \in DOMAIN pixels : pixels[i][1] >= 252}
  BY <1>3
<1>5. \A i \in {j \in DOMAIN pixels : pixels[j][1] >= 252} : all[i] = pixels[i]
  BY <1>1
<1>6. VisibleIn(y, all) = VisibleIn(y, pixels)
  BY <1>4, <1>5 DEF VisibleIn
<1> QED
  BY <1>6 DEF all

\* One more pixel adds itself, where it can be seen.
LEMMA VisibleWithOne ==
    ASSUME NEW S, NEW pixels \in Seq(S), NEW pixel \in S, NEW y, pixel[1] >= 252
    PROVE  VisibleIn(y, Append(pixels, pixel)) =
             VisibleIn(y, pixels) \cup {<<Len(pixels) + 1, y, pixel[2]>>}
<1> DEFINE all == Append(pixels, pixel)
           n   == Len(pixels)
<1>1. /\ n \in Nat /\ DOMAIN pixels = 1 .. n /\ DOMAIN all = 1 .. n + 1
      /\ \A i \in 1 .. n : all[i] = pixels[i]
      /\ all[n + 1] = pixel
  OBVIOUS
<1> HIDE DEF all, n
<1>2. {i \in DOMAIN all : all[i][1] >= 252} = {i \in DOMAIN pixels : pixels[i][1] >= 252} \cup {n + 1}
  <2>1. 1 .. n + 1 = (1 .. n) \cup {n + 1}
    BY <1>1
  <2>2. ASSUME NEW i \in DOMAIN all
        PROVE  all[i][1] >= 252 <=> i \in {j \in DOMAIN pixels : pixels[j][1] >= 252} \cup {n + 1}
    <3>1. CASE i = n + 1
      BY <1>1, <3>1
    <3>2. CASE i \in 1 .. n
      BY <1>1, <3>2
    <3> QED
      BY <1>1, <2>1, <3>1, <3>2
  <2>3. {j \in DOMAIN pixels : pixels[j][1] >= 252} \cup {n + 1} \subseteq DOMAIN all
    BY <1>1, <2>1
  <2> QED
    BY <2>2, <2>3
<1> DEFINE T == {i \in DOMAIN pixels : pixels[i][1] >= 252}
<1>3. T \subseteq 1 .. n
  BY <1>1
<1>4. VisibleIn(y, all) = {<<x, y, all[x][2]>> : x \in T \cup {n + 1}}
  BY <1>2 DEF VisibleIn
<1>5. VisibleIn(y, pixels) = {<<x, y, pixels[x][2]>> : x \in T}
  BY DEF VisibleIn
<1> HIDE DEF T
<1>6. {<<x, y, all[x][2]>> : x \in T \cup {n + 1}}
        = {<<x, y, pixels[x][2]>> : x \in T} \cup {<<n + 1, y, pixel[2]>>}
  <2>1. \A x \in T : all[x][2] = pixels[x][2]
    BY <1>1, <1>3
  <2>2. all[n + 1][2] = pixel[2]
    BY <1>1
  <2> QED
    BY <2>1, <2>2
<1> QED
  BY <1>4, <1>5, <1>6 DEF all, n

\* The next color in its place keeps them in order.
LEMMA NextInOrder ==
    ASSUME NEW S, IsFiniteSet(S), NEW colors, ShownInOrder(S, colors),
           NEW x \in Nat, NEW y \in Nat,
           \A s \in S : s[1] \in Nat /\ s[2] \in Nat /\ (s[2] < y \/ (s[2] = y /\ s[1] < x)),
           Cardinality(S) < Len(colors), Len(colors) \in Nat
    PROVE  LET more == S \cup {<<x, y, colors[Cardinality(S) + 1]>>}
           IN  /\ IsFiniteSet(more) /\ Cardinality(more) = Cardinality(S) + 1
               /\ ShownInOrder(more, colors)
<1> DEFINE n    == Cardinality(S)
           c    == colors[n + 1]
           t    == <<x, y, c>>
           more == S \cup {t}
           Earlier(T, s) == {r \in T : r[2] < s[2] \/ (r[2] = s[2] /\ r[1] < s[1])}
<1>1. t[1] = x /\ t[2] = y /\ t[3] = c
  OBVIOUS
<1> HIDE DEF t
<1>2. t \notin S
  <2>1. \A s \in S : s[1] # t[1] \/ s[2] # t[2]
    BY <1>1
  <2> QED
    BY <2>1
<1>3. n \in Nat /\ n < Len(colors)
  BY FS_CardinalityType
<1>4. IsFiniteSet(more) /\ Cardinality(more) = n + 1
  BY <1>2, FS_AddElement
<1>5. Earlier(more, t) = S
  BY <1>1
<1>6. ASSUME NEW s \in S PROVE Earlier(more, s) = Earlier(S, s)
  <2>1. ~ (t[2] < s[2] \/ (t[2] = s[2] /\ t[1] < s[1]))
    BY <1>1
  <2> QED
    BY <2>1
<1>7. \A s \in S : Cardinality(Earlier(S, s)) + 1 <= Len(colors)
                   /\ s[3] = colors[Cardinality(Earlier(S, s)) + 1]
  BY DEF ShownInOrder
<1> HIDE DEF Earlier, more, n, c
<1>8. \A s \in more : Cardinality(Earlier(more, s)) + 1 <= Len(colors)
                      /\ s[3] = colors[Cardinality(Earlier(more, s)) + 1]
  <2>1. n + 1 <= Len(colors)
    BY <1>3
  <2>2. Cardinality(Earlier(more, t)) = n /\ t[3] = colors[n + 1]
    BY <1>1, <1>5 DEF n, c
  <2>3. \A s \in more : s \in S \/ s = t
    BY DEF more
  <2> QED
    BY <1>6, <1>7, <2>1, <2>2, <2>3
<1>9. ShownInOrder(more, colors)
  BY <1>8 DEF ShownInOrder, Earlier
<1> QED
  BY <1>4, <1>9 DEF more, t, c, n

(***************************************************************************)
(* The shadow.  A blended pixel stays one while the sizes of the images    *)
(* and the opaque pixels of the graphic are the same, and the pixels that  *)
(* it is made of.                                                          *)
(***************************************************************************)
\* The sum in Mean, as a total.
LEMMA MeanSum ==
    ASSUME NEW image, NEW S, IsFiniteSet(S)
    PROVE  MapThenSumSet(LAMBDA q : At(image, q), S) = Total([q \in S |-> At(image, q)], S)
<1> DEFINE w == [q \in S |-> At(image, q)]
           H(g, s) == IF s = {} THEN 0 ELSE At(image, Picked(s)) + g[s \ {Picked(s)}]
           sum == CHOOSE g : g = [s \in SUBSET S |-> H(g, s)]
<1>1. ASSUME NEW g PROVE g = [s \in SUBSET S |-> H(g, s)] <=> IsSum(g, w, S)
  <2>1. \A s \in SUBSET S : s # {} => Picked(s) \in S
    BY DEF Picked
  <2>2. \A s \in SUBSET S : H(g, s) = IF s = {} THEN 0 ELSE w[Picked(s)] + g[s \ {Picked(s)}]
    BY <2>1
  <2> HIDE DEF H, w
  <2> QED
    BY <2>2 DEF IsSum
<1>2. MapThenSumSet(LAMBDA q : At(image, q), S) = sum[S]
  BY DEF MapThenSumSet, MapThenFoldSet, Picked
<1> HIDE DEF H, w
<1>3. \E g : g = [s \in SUBSET S |-> H(g, s)]
  BY <1>1, SumExists
<1>4. sum = [s \in SUBSET S |-> H(sum, s)]
  BY <1>3
<1> HIDE DEF sum
<1>5. IsSum(sum, w, S)
  BY <1>1, <1>4
<1>6. Total(w, S) = sum[S]
  BY <1>5, TotalIsSum
<1> QED
  BY <1>2, <1>6 DEF w

\* Few pixels are around one.
LEMMA UncoveredFinite ==
    ASSUME NEW s, NEW g, NEW p \in Int \X Int
    PROVE  IsFiniteSet(Uncovered(s, g, p))
<1> DEFINE box == (p[1] - 1 .. p[1] + 1) \X (p[2] - 1 .. p[2] + 1)
<1>1. /\ p[1] - 1 \in Int /\ p[1] + 1 \in Int /\ p[2] - 1 \in Int /\ p[2] + 1 \in Int
  OBVIOUS
<1>2. IsFiniteSet(p[1] - 1 .. p[1] + 1) /\ IsFiniteSet(p[2] - 1 .. p[2] + 1)
  BY <1>1, IntervalFinite
<1>3. IsFiniteSet(box)
  BY <1>2, FS_Product
<1>4. Uncovered(s, g, p) \subseteq box
  BY DEF Uncovered
<1> HIDE DEF box
<1> QED
  BY <1>3, <1>4, FS_Subset

\* What Mean is made of.
LEMMA SameMean ==
    ASSUME NEW before, NEW after, NEW S, IsFiniteSet(S), \A q \in S : At(after, q) = At(before, q)
    PROVE  Mean(after, S) = Mean(before, S)
<1> DEFINE v == [q \in S |-> At(before, q)]
           w == [q \in S |-> At(after, q)]
<1>1. MapThenSumSet(LAMBDA q : At(before, q), S) = Total(v, S)
  BY MeanSum
<1>2. MapThenSumSet(LAMBDA q : At(after, q), S) = Total(w, S)
  BY MeanSum
<1>3. v = w
  OBVIOUS
<1>4. MapThenSumSet(LAMBDA q : At(after, q), S) = MapThenSumSet(LAMBDA q : At(before, q), S)
  BY <1>1, <1>2, <1>3
<1> QED
  BY <1>4 DEF Mean

\* Images of one size at one place.
SameSize(one, other) ==
    one.width = other.width /\ one.height = other.height /\ one.x = other.x /\ one.y = other.y

\* A pixel stays blended.  s and g are the shadow and the graphic before a step, t and h after it.
LEMMA StaysBlended ==
    ASSUME NEW s, NEW g, NEW t, NEW h, SameSize(t, s), SameSize(h, g),
           s.x \in Int, s.y \in Int, g.x \in Int, g.y \in Int,
           \A q \in Int \X Int : Inside(g, q) => (Opaque(h, q) <=> Opaque(g, q)),
           NEW p \in Int \X Int, Blended(s, g, p),
           \A q \in Uncovered(s, g, p) \cup {p} : At(t, q) = At(s, q)
    PROVE  Blended(t, h, p)
<1>1. \A q : Inside(t, q) = Inside(s, q) /\ Inside(h, q) = Inside(g, q)
  BY DEF Inside, SameSize
<1>2. \A q : Across(t, h, q) = Across(s, g, q)
  BY DEF Across, SameSize
<1>3. \A q \in Int \X Int : Across(s, g, q) \in Int \X Int
  BY DEF Across
<1> DEFINE box == (p[1] - 1 .. p[1] + 1) \X (p[2] - 1 .. p[2] + 1)
<1>4. box \subseteq Int \X Int
  OBVIOUS
<1>5. /\ Uncovered(s, g, p) = {q \in box : Inside(s, q) /\ Inside(g, Across(s, g, q)) /\ ~Opaque(g, Across(s, g, q))}
      /\ Uncovered(t, h, p) = {q \in box : Inside(t, q) /\ Inside(h, Across(t, h, q)) /\ ~Opaque(h, Across(t, h, q))}
  BY DEF Uncovered
<1> HIDE DEF box
<1>6. Uncovered(t, h, p) = Uncovered(s, g, p)
  BY <1>1, <1>2, <1>3, <1>4, <1>5
<1>7. Mean(t, Uncovered(s, g, p)) = Mean(s, Uncovered(s, g, p))
  BY UncoveredFinite, SameMean
<1>8. Inside(g, Across(s, g, p)) => (Opaque(h, Across(s, g, p)) <=> Opaque(g, Across(s, g, p)))
  BY <1>3
<1> QED
  BY <1>1, <1>2, <1>6, <1>7, <1>8 DEF Blended

\* Nothing about the graphic and the shadow changes.
LEMMA ShadowStays ==
    ASSUME images'.shadow = images.shadow, images'.graphic = images.graphic, ShadowWhole
    PROVE  ShadowWhole'
  BY DEF ShadowWhole, Rectangular, PixelsOf

(***************************************************************************)
(* The steps.  While rows of a layer are read, nothing is done to the      *)
(* other images.                                                           *)
(***************************************************************************)
LEMMA OthersStay ==
    ASSUME LayersInv, ReadingRows, ReadingRows', layer' = layer, frame' = frame,
           \A t \in LayerTypes \ {L.type} : images'[t] = images[t]
    PROVE  GraphicWhole' /\ ShadowRight' /\ LayerControl'
<1> USE DEF LayersInv
<1>1. reading \in {"row", "command", "pixels"} /\ reading' \in {"row", "command", "pixels"}
  BY DEF ReadingRows
<1>2. L' = L
  BY DEF L
<1>3. L.type \in LayerTypes /\ (layer = 1 <=> L.type = "graphic")
  BY <1>1, LayerFacts
<1>4. LayerControl'
  BY <1>1 DEF LayerControl
<1>5. layer # 1 => images'.graphic = images.graphic
  BY <1>3 DEF LayerTypes
<1>6. L.type # "shadow" => images'.shadow = images.shadow
  BY <1>3 DEF LayerTypes
<1>7. GraphicWhole'
  <2>1. CASE layer > 1
    <3>1. OutlineFollows' = OutlineFollows
      BY DEF OutlineFollows
    <3>2. Shown(images.graphic.rows)' = Shown(images.graphic.rows)
      BY <1>5, <2>1
    <3>3. Rectangular(images.graphic)' = Rectangular(images.graphic)
      BY <1>5, <2>1
    <3> QED
      BY <1>1, <1>5, <2>1, <3>1, <3>2, <3>3 DEF GraphicWhole
  <2> QED
    BY <2>1 DEF GraphicWhole
<1>8. ShadowRight'
  <2>1. layer = 1 => images'.shadow = images.shadow /\ images.shadow = noImage
    BY <1>1, <1>3, <1>6 DEF ShadowRight
  <2>2. ASSUME L.type # "shadow" PROVE images'.shadow = noImage \/ ShadowWhole'
    <3>1. images.shadow = noImage \/ ShadowWhole
      BY <1>1, <2>2 DEF ShadowRight, ReadingRows
    <3>2. CASE layer = 1
      BY <2>1, <3>2
    <3>3. CASE layer # 1
      BY <1>5, <1>6, <2>2, <3>1, <3>3, ShadowStays
    <3> QED
      BY <3>2, <3>3
  <2> QED
    BY <1>1, <1>2, <2>1, <2>2 DEF ShadowRight, ReadingRows
<1> QED
  BY <1>4, <1>7, <1>8

\* A row is added to the image that is read.
LEMMA RowAdded ==
    ASSUME ImagesTyped, L.type \in LayerTypes, NEW pixels \in Seq(DrawnPixels(L.type)),
           images' = [images EXCEPT ![L.type].rows = Append(@, pixels)]
    PROVE  /\ ImagesTyped'
           /\ Image.rows \in Seq(Seq(LaterPixels(L.type))) /\ pixels \in Seq(LaterPixels(L.type))
           /\ images'[L.type] = [Image EXCEPT !.rows = Append(Image.rows, pixels)]
           /\ \A t \in LayerTypes \ {L.type} : images'[t] = images[t]
<1> DEFINE k == L.type
<1>1. images = [t \in LayerTypes |-> images[t]] /\ k \in LayerTypes
      /\ \A t \in LayerTypes : images[t] \in LayerImages(t)
  BY DEF ImagesTyped
<1>2. DrawnPixels(k) \subseteq LaterPixels(k)
  BY DEF DrawnPixels, LaterPixels
<1>3. pixels \in Seq(LaterPixels(k))
  BY <1>2
<1> DEFINE new == [images[k] EXCEPT !.rows = Append(images[k].rows, pixels)]
<1>4. images' = [images EXCEPT ![k] = new]
  OBVIOUS
<1>5. images[k].rows \in Seq(Seq(LaterPixels(k)))
  BY <1>1 DEF LayerImages
<1>6. Append(images[k].rows, pixels) \in Seq(Seq(LaterPixels(k)))
  BY <1>3, <1>5
<1>7. new \in LayerImages(k)
  BY <1>1, <1>6 DEF LayerImages
<1> HIDE DEF new, k
<1>8. images'[k] = new /\ \A t \in LayerTypes \ {k} : images'[t] = images[t]
  BY <1>1, <1>4
<1>9. images' = [t \in LayerTypes |-> images'[t]]
  BY <1>1, <1>4
<1>10. \A t \in LayerTypes : images'[t] \in LayerImages(t)
  BY <1>1, <1>7, <1>8
<1>11. ImagesTyped'
  BY <1>9, <1>10 DEF ImagesTyped
<1> QED
  BY <1>3, <1>5, <1>8, <1>11 DEF Image, new, k

\* A row is finished: it shows what was drawn, and nothing in the border.
LEMMA FinishKeeps ==
    ASSUME LayersInv, reading \in {"row", "command"}, row < Image.height,
           NEW pixels \in Seq(DrawnPixels(L.type)), Len(pixels) = Image.width, FinishRow(pixels),
           layer = 1 => VisibleIn(row + 1, pixels) = VisibleIn(row + 1, out),
           layer = 1 /\ frame.format = "SMX" =>
             \A x \in 1 .. Image.width :
                x \in {1, Image.width} \/ row + 1 \in {1, Image.height} => pixels[x][1] \in 0 .. 1,
           frame' = frame, layer' = layer, ptr' = ptr, decompressionState' = decompressionState,
           next' \in Nat \ {0}
    PROVE  LayersInv'
<1> USE DEF LayersInv
<1>1. ReadingRows /\ ReadingRows' /\ reading' = "row" /\ row' = row + 1 /\ out' = <<>>
  BY DEF ReadingRows, FinishRow
<1>2. L' = L /\ BorderOf(L)' = BorderOf(L) /\ RowEdges(L)' = RowEdges(L)
  BY DEF L, BorderOf, RowEdges
<1>3. /\ layer \in 1 .. Len(frame.layers) /\ L.type \in LayerTypes /\ (layer = 1 <=> L.type = "graphic")
      /\ L.width \in Nat /\ L.height \in Nat /\ BorderOf(L) \in {0, 1}
  BY <1>1, LayerFacts DEF ReadingRows
<1>4. /\ ImagesTyped'
      /\ Image.rows \in Seq(Seq(LaterPixels(L.type))) /\ pixels \in Seq(LaterPixels(L.type))
      /\ images'[L.type] = [Image EXCEPT !.rows = Append(Image.rows, pixels)]
      /\ \A t \in LayerTypes \ {L.type} : images'[t] = images[t]
  BY <1>3, RowAdded DEF FinishRow
<1>5. Image \in LayerImages(L.type)
  BY <1>3 DEF ImagesTyped, Image
<1> DEFINE R == Image.rows
           more == Append(R, pixels)
<1>6. /\ Image' = images'[L.type] /\ Image'.rows = more
      /\ Image'.width = Image.width /\ Image'.height = Image.height /\ Image'.edges = Image.edges
  BY <1>2, <1>4, <1>5 DEF Image, LayerImages
<1>7. GraphicWhole' /\ ShadowRight' /\ LayerControl'
  BY <1>1, <1>4, OthersStay
<1>8. /\ Image.width = L.width + 2 * BorderOf(L) /\ Image.height = L.height + 2 * BorderOf(L)
      /\ Image.edges = RowEdges(L) /\ row \in 0 .. Image.height /\ Len(R) = row
      /\ \A y \in 1 .. row : Len(R[y]) = Image.width
      /\ ptr \in Nat
  BY <1>1 DEF RowsRead
<1> DEFINE P == LaterPixels(L.type)
<1>9. /\ Len(more) = row + 1 /\ more[row + 1] = pixels /\ \A y \in 1 .. row : more[y] = R[y]
      /\ more \in Seq(Seq(P))
  <2> HIDE DEF P
  <2>1. R \in Seq(Seq(P)) /\ pixels \in Seq(P) /\ Len(R) = row
    BY <1>4, <1>8 DEF P
  <2> HIDE DEF R
  <2> QED
    BY <2>1
<1>10. RowsRead'
  <2>1. row + 1 \in 0 .. Image.height
    BY <1>3, <1>8
  <2>2. \A y \in 1 .. row + 1 : Len(more[y]) = Image.width
    BY <1>8, <1>9
  <2>3. out' \in Seq(DrawnPixels(L.type))
    BY <1>1
  <2> HIDE DEF more
  <2> QED
    BY <1>1, <1>2, <1>6, <1>8, <1>9, <2>1, <2>2, <2>3 DEF RowsRead
<1>11. GraphicRead'
  <2>1. SUFFICES ASSUME layer = 1 PROVE GraphicRead'
    BY DEF GraphicRead
  <2>2. L.type = "graphic" /\ Image = images.graphic /\ images'.graphic.rows = more
    BY <1>3, <1>4, <1>5, <2>1 DEF Image, LayerImages
  <2> DEFINE Q == LaterPixels("graphic")
             late == Append(more, <<>>)
  <2>3. RowsSoFar = Append(R, out) /\ RowsSoFar' = late
    BY <1>1, <2>2 DEF RowsSoFar
  <2>4. R \in Seq(Seq(Q)) /\ more \in Seq(Seq(Q)) /\ pixels \in Seq(Q) /\ pixels \in Seq(DrawnPixels("graphic"))
    BY <1>4, <1>9, <2>2
  <2>5. out \in Seq(DrawnPixels("graphic")) /\ out \in Seq(Q)
    <3>1. out \in Seq(DrawnPixels("graphic"))
      BY <1>1, <2>2 DEF RowsRead
    <3>2. DrawnPixels("graphic") \subseteq Q
      BY DEF DrawnPixels, LaterPixels
    <3> QED
      BY <3>1, <3>2
  <2>6. /\ \A y \in 1 .. row + 1 : RowsSoFar[y] \in Seq(DrawnPixels("graphic"))
        /\ frame.format = "SMX" => EmptyBorder(RowsSoFar, Image.width, Image.height)
        /\ IsFiniteSet(Shown(RowsSoFar))
        /\ ShownInOrder(Shown(RowsSoFar), L.colors)
        /\ Cardinality(Shown(RowsSoFar)) <= Len(L.colors)
        /\ Position(Cardinality(Shown(RowsSoFar)))
    BY <1>1, <2>1 DEF GraphicRead
  <2> HIDE DEF Q
  <2>7. /\ Len(late) = row + 2 /\ late[row + 2] = <<>> /\ late[row + 1] = pixels
        /\ DOMAIN late = 1 .. row + 2
        /\ \A y \in 1 .. row : late[y] = R[y] /\ RowsSoFar[y] = R[y]
        /\ DOMAIN RowsSoFar = 1 .. row + 1
    <3>1. <<>> \in Seq(Q) /\ row \in Nat /\ Len(R) = row
      BY <1>8
    <3> HIDE DEF R, more
    <3>2. /\ Len(late) = row + 2 /\ late[row + 2] = <<>> /\ DOMAIN late = 1 .. row + 2
          /\ \A y \in 1 .. row + 1 : late[y] = more[y]
      BY <1>9, <2>4, <3>1
    <3>3. DOMAIN RowsSoFar = 1 .. row + 1 /\ \A y \in 1 .. row : RowsSoFar[y] = R[y]
      BY <2>3, <2>4, <2>5, <3>1
    <3>4. row + 1 \in 1 .. row + 1 /\ \A y \in 1 .. row : y \in 1 .. row + 1
      BY <3>1
    <3> HIDE DEF late
    <3> QED
      BY <1>9, <3>2, <3>3, <3>4
  <2>8. \A y \in 1 .. row + 2 : late[y] \in Seq(DrawnPixels("graphic"))
    <3> TAKE y \in 1 .. row + 2
    <3>1. row \in Nat
      BY <1>8
    <3>2. y \in 1 .. row \/ y = row + 1 \/ y = row + 2
      BY <3>1
    <3>3. y \in 1 .. row => y \in 1 .. row + 1
      BY <3>1
    <3>4. <<>> \in Seq(DrawnPixels("graphic"))
      OBVIOUS
    <3> HIDE DEF late, R
    <3>5. CASE y \in 1 .. row
      BY <2>6, <2>7, <3>3, <3>5
    <3>6. CASE y = row + 1
      BY <2>4, <2>7, <3>6
    <3>7. CASE y = row + 2
      BY <2>7, <3>4, <3>7
    <3> QED
      BY <3>2, <3>5, <3>6, <3>7
  <2>9. frame.format = "SMX" => EmptyBorder(late, Image.width, Image.height)
    <3>1. SUFFICES ASSUME frame.format = "SMX", NEW y \in 1 .. row + 2, NEW x \in DOMAIN late[y],
                          x \in {1, Image.width} \/ y \in {1, Image.height}
                   PROVE  late[y][x][1] \in 0 .. 1
      <4> HIDE DEF late
      <4> QED
        BY <2>7 DEF EmptyBorder
    <3>2. row \in Nat
      BY <1>8
    <3>3. CASE y \in 1 .. row
      <4>1. late[y] = RowsSoFar[y] /\ y \in DOMAIN RowsSoFar
        BY <2>7, <3>2, <3>3
      <4> QED
        BY <2>6, <3>1, <4>1 DEF EmptyBorder
    <3>4. CASE y = row + 1
      <4>1. late[y] = pixels /\ DOMAIN pixels = 1 .. Image.width
        BY <2>4, <2>7, <3>4
      <4> QED
        BY <2>1, <3>1, <3>4, <4>1
    <3>5. CASE y = row + 2
      <4>1. DOMAIN late[y] = {}
        BY <2>7, <3>5
      <4> QED
        BY <3>1, <4>1
    <3> HIDE DEF late
    <3> QED
      BY <3>2, <3>3, <3>4, <3>5
  <2>10. Shown(late) = Shown(RowsSoFar)
    <3>1. Shown(late) = Shown(more) \cup VisibleIn(Len(more) + 1, <<>>)
      <4>1. <<>> \in Seq(Q)
        OBVIOUS
      <4> HIDE DEF more
      <4> DEFINE m == more
                 none == <<>>
      <4>2. m \in Seq(Seq(Q)) /\ none \in Seq(Q)
        BY <2>4, <4>1
      <4> HIDE DEF m, none
      <4>3. Shown(Append(m, none)) = Shown(m) \cup VisibleIn(Len(m) + 1, none)
        BY <4>2, ShownAppend
      <4> QED
        BY <4>3 DEF m, none
    <3>2. Shown(more) = Shown(R) \cup VisibleIn(Len(R) + 1, pixels)
      <4> HIDE DEF R
      <4> QED
        BY <2>4, ShownAppend
    <3>3. Shown(RowsSoFar) = Shown(R) \cup VisibleIn(Len(R) + 1, out)
      <4> HIDE DEF R
      <4> QED
        BY <2>3, <2>4, <2>5, ShownAppend
    <3>4. VisibleIn(Len(more) + 1, <<>>) = {}
      BY DEF VisibleIn
    <3>5. Len(R) = row
      BY <1>8
    <3> HIDE DEF R, more, late
    <3> QED
      BY <2>1, <3>1, <3>2, <3>3, <3>4, <3>5
  <2>11. Position(Cardinality(Shown(RowsSoFar)))' <=> Position(Cardinality(Shown(RowsSoFar)))
    BY <2>3, <2>10 DEF Position
  <2>12. frame.format' = "SMX" => EmptyBorder(RowsSoFar', Image'.width, Image'.height)
    BY <1>6, <2>3, <2>9
  <2> HIDE DEF late
  <2>13. \A y \in 1 .. row' + 1 : RowsSoFar'[y] \in Seq(DrawnPixels("graphic"))
    <3>1. row' + 1 = row + 2
      BY <1>1, <1>8
    <3> QED
      BY <2>3, <2>8, <3>1
  <2> QED
    BY <1>2, <2>3, <2>6, <2>10, <2>11, <2>12, <2>13 DEF GraphicRead
<1> QED
  BY <1>4, <1>7, <1>10, <1>11

\* Transparent pixels cannot be seen.
LEMMA BlankFacts ==
    ASSUME L.type \in LayerTypes, NEW n \in Nat
    PROVE  /\ Blank(n) \in Seq(DrawnPixels(L.type)) /\ Len(Blank(n)) = n
           /\ L.type = "graphic" => \A i \in 1 .. n : Blank(n)[i][1] = 0
<1>1. Transparent \in DrawnPixels(L.type) /\ (L.type = "graphic" => Transparent[1] = 0)
  BY DEF Transparent, DrawnPixels
<1>2. Blank(n) = [i \in 1 .. n |-> Transparent]
  BY DEF Blank
<1> QED
  BY <1>1, <1>2

\* The elements of a sequence.
LEMMA Elements ==
    ASSUME NEW S, NEW list \in Seq(S)
    PROVE  /\ Len(list) \in Nat /\ DOMAIN list = 1 .. Len(list)
           /\ \A i \in 1 .. Len(list) : list[i] \in S
  OBVIOUS

\* The elements of two sequences together.
LEMMA ConcatFacts ==
    ASSUME NEW P, NEW one \in Seq(P), NEW other \in Seq(P)
    PROVE  /\ one \o other \in Seq(P) /\ Len(one) \in Nat
           /\ Len(one \o other) = Len(one) + Len(other)
           /\ \A x \in 1 .. Len(one) + Len(other) :
                (one \o other)[x] = IF x <= Len(one) THEN one[x] ELSE other[x - Len(one)]
  OBVIOUS

\* The row that is read gets transparent pixels, maybe none.
LEMMA BlanksKeep ==
    ASSUME LayersInv, reading \in {"row", "command"}, row < Image.height,
           NEW n \in Nat, out' = out \o Blank(n),
           frame' = frame, layer' = layer, images' = images, row' = row, ptr' = ptr,
           decompressionState' = decompressionState,
           reading' \in {"command", "pixels"}, next' \in Nat \ {0},
           BorderOf(L) <= Len(out) + n, Len(out) + n <= L.width + BorderOf(L),
           BorderOf(L) = 1 => row # 0 /\ row + 1 # Image.height,
           reading' = "pixels" =>
             /\ run'.count \in Nat \ {0} /\ run'.code \in {1, 2}
             /\ Len(out) + n + run'.count <= L.width + BorderOf(L)
    PROVE  LayersInv'
<1> USE DEF LayersInv
<1>1. ReadingRows /\ ReadingRows'
  BY DEF ReadingRows
<1>2. L' = L /\ BorderOf(L)' = BorderOf(L) /\ RowEdges(L)' = RowEdges(L) /\ Image' = Image
  BY DEF L, BorderOf, RowEdges, Image
<1>3. /\ layer \in 1 .. Len(frame.layers) /\ L.type \in LayerTypes /\ (layer = 1 <=> L.type = "graphic")
      /\ L.width \in Nat /\ L.height \in Nat /\ BorderOf(L) \in {0, 1}
  BY <1>1, LayerFacts DEF ReadingRows
<1>4. ImagesTyped'
  BY DEF ImagesTyped
<1>5. GraphicWhole' /\ ShadowRight' /\ LayerControl'
  BY <1>1, OthersStay
<1>6. /\ Image.width = L.width + 2 * BorderOf(L) /\ Image.height = L.height + 2 * BorderOf(L)
      /\ Image.edges = RowEdges(L) /\ row \in 0 .. Image.height /\ Len(Image.rows) = row
      /\ \A y \in 1 .. row : Len(Image.rows[y]) = Image.width
      /\ ptr \in Nat /\ out \in Seq(DrawnPixels(L.type))
  BY <1>1 DEF RowsRead
<1>7. /\ Blank(n) \in Seq(DrawnPixels(L.type)) /\ Len(Blank(n)) = n
      /\ L.type = "graphic" => \A i \in 1 .. n : Blank(n)[i][1] = 0
  BY <1>3, BlankFacts
<1>8. /\ out' \in Seq(DrawnPixels(L.type)) /\ Len(out') = Len(out) + n /\ Len(out) \in Nat
      /\ \A x \in 1 .. Len(out) + n :
           out'[x] = IF x <= Len(out) THEN out[x] ELSE Blank(n)[x - Len(out)]
  <2> DEFINE b == Blank(n)
             P == DrawnPixels(L.type)
  <2>1. b \in Seq(P) /\ Len(b) = n /\ out \in Seq(P) /\ out' = out \o b
    BY <1>6, <1>7
  <2> HIDE DEF b, P
  <2>2. /\ out' \in Seq(P) /\ Len(out') = Len(out) + n /\ Len(out) \in Nat
        /\ \A x \in 1 .. Len(out) + n : out'[x] = IF x <= Len(out) THEN out[x] ELSE b[x - Len(out)]
    <3>1. /\ out \o b \in Seq(P) /\ Len(out) \in Nat /\ Len(out \o b) = Len(out) + Len(b)
          /\ \A x \in 1 .. Len(out) + Len(b) :
               (out \o b)[x] = IF x <= Len(out) THEN out[x] ELSE b[x - Len(out)]
      BY <2>1, ConcatFacts
    <3> QED
      BY <2>1, <3>1
  <2> QED
    BY <2>2 DEF b, P
<1>9. RowsRead'
  BY <1>2, <1>6, <1>8 DEF RowsRead
<1>10. GraphicRead'
  <2>1. SUFFICES ASSUME layer = 1 PROVE GraphicRead'
    BY DEF GraphicRead
  <2>2. L.type = "graphic" /\ Image = images.graphic
    BY <1>3, <2>1 DEF Image
  <2> DEFINE Q == LaterPixels("graphic")
             R == images.graphic.rows
  <2>3. DrawnPixels("graphic") \subseteq Q
    BY DEF DrawnPixels, LaterPixels
  <2>4. /\ R \in Seq(Seq(Q)) /\ Len(R) = row /\ row \in Nat
        /\ out \in Seq(Q) /\ out' \in Seq(Q) /\ Blank(n) \in Seq(Q)
        /\ out' \in Seq(DrawnPixels("graphic"))
    <3>1. R \in Seq(Seq(Q))
      BY DEF ImagesTyped, LayerImages, LayerTypes
    <3>2. out \in Seq(DrawnPixels("graphic")) /\ out' \in Seq(DrawnPixels("graphic"))
          /\ Blank(n) \in Seq(DrawnPixels("graphic"))
      BY <1>6, <1>7, <1>8, <2>2
    <3> QED
      BY <1>6, <2>2, <2>3, <3>1, <3>2
  <2>5. /\ \A y \in 1 .. row + 1 : RowsSoFar[y] \in Seq(DrawnPixels("graphic"))
        /\ frame.format = "SMX" => EmptyBorder(RowsSoFar, Image.width, Image.height)
        /\ IsFiniteSet(Shown(RowsSoFar))
        /\ ShownInOrder(Shown(RowsSoFar), L.colors)
        /\ Cardinality(Shown(RowsSoFar)) <= Len(L.colors)
        /\ Position(Cardinality(Shown(RowsSoFar)))
    BY <1>1, <2>1 DEF GraphicRead
  <2>6. RowsSoFar = Append(R, out) /\ RowsSoFar' = Append(R, out')
    BY DEF RowsSoFar
  <2> HIDE DEF Q, R
  <2>7. /\ DOMAIN RowsSoFar = 1 .. row + 1 /\ DOMAIN RowsSoFar' = 1 .. row + 1
        /\ \A y \in 1 .. row : RowsSoFar'[y] = RowsSoFar[y]
        /\ RowsSoFar[row + 1] = out /\ RowsSoFar'[row + 1] = out'
    BY <2>4, <2>6
  <2>8. \A y \in 1 .. row + 1 : RowsSoFar'[y] \in Seq(DrawnPixels("graphic"))
    <3>1. \A y \in 1 .. row + 1 : y \in 1 .. row \/ y = row + 1
      BY <2>4
    <3> QED
      BY <2>4, <2>5, <2>7, <3>1
  <2>9. frame.format = "SMX" => EmptyBorder(RowsSoFar', Image.width, Image.height)
    <3>1. SUFFICES ASSUME frame.format = "SMX", NEW y \in 1 .. row + 1, NEW x \in DOMAIN RowsSoFar'[y],
                          x \in {1, Image.width} \/ y \in {1, Image.height}
                   PROVE  RowsSoFar'[y][x][1] \in 0 .. 1
      BY <2>7 DEF EmptyBorder
    <3>2. CASE y \in 1 .. row
      <4>1. RowsSoFar'[y] = RowsSoFar[y] /\ y \in DOMAIN RowsSoFar
        BY <2>4, <2>7, <3>2
      <4> QED
        BY <2>5, <3>1, <4>1 DEF EmptyBorder
    <3>3. CASE y = row + 1
      <4>1. RowsSoFar'[y] = out' /\ RowsSoFar[y] = out /\ y \in DOMAIN RowsSoFar
        BY <2>4, <2>7, <3>3
      <4>2. x \in 1 .. Len(out) + n
        BY <1>8, <3>1, <4>1
      <4>3. CASE x <= Len(out)
        <5>1. out'[x] = out[x] /\ x \in DOMAIN out
          BY <1>8, <2>4, <4>2, <4>3
        <5> QED
          BY <2>5, <3>1, <4>1, <5>1 DEF EmptyBorder
      <4>4. CASE ~ (x <= Len(out))
        <5>1. x - Len(out) \in 1 .. n
          BY <1>8, <4>2, <4>4
        <5>2. out'[x][1] = 0
          BY <1>7, <1>8, <2>2, <4>2, <4>4, <5>1
        <5> QED
          BY <4>1, <5>2
      <4> QED
        BY <4>3, <4>4
    <3> QED
      BY <2>4, <3>2, <3>3
  <2>10. Shown(RowsSoFar') = Shown(RowsSoFar)
    <3>1. Shown(RowsSoFar') = Shown(R) \cup VisibleIn(Len(R) + 1, out')
      BY <2>4, <2>6, ShownAppend
    <3>2. Shown(RowsSoFar) = Shown(R) \cup VisibleIn(Len(R) + 1, out)
      BY <2>4, <2>6, ShownAppend
    <3>3. \A i \in 1 .. Len(Blank(n)) : ~ (Blank(n)[i][1] >= 252)
      BY <1>7, <2>2
    <3>4. VisibleIn(Len(R) + 1, out \o Blank(n)) = VisibleIn(Len(R) + 1, out)
      BY <2>4, <3>3, VisibleWithBlanks
    <3> QED
      BY <3>1, <3>2, <3>4
  <2>11. Position(Cardinality(Shown(RowsSoFar)))' <=> Position(Cardinality(Shown(RowsSoFar)))
    BY <2>10 DEF Position
  <2> QED
    BY <1>2, <2>5, <2>8, <2>9, <2>10, <2>11 DEF GraphicRead
<1> QED
  BY <1>4, <1>5, <1>9, <1>10

\* After an error nothing is promised.
LEMMA FailedKeeps ==
    ASSUME LayersInv, reading' = "failed", images' = images, frame' = frame
    PROVE  LayersInv'
  BY DEF LayersInv, ImagesTyped, LayerControl, RowsRead, GraphicRead, GraphicWhole, ShadowRight, ReadingRows

\* A row begins empty, or with the transparent pixels at its left, or is empty as a whole.
LEMMA BeginRowKeeps ==
    ASSUME LayersInv, BeginRow
    PROVE  LayersInv'
<1>1. ImagesTyped /\ LayerControl /\ RowsRead /\ ReadingRows /\ reading = "row"
  BY DEF LayersInv, BeginRow, ReadingRows
<1>2. /\ layer \in 1 .. Len(frame.layers) /\ L.type \in LayerTypes /\ (layer = 1 <=> L.type = "graphic")
      /\ L.width \in Nat /\ L.height \in Nat /\ BorderOf(L) \in {0, 1}
      /\ BorderOf(L) = 1 <=> frame.format = "SMX" /\ layer = 1
  BY <1>1, LayerFacts
<1>3. /\ Image.width = L.width + 2 * BorderOf(L) /\ Image.height = L.height + 2 * BorderOf(L)
      /\ Image.edges = RowEdges(L) /\ row \in 0 .. Image.height
      /\ out = <<>> /\ next \in Nat \ {0} /\ row < Image.height
  BY <1>1 DEF RowsRead, BeginRow
<1> DEFINE edge == Image.edges[row + 1]
<1>4. \/ edge[1] = Skipped \/ edge[2] = Skipped
      \/ /\ edge[1] \in Nat /\ edge[1] <= L.width
         /\ BorderOf(L) = 1 => row + 1 # 1 /\ row + 1 # L.height + 2
  BY <1>1, <1>2, <1>3, EdgeFacts
<1>5. CASE edge[1] = Skipped \/ edge[2] = Skipped
  <2> DEFINE blank == Blank(Image.width)
  <2>1. Image.width \in Nat
    BY <1>2, <1>3
  <2>2. /\ blank \in Seq(DrawnPixels(L.type)) /\ Len(blank) = Image.width
        /\ L.type = "graphic" => \A i \in 1 .. Image.width : blank[i][1] = 0
    BY <1>2, <2>1, BlankFacts
  <2>3. FinishRow(blank) /\ UNCHANGED <<frame, layer, next, run, ptr, decompressionState, cursor>>
    BY <1>5 DEF BeginRow
  <2> HIDE DEF blank
  <2>4. layer = 1 => VisibleIn(row + 1, blank) = VisibleIn(row + 1, out)
    <3>1. layer = 1 => \A i \in DOMAIN blank : ~ (blank[i][1] >= 252)
      BY <1>2, <2>2
    <3>2. DOMAIN out = {}
      BY <1>3
    <3> QED
      BY <3>1, <3>2 DEF VisibleIn
  <2>5. layer = 1 => \A x \in 1 .. Image.width : blank[x][1] \in 0 .. 1
    BY <1>2, <2>2
  <2> QED
    BY <1>1, <1>3, <2>2, <2>3, <2>4, <2>5, FinishKeeps
<1>6. CASE ~ (edge[1] = Skipped \/ edge[2] = Skipped)
  <2> DEFINE n == edge[1] + BorderOf(L)
  <2>1. n \in Nat /\ n <= L.width + BorderOf(L) /\ BorderOf(L) <= n
    BY <1>2, <1>4, <1>6
  <2>2. /\ out' = Blank(n) /\ reading' = "command" /\ images' = images /\ row' = row
        /\ UNCHANGED <<frame, layer, next, run, ptr, decompressionState, cursor>>
    BY <1>6 DEF BeginRow
  <2>3. BorderOf(L) = 1 => row # 0 /\ row + 1 # Image.height
    BY <1>2, <1>3, <1>4, <1>6
  <2> HIDE DEF n
  <2>4. Blank(n) \in Seq(DrawnPixels(L.type))
    BY <1>2, <2>1, BlankFacts
  <2>5. out \o Blank(n) = Blank(n) /\ Len(out) = 0
    <3> DEFINE b == Blank(n)
    <3>1. b \in Seq(DrawnPixels(L.type))
      BY <2>4
    <3> HIDE DEF b
    <3>2. <<>> \o b = b
      BY <3>1
    <3> QED
      BY <1>3, <3>2 DEF b
  <2>6. /\ BorderOf(L) <= Len(out) + n /\ Len(out) + n <= L.width + BorderOf(L)
    BY <2>1, <2>5
  <2> QED
    BY <1>1, <1>3, <2>1, <2>2, <2>3, <2>5, <2>6, BlanksKeep
<1> QED
  BY <1>5, <1>6

\* A command draws nothing itself, skips transparent pixels, or ends the row.
LEMMA CommandKeeps ==
    ASSUME LayersInv, Command
    PROVE  LayersInv'
<1>1. ImagesTyped /\ LayerControl /\ RowsRead /\ ReadingRows /\ reading = "command"
  BY DEF LayersInv, Command, ReadingRows
<1>2. /\ layer \in 1 .. Len(frame.layers) /\ L.type \in LayerTypes /\ (layer = 1 <=> L.type = "graphic")
      /\ L.width \in Nat /\ L.height \in Nat /\ BorderOf(L) \in {0, 1}
      /\ BorderOf(L) = 1 <=> frame.format = "SMX" /\ layer = 1
      /\ L.commands \in Seq([code : 0 .. 3, count : Nat \ {0}])
  BY <1>1, LayerFacts DEF LayerOK
<1>3. /\ Image.width = L.width + 2 * BorderOf(L) /\ Image.height = L.height + 2 * BorderOf(L)
      /\ row \in 0 .. Image.height /\ next \in Nat \ {0} /\ row < Image.height
      /\ out \in Seq(DrawnPixels(L.type)) /\ Len(out) \in Nat
      /\ BorderOf(L) <= Len(out) /\ Len(out) <= L.width + BorderOf(L)
      /\ BorderOf(L) = 1 => row # 0 /\ row + 1 # Image.height
  BY <1>1 DEF RowsRead
<1> DEFINE c == L.commands[next]
<1>4. /\ c \in [code : 0 .. 3, count : Nat \ {0}]
      /\ c.code # 3 => Len(out) + c.count <= L.width + BorderOf(L)
      /\ next' = next + 1 /\ UNCHANGED <<frame, layer, ptr, decompressionState, cursor>>
  <2>1. /\ next <= Len(L.commands)
        /\ c.code # 3 => Len(out) + c.count <= L.width + BorderOf(L)
        /\ next' = next + 1 /\ UNCHANGED <<frame, layer, ptr, decompressionState, cursor>>
    BY DEF Command
  <2>2. next \in 1 .. Len(L.commands)
    BY <1>2, <1>3, <2>1
  <2>3. c \in [code : 0 .. 3, count : Nat \ {0}]
    <3> DEFINE C == [code : 0 .. 3, count : Nat \ {0}]
    <3>1. L.commands \in Seq(C)
      BY <1>2
    <3> HIDE DEF C
    <3>2. L.commands[next] \in C
      BY <2>2, <3>1
    <3> QED
      BY <3>2 DEF C
  <2> QED
    BY <2>1, <2>3
<1>5. /\ c.code = 0 => out' = out \o Blank(c.count) /\ UNCHANGED <<reading, run, images, row>>
      /\ c.code = 1 \/ (c.code = 2 /\ L.type = "graphic") =>
           run' = c /\ reading' = "pixels" /\ UNCHANGED <<out, images, row>>
      /\ c.code = 3 => FinishRow(out \o Blank(Image.width - Len(out))) /\ UNCHANGED run
      /\ c.code \notin {0, 1, 3} /\ ~ (c.code = 2 /\ L.type = "graphic") =>
           reading' = "failed" /\ UNCHANGED <<run, out, images, row>>
  BY DEF Command
<1> HIDE DEF c
<1>6. CASE c.code = 0
  <2>1. c.count \in Nat /\ Len(out) + c.count <= L.width + BorderOf(L) /\ BorderOf(L) <= Len(out) + c.count
    BY <1>2, <1>3, <1>4, <1>6
  <2>2. next' \in Nat \ {0}
    BY <1>3, <1>4
  <2> QED
    BY <1>1, <1>3, <1>4, <1>5, <1>6, <2>1, <2>2, BlanksKeep
<1>7. CASE c.code = 1 \/ (c.code = 2 /\ L.type = "graphic")
  <2>1. /\ run'.count \in Nat \ {0} /\ run'.code \in {1, 2}
        /\ Len(out) + 0 + run'.count <= L.width + BorderOf(L)
        /\ BorderOf(L) <= Len(out) + 0 /\ Len(out) + 0 <= L.width + BorderOf(L)
    BY <1>2, <1>3, <1>4, <1>5, <1>7
  <2>2. out' = out \o Blank(0)
    <3> DEFINE b == Blank(0)
               P == DrawnPixels(L.type)
    <3>1. b \in Seq(P) /\ Len(b) = 0
      BY <1>2, BlankFacts
    <3> HIDE DEF b
    <3>2. b = <<>>
      BY <3>1
    <3>3. out \in Seq(P)
      BY <1>3
    <3> HIDE DEF P
    <3>4. out \o <<>> = out
      BY <3>3
    <3> QED
      BY <1>5, <1>7, <3>2, <3>4 DEF b
  <2>3. next' \in Nat \ {0}
    BY <1>3, <1>4
  <2> QED
    BY <1>1, <1>3, <1>4, <1>5, <1>7, <2>1, <2>2, <2>3, BlanksKeep
<1>8. CASE c.code = 3
  <2> DEFINE n == Image.width - Len(out)
             pixels == out \o Blank(n)
             P == DrawnPixels(L.type)
  <2>1. n \in Nat /\ Len(out) + n = Image.width
    BY <1>2, <1>3
  <2> HIDE DEF n
  <2>2. /\ Blank(n) \in Seq(P) /\ Len(Blank(n)) = n
        /\ L.type = "graphic" => \A i \in 1 .. n : Blank(n)[i][1] = 0
    BY <1>2, <2>1, BlankFacts
  <2>3. out \in Seq(P)
    BY <1>3
  <2> HIDE DEF P
  <2>4. /\ pixels \in Seq(P) /\ Len(pixels) = Image.width
        /\ \A x \in 1 .. Image.width :
             pixels[x] = IF x <= Len(out) THEN out[x] ELSE Blank(n)[x - Len(out)]
    <3> DEFINE b == Blank(n)
    <3>1. b \in Seq(P) /\ Len(b) = n
      BY <2>2
    <3> HIDE DEF b
    <3>2. /\ out \o b \in Seq(P) /\ Len(out \o b) = Len(out) + Len(b)
          /\ \A x \in 1 .. Len(out) + Len(b) :
               (out \o b)[x] = IF x <= Len(out) THEN out[x] ELSE b[x - Len(out)]
      BY <2>3, <3>1, ConcatFacts
    <3>3. Len(out) + Len(b) = Image.width
      BY <2>1, <3>1
    <3> QED
      BY <3>2, <3>3 DEF b
  <2>5. layer = 1 => VisibleIn(row + 1, pixels) = VisibleIn(row + 1, out)
    <3>1. layer = 1 => \A i \in 1 .. Len(Blank(n)) : ~ (Blank(n)[i][1] >= 252)
      BY <1>2, <2>2
    <3> QED
      BY <2>2, <2>3, <3>1, VisibleWithBlanks
  <2>6. ASSUME layer = 1, frame.format = "SMX", NEW x \in 1 .. Image.width,
               x \in {1, Image.width} \/ row + 1 \in {1, Image.height}
        PROVE  pixels[x][1] \in 0 .. 1
    <3>1. BorderOf(L) = 1 /\ L.type = "graphic"
      BY <1>2, <2>6
    <3>2. x \in {1, Image.width}
      BY <1>3, <2>6, <3>1
    <3>3. CASE x <= Len(out)
      <4>1. x = 1
        BY <1>2, <1>3, <3>1, <3>2, <3>3
      <4>2. EmptyBorder(RowsSoFar, Image.width, Image.height) /\ Image = images.graphic
        BY <1>1, <2>6, <3>1 DEF LayersInv, GraphicRead, Image
      <4>3. DOMAIN RowsSoFar = 1 .. row + 1 /\ RowsSoFar[row + 1] = out
        <5>1. images.graphic.rows \in Seq(Seq(LaterPixels("graphic")))
          BY <1>1 DEF ImagesTyped, LayerImages, LayerTypes
        <5>2. Len(images.graphic.rows) = row
          BY <1>1, <4>2 DEF RowsRead
        <5> DEFINE R == images.graphic.rows
        <5> HIDE DEF R
        <5>3. DOMAIN Append(R, out) = 1 .. Len(R) + 1 /\ Append(R, out)[Len(R) + 1] = out
          BY <5>1 DEF R
        <5> QED
          BY <5>2, <5>3 DEF RowsSoFar, R
      <4>4. row + 1 \in DOMAIN RowsSoFar /\ 1 \in DOMAIN RowsSoFar[row + 1]
        BY <1>3, <3>1, <4>3
      <4>5. out[1][1] \in 0 .. 1
        BY <4>2, <4>3, <4>4 DEF EmptyBorder
      <4> QED
        BY <2>4, <3>3, <4>1, <4>5
    <3>4. CASE ~ (x <= Len(out))
      <4>1. x - Len(out) \in 1 .. n
        BY <1>3, <2>1, <2>6, <3>4
      <4>2. pixels[x][1] = 0
        BY <2>2, <2>4, <3>1, <3>4, <4>1
      <4> QED
        BY <4>2
    <3> QED
      BY <3>3, <3>4
  <2>7. FinishRow(pixels) /\ next' \in Nat \ {0}
    BY <1>3, <1>4, <1>5, <1>8 DEF n
  <2> HIDE DEF pixels
  <2>8. pixels \in Seq(DrawnPixels(L.type))
    BY <2>4 DEF P
  <2>9. layer = 1 /\ frame.format = "SMX" =>
          \A x \in 1 .. Image.width :
             x \in {1, Image.width} \/ row + 1 \in {1, Image.height} => pixels[x][1] \in 0 .. 1
    BY <2>6
  <2> QED
    BY <1>1, <1>3, <1>4, <2>4, <2>5, <2>7, <2>8, <2>9, FinishKeeps
<1>9. CASE c.code \notin {0, 1, 3} /\ ~ (c.code = 2 /\ L.type = "graphic")
  BY <1>4, <1>5, <1>9, FailedKeeps
<1> QED
  BY <1>6, <1>7, <1>8, <1>9

(***************************************************************************)
(* The data of the graphic.                                                *)
(***************************************************************************)
LEMMA DigitsOf ==
    ASSUME NEW low \in 0 .. 3, NEW high \in Nat
    PROVE  (low + 4 * high) % 4 = low /\ (low + 4 * high) \div 4 = high
  OBVIOUS

\* The four sections in one byte.
SectionsOf(byte, a, b, c, d) ==
    /\ (byte \div 1) % 4 = a /\ (byte \div 4) % 4 = b
    /\ (byte \div 16) % 4 = c /\ (byte \div 64) % 4 = d

\* They are found by shifting it.
LEMMA Sections ==
    ASSUME NEW a \in 0 .. 3, NEW b \in 0 .. 3, NEW c \in 0 .. 3, NEW d \in 0 .. 3,
           NEW byte, byte = a + 4 * b + 16 * c + 64 * d
    PROVE  SectionsOf(byte, a, b, c, d)
<1>1. (byte \div 1) % 4 = a
  OBVIOUS
<1>2. (byte \div 4) % 4 = b
  OBVIOUS
<1>3. (byte \div 16) % 4 = c
  OBVIOUS
<1>4. (byte \div 64) % 4 = d
  OBVIOUS
<1> QED
  BY <1>1, <1>2, <1>3, <1>4 DEF SectionsOf

\* A color in its parts.
LEMMA ColorParts ==
    ASSUME NEW c \in Nat, c < 1024
    PROVE  /\ c % 256 \in 0 .. 255 /\ c \div 256 \in 0 .. 3 /\ 256 * (c \div 256) + (c % 256) = c
           /\ (c % 256) % 64 \in Nat /\ (c % 256) \div 64 \in 0 .. 3
           /\ 64 * ((c % 256) \div 64) + ((c % 256) % 64) = c % 256
<1>1. c % 256 \in 0 .. 255 /\ c \div 256 \in 0 .. 3 /\ 256 * (c \div 256) + (c % 256) = c
  OBVIOUS
<1>2. \A i \in 0 .. 255 : i % 64 \in Nat /\ i \div 64 \in 0 .. 3 /\ 64 * (i \div 64) + (i % 64) = i
  OBVIOUS
<1> QED
  BY <1>1, <1>2

\* The pixel that is decompressed after n others is that of the next color.
NextColor(n) ==
    /\ n < Len(L.colors)
    /\ \E alpha \in {254, 255} : NextPixel = <<alpha, L.colors[n + 1]>>

\* A section and an index are a color of the palette, if the palette has it.
LEMMA Paletted ==
    ASSUME NEW code \in {1, 2}, NEW section, NEW index, NEW c,
           256 * section + index = c, c < PaletteSize
    PROVE  \E alpha \in {254, 255} : PalettedPixel(code, section, index) = <<alpha, c>>
  BY DEF PalettedPixel

\* The next color of a list without compression.
LEMMA PlainColors ==
    ASSUME NEW n \in Nat, L.type = "graphic", frame.compression = "none", run.code \in {1, 2},
           L.colors \in Seq(Nat),
           \A i \in 1 .. Len(L.colors) : L.colors[i] < PaletteSize /\ L.colors[i] < 1024,
           Compressed(frame.compression, L.data, L.colors), Position(n), ptr < Len(L.data)
    PROVE  NextColor(n)
<1>1. /\ Len(L.data) = Len(L.colors)
      /\ \A i \in 1 .. Len(L.colors) : L.data[i] = <<L.colors[i] % 256, L.colors[i] \div 256>>
  BY SMTT(20) DEF Compressed
<1>2. ptr = n /\ n < Len(L.colors) /\ n + 1 \in 1 .. Len(L.colors)
  BY <1>1 DEF Position
<1> DEFINE c == L.colors[n + 1]
<1>3. c \in Nat /\ c < PaletteSize /\ c < 1024
  BY <1>2
<1>4. L.data[ptr + 1][1] = c % 256 /\ L.data[ptr + 1][2] = c \div 256
  BY <1>1, <1>2
<1>5. NextPixel = PalettedPixel(run.code, c \div 256, c % 256)
  BY <1>4 DEF NextPixel
<1> HIDE DEF c
<1>6. 256 * (c \div 256) + (c % 256) = c
  BY <1>3, ColorParts
<1>7. \E alpha \in {254, 255} : NextPixel = <<alpha, c>>
  BY <1>3, <1>5, <1>6, Paletted
<1> QED
  BY <1>2, <1>7 DEF NextColor, c

\* The next color where five bytes hold two.
LEMMA PairsOfColors ==
    ASSUME NEW n \in Nat, L.type = "graphic", frame.compression = "8to5", run.code \in {1, 2},
           L.colors \in Seq(Nat),
           \A i \in 1 .. Len(L.colors) : L.colors[i] < PaletteSize /\ L.colors[i] < 1024,
           Compressed(frame.compression, L.data, L.colors), Position(n), ptr < Len(L.data)
    PROVE  NextColor(n)
<1> DEFINE colors == L.colors
           len == Len(colors)
           k == n \div 2
           d == L.data
           Index(i)   == colors[i] % 256
           Section(i) == colors[i] \div 256
<1>1. /\ d \in Seq(Nat) /\ 2 * Len(d) = 5 * len
      /\ \A j \in 0 .. len \div 2 - 1 :
           /\ d[5 * j + 1] = Index(2 * j + 1)
           /\ d[5 * j + 2] = Section(2 * j + 1) + 4 * (Index(2 * j + 2) % 64)
           /\ d[5 * j + 3] = Index(2 * j + 2) \div 64 + 4 * Section(2 * j + 2)
  BY DEF Compressed
<1>2. ptr = 5 * k /\ decompressionState = n % 2
  BY DEF Position
<1>3. /\ len \in Nat /\ Len(d) \in Nat /\ ptr < Len(d) /\ colors \in Seq(Nat)
      /\ \A i \in 1 .. len : colors[i] < PaletteSize /\ colors[i] < 1024
  BY <1>1
<1> HIDE DEF colors, d, Index, Section
<1>4. k \in 0 .. len \div 2 - 1 /\ 2 * k + 1 \in 1 .. len /\ 2 * k + 2 \in 1 .. len
      /\ (n % 2 = 0 => n + 1 = 2 * k + 1) /\ (n % 2 # 0 => n + 1 = 2 * k + 2) /\ n < len
  <2> HIDE DEF len
  <2>1. 10 * k < 5 * len /\ k \in Nat
    BY <1>1, <1>2, <1>3
  <2>2. (n % 2 = 0 => n = 2 * k) /\ (n % 2 # 0 => n = 2 * k + 1)
    OBVIOUS
  <2> HIDE DEF k
  <2>3. len = 2 * (len \div 2)
    <3> DEFINE m == Len(d)
    <3>1. m \in Nat /\ len \in Nat /\ 2 * m = 5 * len
      BY <1>1, <1>3
    <3> HIDE DEF m
    <3> QED
      BY <3>1
  <2> QED
    BY <1>3, <2>1, <2>2, <2>3
<1> HIDE DEF len, k
<1> DEFINE a == colors[2 * k + 1]
           b == colors[2 * k + 2]
<1>5. a \in Nat /\ a < PaletteSize /\ a < 1024 /\ b \in Nat /\ b < PaletteSize /\ b < 1024
  <2>1. \A i \in 1 .. len : colors[i] \in Nat
    BY <1>3 DEF len
  <2> QED
    BY <1>3, <1>4, <2>1
<1>6. /\ d[5 * k + 1] = a % 256
      /\ d[5 * k + 2] = (a \div 256) + 4 * ((b % 256) % 64)
      /\ d[5 * k + 3] = ((b % 256) \div 64) + 4 * (b \div 256)
  BY <1>1, <1>4 DEF Index, Section
<1> HIDE DEF a, b
<1>7. /\ a \div 256 \in 0 .. 3 /\ 256 * (a \div 256) + (a % 256) = a
      /\ b \div 256 \in 0 .. 3 /\ 256 * (b \div 256) + (b % 256) = b
      /\ (b % 256) % 64 \in Nat /\ (b % 256) \div 64 \in 0 .. 3
      /\ 64 * ((b % 256) \div 64) + ((b % 256) % 64) = b % 256
  BY <1>5, ColorParts
<1>8. /\ d[5 * k + 2] % 4 = a \div 256 /\ d[5 * k + 2] \div 4 = (b % 256) % 64
      /\ d[5 * k + 3] % 4 = (b % 256) \div 64 /\ (d[5 * k + 3] \div 4) % 4 = b \div 256
  <2>1. /\ ((a \div 256) + 4 * ((b % 256) % 64)) % 4 = a \div 256
        /\ ((a \div 256) + 4 * ((b % 256) % 64)) \div 4 = (b % 256) % 64
    BY <1>5, <1>7, DigitsOf
  <2>2. b \div 256 \in Nat
    BY <1>5, <1>7
  <2>3. /\ (((b % 256) \div 64) + 4 * (b \div 256)) % 4 = (b % 256) \div 64
        /\ (((b % 256) \div 64) + 4 * (b \div 256)) \div 4 = b \div 256
    BY <1>5, <1>7, <2>2, DigitsOf
  <2>4. (b \div 256) % 4 = b \div 256
    BY <1>5, <1>7
  <2> QED
    BY <1>6, <2>1, <2>3, <2>4
<1>9. NextPixel = DecompressNextPixel8To5(d)
  BY DEF NextPixel, d
<1>10. CASE n % 2 = 0
  <2>1. NextPixel = PalettedPixel(run.code, a \div 256, a % 256)
    BY <1>2, <1>6, <1>8, <1>9, <1>10 DEF DecompressNextPixel8To5
  <2>2. \E alpha \in {254, 255} : NextPixel = <<alpha, a>>
    <3>1. 256 * (a \div 256) + (a % 256) = a /\ a < PaletteSize
      BY <1>5, ColorParts
    <3> QED
      BY <2>1, <3>1, Paletted
  <2>3. n + 1 = 2 * k + 1 /\ n < len
    BY <1>4, <1>10
  <2>4. L.colors[n + 1] = a /\ n < Len(L.colors)
    BY <2>3 DEF a, colors, len
  <2> QED
    BY <2>2, <2>4 DEF NextColor
<1>11. CASE n % 2 # 0
  <2>1. NextPixel = PalettedPixel(run.code, b \div 256, b % 256)
    BY <1>2, <1>7, <1>8, <1>9, <1>11 DEF DecompressNextPixel8To5
  <2>2. \E alpha \in {254, 255} : NextPixel = <<alpha, b>>
    <3>1. 256 * (b \div 256) + (b % 256) = b /\ b < PaletteSize
      BY <1>5, ColorParts
    <3> QED
      BY <2>1, <3>1, Paletted
  <2>3. n + 1 = 2 * k + 2 /\ n < len
    BY <1>4, <1>11
  <2>4. L.colors[n + 1] = b /\ n < Len(L.colors)
    BY <2>3 DEF b, colors, len
  <2> QED
    BY <2>2, <2>4 DEF NextColor
<1> QED
  BY <1>10, <1>11

\* The next color where five bytes hold four.
LEMMA FoursOfColors ==
    ASSUME NEW n \in Nat, L.type = "graphic", frame.compression = "4plus1", run.code \in {1, 2},
           L.colors \in Seq(Nat),
           \A i \in 1 .. Len(L.colors) : L.colors[i] < PaletteSize /\ L.colors[i] < 1024,
           Compressed(frame.compression, L.data, L.colors), Position(n), ptr < Len(L.data)
    PROVE  NextColor(n)
<1> DEFINE colors == L.colors
           len == Len(colors)
           k == n \div 4
           s == n % 4
           d == L.data
           Index(i)   == colors[i] % 256
           Section(i) == colors[i] \div 256
<1>1. /\ d \in Seq(Nat) /\ 4 * Len(d) = 5 * len
      /\ \A j \in 0 .. len \div 4 - 1 :
           /\ \A i \in 1 .. 4 : d[5 * j + i] = Index(4 * j + i)
           /\ d[5 * j + 5] = Section(4 * j + 1) + 4 * Section(4 * j + 2)
                             + 16 * Section(4 * j + 3) + 64 * Section(4 * j + 4)
  BY DEF Compressed
<1>2. ptr = 5 * k /\ decompressionState = s
  BY DEF Position
<1>3. /\ len \in Nat /\ Len(d) \in Nat /\ ptr < Len(d) /\ colors \in Seq(Nat)
      /\ \A i \in 1 .. len : colors[i] < PaletteSize /\ colors[i] < 1024
  BY <1>1
<1> HIDE DEF colors, d, Index, Section
<1>4. k \in 0 .. len \div 4 - 1 /\ k \in Nat /\ s \in 0 .. 3 /\ n = 4 * k + s /\ n < len
      /\ \A i \in 1 .. 4 : 4 * k + i \in 1 .. len
  <2> HIDE DEF len
  <2>1. 20 * k < 5 * len /\ k \in Nat
    BY <1>1, <1>2, <1>3
  <2>2. n = 4 * k + s /\ s \in 0 .. 3
    OBVIOUS
  <2> HIDE DEF k, s
  <2>3. len = 4 * (len \div 4)
    <3> DEFINE m == Len(d)
    <3>1. m \in Nat /\ len \in Nat /\ 4 * m = 5 * len
      BY <1>1, <1>3
    <3> HIDE DEF m
    <3> QED
      BY <3>1
  <2> QED
    BY <1>3, <2>1, <2>2, <2>3
<1> HIDE DEF k, s
<1>5. \A i \in 1 .. 4 : /\ colors[4 * k + i] \in Nat
                        /\ colors[4 * k + i] < PaletteSize /\ colors[4 * k + i] < 1024
  <2>1. \A i \in 1 .. len : colors[i] \in Nat
    BY <1>3 DEF len
  <2> HIDE DEF len
  <2> TAKE i \in 1 .. 4
  <2> DEFINE m == 4 * k + i
  <2>2. m \in 1 .. len
    BY <1>4
  <2> HIDE DEF m
  <2>3. colors[m] \in Nat /\ colors[m] < PaletteSize /\ colors[m] < 1024
    BY <1>3, <2>1, <2>2
  <2> QED
    BY <2>3 DEF m
<1> HIDE DEF len
<1> DEFINE C(i) == colors[4 * k + i]
           byte == d[5 * k + 5]
<1>6. /\ \A i \in 1 .. 4 : d[5 * k + i] = C(i) % 256
      /\ byte = (C(1) \div 256) + 4 * (C(2) \div 256) + 16 * (C(3) \div 256) + 64 * (C(4) \div 256)
  BY <1>1, <1>4 DEF Index, Section
<1>7. \A i \in 1 .. 4 : C(i) \in Nat /\ C(i) < PaletteSize /\ C(i) < 1024
  BY <1>5
<1> HIDE DEF C, byte
<1>8. ASSUME NEW i \in 1 .. 4
      PROVE  C(i) \div 256 \in 0 .. 3 /\ 256 * (C(i) \div 256) + (C(i) % 256) = C(i)
  <2> DEFINE c == C(i)
  <2>1. c \in Nat /\ c < 1024
    BY <1>7
  <2> HIDE DEF c
  <2>2. c \div 256 \in 0 .. 3 /\ 256 * (c \div 256) + (c % 256) = c
    BY <2>1, ColorParts
  <2> QED
    BY <2>2 DEF c
<1>9. /\ (byte \div 1) % 4 = C(1) \div 256 /\ (byte \div 4) % 4 = C(2) \div 256
      /\ (byte \div 16) % 4 = C(3) \div 256 /\ (byte \div 64) % 4 = C(4) \div 256
  <2>1. /\ C(1) \div 256 \in 0 .. 3 /\ C(2) \div 256 \in 0 .. 3
        /\ C(3) \div 256 \in 0 .. 3 /\ C(4) \div 256 \in 0 .. 3
    BY <1>8
  <2> DEFINE p == C(1) \div 256
             q == C(2) \div 256
             r == C(3) \div 256
             t == C(4) \div 256
  <2>2. byte = p + 4 * q + 16 * r + 64 * t
    BY <1>6
  <2>3. p \in 0 .. 3 /\ q \in 0 .. 3 /\ r \in 0 .. 3 /\ t \in 0 .. 3
    BY <2>1
  <2> HIDE DEF p, q, r, t
  <2>4. /\ (byte \div 1) % 4 = p /\ (byte \div 4) % 4 = q
        /\ (byte \div 16) % 4 = r /\ (byte \div 64) % 4 = t
    <3>1. SectionsOf(byte, p, q, r, t)
      BY <2>2, <2>3, Sections
    <3> QED
      BY <3>1 DEF SectionsOf
  <2> QED
    BY <2>4 DEF p, q, r, t
<1>10. (byte \div <<1, 4, 16, 64>>[s + 1]) % 4 = C(s + 1) \div 256
  <2>1. s = 0 \/ s = 1 \/ s = 2 \/ s = 3
    BY <1>4
  <2>2. CASE s = 0
    BY <1>9, <2>2
  <2>3. CASE s = 1
    BY <1>9, <2>3
  <2>4. CASE s = 2
    BY <1>9, <2>4
  <2>5. CASE s = 3
    BY <1>9, <2>5
  <2> QED
    BY <2>1, <2>2, <2>3, <2>4, <2>5
<1>11. d[ptr + 1 + decompressionState] = C(s + 1) % 256
  <2>1. s + 1 \in 1 .. 4 /\ ptr + 1 + decompressionState = 5 * k + (s + 1)
    BY <1>2, <1>4
  <2> QED
    BY <1>6, <2>1
<1>12. NextPixel = DecompressNextPixel4Plus1(d)
  BY DEF NextPixel, d
<1>13. NextPixel = PalettedPixel(run.code, C(s + 1) \div 256, C(s + 1) % 256)
  BY <1>2, <1>10, <1>11, <1>12 DEF DecompressNextPixel4Plus1, byte
<1>14. s + 1 \in 1 .. 4 /\ 4 * k + (s + 1) = n + 1
  BY <1>4
<1>15. C(s + 1) < PaletteSize /\ 256 * (C(s + 1) \div 256) + (C(s + 1) % 256) = C(s + 1)
  <2> DEFINE i == s + 1
  <2>1. i \in 1 .. 4
    BY <1>14
  <2> HIDE DEF i
  <2>2. C(i) < PaletteSize
    BY <1>7, <2>1
  <2>3. 256 * (C(i) \div 256) + (C(i) % 256) = C(i)
    BY <1>8, <2>1
  <2> QED
    BY <2>2, <2>3 DEF i
<1>16. \E alpha \in {254, 255} : NextPixel = <<alpha, C(s + 1)>>
  BY <1>13, <1>15, Paletted
<1> QED
  BY <1>4, <1>14, <1>16 DEF NextColor, C, colors, len

\* Where the color after next is.
LEMMA NextPosition ==
    ASSUME DrawPixel, L.type = "graphic", frame.compression \in {"none", "8to5", "4plus1"},
           NEW n \in Nat, Position(n), frame' = frame
    PROVE  Position(n + 1)'
<1>1. CASE frame.compression = "none"
  BY <1>1 DEF DrawPixel, Position
<1>2. CASE frame.compression = "8to5"
  <2>1. /\ decompressionState' = (decompressionState + 1) % 2
        /\ ptr' = IF decompressionState' = 0 THEN ptr + 5 ELSE ptr
    BY <1>2 DEF DrawPixel, PixelsPerBlock
  <2>2. ptr = 5 * (n \div 2) /\ decompressionState = n % 2
    BY <1>2 DEF Position
  <2>3. /\ ((n % 2) + 1) % 2 = (n + 1) % 2
        /\ (n + 1) \div 2 = IF (n + 1) % 2 = 0 THEN (n \div 2) + 1 ELSE n \div 2
    OBVIOUS
  <2> QED
    BY <1>2, <2>1, <2>2, <2>3 DEF Position
<1>3. CASE frame.compression = "4plus1"
  <2>1. /\ decompressionState' = (decompressionState + 1) % 4
        /\ ptr' = IF decompressionState' = 0 THEN ptr + 5 ELSE ptr
    BY <1>3 DEF DrawPixel, PixelsPerBlock
  <2>2. ptr = 5 * (n \div 4) /\ decompressionState = n % 4
    BY <1>3 DEF Position
  <2>3. /\ ((n % 4) + 1) % 4 = (n + 1) % 4
        /\ (n + 1) \div 4 = IF (n + 1) % 4 = 0 THEN (n \div 4) + 1 ELSE n \div 4
    OBVIOUS
  <2> QED
    BY <1>3, <2>1, <2>2, <2>3 DEF Position
<1> QED
  BY <1>1, <1>2, <1>3

\* The pixels of other layers are numbers.
LEMMA OtherPixels ==
    ASSUME LayersInv, DrawPixel, layer # 1
    PROVE  NextPixel \in Nat
<1>1. LayerControl /\ RowsRead /\ ReadingRows /\ reading = "pixels"
  BY DEF LayersInv, DrawPixel, ReadingRows
<1>2. L.type \in {"shadow", "outline"} /\ LayerOK(frame, L)
  BY <1>1, LayerFacts DEF LayerTypes
<1>3. CASE L.type = "outline"
  BY <1>3 DEF NextPixel
<1>4. CASE L.type = "shadow"
  <2>1. L.data \in Seq(Nat)
    BY <1>2, <1>4 DEF LayerOK
  <2>2. ptr \in Nat /\ ptr < Len(L.data)
    BY <1>1, <1>4 DEF RowsRead, DrawPixel
  <2>3. ptr + 1 \in 1 .. Len(L.data)
    BY <2>1, <2>2
  <2> QED
    BY <1>4, <2>1, <2>3 DEF NextPixel
<1> QED
  BY <1>2, <1>3, <1>4

\* What a pixel adds to the graphic.
LEMMA ColorDrawn ==
    ASSUME LayersInv, DrawPixel, layer = 1
    PROVE  LET n == Cardinality(Shown(RowsSoFar))
           IN  /\ n \in Nat /\ NextColor(n) /\ L.colors[n + 1] \in Nat
               /\ \A m : m = n + 1 => Position(m)'
<1> DEFINE n == Cardinality(Shown(RowsSoFar))
<1>1. LayerControl /\ RowsRead /\ ReadingRows /\ reading = "pixels" /\ GraphicRead
  BY DEF LayersInv, DrawPixel, ReadingRows
<1>2. L.type = "graphic" /\ LayerOK(frame, L)
  BY <1>1, LayerFacts
<1>3. frame.compression \in {"none", "8to5", "4plus1"}
  BY <1>1, FileFacts
<1>4. /\ L.colors \in Seq(Nat) /\ Compressed(frame.compression, L.data, L.colors)
      /\ \A i \in 1 .. Len(L.colors) : L.colors[i] < PaletteSize /\ L.colors[i] < 1024
  <2>1. /\ L.colors \in Seq(Nat) /\ Compressed(frame.compression, L.data, L.colors)
        /\ \A i \in DOMAIN L.colors : L.colors[i] < PaletteSize /\ L.colors[i] < 1024
    BY <1>2 DEF LayerOK
  <2> QED
    BY <2>1
<1>5. run.code \in {1, 2}
  BY <1>1 DEF RowsRead
<1>6. n \in Nat /\ Position(n)
  BY <1>1, FS_CardinalityType DEF GraphicRead
<1>7. ptr < Len(L.data) /\ frame' = frame
  BY <1>2 DEF DrawPixel
<1> HIDE DEF n
<1>8. NextColor(n)
  BY <1>2, <1>3, <1>4, <1>5, <1>6, <1>7, PlainColors, PairsOfColors, FoursOfColors
<1>9. ASSUME NEW m, m = n + 1 PROVE Position(m)'
  <2>1. PICK k \in Nat : k = n
    BY <1>6
  <2>2. Position(k)
    BY <1>6, <2>1
  <2>3. Position(k + 1)'
    BY <1>2, <1>3, <1>7, <2>2, NextPosition
  <2>4. m = k + 1
    BY <1>9, <2>1
  <2> QED
    BY <2>3, <2>4
<1>10. n + 1 \in 1 .. Len(L.colors)
  BY <1>4, <1>6, <1>8 DEF NextColor
<1>11. L.colors[n + 1] \in Nat
  BY <1>4, <1>10
<1> QED
  BY <1>6, <1>8, <1>9, <1>11 DEF n

\* A pixel that is drawn shows the next color, and leaves the position behind it.
LEMMA DrawPixelKeeps ==
    ASSUME LayersInv, DrawPixel
    PROVE  LayersInv'
<1> USE DEF LayersInv
<1>1. ReadingRows /\ ReadingRows' /\ reading = "pixels"
  BY DEF DrawPixel, ReadingRows
<1>2. /\ frame' = frame /\ layer' = layer /\ images' = images /\ row' = row /\ next' = next
      /\ out' = Append(out, NextPixel) /\ run' = [run EXCEPT !.count = @ - 1]
      /\ reading' = IF run.count = 1 THEN "command" ELSE "pixels"
  BY DEF DrawPixel
<1>3. L' = L /\ BorderOf(L)' = BorderOf(L) /\ RowEdges(L)' = RowEdges(L) /\ Image' = Image
  BY <1>2 DEF L, BorderOf, RowEdges, Image
<1>4. /\ layer \in 1 .. Len(frame.layers) /\ L.type \in LayerTypes /\ (layer = 1 <=> L.type = "graphic")
      /\ L.width \in Nat /\ L.height \in Nat /\ BorderOf(L) \in {0, 1}
      /\ BorderOf(L) = 1 <=> frame.format = "SMX" /\ layer = 1
  BY <1>1, LayerFacts DEF ReadingRows
<1>5. ImagesTyped'
  BY <1>2 DEF ImagesTyped
<1>6. GraphicWhole' /\ ShadowRight' /\ LayerControl'
  BY <1>1, <1>2, OthersStay
<1>7. /\ Image.width = L.width + 2 * BorderOf(L) /\ Image.height = L.height + 2 * BorderOf(L)
      /\ Image.edges = RowEdges(L) /\ row \in 0 .. Image.height /\ Len(Image.rows) = row
      /\ \A y \in 1 .. row : Len(Image.rows[y]) = Image.width
      /\ ptr \in Nat /\ next \in Nat \ {0} /\ row < Image.height
      /\ BorderOf(L) = 1 => row # 0 /\ row + 1 # Image.height
  BY <1>1 DEF RowsRead
<1>8. /\ out \in Seq(DrawnPixels(L.type)) /\ BorderOf(L) <= Len(out) /\ Len(out) \in Nat
      /\ run.count \in Nat \ {0} /\ run.code \in {1, 2}
      /\ Len(out) + run.count <= L.width + BorderOf(L)
  BY <1>1 DEF RowsRead
<1>9. NextPixel \in DrawnPixels(L.type)
  <2>1. CASE layer # 1
    BY <1>4, <2>1, OtherPixels DEF DrawnPixels
  <2>2. CASE layer = 1
    <3> DEFINE n == Cardinality(Shown(RowsSoFar))
    <3>1. NextColor(n) /\ L.colors[n + 1] \in Nat
      BY <2>2, ColorDrawn
    <3> HIDE DEF n
    <3> QED
      BY <1>4, <2>2, <3>1 DEF NextColor, DrawnPixels
  <2> QED
    BY <2>1, <2>2
<1>10. /\ out' \in Seq(DrawnPixels(L.type)) /\ Len(out') = Len(out) + 1
       /\ \A x \in 1 .. Len(out) : out'[x] = out[x]
       /\ out'[Len(out) + 1] = NextPixel
  <2> DEFINE P == DrawnPixels(L.type)
             c == NextPixel
  <2>1. out \in Seq(P) /\ c \in P /\ out' = Append(out, c)
    BY <1>2, <1>8, <1>9
  <2> HIDE DEF P, c
  <2> QED
    BY <2>1 DEF P, c
<1>11. ptr' \in Nat
  BY <1>7 DEF DrawPixel
<1>12. RowsRead'
  <2>1. run.count # 1 => run'.count \in Nat \ {0} /\ run'.code \in {1, 2} /\ run'.count = run.count - 1
    <3>1. run'.code = run.code
      BY <1>2
    <3>2. run.count # 1 => run'.count = run.count - 1
      BY <1>2
    <3> QED
      BY <1>8, <3>1, <3>2
  <2>2. /\ BorderOf(L) <= Len(out') /\ Len(out') <= L.width + BorderOf(L)
        /\ run.count # 1 => Len(out') + run'.count <= L.width + BorderOf(L)
    BY <1>4, <1>8, <1>10, <2>1
  <2> QED
    BY <1>2, <1>3, <1>7, <1>10, <1>11, <2>1, <2>2 DEF RowsRead
<1>13. GraphicRead'
  <2>1. SUFFICES ASSUME layer = 1 PROVE GraphicRead'
    BY <1>2 DEF GraphicRead
  <2>2. L.type = "graphic" /\ Image = images.graphic
    BY <1>4, <2>1 DEF Image
  <2> DEFINE Q == LaterPixels("graphic")
             R == images.graphic.rows
             n == Cardinality(Shown(RowsSoFar))
             c == L.colors[n + 1]
             x1 == Len(out) + 1
  <2>3. DrawnPixels("graphic") \subseteq Q
    BY DEF DrawnPixels, LaterPixels
  <2>4. /\ R \in Seq(Seq(Q)) /\ Len(R) = row /\ row \in Nat
        /\ out \in Seq(Q) /\ out' \in Seq(Q) /\ NextPixel \in Q
        /\ out' \in Seq(DrawnPixels("graphic"))
    <3>1. R \in Seq(Seq(Q))
      BY DEF ImagesTyped, LayerImages, LayerTypes
    <3>2. out \in Seq(DrawnPixels("graphic")) /\ out' \in Seq(DrawnPixels("graphic"))
          /\ NextPixel \in DrawnPixels("graphic")
      BY <1>8, <1>9, <1>10, <2>2
    <3> QED
      BY <1>7, <2>2, <2>3, <3>1, <3>2
  <2>5. /\ \A y \in 1 .. row + 1 : RowsSoFar[y] \in Seq(DrawnPixels("graphic"))
        /\ frame.format = "SMX" => EmptyBorder(RowsSoFar, Image.width, Image.height)
        /\ IsFiniteSet(Shown(RowsSoFar))
        /\ ShownInOrder(Shown(RowsSoFar), L.colors)
    BY <1>1, <2>1 DEF GraphicRead
  <2>6. RowsSoFar = Append(R, out) /\ RowsSoFar' = Append(R, out')
    BY <1>2 DEF RowsSoFar
  <2>7. /\ n \in Nat /\ n < Len(L.colors) /\ c \in Nat
        /\ \A m : m = n + 1 => Position(m)'
        /\ \E alpha \in {254, 255} : NextPixel = <<alpha, c>>
    BY <2>1, ColorDrawn DEF NextColor
  <2>8. Len(L.colors) \in Nat
    <3>1. L.colors \in Seq(Nat)
      BY <1>1, <2>2, LayerFacts DEF LayerOK, ReadingRows
    <3> QED
      BY <3>1
  <2> HIDE DEF Q, R, n, c, x1
  <2>9. /\ DOMAIN RowsSoFar = 1 .. row + 1 /\ DOMAIN RowsSoFar' = 1 .. row + 1
        /\ \A y \in 1 .. row : RowsSoFar'[y] = RowsSoFar[y]
        /\ RowsSoFar[row + 1] = out /\ RowsSoFar'[row + 1] = out'
    BY <2>4, <2>6
  <2>10. \A y \in 1 .. row + 1 : RowsSoFar'[y] \in Seq(DrawnPixels("graphic"))
    <3>1. \A y \in 1 .. row + 1 : y \in 1 .. row \/ y = row + 1
      BY <2>4
    <3> QED
      BY <2>4, <2>5, <2>9, <3>1
  <2>11. frame.format = "SMX" => EmptyBorder(RowsSoFar', Image.width, Image.height)
    <3>1. SUFFICES ASSUME frame.format = "SMX", NEW y \in 1 .. row + 1, NEW x \in DOMAIN RowsSoFar'[y],
                          x \in {1, Image.width} \/ y \in {1, Image.height}
                   PROVE  RowsSoFar'[y][x][1] \in 0 .. 1
      BY <2>9 DEF EmptyBorder
    <3>2. CASE y \in 1 .. row
      <4>1. RowsSoFar'[y] = RowsSoFar[y] /\ y \in DOMAIN RowsSoFar
        BY <2>4, <2>9, <3>2
      <4> QED
        BY <2>5, <3>1, <4>1 DEF EmptyBorder
    <3>3. CASE y = row + 1
      <4>1. RowsSoFar'[y] = out' /\ RowsSoFar[y] = out /\ y \in DOMAIN RowsSoFar
        BY <2>4, <2>9, <3>3
      <4>2. BorderOf(L) = 1
        BY <1>4, <2>1, <3>1
      <4>3. x \in 1 .. Len(out) + 1 /\ x \in {1, Image.width}
        BY <1>7, <1>8, <1>10, <3>1, <3>3, <4>1, <4>2
      <4>4. x # Len(out) + 1
        BY <1>4, <1>7, <1>8, <4>2, <4>3
      <4>5. out'[x] = out[x] /\ x \in DOMAIN out
        <5>1. Len(out) \in Nat /\ DOMAIN out = 1 .. Len(out)
              /\ \A i \in 1 .. Len(out) : Append(out, NextPixel)[i] = out[i]
          BY <2>4
        <5>2. x \in 1 .. Len(out)
          BY <4>3, <4>4, <5>1
        <5> QED
          BY <1>2, <5>1, <5>2
      <4> QED
        BY <2>5, <3>1, <4>1, <4>5 DEF EmptyBorder
    <3> QED
      BY <2>4, <3>2, <3>3
  <2>12. Shown(RowsSoFar') = Shown(RowsSoFar) \cup {<<x1, row + 1, c>>}
    <3>1. Shown(RowsSoFar') = Shown(R) \cup VisibleIn(Len(R) + 1, out')
      BY <2>4, <2>6, ShownAppend
    <3>2. Shown(RowsSoFar) = Shown(R) \cup VisibleIn(Len(R) + 1, out)
      BY <2>4, <2>6, ShownAppend
    <3>3. NextPixel[1] >= 252 /\ NextPixel[2] = c
      BY <2>7
    <3>4. VisibleIn(Len(R) + 1, Append(out, NextPixel)) =
            VisibleIn(Len(R) + 1, out) \cup {<<x1, Len(R) + 1, NextPixel[2]>>}
      BY <2>4, <3>3, VisibleWithOne DEF x1
    <3> QED
      BY <1>2, <2>4, <3>1, <3>2, <3>3, <3>4
  <2>13. \A s \in Shown(RowsSoFar) :
            s[1] \in Nat /\ s[2] \in Nat /\ (s[2] < row + 1 \/ (s[2] = row + 1 /\ s[1] < x1))
    <3> TAKE s \in Shown(RowsSoFar)
    <3>1. RowsSoFar \in Seq(Seq(Q)) /\ Len(RowsSoFar) = row + 1
      BY <2>4, <2>6
    <3>2. s[2] \in 1 .. row + 1 /\ s[1] \in 1 .. Len(RowsSoFar[s[2]])
      BY <3>1, ShownWhere
    <3>3. s[1] \in Nat
      <4>1. RowsSoFar[s[2]] \in Seq(Q)
        BY <3>1, <3>2
      <4> QED
        BY <3>2, <4>1
    <3>4. s[2] = row + 1 => s[1] \in 1 .. Len(out)
      BY <2>9, <3>2
    <3> QED
      BY <1>8, <2>4, <3>2, <3>3, <3>4 DEF x1
  <2> DEFINE shown == Shown(RowsSoFar)
             more  == shown \cup {<<x1, row + 1, c>>}
  <2>14. IsFiniteSet(more) /\ Cardinality(more) = n + 1 /\ ShownInOrder(more, L.colors)
    <3>1. n = Cardinality(shown) /\ c = L.colors[Cardinality(shown) + 1]
      BY DEF n, c
    <3>2. IsFiniteSet(shown) /\ ShownInOrder(shown, L.colors) /\ Cardinality(shown) < Len(L.colors)
      BY <2>5, <2>7, <3>1
    <3>3. x1 \in Nat /\ row + 1 \in Nat
      BY <1>8, <2>4 DEF x1
    <3> HIDE DEF shown
    <3>4. \A s \in shown :
            s[1] \in Nat /\ s[2] \in Nat /\ (s[2] < row + 1 \/ (s[2] = row + 1 /\ s[1] < x1))
      BY <2>13 DEF shown
    <3> QED
      BY <2>8, <3>1, <3>2, <3>3, <3>4, NextInOrder
  <2> HIDE DEF more
  <2>15. Shown(RowsSoFar') = more
    BY <2>12 DEF more
  <2>16. n + 1 <= Len(L.colors)
    BY <2>7, <2>8
  <2>17. Position(Cardinality(Shown(RowsSoFar)))'
    <3>1. PICK m : m = n + 1
      OBVIOUS
    <3>2. Position(m)' /\ Cardinality(Shown(RowsSoFar')) = m
      BY <2>7, <2>14, <2>15, <3>1
    <3> QED
      BY <3>2 DEF Position
  <2> QED
    BY <1>2, <1>3, <2>10, <2>11, <2>14, <2>15, <2>16, <2>17 DEF GraphicRead
<1> QED
  BY <1>5, <1>6, <1>12, <1>13

(***************************************************************************)
(* The other steps.                                                        *)
(***************************************************************************)
LEMMA PaletteKeeps ==
    ASSUME LayersInv, FindPalette
    PROVE  LayersInv'
<1> USE DEF LayersInv
<1>1. /\ reading = "palette" /\ reading' = "header" /\ frame.palette \in Palettes
      /\ frame' = frame /\ layer' = layer /\ images' = images
  BY DEF FindPalette
<1>2. layer = 1 /\ frame \in Frames
  BY <1>1 DEF LayerControl
<1>3. ImagesTyped'
  BY <1>1 DEF ImagesTyped
<1>4. LayerControl'
  <2>1. frame.layers \in Seq(Range(frame.layers)) /\ frame.layers # <<>>
    BY <1>1, <1>2, FramesAssumption
  <2>2. 1 \in 1 .. Len(frame.layers)
    BY <2>1
  <2> QED
    BY <1>1, <1>2, <2>2 DEF LayerControl
<1>5. images.shadow = noImage
  BY <1>1, <1>2 DEF ShadowRight
<1> QED
  BY <1>1, <1>2, <1>3, <1>4, <1>5 DEF RowsRead, GraphicRead, GraphicWhole, ShadowRight, ReadingRows

\* On to the next layer, when what is known of the graphic and the shadow holds already.
LEMMA NextLayerKeeps ==
    ASSUME LayerControl, reading \in {"header", "row", "command", "pixels", "inpaint"},
           frame' = frame, layer' = layer + 1, reading' = NextLayer,
           ImagesTyped', GraphicWhole', images'.shadow = noImage \/ ShadowWhole'
    PROVE  LayersInv'
<1>1. layer \in 1 .. Len(frame.layers) /\ frame.palette \in Palettes /\ frame \in Frames
  BY DEF LayerControl
<1>2. Len(frame.layers) \in Nat
  BY FileFacts
<1>3. \/ layer = Len(frame.layers) /\ reading' = "done"
      \/ layer # Len(frame.layers) /\ reading' = "header"
  BY DEF NextLayer
<1>4. LayerControl'
  BY <1>1, <1>2, <1>3 DEF LayerControl
<1>5. layer' # 1
  BY <1>1
<1> QED
  BY <1>3, <1>4, <1>5 DEF LayersInv, RowsRead, GraphicRead, ShadowRight, ReadingRows

\* A layer begins with an image without rows.
LEMMA ReadLayerKeeps ==
    ASSUME LayersInv, ReadLayer
    PROVE  LayersInv'
<1> USE DEF LayersInv
<1>1. reading = "header" /\ frame' = frame
  BY DEF ReadLayer
<1>2. /\ layer \in 1 .. Len(frame.layers) /\ L.type \in LayerTypes /\ (layer = 1 <=> L.type = "graphic")
      /\ L.width \in Nat /\ L.height \in Nat /\ L.hotspotX \in Int /\ L.hotspotY \in Int
      /\ BorderOf(L) \in {0, 1}
  BY <1>1, LayerFacts
<1>3. images.shadow = noImage \/ ShadowWhole
  BY <1>1 DEF ShadowRight, ReadingRows
<1>4. CASE frame.format = "SMP" /\ L.type # "graphic"
  <2>1. layer' = layer + 1 /\ reading' = NextLayer /\ images' = images
    BY <1>4 DEF ReadLayer
  <2>2. ImagesTyped'
    BY <2>1 DEF ImagesTyped
  <2>3. layer > 1
    BY <1>2, <1>4
  <2>4. OutlineFollows' => OutlineFollows
    BY <1>1, <1>2, <2>1 DEF OutlineFollows
  <2>5. GraphicWhole'
    BY <1>1, <2>1, <2>3, <2>4 DEF GraphicWhole
  <2>6. images'.shadow = noImage \/ ShadowWhole'
    BY <1>3, <2>1, ShadowStays
  <2> QED
    BY <1>1, <2>1, <2>2, <2>5, <2>6, NextLayerKeeps
<1>5. CASE ~ (frame.format = "SMP" /\ L.type # "graphic")
  <2> DEFINE b == BorderOf(L)
             new == [width |-> L.width + 2 * b, height |-> L.height + 2 * b,
                     x |-> L.hotspotX + b, y |-> L.hotspotY + b, edges |-> RowEdges(L), rows |-> <<>>]
             k == L.type
  <2>1. /\ images' = [images EXCEPT ![k] = new] /\ reading' = "row" /\ layer' = layer
        /\ row' = 0 /\ out' = <<>> /\ next' = 1 /\ ptr' = 0 /\ decompressionState' = 0
    BY <1>5 DEF ReadLayer
  <2>2. new \in LayerImages(k)
    <3>1. RowEdges(L) \in Seq(RowEdgeSet)
      BY <1>1, EdgeFacts
    <3>2. <<>> \in Seq(Seq(LaterPixels(k)))
      OBVIOUS
    <3> QED
      BY <1>2, <3>1, <3>2 DEF LayerImages
  <2>3. images'[k] = new /\ \A t \in LayerTypes \ {k} : images'[t] = images[t]
    <3> HIDE DEF new, k
    <3> QED
      BY <1>2, <2>1 DEF ImagesTyped, k
  <2>4. ImagesTyped'
    <3>1. images' = [t \in LayerTypes |-> images'[t]]
      <4> HIDE DEF new, k
      <4> QED
        BY <2>1 DEF ImagesTyped
    <3>2. \A t \in LayerTypes : images'[t] \in LayerImages(t)
      <4> HIDE DEF new, k
      <4> QED
        BY <2>2, <2>3 DEF ImagesTyped
    <3> QED
      BY <3>1, <3>2 DEF ImagesTyped
  <2>5. L' = L /\ BorderOf(L)' = b /\ RowEdges(L)' = RowEdges(L) /\ Image' = new
    BY <1>1, <2>1, <2>3 DEF L, BorderOf, RowEdges, Image
  <2>6. LayerControl'
    BY <1>1, <2>1 DEF LayerControl
  <2>7. RowsRead'
    <3>1. <<>> \in Seq(DrawnPixels(k)) /\ Len(<<>>) = 0
      OBVIOUS
    <3>2. /\ new.width = L.width + 2 * b /\ new.height = L.height + 2 * b
          /\ new.edges = RowEdges(L) /\ new.rows = <<>> /\ 0 \in 0 .. new.height
      BY <1>2
    <3> HIDE DEF new
    <3> QED
      BY <2>1, <2>5, <3>1, <3>2 DEF RowsRead
  <2>8. GraphicRead'
    <3>1. SUFFICES ASSUME layer = 1 PROVE GraphicRead'
      BY <2>1 DEF GraphicRead
    <3>2. images'.graphic.rows = <<>>
      BY <1>2, <2>3, <3>1
    <3> DEFINE R == RowsSoFar'
    <3>3. R = Append(<<>>, <<>>)
      BY <2>1, <3>2 DEF RowsSoFar
    <3> HIDE DEF R
    <3>4. DOMAIN R = {1} /\ R[1] = <<>>
      <4>1. \A S : \A one \in Seq(S) : \A x \in S :
              DOMAIN Append(one, x) = 1 .. Len(one) + 1 /\ Append(one, x)[Len(one) + 1] = x
        OBVIOUS
      <4>2. <<>> \in {<<>>} /\ <<>> \in Seq({<<>>}) /\ Len(<<>>) = 0 /\ 1 .. 0 + 1 = {1}
        OBVIOUS
      <4>3. DOMAIN R = 1 .. Len(<<>>) + 1 /\ R[Len(<<>>) + 1] = <<>>
        BY <3>3, <4>1, <4>2
      <4> QED
        BY <4>2, <4>3
    <3>5. Shown(R) = {}
      BY <3>4 DEF Shown
    <3>6. EmptyBorder(R, Image'.width, Image'.height)
      BY <3>4 DEF EmptyBorder
    <3>7. \A y \in 1 .. row' + 1 : R[y] \in Seq(DrawnPixels("graphic"))
      <4>1. \A y \in 1 .. row' + 1 : y = 1
        BY <2>1
      <4>2. <<>> \in Seq(DrawnPixels("graphic"))
        OBVIOUS
      <4> QED
        BY <3>4, <4>1, <4>2
    <3>8. IsFiniteSet({}) /\ Cardinality({}) = 0
      BY FS_EmptySet
    <3>9. ShownInOrder({}, L'.colors)
      BY DEF ShownInOrder
    <3>10. Cardinality({}) <= Len(L.colors)
      <4>1. L.colors \in Seq(Nat)
        BY <1>1, <1>2, <3>1, LayerFacts DEF LayerOK
      <4> QED
        BY <3>8, <4>1
    <3>11. ptr' = 5 * (0 \div 2) /\ ptr' = 5 * (0 \div 4) /\ 0 % 2 = 0 /\ 0 % 4 = 0
      BY <2>1
    <3>12. Position(Cardinality(Shown(RowsSoFar)))'
      BY <2>1, <3>5, <3>8, <3>11 DEF Position, R
    <3> QED
      BY <2>5, <3>5, <3>6, <3>7, <3>8, <3>9, <3>10, <3>12 DEF GraphicRead, R
  <2>9. GraphicWhole'
    <3>1. SUFFICES ASSUME layer > 1 PROVE GraphicWhole'
      BY <2>1 DEF GraphicWhole
    <3>2. images'.graphic = images.graphic
      BY <1>2, <2>3, <3>1 DEF LayerTypes
    <3>3. OutlineFollows' <=> OutlineFollows
      BY <1>1, <2>1 DEF OutlineFollows
    <3> QED
      BY <1>1, <2>1, <3>1, <3>2, <3>3 DEF GraphicWhole
  <2>10. ShadowRight'
    <3>1. ASSUME L.type # "shadow" PROVE images'.shadow = noImage \/ ShadowWhole'
      <4>1. images'.shadow = images.shadow
        BY <2>3, <3>1 DEF LayerTypes
      <4>2. CASE layer = 1
        BY <1>1, <4>1, <4>2 DEF ShadowRight
      <4>3. CASE layer # 1
        <5>1. images'.graphic = images.graphic
          BY <1>2, <2>3, <4>3 DEF LayerTypes
        <5> QED
          BY <1>3, <4>1, <5>1, ShadowStays
      <4> QED
        BY <4>2, <4>3
    <3>2. layer = 1 => images'.shadow = noImage
      <4>1. layer = 1 => images'.shadow = images.shadow
        BY <1>2, <2>3 DEF LayerTypes
      <4> QED
        BY <1>1, <4>1 DEF ShadowRight
    <3> QED
      BY <2>1, <2>5, <3>1, <3>2 DEF ShadowRight, ReadingRows
  <2> QED
    BY <2>4, <2>6, <2>7, <2>8, <2>9, <2>10
<1> QED
  BY <1>4, <1>5

\* h is g with an outline over some of its pixels.
Repainted(h, g) ==
    /\ h \in LayerImages("graphic") /\ SameSize(h, g) /\ Rectangular(h)
    /\ DOMAIN h.rows = 1 .. g.height
    /\ \A y \in 1 .. g.height :
         /\ DOMAIN h.rows[y] = 1 .. g.width
         /\ \A x \in 1 .. g.width :
              /\ h.rows[y][x][2] = g.rows[y][x][2]
              /\ \E a \in {0, 254, 255} :
                   g.rows[y][x][1] = a /\ h.rows[y][x][1] \in {a, Outlined(a)}

\* An outline is painted over some pixels; it hides none and covers none.
LEMMA OutlinePainted ==
    ASSUME NEW g \in LayerImages("graphic"), Rectangular(g), NEW o,
           \A y \in 1 .. g.height : g.rows[y] \in Seq(DrawnPixels("graphic"))
    PROVE  Repainted(WithOutline(g, o), g)
<1> DEFINE h == WithOutline(g, o)
           cover(x, y) == Inside(o, Across(g, o, <<x - 1, y - 1>>)) /\ At(o, Across(g, o, <<x - 1, y - 1>>)) = 255
           pixel(x, y) == IF cover(x, y) THEN <<Outlined(g.rows[y][x][1]), g.rows[y][x][2]>> ELSE g.rows[y][x]
           line(y) == [x \in DOMAIN g.rows[y] |-> pixel(x, y)]
<1>1. h = [g EXCEPT !.rows = [y \in DOMAIN g.rows |-> line(y)]]
  BY DEF WithOutline
<1> HIDE DEF cover
<1>2. /\ g.width \in Nat /\ g.height \in Nat /\ g.rows \in Seq(Seq(LaterPixels("graphic")))
      /\ DOMAIN g.rows = 1 .. g.height
      /\ \A y \in 1 .. g.height : DOMAIN g.rows[y] = 1 .. g.width
  <2>1. g.rows \in Seq(Seq(LaterPixels("graphic")))
    BY DEF LayerImages
  <2>2. g.width \in Nat /\ g.height \in Nat /\ Len(g.rows) = g.height
        /\ \A y \in 1 .. g.height : Len(g.rows[y]) = g.width
    BY DEF Rectangular
  <2>3. DOMAIN g.rows = 1 .. g.height
    BY <2>1, <2>2
  <2>4. \A y \in 1 .. g.height : g.rows[y] \in Seq(LaterPixels("graphic"))
    BY <2>1, <2>2, Elements
  <2> QED
    BY <2>1, <2>2, <2>3, <2>4
<1>3. ASSUME NEW y \in 1 .. g.height, NEW x \in 1 .. g.width
      PROVE  /\ pixel(x, y) \in LaterPixels("graphic")
             /\ pixel(x, y)[2] = g.rows[y][x][2]
             /\ \E a \in {0, 254, 255} : g.rows[y][x][1] = a /\ pixel(x, y)[1] \in {a, Outlined(a)}
  <2>1. g.rows[y][x] \in DrawnPixels("graphic")
    BY <1>2
  <2>2. PICK a \in {0, 254, 255}, i \in Nat : g.rows[y][x] = <<a, i>>
    <3> DEFINE p == g.rows[y][x]
    <3>1. p \in {0, 254, 255} \X Nat
      BY <2>1 DEF DrawnPixels
    <3> HIDE DEF p
    <3>2. \E a \in {0, 254, 255}, i \in Nat : p = <<a, i>>
      BY <3>1
    <3> QED
      BY <3>2 DEF p
  <2>3. pixel(x, y) = IF cover(x, y) THEN <<Outlined(a), i>> ELSE <<a, i>>
    BY <2>2
  <2>4. a \in {0, 1, 252, 253, 254, 255} /\ Outlined(a) \in {0, 1, 252, 253, 254, 255}
    BY DEF Outlined
  <2> HIDE DEF pixel
  <2> QED
    BY <2>2, <2>3, <2>4 DEF LaterPixels
<1> HIDE DEF pixel
<1>4. \A y \in 1 .. g.height : line(y) \in Seq(LaterPixels("graphic")) /\ Len(line(y)) = g.width
  <2> TAKE y \in 1 .. g.height
  <2>1. line(y) = [x \in 1 .. g.width |-> pixel(x, y)]
    BY <1>2
  <2> DEFINE w == g.width
             T == LaterPixels("graphic")
             f == [x \in 1 .. w |-> pixel(x, y)]
  <2>2. w \in Nat
    BY <1>2
  <2>3. f \in [1 .. w -> T]
    BY <1>3
  <2> HIDE DEF w, T, f
  <2>4. f \in Seq(T) /\ Len(f) = w
    BY <2>2, <2>3
  <2> QED
    BY <2>1, <2>4 DEF w, T, f
<1> DEFINE rows == [y \in DOMAIN g.rows |-> line(y)]
<1>5. \A y \in 1 .. g.height : line(y) = [x \in 1 .. g.width |-> pixel(x, y)]
  BY <1>2
<1> HIDE DEF line
<1>6. rows \in Seq(Seq(LaterPixels("graphic"))) /\ Len(rows) = g.height /\ DOMAIN rows = 1 .. g.height
      /\ \A y \in 1 .. g.height : rows[y] = line(y)
  <2> DEFINE T == Seq(LaterPixels("graphic"))
             n == g.height
  <2>1. rows = [y \in 1 .. n |-> line(y)] /\ n \in Nat
    BY <1>2
  <2>2. \A y \in 1 .. n : line(y) \in T
    BY <1>4
  <2> HIDE DEF rows, T, n
  <2>3. rows \in Seq(T) /\ Len(rows) = n /\ DOMAIN rows = 1 .. n /\ \A y \in 1 .. n : rows[y] = line(y)
    BY <2>1, <2>2
  <2> QED
    BY <2>3 DEF T, n
<1>7. h = [g EXCEPT !.rows = rows]
  BY <1>1
<1> HIDE DEF rows, h
<1>8. h \in LayerImages("graphic") /\ h.rows = rows /\ h.width = g.width /\ h.height = g.height
      /\ h.x = g.x /\ h.y = g.y
  BY <1>6, <1>7 DEF LayerImages
<1>9. SameSize(h, g) /\ Rectangular(h)
  BY <1>2, <1>4, <1>6, <1>8 DEF SameSize, Rectangular
<1>10. \A y \in 1 .. g.height :
          /\ DOMAIN h.rows[y] = 1 .. g.width
          /\ \A x \in 1 .. g.width : h.rows[y][x] = pixel(x, y)
  BY <1>5, <1>6, <1>8
<1>11. \A y \in 1 .. g.height : \A x \in 1 .. g.width :
          /\ h.rows[y][x][2] = g.rows[y][x][2]
          /\ \E a \in {0, 254, 255} : g.rows[y][x][1] = a /\ h.rows[y][x][1] \in {a, Outlined(a)}
  BY <1>3, <1>10
<1> QED
  BY <1>6, <1>8, <1>9, <1>10, <1>11 DEF h, Repainted

\* So it shows the same pixels, in an empty border at most itself, and is as opaque.
LEMMA OutlineKeeps ==
    ASSUME NEW g \in LayerImages("graphic"), Rectangular(g), NEW o,
           \A y \in 1 .. g.height : g.rows[y] \in Seq(DrawnPixels("graphic"))
    PROVE  LET h == WithOutline(g, o)
           IN  /\ h \in LayerImages("graphic") /\ SameSize(h, g) /\ Rectangular(h)
               /\ Shown(h.rows) = Shown(g.rows)
               /\ EmptyBorder(g.rows, g.width, g.height) => EmptyBorder(h.rows, h.width, h.height)
               /\ \A q \in Int \X Int : Inside(g, q) => (Opaque(h, q) <=> Opaque(g, q))
<1> DEFINE h == WithOutline(g, o)
<1>1. /\ h \in LayerImages("graphic") /\ SameSize(h, g) /\ Rectangular(h)
      /\ DOMAIN h.rows = 1 .. g.height
      /\ \A y \in 1 .. g.height :
           /\ DOMAIN h.rows[y] = 1 .. g.width
           /\ \A x \in 1 .. g.width :
                /\ h.rows[y][x][2] = g.rows[y][x][2]
                /\ \E a \in {0, 254, 255} :
                     g.rows[y][x][1] = a /\ h.rows[y][x][1] \in {a, Outlined(a)}
  <2>1. Repainted(h, g)
    BY OutlinePainted
  <2> HIDE DEF h
  <2> QED
    BY <2>1 DEF Repainted
<1> HIDE DEF h
<1>2. /\ g.width \in Nat /\ g.height \in Nat /\ DOMAIN g.rows = 1 .. g.height
      /\ \A y \in 1 .. g.height : DOMAIN g.rows[y] = 1 .. g.width
  <2>1. g.rows \in Seq(Seq(LaterPixels("graphic")))
    BY DEF LayerImages
  <2>2. g.width \in Nat /\ g.height \in Nat /\ Len(g.rows) = g.height
        /\ \A y \in 1 .. g.height : Len(g.rows[y]) = g.width
    BY DEF Rectangular
  <2>3. DOMAIN g.rows = 1 .. g.height
    BY <2>1, <2>2
  <2>4. \A y \in 1 .. g.height : g.rows[y] \in Seq(LaterPixels("graphic"))
    BY <2>1, <2>2, Elements
  <2> QED
    BY <2>2, <2>3, <2>4
<1>3. ASSUME NEW y \in 1 .. g.height, NEW x \in 1 .. g.width
      PROVE  /\ h.rows[y][x][1] >= 252 <=> g.rows[y][x][1] >= 252
             /\ h.rows[y][x][1] >= 127 <=> g.rows[y][x][1] >= 127
             /\ g.rows[y][x][1] \in 0 .. 1 => h.rows[y][x][1] \in 0 .. 1
  <2>1. PICK a \in {0, 254, 255} : g.rows[y][x][1] = a /\ h.rows[y][x][1] \in {a, Outlined(a)}
    BY <1>1
  <2>2. Outlined(a) = IF a = 0 THEN 1 ELSE IF a = 255 THEN 253 ELSE 252
    BY DEF Outlined
  <2> QED
    BY <2>1, <2>2
<1>4. Shown(h.rows) = Shown(g.rows)
  <2>1. \A y \in 1 .. g.height : VisibleIn(y, h.rows[y]) = VisibleIn(y, g.rows[y])
    <3> TAKE y \in 1 .. g.height
    <3> DEFINE S == {i \in 1 .. g.width : g.rows[y][i][1] >= 252}
    <3>1. {i \in DOMAIN h.rows[y] : h.rows[y][i][1] >= 252} = S
          /\ {i \in DOMAIN g.rows[y] : g.rows[y][i][1] >= 252} = S
      BY <1>1, <1>2, <1>3
    <3>2. \A i \in S : h.rows[y][i][2] = g.rows[y][i][2]
      BY <1>1
    <3> QED
      BY <3>1, <3>2 DEF VisibleIn
  <2>2. \A s : s \in Shown(h.rows) <=> s \in Shown(g.rows)
    BY <1>1, <1>2, <2>1, ShownMember
  <2> QED
    BY <2>2
<1>5. EmptyBorder(g.rows, g.width, g.height) => EmptyBorder(h.rows, h.width, h.height)
  BY <1>1, <1>2, <1>3 DEF EmptyBorder, SameSize
<1>6. ASSUME NEW q \in Int \X Int, Inside(g, q) PROVE Opaque(h, q) <=> Opaque(g, q)
  <2>1. q[2] + 1 \in 1 .. g.height /\ q[1] + 1 \in 1 .. g.width
    BY <1>2, <1>6 DEF Inside
  <2> QED
    BY <1>3, <2>1 DEF Opaque, At
<1> QED
  BY <1>1, <1>4, <1>5, <1>6 DEF h

\* When the last row was read, the image is whole: the graphic, the outline drawn into it, or
\* the shadow that is yet to be inpainted.
LEMMA EndLayerKeeps ==
    ASSUME LayersInv, EndLayer
    PROVE  LayersInv'
<1> USE DEF LayersInv
<1>1. /\ reading = "row" /\ row = Image.height /\ frame' = frame
      /\ UNCHANGED <<row, out, next, run, ptr, decompressionState>>
  BY DEF EndLayer, readVars
<1>2. /\ layer \in 1 .. Len(frame.layers) /\ L.type \in LayerTypes /\ (layer = 1 <=> L.type = "graphic")
      /\ L.width \in Nat /\ L.height \in Nat /\ BorderOf(L) \in {0, 1}
      /\ L = frame.layers[layer]
  BY <1>1, LayerFacts DEF L
<1>3. /\ Image.width = L.width + 2 * BorderOf(L) /\ Image.height = L.height + 2 * BorderOf(L)
      /\ row \in 0 .. Image.height /\ Len(Image.rows) = row
      /\ \A y \in 1 .. row : Len(Image.rows[y]) = Image.width
      /\ out = <<>>
  BY <1>1 DEF RowsRead, ReadingRows
<1>4. Rectangular(Image)
  BY <1>1, <1>2, <1>3 DEF Rectangular
<1>5. Len(frame.layers) \in Nat
  BY <1>1, FileFacts
<1>6. CASE L.type = "graphic"
  <2>1. layer = 1 /\ Image = images.graphic
    BY <1>2, <1>6 DEF Image
  <2>2. images' = images /\ layer' = layer + 1 /\ reading' = NextLayer
    BY <1>6 DEF EndLayer
  <2>3. ImagesTyped'
    BY <2>2 DEF ImagesTyped
  <2>4. images'.shadow = noImage
    BY <1>1, <2>1, <2>2 DEF ShadowRight
  <2> DEFINE R == images.graphic.rows
  <2>5. /\ \A y \in 1 .. row + 1 : RowsSoFar[y] \in Seq(DrawnPixels("graphic"))
        /\ frame.format = "SMX" => EmptyBorder(RowsSoFar, Image.width, Image.height)
        /\ ShownInOrder(Shown(RowsSoFar), L.colors)
    BY <1>1, <2>1 DEF GraphicRead, ReadingRows
  <2>6. R \in Seq(Seq(LaterPixels("graphic"))) /\ Len(R) = row /\ row \in Nat
    <3>1. R \in Seq(Seq(LaterPixels("graphic")))
      BY DEF ImagesTyped, LayerImages, LayerTypes
    <3> QED
      BY <1>2, <1>3, <2>1, <3>1
  <2> HIDE DEF R
  <2>7. RowsSoFar = Append(R, <<>>)
    BY <1>3 DEF RowsSoFar, R
  <2>8. /\ DOMAIN R = 1 .. row /\ DOMAIN RowsSoFar = 1 .. row + 1
        /\ \A y \in 1 .. row : y \in 1 .. row + 1 /\ RowsSoFar[y] = R[y]
    BY <2>6, <2>7
  <2>9. Shown(RowsSoFar) = Shown(R)
    <3>1. <<>> \in Seq(LaterPixels("graphic"))
      OBVIOUS
    <3>2. Shown(Append(R, <<>>)) = Shown(R) \cup VisibleIn(Len(R) + 1, <<>>)
      BY <2>6, <3>1, ShownAppend
    <3>3. VisibleIn(Len(R) + 1, <<>>) = {}
      BY DEF VisibleIn
    <3> QED
      BY <2>7, <3>2, <3>3
  <2>10. frame.format = "SMX" => EmptyBorder(R, Image.width, Image.height)
    BY <2>5, <2>8 DEF EmptyBorder
  <2>11. \A y \in 1 .. row : R[y] \in Seq(DrawnPixels("graphic"))
    BY <2>5, <2>8
  <2>12. GraphicWhole'
    BY <1>1, <1>2, <1>4, <2>1, <2>2, <2>5, <2>9, <2>10, <2>11 DEF GraphicWhole, R
  <2> QED
    BY <1>1, <2>2, <2>3, <2>4, <2>12, NextLayerKeeps
<1>7. CASE L.type = "shadow"
  <2>1. layer > 1 /\ Image = images.shadow
    BY <1>2, <1>7 DEF Image
  <2>2. images' = images
    BY <1>7 DEF EndLayer
  <2>3. ImagesTyped'
    BY <2>2 DEF ImagesTyped
  <2>4. CASE Image.width > 0 /\ Image.height > 0
    <3>1. reading' = "inpaint" /\ cursor' = <<0, 0>> /\ layer' = layer
      BY <1>7, <2>4 DEF EndLayer
    <3>2. LayerControl'
      BY <1>1, <3>1 DEF LayerControl
    <3>3. GraphicWhole'
      <4>1. OutlineFollows' <=> OutlineFollows
        BY <1>1, <3>1 DEF OutlineFollows
      <4> QED
        BY <1>1, <2>1, <2>2, <3>1, <4>1 DEF GraphicWhole
    <3>4. ShadowInpainted'
      <4>1. L' = L
        BY <1>1, <3>1 DEF L
      <4>2. cursor' \in PixelsOf(images.shadow)
        <5> DEFINE w == images.shadow.width
                   h == images.shadow.height
        <5>1. w \in Nat /\ h \in Nat /\ w > 0 /\ h > 0
          BY <1>2, <1>3, <2>1, <2>4
        <5> HIDE DEF w, h
        <5>2. 0 \in 0 .. w - 1 /\ 0 \in 0 .. h - 1
          BY <5>1
        <5> QED
          BY <3>1, <5>2 DEF PixelsOf, w, h
      <4>3. \A p \in PixelsOf(images.shadow) : ~ (p[2] < 0 \/ (p[2] = 0 /\ p[1] < 0))
        BY DEF PixelsOf
      <4>4. cursor'[1] = 0 /\ cursor'[2] = 0
        BY <3>1
      <4> QED
        BY <1>4, <1>7, <2>1, <2>2, <3>1, <4>1, <4>2, <4>3, <4>4 DEF ShadowInpainted
    <3>5. ShadowRight'
      BY <2>1, <3>1, <3>4 DEF ShadowRight
    <3> QED
      BY <2>3, <3>1, <3>2, <3>3, <3>5 DEF RowsRead, GraphicRead, ReadingRows
  <2>5. CASE ~ (Image.width > 0 /\ Image.height > 0)
    <3>1. reading' = NextLayer /\ layer' = layer + 1
      BY <1>7, <2>5 DEF EndLayer
    <3>2. GraphicWhole'
      <4>1. OutlineFollows' => OutlineFollows
        BY <1>1, <1>2, <3>1 DEF OutlineFollows
      <4> QED
        BY <1>1, <2>1, <2>2, <3>1, <4>1 DEF GraphicWhole
    <3>3. PixelsOf(images.shadow) = {}
      <4> DEFINE w == images.shadow.width
                 h == images.shadow.height
      <4>1. w \in Nat /\ h \in Nat /\ ~ (w > 0 /\ h > 0)
        BY <1>2, <1>3, <2>1, <2>5
      <4> HIDE DEF w, h
      <4>2. 0 .. w - 1 = {} \/ 0 .. h - 1 = {}
        BY <4>1
      <4> QED
        BY <4>2 DEF PixelsOf, w, h
    <3>4. ShadowWhole'
      BY <1>4, <2>1, <2>2, <3>3 DEF ShadowWhole
    <3> QED
      BY <1>1, <2>3, <3>1, <3>2, <3>4, NextLayerKeeps
  <2> QED
    BY <2>4, <2>5
<1>8. CASE L.type = "outline"
  <2> DEFINE g == images.graphic
             h == WithOutline(g, images.outline)
  <2>1. /\ layer > 1 /\ images' = [images EXCEPT !.graphic = h]
        /\ layer' = layer + 1 /\ reading' = NextLayer
    BY <1>2, <1>8 DEF EndLayer
  <2>2. OutlineFollows
    <3>1. layer \in layer .. Len(frame.layers)
      BY <1>2, <1>5
    <3> QED
      BY <1>2, <1>8, <3>1 DEF OutlineFollows
  <2>3. /\ Rectangular(g) /\ \A y \in 1 .. g.height : g.rows[y] \in Seq(DrawnPixels("graphic"))
        /\ frame.format = "SMX" => EmptyBorder(g.rows, g.width, g.height)
        /\ ShownInOrder(Shown(g.rows), frame.layers[1].colors)
    BY <1>1, <2>1, <2>2 DEF GraphicWhole
  <2>4. g \in LayerImages("graphic") /\ images = [t \in LayerTypes |-> images[t]]
        /\ \A t \in LayerTypes : images[t] \in LayerImages(t)
    BY DEF ImagesTyped, LayerTypes
  <2>5. /\ h \in LayerImages("graphic") /\ SameSize(h, g) /\ Rectangular(h)
        /\ Shown(h.rows) = Shown(g.rows)
        /\ EmptyBorder(g.rows, g.width, g.height) => EmptyBorder(h.rows, h.width, h.height)
        /\ \A q \in Int \X Int : Inside(g, q) => (Opaque(h, q) <=> Opaque(g, q))
    <3> HIDE DEF g
    <3> QED
      BY <2>3, <2>4, OutlineKeeps
  <2> HIDE DEF h
  <2>6. images'.graphic = h /\ \A t \in LayerTypes \ {"graphic"} : images'[t] = images[t]
    BY <2>1, <2>4 DEF LayerTypes
  <2>7. ImagesTyped'
    <3>1. images' = [t \in LayerTypes |-> images'[t]]
      BY <2>1, <2>4
    <3>2. \A t \in LayerTypes : images'[t] \in LayerImages(t)
      BY <2>4, <2>5, <2>6
    <3> QED
      BY <3>1, <3>2 DEF ImagesTyped
  <2>8. ~OutlineFollows'
    <3>1. SUFFICES ASSUME NEW i \in layer + 1 .. Len(frame.layers), frame.layers[i].type = "outline"
                   PROVE  FALSE
      BY <1>1, <2>1 DEF OutlineFollows
    <3>2. i \in 1 .. Len(frame.layers) /\ i # layer
      BY <1>2, <1>5
    <3> QED
      BY <1>1, <1>2, <1>8, <3>1, <3>2, FileFacts
  <2>9. GraphicWhole'
    BY <1>1, <2>3, <2>5, <2>6, <2>8 DEF GraphicWhole
  <2>10. images'.shadow = noImage \/ ShadowWhole'
    <3> DEFINE s == images.shadow
    <3>1. s = noImage \/ ShadowWhole
      BY <1>1, <1>8 DEF ShadowRight, ReadingRows
    <3>2. images'.shadow = s
      BY <2>6 DEF LayerTypes
    <3>3. ASSUME ShadowWhole PROVE ShadowWhole'
      <4>1. s.x \in Int /\ s.y \in Int /\ g.x \in Int /\ g.y \in Int /\ s.width \in Int /\ s.height \in Int
        BY <2>4 DEF LayerImages, LayerTypes
      <4>2. \A p \in PixelsOf(s) : p \in Int \X Int
        BY <4>1 DEF PixelsOf
      <4>3. SameSize(s, s)
        BY DEF SameSize
      <4>4. Rectangular(s) /\ \A p \in PixelsOf(s) : Blended(s, g, p)
        BY <3>3 DEF ShadowWhole
      <4> HIDE DEF s, g
      <4>5. \A p \in PixelsOf(s) : Blended(s, h, p)
        BY <2>5, <4>1, <4>2, <4>3, <4>4, StaysBlended
      <4> QED
        BY <2>6, <3>2, <4>4, <4>5 DEF ShadowWhole
    <3> QED
      BY <3>1, <3>2, <3>3
  <2> QED
    BY <1>1, <2>1, <2>7, <2>9, <2>10, NextLayerKeeps
<1> QED
  BY <1>2, <1>6, <1>7, <1>8 DEF LayerTypes

\* The mean of natural numbers is one.
LEMMA Rounded ==
    ASSUME NEW sum \in Nat, NEW n \in Nat \ {0}
    PROVE  (2 * sum + n) \div (2 * n) \in Nat
<1>1. 2 * sum + n \in Nat /\ 2 * n \in Nat \ {0}
  OBVIOUS
<1>2. \A a \in Nat, m \in Nat \ {0} : a \div m \in Nat
  OBVIOUS
<1> QED
  BY <1>1, <1>2

\* The mean of alpha values is one.
LEMMA MeanIsNatural ==
    ASSUME NEW s, NEW S, IsFiniteSet(S), S # {}, \A q \in S : At(s, q) \in Nat
    PROVE  Mean(s, S) \in Nat
<1> DEFINE w == [q \in S |-> At(s, q)]
           sum == MapThenSumSet(LAMBDA q : At(s, q), S)
           n == Cardinality(S)
<1>1. sum = Total(w, S)
  BY MeanSum
<1>2. Total(w, S) \in Nat
  <2>1. \A q \in S : w[q] \in Nat
    OBVIOUS
  <2> HIDE DEF w
  <2> QED
    BY <2>1, NaturalTotal
<1>3. n \in Nat \ {0}
  BY FS_CardinalityType, FS_EmptySet
<1>4. Mean(s, S) = (2 * sum + n) \div (2 * n)
  BY DEF Mean
<1>5. sum \in Nat
  BY <1>1, <1>2
<1> HIDE DEF sum, n
<1> QED
  BY <1>3, <1>4, <1>5, Rounded

\* One pixel of a shadow is painted.
LEMMA PaintedPixel ==
    ASSUME NEW s \in LayerImages("shadow"), Rectangular(s), NEW c \in PixelsOf(s), NEW v \in Nat
    PROVE  LET t == [s EXCEPT !.rows[c[2] + 1][c[1] + 1] = v]
           IN  /\ t \in LayerImages("shadow") /\ SameSize(t, s) /\ Rectangular(t)
               /\ At(t, c) = v
               /\ \A q \in Int \X Int : Inside(s, q) /\ q # c => At(t, q) = At(s, q)
<1> DEFINE y == c[2] + 1
           x == c[1] + 1
           line == [s.rows[y] EXCEPT ![x] = v]
           rows == [s.rows EXCEPT ![y] = line]
           t == [s EXCEPT !.rows[y][x] = v]
<1>1. s.rows \in Seq(Seq(Nat)) /\ s.width \in Nat /\ s.height \in Nat /\ Len(s.rows) = s.height
      /\ \A i \in 1 .. s.height : Len(s.rows[i]) = s.width
  BY DEF LayerImages, LaterPixels, Rectangular
<1>2. y \in 1 .. s.height /\ x \in 1 .. s.width /\ c[1] \in Int /\ c[2] \in Int /\ c = <<c[1], c[2]>>
  <2> DEFINE w == s.width
             h == s.height
  <2>1. w \in Nat /\ h \in Nat
    BY <1>1
  <2>2. c \in (0 .. w - 1) \X (0 .. h - 1)
    BY DEF PixelsOf
  <2> HIDE DEF w, h
  <2>3. c = <<c[1], c[2]>> /\ c[1] \in 0 .. w - 1 /\ c[2] \in 0 .. h - 1
    BY <2>2
  <2>4. y \in 1 .. h /\ x \in 1 .. w
    BY <2>1, <2>3
  <2> QED
    BY <2>1, <2>3, <2>4 DEF w, h
<1>3. t = [s EXCEPT !.rows = rows]
  OBVIOUS
<1>4. s.rows[y] \in Seq(Nat) /\ Len(s.rows[y]) = s.width
  BY <1>1, <1>2, Elements
<1> HIDE DEF y, x, t
<1>5. /\ line \in Seq(Nat) /\ Len(line) = s.width /\ line[x] = v
      /\ \A i \in 1 .. s.width : i # x => line[i] = s.rows[y][i]
  <2> DEFINE old == s.rows[y]
  <2>1. old \in Seq(Nat) /\ Len(old) = s.width /\ x \in 1 .. s.width
    BY <1>2, <1>4
  <2> HIDE DEF old
  <2>2. /\ [old EXCEPT ![x] = v] \in Seq(Nat) /\ Len([old EXCEPT ![x] = v]) = s.width
        /\ [old EXCEPT ![x] = v][x] = v
        /\ \A i \in 1 .. s.width : i # x => [old EXCEPT ![x] = v][i] = old[i]
    BY <2>1
  <2> QED
    BY <2>2 DEF old
<1> HIDE DEF line
<1>6. /\ rows \in Seq(Seq(Nat)) /\ Len(rows) = s.height /\ rows[y] = line
      /\ \A i \in 1 .. s.height : i # y => rows[i] = s.rows[i]
  <2> DEFINE N == Seq(Nat)
             old == s.rows
  <2>1. old \in Seq(N) /\ Len(old) = s.height /\ line \in N /\ y \in 1 .. s.height
    BY <1>1, <1>2, <1>5
  <2> HIDE DEF N, old
  <2>2. /\ [old EXCEPT ![y] = line] \in Seq(N) /\ Len([old EXCEPT ![y] = line]) = s.height
        /\ [old EXCEPT ![y] = line][y] = line
        /\ \A i \in 1 .. s.height : i # y => [old EXCEPT ![y] = line][i] = old[i]
    BY <2>1
  <2> QED
    BY <2>2 DEF old, N
<1> HIDE DEF rows
<1>7. /\ t \in LayerImages("shadow") /\ t.rows = rows /\ SameSize(t, s)
      /\ t.width = s.width /\ t.height = s.height
  BY <1>3, <1>6 DEF LayerImages, LaterPixels, SameSize
<1>8. Rectangular(t)
  BY <1>1, <1>5, <1>6, <1>7 DEF Rectangular
<1>9. At(t, c) = v
  BY <1>5, <1>6, <1>7 DEF At, x, y
<1>10. ASSUME NEW q \in Int \X Int, Inside(s, q), q # c PROVE At(t, q) = At(s, q)
  <2>1. q[2] + 1 \in 1 .. s.height /\ q[1] + 1 \in 1 .. s.width /\ q[1] \in Int /\ q[2] \in Int
    <3> DEFINE w == s.width
               h == s.height
    <3>1. w \in Nat /\ h \in Nat /\ q[1] \in 0 .. w - 1 /\ q[2] \in 0 .. h - 1
      BY <1>1, <1>10 DEF Inside
    <3> HIDE DEF w, h
    <3>2. q[2] + 1 \in 1 .. h /\ q[1] + 1 \in 1 .. w
      BY <3>1
    <3> QED
      BY <1>10, <3>2 DEF w, h
  <2>2. q[1] # c[1] \/ q[2] # c[2]
    BY <1>2, <1>10
  <2>3. CASE q[2] # c[2]
    <3>1. q[2] + 1 # y
      BY <1>2, <2>1, <2>3 DEF y
    <3> QED
      BY <1>6, <1>7, <2>1, <3>1 DEF At
  <2>4. CASE q[2] = c[2] /\ q[1] # c[1]
    <3>1. q[2] + 1 = y /\ q[1] + 1 # x
      BY <1>2, <2>1, <2>4 DEF x, y
    <3> QED
      BY <1>5, <1>6, <1>7, <2>1, <3>1 DEF At
  <2> QED
    BY <2>2, <2>3, <2>4
<1> QED
  BY <1>7, <1>8, <1>9, <1>10 DEF t, x, y

\* In place: the pixels that were painted stay blended, and the next one is.
LEMMA InpaintBlends ==
    ASSUME NEW s \in LayerImages("shadow"), NEW g, g.x \in Int, g.y \in Int, Rectangular(s),
           NEW c \in PixelsOf(s),
           Inside(g, Across(s, g, c)), Opaque(g, Across(s, g, c)), Uncovered(s, g, c) # {}
    PROVE  LET t == [s EXCEPT !.rows[c[2] + 1][c[1] + 1] = Mean(s, Uncovered(s, g, c))]
           IN  /\ t \in LayerImages("shadow") /\ SameSize(t, s) /\ Rectangular(t)
               /\ Blended(t, g, c)
               /\ \A p \in PixelsOf(s) : Blended(s, g, p) => Blended(t, g, p)
<1> DEFINE U == Uncovered(s, g, c)
           v == Mean(s, U)
           t == [s EXCEPT !.rows[c[2] + 1][c[1] + 1] = v]
<1>1. /\ s.width \in Nat /\ s.height \in Nat /\ s.x \in Int /\ s.y \in Int
      /\ s.rows \in Seq(Seq(Nat)) /\ Len(s.rows) = s.height
      /\ \A i \in 1 .. s.height : Len(s.rows[i]) = s.width
  BY DEF LayerImages, LaterPixels, Rectangular
<1>2. \A p \in PixelsOf(s) : p \in Int \X Int /\ Inside(s, p)
  BY <1>1 DEF PixelsOf, Inside
<1>3. \A q \in Int \X Int : Inside(s, q) => At(s, q) \in Nat
  <2> TAKE q \in Int \X Int
  <2>1. SUFFICES ASSUME Inside(s, q) PROVE At(s, q) \in Nat
    OBVIOUS
  <2>2. q[2] + 1 \in 1 .. s.height /\ q[1] + 1 \in 1 .. s.width
    <3> DEFINE w == s.width
               h == s.height
    <3>1. w \in Nat /\ h \in Nat /\ q[1] \in 0 .. w - 1 /\ q[2] \in 0 .. h - 1
      BY <1>1, <2>1 DEF Inside
    <3> HIDE DEF w, h
    <3>2. q[2] + 1 \in 1 .. h /\ q[1] + 1 \in 1 .. w
      BY <3>1
    <3> QED
      BY <3>2 DEF w, h
  <2>3. s.rows[q[2] + 1] \in Seq(Nat) /\ Len(s.rows[q[2] + 1]) = s.width
    BY <1>1, <2>2, Elements
  <2>4. s.rows[q[2] + 1][q[1] + 1] \in Nat
    BY <2>2, <2>3, Elements
  <2> QED
    BY <2>4 DEF At
<1>4. ASSUME NEW p \in Int \X Int, NEW q \in Uncovered(s, g, p)
      PROVE  q \in Int \X Int /\ Inside(s, q) /\ q # c
  BY DEF Uncovered
<1>5. v \in Nat
  <2>1. IsFiniteSet(U)
    BY <1>2, UncoveredFinite
  <2>2. \A q \in U : At(s, q) \in Nat
    BY <1>2, <1>3, <1>4
  <2> HIDE DEF U
  <2> QED
    BY <2>1, <2>2, MeanIsNatural DEF U
<1> HIDE DEF v
<1>6. /\ t \in LayerImages("shadow") /\ SameSize(t, s) /\ Rectangular(t) /\ At(t, c) = v
      /\ \A q \in Int \X Int : Inside(s, q) /\ q # c => At(t, q) = At(s, q)
  BY <1>5, PaintedPixel
<1> HIDE DEF t
<1>7. SameSize(g, g)
  BY DEF SameSize
<1>8. ASSUME NEW p \in PixelsOf(s), p # c, Blended(s, g, p) PROVE Blended(t, g, p)
  <2>1. p \in Int \X Int /\ Inside(s, p)
    BY <1>2
  <2>2. \A q \in Uncovered(s, g, p) \cup {p} : At(t, q) = At(s, q)
    BY <1>4, <1>6, <1>8, <2>1
  <2> QED
    BY <1>1, <1>6, <1>7, <1>8, <2>1, <2>2, StaysBlended
<1>9. Blended(t, g, c)
  <2>1. c \in Int \X Int
    BY <1>2
  <2>2. Uncovered(t, g, c) = U
    BY <1>6 DEF Uncovered, SameSize, Inside, Across
  <2>3. \A q \in U : At(t, q) = At(s, q)
    BY <1>4, <1>6, <2>1
  <2>4. Mean(t, U) = Mean(s, U)
    BY <2>1, <2>3, UncoveredFinite, SameMean
  <2> QED
    BY <1>6, <2>2, <2>4 DEF Blended, v
<1>10. \A p \in PixelsOf(s) : Blended(s, g, p) => Blended(t, g, p)
  BY <1>8, <1>9
<1> QED
  BY <1>6, <1>9, <1>10 DEF t, v, U

\* A step of the inpainting leaves the pixels before the cursor blended.
LEMMA InpaintKeeps ==
    ASSUME LayersInv, Inpaint
    PROVE  LayersInv'
<1> USE DEF LayersInv
<1> DEFINE s == images.shadow
           g == images.graphic
           c == cursor
           q == Across(s, g, c)
           beside == Uncovered(s, g, c)
           paint == Inside(g, q) /\ Opaque(g, q) /\ beside # {}
           t == [s EXCEPT !.rows[c[2] + 1][c[1] + 1] = Mean(s, beside)]
<1>1. /\ reading = "inpaint" /\ frame' = frame /\ UNCHANGED readVars
      /\ images' = IF paint THEN [images EXCEPT !.shadow.rows[c[2] + 1][c[1] + 1] = Mean(s, beside)]
                            ELSE images
      /\ cursor' = IF c[1] + 1 < s.width THEN <<c[1] + 1, c[2]>> ELSE <<0, c[2] + 1>>
      /\ IF cursor' = <<0, s.height>>
           THEN reading' = NextLayer /\ layer' = layer + 1
           ELSE reading' = reading /\ layer' = layer
  BY DEF Inpaint
<1>2. /\ layer > 1 /\ L.type = "shadow" /\ Rectangular(s) /\ c \in PixelsOf(s)
      /\ \A p \in PixelsOf(s) :
           p[2] < c[2] \/ (p[2] = c[2] /\ p[1] < c[1]) => Blended(s, g, p)
  BY <1>1 DEF ShadowRight, ShadowInpainted
<1>3. /\ images = [u \in LayerTypes |-> images[u]] /\ \A u \in LayerTypes : images[u] \in LayerImages(u)
      /\ s \in LayerImages("shadow") /\ g.x \in Int /\ g.y \in Int
  BY DEF ImagesTyped, LayerImages, LayerTypes
<1>4. s.width \in Nat /\ s.height \in Nat
  BY <1>2 DEF Rectangular
<1>5. c[1] \in 0 .. s.width - 1 /\ c[2] \in 0 .. s.height - 1
  BY <1>2 DEF PixelsOf
<1>6. \A p \in PixelsOf(s) : p[1] \in 0 .. s.width - 1 /\ p[2] \in 0 .. s.height - 1 /\ p = <<p[1], p[2]>>
  BY DEF PixelsOf
<1>7. /\ ImagesTyped' /\ images'.graphic = g /\ SameSize(images'.shadow, s) /\ Rectangular(images'.shadow)
      /\ Blended(images'.shadow, g, c)
      /\ \A p \in PixelsOf(s) : Blended(s, g, p) => Blended(images'.shadow, g, p)
  <2>1. CASE paint
    <3>1. /\ t \in LayerImages("shadow") /\ SameSize(t, s) /\ Rectangular(t) /\ Blended(t, g, c)
          /\ \A p \in PixelsOf(s) : Blended(s, g, p) => Blended(t, g, p)
      <4> HIDE DEF s, g, c
      <4> QED
        BY <1>2, <1>3, <2>1, InpaintBlends
    <3>2. images' = [images EXCEPT !.shadow = t]
      BY <1>1, <2>1
    <3> HIDE DEF t
    <3>3. images'.shadow = t /\ \A u \in LayerTypes \ {"shadow"} : images'[u] = images[u]
      BY <1>3, <3>2 DEF LayerTypes
    <3>4. ImagesTyped'
      <4>1. images' = [u \in LayerTypes |-> images'[u]]
        BY <1>3, <3>2
      <4>2. \A u \in LayerTypes : images'[u] \in LayerImages(u)
        BY <1>3, <3>1, <3>3
      <4> QED
        BY <4>1, <4>2 DEF ImagesTyped
    <3>5. images'.graphic = g
      BY <3>3 DEF LayerTypes
    <3> QED
      BY <3>1, <3>3, <3>4, <3>5
  <2>2. CASE ~paint
    <3>1. images' = images
      BY <1>1, <2>2
    <3>2. ImagesTyped'
      BY <3>1 DEF ImagesTyped
    <3>3. Blended(s, g, c)
      BY <2>2 DEF Blended
    <3> QED
      BY <1>2, <3>1, <3>2, <3>3 DEF SameSize
  <2> QED
    BY <2>1, <2>2
<1> DEFINE new == images'.shadow
<1>8. PixelsOf(new) = PixelsOf(s) /\ new.width = s.width /\ new.height = s.height
  BY <1>7 DEF SameSize, PixelsOf
<1> HIDE DEF s, g, c, paint, t
<1>9. \A p \in PixelsOf(s) :
         p[2] < c[2] \/ (p[2] = c[2] /\ p[1] <= c[1]) => Blended(new, g, p)
  <2> TAKE p \in PixelsOf(s)
  <2>1. CASE p[2] < c[2] \/ (p[2] = c[2] /\ p[1] < c[1])
    BY <1>2, <1>7, <2>1
  <2>2. CASE p[2] = c[2] /\ p[1] = c[1]
    <3>1. p = c
      BY <1>2, <1>6, <2>2
    <3> QED
      BY <1>7, <3>1
  <2>3. p[2] = c[2] /\ p[1] <= c[1] => p[1] < c[1] \/ p[1] = c[1]
    BY <1>5, <1>6
  <2> QED
    BY <2>1, <2>2, <2>3
<1> HIDE DEF new
<1>10. OutlineFollows' => OutlineFollows
  <2>1. layer' = layer \/ layer' = layer + 1
    BY <1>1
  <2>2. layer \in Nat
    BY <1>1, LayerFacts
  <2>3. Len(frame.layers) \in Nat
    BY <1>1, FileFacts
  <2> QED
    BY <1>1, <2>1, <2>2, <2>3 DEF OutlineFollows
<1>11. GraphicWhole'
  <2>1. layer' > 1
    BY <1>1, <1>2, LayerFacts
  <2> QED
    BY <1>1, <1>2, <1>7, <1>10, <2>1 DEF GraphicWhole, g
<1>12. CASE cursor' = <<0, s.height>>
  <2>1. c[1] = s.width - 1 /\ c[2] = s.height - 1
    BY <1>1, <1>4, <1>5, <1>12
  <2>2. \A p \in PixelsOf(s) : Blended(new, g, p)
    <3> TAKE p \in PixelsOf(s)
    <3>1. p[2] < c[2] \/ (p[2] = c[2] /\ p[1] <= c[1])
      BY <1>4, <1>6, <2>1
    <3> QED
      BY <1>9, <3>1
  <2>3. ShadowWhole'
    BY <1>7, <1>8, <2>2 DEF ShadowWhole, new
  <2> QED
    BY <1>1, <1>7, <1>11, <1>12, <2>3, NextLayerKeeps
<1>13. CASE cursor' # <<0, s.height>>
  <2>1. reading' = "inpaint" /\ layer' = layer
    BY <1>1, <1>13
  <2>2. L' = L
    BY <1>1, <2>1 DEF L
  <2>3. LayerControl'
    BY <1>1, <2>1 DEF LayerControl
  <2> DEFINE d == cursor'
  <2>4. \/ c[1] + 1 < s.width /\ d = <<c[1] + 1, c[2]>>
        \/ ~ (c[1] + 1 < s.width) /\ d = <<0, c[2] + 1>> /\ c[2] + 1 # s.height
    BY <1>1, <1>13
  <2> HIDE DEF d
  <2>5. /\ d \in PixelsOf(s)
        /\ \A p \in PixelsOf(s) : p[2] < d[2] \/ (p[2] = d[2] /\ p[1] < d[1])
             => p[2] < c[2] \/ (p[2] = c[2] /\ p[1] <= c[1])
    <3>1. CASE c[1] + 1 < s.width /\ d = <<c[1] + 1, c[2]>>
      <4>1. d[1] = c[1] + 1 /\ d[2] = c[2]
        BY <3>1
      <4>2. d \in PixelsOf(s)
        BY <1>4, <1>5, <3>1 DEF PixelsOf
      <4> QED
        BY <1>4, <1>5, <1>6, <4>1, <4>2
    <3>2. CASE ~ (c[1] + 1 < s.width) /\ d = <<0, c[2] + 1>> /\ c[2] + 1 # s.height
      <4>1. d[1] = 0 /\ d[2] = c[2] + 1 /\ c[1] = s.width - 1
        BY <1>4, <1>5, <3>2
      <4>2. d \in PixelsOf(s)
        BY <1>4, <1>5, <3>2 DEF PixelsOf
      <4> QED
        BY <1>4, <1>5, <1>6, <4>1, <4>2
    <3> QED
      BY <2>4, <3>1, <3>2
  <2>6. \A p \in PixelsOf(s) : p[2] < d[2] \/ (p[2] = d[2] /\ p[1] < d[1]) => Blended(new, g, p)
    BY <1>9, <2>5
  <2>7. ShadowInpainted'
    BY <1>2, <1>7, <1>8, <2>1, <2>2, <2>5, <2>6 DEF ShadowInpainted, new, d
  <2>8. ShadowRight'
    BY <1>2, <2>1, <2>7 DEF ShadowRight
  <2> QED
    BY <1>7, <1>11, <2>1, <2>3, <2>8 DEF RowsRead, GraphicRead, ReadingRows
<1> QED
  BY <1>12, <1>13

\* Every step keeps the invariant.
LEMMA LayersStep ==
    ASSUME LayersInv, [LayersNext]_layerVars
    PROVE  LayersInv'
<1>1. CASE Fail
  BY <1>1, FailedKeeps DEF Fail
<1>2. CASE UNCHANGED layerVars
  <2>1. /\ frame' = frame /\ reading' = reading /\ layer' = layer /\ images' = images /\ row' = row
        /\ out' = out /\ next' = next /\ run' = run /\ ptr' = ptr
        /\ decompressionState' = decompressionState /\ cursor' = cursor
    BY <1>2 DEF layerVars, readVars
  <2>2. L' = L /\ Image' = Image /\ RowsSoFar' = RowsSoFar /\ BorderOf(L)' = BorderOf(L) /\ RowEdges(L)' = RowEdges(L)
    BY <2>1 DEF L, Image, RowsSoFar, BorderOf, RowEdges
  <2>3. ImagesTyped' /\ LayerControl'
    BY <2>1 DEF LayersInv, ImagesTyped, LayerControl
  <2>4. RowsRead'
    BY <2>1, <2>2 DEF LayersInv, RowsRead, ReadingRows
  <2>5. GraphicRead'
    <3>1. Position(Cardinality(Shown(RowsSoFar)))' <=> Position(Cardinality(Shown(RowsSoFar)))
      BY <2>1, <2>2 DEF Position
    <3> QED
      BY <2>1, <2>2, <3>1 DEF LayersInv, GraphicRead, ReadingRows
  <2>6. GraphicWhole'
    BY <2>1 DEF LayersInv, GraphicWhole, OutlineFollows
  <2>7. ShadowRight'
    BY <2>1, <2>2 DEF LayersInv, ShadowRight, ShadowWhole, ShadowInpainted, ReadingRows
  <2> QED
    BY <2>3, <2>4, <2>5, <2>6, <2>7 DEF LayersInv
<1> QED
  BY <1>1, <1>2, PaletteKeeps, ReadLayerKeeps, BeginRowKeeps, CommandKeeps, DrawPixelKeeps,
     EndLayerKeeps, InpaintKeeps DEF LayersNext

\* The invariant holds at the start.
LEMMA LayersStart ==
    ASSUME LayersInit
    PROVE  LayersInv
<1>1. /\ frame \in Frames /\ reading = "palette" /\ layer = 1
      /\ images = [t \in LayerTypes |-> noImage]
  BY DEF LayersInit, LayerTypes
<1>2. ImagesTyped
  <2>1. \A t \in LayerTypes : noImage \in LayerImages(t)
    BY DEF noImage, LayerImages
  <2> QED
    BY <1>1, <2>1 DEF ImagesTyped
<1>3. images.shadow = noImage
  BY <1>1 DEF LayerTypes
<1> QED
  BY <1>1, <1>2, <1>3 DEF LayersInv, LayerControl, RowsRead, GraphicRead, GraphicWhole, ShadowRight, ReadingRows

\* At the end the images are what is promised.
LEMMA LayersDone ==
    ASSUME LayersInv
    PROVE  LayersCombine
<1> SUFFICES ASSUME reading = "done" PROVE LayersCombine
  BY DEF LayersCombine
<1> DEFINE g == images.graphic
           s == images.shadow
<1>1. layer > 1
  BY FileFacts DEF LayersInv, LayerControl
<1>2. /\ Rectangular(g) /\ ShownInOrder(Shown(g.rows), frame.layers[1].colors)
      /\ frame.format = "SMX" => EmptyBorder(g.rows, g.width, g.height)
  BY <1>1 DEF LayersInv, GraphicWhole
<1>3. s = noImage \/ ShadowWhole
  BY DEF LayersInv, ShadowRight, ReadingRows
<1>4. ASSUME frame.format = "SMX", NEW p \in GraphicPixels,
             p[1] \in {0, g.width - 1} \/ p[2] \in {0, g.height - 1}
      PROVE  At(g, p)[1] \in 0 .. 1
  <2>1. g.rows \in Seq(Seq(LaterPixels("graphic")))
    BY DEF LayersInv, ImagesTyped, LayerImages, LayerTypes
  <2>2. g.width \in Nat /\ g.height \in Nat /\ Len(g.rows) = g.height
        /\ \A y \in 1 .. g.height : Len(g.rows[y]) = g.width
    BY <1>2 DEF Rectangular
  <2>3. p[1] \in 0 .. g.width - 1 /\ p[2] \in 0 .. g.height - 1
    BY DEF GraphicPixels, Inside
  <2> DEFINE x == p[1] + 1
             y == p[2] + 1
  <2>4. y \in 1 .. g.height /\ x \in 1 .. g.width /\ (x \in {1, g.width} \/ y \in {1, g.height})
    <3> DEFINE w == g.width
               h == g.height
    <3>1. w \in Nat /\ h \in Nat /\ p[1] \in 0 .. w - 1 /\ p[2] \in 0 .. h - 1
          /\ (p[1] = 0 \/ p[1] = w - 1 \/ p[2] = 0 \/ p[2] = h - 1)
      BY <1>4, <2>2, <2>3
    <3> HIDE DEF w, h
    <3>2. y \in 1 .. h /\ x \in 1 .. w
      BY <3>1
    <3>3. x = 1 \/ x = w \/ y = 1 \/ y = h
      BY <3>1
    <3> QED
      BY <3>2, <3>3 DEF w, h
  <2>5. y \in DOMAIN g.rows /\ x \in DOMAIN g.rows[y]
    BY <2>1, <2>2, <2>4, Elements
  <2> HIDE DEF x, y
  <2>6. g.rows[y][x][1] \in 0 .. 1
    BY <1>2, <1>4, <2>4, <2>5 DEF EmptyBorder
  <2> QED
    BY <2>6 DEF At, x, y
<1>5. ASSUME s # noImage
      PROVE  \A p \in (0 .. s.width - 1) \X (0 .. s.height - 1) : Blended(s, g, p)
  BY <1>3, <1>5 DEF ShadowWhole, PixelsOf
<1> QED
  BY <1>2, <1>4, <1>5 DEF LayersCombine, Blended, Uncovered

\* The layers of every file are combined as the original ones: the colors are those that were
\* compressed, in their order and in their places, the border stays empty, and the shadow behind
\* the graphic is made of the shadow beside it alone.
THEOREM LayersAlwaysCombine == LayersSpec => []LayersCombine
<1>1. LayersInit => LayersInv
  BY LayersStart
<1>2. LayersInv /\ [LayersNext]_layerVars => LayersInv'
  BY LayersStep
<1>3. LayersInv => LayersCombine
  BY LayersDone
<1> QED
  BY <1>1, <1>2, <1>3, PTL DEF LayersSpec
=============================================================================
