----------------------------- MODULE PlayerStats -----------------------------
(***************************************************************************)
(* The counters a PlayerStats object keeps for one player                  *)
(* (src/FreeAge/common/player.hpp and player.cpp).  Client and server both *)
(* hold one per player and update it incrementally; nothing ever recounts. *)
(* A counter record is a value here: every operator returns the record     *)
(* after the call of the same name.                                        *)
(*                                                                         *)
(* unitsDied and buildingExisted are only written and logged, never read   *)
(* by the game logic, and are left out.                                    *)
(***************************************************************************)
EXTENDS Integers

(***************************************************************************)
(* One representative per behaviour: the two genders of a villager behave  *)
(* alike, and of the five gatherer variants the lumberjack is kept.        *)
(***************************************************************************)
VillagerTypes == {"Villager", "Builder", "Lumberjack"}
UnitTypes     == VillagerTypes \cup {"Militia"}
BuildingTypes == {"TownCenter", "House", "Barracks", "Tree"}

CONSTANT
    PopulationSpace     \* [BuildingTypes -> Nat], GetBuildingProvidedPopulationSpace

ASSUME PopulationSpaceAssumption == PopulationSpace \in [BuildingTypes -> Nat]

Stats == [population   : Int,                    \* populationCount
          villagers    : Int,                    \* villagerCount
          unitsAlive   : [UnitTypes -> Int],
          space        : Int,                    \* availablePopulationSpace
          constructing : [BuildingTypes -> Int], \* buildingConstructions
          standing     : [BuildingTypes -> Int], \* buildingAlive
          inProduction : Int]                    \* populationInProduction

(***************************************************************************)
(* Core methods.                                                           *)
(***************************************************************************)
UnfinishedBuildingChange(s, t, d) == [s EXCEPT !.constructing[t] = @ + d]

FinishedBuildingChange(s, t, d) ==
    [s EXCEPT !.standing[t] = @ + d,
              !.space       = @ + d * PopulationSpace[t]]

UnitChange(s, t, d) ==
    [s EXCEPT !.population    = @ + d,
              !.unitsAlive[t] = @ + d,
              !.villagers     = IF t \in VillagerTypes THEN @ + d ELSE @]

(***************************************************************************)
(* Interface methods.                                                      *)
(***************************************************************************)
BuildingAdded(s, t, finished) ==
    IF finished THEN FinishedBuildingChange(s, t, 1)
                ELSE UnfinishedBuildingChange(s, t, 1)

BuildingRemoved(s, t, finished) ==
    IF finished THEN FinishedBuildingChange(s, t, -1)
                ELSE UnfinishedBuildingChange(s, t, -1)

\* Mutant: the construction site is not taken off.
BuildingFinishedOnTop(s, t) == FinishedBuildingChange(s, t, 1)

BuildingFinished(s, t) ==
    FinishedBuildingChange(UnfinishedBuildingChange(s, t, -1), t, 1)

UnitAdded(s, t)   == UnitChange(s, t, 1)

UnitRemoved(s, t) == UnitChange(s, t, -1)

UnitTransformed(s, from, to) == UnitChange(UnitChange(s, from, -1), to, 1)

InProductionChange(s, d) == [s EXCEPT !.inProduction = @ + d]

PopulationIncludingInProduction(s) == s.population + s.inProduction

BuildingTypeCount(s, t) == s.constructing[t] + s.standing[t]
=============================================================================
