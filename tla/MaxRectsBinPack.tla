-------------------------- MODULE MaxRectsBinPack --------------------------
(***************************************************************************)
(* The operations of a MaxRectsBinPack (src/RectangleBinPack): rectangles  *)
(* are inserted one by one, or many at once into an empty bin.             *)
(***************************************************************************)
EXTENDS MaxRects

CONSTANTS
    Bins,    \* the bins that are packed: records of Init's arguments
    Sizes,   \* the sizes that are inserted: pairs <<width, height>>
    Methods, \* subset of the FreeRectChoiceHeuristics, see Score
    MaxUsed  \* bound on the rectangles of one bin

ASSUME BinAssumption ==
    /\ Bins \subseteq [width : Nat \ {0}, height : Nat \ {0}, allowFlip : BOOLEAN]
    /\ Sizes \subseteq (Nat \ {0}) \X (Nat \ {0})
    /\ Methods \subseteq {"BottomLeft", "BestShortSide", "BestLongSide", "BestArea", "ContactPoint"}
    /\ MaxUsed \in Nat

VARIABLES
    packer,   \* the bin and its freeRectangles and usedRectangles
    insertion \* the running Insert of many rectangles

binVars == <<packer, insertion>>
idle    == Insertion(<<>>, <<>>, "none")

BinInit == packer \in {Empty(bin) : bin \in Bins} /\ insertion = idle

\* Insert of one rectangle: nothing happens if it does not fit.
Insert(size, method) ==
    /\ insertion = idle /\ Len(packer.used) < MaxUsed
    /\ LET placements == Placements(packer, <<size>>, method)
       IN  /\ placements # {}
           /\ packer' = PlaceRect(packer, BestPlacement(placements).rect)
    /\ UNCHANGED insertion

StartInsert(sizes, method) ==
    /\ insertion = idle /\ packer.used = <<>>
    /\ insertion' = Insertion(packer, sizes, method)
    /\ UNCHANGED packer

InsertBest ==
    /\ insertion # idle /\ ~Ended(insertion)
    /\ insertion' = Round(insertion)
    /\ packer' = insertion'.packer

EndInsert ==
    /\ insertion # idle /\ Ended(insertion)
    /\ insertion' = idle
    /\ UNCHANGED packer

InsertOne == \E size \in Sizes, method \in Methods : Insert(size, method)
InsertMany ==
    \E n \in 1 .. MaxUsed, method \in Methods : \E sizes \in [1 .. n -> Sizes] :
      StartInsert(sizes, method)

BinNext == InsertOne \/ InsertMany \/ InsertBest \/ EndInsert

BinSpec == BinInit /\ [][BinNext]_binVars
-----------------------------------------------------------------------------
Everywhere(bin) ==
    {r \in [x : 0 .. bin.width - 1, y : 0 .. bin.height - 1,
            width : 1 .. bin.width, height : 1 .. bin.height] :
       Right(r) <= bin.width /\ Bottom(r) <= bin.height}

\* What the name of the class promises, after any number of splits and prunings
\* by any heuristic: the used rectangles are disjoint and inside the bin, and the
\* list holds exactly the maximal free rectangles, each once, so that whatever
\* still fits into the bin somewhere is placed.
FreeListExact ==
    LET used  == packer.used
        empty == {r \in Everywhere(packer.bin) :
                    \A i \in DOMAIN used : Disjoint(r, used[i])}
        maximal == {r \in empty : \A s \in empty : IsContainedIn(r, s) => s = r}
    IN  /\ ToSet(used) \subseteq Everywhere(packer.bin)
        /\ \A i, j \in DOMAIN used : i < j => Disjoint(used[i], used[j])
        /\ ToSet(packer.free) = maximal
        /\ Len(packer.free) = Cardinality(maximal)
=============================================================================
