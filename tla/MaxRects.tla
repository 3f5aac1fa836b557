------------------------------ MODULE MaxRects ------------------------------
(***************************************************************************)
(* MaxRectsBinPack (src/RectangleBinPack): packs rectangles into a bin and *)
(* keeps the list of all maximal free rectangles.  Its calls are actions   *)
(* of MaxRectsBinPack; SpriteAtlas packs the frames of a sprite with it.   *)
(***************************************************************************)
EXTENDS Integers, Sequences, FiniteSets, FiniteSetsExt, SequencesExt

Rect(x, y, w, h) == [x |-> x, y |-> y, width |-> w, height |-> h]
Right(r)  == r.x + r.width
Bottom(r) == r.y + r.height

Empty(bin) ==
    [bin |-> bin, free |-> <<Rect(0, 0, bin.width, bin.height)>>, used |-> <<>>]

Lesser(a, b)  == IF a < b THEN a ELSE b
Greater(a, b) == IF a > b THEN a ELSE b

\* The length of the common part of two intervals.
CommonIntervalLength(a, b) ==
    IF a[2] < b[1] \/ b[2] < a[1] THEN 0
    ELSE Lesser(a[2], b[2]) - Greater(a[1], b[1])

\* How much of the border of r touches that of a used rectangle.
Contact(u, r) ==
    (IF u.x = Right(r) \/ Right(u) = r.x
       THEN CommonIntervalLength(<<u.y, Bottom(u)>>, <<r.y, Bottom(r)>>) ELSE 0)
    + (IF u.y = Bottom(r) \/ Bottom(u) = r.y
         THEN CommonIntervalLength(<<u.x, Right(u)>>, <<r.x, Right(r)>>) ELSE 0)

\* How much of it touches the bin's border and used rectangles.
ContactPointScore(p, r) ==
    (IF r.x = 0 \/ Right(r) = p.bin.width THEN r.height ELSE 0)
    + (IF r.y = 0 \/ Bottom(r) = p.bin.height THEN r.width ELSE 0)
    + MapThenSumSet(LAMBDA i : Contact(p.used[i], r), DOMAIN p.used)

\* The two scores of placing r in a corner of the free rectangle f; the smaller
\* pair is better.
Score(p, f, r, method) ==
    LET horizontal == f.width - r.width
        vertical   == f.height - r.height
        short == Lesser(horizontal, vertical)
        long  == Greater(horizontal, vertical)
    IN  CASE method = "BottomLeft"    -> <<Bottom(r), f.x>>
          [] method = "BestShortSide" -> <<short, long>>
          [] method = "BestLongSide"  -> <<long, short>>
          [] method = "BestArea"      -> <<f.width * f.height - r.width * r.height, short>>
          [] method = "ContactPoint"  -> <<-ContactPointScore(p, r), 0>>

\* All ways to place one of the sizes, upright or flipped: the rectangle, the
\* index of its size, and what ranks it.  Between equal scores the first size,
\* then the first free rectangle, then the upright orientation wins.
Placements(p, sizes, method) ==
    {pl \in
       UNION {LET s == sizes[i]
                  w == IF flip = 1 THEN s[2] ELSE s[1]
                  h == IF flip = 1 THEN s[1] ELSE s[2]
                  f == p.free[k]
                  r == Rect(f.x, f.y, w, h)
              IN  IF w <= f.width /\ h <= f.height /\ h # 0
                    THEN {[rect |-> r, index |-> i,
                           rank |-> Score(p, f, r, method) \o <<i, k, flip>>]}
                    ELSE {}
              : i \in DOMAIN sizes, k \in DOMAIN p.free, flip \in 0 .. 1}
     : p.bin.allowFlip \/ pl.rank[5] = 0}

Before(a, b) == \E k \in DOMAIN a : a[k] < b[k] /\ \A j \in 1 .. k - 1 : a[j] = b[j]

BestPlacement(placements) ==
    CHOOSE a \in placements : \A b \in placements : ~Before(b.rank, a.rank)

Disjoint(a, b) ==
    Right(a) <= b.x \/ Right(b) <= a.x \/ Bottom(a) <= b.y \/ Bottom(b) <= a.y

IsContainedIn(a, b) ==
    a.x >= b.x /\ a.y >= b.y /\ Right(a) <= Right(b) /\ Bottom(a) <= Bottom(b)

\* Mutant: the parts to the left and right only span the used rectangle.
SplitCross(f, used) ==
    LET some(test, r) == IF test THEN <<r>> ELSE <<>>
    IN  some(used.y > f.y, [f EXCEPT !.height = used.y - f.y])
        \o some(Bottom(used) < Bottom(f),
                [f EXCEPT !.y = Bottom(used), !.height = Bottom(f) - Bottom(used)])
        \o some(used.x > f.x, [f EXCEPT !.width = used.x - f.x, !.y = used.y,
                                        !.height = used.height])
        \o some(Right(used) < Right(f),
                [f EXCEPT !.x = Right(used), !.width = Right(f) - Right(used),
                          !.y = used.y, !.height = used.height])

\* The parts of a free rectangle above, below, left and right of a used one.
SplitFreeNode(f, used) ==
    LET some(test, r) == IF test THEN <<r>> ELSE <<>>
    IN  some(used.y > f.y, [f EXCEPT !.height = used.y - f.y])
        \o some(Bottom(used) < Bottom(f),
                [f EXCEPT !.y = Bottom(used), !.height = Bottom(f) - Bottom(used)])
        \o some(used.x > f.x, [f EXCEPT !.width = used.x - f.x])
        \o some(Right(used) < Right(f),
                [f EXCEPT !.x = Right(used), !.width = Right(f) - Right(used)])

\* What is in no other rectangle stays; of equal rectangles, the last one.
Pruned(list) ==
    LET redundant == {i \in DOMAIN list : \E j \in DOMAIN list \ {i} :
                        /\ IsContainedIn(list[i], list[j])
                        /\ list[i] = list[j] => i < j}
    IN  FlattenSeq([i \in DOMAIN list |-> IF i \in redundant THEN <<>> ELSE <<list[i]>>])

PlaceRect(p, node) ==
    LET hit(f) == ~Disjoint(f, node)
        kept  == FlattenSeq([i \in DOMAIN p.free |->
                               IF hit(p.free[i]) THEN <<>> ELSE <<p.free[i]>>])
        parts == FlattenSeq([i \in DOMAIN p.free |->
                               IF hit(p.free[i]) THEN SplitFreeNode(p.free[i], node) ELSE <<>>])
    IN  [p EXCEPT !.free = Pruned(kept \o parts), !.used = Append(@, node)]

\* Insert of many rectangles: what it works on, and one round of it, which of all
\* the rectangles that are left places the best one.
Insertion(p, sizes, method) ==
    [packer |-> p, sizes |-> sizes, indices |-> [i \in DOMAIN sizes |-> i],
     method |-> method, dst |-> <<>>]

Round(s) ==
    LET best == BestPlacement(Placements(s.packer, s.sizes, s.method))
    IN  [s EXCEPT !.packer  = PlaceRect(@, best.rect),
                  !.sizes   = RemoveAt(@, best.index),
                  !.indices = RemoveAt(@, best.index),
                  !.dst     = Append(@, [rect |-> best.rect, index |-> s.indices[best.index]])]

\* It ends when all rectangles are placed, or none of the rest fits.
Ended(s) == Placements(s.packer, s.sizes, s.method) = {}

InsertAll(s) ==
    LET after[n \in 0 .. Len(s.sizes)] ==
          IF n = 0 THEN s
          ELSE LET r == after[n - 1] IN IF Ended(r) THEN r ELSE Round(r)
    IN  after[Len(s.sizes)]
=============================================================================
