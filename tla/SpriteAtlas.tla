----------------------------- MODULE SpriteAtlas -----------------------------
(***************************************************************************)
(* LoadSpriteAndTexture (src/FreeAge/client/sprite.cpp) with its           *)
(* SpriteAtlas: the frames of a sprite are packed into one texture.  The   *)
(* packing is cached in a file, which outlives the program, may be written *)
(* only in part, and may belong to another version of the sprite.          *)
(***************************************************************************)
EXTENDS MaxRects

CONSTANTS
    Sprites,     \* contents of the sprite's file: the sizes of its frames
    InitialSize, \* 2048
    Attempts     \* 8

ASSUME AtlasAssumption ==
    /\ Sprites \subseteq Seq(Nat \X Nat)
    /\ InitialSize \in Nat /\ Attempts \in Nat

VARIABLES
    spriteFile, \* what the sprite's file holds at the moment
    cacheFile,  \* what the cache file holds: a header and its rects, or a prefix
    loading,      \* where LoadSpriteAndTexture is
    frames,     \* the sizes of the loaded sprite's frames
    atlas,      \* atlasWidth, atlasHeight, packedRects and packedRectIndices
    search,     \* the search for the size of the texture
    loaded      \* the atlas is the cached one

atlasVars == <<spriteFile, cacheFile, loading, frames, atlas, search, loaded>>

noAtlas  == [width |-> 0, height |-> 0, packed |-> <<>>]
noSearch == [size |-> InitialSize, tooSmall |-> -1, acceptable |-> -1, attempt |-> 0]

AtlasInit ==
    /\ spriteFile \in Sprites
    /\ cacheFile = <<>> /\ loading = "off"
    /\ frames = <<>> /\ atlas = noAtlas /\ search = noSearch /\ loaded = FALSE

\* An atlas of this size; what does not fit is not in it (pixelBorder is 0, and
\* nothing is flipped).
BuildAtlas(width, height) ==
    LET bin == [width |-> width, height |-> height, allowFlip |-> FALSE]
    IN  [width |-> width, height |-> height,
         packed |-> InsertAll(Insertion(Empty(bin), frames, "BottomLeft")).dst]

AllPacked(a) == Len(a.packed) = Len(frames)

-----------------------------------------------------------------------------
\* Between two runs of the program, a mod or an update may replace the sprite.
ReplaceSprite ==
    /\ loading = "off"
    /\ spriteFile' \in Sprites
    /\ UNCHANGED <<cacheFile, loading, frames, atlas, search, loaded>>

LoadSprite ==
    /\ loading = "off"
    /\ frames' = spriteFile
    /\ loading' = "cache"
    /\ UNCHANGED <<spriteFile, cacheFile, atlas, search, loaded>>

\* Load: a header with the expected number of rects, and all of them.
Loadable ==
    /\ cacheFile # <<>>
    /\ cacheFile[1].numRects = Len(frames)
    /\ Len(cacheFile) = 1 + Len(frames)

Cached == [width |-> cacheFile[1].width, height |-> cacheFile[1].height,
           packed |-> Tail(cacheFile)]

\* The rect of a frame: of the entries with its index the last one, and the first
\* of all if there is none.
RectOf(a, frame) ==
    LET entries == {i \in DOMAIN a.packed : a.packed[i].index = frame}
    IN  a.packed[IF entries = {} THEN 1 ELSE Max(entries)].rect

\* Mutant: the sizes are compared without their assignment to the frames.
ConsistentAsASet(a) ==
    {<<a.packed[i].rect.width, a.packed[i].rect.height>> : i \in DOMAIN a.packed}
      = ToSet(frames)

IsConsistent(a) ==
    /\ \A i \in DOMAIN a.packed : a.packed[i].index \in DOMAIN frames
    /\ \A f \in DOMAIN frames :
         RectOf(a, f).width = frames[f][1] /\ RectOf(a, f).height = frames[f][2]

LoadCache ==
    /\ loading = "cache"
    /\ Loadable /\ IsConsistent(Cached)
    /\ atlas' = Cached
    /\ loaded' = TRUE
    /\ loading' = "render"
    /\ UNCHANGED <<spriteFile, cacheFile, frames, search>>

DiscardCache ==
    /\ loading = "cache"
    /\ ~(Loadable /\ IsConsistent(Cached))
    /\ search' = noSearch
    /\ loaded' = FALSE
    /\ loading' = IF Len(frames) = 1 THEN "build" ELSE "search"
    /\ UNCHANGED <<spriteFile, cacheFile, frames, atlas>>

\* The size is doubled while it is too small, and bisected once one was large
\* enough; the first acceptable size is bisected toward -1.
TrySize ==
    /\ loading = "search" /\ search.attempt < Attempts
    /\ LET fits       == AllPacked(BuildAtlas(search.size, search.size))
           tooSmall   == IF fits THEN search.tooSmall ELSE search.size
           acceptable == IF fits THEN search.size ELSE search.acceptable
       IN  search' = [size |-> IF acceptable >= 0 THEN (tooSmall + acceptable) \div 2
                                                   ELSE 2 * tooSmall,
                      tooSmall |-> tooSmall, acceptable |-> acceptable,
                      attempt |-> search.attempt + 1]
    /\ UNCHANGED <<spriteFile, cacheFile, loading, frames, atlas, loaded>>

EndSearch ==
    /\ loading = "search" /\ search.attempt = Attempts
    /\ loading' = "build"
    /\ UNCHANGED <<spriteFile, cacheFile, frames, atlas, search, loaded>>

\* A single frame is an atlas of its own.
Build ==
    /\ loading = "build"
    /\ LET width  == IF Len(frames) = 1 THEN frames[1][1] ELSE search.acceptable
           height == IF Len(frames) = 1 THEN frames[1][2] ELSE search.acceptable
           built  == BuildAtlas(width, height)
           ok     == width > 0 /\ height > 0 /\ AllPacked(built)
       IN  /\ atlas' = IF ok THEN built ELSE noAtlas
           /\ loading' = IF ok THEN "render" ELSE "failed"
    /\ UNCHANGED <<spriteFile, cacheFile, frames, search, loaded>>

\* RenderAtlas draws the frames into their rects; a new atlas is then saved,
\* which starts by truncating the file, unless it cannot be opened.
Render ==
    /\ loading = "render"
    /\ \/ loaded /\ loading' = "shown" /\ UNCHANGED cacheFile
       \/ ~loaded /\ loading' = "shown" /\ UNCHANGED cacheFile
       \/ ~loaded /\ loading' = "save" /\ cacheFile' = <<>>
    /\ UNCHANGED <<spriteFile, frames, atlas, search, loaded>>

Header(a) == [width |-> a.width, height |-> a.height, numRects |-> Len(a.packed)]
Contents(a) == <<Header(a)>> \o a.packed

\* Save ignores failing writes: any part of the file may be what is kept of it.
SaveMore ==
    /\ loading = "save" /\ Len(cacheFile) < Len(Contents(atlas))
    /\ cacheFile' = SubSeq(Contents(atlas), 1, Len(cacheFile) + 1)
    /\ UNCHANGED <<spriteFile, loading, frames, atlas, search, loaded>>

EndSave ==
    /\ loading = "save"
    /\ loading' = "shown"
    /\ UNCHANGED <<spriteFile, cacheFile, frames, atlas, search, loaded>>

\* The program ends, or is ended, at any time; its files stay.
Quit ==
    /\ loading # "off"
    /\ loading' = "off" /\ frames' = <<>> /\ atlas' = noAtlas
    /\ search' = noSearch /\ loaded' = FALSE
    /\ UNCHANGED <<spriteFile, cacheFile>>

AtlasNext ==
    \/ ReplaceSprite \/ LoadSprite \/ LoadCache \/ DiscardCache \/ TrySize
    \/ EndSearch \/ Build \/ Render \/ SaveMore \/ EndSave \/ Quit

AtlasSpec == AtlasInit /\ [][AtlasNext]_atlasVars
-----------------------------------------------------------------------------
\* Whatever the cache file went through - a run that ended while writing it, a
\* disk that was full, a sprite that was replaced - every frame that is drawn
\* into the texture has a rect of its own size there, inside the texture and
\* apart from those of all other frames.
AtlasSound ==
    loading \in {"save", "shown"} =>
      \A f \in DOMAIN frames :
        LET r == RectOf(atlas, f)
        IN  /\ <<r.width, r.height>> = frames[f]
            /\ IsContainedIn(r, Rect(0, 0, atlas.width, atlas.height))
            /\ \A g \in DOMAIN frames \ {f} : Disjoint(r, RectOf(atlas, g))
=============================================================================
