---------------------------- MODULE SpriteLayers ----------------------------
(***************************************************************************)
(* Sprite::LoadFromFile (src/FreeAge/client/sprite.cpp): the layers of one *)
(* frame are decompressed row by row and combined.  A file is taken as the *)
(* list of its layers; a layer's commands and pixel data are lists.  Files *)
(* may end too early.  The code does not check that the pixels of a row    *)
(* fit into it, nor that the commands and data of a layer suffice; files   *)
(* in which they do not are left out.                                      *)
(*                                                                         *)
(* A pixel of the graphic is <<alpha, index in the palette>>, one of the   *)
(* other layers a number.                                                  *)
(***************************************************************************)
EXTENDS Integers, Sequences, FiniteSets, FiniteSetsExt, SequencesExt, Functions

CONSTANTS
    Frames,     \* frames: [format, compression, palette, layers]
    Palettes,   \* numbers of the palettes that palettes.conf lists
    PaletteSize \* number of colors of a palette

Skipped == -1   \* 0xFFFF of a row edge

\* The data of a graphic are made from colors: a plain list of palette index and section,
\* two colors in five bytes, or four.
Compressed(compression, data, colors) ==
    LET Index(i)   == colors[i] % 256
        Section(i) == colors[i] \div 256
    IN  CASE compression = "none" ->
               /\ data \in Seq(Nat \X Nat) /\ Len(data) = Len(colors)
               /\ \A i \in 1 .. Len(colors) : data[i] = <<Index(i), Section(i)>>
          [] compression = "8to5" ->
               /\ data \in Seq(Nat) /\ 2 * Len(data) = 5 * Len(colors)
               /\ \A k \in 0 .. Len(colors) \div 2 - 1 :
                    LET a == 2 * k + 1
                        b == 2 * k + 2
                    IN  /\ data[5 * k + 1] = Index(a)
                        /\ data[5 * k + 2] = Section(a) + 4 * (Index(b) % 64)
                        /\ data[5 * k + 3] = Index(b) \div 64 + 4 * Section(b)
          [] compression = "4plus1" ->
               /\ data \in Seq(Nat) /\ 4 * Len(data) = 5 * Len(colors)
               /\ \A k \in 0 .. Len(colors) \div 4 - 1 :
                    /\ \A i \in 1 .. 4 : data[5 * k + i] = Index(4 * k + i)
                    /\ data[5 * k + 5] = Section(4 * k + 1) + 4 * Section(4 * k + 2)
                                          + 16 * Section(4 * k + 3) + 64 * Section(4 * k + 4)

\* What is known of a layer l of the file f.
LayerOK(f, l) ==
    /\ l.width \in Nat /\ l.height \in Nat /\ l.hotspotX \in Int /\ l.hotspotY \in Int
    /\ l.edges \in Seq((Nat \cup {Skipped}) \X (Nat \cup {Skipped})) /\ Len(l.edges) = l.height
    /\ \A y \in 1 .. l.height : l.edges[y][2] # Skipped => l.edges[y][1] <= l.width
    /\ l.commands \in Seq([code : 0 .. 3, count : Nat \ {0}])
    /\ CASE l.type = "shadow"  -> l.data \in Seq(Nat)
         [] l.type = "graphic" -> /\ l.colors \in Seq(Nat)
                                  /\ \A i \in DOMAIN l.colors :
                                       l.colors[i] < PaletteSize /\ l.colors[i] < 1024
                                  /\ Compressed(f.compression, l.data, l.colors)
         [] OTHER -> l.type = "outline"

\* Files have a graphic first, and every kind of layer at most once.
ASSUME FramesAssumption ==
    \A f \in Frames :
       /\ f.format \in {"SMX", "SMP"} /\ f.compression \in {"none", "8to5", "4plus1"}
       /\ f.palette \in Palettes =>
            /\ f.layers \in Seq(Range(f.layers)) /\ f.layers # <<>>
            /\ f.layers[1].type = "graphic"
            /\ \A i \in DOMAIN f.layers : LayerOK(f, f.layers[i])
            /\ \A i, j \in DOMAIN f.layers : f.layers[i].type = f.layers[j].type => i = j

VARIABLES
    frame,  \* the frame as it is in the file
    reading,  \* what is read or computed next
    layer,  \* index of the current layer
    images, \* the decompressed layers by their type
    row,    \* current row, from 0
    out,    \* its pixels so far
    next,   \* index of the next command
    run,    \* the running command that draws pixels
    ptr,    \* pixelPtr, as an offset into the layer's data
    decompressionState,
    cursor  \* pixel at which InpaintShadowBehindGraphic is

readVars  == <<row, out, next, run, ptr, decompressionState>>
layerVars == <<frame, reading, layer, images, readVars, cursor>>

noImage == [width |-> -1, height |-> -1, x |-> -1, y |-> -1, edges |-> <<>>, rows |-> <<>>]
noRun   == [code |-> 0, count |-> 0]

LayersInit ==
    /\ frame \in Frames
    /\ reading = "palette" /\ layer = 1
    /\ images = [t \in {"graphic", "shadow", "outline"} |-> noImage]
    /\ row = 0 /\ out = <<>> /\ next = 1 /\ run = noRun
    /\ ptr = 0 /\ decompressionState = 0 /\ cursor = <<0, 0>>

L     == frame.layers[layer]
Image == images[L.type]
BorderOf(l) == IF frame.format = "SMX" /\ l.type = "graphic" THEN 1 ELSE 0

NextLayer == IF layer = Len(frame.layers) THEN "done" ELSE "header"

\* The file ends where something else is expected, or refers to no palette.
Fail ==
    /\ reading \notin {"done", "failed", "inpaint"}
    /\ reading = "palette" => frame.palette \notin Palettes
    /\ reading' = "failed"
    /\ UNCHANGED <<frame, layer, images, readVars, cursor>>

FindPalette ==
    /\ reading = "palette" /\ frame.palette \in Palettes
    /\ reading' = "header"
    /\ UNCHANGED <<frame, layer, images, readVars, cursor>>

\* The rows of the border are skipped rows.
RowEdges(l) ==
    LET skipped == [i \in 1 .. BorderOf(l) |-> <<Skipped, Skipped>>]
    IN  skipped \o l.edges \o skipped

\* The header of a layer and its row edges.  Of an SMP file only the graphic layer
\* is read, and no row edges are kept.
ReadLayer ==
    /\ reading = "header"
    /\ IF frame.format = "SMP" /\ L.type # "graphic"
         THEN /\ reading' = NextLayer
              /\ layer' = layer + 1
              /\ UNCHANGED <<images, readVars>>
         ELSE /\ images' = [images EXCEPT ![L.type] =
                   [width |-> L.width + 2 * BorderOf(L), height |-> L.height + 2 * BorderOf(L),
                    x |-> L.hotspotX + BorderOf(L), y |-> L.hotspotY + BorderOf(L),
                    edges |-> RowEdges(L), rows |-> <<>>]]
              /\ reading' = "row"
              /\ row' = 0 /\ out' = <<>> /\ next' = 1 /\ run' = noRun
              /\ ptr' = 0 /\ decompressionState' = 0
              /\ UNCHANGED layer
    /\ UNCHANGED <<frame, cursor>>

Transparent == IF L.type = "graphic" THEN <<0, 0>> ELSE 0
Blank(n) == [i \in 1 .. n |-> Transparent]

FinishRow(pixels) ==
    /\ images' = [images EXCEPT ![L.type].rows = Append(@, pixels)]
    /\ row' = row + 1
    /\ out' = <<>>
    /\ reading' = "row"

BeginRow ==
    /\ reading = "row" /\ row < Image.height
    /\ LET edge == Image.edges[row + 1]
       IN  IF edge[1] = Skipped \/ edge[2] = Skipped
             THEN FinishRow(Blank(Image.width))
             ELSE /\ out' = Blank(edge[1] + BorderOf(L))
                  /\ reading' = "command"
                  /\ UNCHANGED <<images, row>>
    /\ UNCHANGED <<frame, layer, next, run, ptr, decompressionState, cursor>>

\* The commands: 0 draws transparent pixels, 1 and 2 pixels of a palette (in a
\* graphic, 2 is the player's), and 3 ends the row, which may be too short.
Command ==
    /\ reading = "command" /\ next <= Len(L.commands)
    /\ L.commands[next].code # 3 =>
         Len(out) + L.commands[next].count <= L.width + BorderOf(L)
    /\ LET c == L.commands[next]
       IN  CASE c.code = 0 ->
                  /\ out' = out \o Blank(c.count)
                  /\ UNCHANGED <<reading, run, images, row>>
             [] c.code = 1 \/ (c.code = 2 /\ L.type = "graphic") ->
                  /\ run' = c
                  /\ reading' = "pixels"
                  /\ UNCHANGED <<out, images, row>>
             [] c.code = 3 ->
                  /\ FinishRow(out \o Blank(Image.width - Len(out)))
                  /\ UNCHANGED run
             [] OTHER ->
                  /\ reading' = "failed"
                  /\ UNCHANGED <<run, out, images, row>>
    /\ next' = next + 1
    /\ UNCHANGED <<frame, layer, ptr, decompressionState, cursor>>

\* GetPalettedPixel with ignoreAlpha; alpha 254 marks a color of the player.
PalettedPixel(code, section, index) ==
    LET finalIndex == 256 * section + index
    IN  IF code = 2 THEN <<254, finalIndex>>
        ELSE IF finalIndex < PaletteSize THEN <<255, finalIndex>> ELSE <<0, 0>>

\* Two pixels in five bytes: the second starts in the third bit of the second byte.
DecompressNextPixel8To5(d) ==
    IF decompressionState = 0
      THEN PalettedPixel(run.code, d[ptr + 2] % 4, d[ptr + 1])
      ELSE PalettedPixel(run.code, (d[ptr + 3] \div 4) % 4,
                         64 * (d[ptr + 3] % 4) + d[ptr + 2] \div 4)

\* Four pixels in five bytes: the last byte has all their palette sections.
DecompressNextPixel4Plus1(d) ==
    PalettedPixel(run.code, (d[ptr + 5] \div <<1, 4, 16, 64>>[decompressionState + 1]) % 4,
                  d[ptr + 1 + decompressionState])

\* Mutant: all frames are taken to have the older compression.
PixelsPerBlockOf4Plus1 == IF frame.compression = "none" THEN 1 ELSE 4

PixelsPerBlock ==
    CASE frame.compression = "8to5"   -> 2
      [] frame.compression = "4plus1" -> 4
      [] OTHER                        -> 1

NextPixel ==
    CASE L.type = "outline" -> 255
      [] L.type = "shadow"  -> L.data[ptr + 1]
      [] L.type = "graphic" /\ frame.compression = "8to5"   -> DecompressNextPixel8To5(L.data)
      [] L.type = "graphic" /\ frame.compression = "4plus1" -> DecompressNextPixel4Plus1(L.data)
      [] OTHER -> PalettedPixel(run.code, L.data[ptr + 1][2], L.data[ptr + 1][1])

DrawPixel ==
    /\ reading = "pixels" /\ (L.type = "outline" \/ ptr < Len(L.data))
    /\ out' = Append(out, NextPixel)
    /\ IF L.type # "graphic" \/ frame.compression = "none"
         THEN ptr' = ptr + 1 /\ UNCHANGED decompressionState
         ELSE /\ decompressionState' = (decompressionState + 1) % PixelsPerBlock
              /\ ptr' = IF decompressionState' = 0 THEN ptr + 5 ELSE ptr
    /\ run' = [run EXCEPT !.count = @ - 1]
    /\ reading' = IF run.count = 1 THEN "command" ELSE "pixels"
    /\ UNCHANGED <<frame, layer, images, row, next, cursor>>

\* The pixel of another layer at the same place, by the centers of both.
Across(from, to, p) == <<p[1] + to.x - from.x, p[2] + to.y - from.y>>
Inside(image, p) == p[1] \in 0 .. image.width - 1 /\ p[2] \in 0 .. image.height - 1
At(image, p) == image.rows[p[2] + 1][p[1] + 1]

Opaque(graphic, p) == At(graphic, p)[1] >= 127

\* The pixels of the shadow around p that the graphic leaves visible.
Uncovered(shadow, graphic, p) ==
    {q \in (p[1] - 1 .. p[1] + 1) \X (p[2] - 1 .. p[2] + 1) :
       /\ Inside(shadow, q)
       /\ LET g == Across(shadow, graphic, q)
          IN  Inside(graphic, g) /\ ~Opaque(graphic, g)}

\* Rounded mean of the shadow at the given pixels.
Mean(shadow, pixels) ==
    LET sum == MapThenSumSet(LAMBDA q : At(shadow, q), pixels)
        n   == Cardinality(pixels)
    IN  (2 * sum + n) \div (2 * n)

\* InpaintShadowBehindGraphic works in place, one pixel after the other.
Inpaint ==
    /\ reading = "inpaint"
    /\ LET s == images.shadow
           g == Across(s, images.graphic, cursor)
           beside == Uncovered(s, images.graphic, cursor)
           paint == Inside(images.graphic, g) /\ Opaque(images.graphic, g) /\ beside # {}
       IN  /\ images' = IF paint
                          THEN [images EXCEPT !.shadow.rows[cursor[2] + 1][cursor[1] + 1] =
                                  Mean(s, beside)]
                          ELSE images
           /\ cursor' = IF cursor[1] + 1 < s.width THEN <<cursor[1] + 1, cursor[2]>>
                        ELSE <<0, cursor[2] + 1>>
           /\ IF cursor' = <<0, s.height>>
                THEN reading' = NextLayer /\ layer' = layer + 1
                ELSE UNCHANGED <<reading, layer>>
    /\ UNCHANGED <<frame, readVars>>

Outlined(alpha) == CASE alpha = 0 -> 1 [] alpha = 255 -> 253 [] OTHER -> 252

\* PaintOutlineIntoGraphic
WithOutline(graphic, outline) ==
    [graphic EXCEPT !.rows =
       [y \in DOMAIN graphic.rows |-> [x \in DOMAIN graphic.rows[y] |->
          LET pixel == graphic.rows[y][x]
              o == Across(graphic, outline, <<x - 1, y - 1>>)
          IN  IF Inside(outline, o) /\ At(outline, o) = 255
                THEN <<Outlined(pixel[1]), pixel[2]>> ELSE pixel]]]

EndLayer ==
    /\ reading = "row" /\ row = Image.height
    /\ IF L.type = "shadow" /\ Image.width > 0 /\ Image.height > 0
         THEN /\ reading' = "inpaint"
              /\ cursor' = <<0, 0>>
              /\ UNCHANGED layer
         ELSE /\ reading' = NextLayer
              /\ layer' = layer + 1
              /\ UNCHANGED cursor
    /\ images' = IF L.type = "outline"
                   THEN [images EXCEPT !.graphic = WithOutline(@, images.outline)]
                   ELSE images
    /\ UNCHANGED <<frame, readVars>>

LayersNext ==
    \/ FindPalette \/ ReadLayer \/ BeginRow \/ Command \/ DrawPixel \/ EndLayer
    \/ Inpaint \/ Fail

LayersSpec == LayersInit /\ [][LayersNext]_layerVars
-----------------------------------------------------------------------------
GraphicPixels == (0 .. images.graphic.width - 1) \X (0 .. images.graphic.height - 1)

\* The pixels of a graphic that can be seen, with their palette index.
Shown(rows) ==
    UNION {{<<x, y, rows[y][x][2]>> : x \in {i \in DOMAIN rows[y] : rows[y][i][1] >= 252}} :
             y \in DOMAIN rows}

\* In the order in which they are drawn, they have the given colors.
ShownInOrder(shown, colors) ==
    \A s \in shown :
       LET earlier == {r \in shown : r[2] < s[2] \/ (r[2] = s[2] /\ r[1] < s[1])}
           number  == Cardinality(earlier) + 1
       IN  number <= Len(colors) /\ s[3] = colors[number]

\* What is drawn where: the colors of the graphic are those that were compressed
\* ("colors", see the module that defines Frames), in their order, whatever rows,
\* runs and transparent pixels lie between them; the border stays empty but for
\* the outline; and the shadow behind the graphic is made only of shadow next to
\* it, though it is painted in place.
LayersCombine ==
    reading = "done" =>
      LET g == images.graphic
          s == images.shadow
      IN  /\ ShownInOrder(Shown(g.rows), frame.layers[1].colors)
          /\ frame.format = "SMX" => \A p \in GraphicPixels :
               p[1] \in {0, g.width - 1} \/ p[2] \in {0, g.height - 1}
                 => At(g, p)[1] \in 0 .. 1
          /\ s # noImage =>
               \A p \in (0 .. s.width - 1) \X (0 .. s.height - 1) :
                 LET q == Across(s, g, p)
                     beside == {r \in (p[1] - 1 .. p[1] + 1) \X (p[2] - 1 .. p[2] + 1) :
                                  /\ Inside(s, r) /\ Inside(g, Across(s, g, r))
                                  /\ ~Opaque(g, Across(s, g, r))}
                 IN  Inside(g, q) /\ Opaque(g, q) /\ beside # {} => At(s, p) = Mean(s, beside)
=============================================================================
