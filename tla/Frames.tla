------------------------------- MODULE Frames -------------------------------
(***************************************************************************)
(* How a frame is drawn.  Every pane is drawn from one instance buffer,    *)
(* one glyph texture, one emoji texture and one table of picture textures, *)
(* all shared; glyphs are rasterized into an atlas when they are first     *)
(* needed and copied to the texture when their number changed; a cache per *)
(* pane spares rebuilding what did not change.  The tab bar, the sidebar,  *)
(* separators and overlays draw through the same buffer.  The question is  *)
(* whether what reaches the screen is what the panes hold.                 *)
(*                                                                         *)
(* A line is one character, and drawing reads back what the texture has at *)
(* the place the instance names.  Rows with a wide cell have fewer         *)
(* instances than columns and then force a rebuild of everything; with one *)
(* character per line that case is the rebuild itself.  Left out: colours, *)
(* the scrollbar, positions and clipping, and a lost surface.              *)
(***************************************************************************)
EXTENDS Panes, Naturals, FiniteSets, Sequences, Functions

CONSTANTS
    Char,
    Blank,       \* the space; rasterized with every new atlas
    Traits,      \* by character: [cells, emoji, empty, colour]
    Rows,        \* lines of a pane
    AtlasWidth, AtlasHeight,
    CellWidths,  \* what font sizes there are, by the width of a cell
    Picture, ImageIds,
    MaxEdits,    \* bound: changes to the panes
    MaxHistory   \* bound: lines of scrollback

Atlases == {"mono", "emoji"}
Lines == 1..Rows

\* CellInstance: what a line looks like, in which texture and where its glyph is.
Appearances == [char : Char, mark : BOOLEAN, cursor : BOOLEAN]
Box == [x : Nat, y : Nat, w : Nat, h : Nat]
Instances == [line : Appearances, from : Atlases, at : Box]

ASSUME FramesAssumption ==
    /\ Blank \in Char /\ Rows \in Nat \ {0}
    /\ Traits \in [Char -> [cells : {1, 2}, emoji : BOOLEAN, empty : BOOLEAN, colour : BOOLEAN]]
    /\ AtlasWidth \in Nat /\ AtlasHeight \in Nat /\ AtlasHeight >= 3
    /\ CellWidths \subseteq Nat /\ \A n \in CellWidths : 2 * n + 2 <= AtlasWidth
    /\ MaxEdits \in Nat /\ MaxHistory \in Nat
    /\ None \notin Instances

VARIABLES
    screen,    \* by pane, what its terminal shows
    shown,     \* the panes of the active tab, in order; the first has focus
    renderer,  \* Renderer
    seen,      \* by pane, what the last frame put on the surface
    drawn,     \* nothing has changed since the last frame
    edits

frameVars == <<screen, shown, renderer, seen, drawn, edits>>
-----------------------------------------------------------------------------
(* Atlases. *)

EmptyAtlas == [height |-> AtlasHeight, glyphs |-> <<>>, pack_x |-> 1, pack_y |-> 1, row |-> 0]

\* Places a w by h bitmap: on the next row if this one is full, in a texture
\* of twice the height if the rows are.
Pack(a, c, w, h) ==
    LET wraps == a.pack_x + w + 1 > AtlasWidth
        x == IF wraps THEN 1 ELSE a.pack_x
        y == IF wraps THEN a.pack_y + a.row + 1 ELSE a.pack_y
        row == IF wraps THEN 0 ELSE a.row
    IN  [height |-> IF y + h + 1 > a.height THEN 2 * a.height ELSE a.height,
         glyphs |-> [d \in DOMAIN a.glyphs \cup {c} |->
                       IF d = c THEN [x |-> x, y |-> y, w |-> w, h |-> h] ELSE a.glyphs[d]],
         pack_x |-> x + w + 1, pack_y |-> y,
         row |-> IF row > h + 1 THEN row ELSE h + 1]

GetGlyph(a, c, w, h) == IF c \in DOMAIN a.glyphs THEN a ELSE Pack(a, c, w, h)

\* An emoji goes to the emoji atlas, unless the system cannot draw it; so does
\* what the fonts have no glyph for, after its empty cell is in the atlas.
InMono(c) == ~(Traits[c].emoji /\ Traits[c].colour)
Source(c) == IF (Traits[c].emoji \/ Traits[c].empty) /\ Traits[c].colour
             THEN "emoji" ELSE "mono"

\* What an atlas has after the wanted ones of a list of characters, in turn.
Load(a, cell, chars, wanted) ==
    LET after[n \in 0..Len(chars)] ==
          IF n = 0 THEN a
          ELSE IF n \in wanted THEN GetGlyph(after[n - 1], chars[n], Traits[chars[n]].cells * cell, 1)
          ELSE after[n - 1]
    IN  after[Len(chars)]

\* Neither atlas depends on the other.
LoadAll(r, chars, wanted) ==
    [r EXCEPT !.atlas = [k \in Atlases |->
        Load(@[k], r.cell, chars, {n \in wanted : IF k = "mono" THEN InMono(chars[n])
                                                  ELSE Source(chars[n]) = "emoji"})]]

GlyphCount(a) == Cardinality(DOMAIN a.glyphs)

Texture(a) == [height |-> a.height, glyphs |-> a.glyphs]

\* An atlas with another number of glyphs than at its last upload is copied.
Reupload(r) ==
    LET stale == {k \in Atlases : GlyphCount(r.atlas[k]) # r.version[k]} IN
    [r EXCEPT !.texture = [k \in Atlases |-> IF k \in stale THEN Texture(r.atlas[k]) ELSE @[k]],
              !.version = [k \in Atlases |-> GlyphCount(r.atlas[k])]]

NoCaches == [p \in Pane |-> None]
Junk == [row \in Lines |-> None]

NewRenderer(cell) ==
    LET mono == GetGlyph(EmptyAtlas, Blank, cell, 1) IN
    [cell |-> cell,
     atlas |-> [k \in Atlases |-> IF k = "mono" THEN mono ELSE EmptyAtlas],
     texture |-> [k \in Atlases |-> Texture(IF k = "mono" THEN mono ELSE EmptyAtlas)],
     version |-> [k \in Atlases |-> IF k = "mono" THEN 1 ELSE 0],
     pane_caches |-> NoCaches, buffer |-> Junk,
     gpu_images |-> [i \in ImageIds |-> None]]
-----------------------------------------------------------------------------
(* The instances of a pane. *)

CharAt(s, row) == IF row <= s.offset THEN s.history[s.offset - row + 1]
                  ELSE s.lines[row - s.offset]

\* What a pane's line looks like: its character, the cursor, the highlight.
LineAt(s, row) == [char |-> CharAt(s, row), mark |-> s.mark,
                   cursor |-> s.offset = 0 /\ s.cursor = row]

Instance(r, s, row) ==
    LET k == Source(CharAt(s, row)) IN
    [line |-> LineAt(s, row), from |-> k, at |-> r.atlas[k].glyphs[CharAt(s, row)]]

\* Instances for these rows, over what the buffer and the cache hold.
BuildRows(r, p, s, rows, old) ==
    LET loaded == LoadAll(r, [row \in Lines |-> CharAt(s, row)], rows)
        fresh(was) == [row \in Lines |-> IF row \in rows THEN Instance(loaded, s, row)
                                         ELSE was[row]]
    IN  [loaded EXCEPT !.buffer = fresh(@),
                       !.pane_caches[p] = [instances |-> fresh(old), offset |-> s.offset,
                                           mark |-> s.mark]]

FullRebuild(r, p, s) == BuildRows(r, p, s, Lines, Junk)

\* Rows that changed and the cursor's row; rows of the scrollback never.
StaleRows(s) == {row \in Lines : \/ row > s.offset /\ row - s.offset \in s.dirty
                                 \/ s.offset = 0 /\ row = s.cursor}

UpdateInstances(r, p, s) ==
    LET cache == r.pane_caches[p]
        same == cache # None /\ cache.offset = s.offset /\ cache.mark = s.mark
    IN  IF ~same THEN FullRebuild(r, p, s)
        ELSE IF s.dirty = {} THEN r
        ELSE BuildRows(r, p, s, StaleRows(s), cache.instances)
-----------------------------------------------------------------------------
(* Pictures. *)

Placed(s) == {i \in ImageIds : s.images[i] # None}

\* "Uploads new images, removes deleted ones": by id, whoever's id it is.
SyncImages(r, s) ==
    IF Placed(s) = {} THEN r
    ELSE [r EXCEPT !.gpu_images = [i \in ImageIds |->
             IF i \notin Placed(s) THEN None ELSE IF @[i] # None THEN @[i] ELSE s.images[i]]]

\* All placements are recorded before the one uniform buffer is read.
RenderPlacements(r, s) ==
    LET last == CHOOSE i \in Placed(s) : \A j \in Placed(s) : j <= i
    IN  {[at |-> last, picture |-> r.gpu_images[i]] : i \in Placed(s)}
-----------------------------------------------------------------------------
(* Drawing. *)

Overlap(a, b) == /\ a.x < b.x + b.w /\ b.x < a.x + a.w
                 /\ a.y < b.y + b.h /\ b.y < a.y + a.h

\* Lines of a bitmap that do not fit the texture are not copied.
Inside(g, height) == g.x + g.w <= AtlasWidth /\ g.y + g.h <= height

\* What the texture shows at an instance: its line, if all of its glyph is there
\* and nothing else was packed over it.  Positions are scaled by the atlas's size.
Look(r, inst) ==
    IF inst = None THEN None
    ELSE LET texture == r.texture[inst.from]
             c == inst.line.char
         IN  IF /\ texture.height = r.atlas[inst.from].height
                /\ c \in DOMAIN texture.glyphs /\ texture.glyphs[c] = inst.at
                /\ Inside(inst.at, texture.height)
                /\ \A d \in DOMAIN texture.glyphs \ {c} : ~Overlap(texture.glyphs[d], inst.at)
             THEN inst.line ELSE None

\* The shared buffer has other content now: no pane's cache describes it.
OverwrittenInPlace(r) == [r EXCEPT !.buffer = Junk]

Overwritten(r) == [r EXCEPT !.buffer = Junk, !.pane_caches = NoCaches]

DrawSeparator(r) == Overwritten(r)

RenderText(r, chars) == IF chars = <<>> THEN r ELSE Overwritten(Reupload(LoadAll(r, chars, DOMAIN chars)))

\* The input method's text has a buffer of its own.
RenderPreedit(r, chars) == IF chars = <<>> THEN r ELSE Reupload(LoadAll(r, chars, DOMAIN chars))

\* The frame so far and what it shows, with one more pane.
RenderPane(frame, p, s, typed) ==
    LET r == Reupload(UpdateInstances(SyncImages(frame.r, s), p, s)) IN
    [r |-> RenderPreedit(r, typed),
     seen |-> [frame.seen EXCEPT ![p] =
        [lines |-> [row \in Lines |-> Look(r, r.buffer[row])],
         pictures |-> IF Placed(s) = {} THEN {} ELSE RenderPlacements(r, s)]]]

\* The content area, then the sidebar and the tab bar, the panes, the lines
\* between them, and the status bar with whatever lies over the panes.
RenderFrame(before, typed, after) ==
    LET start == RenderText(DrawSeparator(renderer), before)
        upTo[n \in 0..Len(shown)] ==
          IF n = 0 THEN [r |-> start, seen |-> [p \in Pane |-> None]]
          ELSE RenderPane(upTo[n - 1], shown[n], screen[shown[n]],
                          IF n = 1 THEN typed ELSE <<>>)
        panes == upTo[Len(shown)]
        bordered == IF Len(shown) > 1 THEN DrawSeparator(panes.r) ELSE panes.r
    IN  [panes EXCEPT !.r = RenderText(bordered, after)]
-----------------------------------------------------------------------------
NewScreen == [lines |-> [row \in Lines |-> Blank], dirty |-> Lines, cursor |-> 1,
              mark |-> FALSE, history |-> <<>>, offset |-> 0,
              images |-> [i \in ImageIds |-> None]]

FramesInit ==
    /\ screen = [p \in Pane |-> NewScreen]
    /\ shown \in {<<p>> : p \in Pane}
    /\ \E cell \in CellWidths : renderer = NewRenderer(cell)
    /\ seen = [p \in Pane |-> None] /\ drawn = FALSE /\ edits = 0

Edit == /\ edits < MaxEdits /\ edits' = edits + 1
        /\ drawn' = FALSE /\ UNCHANGED seen

EditScreen(p, s) == /\ Edit /\ UNCHANGED <<shown, renderer>>
                    /\ screen' = [screen EXCEPT ![p] = s]

PutLine(p, row, c) ==
    EditScreen(p, [screen[p] EXCEPT !.lines[row] = c, !.dirty = @ \cup {row}])

\* A line leaves at the top; the view into the scrollback stays where it is.
ScrollUp(p) ==
    LET s == screen[p] IN
    EditScreen(p, [s EXCEPT
        !.history = SubSeq(<<s.lines[1]>> \o @, 1, IF Len(@) < MaxHistory THEN Len(@) + 1 ELSE MaxHistory),
        !.lines = [row \in Lines |-> IF row < Rows THEN @[row + 1] ELSE Blank],
        !.dirty = Lines])

MoveCursor(p, row) == EditScreen(p, [screen[p] EXCEPT !.cursor = row])

\* A selection, search matches, a link under the mouse.
Highlight(p) == EditScreen(p, [screen[p] EXCEPT !.mark = ~@])

SetScrollOffset(p) ==
    \E n \in 0..Len(screen[p].history) : EditScreen(p, [screen[p] EXCEPT !.offset = n])

PlaceImage(p, i, picture) == EditScreen(p, [screen[p] EXCEPT !.images[i] = picture])

ShowPanes ==
    /\ Edit /\ UNCHANGED <<screen, renderer>>
    /\ shown' \in {order \in [1..2 -> Pane] : order[1] # order[2]} \cup {<<p>> : p \in Pane}

\* New atlases and textures; the table of pictures stays.
SetFontSize(cell) ==
    /\ Edit /\ UNCHANGED <<screen, shown>>
    /\ renderer' = [NewRenderer(cell) EXCEPT !.buffer = renderer.buffer,
                                             !.gpu_images = renderer.gpu_images]

\* A new theme or window size.
ClearCaches ==
    /\ Edit /\ UNCHANGED <<screen, shown>>
    /\ renderer' = [renderer EXCEPT !.pane_caches = NoCaches]

\* Bound: one character of text per frame, before, in or after the panes.
Texts == {<< <<>>, <<>>, <<>> >>} \cup
         {[i \in 1..3 |-> IF i = k THEN <<c>> ELSE <<>>] : k \in 1..3, c \in Char \ {Blank}}

Redraw ==
    /\ \E text \in Texts : LET frame == RenderFrame(text[1], text[2], text[3]) IN
           renderer' = frame.r /\ seen' = frame.seen
    /\ screen' = [p \in Pane |-> IF p \in Range(shown) THEN [screen[p] EXCEPT !.dirty = {}]
                                 ELSE screen[p]]
    /\ drawn' = TRUE
    /\ UNCHANGED <<shown, edits>>

FramesNext ==
    \/ \E p \in Pane :
        \/ \E row \in Lines : MoveCursor(p, row) \/ \E c \in Char : PutLine(p, row, c)
        \/ ScrollUp(p) \/ SetScrollOffset(p) \/ Highlight(p)
        \/ \E i \in ImageIds, picture \in Picture : PlaceImage(p, i, picture)
    \/ ShowPanes \/ ClearCaches \/ Redraw
    \/ \E cell \in CellWidths : SetFontSize(cell)

FramesSpec == FramesInit /\ [][FramesNext]_frameVars
-----------------------------------------------------------------------------
(* Properties. *)

\* After a frame every pane on screen shows what its terminal holds now, at
\* the font in use: the caches, the shared buffer and the textures leave no
\* old line, old cursor, other pane's line or wrong glyph behind.  And a pane
\* has textures for its pictures, although every other pane that has pictures
\* drops them from the shared table.
FramesAreFresh ==
    drawn => \A p \in Range(shown) :
        /\ \A row \in Lines : seen[p].lines[row] = LineAt(screen[p], row)
        /\ Placed(screen[p]) # {} => seen[p].pictures # {}
        /\ \A shows \in seen[p].pictures : shows.picture # None
=============================================================================
