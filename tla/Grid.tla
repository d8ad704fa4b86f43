-------------------------------- MODULE Grid --------------------------------
(***************************************************************************)
(* The screen buffer of the terminal (crates/termojinal-vt/src/grid.rs):   *)
(* the operations every control sequence is built from, as operators from  *)
(* a grid to a grid.  A grid is a function from rows to functions from     *)
(* columns to cells, both counted from 0.  A cell is what it shows; its    *)
(* width is 1, except the two halves of a wide character (2, then 0) and a *)
(* combining mark, which is stored with width 0.  Colours and attributes   *)
(* are left out, and so are the per-row dirty flags.                       *)
(***************************************************************************)
EXTENDS Integers, FiniteSets

Blank  == "blank"
Narrow == "narrow"   \* a character of one column
Lead   == "lead"     \* the first cell of a character of two columns
Cont   == "cont"     \* its second cell, a NUL of width 0
Mark   == "mark"     \* a character of width 0 that was given a cell
Cell   == {Blank, Narrow, Lead, Cont, Mark}

Width(c) == IF c = Lead THEN 2 ELSE IF c = Cont \/ c = Mark THEN 0 ELSE 1

Least(a, b) == IF a < b THEN a ELSE b
Most(a, b)  == IF a < b THEN b ELSE a
Sub(a, b)   == Most(a - b, 0)          \* usize::saturating_sub

Cols(g) == Cardinality(DOMAIN g[0])
Rows(g) == Cardinality(DOMAIN g)

BlankRow(cols)      == [c \in 0..(cols - 1) |-> Blank]
NewGrid(cols, rows) == [r \in 0..(rows - 1) |-> BlankRow(cols)]

ClearRow(g, row) == [g EXCEPT ![row] = BlankRow(Cols(g))]
ClearGrid(g)     == NewGrid(Cols(g), Rows(g))

\* Clear from the cursor on; a continuation under the cursor takes its lead
\* with it.
ClearToEol(g, col, row) ==
  LET from == IF col > 0 /\ Width(g[row][col]) = 0 THEN col - 1 ELSE col
  IN  [g EXCEPT ![row] = [c \in DOMAIN @ |-> IF c >= from THEN Blank ELSE @[c]]]

\* Clear up to the cursor; a continuation just after it goes too.
ClearFromBol(g, col, row) ==
  LET to == IF col + 1 < Cols(g) /\ Width(g[row][col + 1]) = 0
              THEN col + 1 ELSE col
  IN  [g EXCEPT ![row] = [c \in DOMAIN @ |-> IF c <= to THEN Blank ELSE @[c]]]

EraseBelow(g, col, row) ==
  LET g1 == ClearToEol(g, col, row)
  IN  [r \in DOMAIN g |-> IF r > row THEN BlankRow(Cols(g)) ELSE g1[r]]

EraseAbove(g, col, row) ==
  LET g1 == ClearFromBol(g, col, row)
  IN  [r \in DOMAIN g |-> IF r < row THEN BlankRow(Cols(g)) ELSE g1[r]]

\* The lines top..bottom move up by n, blank lines come in below.  The loop of
\* the source blanks `bottom' once per line even when the region is empty.
ScrollUp(g, top, bottom, n) ==
  IF n = 0 THEN g
  ELSE [r \in DOMAIN g |->
          CASE r = bottom -> BlankRow(Cols(g))
            [] r \in top..bottom /\ r # bottom ->
                 IF r + n <= bottom THEN g[r + n] ELSE BlankRow(Cols(g))
            [] OTHER -> g[r]]

ScrollDown(g, top, bottom, n) ==
  IF n = 0 THEN g
  ELSE [r \in DOMAIN g |->
          CASE r = top -> BlankRow(Cols(g))
            [] r \in top..bottom /\ r # top ->
                 IF r - n >= top THEN g[r - n] ELSE BlankRow(Cols(g))
            [] OTHER -> g[r]]

\* count.min(bottom - row + 1) in usize: below the margin the difference wraps
\* to a huge number in a release build, except one line below, where it is 0.
LinesLeft(row, bottom, n) ==
  IF row > bottom + 1 THEN n ELSE Least(n, bottom - row + 1)

InsertLines(g, row, n, bottom) == ScrollDown(g, row, bottom, LinesLeft(row, bottom, n))
DeleteLines(g, row, n, bottom) == ScrollUp(g, row, bottom, LinesLeft(row, bottom, n))

\* A continuation under the cursor loses its lead before cells are moved.
CutLead(line, col) ==
  IF col > 0 /\ Width(line[col]) = 0 THEN [line EXCEPT ![col - 1] = Blank] ELSE line

\* The last step looks at the cell `cols - n' only, wherever the shifted cells
\* ended up.
InsertCells(g, col, row, count) ==
  LET cols == Cols(g)
      n    == Least(count, cols - col)
      cut  == CutLead(g[row], col)
      line == [c \in DOMAIN cut |-> IF c < col THEN cut[c]
                                    ELSE IF c < col + n THEN Blank ELSE cut[c - n]]
      edge == cols - n
      fix  == edge \in 1..(cols - 1) /\ Width(line[edge]) = 0 /\ Width(line[edge - 1]) # 2
  IN  [g EXCEPT ![row] = IF fix THEN [line EXCEPT ![edge] = Blank] ELSE line]

DeleteCells(g, col, row, count) ==
  LET cols   == Cols(g)
      n      == Least(count, cols - col)
      cut    == CutLead(g[row], col)
      next   == col + n
      orphan == next < cols /\ Width(cut[next]) = 0 /\ Width(cut[next - 1]) = 2
      line   == IF orphan THEN [cut EXCEPT ![next] = Blank] ELSE cut
  IN  [g EXCEPT ![row] = [c \in DOMAIN line |->
         IF c < col THEN line[c] ELSE IF c + n < cols THEN line[c + n] ELSE Blank]]

EraseCellsOnly(g, col, row, n) ==
  LET end == Least(col + n, Cols(g))
  IN  [g EXCEPT ![row] = [c \in DOMAIN @ |-> IF c \in col..(end - 1) THEN Blank ELSE @[c]]]

\* ECH (csi.rs): the cell after the erased ones loses its lead with them.
EraseCells(g, col, row, n) ==
  LET end  == Least(col + n, Cols(g))
      to   == IF end < Cols(g) /\ Width(g[row][end]) = 0 THEN end ELSE end - 1
      line == CutLead(g[row], col)
  IN  [g EXCEPT ![row] = [c \in DOMAIN line |-> IF c \in col..to THEN Blank ELSE line[c]]]

ResizeGrid(g, cols, rows) ==
  [r \in 0..(rows - 1) |-> [c \in 0..(cols - 1) |->
     IF r < Rows(g) /\ c < Cols(g) THEN g[r][c] ELSE Blank]]

\* Printing a character of the given kind at a cell: the halves of the wide
\* characters it overwrites are reset first.
PutChar(g, col, row, ch) ==
  LET cols == Cols(g)
      l1 == CutLead(g[row], col)
      l2 == IF Width(l1[col]) = 2 /\ col + 1 < cols
              THEN [l1 EXCEPT ![col + 1] = Blank] ELSE l1
      l3 == IF ch = Lead /\ col + 2 < cols /\ Width(l2[col + 1]) = 2
              THEN [l2 EXCEPT ![col + 2] = Blank] ELSE l2
      l4 == [l3 EXCEPT ![col] = ch]
  IN  [g EXCEPT ![row] = IF ch = Lead /\ col + 1 < cols
                           THEN [l4 EXCEPT ![col + 1] = Cont] ELSE l4]

\* Both halves of every wide character are side by side.
Paired(g) ==
  \A r \in DOMAIN g : \A c \in DOMAIN g[r] :
    /\ g[r][c] = Lead => c + 1 \in DOMAIN g[r] /\ g[r][c + 1] = Cont
    /\ g[r][c] = Cont => c > 0 /\ g[r][c - 1] = Lead
=============================================================================
