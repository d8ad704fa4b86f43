--------------------------- MODULE Terminal_proofs ---------------------------
(***************************************************************************)
(* Where the cursor and a pending wrap of a terminal can be, which         *)
(* handlers cut a wide character in two, and how images and the text under *)
(* them move together, for every size of the screen, every sequence of     *)
(* handlers and any parameters.                                            *)
(***************************************************************************)
EXTENDS Terminal, FiniteSetTheorems, SequenceTheorems, WellFoundedInduction, TLAPS

-----------------------------------------------------------------------------
(* Lines and grids.                                                        *)

Line(cols) == [0..(cols - 1) -> Cell]
IsGrid(g, cols, rows) == g \in [0..(rows - 1) -> Line(cols)]

\* The halves of wide characters in a line are side by side;
Halved(line, cols) ==
    \A c \in 0..(cols - 1) :
        /\ line[c] = Lead => c + 1 < cols /\ line[c + 1] = Cont
        /\ line[c] = Cont => c > 0 /\ line[c - 1] = Lead

\* and it has no combining mark in a cell of its own.
Unmarked(line, cols) == \A c \in 0..(cols - 1) : line[c] # Mark

Proper(line, cols) == line \in Line(cols) /\ Halved(line, cols) /\ Unmarked(line, cols)
ProperGrid(g, cols, rows) == \A r \in 0..(rows - 1) : Proper(g[r], cols)

LEMMA CellsDiffer ==
    /\ Blank # Lead /\ Blank # Cont /\ Blank # Mark /\ Narrow # Lead /\ Narrow # Cont
    /\ Narrow # Mark /\ Lead # Cont /\ Lead # Mark /\ Cont # Mark /\ Blank # Narrow
    /\ Blank \in Cell /\ Narrow \in Cell /\ Lead \in Cell /\ Cont \in Cell /\ Mark \in Cell
BY DEF Blank, Narrow, Lead, Cont, Mark, Cell

\* In a line without marks only the second half of a wide character has no width.
LEMMA Widths ==
    ASSUME NEW c \in Cell
    PROVE  /\ Width(c) = 0 <=> c = Cont \/ c = Mark
           /\ Width(c) = 2 <=> c = Lead
BY CellsDiffer DEF Width

LEMMA GridSize ==
    ASSUME NEW cols \in Nat \ {0}, NEW rows \in Nat \ {0}, NEW g, IsGrid(g, cols, rows)
    PROVE  /\ Cols(g) = cols /\ Rows(g) = rows /\ DOMAIN g = 0..(rows - 1)
           /\ \A r \in 0..(rows - 1) : g[r] \in Line(cols) /\ DOMAIN g[r] = 0..(cols - 1)
<1>1. /\ DOMAIN g = 0..(rows - 1)
      /\ \A r \in 0..(rows - 1) : g[r] \in Line(cols) /\ DOMAIN g[r] = 0..(cols - 1)
  BY DEF IsGrid, Line
<1>2. DOMAIN g[0] = 0..(cols - 1)
  BY <1>1
<1>3. Cardinality(0..(cols - 1)) = cols /\ Cardinality(0..(rows - 1)) = rows
  <2>1. /\ 0 \in Int /\ cols - 1 \in Int /\ rows - 1 \in Int
        /\ ~ (0 > cols - 1) /\ ~ (0 > rows - 1)
    OBVIOUS
  <2>2. Cardinality(0..(cols - 1)) = (cols - 1) - 0 + 1
    BY <2>1, FS_Interval
  <2>3. Cardinality(0..(rows - 1)) = (rows - 1) - 0 + 1
    BY <2>1, FS_Interval
  <2> QED
    BY <2>2, <2>3
<1> QED
  BY <1>1, <1>2, <1>3 DEF Cols, Rows

LEMMA BlankIsProper ==
    ASSUME NEW cols \in Nat \ {0}
    PROVE  Proper(BlankRow(cols), cols)
BY CellsDiffer DEF Proper, BlankRow, Line, Halved, Unmarked

\* A grid made of lines of another and of blank ones.
LEMMA NewGridIsGrid ==
    ASSUME NEW cols \in Nat \ {0}, NEW rows \in Nat \ {0}
    PROVE  /\ IsGrid(NewGrid(cols, rows), cols, rows)
           /\ ProperGrid(NewGrid(cols, rows), cols, rows)
BY BlankIsProper DEF NewGrid, IsGrid, ProperGrid, Proper

\* A step of a grid that leaves wide characters whole.
GridKeeps(g, h, cols, rows) ==
    IsGrid(h, cols, rows) /\ (ProperGrid(g, cols, rows) => ProperGrid(h, cols, rows))

LEMMA OneLineChanges ==
    ASSUME NEW cols \in Nat \ {0}, NEW rows \in Nat \ {0}, NEW g, IsGrid(g, cols, rows),
           NEW row \in 0..(rows - 1), NEW line \in Line(cols), NEW h,
           h = [g EXCEPT ![row] = line]
    PROVE  /\ IsGrid(h, cols, rows)
           /\ \A r \in 0..(rows - 1) : h[r] = IF r = row THEN line ELSE g[r]
           /\ (Proper(g[row], cols) => Proper(line, cols)) => GridKeeps(g, h, cols, rows)
<1>1. /\ IsGrid(h, cols, rows)
      /\ \A r \in 0..(rows - 1) : h[r] = IF r = row THEN line ELSE g[r]
  BY DEF IsGrid
<1>2. ASSUME ProperGrid(g, cols, rows), Proper(g[row], cols) => Proper(line, cols)
      PROVE  ProperGrid(h, cols, rows)
  BY <1>1, <1>2 DEF ProperGrid
<1> QED
  BY <1>1, <1>2 DEF GridKeeps

LEMMA LinesMove ==
    ASSUME NEW cols \in Nat \ {0}, NEW rows \in Nat \ {0}, NEW g, IsGrid(g, cols, rows),
           NEW h, h = [r \in 0..(rows - 1) |-> h[r]],
           \A r \in 0..(rows - 1) :
               h[r] = BlankRow(cols) \/ \E q \in 0..(rows - 1) : h[r] = g[q]
    PROVE  GridKeeps(g, h, cols, rows)
<1>1. BlankRow(cols) \in Line(cols) /\ Proper(BlankRow(cols), cols)
  BY BlankIsProper DEF Proper
<1>2. \A r \in 0..(rows - 1) : h[r] \in Line(cols)
  BY <1>1 DEF IsGrid
<1>3. IsGrid(h, cols, rows)
  BY <1>2 DEF IsGrid
<1>4. ProperGrid(g, cols, rows) => ProperGrid(h, cols, rows)
  BY <1>1 DEF ProperGrid
<1> QED
  BY <1>3, <1>4 DEF GridKeeps

LEMMA ScrollsKeep ==
    ASSUME NEW cols \in Nat \ {0}, NEW rows \in Nat \ {0}, NEW g, IsGrid(g, cols, rows),
           NEW top \in Nat, NEW bottom \in 0..(rows - 1), NEW n \in Nat
    PROVE  /\ GridKeeps(g, ScrollUp(g, top, bottom, n), cols, rows)
           /\ GridKeeps(g, ScrollDown(g, top, bottom, n), cols, rows)
<1>1. Cols(g) = cols /\ DOMAIN g = 0..(rows - 1)
  BY GridSize
<1>2. CASE n = 0
  BY <1>2 DEF ScrollUp, ScrollDown, GridKeeps
<1>3. CASE n # 0
  <2> DEFINE up == ScrollUp(g, top, bottom, n)
             down == ScrollDown(g, top, bottom, n)
  <2>1. /\ up = [r \in 0..(rows - 1) |-> up[r]]
        /\ \A r \in 0..(rows - 1) :
               up[r] = BlankRow(cols) \/ \E q \in 0..(rows - 1) : up[r] = g[q]
    BY <1>1, <1>3 DEF ScrollUp
  <2>2. /\ down = [r \in 0..(rows - 1) |-> down[r]]
        /\ \A r \in 0..(rows - 1) :
               down[r] = BlankRow(cols) \/ \E q \in 0..(rows - 1) : down[r] = g[q]
    BY <1>1, <1>3 DEF ScrollDown
  <2> HIDE DEF up, down
  <2>3. GridKeeps(g, up, cols, rows)
    BY <2>1, LinesMove
  <2>4. GridKeeps(g, down, cols, rows)
    BY <2>2, LinesMove
  <2> QED
    BY <2>3, <2>4 DEF up, down
<1> QED
  BY <1>2, <1>3

LEMMA EditedLinesKeep ==
    ASSUME NEW cols \in Nat \ {0}, NEW rows \in Nat \ {0}, NEW g, IsGrid(g, cols, rows),
           NEW row \in Nat, NEW bottom \in 0..(rows - 1), NEW n \in Nat
    PROVE  /\ GridKeeps(g, InsertLines(g, row, n, bottom), cols, rows)
           /\ GridKeeps(g, DeleteLines(g, row, n, bottom), cols, rows)
<1>1. LinesLeft(row, bottom, n) \in Nat
  BY DEF LinesLeft, Least
<1> QED
  BY <1>1, ScrollsKeep DEF InsertLines, DeleteLines

-----------------------------------------------------------------------------
(* What is done to the line of the cursor.                                 *)

LEMMA CutLeadIsLine ==
    ASSUME NEW cols \in Nat \ {0}, NEW line \in Line(cols), NEW col \in 0..(cols - 1)
    PROVE  /\ CutLead(line, col) \in Line(cols)
           /\ \A c \in 0..(cols - 1) :
                  CutLead(line, col)[c] = IF c = col - 1 /\ Width(line[col]) = 0
                                          THEN Blank ELSE line[c]
BY CellsDiffer DEF CutLead, Line

LEMMA ClearToEolKeeps ==
    ASSUME NEW cols \in Nat \ {0}, NEW rows \in Nat \ {0}, NEW g, IsGrid(g, cols, rows),
           NEW col \in 0..(cols - 1), NEW row \in 0..(rows - 1)
    PROVE  GridKeeps(g, ClearToEol(g, col, row), cols, rows)
<1> DEFINE from == IF col > 0 /\ Width(g[row][col]) = 0 THEN col - 1 ELSE col
           line == [c \in 0..(cols - 1) |-> IF c >= from THEN Blank ELSE g[row][c]]
           h == ClearToEol(g, col, row)
<1>1. /\ g[row] \in Line(cols) /\ DOMAIN g[row] = 0..(cols - 1) /\ row \in DOMAIN g
      /\ \A c \in 0..(cols - 1) : g[row][c] \in Cell
  BY GridSize DEF Line
<1>2. h = [g EXCEPT ![row] = line]
  BY <1>1 DEF ClearToEol
<1>3. line \in Line(cols)
  BY <1>1, CellsDiffer DEF Line
<1>4. ASSUME Proper(g[row], cols)
      PROVE  Proper(line, cols)
  <2>1. Width(g[row][col]) = 0 <=> g[row][col] = Cont
    BY <1>1, <1>4, Widths DEF Proper, Unmarked
  <2>2. from \in Int /\ (g[row][col] = Cont => from = col - 1)
        /\ (g[row][col] # Cont => from = col)
    BY <1>4, <2>1, CellsDiffer DEF Proper, Halved
  <2>3. \A c \in 0..(cols - 1) : line[c] = IF c >= from THEN Blank ELSE g[row][c]
    OBVIOUS
  <2> HIDE DEF line, from
  <2>4. Halved(line, cols) /\ Unmarked(line, cols)
    BY <1>4, <2>2, <2>3, CellsDiffer DEF Proper, Halved, Unmarked
  <2> QED
    BY <1>3, <2>4 DEF Proper
<1> HIDE DEF line, h
<1>5. GridKeeps(g, h, cols, rows)
  BY <1>2, <1>3, <1>4, OneLineChanges
<1> QED
  BY <1>5 DEF h

LEMMA ClearFromBolKeeps ==
    ASSUME NEW cols \in Nat \ {0}, NEW rows \in Nat \ {0}, NEW g, IsGrid(g, cols, rows),
           NEW col \in 0..(cols - 1), NEW row \in 0..(rows - 1)
    PROVE  GridKeeps(g, ClearFromBol(g, col, row), cols, rows)
<1> DEFINE to == IF col + 1 < Cols(g) /\ Width(g[row][col + 1]) = 0 THEN col + 1 ELSE col
           line == [c \in 0..(cols - 1) |-> IF c <= to THEN Blank ELSE g[row][c]]
           h == ClearFromBol(g, col, row)
<1>1. /\ g[row] \in Line(cols) /\ DOMAIN g[row] = 0..(cols - 1) /\ row \in DOMAIN g
      /\ \A c \in 0..(cols - 1) : g[row][c] \in Cell
      /\ Cols(g) = cols
  BY GridSize DEF Line
<1>2. h = [g EXCEPT ![row] = line]
  BY <1>1 DEF ClearFromBol
<1>3. line \in Line(cols)
  BY <1>1, CellsDiffer DEF Line
<1>4. ASSUME Proper(g[row], cols)
      PROVE  Proper(line, cols)
  <2>1. col + 1 < cols => (Width(g[row][col + 1]) = 0 <=> g[row][col + 1] = Cont)
    BY <1>1, <1>4, Widths DEF Proper, Unmarked
  <2>2. /\ to \in {col, col + 1}
        /\ to = col + 1 <=> col + 1 < cols /\ g[row][col + 1] = Cont
    BY <1>1, <2>1
  <2>3. \A c \in 0..(cols - 1) : line[c] = IF c <= to THEN Blank ELSE g[row][c]
    OBVIOUS
  <2> HIDE DEF line, to
  <2>4. Halved(line, cols) /\ Unmarked(line, cols)
    BY <1>4, <2>2, <2>3, CellsDiffer DEF Proper, Halved, Unmarked
  <2> QED
    BY <1>3, <2>4 DEF Proper
<1> HIDE DEF line, h
<1>5. GridKeeps(g, h, cols, rows)
  BY <1>2, <1>3, <1>4, OneLineChanges
<1> QED
  BY <1>5 DEF h

LEMMA ErasesKeep ==
    ASSUME NEW cols \in Nat \ {0}, NEW rows \in Nat \ {0}, NEW g, IsGrid(g, cols, rows),
           NEW col \in 0..(cols - 1), NEW row \in 0..(rows - 1)
    PROVE  /\ GridKeeps(g, EraseBelow(g, col, row), cols, rows)
           /\ GridKeeps(g, EraseAbove(g, col, row), cols, rows)
           /\ GridKeeps(g, ClearRow(g, row), cols, rows)
           /\ GridKeeps(g, ClearGrid(g), cols, rows)
<1>1. DOMAIN g = 0..(rows - 1) /\ Cols(g) = cols /\ Rows(g) = rows
  BY GridSize
<1>2. BlankRow(cols) \in Line(cols) /\ Proper(BlankRow(cols), cols)
  BY BlankIsProper DEF Proper
<1>3. GridKeeps(g, ClearToEol(g, col, row), cols, rows)
  BY ClearToEolKeeps
<1>4. GridKeeps(g, ClearFromBol(g, col, row), cols, rows)
  BY ClearFromBolKeeps
<1>5. GridKeeps(g, EraseBelow(g, col, row), cols, rows)
  BY <1>1, <1>2, <1>3 DEF EraseBelow, GridKeeps, IsGrid, ProperGrid
<1>6. GridKeeps(g, EraseAbove(g, col, row), cols, rows)
  BY <1>1, <1>2, <1>4 DEF EraseAbove, GridKeeps, IsGrid, ProperGrid
<1>7. GridKeeps(g, ClearRow(g, row), cols, rows)
  BY <1>1, <1>2, OneLineChanges DEF ClearRow
<1>8. GridKeeps(g, ClearGrid(g), cols, rows)
  BY <1>1, NewGridIsGrid DEF ClearGrid, GridKeeps
<1> QED
  BY <1>5, <1>6, <1>7, <1>8

LEMMA EraseCellsKeeps ==
    ASSUME NEW cols \in Nat \ {0}, NEW rows \in Nat \ {0}, NEW g, IsGrid(g, cols, rows),
           NEW col \in 0..(cols - 1), NEW row \in 0..(rows - 1), NEW n \in Nat \ {0}
    PROVE  GridKeeps(g, EraseCells(g, col, row, n), cols, rows)
<1> DEFINE end == Least(col + n, cols)
           to == IF end < cols /\ Width(g[row][end]) = 0 THEN end ELSE end - 1
           cut == CutLead(g[row], col)
           line == [c \in 0..(cols - 1) |-> IF c \in col..to THEN Blank ELSE cut[c]]
           h == EraseCells(g, col, row, n)
<1>1. /\ g[row] \in Line(cols) /\ row \in DOMAIN g /\ Cols(g) = cols
      /\ \A c \in 0..(cols - 1) : g[row][c] \in Cell
  BY GridSize DEF Line
<1>2. /\ cut \in Line(cols) /\ DOMAIN cut = 0..(cols - 1)
      /\ \A c \in 0..(cols - 1) :
             cut[c] = IF c = col - 1 /\ Width(g[row][col]) = 0 THEN Blank ELSE g[row][c]
  BY <1>1, CutLeadIsLine DEF Line
<1>3. h = [g EXCEPT ![row] = line]
  BY <1>1, <1>2 DEF EraseCells
<1>4. line \in Line(cols)
  BY <1>2, CellsDiffer DEF Line
<1>5. ASSUME Proper(g[row], cols)
      PROVE  Proper(line, cols)
  <2>1. \A c \in 0..(cols - 1) : Width(g[row][c]) = 0 <=> g[row][c] = Cont
    BY <1>1, <1>5, Widths DEF Proper, Unmarked
  <2>2. end \in Nat /\ end > col /\ end <= cols
    BY DEF Least
  <2>3. /\ to \in {end - 1, end}
        /\ to = end <=> end < cols /\ g[row][end] = Cont
    BY <2>1, <2>2
  <2> HIDE DEF to, end, cut
  <2>4. \A c \in 0..(cols - 1) :
            line[c] = IF c \in col..to \/ (c = col - 1 /\ g[row][col] = Cont)
                      THEN Blank ELSE g[row][c]
    BY <1>2, <2>1, <2>2, <2>3
  <2> HIDE DEF line
  <2>5. Halved(line, cols) /\ Unmarked(line, cols)
    BY <1>5, <2>2, <2>3, <2>4, CellsDiffer DEF Proper, Halved, Unmarked
  <2> QED
    BY <1>4, <2>5 DEF Proper
<1> HIDE DEF line, h
<1>6. GridKeeps(g, h, cols, rows)
  BY <1>3, <1>4, <1>5, OneLineChanges
<1> QED
  BY <1>6 DEF h

LEMMA DeleteCellsKeeps ==
    ASSUME NEW cols \in Nat \ {0}, NEW rows \in Nat \ {0}, NEW g, IsGrid(g, cols, rows),
           NEW col \in 0..(cols - 1), NEW row \in 0..(rows - 1), NEW count \in Nat \ {0}
    PROVE  GridKeeps(g, DeleteCells(g, col, row, count), cols, rows)
<1> DEFINE n == Least(count, cols - col)
           cut == CutLead(g[row], col)
           next == col + n
           orphan == next < cols /\ Width(cut[next]) = 0 /\ Width(cut[next - 1]) = 2
           joined == IF orphan THEN [cut EXCEPT ![next] = Blank] ELSE cut
           line == [c \in 0..(cols - 1) |->
                       IF c < col THEN joined[c] ELSE IF c + n < cols THEN joined[c + n] ELSE Blank]
           h == DeleteCells(g, col, row, count)
<1>1. /\ g[row] \in Line(cols) /\ row \in DOMAIN g /\ Cols(g) = cols
      /\ \A c \in 0..(cols - 1) : g[row][c] \in Cell
  BY GridSize DEF Line
<1>2. /\ cut \in Line(cols) /\ DOMAIN cut = 0..(cols - 1)
      /\ \A c \in 0..(cols - 1) :
             cut[c] = IF c = col - 1 /\ Width(g[row][col]) = 0 THEN Blank ELSE g[row][c]
  BY <1>1, CutLeadIsLine DEF Line
<1>3. n \in Nat /\ n > 0 /\ col + n <= cols
  BY DEF Least
<1> HIDE DEF n, cut
<1>4. /\ joined \in Line(cols) /\ DOMAIN joined = 0..(cols - 1)
      /\ \A c \in 0..(cols - 1) : joined[c] = IF c = next /\ orphan THEN Blank ELSE cut[c]
  BY <1>2, <1>3, CellsDiffer DEF Line
<1>5. h = [g EXCEPT ![row] = line]
  BY <1>1, <1>4 DEF DeleteCells, n, cut
<1>6. line \in Line(cols)
  BY <1>3, <1>4, CellsDiffer DEF Line
<1>7. ASSUME Proper(g[row], cols)
      PROVE  Proper(line, cols)
  <2>1. \A c \in 0..(cols - 1) : /\ Width(g[row][c]) = 0 <=> g[row][c] = Cont
                                 /\ Width(g[row][c]) = 2 <=> g[row][c] = Lead
    BY <1>1, <1>7, Widths DEF Proper, Unmarked
  <2>2. next < cols => cut[next] = g[row][next] /\ cut[next - 1] = g[row][next - 1]
    BY <1>2, <1>3
  <2>3. orphan <=> next < cols /\ g[row][next] = Cont
    BY <1>3, <1>7, <2>1, <2>2 DEF Proper, Halved
  <2> HIDE DEF orphan, joined
  <2>4. \A c \in 0..(col - 1) :
            line[c] = IF c = col - 1 /\ g[row][col] = Cont THEN Blank ELSE g[row][c]
    BY <1>2, <1>3, <1>4, <2>1
  <2>5. \A c \in col..(cols - 1) :
            line[c] = IF c + n < cols /\ ~(c = col /\ g[row][c + n] = Cont)
                      THEN g[row][c + n] ELSE Blank
    BY <1>2, <1>3, <1>4, <2>3
  <2> HIDE DEF line, next
  <2>6. Halved(line, cols) /\ Unmarked(line, cols)
    <3>1. ASSUME NEW c \in 0..(col - 1)
          PROVE  /\ line[c] # Mark
                 /\ line[c] = Lead => c + 1 < cols /\ line[c + 1] = Cont
                 /\ line[c] = Cont => c > 0 /\ line[c - 1] = Lead
      BY <1>3, <1>7, <2>4, <2>5, CellsDiffer DEF Proper, Halved, Unmarked
    <3>2. ASSUME NEW c \in col..(cols - 1)
          PROVE  /\ line[c] # Mark
                 /\ line[c] = Lead => c + 1 < cols /\ line[c + 1] = Cont
                 /\ line[c] = Cont => c > 0 /\ line[c - 1] = Lead
      BY <1>3, <1>7, <2>4, <2>5, CellsDiffer DEF Proper, Halved, Unmarked
    <3> QED
      BY <3>1, <3>2 DEF Halved, Unmarked
  <2> QED
    BY <1>6, <2>6 DEF Proper
<1> HIDE DEF line, h
<1>8. GridKeeps(g, h, cols, rows)
  BY <1>5, <1>6, <1>7, OneLineChanges
<1> QED
  BY <1>8 DEF h

LEMMA InsertCellsKeepsSize ==
    ASSUME NEW cols \in Nat \ {0}, NEW rows \in Nat \ {0}, NEW g, IsGrid(g, cols, rows),
           NEW col \in 0..(cols - 1), NEW row \in 0..(rows - 1), NEW count \in Nat \ {0}
    PROVE  IsGrid(InsertCells(g, col, row, count), cols, rows)
<1> DEFINE n == Least(count, cols - col)
           cut == CutLead(g[row], col)
           line == [c \in 0..(cols - 1) |-> IF c < col THEN cut[c]
                                           ELSE IF c < col + n THEN Blank ELSE cut[c - n]]
           edge == cols - n
           fix == /\ edge \in 1..(cols - 1) /\ Width(line[edge]) = 0
                  /\ Width(line[edge - 1]) # 2
           fixed == IF fix THEN [line EXCEPT ![edge] = Blank] ELSE line
           h == InsertCells(g, col, row, count)
<1>1. /\ g[row] \in Line(cols) /\ row \in DOMAIN g /\ Cols(g) = cols
  <2>1. /\ DOMAIN g = 0..(rows - 1) /\ Cols(g) = cols
        /\ \A r \in 0..(rows - 1) : g[r] \in Line(cols)
    BY GridSize
  <2> QED
    BY <2>1
<1>2. cut \in Line(cols) /\ DOMAIN cut = 0..(cols - 1)
  BY <1>1, CutLeadIsLine DEF Line
<1>3. n \in Nat /\ n > 0 /\ col + n <= cols
  BY DEF Least
<1> HIDE DEF n, cut
<1>4. line \in Line(cols)
  BY <1>2, <1>3, CellsDiffer DEF Line
<1>5. h = [g EXCEPT ![row] = fixed]
  BY <1>1, <1>2 DEF InsertCells, n, cut
<1> HIDE DEF line, h, fix
<1>6. fixed \in Line(cols)
  BY <1>4, CellsDiffer DEF Line
<1> HIDE DEF fixed
<1>7. IsGrid(h, cols, rows)
  BY <1>5, <1>6, OneLineChanges
<1> QED
  BY <1>7 DEF h

\* Printing.  A wide character needs the cell next to it; a mark is the only
\* one that leaves a mark.
LEMMA PutCharKeeps ==
    ASSUME NEW cols \in Nat \ {0}, NEW rows \in Nat \ {0}, NEW g, IsGrid(g, cols, rows),
           NEW col \in 0..(cols - 1), NEW row \in 0..(rows - 1), NEW ch \in Cell \ {Cont}
    PROVE  /\ IsGrid(PutChar(g, col, row, ch), cols, rows)
           /\ ProperGrid(g, cols, rows) /\ (ch = Lead => col + 1 < cols) =>
                /\ \A r \in 0..(rows - 1) : Halved(PutChar(g, col, row, ch)[r], cols)
                /\ ch # Mark => ProperGrid(PutChar(g, col, row, ch), cols, rows)
<1> DEFINE l1 == CutLead(g[row], col)
           l2 == IF Width(l1[col]) = 2 /\ col + 1 < cols
                 THEN [l1 EXCEPT ![col + 1] = Blank] ELSE l1
           l3 == IF ch = Lead /\ col + 2 < cols /\ Width(l2[col + 1]) = 2
                 THEN [l2 EXCEPT ![col + 2] = Blank] ELSE l2
           l4 == [l3 EXCEPT ![col] = ch]
           l5 == IF ch = Lead /\ col + 1 < cols THEN [l4 EXCEPT ![col + 1] = Cont] ELSE l4
           h == PutChar(g, col, row, ch)
<1>1. /\ g[row] \in Line(cols) /\ row \in DOMAIN g /\ Cols(g) = cols
      /\ \A c \in 0..(cols - 1) : g[row][c] \in Cell
  BY GridSize DEF Line
<1>2. h = [g EXCEPT ![row] = l5]
  BY <1>1 DEF PutChar
<1>3. /\ l1 \in Line(cols)
      /\ \A c \in 0..(cols - 1) :
             l1[c] = IF c = col - 1 /\ Width(g[row][col]) = 0 THEN Blank ELSE g[row][c]
  BY <1>1, CutLeadIsLine
<1> HIDE DEF l1
<1>4. /\ l2 \in Line(cols)
      /\ \A c \in 0..(cols - 1) :
             l2[c] = IF c = col + 1 /\ Width(l1[col]) = 2 THEN Blank ELSE l1[c]
  BY <1>3, CellsDiffer DEF Line
<1> HIDE DEF l2
<1>5. /\ l3 \in Line(cols)
      /\ \A c \in 0..(cols - 1) :
             l3[c] = IF c = col + 2 /\ ch = Lead /\ Width(l2[col + 1]) = 2
                     THEN Blank ELSE l2[c]
  BY <1>4, CellsDiffer DEF Line
<1> HIDE DEF l3
<1>6. /\ l5 \in Line(cols)
      /\ \A c \in 0..(cols - 1) :
             l5[c] = IF c = col THEN ch ELSE IF c = col + 1 /\ ch = Lead THEN Cont ELSE l3[c]
  BY <1>5, CellsDiffer DEF Line
<1> HIDE DEF l5, h
<1>7. ASSUME Proper(g[row], cols), ch = Lead => col + 1 < cols
      PROVE  Halved(l5, cols) /\ (ch # Mark => Unmarked(l5, cols))
  <2>1. \A c \in 0..(cols - 1) : /\ Width(g[row][c]) = 0 <=> g[row][c] = Cont
                                 /\ Width(g[row][c]) = 2 <=> g[row][c] = Lead
    BY <1>1, <1>7, Widths DEF Proper, Unmarked
  <2>2. \A c \in 0..(cols - 1) :
            l1[c] = IF c = col - 1 /\ g[row][col] = Cont THEN Blank ELSE g[row][c]
    BY <1>3, <2>1
  <2>3. Width(l1[col]) = 2 <=> g[row][col] = Lead
    BY <2>1, <2>2
  <2>4. \A c \in 0..(cols - 1) :
            l2[c] = IF \/ c = col - 1 /\ g[row][col] = Cont
                       \/ c = col + 1 /\ g[row][col] = Lead
                    THEN Blank ELSE g[row][c]
    BY <1>4, <2>2, <2>3
  <2>5. ch = Lead => (Width(l2[col + 1]) = 2 <=> g[row][col + 1] = Lead)
    <3>1. Width(Blank) # 2
      BY Widths, CellsDiffer
    <3>2. g[row][col] = Lead => g[row][col + 1] = Cont
      BY <1>7 DEF Proper, Halved
    <3> QED
      BY <1>7, <2>1, <2>4, <3>1, <3>2, CellsDiffer
  <2>6. \A c \in 0..(cols - 1) :
            l3[c] = IF \/ c = col - 1 /\ g[row][col] = Cont
                       \/ c = col + 1 /\ g[row][col] = Lead
                       \/ c = col + 2 /\ ch = Lead /\ g[row][col + 1] = Lead
                    THEN Blank ELSE g[row][c]
    BY <1>5, <2>4, <2>5
  <2>7. \A c \in 0..(cols - 1) :
            l5[c] = IF c = col THEN ch ELSE IF c = col + 1 /\ ch = Lead THEN Cont
                    ELSE IF \/ c = col - 1 /\ g[row][col] = Cont
                            \/ c = col + 1 /\ g[row][col] = Lead
                            \/ c = col + 2 /\ ch = Lead /\ g[row][col + 1] = Lead
                         THEN Blank ELSE g[row][c]
    BY <1>6, <2>6
  <2>8. Halved(l5, cols)
    BY <1>7, <2>7, CellsDiffer DEF Proper, Halved
  <2>9. ch # Mark => Unmarked(l5, cols)
    BY <1>7, <2>7, CellsDiffer DEF Proper, Unmarked
  <2> QED
    BY <2>8, <2>9
<1>8. /\ IsGrid(h, cols, rows)
      /\ \A r \in 0..(rows - 1) : h[r] = IF r = row THEN l5 ELSE g[r]
  <2>1. l5 \in Line(cols)
    BY <1>6
  <2>2. IsGrid(h, cols, rows)
    BY <1>2, <2>1, OneLineChanges
  <2>3. ASSUME NEW r \in 0..(rows - 1)
        PROVE  h[r] = IF r = row THEN l5 ELSE g[r]
    BY <1>2 DEF IsGrid
  <2> QED
    BY <2>2, <2>3
<1>9. ASSUME ProperGrid(g, cols, rows), ch = Lead => col + 1 < cols
      PROVE  /\ \A r \in 0..(rows - 1) : Halved(h[r], cols)
             /\ ch # Mark => ProperGrid(h, cols, rows)
  BY <1>6, <1>7, <1>8, <1>9 DEF ProperGrid, Proper
<1>10. /\ IsGrid(h, cols, rows)
       /\ ProperGrid(g, cols, rows) /\ (ch = Lead => col + 1 < cols) =>
            /\ \A r \in 0..(rows - 1) : Halved(h[r], cols)
            /\ ch # Mark => ProperGrid(h, cols, rows)
  BY <1>8, <1>9
<1> QED
  BY <1>10 DEF h

LEMMA PutCharElsewhere ==
    ASSUME NEW cols, NEW rows, NEW g, IsGrid(g, cols, rows), NEW col, NEW row, NEW ch
    PROVE  \A r \in 0..(rows - 1) : r \in {row} \/ PutChar(g, col, row, ch)[r] = g[r]
BY DEF PutChar, IsGrid

LEMMA ResizedIsGrid ==
    ASSUME NEW cols \in Nat \ {0}, NEW rows \in Nat \ {0}, NEW g, IsGrid(g, cols, rows),
           NEW c \in Nat \ {0}, NEW r \in Nat \ {0}
    PROVE  IsGrid(ResizeGrid(g, c, r), c, r)
<1>1. /\ Cols(g) = cols /\ Rows(g) = rows
      /\ \A i \in 0..(rows - 1) : \A j \in 0..(cols - 1) : g[i][j] \in Cell
  BY GridSize DEF Line
<1> QED
  BY <1>1, CellsDiffer DEF ResizeGrid, IsGrid, Line

-----------------------------------------------------------------------------
(* Terminals.                                                              *)

IsList(s) == Len(s) \in Nat /\ s = [i \in 1..Len(s) |-> s[i]]

StoreFields == {"images", "placements", "nextId", "kitty", "kittyData", "iterm", "itermData"}

\* A placement of a stored image.
InPlace(p, images) ==
    p \in [id : DOMAIN images, row : Int, lines : Nat]

\* Deletions are never sent in parts.
IsStore(s) ==
    /\ DOMAIN s = StoreFields /\ IsList(s.placements)
    /\ DOMAIN s.kitty = {"action", "id", "lines", "target"} /\ s.kitty.lines \in Nat
    /\ s.kitty.action # "delete"
    /\ \A i \in 1..Len(s.placements) : InPlace(s.placements[i], s.images)

\* A screen has the size the terminal says, and so have its tab stops and
\* margins; the cursor and the saved ones may be anywhere.
Core == {"main", "alt", "usingAlt", "cols", "rows", "col", "row", "wrap", "top", "bottom",
         "savedMain", "savedAlt", "tabs", "total", "store"}
Fields == Core \cup {"visible", "autoWrap", "linefeed", "history", "offset", "dcs",
                     "pending", "commands", "nextCommand"}

IsCursor(s) == s # Nothing => s.col \in Nat /\ s.row \in Nat

Sound(x) ==
    /\ DOMAIN x = Fields
    /\ x.cols \in Nat \ {0} /\ x.rows \in Nat \ {0} /\ x.usingAlt \in BOOLEAN
    /\ IsGrid(x.main, x.cols, x.rows) /\ IsGrid(x.alt, x.cols, x.rows)
    /\ x.col \in Nat /\ x.row \in Nat /\ x.wrap \in BOOLEAN
    /\ x.top \in 0..(x.rows - 1) /\ x.bottom \in 0..(x.rows - 1)
    /\ IsCursor(x.savedMain) /\ IsCursor(x.savedAlt)
    /\ x.tabs \subseteq 0..(x.cols - 1)
    /\ x.total \in Nat /\ IsStore(x.store)

\* The screen on display has whole wide characters and no marks.
Clean(x) == x.cols > 1 /\ ProperGrid(Screen(x), x.cols, x.rows)

\* What every handler does but those that the properties name.
Steady(x, y) ==
    Sound(y) /\ (Inside(x) => Inside(y)) /\ (AtEdge(x) => AtEdge(y))
Keeps(x, y) == Steady(x, y) /\ (Clean(x) => Clean(y))

LEMMA KeepsChain ==
    ASSUME NEW x, NEW y, NEW z, Keeps(x, y), Keeps(y, z)
    PROVE  Keeps(x, z)
BY DEF Keeps, Steady

\* Fields that none of this depends on.
LEMMA OtherFields ==
    ASSUME NEW x, Sound(x), NEW y, DOMAIN y = Fields, \A f \in Core : y[f] = x[f]
    PROVE  Keeps(x, y)
<1>1. /\ y.main = x.main /\ y.alt = x.alt /\ y.usingAlt = x.usingAlt /\ y.cols = x.cols
      /\ y.rows = x.rows /\ y.col = x.col /\ y.row = x.row /\ y.wrap = x.wrap /\ y.top = x.top
      /\ y.bottom = x.bottom /\ y.savedMain = x.savedMain /\ y.savedAlt = x.savedAlt
      /\ y.tabs = x.tabs /\ y.total = x.total /\ y.store = x.store
  BY DEF Core
<1> QED
  BY <1>1 DEF Keeps, Steady, Sound, Inside, AtEdge, Clean, Screen

LEMMA ScreenIsGrid ==
    ASSUME NEW x, Sound(x)
    PROVE  IsGrid(Screen(x), x.cols, x.rows)
BY DEF Sound, Screen

LEMMA ScreenChanges ==
    ASSUME NEW x, Sound(x), NEW g, IsGrid(g, x.cols, x.rows)
    PROVE  LET y == OnScreen(x, g) IN
           /\ Steady(x, y) /\ Screen(y) = g
           /\ \A f \in Fields \ {"main", "alt"} : y[f] = x[f]
           /\ GridKeeps(Screen(x), g, x.cols, x.rows) => Keeps(x, y)
<1> DEFINE y == OnScreen(x, g)
<1>1. /\ DOMAIN y = Fields /\ \A f \in Fields \ {"main", "alt"} : y[f] = x[f]
      /\ y.main = IF x.usingAlt THEN x.main ELSE g
      /\ y.alt = IF x.usingAlt THEN g ELSE x.alt
  BY DEF OnScreen, Sound, Fields, Core
<1> HIDE DEF y
<1>2. /\ y.usingAlt = x.usingAlt /\ y.cols = x.cols
      /\ y.rows = x.rows /\ y.col = x.col /\ y.row = x.row /\ y.wrap = x.wrap /\ y.top = x.top
      /\ y.bottom = x.bottom /\ y.savedMain = x.savedMain /\ y.savedAlt = x.savedAlt
      /\ y.tabs = x.tabs /\ y.total = x.total /\ y.store = x.store
  BY <1>1 DEF Core, Fields
<1>3. Sound(y)
  BY <1>1, <1>2 DEF Sound
<1>4. Steady(x, y) /\ Screen(y) = g
  BY <1>1, <1>2, <1>3 DEF Steady, Inside, AtEdge, Screen
<1>5. GridKeeps(Screen(x), g, x.cols, x.rows) => Keeps(x, y)
  BY <1>2, <1>4 DEF Keeps, Clean, GridKeeps
<1> QED
  BY <1>1, <1>4, <1>5 DEF y

\* The cursor is put somewhere.
Elsewhere == Core \ {"col", "row", "wrap"}

LEMMA CursorMoves ==
    ASSUME NEW x, Sound(x), NEW y, DOMAIN y = Fields, \A f \in Elsewhere : y[f] = x[f],
           y.col \in Nat, y.row \in Nat, y.wrap \in BOOLEAN
    PROVE  /\ Sound(y) /\ (Clean(x) => Clean(y)) /\ y.cols = x.cols /\ y.rows = x.rows
           /\ /\ Inside(x) => y.col < x.cols /\ y.row < x.rows
              /\ AtEdge(x) /\ y.wrap => AtEdge(y)
              => Keeps(x, y)
<1>1. /\ y.main = x.main /\ y.alt = x.alt /\ y.usingAlt = x.usingAlt /\ y.cols = x.cols
      /\ y.rows = x.rows /\ y.top = x.top
      /\ y.bottom = x.bottom /\ y.savedMain = x.savedMain /\ y.savedAlt = x.savedAlt
      /\ y.tabs = x.tabs /\ y.total = x.total /\ y.store = x.store
  BY DEF Elsewhere, Fields, Core
<1>2. Sound(y)
  BY <1>1 DEF Sound
<1>3. Clean(x) => Clean(y)
  BY <1>1 DEF Clean, Screen
<1> QED
  BY <1>1, <1>2, <1>3 DEF Keeps, Steady, Inside, AtEdge

LEMMA WrapEnds ==
    ASSUME NEW x, Sound(x), NEW y, DOMAIN y = Fields, \A f \in Elsewhere : y[f] = x[f],
           y.col \in Nat, y.row \in Nat, y.wrap = FALSE,
           Inside(x) => y.col < x.cols /\ y.row < x.rows
    PROVE  Keeps(x, y) /\ y.cols = x.cols /\ y.rows = x.rows
<1>1. y.wrap \in BOOLEAN /\ (AtEdge(x) /\ y.wrap => AtEdge(y))
  OBVIOUS
<1> QED
  BY <1>1, CursorMoves

LEMMA MoveToKeeps ==
    ASSUME NEW x, Sound(x), NEW c \in Nat, NEW r \in Nat,
           Inside(x) => c < x.cols /\ r < x.rows
    PROVE  LET y == MoveTo(x, c, r) IN
           Keeps(x, y) /\ y.col = c /\ y.row = r /\ y.cols = x.cols /\ y.rows = x.rows
<1> DEFINE y == MoveTo(x, c, r)
<1>1. /\ DOMAIN y = Fields /\ \A f \in Elsewhere : y[f] = x[f]
      /\ y.col = c /\ y.row = r /\ y.wrap = FALSE
  BY DEF MoveTo, Sound, Fields, Elsewhere, Core
<1> HIDE DEF y
<1>2. Keeps(x, y) /\ y.cols = x.cols /\ y.rows = x.rows
  BY <1>1, CursorMoves
<1> QED
  BY <1>1, <1>2 DEF y

\* Lines go into the history, and the images along.
LEMMA PushKeeps ==
    ASSUME NEW x, Sound(x), NEW n \in Nat, NEW m \in Nat, IsStore(ScrollImages(x.store, m))
    PROVE  LET y == PushLines(x, n, m) IN
           Keeps(x, y) /\ \A f \in Fields \ {"history", "total", "store"} : y[f] = x[f]
<1> DEFINE y == PushLines(x, n, m)
<1>1. /\ DOMAIN y = Fields /\ \A f \in Fields \ {"history", "total", "store"} : y[f] = x[f]
      /\ y.total = x.total + n /\ y.store = ScrollImages(x.store, m)
  BY DEF PushLines, Sound, Fields, Core
<1> HIDE DEF y
<1>2. /\ y.main = x.main /\ y.alt = x.alt /\ y.usingAlt = x.usingAlt /\ y.cols = x.cols
      /\ y.rows = x.rows /\ y.col = x.col /\ y.row = x.row /\ y.wrap = x.wrap /\ y.top = x.top
      /\ y.bottom = x.bottom /\ y.savedMain = x.savedMain /\ y.savedAlt = x.savedAlt
      /\ y.tabs = x.tabs
  BY <1>1 DEF Core, Fields
<1>3. Sound(y)
  BY <1>1, <1>2 DEF Sound
<1>4. Keeps(x, y)
  BY <1>2, <1>3 DEF Keeps, Steady, Inside, AtEdge, Clean, Screen
<1> QED
  BY <1>1, <1>4 DEF y

-----------------------------------------------------------------------------
(* Lists and images.                                                       *)

LEMMA ListsAreSequences ==
    ASSUME NEW s, IsList(s)
    PROVE  s \in Seq({s[i] : i \in 1..Len(s)}) /\ DOMAIN s = 1..Len(s) /\ Len(s) \in Nat
<1>1. s \in [1..Len(s) -> {s[i] : i \in 1..Len(s)}]
  BY DEF IsList
<1> QED
  BY <1>1 DEF IsList

LEMMA SequencesAreLists ==
    ASSUME NEW S, NEW s \in Seq(S)
    PROVE  IsList(s)
BY DEF IsList

LEMMA Longer ==
    ASSUME NEW s, IsList(s), NEW e
    PROVE  /\ IsList(Append(s, e)) /\ Len(Append(s, e)) = Len(s) + 1
           /\ Append(s, e)[Len(s) + 1] = e
           /\ \A i \in 1..Len(s) : Append(s, e)[i] = s[i]
<1> DEFINE S == {s[i] : i \in 1..Len(s)} \cup {e}
<1>1. s \in Seq(S) /\ Len(s) \in Nat
  <2>1. s \in [1..Len(s) -> S] /\ Len(s) \in Nat
    BY DEF IsList
  <2> QED
    BY <2>1
<1> HIDE DEF S
<1>2. e \in S
  BY DEF S
<1>3. Append(s, e) \in Seq(S)
  BY <1>1, <1>2, AppendProperties
<1>4. IsList(Append(s, e))
  BY <1>3, SequencesAreLists
<1>5. /\ Len(Append(s, e)) = Len(s) + 1
      /\ Append(s, e)[Len(s) + 1] = e
      /\ \A i \in 1..Len(s) : Append(s, e)[i] = s[i]
  BY <1>1, <1>2, AppendProperties
<1> QED
  BY <1>4, <1>5

\* What holds of 0, and of n + 1 when of n, holds of every number.
LEMMA Climb ==
    ASSUME NEW S, 0 \in S, \A n \in Nat : n \in S => n + 1 \in S
    PROVE  Nat \subseteq S
<1> SUFFICES ASSUME Nat \ S # {}
             PROVE  FALSE
  OBVIOUS
<1>1. PICK x \in Nat \ S : \A y \in Nat \ S : ~ (<<y, x>> \in OpToRel(<, Nat))
  BY NatLessThanWellFounded, WFMin
<1>2. x # 0 /\ x - 1 \in Nat /\ x - 1 < x
  OBVIOUS
<1>3. <<x - 1, x>> \in Nat \X Nat /\ <<x - 1, x>>[1] = x - 1 /\ <<x - 1, x>>[2] = x
  BY <1>2
<1>4. x - 1 \notin Nat \ S
  BY <1>1, <1>2, <1>3, Zenon DEF OpToRel
<1>5. (x - 1) + 1 \in S
  BY <1>2, <1>4
<1> QED
  BY <1>5

\* How a list is built of which only some members are kept: one by one.
LEMMA RetainedSteps ==
    ASSUME NEW S, NEW list \in Seq(S), NEW members
    PROVE  \E f : /\ f[0] = <<>> /\ Retained(list, members) = f[Len(list)]
                  /\ \A n \in 1..Len(list) :
                         f[n] = IF list[n] \in members THEN Append(f[n - 1], list[n]) ELSE f[n - 1]
<1> DEFINE size == Len(list)
           next(g, n) == IF n = 0 THEN <<>>
                         ELSE IF list[n] \in members THEN Append(g[n - 1], list[n]) ELSE g[n - 1]
           built(g, m) == g = [n \in 0..m |-> next(g, n)]
           some == {m \in Nat : \E g : built(g, m)}
           upTo == CHOOSE g : built(g, size)
<1> HIDE DEF next
<1>0. size \in Nat
  OBVIOUS
<1> HIDE DEF size
<1>1. 0 \in some
  <2> DEFINE g == [n \in 0..0 |-> <<>>]
  <2>1. \A n \in 0..0 : next(g, n) = <<>>
    BY DEF next
  <2>2. built(g, 0)
    BY <2>1
  <2> QED
    BY <2>2
<1>2. ASSUME NEW m \in Nat, m \in some
      PROVE  m + 1 \in some
  <2>1. PICK g : built(g, m)
    BY <1>2
  <2>5. \A n \in 0..m : g[n] = next(g, n)
    BY <2>1
  <2> DEFINE h == [n \in 0..(m + 1) |-> IF n = m + 1 THEN next(g, m + 1) ELSE g[n]]
  <2>2. ASSUME NEW n \in 0..(m + 1)
        PROVE  h[n] = next(h, n)
    <3>1. CASE n = 0
      <4>1. h[0] = g[0] /\ g[0] = next(g, 0)
        BY <2>5, <3>1
      <4> QED
        BY <3>1, <4>1 DEF next
    <3>2. CASE n # 0
      <4>1. n - 1 \in 0..m /\ h[n - 1] = g[n - 1]
        BY <3>2
      <4>2. next(h, n) = next(g, n)
        BY <3>2, <4>1 DEF next
      <4>3. n # m + 1 => n \in 0..m /\ g[n] = next(g, n)
        BY <2>5
      <4> QED
        BY <4>2, <4>3
    <3> QED
      BY <3>1, <3>2
  <2>3. h = [n \in 0..(m + 1) |-> h[n]]
    OBVIOUS
  <2>4. built(h, m + 1)
    BY <2>2, <2>3
  <2> HIDE DEF built, h
  <2> QED
    BY <2>4
<1>3. built(upTo, size)
  BY <1>0, <1>1, <1>2, Climb
<1>4. Retained(list, members) = upTo[size]
  BY DEF Retained, next, size
<1>5. \A n \in 0..size : upTo[n] = next(upTo, n)
  <2> HIDE DEF upTo
  <2> QED
    BY <1>3
<1> HIDE DEF built, some, upTo
<1>6. upTo[0] = <<>>
  BY <1>0, <1>5 DEF next
<1>7. \A n \in 1..size :
          upTo[n] = IF list[n] \in members THEN Append(upTo[n - 1], list[n]) ELSE upTo[n - 1]
  <2> SUFFICES ASSUME NEW n \in 1..size
               PROVE  upTo[n] = IF list[n] \in members THEN Append(upTo[n - 1], list[n])
                                                       ELSE upTo[n - 1]
    OBVIOUS
  <2>1. n \in 0..size /\ n # 0
    BY <1>0
  <2> QED
    BY <1>5, <2>1 DEF next
<1> QED
  BY <1>4, <1>6, <1>7 DEF size

\* The list that is kept has only members, and every member that the list had.
LEMMA RetainedIsList ==
    ASSUME NEW S, NEW list \in Seq(S), NEW members
    PROVE  LET r == Retained(list, members) IN
           /\ r \in Seq(S \cap members)
           /\ \A i \in 1..Len(list) : list[i] \in members => \E j \in 1..Len(r) : r[j] = list[i]
<1> DEFINE size == Len(list)
           T == S \cap members
<1>1. PICK f : /\ f[0] = <<>> /\ Retained(list, members) = f[size]
               /\ \A n \in 1..size :
                      f[n] = IF list[n] \in members THEN Append(f[n - 1], list[n]) ELSE f[n - 1]
  BY RetainedSteps
<1>2. size \in Nat /\ \A n \in 1..size : list[n] \in S
  OBVIOUS
<1> DEFINE has(n) == \A i \in 1..n : list[i] \in members => \E j \in 1..Len(f[n]) : f[n][j] = list[i]
           good == {n \in Nat : n <= size => f[n] \in Seq(T) /\ has(n)}
<1> HIDE DEF size, T
<1>3. 0 \in good
  <2>1. f[0] \in Seq(T)
    BY <1>1, EmptySeq
  <2>2. \A i \in 1..0 : FALSE
    OBVIOUS
  <2> QED
    BY <2>1, <2>2
<1>4. ASSUME NEW n \in Nat, n \in good
      PROVE  n + 1 \in good
  <2>1. CASE n + 1 <= size
    <3>1. f[n] \in Seq(T) /\ has(n) /\ n + 1 \in 1..size /\ (n + 1) - 1 = n
      BY <1>2, <1>4, <2>1
    <3>2. list[n + 1] \in S
      BY <1>2, <3>1
    <3>3. CASE list[n + 1] \in members
      <4>1. f[n + 1] = Append(f[n], list[n + 1]) /\ list[n + 1] \in T
        BY <1>1, <3>1, <3>2, <3>3 DEF T
      <4>2. /\ f[n + 1] \in Seq(T) /\ Len(f[n]) \in Nat
            /\ Len(f[n + 1]) = Len(f[n]) + 1
            /\ f[n + 1][Len(f[n]) + 1] = list[n + 1]
            /\ \A j \in 1..Len(f[n]) : f[n + 1][j] = f[n][j]
        BY <3>1, <4>1, AppendProperties
      <4>3. ASSUME NEW i \in 1..(n + 1), list[i] \in members
            PROVE  \E j \in 1..Len(f[n + 1]) : f[n + 1][j] = list[i]
        <5>1. CASE i = n + 1
          BY <4>2, <5>1
        <5>2. CASE i # n + 1
          <6>1. i \in 1..n
            BY <5>2
          <6>2. PICK j \in 1..Len(f[n]) : f[n][j] = list[i]
            BY <3>1, <4>3, <6>1
          <6> QED
            BY <4>2, <6>2
        <5> QED
          BY <5>1, <5>2
      <4> QED
        BY <4>2, <4>3
    <3>4. CASE list[n + 1] \notin members
      <4>1. f[n + 1] = f[n]
        BY <1>1, <3>1, <3>4
      <4>2. ASSUME NEW i \in 1..(n + 1), list[i] \in members
            PROVE  i \in 1..n
        BY <3>4, <4>2
      <4> QED
        BY <3>1, <4>1, <4>2
    <3> QED
      BY <3>3, <3>4
  <2> QED
    BY <2>1
<1>5. size \in good
  <2> HIDE DEF good
  <2> QED
    BY <1>2, <1>3, <1>4, Climb
<1> QED
  BY <1>1, <1>2, <1>5 DEF size, T

LEMMA RetainedPlacements ==
    ASSUME NEW s, IsList(s), NEW members
    PROVE  LET r == Retained(s, members) IN
           /\ IsList(r) /\ DOMAIN r = 1..Len(r)
           /\ \A i \in 1..Len(r) : r[i] \in members /\ \E j \in 1..Len(s) : r[i] = s[j]
           /\ \A j \in 1..Len(s) : s[j] \in members => \E i \in 1..Len(r) : r[i] = s[j]
<1> DEFINE S == {s[i] : i \in 1..Len(s)}
           r == Retained(s, members)
<1>1. s \in Seq(S)
  BY ListsAreSequences
<1>2. /\ r \in Seq(S \cap members)
      /\ \A i \in 1..Len(s) : s[i] \in members => \E j \in 1..Len(r) : r[j] = s[i]
  <2> HIDE DEF S
  <2> QED
    BY <1>1, RetainedIsList
<1> HIDE DEF r
<1>3. \A i \in 1..Len(r) : r[i] \in S \cap members
  BY <1>2
<1>4. IsList(r) /\ DOMAIN r = 1..Len(r)
  BY <1>2, SequencesAreLists
<1> QED
  BY <1>2, <1>3, <1>4 DEF r

\* A store has all that another had.
Grows(s, r) ==
    /\ DOMAIN s.images \subseteq DOMAIN r.images /\ Len(s.placements) <= Len(r.placements)
    /\ \A i \in 1..Len(s.placements) : r.placements[i] = s.placements[i]

LEMMA GrowsChain ==
    ASSUME NEW s, NEW r, NEW q, IsStore(s), IsStore(r), IsStore(q), Grows(s, r), Grows(r, q)
    PROVE  Grows(s, q)
BY DEF Grows, IsStore, IsList

LEMMA NewStoreIsStore == IsStore(NewStore)
BY DEF NewStore, NoCommand, IsStore, IsList, StoreFields

LEMMA OtherStoreFields ==
    ASSUME NEW s, IsStore(s), NEW r, DOMAIN r = StoreFields,
           r.images = s.images, r.placements = s.placements,
           DOMAIN r.kitty = DOMAIN s.kitty, r.kitty.lines \in Nat, r.kitty.action # "delete"
    PROVE  IsStore(r) /\ Grows(s, r)
BY DEF IsStore, Grows, IsList

LEMMA StoredIsStore ==
    ASSUME NEW s, IsStore(s), NEW id, NEW picture
    PROVE  /\ IsStore(StoreImage(s, id, picture)) /\ IsStore(TakeId(s))
           /\ Grows(s, StoreImage(s, id, picture)) /\ Grows(s, TakeId(s))
<1> DEFINE r == StoreImage(s, id, picture)
           q == TakeId(s)
<1>1. /\ DOMAIN r = StoreFields /\ r.placements = s.placements /\ r.kitty = s.kitty
      /\ DOMAIN r.images = DOMAIN s.images \cup {id}
  BY DEF StoreImage, IsStore, StoreFields
<1>2. /\ DOMAIN q = StoreFields /\ q.placements = s.placements /\ q.kitty = s.kitty
      /\ q.images = s.images
  BY DEF TakeId, IsStore, StoreFields
<1> HIDE DEF r, q
<1>3. IsStore(r) /\ IsStore(q)
  BY <1>1, <1>2 DEF IsStore, InPlace
<1>4. Grows(s, r) /\ Grows(s, q)
  BY <1>1, <1>2 DEF Grows, IsStore, IsList
<1> QED
  BY <1>3, <1>4 DEF r, q

LEMMA PlacedIsStore ==
    ASSUME NEW s, IsStore(s), NEW id \in DOMAIN s.images,
           NEW lines \in Nat, NEW row \in Nat, NEW rows \in Nat \ {0}
    PROVE  LET r == Place(s, id, lines, row, rows) IN IsStore(r) /\ Grows(s, r)
<1> DEFINE r == Place(s, id, lines, row, rows)
           p == [id |-> id, row |-> row, lines |-> Low(High(lines, 1), rows)]
<1>1. /\ DOMAIN r = StoreFields /\ r.placements = Append(s.placements, p)
      /\ r.images = s.images /\ r.kitty = s.kitty
  BY DEF Place, IsStore, StoreFields
<1>2. InPlace(p, r.images)
  <2>1. Low(High(lines, 1), rows) \in Nat
    BY DEF Low, High
  <2> QED
    BY <1>1, <2>1 DEF InPlace
<1> HIDE DEF r, p
<1>3. /\ IsList(Append(s.placements, p))
      /\ Len(Append(s.placements, p)) = Len(s.placements) + 1
      /\ Append(s.placements, p)[Len(s.placements) + 1] = p
      /\ \A i \in 1..Len(s.placements) : Append(s.placements, p)[i] = s.placements[i]
  BY Longer DEF IsStore
<1>4. Len(s.placements) \in Nat
  BY DEF IsStore, IsList
<1>5. \A i \in 1..Len(r.placements) : InPlace(r.placements[i], r.images)
  BY <1>1, <1>2, <1>3, <1>4 DEF IsStore
<1>6. IsStore(r)
  BY <1>1, <1>3, <1>5 DEF IsStore
<1>7. Grows(s, r)
  BY <1>1, <1>3, <1>4 DEF Grows
<1> QED
  BY <1>6, <1>7 DEF r

LEMMA DeletedIsStore ==
    ASSUME NEW s, IsStore(s), NEW id
    PROVE  IsStore(DeleteImage(s, id)) /\ IsStore(DeleteAll(s))
<1> DEFINE r == DeleteImage(s, id)
           members == {p \in Range(s.placements) : p.id # id}
           q == DeleteAll(s)
<1>1. /\ DOMAIN r = StoreFields /\ r.placements = Retained(s.placements, members)
      /\ r.images = Restrict(s.images, DOMAIN s.images \ {id}) /\ r.kitty = s.kitty
  BY DEF DeleteImage, IsStore, StoreFields
<1>2. /\ DOMAIN q = StoreFields /\ q.placements = <<>> /\ q.kitty = s.kitty
  BY DEF DeleteAll, IsStore, StoreFields
<1>3. /\ IsList(r.placements)
      /\ \A i \in 1..Len(r.placements) :
             r.placements[i] \in members /\ \E j \in 1..Len(s.placements) :
                                                r.placements[i] = s.placements[j]
  <2> HIDE DEF members
  <2>1. IsList(s.placements)
    BY DEF IsStore
  <2> QED
    BY <1>1, <2>1, RetainedPlacements
<1>4. DOMAIN r.images = DOMAIN s.images \ {id}
  BY <1>1 DEF Restrict
<1> HIDE DEF r, q
<1>5. \A i \in 1..Len(r.placements) : InPlace(r.placements[i], r.images)
  BY <1>3, <1>4 DEF IsStore, InPlace
<1>6. IsStore(r)
  BY <1>1, <1>3, <1>5 DEF IsStore
<1>7. IsStore(q)
  BY <1>2 DEF IsStore, IsList
<1> QED
  BY <1>6, <1>7 DEF r, q

\* The images of a store are in another, m lines further up, but for those that
\* would be off the screen.
Moved(p, m) == [p EXCEPT !.row = @ - m]

Carried(s, r, m) ==
    \A i \in 1..Len(s.placements) :
        LET p == s.placements[i]
        IN  p.row + p.lines > m =>
                /\ \E j \in 1..Len(r.placements) : r.placements[j] = Moved(p, m)
                /\ p.id \in DOMAIN r.images

LEMMA MovedBy ==
    ASSUME NEW images, NEW p, InPlace(p, images), NEW m \in Nat
    PROVE  /\ Moved(p, m).row = p.row - m /\ Moved(p, m).lines = p.lines
           /\ Moved(p, m).id = p.id /\ Moved(p, 0) = p
<1>1. p \in [id : DOMAIN images, row : Int, lines : Nat]
  BY DEF InPlace
<1> QED
  BY <1>1 DEF Moved

LEMMA MovesAddUp ==
    ASSUME NEW images, NEW p, InPlace(p, images), NEW m \in Nat, NEW n \in Nat
    PROVE  Moved(Moved(p, m), n) = Moved(p, m + n)
<1>1. p \in [id : DOMAIN images, row : Int, lines : Nat]
  BY DEF InPlace
<1> DEFINE at(k) == [id |-> p.id, row |-> k, lines |-> p.lines]
<1>2. \A k \in Nat : Moved(p, k) = at(p.row - k)
  BY <1>1 DEF Moved
<1>3. Moved(Moved(p, m), n) = at(p.row - m - n)
  <2>1. Moved(p, m) = at(p.row - m)
    BY <1>2
  <2>2. [at(p.row - m) EXCEPT !.row = @ - n] = at(p.row - m - n)
    OBVIOUS
  <2> QED
    BY <2>1, <2>2 DEF Moved
<1>4. m + n \in Nat /\ p.row - (m + n) = p.row - m - n
  BY <1>1
<1> QED
  BY <1>2, <1>3, <1>4

LEMMA MovedInPlace ==
    ASSUME NEW images, NEW p, InPlace(p, images), NEW m \in Nat
    PROVE  InPlace(Moved(p, m), images)
  BY DEF InPlace, Moved

LEMMA GrownAreCarried ==
    ASSUME NEW s, NEW r, IsStore(s), IsStore(r), Grows(s, r)
    PROVE  Carried(s, r, 0)
<1> SUFFICES ASSUME NEW i \in 1..Len(s.placements)
             PROVE  /\ \E j \in 1..Len(r.placements) : r.placements[j] = Moved(s.placements[i], 0)
                    /\ s.placements[i].id \in DOMAIN r.images
  BY DEF Carried
<1>1. InPlace(s.placements[i], s.images)
  BY DEF IsStore
<1>2. Moved(s.placements[i], 0) = s.placements[i] /\ s.placements[i].id \in DOMAIN s.images
  BY <1>1, MovedBy DEF InPlace
<1>3. i \in 1..Len(r.placements) /\ r.placements[i] = s.placements[i]
  BY DEF Grows, IsStore, IsList
<1> QED
  BY <1>2, <1>3 DEF Grows

LEMMA ScrolledIsStore ==
    ASSUME NEW s, IsStore(s), NEW m \in Nat
    PROVE  IsStore(ScrollImages(s, m)) /\ Carried(s, ScrollImages(s, m), m)
<1>1. CASE m = 0 \/ s.placements = <<>>
  <2>1. ScrollImages(s, m) = s
    BY <1>1 DEF ScrollImages
  <2>2. Grows(s, s)
    BY DEF Grows, IsStore, IsList
  <2>3. Carried(s, s, 0)
    BY <2>2, GrownAreCarried
  <2>4. s.placements = <<>> => Carried(s, s, m)
    BY DEF Carried
  <2> QED
    BY <1>1, <2>1, <2>3, <2>4
<1>3. CASE m # 0 /\ s.placements # <<>>
  <2> DEFINE r == ScrollImages(s, m)
             moved == [i \in DOMAIN s.placements |-> [s.placements[i] EXCEPT !.row = @ - m]]
             members == {p \in Range(moved) : p.row + p.lines > 0}
             kept == Retained(moved, members)
  <2>1. /\ DOMAIN r = StoreFields /\ r.placements = kept /\ r.kitty = s.kitty
        /\ r.images = Restrict(s.images, {kept[i].id : i \in DOMAIN kept} \cap DOMAIN s.images)
    BY <1>3 DEF ScrollImages, IsStore, StoreFields
  <2>2. DOMAIN s.placements = 1..Len(s.placements) /\ Len(s.placements) \in Nat
    BY ListsAreSequences DEF IsStore
  <2>3. IsList(moved) /\ Len(moved) = Len(s.placements) /\ DOMAIN moved = 1..Len(moved)
    BY <2>2 DEF IsList
  <2>4. \A i \in 1..Len(moved) :
            /\ InPlace(moved[i], s.images) /\ moved[i] = Moved(s.placements[i], m)
            /\ moved[i].row = s.placements[i].row - m /\ moved[i].lines = s.placements[i].lines
            /\ moved[i].id = s.placements[i].id
            /\ s.placements[i].row \in Int /\ s.placements[i].lines \in Nat
    <3>1. ASSUME NEW i \in 1..Len(s.placements)
          PROVE  /\ InPlace(moved[i], s.images) /\ moved[i] = Moved(s.placements[i], m)
                 /\ moved[i].row = s.placements[i].row - m
                 /\ moved[i].lines = s.placements[i].lines /\ moved[i].id = s.placements[i].id
                 /\ s.placements[i].row \in Int /\ s.placements[i].lines \in Nat
      <4>1. InPlace(s.placements[i], s.images) /\ moved[i] = Moved(s.placements[i], m)
        BY <2>2 DEF IsStore, Moved
      <4> HIDE DEF moved
      <4>2. /\ InPlace(moved[i], s.images) /\ moved[i].row = s.placements[i].row - m
            /\ moved[i].lines = s.placements[i].lines /\ moved[i].id = s.placements[i].id
        <5> DEFINE p == s.placements[i]
        <5>1. InPlace(p, s.images)
          BY <4>1
        <5> HIDE DEF p
        <5>2. /\ InPlace(Moved(p, m), s.images) /\ Moved(p, m).row = p.row - m
              /\ Moved(p, m).lines = p.lines /\ Moved(p, m).id = p.id
          BY <5>1, MovedBy, MovedInPlace
        <5> QED
          BY <4>1, <5>2 DEF p
      <4>3. s.placements[i].row \in Int /\ s.placements[i].lines \in Nat
        BY <4>1 DEF InPlace
      <4> QED
        BY <4>1, <4>2, <4>3
    <3> QED
      BY <2>3, <3>1
  <2>9. \A i \in 1..Len(moved) : moved[i].row + moved[i].lines > 0 => moved[i] \in members
    BY <2>3 DEF Range
  <2> HIDE DEF moved
  <2>5. /\ IsList(kept) /\ DOMAIN kept = 1..Len(kept)
        /\ \A i \in 1..Len(kept) :
               kept[i] \in members /\ \E j \in 1..Len(moved) : kept[i] = moved[j]
        /\ \A j \in 1..Len(moved) : moved[j] \in members => \E i \in 1..Len(kept) : kept[i] = moved[j]
    <3> HIDE DEF members
    <3> QED
      BY <2>3, RetainedPlacements
  <2> HIDE DEF kept, members
  <2>6. DOMAIN r.images = {kept[i].id : i \in DOMAIN kept} \cap DOMAIN s.images
    BY <2>1 DEF Restrict
  <2> HIDE DEF r
  <2>7. ASSUME NEW i \in 1..Len(kept) PROVE InPlace(kept[i], r.images)
    <3>1. PICK j \in 1..Len(moved) : kept[i] = moved[j]
      BY <2>5
    <3>2. InPlace(kept[i], s.images)
      BY <2>4, <3>1
    <3> DEFINE p == kept[i]
    <3>3. p \in [id : DOMAIN s.images, row : Int, lines : Nat]
      BY <3>2 DEF InPlace
    <3>4. i \in DOMAIN kept
      BY <2>5
    <3>5. p.id \in DOMAIN r.images
      BY <2>6, <3>3, <3>4
    <3> HIDE DEF p
    <3>6. InPlace(p, r.images)
      BY <3>3, <3>5 DEF InPlace
    <3> QED
      BY <3>6 DEF p
  <2>8. IsStore(r)
    <3>1. /\ DOMAIN r.kitty = {"action", "id", "lines", "target"} /\ r.kitty.lines \in Nat
          /\ r.kitty.action # "delete"
      BY <2>1 DEF IsStore
    <3>2. IsList(r.placements) /\ \A i \in 1..Len(r.placements) : InPlace(r.placements[i], r.images)
      BY <2>1, <2>5, <2>7
    <3> QED
      BY <2>1, <3>1, <3>2 DEF IsStore
  <2>10. ASSUME NEW i \in 1..Len(s.placements),
                s.placements[i].row + s.placements[i].lines > m
         PROVE  /\ \E j \in 1..Len(r.placements) : r.placements[j] = Moved(s.placements[i], m)
                /\ s.placements[i].id \in DOMAIN r.images
    <3>1. moved[i] \in members
      BY <2>3, <2>4, <2>9, <2>10
    <3>2. PICK j \in 1..Len(kept) : kept[j] = moved[i]
      BY <2>3, <2>5, <3>1
    <3>3. moved[i].id \in DOMAIN s.images
      BY <2>3, <2>4 DEF InPlace
    <3>4. /\ moved[i] = Moved(s.placements[i], m) /\ moved[i].id = s.placements[i].id
      BY <2>3, <2>4
    <3>5. r.placements[j] = Moved(s.placements[i], m) /\ j \in 1..Len(r.placements)
      BY <2>1, <3>2, <3>4
    <3>6. s.placements[i].id \in DOMAIN r.images
      <4>1. kept[j].id = s.placements[i].id /\ kept[j].id \in DOMAIN s.images
        BY <3>2, <3>3, <3>4
      <4>2. j \in DOMAIN kept
        BY <2>5, <3>2
      <4> QED
        BY <2>6, <4>1, <4>2
    <3> QED
      BY <3>5, <3>6
  <2>11. Carried(s, r, m)
    BY <2>10 DEF Carried
  <2> QED
    BY <2>8, <2>11 DEF r
<1> QED
  BY <1>1, <1>3

IsCommand(cmd) == DOMAIN cmd = {"action", "id", "lines", "target"} /\ cmd.lines \in Nat

LEMMA CommandedIsStore ==
    ASSUME NEW s, IsStore(s), NEW cmd, cmd.lines \in Nat, NEW data,
           NEW row \in Nat, NEW rows \in Nat \ {0}
    PROVE  LET r == KittyCommand(s, cmd, data, row, rows) IN
           IsStore(r) /\ (cmd.action # "delete" => Grows(s, r))
<1> DEFINE r == KittyCommand(s, cmd, data, row, rows)
<1>0. Grows(s, s)
  BY DEF Grows, IsStore, IsList
<1>1. CASE cmd.action \in {"transmit", "display"} /\ Decodes(data)
  <2> DEFINE id == IF cmd.id = 0 THEN s.nextId ELSE cmd.id
             s0 == IF cmd.id = 0 THEN TakeId(s) ELSE s
             s1 == StoreImage(s0, id, data[1])
  <2>1. r = IF cmd.action = "display" THEN Place(s1, id, cmd.lines, row, rows) ELSE s1
    BY <1>1 DEF KittyCommand
  <2>2. IsStore(s0) /\ Grows(s, s0)
    BY <1>0, StoredIsStore
  <2> HIDE DEF s0
  <2>3. IsStore(s1) /\ Grows(s0, s1)
    BY <2>2, StoredIsStore
  <2>4. id \in DOMAIN s1.images
    BY <2>2 DEF StoreImage, IsStore, StoreFields
  <2> HIDE DEF id, s1, r
  <2>5. /\ IsStore(Place(s1, id, cmd.lines, row, rows))
        /\ Grows(s1, Place(s1, id, cmd.lines, row, rows))
    BY <2>3, <2>4, PlacedIsStore
  <2>6. Grows(s, s1)
    BY <2>2, <2>3, GrowsChain
  <2>7. Grows(s, Place(s1, id, cmd.lines, row, rows))
    BY <2>3, <2>5, <2>6, GrowsChain
  <2>8. IsStore(r) /\ Grows(s, r)
    BY <2>1, <2>3, <2>5, <2>6, <2>7
  <2> QED
    BY <2>8 DEF r
<1>2. CASE ~(cmd.action \in {"transmit", "display"} /\ Decodes(data))
  <2>1. \/ cmd.id \in DOMAIN s.images /\ r = Place(s, cmd.id, cmd.lines, row, rows)
        \/ cmd.action = "delete" /\ r \in {DeleteImage(s, cmd.id), DeleteAll(s)}
        \/ r = s
    BY <1>2 DEF KittyCommand
  <2>2. IsStore(DeleteImage(s, cmd.id)) /\ IsStore(DeleteAll(s))
    BY DeletedIsStore
  <2>3. cmd.id \in DOMAIN s.images => /\ IsStore(Place(s, cmd.id, cmd.lines, row, rows))
                                      /\ Grows(s, Place(s, cmd.id, cmd.lines, row, rows))
    BY PlacedIsStore
  <2> HIDE DEF r
  <2>4. IsStore(r) /\ (cmd.action # "delete" => Grows(s, r))
    BY <1>0, <2>1, <2>2, <2>3
  <2> QED
    BY <2>4 DEF r
<1> QED
  BY <1>1, <1>2

LEMMA FedIsStore ==
    ASSUME NEW s, IsStore(s), NEW cmd, IsCommand(cmd), NEW data,
           NEW more, more => cmd.action # "delete", NEW row \in Nat, NEW rows \in Nat \ {0}
    PROVE  LET r == KittyFeed(s, cmd, data, more, row, rows) IN
           IsStore(r) /\ (cmd.action # "delete" => Grows(s, r))
<1> DEFINE held == IF s.kitty.action = "none" THEN cmd ELSE s.kitty
           all == s.kittyData \o data
           done == [s EXCEPT !.kitty = NoCommand, !.kittyData = <<>>]
           part == [s EXCEPT !.kitty = held, !.kittyData = all]
<1>1. KittyFeed(s, cmd, data, more, row, rows) =
          IF more THEN part ELSE KittyCommand(done, held, all, row, rows)
  BY DEF KittyFeed
<1>2. /\ DOMAIN held = DOMAIN s.kitty /\ held.lines \in Nat
      /\ cmd.action # "delete" => held.action # "delete"
      /\ DOMAIN NoCommand = DOMAIN s.kitty /\ NoCommand.lines \in Nat
      /\ NoCommand.action # "delete"
  BY DEF IsStore, IsCommand, NoCommand
<1> HIDE DEF held
<1>3. /\ DOMAIN done = StoreFields /\ done.images = s.images /\ done.placements = s.placements
      /\ done.kitty = NoCommand
      /\ DOMAIN part = StoreFields /\ part.images = s.images /\ part.placements = s.placements
      /\ part.kitty = held
  BY DEF IsStore, StoreFields
<1> HIDE DEF done, part, all
<1>4. IsStore(done) /\ Grows(s, done) /\ (more => IsStore(part) /\ Grows(s, part))
  BY <1>2, <1>3, OtherStoreFields
<1>5. /\ IsStore(KittyCommand(done, held, all, row, rows))
      /\ held.action # "delete" => Grows(done, KittyCommand(done, held, all, row, rows))
  BY <1>2, <1>4, CommandedIsStore
<1>6. cmd.action # "delete" => Grows(s, KittyCommand(done, held, all, row, rows))
  BY <1>2, <1>4, <1>5, GrowsChain
<1> QED
  BY <1>1, <1>4, <1>5, <1>6

LEMMA ShownIsStore ==
    ASSUME NEW s, IsStore(s), NEW data, NEW lines \in Nat,
           NEW row \in Nat, NEW rows \in Nat \ {0}
    PROVE  LET r == ShowImage(s, data, lines, row, rows) IN IsStore(r) /\ Grows(s, r)
<1> DEFINE s1 == StoreImage(TakeId(s), s.nextId, data[1])
           r == Place(s1, s.nextId, lines, row, rows)
<1>1. IsStore(TakeId(s)) /\ Grows(s, TakeId(s))
  BY StoredIsStore
<1>2. IsStore(s1) /\ Grows(TakeId(s), s1)
  BY <1>1, StoredIsStore
<1>3. s.nextId \in DOMAIN s1.images
  BY <1>1 DEF StoreImage, IsStore, StoreFields
<1>4. ShowImage(s, data, lines, row, rows) \in {s, r}
  BY DEF ShowImage
<1> HIDE DEF s1
<1>5. IsStore(r) /\ Grows(s1, r)
  BY <1>2, <1>3, PlacedIsStore
<1>6. Grows(s, s)
  BY DEF Grows, IsStore, IsList
<1> HIDE DEF r
<1>7. Grows(s, r)
  BY <1>1, <1>2, <1>5, GrowsChain
<1> QED
  BY <1>4, <1>5, <1>6, <1>7

LEMMA ItermIsStore ==
    ASSUME NEW s, IsStore(s), NEW data, NEW inline,
           NEW lines \in Nat, NEW row \in Nat, NEW rows \in Nat \ {0}
    PROVE  \A r \in {ItermBegin(s, inline), ItermPart(s, data), ItermEnd(s, lines, row, rows)} :
               IsStore(r) /\ Grows(s, r)
<1> DEFINE begun == ItermBegin(s, inline)
           part == ItermPart(s, data)
           done == [s EXCEPT !.iterm = "none", !.itermData = <<>>]
<1>1. \A r \in {begun, part, done} :
          /\ DOMAIN r = StoreFields /\ r.images = s.images /\ r.placements = s.placements
          /\ r.kitty = s.kitty
  BY DEF ItermBegin, ItermPart, IsStore, StoreFields
<1>2. ItermEnd(s, lines, row, rows) \in {done, ShowImage(done, s.itermData, lines, row, rows)}
  BY DEF ItermEnd
<1> HIDE DEF begun, part, done
<1>3. \A r \in {begun, part, done} : IsStore(r) /\ Grows(s, r)
  BY <1>1, OtherStoreFields DEF IsStore
<1> DEFINE shown == ShowImage(done, s.itermData, lines, row, rows)
<1>4. IsStore(shown) /\ Grows(done, shown)
  BY <1>3, ShownIsStore
<1> HIDE DEF shown
<1>5. Grows(s, shown)
  BY <1>3, <1>4, GrowsChain
<1> QED
  BY <1>2, <1>3, <1>4, <1>5 DEF begun, part, shown

-----------------------------------------------------------------------------
(* How far a terminal's images and its text go up together.                *)

\* The main screen's region moved up by the lines that are new in the history,
\* with the images on it; the text that came to the rows in W may be another.
Comes(x, y, n) ==
    \A i \in 1..Len(x.store.placements) :
        LET p == x.store.placements[i]
        IN  Within(x, p) /\ p.row + p.lines > n =>
                /\ \E j \in 1..Len(y.store.placements) : y.store.placements[j] = Moved(p, n)
                /\ p.id \in DOMAIN y.store.images

Climbs(x, y, W) ==
    LET n == y.total - x.total
    IN  /\ n \in Nat /\ y.rows = x.rows /\ y.top = x.top /\ y.bottom = x.bottom
        /\ Comes(x, y, n)
        /\ x.top = 0 => \A r \in n..x.bottom : r - n \in W \/ y.main[r - n] = x.main[r]

LEMMA ClimbsChain ==
    ASSUME NEW x, NEW y, NEW z, Sound(x), Sound(y), Sound(z), NEW V, NEW W,
           Climbs(x, y, V), Climbs(y, z, W), V = {} \/ W = Int
    PROVE  Climbs(x, z, W)
<1> DEFINE m == y.total - x.total
           n == z.total - y.total
<1>1. m \in Nat /\ n \in Nat /\ z.total - x.total = m + n /\ m + n \in Nat
  BY DEF Climbs, Sound
<1>2. /\ Comes(x, y, m) /\ Comes(y, z, n)
      /\ y.rows = x.rows /\ y.top = x.top /\ y.bottom = x.bottom
      /\ z.rows = y.rows /\ z.top = y.top /\ z.bottom = y.bottom
      /\ x.top = 0 => \A r \in m..x.bottom : r - m \in V \/ y.main[r - m] = x.main[r]
      /\ y.top = 0 => \A r \in n..y.bottom : r - n \in W \/ z.main[r - n] = y.main[r]
  BY DEF Climbs
<1> HIDE DEF m, n
<1>3. ASSUME NEW i \in 1..Len(x.store.placements), Within(x, x.store.placements[i]),
             x.store.placements[i].row + x.store.placements[i].lines > m + n
      PROVE  /\ \E j \in 1..Len(z.store.placements) :
                    z.store.placements[j] = Moved(x.store.placements[i], m + n)
             /\ x.store.placements[i].id \in DOMAIN z.store.images
  <2> DEFINE p == x.store.placements[i]
  <2>1. InPlace(p, x.store.images) /\ Within(x, p)
    BY <1>3 DEF Sound, IsStore
  <2>2. p.row \in Int /\ p.lines \in Nat /\ p.row + p.lines > m + n
    BY <1>3, <2>1 DEF InPlace
  <2>3. p.row + p.lines > m
    BY <1>1, <2>2
  <2>4. /\ \E j \in 1..Len(y.store.placements) : y.store.placements[j] = Moved(p, m)
        /\ p.id \in DOMAIN y.store.images
    BY <1>2, <1>3, <2>3 DEF Comes
  <2> HIDE DEF p
  <2>5. PICK j \in 1..Len(y.store.placements) : y.store.placements[j] = Moved(p, m)
    BY <2>4
  <2>6. /\ Moved(p, m).row = p.row - m /\ Moved(p, m).lines = p.lines
        /\ Moved(p, m).id = p.id /\ Moved(Moved(p, m), n) = Moved(p, m + n)
    <3>1. InPlace(p, x.store.images)
      BY <2>1
    <3>2. /\ Moved(p, m).row = p.row - m /\ Moved(p, m).lines = p.lines
          /\ Moved(p, m).id = p.id
      BY <1>1, <3>1, MovedBy
    <3>3. Moved(Moved(p, m), n) = Moved(p, m + n)
      BY <1>1, <3>1, MovesAddUp
    <3> QED
      BY <3>2, <3>3
  <2>7. Within(y, Moved(p, m)) /\ Moved(p, m).row + Moved(p, m).lines > n
    <3>1. x.bottom \in Nat
      BY DEF Sound
    <3> QED
      BY <1>1, <1>2, <2>1, <2>2, <2>6, <3>1 DEF Within
  <2>8. /\ \E k \in 1..Len(z.store.placements) : z.store.placements[k] = Moved(Moved(p, m), n)
        /\ Moved(p, m).id \in DOMAIN z.store.images
    BY <1>2, <2>5, <2>7 DEF Comes
  <2> QED
    BY <2>6, <2>8 DEF p
<1>4. Comes(x, z, m + n)
  BY <1>3 DEF Comes
<1>5. ASSUME x.top = 0, NEW r \in (m + n)..x.bottom
      PROVE  r - (m + n) \in W \/ z.main[r - (m + n)] = x.main[r]
  <2>1. x.bottom \in Nat
    BY DEF Sound
  <2>2. r \in m..x.bottom /\ r - m \in n..y.bottom /\ (r - m) - n = r - (m + n) /\ r - (m + n) \in Int
    BY <1>1, <1>2, <2>1
  <2>3. r - m \in V \/ y.main[r - m] = x.main[r]
    BY <1>2, <1>5, <2>2
  <2>4. (r - m) - n \in W \/ z.main[(r - m) - n] = y.main[r - m]
    BY <1>2, <1>5, <2>2
  <2> QED
    BY <2>2, <2>3, <2>4
<1> QED
  BY <1>1, <1>2, <1>4, <1>5 DEF Climbs

LEMMA ClimbsWider ==
    ASSUME NEW x, NEW y, NEW V, NEW W, Climbs(x, y, V), V \subseteq W
    PROVE  Climbs(x, y, W)
  BY DEF Climbs

\* Handlers that only add images, or write to one line.
LEMMA GrowingClimbs ==
    ASSUME NEW x, NEW y, Sound(x), Sound(y), NEW W, y.total = x.total, y.rows = x.rows,
           y.top = x.top, y.bottom = x.bottom, Grows(x.store, y.store),
           \A r \in 0..(x.rows - 1) : r \in W \/ y.main[r] = x.main[r]
    PROVE  Climbs(x, y, W)
<1>1. y.total - x.total = 0 /\ x.bottom \in 0..(x.rows - 1) /\ x.rows \in Nat
  BY DEF Sound
<1>2. Carried(x.store, y.store, 0)
  BY GrownAreCarried DEF Sound
<1>3. Comes(x, y, 0)
  BY <1>2 DEF Carried, Comes
<1>4. \A r \in 0..x.bottom : r - 0 \in W \/ y.main[r - 0] = x.main[r]
  BY <1>1
<1> QED
  BY <1>1, <1>3, <1>4 DEF Climbs

LEMMA SameClimbs ==
    ASSUME NEW x, NEW y, Sound(x), Sound(y), y.total = x.total, y.rows = x.rows,
           y.top = x.top, y.bottom = x.bottom, y.store = x.store, y.main = x.main
    PROVE  Climbs(x, y, {})
<1>1. Grows(x.store, y.store)
  BY DEF Grows, Sound, IsStore, IsList
<1> QED
  BY <1>1, GrowingClimbs

LEMMA ElsewhereClimbs ==
    ASSUME NEW x, NEW y, Sound(x), Sound(y), \A f \in Elsewhere : y[f] = x[f]
    PROVE  Climbs(x, y, {})
<1>1. /\ y.total = x.total /\ y.rows = x.rows /\ y.top = x.top /\ y.bottom = x.bottom
      /\ y.store = x.store /\ y.main = x.main
  BY DEF Elsewhere, Core
<1> QED
  BY <1>1, SameClimbs

\* Nothing went into the history: the lines are those they were, or the region
\* does not start at the top.
LEMMA StandingClimbs ==
    ASSUME NEW x, NEW y, Sound(x), Sound(y), y.total = x.total, y.rows = x.rows,
           y.top = x.top, y.bottom = x.bottom, y.store = x.store,
           x.top # 0 \/ y.main = x.main
    PROVE  Climbs(x, y, {})
<1>1. CASE y.main = x.main
  BY <1>1, SameClimbs
<1>2. CASE x.top # 0
  <2>1. Grows(x.store, y.store) /\ y.total - x.total = 0
    BY DEF Grows, Sound, IsStore, IsList
  <2>2. Carried(x.store, y.store, 0)
    BY <2>1, GrownAreCarried DEF Sound
  <2> QED
    BY <1>2, <2>1, <2>2 DEF Climbs, Comes, Carried
<1> QED
  BY <1>1, <1>2

\* The lines of a region go up by m, n of them into the history: all of these,
\* or the whole region.
LEMMA ScrollingClimbs ==
    ASSUME NEW x, NEW y, Sound(x), Sound(y), x.top = 0, NEW m \in Nat \ {0}, NEW n \in Nat,
           n = m \/ (n = x.bottom + 1 /\ m >= n),
           y.rows = x.rows, y.top = x.top, y.bottom = x.bottom, y.total = x.total + n,
           y.store = ScrollImages(x.store, m), y.main = ScrollUp(x.main, 0, x.bottom, m)
    PROVE  Climbs(x, y, {})
<1>1. y.total - x.total = n /\ x.bottom \in 0..(x.rows - 1) /\ x.rows \in Nat
  BY DEF Sound
<1>2. Carried(x.store, y.store, m)
  BY ScrolledIsStore DEF Sound
<1>3. ASSUME NEW i \in 1..Len(x.store.placements), Within(x, x.store.placements[i]),
             x.store.placements[i].row + x.store.placements[i].lines > n
      PROVE  /\ \E j \in 1..Len(y.store.placements) :
                    y.store.placements[j] = Moved(x.store.placements[i], n)
             /\ x.store.placements[i].id \in DOMAIN y.store.images
  <2>1. InPlace(x.store.placements[i], x.store.images)
    BY DEF Sound, IsStore
  <2>2. n = m
    BY <1>1, <1>3, <2>1 DEF Within, InPlace
  <2> QED
    BY <1>2, <1>3, <2>2 DEF Carried
<1>4. Comes(x, y, n)
  BY <1>3 DEF Comes
<1>5. ASSUME NEW r \in n..x.bottom
      PROVE  y.main[r - n] = x.main[r]
  <2>1. n = m /\ r - n \in 0..x.bottom /\ r - n # x.bottom /\ (r - n) + m <= x.bottom
        /\ (r - n) + m = r
    BY <1>1
  <2>2. DOMAIN x.main = 0..(x.rows - 1) /\ r - n \in 0..(x.rows - 1)
    BY <1>1, <2>1 DEF Sound, IsGrid
  <2> QED
    BY <2>1, <2>2 DEF ScrollUp
<1> QED
  BY <1>1, <1>4, <1>5 DEF Climbs

-----------------------------------------------------------------------------
(* Lines that are fed, and the text that goes on below an image.           *)

\* What a line feed leaves alone.
Stays == {"cols", "rows", "col", "wrap", "usingAlt", "autoWrap", "linefeed", "top", "bottom",
          "tabs", "savedMain", "savedAlt"}

LEMMA NewlineKeeps ==
    ASSUME NEW x, Sound(x)
    PROVE  /\ Keeps(x, Newline(x)) /\ Climbs(x, Newline(x), {})
           /\ \A f \in Stays : Newline(x)[f] = x[f]
<1> DEFINE y == Newline(x)
<1>1. CASE x.row = x.bottom
  <2> DEFINE p == IF x.top = 0 /\ ~x.usingAlt THEN PushLines(x, 1, 1) ELSE x
             g == ScrollUp(Screen(p), x.top, x.bottom, 1)
  <2>1. y = OnScreen(p, g)
    BY <1>1 DEF Newline
  <2>2. IsStore(ScrollImages(x.store, 1))
    <3>1. 1 \in Nat /\ IsStore(x.store)
      BY DEF Sound
    <3> QED
      BY <3>1, ScrolledIsStore
  <2>3. Keeps(x, x)
    BY DEF Keeps, Steady
  <2>4. Keeps(x, p) /\ \A f \in Fields \ {"history", "total", "store"} : p[f] = x[f]
    BY <2>2, <2>3, PushKeeps
  <2> HIDE DEF p
  <2>5. Sound(p) /\ p.cols = x.cols /\ p.rows = x.rows
    BY <2>4 DEF Keeps, Steady, Fields, Core
  <2>6. IsGrid(Screen(p), x.cols, x.rows)
    BY <2>5, ScreenIsGrid
  <2>7. GridKeeps(Screen(p), g, x.cols, x.rows)
    BY <2>6, ScrollsKeep DEF Sound
  <2> HIDE DEF g, y
  <2>8. Keeps(p, y) /\ \A f \in Fields \ {"main", "alt"} : y[f] = p[f]
    BY <2>1, <2>5, <2>7, ScreenChanges DEF GridKeeps
  <2>9. \A f \in Stays : y[f] = x[f]
    BY <2>4, <2>8 DEF Stays, Fields, Core
  <2>10. Keeps(x, y)
    BY <2>4, <2>8, KeepsChain
  <2>11. Sound(y)
    BY <2>10 DEF Keeps, Steady
  <2>12. /\ y.rows = x.rows /\ y.top = x.top /\ y.bottom = x.bottom
         /\ y.main = IF x.usingAlt THEN x.main ELSE ScrollUp(x.main, x.top, x.bottom, 1)
    <3>1. p.main = x.main /\ p.alt = x.alt /\ p.usingAlt = x.usingAlt /\ p.rows = x.rows
          /\ p.top = x.top /\ p.bottom = x.bottom
      BY <2>4 DEF Fields, Core
    <3>2. y.rows = p.rows /\ y.top = p.top /\ y.bottom = p.bottom
      BY <2>8 DEF Fields, Core
    <3>3. y.main = IF p.usingAlt THEN p.main ELSE g
      BY <2>1, <2>5 DEF OnScreen, Sound, Fields, Core
    <3>4. g = ScrollUp(Screen(p), x.top, x.bottom, 1)
      BY DEF g
    <3> QED
      BY <3>1, <3>2, <3>3, <3>4 DEF Screen
  <2>13. Climbs(x, y, {})
    <3>1. y.total = p.total /\ y.store = p.store
      BY <2>8 DEF Fields, Core
    <3>2. CASE x.top = 0 /\ ~x.usingAlt
      <4>1. p.total = x.total + 1 /\ p.store = ScrollImages(x.store, 1)
        BY <3>2 DEF p, PushLines, Sound, Fields, Core
      <4>2. 1 \in Nat \ {0}
        OBVIOUS
      <4> QED
        BY <2>11, <2>12, <3>1, <3>2, <4>1, <4>2, ScrollingClimbs
    <3>3. CASE ~(x.top = 0 /\ ~x.usingAlt)
      <4>1. y.total = x.total /\ y.store = x.store
        BY <3>1, <3>3 DEF p
      <4> QED
        BY <2>11, <2>12, <3>3, <4>1, StandingClimbs
    <3> QED
      BY <3>2, <3>3
  <2> QED
    BY <2>9, <2>10, <2>13 DEF y
<1>2. CASE x.row # x.bottom
  <2>1. y = [x EXCEPT !.row = ClampRow(x, x.row + 1)]
    BY <1>2 DEF Newline
  <2>2. ClampRow(x, x.row + 1) \in 0..(x.rows - 1)
    BY DEF ClampRow, Least, Sound
  <2>3. /\ DOMAIN y = Fields /\ \A f \in Fields \ {"row"} : y[f] = x[f]
        /\ y.row \in 0..(x.rows - 1)
    BY <2>1, <2>2 DEF Sound, Fields, Core
  <2> HIDE DEF y
  <2>4. /\ y.col = x.col /\ y.wrap = x.wrap /\ y.cols = x.cols
        /\ \A f \in Elsewhere : y[f] = x[f]
    BY <2>3 DEF Fields, Core, Elsewhere
  <2>5. /\ y.col \in Nat /\ y.wrap \in BOOLEAN /\ y.row \in Nat
        /\ Inside(x) => y.col < x.cols /\ y.row < x.rows
        /\ AtEdge(x) /\ y.wrap => AtEdge(y)
    BY <2>3, <2>4 DEF Sound, Inside, AtEdge
  <2>6. Keeps(x, y)
    BY <2>3, <2>4, <2>5, CursorMoves
  <2>7. \A f \in Stays : y[f] = x[f]
    BY <2>3 DEF Stays, Fields, Core
  <2>8. Climbs(x, y, {})
    <3>1. /\ y.total = x.total /\ y.rows = x.rows /\ y.top = x.top /\ y.bottom = x.bottom
          /\ y.store = x.store /\ y.main = x.main
      BY <2>3 DEF Fields, Core
    <3> QED
      BY <2>6, <3>1, SameClimbs DEF Keeps, Steady
  <2> QED
    BY <2>6, <2>7, <2>8 DEF y
<1> QED
  BY <1>1, <1>2

LEMMA NewlinesKeep ==
    ASSUME NEW x, Sound(x), NEW size \in Nat
    PROVE  Keeps(x, Newlines(x, size)) /\ Climbs(x, Newlines(x, size), {})
<1> DEFINE next(g, n) == IF n = 0 THEN x ELSE Newline(g[n - 1])
           built(g, m) == g = [n \in 0..m |-> next(g, n)]
           some == {m \in Nat : \E g : built(g, m)}
           after == CHOOSE g : built(g, size)
           good == {n \in Nat : n <= size => Keeps(x, after[n]) /\ Climbs(x, after[n], {})}
<1> HIDE DEF next
<1>1. 0 \in some
  <2> DEFINE g == [n \in 0..0 |-> x]
  <2>1. \A n \in 0..0 : next(g, n) = x
    BY DEF next
  <2>2. built(g, 0)
    BY <2>1
  <2> QED
    BY <2>2
<1>2. ASSUME NEW m \in Nat, m \in some
      PROVE  m + 1 \in some
  <2>1. PICK g : built(g, m)
    BY <1>2
  <2>5. \A n \in 0..m : g[n] = next(g, n)
    BY <2>1
  <2> DEFINE h == [n \in 0..(m + 1) |-> IF n = m + 1 THEN next(g, m + 1) ELSE g[n]]
  <2>2. ASSUME NEW n \in 0..(m + 1)
        PROVE  h[n] = next(h, n)
    <3>1. CASE n = 0
      <4>1. h[0] = g[0] /\ g[0] = next(g, 0)
        BY <2>5, <3>1
      <4> QED
        BY <3>1, <4>1 DEF next
    <3>2. CASE n # 0
      <4>1. n - 1 \in 0..m /\ h[n - 1] = g[n - 1]
        BY <3>2
      <4>2. next(h, n) = next(g, n)
        BY <3>2, <4>1 DEF next
      <4>3. n # m + 1 => n \in 0..m /\ g[n] = next(g, n)
        BY <2>5
      <4> QED
        BY <4>2, <4>3
    <3> QED
      BY <3>1, <3>2
  <2>3. h = [n \in 0..(m + 1) |-> h[n]]
    OBVIOUS
  <2>4. built(h, m + 1)
    BY <2>2, <2>3
  <2> HIDE DEF built, h
  <2> QED
    BY <2>4
<1>3. built(after, size)
  BY <1>1, <1>2, Climb
<1>4. Newlines(x, size) = after[size]
  BY DEF Newlines, next
<1>5. \A n \in 0..size : after[n] = next(after, n)
  <2> HIDE DEF after
  <2> QED
    BY <1>3
<1> HIDE DEF built, some, after
<1>6. 0 \in good
  <2>1. after[0] = x
    BY <1>5 DEF next
  <2>2. Climbs(x, x, {})
    BY SameClimbs
  <2> QED
    BY <2>1, <2>2 DEF Keeps, Steady
<1>7. ASSUME NEW n \in Nat, n \in good
      PROVE  n + 1 \in good
  <2>1. CASE n + 1 <= size
    <3>1. Keeps(x, after[n]) /\ Climbs(x, after[n], {}) /\ after[n + 1] = next(after, n + 1)
      BY <1>5, <1>7, <2>1
    <3>2. after[n + 1] = Newline(after[n])
      <4>1. (n + 1) - 1 = n /\ n + 1 # 0
        OBVIOUS
      <4> QED
        BY <3>1, <4>1 DEF next
    <3>3. Keeps(after[n], after[n + 1]) /\ Climbs(after[n], after[n + 1], {})
      BY <3>1, <3>2, NewlineKeeps DEF Keeps, Steady
    <3>4. Keeps(x, after[n + 1])
      BY <3>1, <3>3, KeepsChain
    <3>5. Climbs(x, after[n + 1], {})
      BY <3>1, <3>3, <3>4, ClimbsChain DEF Keeps, Steady
    <3> QED
      BY <3>4, <3>5
  <2> QED
    BY <2>1
<1>8. size \in good
  BY <1>6, <1>7, Climb
<1> QED
  BY <1>4, <1>8

\* Another store, and the lines fed for a new image.
LEMMA StoreChanges ==
    ASSUME NEW x, Sound(x), NEW s, IsStore(s)
    PROVE  LET y == [x EXCEPT !.store = s] IN
           Keeps(x, y) /\ \A f \in Fields \ {"store"} : y[f] = x[f]
<1> DEFINE y == [x EXCEPT !.store = s]
<1>1. /\ DOMAIN y = Fields /\ \A f \in Fields \ {"store"} : y[f] = x[f]
      /\ y.store = s
  BY DEF Sound, Fields, Core
<1> HIDE DEF y
<1>2. /\ y.main = x.main /\ y.alt = x.alt /\ y.usingAlt = x.usingAlt /\ y.cols = x.cols
      /\ y.rows = x.rows /\ y.col = x.col /\ y.row = x.row /\ y.wrap = x.wrap /\ y.top = x.top
      /\ y.bottom = x.bottom /\ y.savedMain = x.savedMain /\ y.savedAlt = x.savedAlt
      /\ y.tabs = x.tabs /\ y.total = x.total
  BY <1>1 DEF Core, Fields
<1>3. Sound(y)
  BY <1>1, <1>2 DEF Sound
<1>4. Keeps(x, y)
  BY <1>2, <1>3 DEF Keeps, Steady, Inside, AtEdge, Clean, Screen
<1> QED
  BY <1>1, <1>4 DEF y

LEMMA WithStoreKeeps ==
    ASSUME NEW x, Sound(x), NEW s, IsStore(s)
    PROVE  /\ Keeps(x, WithStore(x, s))
           /\ Grows(x.store, s) => Climbs(x, WithStore(x, s), {})
<1> DEFINE y == [x EXCEPT !.store = s]
           z == [y EXCEPT !.col = 0, !.wrap = FALSE]
           ps == s.placements
           n == ps[Len(ps)].lines
<1>1. Keeps(x, y) /\ y.store = s /\ \A f \in Fields \ {"store"} : y[f] = x[f]
  BY StoreChanges DEF Sound, Fields, Core
<1>2. WithStore(x, s) = IF Len(ps) > Len(x.store.placements) THEN Newlines(z, n) ELSE y
  BY <1>1 DEF WithStore, PastImage
<1> HIDE DEF y
<1>3. Sound(y)
  BY <1>1 DEF Keeps, Steady
<1>7. Grows(x.store, s) => Climbs(x, y, {})
  <2>1. /\ y.total = x.total /\ y.rows = x.rows /\ y.top = x.top /\ y.bottom = x.bottom
        /\ y.main = x.main
    BY <1>1 DEF Fields, Core
  <2> QED
    BY <1>1, <1>3, <2>1, GrowingClimbs
<1>4. /\ DOMAIN z = Fields /\ \A f \in Elsewhere : z[f] = y[f]
      /\ z.col = 0 /\ z.wrap = FALSE /\ z.row = y.row
  BY <1>3 DEF Sound, Fields, Core, Elsewhere
<1> HIDE DEF z
<1>5. Keeps(y, z)
  <2>1. /\ z.col \in Nat /\ z.row \in Nat
        /\ Inside(y) => z.col < y.cols /\ z.row < y.rows
    BY <1>3, <1>4 DEF Inside, Sound
  <2>2. z.wrap \in BOOLEAN /\ (AtEdge(y) /\ z.wrap => AtEdge(z))
    BY <1>4
  <2> QED
    BY <1>3, <1>4, <2>1, <2>2, CursorMoves
<1>6. CASE Len(ps) > Len(x.store.placements)
  <2>1. Len(ps) \in 1..Len(ps)
    BY <1>6 DEF Sound, IsStore, IsList
  <2>2. n \in Nat
    BY <2>1 DEF IsStore, InPlace
  <2> HIDE DEF n
  <2>3. Keeps(z, Newlines(z, n)) /\ Climbs(z, Newlines(z, n), {})
    BY <1>5, <2>2, NewlinesKeep DEF Keeps, Steady
  <2>4. Climbs(y, z, {})
    <3>1. /\ z.total = y.total /\ z.rows = y.rows /\ z.top = y.top /\ z.bottom = y.bottom
          /\ z.store = y.store /\ z.main = y.main
      BY <1>4 DEF Elsewhere, Core
    <3> QED
      BY <1>3, <1>5, <3>1, SameClimbs DEF Keeps, Steady
  <2> DEFINE u == Newlines(z, n)
  <2>5. Keeps(x, u)
    BY <1>1, <1>5, <2>3, KeepsChain
  <2>6. ASSUME Grows(x.store, s)
        PROVE  Climbs(x, u, {})
    <3>1. Sound(x) /\ Sound(y) /\ Sound(z) /\ Sound(u)
      BY <1>3, <1>5, <2>3 DEF Keeps, Steady
    <3> HIDE DEF u
    <3>2. Climbs(y, u, {})
      BY <2>3, <2>4, <3>1, ClimbsChain DEF u
    <3> QED
      BY <1>7, <2>6, <3>1, <3>2, ClimbsChain
  <2> QED
    BY <1>2, <1>6, <2>5, <2>6
<1> QED
  BY <1>1, <1>2, <1>6, <1>7

-----------------------------------------------------------------------------
(* Printing and the other handlers.                                        *)

Whole(x) == \A r \in 0..(x.rows - 1) : Halved(Screen(x)[r], x.cols)

LEMMA DoPrintKeeps ==
    ASSUME NEW x, Sound(x), Inside(x), NEW ch \in Cell \ {Cont}
    PROVE  LET y == DoPrint(x, ch) IN
           /\ Steady(x, y) /\ y.cols = x.cols /\ y.rows = x.rows
           /\ Clean(x) => Whole(y) /\ (ch # Mark => Clean(y))
           /\ Climbs(x, y, {y.row})
<1> DEFINE p == [x EXCEPT !.col = 0, !.wrap = FALSE]
           q == [x EXCEPT !.wrap = FALSE]
           y == IF x.wrap /\ x.autoWrap THEN Newline(p) ELSE q
           full == ch = Lead /\ y.col >= y.cols - 1
           r == [y EXCEPT !.col = 0]
           z == IF full THEN Newline(r) ELSE y
           next == z.col + Width(ch)
           g == PutChar(Screen(z), z.col, z.row, ch)
           s == OnScreen(z, g)
           last == [s EXCEPT !.col = Least(next, z.cols - 1), !.wrap = next >= z.cols]
<1>1. DoPrint(x, ch) = IF full /\ ~y.autoWrap THEN y ELSE last
  BY DEF DoPrint
<1>2. /\ Keeps(x, y) /\ Inside(y) /\ y.cols = x.cols /\ y.rows = x.rows /\ y.wrap = FALSE
      /\ Climbs(x, y, {})
  <2>1. /\ DOMAIN p = Fields /\ \A f \in Elsewhere : p[f] = x[f]
        /\ p.col = 0 /\ p.wrap = FALSE /\ p.row = x.row
        /\ DOMAIN q = Fields /\ \A f \in Elsewhere : q[f] = x[f]
        /\ q.col = x.col /\ q.wrap = FALSE /\ q.row = x.row
    BY DEF Sound, Fields, Core, Elsewhere
  <2> HIDE DEF p, q
  <2>2. x.col \in Nat /\ x.row \in Nat /\ x.col < x.cols /\ x.row < x.rows /\ 0 < x.cols
    BY DEF Sound, Inside
  <2>3. Keeps(x, p) /\ p.cols = x.cols /\ p.rows = x.rows
    <3>1. p.col \in Nat /\ p.row \in Nat /\ p.col < x.cols /\ p.row < x.rows
      BY <2>1, <2>2
    <3> QED
      BY <2>1, <3>1, WrapEnds
  <2>4. Keeps(x, q) /\ q.cols = x.cols /\ q.rows = x.rows
    BY <2>1, <2>2, WrapEnds
  <2>5. /\ Keeps(p, Newline(p)) /\ Newline(p).cols = p.cols /\ Newline(p).wrap = p.wrap
        /\ Newline(p).rows = p.rows
    BY <2>3, NewlineKeeps DEF Stays, Keeps, Steady
  <2>6. Keeps(x, Newline(p))
    BY <2>3, <2>5, KeepsChain
  <2>7. Keeps(x, y) /\ y.cols = x.cols /\ y.rows = x.rows /\ y.wrap = FALSE
    BY <2>1, <2>3, <2>4, <2>5, <2>6
  <2>8. Climbs(x, q, {}) /\ Climbs(x, p, {})
    BY <2>1, <2>3, <2>4, ElsewhereClimbs DEF Keeps, Steady
  <2>9. Climbs(p, Newline(p), {})
    BY <2>3, NewlineKeeps DEF Keeps, Steady
  <2>10. Climbs(x, Newline(p), {})
    BY <2>3, <2>6, <2>8, <2>9, ClimbsChain DEF Keeps, Steady
  <2>11. Climbs(x, y, {})
    BY <2>8, <2>10
  <2> HIDE DEF y
  <2> QED
    BY <2>7, <2>11 DEF Keeps, Steady
<1> HIDE DEF y
<1>3. /\ Sound(y) /\ y.col \in Nat /\ y.row \in Nat /\ y.col < y.cols /\ y.row < y.rows
      /\ y.cols \in Nat \ {0}
  BY <1>2 DEF Keeps, Steady, Sound, Inside
<1>4. /\ Keeps(x, z) /\ z.cols = x.cols /\ z.rows = x.rows
      /\ full => z.col = 0
      /\ Climbs(x, z, {})
  <2>1. /\ DOMAIN r = Fields /\ \A f \in Elsewhere : r[f] = y[f]
        /\ r.col = 0 /\ r.wrap = FALSE /\ r.row = y.row
    BY <1>2, <1>3 DEF Sound, Fields, Core, Elsewhere
  <2> HIDE DEF r
  <2>2. Keeps(y, r) /\ r.cols = y.cols /\ r.rows = y.rows
    <3>1. r.col \in Nat /\ r.row \in Nat /\ r.col < y.cols /\ r.row < y.rows
      BY <1>3, <2>1
    <3> QED
      BY <1>3, <2>1, <3>1, WrapEnds
  <2>3. /\ Keeps(r, Newline(r)) /\ Newline(r).cols = r.cols /\ Newline(r).col = r.col
        /\ Newline(r).rows = r.rows
    BY <2>2, NewlineKeeps DEF Stays, Keeps, Steady
  <2>4. Keeps(x, Newline(r))
    BY <1>2, <2>2, <2>3, KeepsChain
  <2>5. Sound(x) /\ Sound(y) /\ Sound(r) /\ Sound(Newline(r))
    BY <1>3, <2>2, <2>4 DEF Keeps, Steady
  <2>6. Climbs(y, r, {}) /\ Climbs(r, Newline(r), {})
    BY <2>1, <2>5, ElsewhereClimbs, NewlineKeeps
  <2>7. Climbs(y, Newline(r), {})
    BY <2>5, <2>6, ClimbsChain
  <2>8. Climbs(x, Newline(r), {})
    BY <1>2, <2>5, <2>7, ClimbsChain
  <2> HIDE DEF full
  <2> QED
    BY <1>2, <2>1, <2>2, <2>3, <2>4, <2>8
<1>5. ch = Lead /\ x.cols > 1 => z.col + 1 < z.cols
  <2>1. CASE full
    BY <1>2, <1>4, <2>1
  <2>2. CASE ~full
    BY <1>2, <1>3, <1>4, <2>2
  <2> QED
    BY <2>1, <2>2
<1> HIDE DEF full, r, z
<1>6. /\ Sound(z) /\ z.col \in 0..(x.cols - 1) /\ z.row \in 0..(x.rows - 1)
      /\ z.cols \in Nat \ {0} /\ z.rows \in Nat \ {0} /\ (Clean(x) => Clean(z))
      /\ IsGrid(Screen(z), x.cols, x.rows)
  <2>1. Sound(z) /\ Inside(z) /\ (Clean(x) => Clean(z))
    BY <1>4 DEF Keeps, Steady
  <2> QED
    BY <1>4, <2>1, ScreenIsGrid DEF Sound, Inside
<1>7. /\ IsGrid(g, x.cols, x.rows)
      /\ Clean(x) => /\ \A i \in 0..(x.rows - 1) : Halved(g[i], x.cols)
                     /\ ch # Mark => ProperGrid(g, x.cols, x.rows)
  <2>1. Clean(x) => ProperGrid(Screen(z), x.cols, x.rows) /\ x.cols > 1
    BY <1>4, <1>6 DEF Clean
  <2>2. Clean(x) => (ch = Lead => z.col + 1 < x.cols)
    BY <1>4, <1>5, <2>1
  <2>3. x.cols \in Nat \ {0} /\ x.rows \in Nat \ {0}
    BY DEF Sound
  <2> QED
    BY <1>6, <2>1, <2>2, <2>3, PutCharKeeps
<1> HIDE DEF g
<1>8. /\ Sound(s) /\ Screen(s) = g /\ \A f \in Fields \ {"main", "alt"} : s[f] = z[f]
  BY <1>4, <1>6, <1>7, ScreenChanges DEF Steady
<1> HIDE DEF s
<1>9. /\ s.cols = x.cols /\ s.rows = x.rows /\ s.row = z.row
  BY <1>4, <1>8 DEF Fields, Core
<1>10. next \in Nat /\ x.cols \in Nat \ {0}
  <2>1. Width(ch) \in Nat
    BY DEF Width
  <2> QED
    BY <1>6, <2>1 DEF Sound
<1> HIDE DEF next
<1>11. /\ DOMAIN last = Fields /\ \A f \in Elsewhere : last[f] = s[f]
       /\ last.col = Least(next, x.cols - 1) /\ last.row = z.row /\ last.wrap = (next >= x.cols)
       /\ last.usingAlt = s.usingAlt /\ last.main = s.main /\ last.alt = s.alt
       /\ last.cols = x.cols /\ last.rows = x.rows
  BY <1>4, <1>8, <1>9 DEF Sound, Fields, Core, Elsewhere
<1> HIDE DEF last
<1>12. last.col \in 0..(x.cols - 1) /\ last.wrap \in BOOLEAN /\ last.row \in 0..(x.rows - 1)
  BY <1>6, <1>10, <1>11 DEF Least
<1>13. Sound(last)
  <2>1. last.col \in Nat /\ last.row \in Nat
    BY <1>12
  <2> QED
    BY <1>8, <1>11, <1>12, <2>1, CursorMoves
<1>14. Inside(last) /\ AtEdge(last)
  <2>1. last.wrap => next >= x.cols
    BY <1>11
  <2>2. next >= x.cols => Least(next, x.cols - 1) = x.cols - 1
    BY <1>10 DEF Least
  <2> QED
    BY <1>11, <1>12, <2>1, <2>2 DEF Inside, AtEdge, Sound
<1>15. Screen(last) = g
  BY <1>8, <1>11 DEF Screen
<1>16. Clean(x) => Whole(last) /\ (ch # Mark => Clean(last))
  BY <1>7, <1>11, <1>15 DEF Clean, Whole
<1>17. Clean(x) => Clean(y) /\ Whole(y)
  <2>1. Clean(x) => Clean(y)
    BY <1>2 DEF Keeps
  <2> QED
    BY <2>1 DEF Clean, Whole, ProperGrid, Proper
<1>18. Steady(x, y) /\ Steady(x, last)
  BY <1>2, <1>13, <1>14 DEF Keeps, Steady
<1>19. Climbs(x, last, {last.row}) /\ Climbs(x, y, {y.row})
  <2>1. /\ last.total = z.total /\ last.top = z.top /\ last.bottom = z.bottom
        /\ last.rows = z.rows /\ last.store = z.store /\ last.row = z.row
    BY <1>4, <1>8, <1>11 DEF Elsewhere, Fields, Core
  <2>2. \A k \in 0..(z.rows - 1) : k \in {z.row} \/ last.main[k] = z.main[k]
    <3>1. last.main = IF z.usingAlt THEN z.main ELSE g
      BY <1>6, <1>11 DEF s, OnScreen, Sound, Fields, Core
    <3>2. \A k \in 0..(z.rows - 1) : k \in {z.row} \/ g[k] = Screen(z)[k]
      <4>1. IsGrid(Screen(z), x.cols, x.rows)
        BY <1>6
      <4> QED
        BY <1>4, <1>6, PutCharElsewhere DEF g
    <3> QED
      BY <3>1, <3>2 DEF Screen
  <2>3. Grows(z.store, last.store)
    BY <1>6, <2>1 DEF Grows, Sound, IsStore, IsList
  <2>4. Climbs(z, last, {last.row})
    BY <1>6, <1>13, <2>1, <2>2, <2>3, GrowingClimbs
  <2>5. Climbs(x, last, {last.row})
    BY <1>4, <1>6, <1>13, <2>4, ClimbsChain
  <2> QED
    BY <1>2, <2>5, ClimbsWider
<1> QED
  BY <1>1, <1>2, <1>11, <1>16, <1>17, <1>18, <1>19

\* A set of tab stops has a first and a last one.
LEMMA FirstOf ==
    ASSUME NEW S \in SUBSET Nat, S # {}
    PROVE  \E c \in S : \A d \in S : c <= d
<1>1. PICK x \in S : \A y \in S : ~ (<<y, x>> \in OpToRel(<, Nat))
  BY NatLessThanWellFounded, WFMin
<1>2. ASSUME NEW y \in S
      PROVE  x <= y
  <2>1. <<y, x>> \in Nat \X Nat /\ <<y, x>>[1] = y /\ <<y, x>>[2] = x
    OBVIOUS
  <2>2. ~ (y < x)
    BY <1>1, <2>1, Zenon DEF OpToRel
  <2> QED
    BY <2>2
<1> QED
  BY <1>2

LEMMA LastOf ==
    ASSUME NEW n \in Nat, NEW S \in SUBSET (0..n), S # {}
    PROVE  \E c \in S : \A d \in S : d <= c
<1> DEFINE T == {n - c : c \in S}
<1>1. T \in SUBSET Nat /\ T # {}
  <2>1. ASSUME NEW c \in S
        PROVE  n - c \in Nat
    <3>1. c \in 0..n
      OBVIOUS
    <3> QED
      BY <3>1
  <2> QED
    BY <2>1
<1>2. PICK x \in T : \A y \in T : x <= y
  <2> HIDE DEF T
  <2> QED
    BY <1>1, FirstOf
<1>3. PICK c \in S : x = n - c
  OBVIOUS
<1>4. ASSUME NEW d \in S
      PROVE  d <= c
  <2>1. n - d \in T
    OBVIOUS
  <2>2. n - c <= n - d
    BY <1>2, <1>3, <2>1
  <2> QED
    BY <2>2
<1> QED
  BY <1>4

LEMMA TabsKeep ==
    ASSUME NEW x, Sound(x)
    PROVE  Keeps(x, Tab(x)) /\ Keeps(x, TabBack(x))
<1>1. /\ x.cols \in Nat \ {0} /\ x.rows \in Nat \ {0} /\ x.col \in Nat /\ x.row \in Nat
      /\ x.tabs \subseteq 0..(x.cols - 1)
      /\ Inside(x) => x.col < x.cols /\ x.row < x.rows
  BY DEF Sound, Inside
<1> DEFINE ahead == {c \in x.tabs : c > x.col}
           behind == {c \in x.tabs \cup {0} : c < x.col}
           to == IF ahead = {} THEN x.cols - 1
                 ELSE CHOOSE c \in ahead : \A d \in ahead : c <= d
           back == CHOOSE c \in behind : \A d \in behind : d <= c
<1>2. to \in 0..(x.cols - 1)
  <2>1. ahead \in SUBSET Nat /\ ahead \subseteq 0..(x.cols - 1)
    BY <1>1
  <2> HIDE DEF ahead
  <2>2. ahead # {} => \E c \in ahead : \A d \in ahead : c <= d
    BY <2>1, FirstOf
  <2>3. CASE ahead = {}
    BY <1>1, <2>3
  <2>4. CASE ahead # {}
    <3>1. to \in ahead
      BY <2>2, <2>4
    <3> QED
      BY <2>1, <3>1
  <2> QED
    BY <2>3, <2>4
<1>3. Keeps(x, Tab(x))
  <2>1. Tab(x) = MoveTo(x, to, x.row)
    BY DEF Tab
  <2> HIDE DEF to
  <2> QED
    BY <1>1, <1>2, <2>1, MoveToKeeps
<1>4. CASE x.col = 0
  <2>1. TabBack(x) = MoveTo(x, 0, x.row)
    BY <1>4 DEF TabBack
  <2>2. Keeps(x, MoveTo(x, 0, x.row))
    BY <1>1, MoveToKeeps
  <2> QED
    BY <1>3, <2>1, <2>2
<1>5. CASE x.col # 0
  <2>1. TabBack(x) = MoveTo(x, back, x.row)
    BY <1>5 DEF TabBack
  <2>2. behind \in SUBSET (0..x.col) /\ 0 \in behind
    BY <1>1, <1>5
  <2>3. \A c \in behind : c \in Nat /\ c < x.col
    BY <1>1
  <2> HIDE DEF behind
  <2>4. back \in Nat /\ back < x.col
    <3>1. \E c \in behind : \A d \in behind : d <= c
      BY <1>1, <2>2, LastOf
    <3>2. back \in behind
      BY <3>1
    <3> QED
      BY <2>3, <3>2
  <2> HIDE DEF back
  <2>5. Inside(x) => back < x.cols /\ x.row < x.rows
    BY <1>1, <2>4
  <2>6. Keeps(x, MoveTo(x, back, x.row))
    BY <1>1, <2>4, <2>5, MoveToKeeps
  <2> QED
    BY <1>3, <2>1, <2>6
<1> QED
  BY <1>4, <1>5

LEMMA LinefeedKeeps ==
    ASSUME NEW x, Sound(x)
    PROVE  Keeps(x, Linefeed(x)) /\ Climbs(x, Linefeed(x), {})
<1> DEFINE y == Newline(x)
           z == [y EXCEPT !.col = IF x.linefeed THEN 0 ELSE @, !.wrap = FALSE]
<1>1. Keeps(x, y) /\ Climbs(x, y, {})
  BY NewlineKeeps
<1>2. Linefeed(x) = z
  BY DEF Linefeed
<1> HIDE DEF y
<1>3. Sound(y)
  BY <1>1 DEF Keeps, Steady
<1>4. /\ DOMAIN z = Fields /\ \A f \in Elsewhere : z[f] = y[f]
      /\ z.col \in {0, y.col} /\ z.wrap = FALSE /\ z.row = y.row
  BY <1>3 DEF Sound, Fields, Core, Elsewhere
<1> HIDE DEF z
<1>5. Keeps(y, z)
  <2>1. z.col \in Nat /\ z.row \in Nat
    BY <1>3, <1>4 DEF Sound
  <2>2. Inside(y) => z.col < y.cols /\ z.row < y.rows
    BY <1>3, <1>4 DEF Sound, Inside
  <2> QED
    BY <1>3, <1>4, <2>1, <2>2, WrapEnds
<1>6. Sound(z) /\ Climbs(y, z, {})
  BY <1>3, <1>4, <1>5, ElsewhereClimbs DEF Keeps, Steady
<1>7. Climbs(x, z, {})
  BY <1>1, <1>3, <1>6, ClimbsChain
<1> QED
  BY <1>1, <1>2, <1>5, <1>7, KeepsChain

LEMMA ReverseIndexKeeps ==
    ASSUME NEW x, Sound(x)
    PROVE  Keeps(x, ReverseIndex(x))
<1>1. CASE x.row = x.top
  <2> DEFINE g == ScrollDown(Screen(x), x.top, x.bottom, 1)
  <2>1. ReverseIndex(x) = OnScreen(x, g)
    BY <1>1 DEF ReverseIndex
  <2>2. GridKeeps(Screen(x), g, x.cols, x.rows)
    BY ScreenIsGrid, ScrollsKeep DEF Sound
  <2> HIDE DEF g
  <2> QED
    BY <2>1, <2>2, ScreenChanges DEF GridKeeps
<1>2. CASE x.row # x.top
  <2> DEFINE y == [x EXCEPT !.row = Sub(x.row, 1)]
  <2>1. ReverseIndex(x) = y
    BY <1>2 DEF ReverseIndex
  <2>2. Sub(x.row, 1) \in Nat /\ Sub(x.row, 1) <= x.row
    BY DEF Sub, Most, Sound
  <2>3. /\ DOMAIN y = Fields /\ \A f \in Elsewhere : y[f] = x[f]
        /\ y.row = Sub(x.row, 1) /\ y.col = x.col /\ y.wrap = x.wrap /\ y.cols = x.cols
    BY DEF Sound, Fields, Core, Elsewhere
  <2> HIDE DEF y
  <2>4. /\ y.col \in Nat /\ y.row \in Nat /\ y.wrap \in BOOLEAN
        /\ Inside(x) => y.col < x.cols /\ y.row < x.rows
    BY <2>2, <2>3 DEF Inside, Sound
  <2>5. AtEdge(x) /\ y.wrap => AtEdge(y)
    BY <2>3 DEF AtEdge
  <2>6. Keeps(x, y)
    BY <2>3, <2>4, <2>5, CursorMoves
  <2> QED
    BY <2>1, <2>6
<1> QED
  BY <1>1, <1>2

\* ESC E takes a pending wrap along.
LEMMA NextLineGoes ==
    ASSUME NEW x, Sound(x)
    PROVE  LET y == NextLine(x) IN
           /\ Sound(y) /\ (Inside(x) => Inside(y)) /\ (Clean(x) => Clean(y))
           /\ Climbs(x, y, {})
<1> DEFINE p == [x EXCEPT !.col = 0]
<1>1. /\ DOMAIN p = Fields /\ \A f \in Elsewhere : p[f] = x[f]
      /\ p.col = 0 /\ p.row = x.row /\ p.wrap = x.wrap
  BY DEF Sound, Fields, Core, Elsewhere
<1>2. NextLine(x) = Newline(p)
  BY DEF NextLine
<1> HIDE DEF p
<1>3. p.col \in Nat /\ p.row \in Nat /\ p.wrap \in BOOLEAN
  BY <1>1 DEF Sound
<1>4. Sound(p) /\ (Clean(x) => Clean(p)) /\ p.cols = x.cols /\ p.rows = x.rows
  BY <1>1, <1>3, CursorMoves
<1>5. Inside(x) => Inside(p)
  BY <1>1, <1>4 DEF Inside, Sound
<1>6. Keeps(p, Newline(p)) /\ Climbs(p, Newline(p), {})
  BY <1>4, NewlineKeeps
<1>7. Climbs(x, p, {})
  BY <1>1, <1>4, ElsewhereClimbs
<1>8. Sound(Newline(p)) /\ Climbs(x, Newline(p), {})
  BY <1>4, <1>6, <1>7, ClimbsChain DEF Keeps, Steady
<1> QED
  BY <1>2, <1>4, <1>5, <1>6, <1>8 DEF Keeps, Steady

\* The saved cursors, of which a restored one may lie outside.
LEMMA SaveKeeps ==
    ASSUME NEW x, Sound(x)
    PROVE  Keeps(x, SaveCursor(x))
<1> DEFINE y == SaveCursor(x)
<1>1. /\ DOMAIN y = Fields /\ \A f \in Core \ {"savedMain", "savedAlt"} : y[f] = x[f]
      /\ y.savedMain \in {x.savedMain, SavedCursor(x)}
      /\ y.savedAlt \in {x.savedAlt, SavedCursor(x)}
  BY DEF SaveCursor, Sound, Fields, Core
<1>2. IsCursor(SavedCursor(x))
  BY DEF IsCursor, SavedCursor, Sound
<1> HIDE DEF y
<1>3. /\ y.main = x.main /\ y.alt = x.alt /\ y.usingAlt = x.usingAlt /\ y.cols = x.cols
      /\ y.rows = x.rows /\ y.col = x.col /\ y.row = x.row /\ y.wrap = x.wrap /\ y.top = x.top
      /\ y.bottom = x.bottom /\ y.tabs = x.tabs /\ y.total = x.total /\ y.store = x.store
  BY <1>1 DEF Core
<1>4. IsCursor(y.savedMain) /\ IsCursor(y.savedAlt)
  BY <1>1, <1>2 DEF Sound
<1>5. Keeps(x, y)
  BY <1>1, <1>3, <1>4 DEF Keeps, Steady, Sound, Inside, AtEdge, Clean, Screen
<1> QED
  BY <1>5 DEF y

LEMMA RestoreGoes ==
    ASSUME NEW x, Sound(x), NEW look
    PROVE  LET y == RestoreCursor(x, look) IN Sound(y) /\ (Clean(x) => Clean(y))
<1> DEFINE s == IF x.usingAlt THEN x.savedAlt ELSE x.savedMain
           y == RestoreCursor(x, look)
<1>1. CASE s = Nothing
  BY <1>1 DEF RestoreCursor
<1>2. CASE s # Nothing
  <2>1. s.col \in Nat /\ s.row \in Nat
    BY <1>2 DEF Sound, IsCursor
  <2> HIDE DEF s
  <2>2. /\ DOMAIN y = Fields /\ \A f \in Elsewhere : y[f] = x[f]
        /\ y.col = s.col /\ y.row = s.row /\ y.wrap = x.wrap
    BY <1>2 DEF RestoreCursor, Sound, Fields, Core, Elsewhere, s
  <2> HIDE DEF y
  <2>3. y.col \in Nat /\ y.row \in Nat /\ y.wrap \in BOOLEAN
    BY <2>1, <2>2 DEF Sound
  <2>4. Sound(y) /\ (Clean(x) => Clean(y))
    BY <2>2, <2>3, CursorMoves
  <2> QED
    BY <2>4 DEF y
<1> QED
  BY <1>1, <1>2

LEMMA SwitchesAreSound ==
    ASSUME NEW x, Sound(x)
    PROVE  Sound(EnterAlt(x)) /\ Sound(LeaveAlt(x))
<1>1. IsCursor(SavedCursor(x)) /\ IsCursor(Nothing)
  BY DEF IsCursor, SavedCursor, Sound
<1>2. IsGrid(ClearGrid(x.alt), x.cols, x.rows)
  BY GridSize, NewGridIsGrid DEF ClearGrid, Sound
<1>3. Sound(EnterAlt(x))
  <2> DEFINE y == EnterAlt(x)
  <2>1. CASE ~x.usingAlt
    <3>1. /\ DOMAIN y = Fields /\ y.main = x.main /\ y.alt = ClearGrid(x.alt)
          /\ y.usingAlt = TRUE /\ y.cols = x.cols /\ y.rows = x.rows /\ y.col = 0 /\ y.row = 0
          /\ y.wrap = x.wrap /\ y.top = x.top /\ y.bottom = x.bottom
          /\ y.savedMain = SavedCursor(x) /\ y.savedAlt = x.savedAlt
          /\ y.tabs = x.tabs /\ y.total = x.total /\ y.store = x.store
      BY <2>1 DEF EnterAlt, Sound, Fields, Core
    <3>2. y.col \in Nat /\ y.row \in Nat
      BY <3>1
    <3> HIDE DEF y
    <3>3. Sound(y)
      BY <1>1, <1>2, <3>1, <3>2 DEF Sound
    <3> QED
      BY <3>3 DEF y
  <2> QED
    BY <2>1 DEF EnterAlt
<1>4. Sound(LeaveAlt(x))
  <2> DEFINE y == LeaveAlt(x)
             s == x.savedMain
  <2>1. CASE x.usingAlt
    <3>1. /\ DOMAIN y = Fields /\ y.main = x.main /\ y.alt = ClearGrid(x.alt)
          /\ y.usingAlt = FALSE /\ y.cols = x.cols /\ y.rows = x.rows
          /\ y.wrap = x.wrap /\ y.top = x.top /\ y.bottom = x.bottom
          /\ y.savedMain = Nothing /\ y.savedAlt = x.savedAlt
          /\ y.tabs = x.tabs /\ y.total = x.total /\ y.store = x.store
          /\ y.col = IF s = Nothing THEN x.col ELSE s.col
          /\ y.row = IF s = Nothing THEN x.row ELSE s.row
      BY <2>1 DEF LeaveAlt, Sound, Fields, Core
    <3>2. y.col \in Nat /\ y.row \in Nat
      BY <3>1 DEF Sound, IsCursor
    <3> HIDE DEF y
    <3>3. Sound(y)
      BY <1>1, <1>2, <3>1, <3>2 DEF Sound
    <3> QED
      BY <3>3 DEF y
  <2> QED
    BY <2>1 DEF LeaveAlt
<1> QED
  BY <1>3, <1>4

-----------------------------------------------------------------------------
(* Margins, regions and the calls of the application.                      *)

LEMMA MarginsKeep ==
    ASSUME NEW x, Sound(x), NEW top \in Nat \ {0}, NEW bottom \in Nat \ {0}, NEW on
    PROVE  Keeps(x, SetMargins(x, top, bottom)) /\ Keeps(x, OriginMode(x, on))
<1>1. /\ x.rows \in Nat \ {0} /\ x.cols \in Nat \ {0} /\ x.top \in 0..(x.rows - 1)
      /\ x.bottom \in 0..(x.rows - 1)
  BY DEF Sound
<1>2. Keeps(x, OriginMode(x, on))
  <2>1. Keeps(x, MoveTo(x, 0, IF on THEN x.top ELSE 0))
    <3>1. (IF on THEN x.top ELSE 0) \in 0..(x.rows - 1)
      BY <1>1
    <3>2. ASSUME NEW r \in 0..(x.rows - 1)
          PROVE  Keeps(x, MoveTo(x, 0, r))
      BY <1>1, MoveToKeeps
    <3> QED
      BY <3>1, <3>2
  <2> QED
    BY <2>1 DEF OriginMode
<1>3. Keeps(x, SetMargins(x, top, bottom))
  <2> DEFINE b == Least(bottom - 1, x.rows - 1)
             ok == top - 1 < b
             y == MoveTo(x, 0, 0)
             z == [y EXCEPT !.top = IF ok THEN top - 1 ELSE 0,
                            !.bottom = IF ok THEN b ELSE x.rows - 1]
  <2>1. Keeps(x, y) /\ y.rows = x.rows
    BY <1>1, MoveToKeeps
  <2>2. SetMargins(x, top, bottom) = z
    BY DEF SetMargins
  <2>3. b \in 0..(x.rows - 1)
    BY <1>1 DEF Least
  <2> HIDE DEF y, b
  <2>4. Sound(y)
    BY <2>1 DEF Keeps, Steady
  <2>5. /\ DOMAIN z = Fields /\ z.main = y.main /\ z.alt = y.alt /\ z.usingAlt = y.usingAlt
        /\ z.cols = y.cols /\ z.rows = y.rows /\ z.col = y.col /\ z.row = y.row /\ z.wrap = y.wrap
        /\ z.savedMain = y.savedMain /\ z.savedAlt = y.savedAlt
        /\ z.tabs = y.tabs /\ z.total = y.total /\ z.store = y.store
        /\ z.top = IF ok THEN top - 1 ELSE 0
        /\ z.bottom = IF ok THEN b ELSE x.rows - 1
    BY <2>4 DEF Sound, Fields, Core
  <2>6. z.top \in 0..(y.rows - 1) /\ z.bottom \in 0..(y.rows - 1)
    BY <1>1, <2>1, <2>3, <2>5
  <2> HIDE DEF z
  <2>7. Sound(z)
    BY <2>4, <2>5, <2>6 DEF Sound
  <2>8. Keeps(y, z)
    BY <2>5, <2>7 DEF Keeps, Steady, Inside, AtEdge, Clean, Screen
  <2> QED
    BY <2>1, <2>2, <2>8, KeepsChain
<1> QED
  BY <1>2, <1>3

LEMMA ScreenKeeps ==
    ASSUME NEW x, Sound(x), NEW g, GridKeeps(Screen(x), g, x.cols, x.rows)
    PROVE  Keeps(x, OnScreen(x, g))
BY ScreenChanges DEF GridKeeps

LEMMA ErasingKeeps ==
    ASSUME NEW x, Sound(x), Inside(x), NEW kind
    PROVE  Keeps(x, EraseLine(x, kind)) /\ Keeps(x, EraseDisplay(x, kind))
<1> DEFINE g == Screen(x)
<1>1. /\ IsGrid(g, x.cols, x.rows) /\ x.cols \in Nat \ {0} /\ x.rows \in Nat \ {0}
      /\ x.col \in 0..(x.cols - 1) /\ x.row \in 0..(x.rows - 1)
  BY ScreenIsGrid DEF Sound, Inside
<1> HIDE DEF g
<1>2. /\ GridKeeps(g, EraseBelow(g, x.col, x.row), x.cols, x.rows)
      /\ GridKeeps(g, EraseAbove(g, x.col, x.row), x.cols, x.rows)
      /\ GridKeeps(g, ClearRow(g, x.row), x.cols, x.rows)
      /\ GridKeeps(g, ClearGrid(g), x.cols, x.rows)
  BY <1>1, ErasesKeep
<1>3. /\ GridKeeps(g, ClearToEol(g, x.col, x.row), x.cols, x.rows)
      /\ GridKeeps(g, ClearFromBol(g, x.col, x.row), x.cols, x.rows)
  BY <1>1, ClearToEolKeeps, ClearFromBolKeeps
<1>4. \E h : /\ EraseDisplay(x, kind) = OnScreen(x, h) /\ GridKeeps(g, h, x.cols, x.rows)
  BY <1>2 DEF EraseDisplay, g
<1>5. \E h : /\ EraseLine(x, kind) = OnScreen(x, h) /\ GridKeeps(g, h, x.cols, x.rows)
  BY <1>2, <1>3 DEF EraseLine, g
<1> QED
  BY <1>4, <1>5, ScreenKeeps DEF g

LEMMA CellsKeep ==
    ASSUME NEW x, Sound(x), Inside(x), NEW n \in Nat \ {0}
    PROVE  /\ Keeps(x, OnScreen(x, DeleteCells(Screen(x), x.col, x.row, n)))
           /\ Keeps(x, OnScreen(x, EraseCells(Screen(x), x.col, x.row, n)))
           /\ Steady(x, OnScreen(x, InsertCells(Screen(x), x.col, x.row, n)))
<1> DEFINE g == Screen(x)
<1>1. /\ IsGrid(g, x.cols, x.rows) /\ x.cols \in Nat \ {0} /\ x.rows \in Nat \ {0}
      /\ x.col \in 0..(x.cols - 1) /\ x.row \in 0..(x.rows - 1)
  BY ScreenIsGrid DEF Sound, Inside
<1> HIDE DEF g
<1>2. GridKeeps(g, DeleteCells(g, x.col, x.row, n), x.cols, x.rows)
  BY <1>1, DeleteCellsKeeps
<1>3. GridKeeps(g, EraseCells(g, x.col, x.row, n), x.cols, x.rows)
  BY <1>1, EraseCellsKeeps
<1>4. IsGrid(InsertCells(g, x.col, x.row, n), x.cols, x.rows)
  BY <1>1, InsertCellsKeepsSize
<1>5. Steady(x, OnScreen(x, InsertCells(g, x.col, x.row, n)))
  BY <1>4, ScreenChanges
<1> QED
  BY <1>2, <1>3, <1>5, ScreenKeeps DEF g

LEMMA RegionsKeep ==
    ASSUME NEW x, Sound(x), NEW n \in Nat
    PROVE  /\ Keeps(x, OnScreen(x, InsertLines(Screen(x), x.row, n, x.bottom)))
           /\ Keeps(x, OnScreen(x, DeleteLines(Screen(x), x.row, n, x.bottom)))
           /\ Keeps(x, OnScreen(x, ScrollDown(Screen(x), x.top, x.bottom, n)))
           /\ Keeps(x, ScrollScreenUp(x, n))
           /\ n > 0 => Climbs(x, ScrollScreenUp(x, n), {})
<1>1. /\ x.cols \in Nat \ {0} /\ x.rows \in Nat \ {0} /\ x.row \in Nat /\ x.top \in Nat
      /\ x.bottom \in 0..(x.rows - 1) /\ x.bottom \in Nat
  BY DEF Sound
<1>2. IsGrid(Screen(x), x.cols, x.rows)
  BY ScreenIsGrid
<1>3. /\ GridKeeps(Screen(x), InsertLines(Screen(x), x.row, n, x.bottom), x.cols, x.rows)
      /\ GridKeeps(Screen(x), DeleteLines(Screen(x), x.row, n, x.bottom), x.cols, x.rows)
      /\ GridKeeps(Screen(x), ScrollDown(Screen(x), x.top, x.bottom, n), x.cols, x.rows)
  BY <1>1, <1>2, EditedLinesKeep, ScrollsKeep
<1>4. /\ Keeps(x, ScrollScreenUp(x, n))
      /\ n > 0 => Climbs(x, ScrollScreenUp(x, n), {})
  <2> DEFINE m == Least(n, x.bottom + 1)
             p == IF x.top = 0 /\ ~x.usingAlt THEN PushLines(x, m, n) ELSE x
             g == ScrollUp(Screen(p), x.top, x.bottom, n)
  <2>1. m \in Nat
    BY <1>1 DEF Least
  <2> HIDE DEF m
  <2>2. IsStore(ScrollImages(x.store, n))
    BY <2>1, ScrolledIsStore DEF Sound
  <2>3. /\ Keeps(x, PushLines(x, m, n))
        /\ \A f \in Fields \ {"history", "total", "store"} : PushLines(x, m, n)[f] = x[f]
    BY <2>1, <2>2, PushKeeps
  <2>4. Keeps(x, p) /\ p.cols = x.cols /\ p.rows = x.rows /\ p.top = x.top /\ p.bottom = x.bottom
    BY <2>3 DEF Fields, Core, Keeps, Steady
  <2>5. ScrollScreenUp(x, n) = OnScreen(p, g)
    BY <2>4 DEF ScrollScreenUp, m
  <2> HIDE DEF p
  <2>6. Sound(p)
    BY <2>4 DEF Keeps, Steady
  <2>7. IsGrid(Screen(p), x.cols, x.rows)
    BY <2>4, <2>6, ScreenIsGrid
  <2>8. GridKeeps(Screen(p), g, p.cols, p.rows)
    BY <1>1, <2>4, <2>7, ScrollsKeep
  <2> HIDE DEF g
  <2>9. Keeps(p, OnScreen(p, g))
    BY <2>6, <2>8, ScreenKeeps
  <2> DEFINE y == OnScreen(p, g)
  <2>10. Sound(y)
    BY <2>9 DEF Keeps, Steady
  <2>11. /\ y.rows = x.rows /\ y.top = x.top /\ y.bottom = x.bottom
         /\ y.main = IF x.usingAlt THEN x.main ELSE ScrollUp(x.main, x.top, x.bottom, n)
         /\ y.total = p.total /\ y.store = p.store
    <3>1. p.main = x.main /\ p.alt = x.alt /\ p.usingAlt = x.usingAlt
      BY <2>3 DEF p, Fields, Core
    <3>2. /\ y.rows = p.rows /\ y.top = p.top /\ y.bottom = p.bottom
          /\ y.total = p.total /\ y.store = p.store
          /\ y.main = IF p.usingAlt THEN p.main ELSE g
      BY <2>6 DEF OnScreen, Sound, Fields, Core
    <3>3. g = ScrollUp(Screen(p), x.top, x.bottom, n)
      BY DEF g
    <3> QED
      BY <2>4, <3>1, <3>2, <3>3 DEF Screen
  <2> HIDE DEF y
  <2>12. ASSUME n > 0
         PROVE  Climbs(x, y, {})
    <3>2. CASE x.top = 0 /\ ~x.usingAlt
      <4>1. p.total = x.total + m /\ p.store = ScrollImages(x.store, n)
        BY <3>2 DEF p, PushLines, Sound, Fields, Core
      <4>2. n \in Nat \ {0}
        BY <2>12
      <4>3. m = n \/ (m = x.bottom + 1 /\ n >= m)
        BY <1>1 DEF m, Least
      <4> QED
        BY <2>1, <2>10, <2>11, <3>2, <4>1, <4>2, <4>3, ScrollingClimbs
    <3>3. CASE ~(x.top = 0 /\ ~x.usingAlt)
      <4>1. y.total = x.total /\ y.store = x.store
        BY <2>11, <3>3 DEF p
      <4> QED
        BY <2>10, <2>11, <3>3, <4>1, StandingClimbs
    <3> QED
      BY <3>2, <3>3
  <2> QED
    BY <2>4, <2>5, <2>9, <2>12, KeepsChain DEF y
<1> QED
  BY <1>3, <1>4, ScreenKeeps

LEMMA NewIsSound ==
    ASSUME NEW cols \in Nat \ {0}, NEW rows \in Nat \ {0}
    PROVE  LET y == NewTerminal(cols, rows) IN
           /\ Sound(y) /\ Inside(y) /\ y.wrap = FALSE /\ y.cols = cols /\ y.rows = rows
           /\ cols > 1 => Clean(y)
<1> DEFINE y == NewTerminal(cols, rows)
<1>1. /\ DOMAIN y = Fields /\ y.main = NewGrid(cols, rows) /\ y.alt = NewGrid(cols, rows)
      /\ y.usingAlt = FALSE /\ y.cols = cols /\ y.rows = rows /\ y.col = 0 /\ y.row = 0
      /\ y.wrap = FALSE /\ y.top = 0 /\ y.bottom = rows - 1
      /\ y.savedMain = Nothing /\ y.savedAlt = Nothing
      /\ y.tabs = InitialTabs(cols) /\ y.total = 0 /\ y.store = NewStore
  BY DEF NewTerminal, Fields, Core
<1> HIDE DEF y
<1>2. IsGrid(NewGrid(cols, rows), cols, rows) /\ ProperGrid(NewGrid(cols, rows), cols, rows)
  BY NewGridIsGrid
<1>3. IsStore(NewStore)
  BY NewStoreIsStore
<1>4. InitialTabs(cols) \subseteq 0..(cols - 1)
  BY DEF InitialTabs
<1>5. /\ y.col \in Nat /\ y.row \in Nat /\ y.top \in 0..(rows - 1) /\ y.bottom \in 0..(rows - 1)
      /\ y.total \in Nat /\ y.col < cols /\ y.row < rows
  BY <1>1
<1>6. Sound(y)
  BY <1>1, <1>2, <1>3, <1>4, <1>5 DEF Sound, IsCursor
<1> QED
  BY <1>1, <1>2, <1>5, <1>6 DEF Inside, Clean, Screen, y

LEMMA ResizeIsSteady ==
    ASSUME NEW x, Sound(x), NEW cols \in Nat \ {0}, NEW rows \in Nat \ {0}
    PROVE  Steady(x, Resize(x, cols, rows))
<1> DEFINE y == Resize(x, cols, rows)
<1>1. /\ DOMAIN y = Fields /\ y.main = ResizeGrid(x.main, cols, rows)
      /\ y.alt = ResizeGrid(x.alt, cols, rows) /\ y.usingAlt = x.usingAlt
      /\ y.cols = cols /\ y.rows = rows /\ y.col = Least(x.col, cols - 1)
      /\ y.row = Least(x.row, rows - 1) /\ y.wrap = FALSE /\ y.top = 0 /\ y.bottom = rows - 1
      /\ y.savedMain = x.savedMain /\ y.savedAlt = x.savedAlt
      /\ y.tabs = InitialTabs(cols) /\ y.total = x.total /\ y.store = x.store
  BY DEF Resize, Sound, Fields, Core
<1> HIDE DEF y
<1>2. IsGrid(y.main, cols, rows) /\ IsGrid(y.alt, cols, rows)
  BY <1>1, ResizedIsGrid DEF Sound
<1>3. InitialTabs(cols) \subseteq 0..(cols - 1)
  BY DEF InitialTabs
<1>4. /\ Least(x.col, cols - 1) \in 0..(cols - 1) /\ Least(x.row, rows - 1) \in 0..(rows - 1)
  BY DEF Least, Sound
<1>5. /\ y.col \in Nat /\ y.row \in Nat /\ y.top \in 0..(rows - 1) /\ y.bottom \in 0..(rows - 1)
      /\ y.col < cols /\ y.row < rows
  BY <1>1, <1>4
<1>6. Sound(y)
  BY <1>1, <1>2, <1>3, <1>5 DEF Sound
<1>7. Steady(x, y)
  BY <1>1, <1>5, <1>6 DEF Steady, Inside, AtEdge
<1> QED
  BY <1>7 DEF y

LEMMA ClearKeeps ==
    ASSUME NEW x, Sound(x)
    PROVE  Keeps(x, ClearAll(x))
<1> DEFINE g == ClearGrid(Screen(x))
           s == OnScreen(x, g)
           y == ClearAll(x)
<1>1. GridKeeps(Screen(x), g, x.cols, x.rows)
  <2>1. /\ IsGrid(Screen(x), x.cols, x.rows) /\ x.cols \in Nat \ {0} /\ x.rows \in Nat \ {0}
    BY ScreenIsGrid DEF Sound
  <2> QED
    BY <2>1, GridSize, NewGridIsGrid DEF ClearGrid, GridKeeps
<1> HIDE DEF g
<1>2. Keeps(x, s)
  BY <1>1, ScreenKeeps
<1>3. /\ y = [s EXCEPT !.history = 0, !.offset = 0, !.col = 0, !.row = 0, !.wrap = FALSE,
                       !.store = DeleteAll(@)]
  BY DEF ClearAll, g
<1> HIDE DEF s
<1>4. Sound(s)
  BY <1>2 DEF Keeps, Steady
<1>5. /\ DOMAIN y = Fields /\ y.main = s.main /\ y.alt = s.alt /\ y.usingAlt = s.usingAlt
      /\ y.cols = s.cols /\ y.rows = s.rows /\ y.col = 0 /\ y.row = 0 /\ y.wrap = FALSE
      /\ y.savedMain = s.savedMain /\ y.savedAlt = s.savedAlt /\ y.top = s.top
      /\ y.bottom = s.bottom
      /\ y.tabs = s.tabs /\ y.total = s.total /\ y.store = DeleteAll(s.store)
  BY <1>3, <1>4 DEF Sound, Fields, Core
<1> HIDE DEF y
<1>6. IsStore(y.store)
  BY <1>4, <1>5, DeletedIsStore DEF Sound
<1>7. y.col \in Nat /\ y.row \in Nat /\ y.col < y.cols /\ y.row < y.rows
  BY <1>4, <1>5 DEF Sound
<1>8. Sound(y)
  BY <1>4, <1>5, <1>6, <1>7 DEF Sound
<1>9. Keeps(s, y)
  BY <1>5, <1>7, <1>8 DEF Keeps, Steady, Inside, AtEdge, Clean, Screen
<1> QED
  BY <1>2, <1>9, KeepsChain DEF y

\* What a snapshot has that a terminal is made from again.
IsSnapshot(s) ==
    /\ s.cols \in Nat \ {0} /\ s.rows \in Nat \ {0} /\ s.usingAlt \in BOOLEAN
    /\ IsGrid(s.grid, s.cols, s.rows) /\ IsGrid(s.alt, s.cols, s.rows)
    /\ s.col \in Nat /\ s.row \in Nat
    /\ s.top \in 0..(s.rows - 1) /\ s.bottom \in 0..(s.rows - 1)
    /\ IsCursor(s.savedMain) /\ IsCursor(s.savedAlt)

LEMMA SnapshotIsOne ==
    ASSUME NEW x, Sound(x)
    PROVE  IsSnapshot(Snapshot(x))
BY ScreenIsGrid DEF IsSnapshot, Snapshot, Sound

LEMMA RestoredIsSteady ==
    ASSUME NEW x, NEW s, IsSnapshot(s)
    PROVE  Steady(x, Restored(s))
<1> DEFINE n == NewTerminal(s.cols, s.rows)
           y == Restored(s)
<1>1. Sound(n) /\ n.cols = s.cols /\ n.rows = s.rows /\ n.wrap = FALSE
  BY NewIsSound DEF IsSnapshot
<1>2. /\ DOMAIN y = DOMAIN n /\ y.main = s.grid /\ y.alt = s.alt /\ y.usingAlt = s.usingAlt
      /\ y.cols = n.cols /\ y.rows = n.rows /\ y.col = Least(s.col, s.cols - 1)
      /\ y.row = Least(s.row, s.rows - 1) /\ y.wrap = n.wrap /\ y.top = s.top
      /\ y.bottom = Least(s.bottom, s.rows - 1)
      /\ y.savedMain = s.savedMain /\ y.savedAlt = s.savedAlt
      /\ y.tabs = n.tabs /\ y.total = n.total /\ y.store = n.store
  <2> DEFINE cs == [i \in DOMAIN s.commands |-> [s.commands[i] EXCEPT !.prompt = 0]]
             id == IF s.commands = <<>> THEN 0 ELSE s.commands[Len(s.commands)].id + 1
  <2>1. y = [n EXCEPT
               !.main = s.grid, !.alt = s.alt, !.usingAlt = s.usingAlt,
               !.col = Least(s.col, s.cols - 1), !.row = Least(s.row, s.rows - 1),
               !.visible = s.visible, !.autoWrap = s.autoWrap, !.linefeed = s.linefeed,
               !.top = s.top, !.bottom = Least(s.bottom, s.rows - 1),
               !.savedMain = s.savedMain, !.savedAlt = s.savedAlt,
               !.commands = cs, !.nextCommand = id]
    BY DEF Restored
  <2> HIDE DEF cs, id, n, y
  <2> QED
    BY <1>1, <2>1 DEF Sound, Fields, Core
<1> HIDE DEF n, y
<1>3. /\ Least(s.col, s.cols - 1) \in 0..(s.cols - 1) /\ Least(s.row, s.rows - 1) \in 0..(s.rows - 1)
      /\ Least(s.bottom, s.rows - 1) \in 0..(s.rows - 1)
  BY DEF Least, IsSnapshot
<1>4. /\ y.col \in Nat /\ y.row \in Nat /\ y.top \in 0..(s.rows - 1) /\ y.bottom \in 0..(s.rows - 1)
      /\ y.col < s.cols /\ y.row < s.rows
  BY <1>2, <1>3 DEF IsSnapshot
<1>5. Sound(y)
  BY <1>1, <1>2, <1>4 DEF Sound, IsSnapshot
<1>6. Steady(x, y)
  BY <1>1, <1>2, <1>4, <1>5 DEF Steady, Inside, AtEdge
<1> QED
  BY <1>6 DEF y

-----------------------------------------------------------------------------
(* Images, chunks of input and marked commands.                            *)

LEMMA KittyKeeps ==
    ASSUME NEW x, Sound(x), NEW cmd, IsCommand(cmd), NEW data, NEW more,
           more => cmd.action # "delete"
    PROVE  /\ Keeps(x, ShowKitty(x, cmd, data, more))
           /\ cmd.action # "delete" => Climbs(x, ShowKitty(x, cmd, data, more), {})
<1>1. x.row \in Nat /\ x.rows \in Nat \ {0} /\ IsStore(x.store)
  BY DEF Sound
<1>2. /\ IsStore(KittyFeed(x.store, cmd, data, more, x.row, x.rows))
      /\ cmd.action # "delete" =>
             Grows(x.store, KittyFeed(x.store, cmd, data, more, x.row, x.rows))
  BY <1>1, FedIsStore
<1> QED
  BY <1>2, WithStoreKeeps DEF ShowKitty

LEMMA ImagesKeep ==
    ASSUME NEW x, Sound(x), NEW data, NEW inline, NEW lines \in Nat
    PROVE  \A y \in {WithStore(x, ShowImage(x.store, data, lines, x.row, x.rows)),
                     WithStore(x, ItermEnd(x.store, lines, x.row, x.rows)),
                     [x EXCEPT !.store = ItermBegin(@, inline)],
                     [x EXCEPT !.store = ItermPart(@, data)]} :
               Keeps(x, y) /\ Climbs(x, y, {})
<1>1. x.row \in Nat /\ x.rows \in Nat \ {0} /\ IsStore(x.store)
  BY DEF Sound
<1>2. ASSUME NEW r, IsStore(r), Grows(x.store, r)
      PROVE  \A y \in {WithStore(x, r), [x EXCEPT !.store = r]} : Keeps(x, y) /\ Climbs(x, y, {})
  <2> DEFINE y == [x EXCEPT !.store = r]
  <2>1. Keeps(x, y) /\ y.store = r /\ \A f \in Fields \ {"store"} : y[f] = x[f]
    BY <1>2, StoreChanges DEF Sound, Fields, Core
  <2>2. /\ y.total = x.total /\ y.rows = x.rows /\ y.top = x.top /\ y.bottom = x.bottom
        /\ y.main = x.main
    BY <2>1 DEF Fields, Core
  <2> HIDE DEF y
  <2>3. Climbs(x, y, {})
    BY <1>2, <2>1, <2>2, GrowingClimbs DEF Keeps, Steady
  <2> QED
    BY <1>2, <2>1, <2>3, WithStoreKeeps DEF y
<1>3. \A r \in {ShowImage(x.store, data, lines, x.row, x.rows),
               ItermEnd(x.store, lines, x.row, x.rows),
               ItermBegin(x.store, inline), ItermPart(x.store, data)} :
          IsStore(r) /\ Grows(x.store, r)
  BY <1>1, ShownIsStore, ItermIsStore
<1> QED
  BY <1>2, <1>3

LEMMA ItemKeeps ==
    ASSUME NEW x, Sound(x), Inside(x), NEW i
    PROVE  Keeps(x, Item(x, i)) /\ Climbs(x, Item(x, i), Int)
<1>1. CASE i = "text"
  <2>1. Item(x, i) = DoPrint(x, Narrow)
    BY <1>1 DEF Item
  <2> DEFINE y == DoPrint(x, Narrow)
  <2>2. Keeps(x, y) /\ Climbs(x, y, {y.row})
    BY CellsDiffer, DoPrintKeeps DEF Keeps
  <2> HIDE DEF y
  <2>3. {y.row} \subseteq Int
    BY <2>2 DEF Keeps, Steady, Sound
  <2>4. Climbs(x, y, Int)
    BY <2>2, <2>3, ClimbsWider
  <2> QED
    BY <2>1, <2>2, <2>4 DEF y
<1>2. CASE i = "feed"
  BY <1>2, LinefeedKeeps, ClimbsWider DEF Item
<1>3. CASE i # "text" /\ i # "feed"
  <2>1. Item(x, i) = ShowKitty(x, Display(0, 2), <<i>>, FALSE)
    BY <1>3 DEF Item
  <2>2. IsCommand(Display(0, 2)) /\ Display(0, 2).action # "delete"
    BY DEF IsCommand, Display
  <2>3. Keeps(x, Item(x, i)) /\ Climbs(x, Item(x, i), {})
    BY <2>1, <2>2, KittyKeeps
  <2> QED
    BY <2>3, ClimbsWider
<1> QED
  BY <1>1, <1>2, <1>3

LEMMA ChunkKeeps ==
    ASSUME NEW x, Sound(x), Inside(x), NEW S, NEW items \in Seq(S)
    PROVE  Keeps(x, Chunk(x, items)) /\ Climbs(x, Chunk(x, items), Int)
<1> DEFINE ordered == Retained(items, Pictures) \o Retained(items, Range(items) \ Pictures)
           size == Len(ordered)
           next(g, n) == IF n = 0 THEN x ELSE Item(g[n - 1], ordered[n])
           built(g, m) == g = [n \in 0..m |-> next(g, n)]
           some == {m \in Nat : \E g : built(g, m)}
           after == CHOOSE g : built(g, size)
           good == {n \in Nat : n <= size => Keeps(x, after[n]) /\ Climbs(x, after[n], Int)}
<1>0. size \in Nat
  <2>1. /\ Retained(items, Pictures) \in Seq(S \cap Pictures)
        /\ Retained(items, Range(items) \ Pictures) \in Seq(S \cap (Range(items) \ Pictures))
    BY RetainedIsList
  <2>2. Retained(items, Pictures) \in Seq(S) /\ Retained(items, Range(items) \ Pictures) \in Seq(S)
    BY <2>1
  <2> QED
    BY <2>2
<1>9. Chunk(x, items) = (CHOOSE g : g = [n \in 0..size |->
                            IF n = 0 THEN x ELSE Item(g[n - 1], ordered[n])])[size]
  BY DEF Chunk
<1> HIDE DEF next, size, ordered
<1>1. 0 \in some
  <2> DEFINE g == [n \in 0..0 |-> x]
  <2>1. \A n \in 0..0 : next(g, n) = x
    BY DEF next
  <2>2. built(g, 0)
    BY <2>1
  <2> QED
    BY <2>2
<1>2. ASSUME NEW m \in Nat, m \in some
      PROVE  m + 1 \in some
  <2>1. PICK g : built(g, m)
    BY <1>2
  <2>5. \A n \in 0..m : g[n] = next(g, n)
    BY <2>1
  <2> DEFINE h == [n \in 0..(m + 1) |-> IF n = m + 1 THEN next(g, m + 1) ELSE g[n]]
  <2>2. ASSUME NEW n \in 0..(m + 1)
        PROVE  h[n] = next(h, n)
    <3>1. CASE n = 0
      <4>1. h[0] = g[0] /\ g[0] = next(g, 0)
        BY <2>5, <3>1
      <4> QED
        BY <3>1, <4>1 DEF next
    <3>2. CASE n # 0
      <4>1. n - 1 \in 0..m /\ h[n - 1] = g[n - 1]
        BY <3>2
      <4>2. next(h, n) = next(g, n)
        BY <3>2, <4>1 DEF next
      <4>3. n # m + 1 => n \in 0..m /\ g[n] = next(g, n)
        BY <2>5
      <4> QED
        BY <4>2, <4>3
    <3> QED
      BY <3>1, <3>2
  <2>3. h = [n \in 0..(m + 1) |-> h[n]]
    OBVIOUS
  <2>4. built(h, m + 1)
    BY <2>2, <2>3
  <2> HIDE DEF built, h
  <2> QED
    BY <2>4
<1>3. built(after, size)
  BY <1>0, <1>1, <1>2, Climb
<1>4. Chunk(x, items) = after[size]
  BY <1>9 DEF next
<1>5. \A n \in 0..size : after[n] = next(after, n)
  <2> HIDE DEF after
  <2> QED
    BY <1>3
<1> HIDE DEF built, some, after
<1>6. 0 \in good
  <2>1. after[0] = x
    BY <1>0, <1>5 DEF next
  <2>2. Climbs(x, x, {}) /\ {} \subseteq Int
    BY SameClimbs
  <2>3. Climbs(x, x, Int)
    BY <2>2, ClimbsWider
  <2> QED
    BY <2>1, <2>3 DEF Keeps, Steady
<1>7. ASSUME NEW n \in Nat, n \in good
      PROVE  n + 1 \in good
  <2>1. CASE n + 1 <= size
    <3>1. Keeps(x, after[n]) /\ Climbs(x, after[n], Int) /\ after[n + 1] = next(after, n + 1)
      BY <1>0, <1>5, <1>7, <2>1
    <3>2. after[n + 1] = Item(after[n], ordered[n + 1])
      <4>1. (n + 1) - 1 = n /\ n + 1 # 0
        OBVIOUS
      <4> QED
        BY <3>1, <4>1 DEF next
    <3>3. Keeps(after[n], after[n + 1]) /\ Climbs(after[n], after[n + 1], Int)
      BY <3>1, <3>2, ItemKeeps DEF Keeps, Steady
    <3>4. Keeps(x, after[n + 1])
      BY <3>1, <3>3, KeepsChain
    <3>5. Climbs(x, after[n + 1], Int)
      BY <3>1, <3>3, <3>4, ClimbsChain DEF Keeps, Steady
    <3> QED
      BY <3>4, <3>5
  <2> QED
    BY <2>1
<1>8. size \in good
  BY <1>0, <1>6, <1>7, Climb
<1> QED
  BY <1>0, <1>4, <1>8

\* One field that nothing here depends on.
LEMMA OneFieldChanges ==
    ASSUME NEW x, Sound(x), NEW y, NEW f \in Fields \ Core, NEW v,
           y = [x EXCEPT ![f] = v]
    PROVE  Keeps(x, y)
<1>1. DOMAIN y = Fields /\ \A e \in Core : y[e] = x[e]
  BY DEF Sound, Fields
<1> QED
  BY <1>1, OtherFields

LEMMA MarksKeep ==
    ASSUME NEW x, Sound(x), NEW i
    PROVE  /\ Keeps(x, MarkPrompt(x)) /\ Keeps(x, MarkExecuted(x)) /\ Keeps(x, FinishCommand(x))
           /\ Keeps(x, JumpTo(x, i))
<1>1. \A y : DOMAIN y = Fields /\ (\A f \in Core : y[f] = x[f]) => Keeps(x, y)
  BY OtherFields
<1>2. DOMAIN FinishCommand(x) = Fields /\ \A f \in Core : FinishCommand(x)[f] = x[f]
  BY DEF FinishCommand, Sound, Fields, Core
<1>3. DOMAIN MarkPrompt(x) = Fields /\ \A f \in Core : MarkPrompt(x)[f] = x[f]
  <2> DEFINE y == FinishCommand(x)
             p == [prompt |-> AbsLine(x), started |-> FALSE]
  <2>1. DOMAIN y = Fields /\ \A f \in Core : y[f] = x[f]
    BY <1>2
  <2>2. MarkPrompt(x) = [y EXCEPT !.pending = p]
    BY DEF MarkPrompt
  <2>3. "pending" \notin Core
    BY DEF Core
  <2> HIDE DEF y, p
  <2>4. DOMAIN MarkPrompt(x) = DOMAIN y
    BY <2>2
  <2>5. ASSUME NEW f \in Core
        PROVE  MarkPrompt(x)[f] = x[f]
    <3>1. f # "pending" /\ f \in DOMAIN y
      BY <2>1, <2>3 DEF Fields
    <3>2. MarkPrompt(x)[f] = y[f]
      BY <2>2, <3>1
    <3> QED
      BY <2>1, <3>2
  <2> QED
    BY <2>1, <2>4, <2>5
<1>4. DOMAIN MarkExecuted(x) = Fields /\ \A f \in Core : MarkExecuted(x)[f] = x[f]
  BY DEF MarkExecuted, Sound, Fields, Core
<1>5. DOMAIN JumpTo(x, i) = Fields /\ \A f \in Core : JumpTo(x, i)[f] = x[f]
  BY DEF JumpTo, Sound, Fields, Core
<1> QED
  BY <1>1, <1>2, <1>3, <1>4, <1>5

-----------------------------------------------------------------------------
(* The actions, one by one.                                                *)

Still == scope' = scope /\ saved' = saved

LEMMA ParametersAreNumbers ==
    ASSUME scope \in DOMAIN Scopes
    PROVE  /\ \A n \in Counts : n \in Nat \ {0}
           /\ \A z \in Sizes : z[1] \in Nat \ {0} /\ z[2] \in Nat \ {0}
           /\ \A c \in Scopes[scope].chars : c \in Cell \ {Cont}
BY TerminalAssumption DEF Sizes

LEMMA TabStopsKeep ==
    ASSUME NEW x, Sound(x), NEW tabs \in SUBSET (0..(x.cols - 1))
    PROVE  Keeps(x, [x EXCEPT !.tabs = tabs])
<1> DEFINE y == [x EXCEPT !.tabs = tabs]
<1>1. /\ DOMAIN y = Fields /\ y.main = x.main /\ y.alt = x.alt /\ y.usingAlt = x.usingAlt
      /\ y.cols = x.cols /\ y.rows = x.rows /\ y.col = x.col /\ y.row = x.row /\ y.wrap = x.wrap
      /\ y.savedMain = x.savedMain /\ y.savedAlt = x.savedAlt /\ y.top = x.top
      /\ y.bottom = x.bottom /\ y.tabs = tabs /\ y.total = x.total /\ y.store = x.store
  BY DEF Sound, Fields, Core
<1> HIDE DEF y
<1> QED
  BY <1>1 DEF Keeps, Steady, Sound, Inside, AtEdge, Clean, Screen, y

LEMMA MoveCursorStays ==
    ASSUME Sound(t), scope \in DOMAIN Scopes, MoveCursor
    PROVE  Keeps(t, t') /\ Still
<1>1. PICK n \in Counts :
         \/ Do(MoveTo(t, t.col, Sub(t.row, n)))
         \/ Do(MoveTo(t, t.col, ClampRow(t, t.row + n)))
         \/ Do(MoveTo(t, ClampCol(t, t.col + n), t.row))
         \/ Do(MoveTo(t, Sub(t.col, n), t.row))
         \/ Do(MoveTo(t, 0, ClampRow(t, t.row + n)))
         \/ Do(MoveTo(t, 0, Sub(t.row, n)))
         \/ Do(MoveTo(t, ClampCol(t, n - 1), t.row))
         \/ Do(MoveTo(t, t.col, ClampRow(t, n - 1)))
         \/ \E m \in Counts : Do(MoveTo(t, ClampCol(t, m - 1), ClampRow(t, n - 1)))
  BY DEF MoveCursor
<1>2. /\ t.col \in Nat /\ t.row \in Nat /\ t.cols \in Nat \ {0} /\ t.rows \in Nat \ {0}
  BY DEF Sound
<1>3. \A c, r : Do(MoveTo(t, c, r)) => t' = MoveTo(t, c, r) /\ Still
  BY DEF Do, Still
<1>4. ASSUME NEW k \in Nat
      PROVE  /\ ClampCol(t, k) \in Nat /\ ClampCol(t, k) < t.cols
             /\ ClampRow(t, k) \in Nat /\ ClampRow(t, k) < t.rows
             /\ Sub(t.row, k) \in Nat /\ Sub(t.row, k) <= t.row
             /\ Sub(t.col, k) \in Nat /\ Sub(t.col, k) <= t.col
  BY <1>2 DEF ClampCol, ClampRow, Sub, Least, Most
<1>6. ASSUME NEW c \in Nat, NEW r \in Nat, c <= t.col \/ c < t.cols, r <= t.row \/ r < t.rows
      PROVE  Keeps(t, MoveTo(t, c, r))
  <2>1. Inside(t) => c < t.cols /\ r < t.rows
    BY <1>2, <1>6 DEF Inside
  <2> QED
    BY <2>1, MoveToKeeps
<1>7. ASSUME NEW m \in Counts
      PROVE  /\ m \in Nat /\ m - 1 \in Nat /\ t.row + m \in Nat /\ t.col + m \in Nat
  BY <1>2, ParametersAreNumbers
<1>8. PICK c \in Nat, r \in Nat :
         /\ c <= t.col \/ c < t.cols
         /\ r <= t.row \/ r < t.rows
         /\ Do(MoveTo(t, c, r))
  <2>1. n \in Nat /\ n - 1 \in Nat /\ t.row + n \in Nat /\ t.col + n \in Nat
    BY <1>7
  <2>2. /\ t.col <= t.col /\ t.row <= t.row /\ 0 \in Nat /\ 0 <= t.col
    BY <1>2
  <2>3. CASE \E m \in Counts : Do(MoveTo(t, ClampCol(t, m - 1), ClampRow(t, n - 1)))
    <3>1. PICK m \in Counts : Do(MoveTo(t, ClampCol(t, m - 1), ClampRow(t, n - 1)))
      BY <2>3
    <3>2. m - 1 \in Nat
      BY <1>7
    <3>3. ClampCol(t, m - 1) \in Nat /\ ClampCol(t, m - 1) < t.cols
      BY <1>4, <3>2
    <3>4. ClampRow(t, n - 1) \in Nat /\ ClampRow(t, n - 1) < t.rows
      BY <1>4, <2>1
    <3> QED
      BY <3>1, <3>3, <3>4
  <2>4. CASE \/ Do(MoveTo(t, t.col, Sub(t.row, n)))
             \/ Do(MoveTo(t, Sub(t.col, n), t.row))
             \/ Do(MoveTo(t, 0, Sub(t.row, n)))
    <3>1. /\ Sub(t.row, n) \in Nat /\ Sub(t.row, n) <= t.row
          /\ Sub(t.col, n) \in Nat /\ Sub(t.col, n) <= t.col
      BY <1>4, <2>1
    <3> QED
      BY <1>2, <2>2, <2>4, <3>1
  <2>5. CASE \/ Do(MoveTo(t, t.col, ClampRow(t, t.row + n)))
             \/ Do(MoveTo(t, 0, ClampRow(t, t.row + n)))
             \/ Do(MoveTo(t, ClampCol(t, t.col + n), t.row))
    <3>1. /\ ClampRow(t, t.row + n) \in Nat /\ ClampRow(t, t.row + n) < t.rows
      BY <1>4, <2>1
    <3>2. /\ ClampCol(t, t.col + n) \in Nat /\ ClampCol(t, t.col + n) < t.cols
      BY <1>4, <2>1
    <3> QED
      BY <1>2, <2>2, <2>5, <3>1, <3>2
  <2>6. CASE \/ Do(MoveTo(t, ClampCol(t, n - 1), t.row))
             \/ Do(MoveTo(t, t.col, ClampRow(t, n - 1)))
    <3>1. /\ ClampRow(t, n - 1) \in Nat /\ ClampRow(t, n - 1) < t.rows
          /\ ClampCol(t, n - 1) \in Nat /\ ClampCol(t, n - 1) < t.cols
      BY <1>4, <2>1
    <3> QED
      BY <1>2, <2>2, <2>6, <3>1
  <2> QED
    BY <1>1, <2>3, <2>4, <2>5, <2>6
<1> QED
  BY <1>3, <1>6, <1>8

LEMMA ControlStays ==
    ASSUME Sound(t), Control
    PROVE  Keeps(t, t') /\ Still
<1>1. t.col \in Nat /\ t.row \in Nat /\ t.cols \in Nat \ {0}
  BY DEF Sound
<1>2. /\ Sub(t.col, 1) \in Nat /\ 0 \in Nat
      /\ Inside(t) => /\ Sub(t.col, 1) < t.cols /\ t.row < t.rows
                      /\ 0 < t.cols
  BY <1>1 DEF Sub, Most, Inside
<1>3. Keeps(t, MoveTo(t, Sub(t.col, 1), t.row))
  BY <1>1, <1>2, MoveToKeeps
<1>4. Keeps(t, MoveTo(t, 0, t.row))
  BY <1>1, <1>2, MoveToKeeps
<1>5. ASSUME NEW on
      PROVE  Keeps(t, [t EXCEPT !.autoWrap = on])
  <2>1. "autoWrap" \in Fields \ Core
    BY DEF Fields, Core
  <2> QED
    BY <2>1, OneFieldChanges
<1> QED
  BY <1>3, <1>4, <1>5 DEF Control, Do, Still, Backspace, Return

LEMMA TabulateStays ==
    ASSUME Sound(t), Tabulate
    PROVE  Keeps(t, t') /\ Still
<1>1. /\ t.tabs \ {t.col} \in SUBSET (0..(t.cols - 1)) /\ {} \in SUBSET (0..(t.cols - 1))
      /\ Inside(t) => t.tabs \cup {t.col} \in SUBSET (0..(t.cols - 1))
  BY DEF Sound, Inside
<1>2. /\ Keeps(t, [t EXCEPT !.tabs = t.tabs \ {t.col}]) /\ Keeps(t, [t EXCEPT !.tabs = {}])
      /\ Inside(t) => Keeps(t, [t EXCEPT !.tabs = t.tabs \cup {t.col}])
  BY <1>1, TabStopsKeep
<1>3. /\ [t EXCEPT !.tabs = @ \cup {t.col}] = [t EXCEPT !.tabs = t.tabs \cup {t.col}]
      /\ [t EXCEPT !.tabs = @ \ {t.col}] = [t EXCEPT !.tabs = t.tabs \ {t.col}]
  OBVIOUS
<1> QED
  BY <1>2, <1>3, TabsKeep DEF Tabulate, Do, Still

LEMMA LinesStay ==
    ASSUME Sound(t), Lines \/ ReverseLine
    PROVE  Keeps(t, t') /\ Still
BY LinefeedKeeps, NewlineKeeps, ReverseIndexKeeps DEF Lines, ReverseLine, At, Do, Still

LEMMA ModesStay ==
    ASSUME Sound(t), SetLinefeed \/ ShowCursor \/ ScrollView
    PROVE  Keeps(t, t') /\ Still
<1>1. {"linefeed", "visible", "offset"} \subseteq Fields \ Core
  BY DEF Fields, Core
<1>2. ASSUME NEW v
      PROVE  /\ Keeps(t, [t EXCEPT !.linefeed = v]) /\ Keeps(t, [t EXCEPT !.visible = v])
             /\ Keeps(t, [t EXCEPT !.offset = v])
  BY <1>1, OneFieldChanges
<1> QED
  BY <1>2 DEF SetLinefeed, ShowCursor, ScrollView, Do, Still

LEMMA EditCellsStays ==
    ASSUME Sound(t), scope \in DOMAIN Scopes, EditCells
    PROVE  Keeps(t, t') /\ Still
BY ParametersAreNumbers, CellsKeep, ErasingKeeps DEF EditCells, At, Do, Still

LEMMA EditLinesStays ==
    ASSUME Sound(t), scope \in DOMAIN Scopes, EditLines \/ ScrollUpBy \/ SetOrigin
    PROVE  Keeps(t, t') /\ Still
<1>1. CASE EditLines \/ ScrollUpBy
  BY <1>1, ParametersAreNumbers, RegionsKeep, MarginsKeep DEF EditLines, ScrollUpBy, At, Do, Still
<1>2. CASE SetOrigin
  <2>1. 1 \in Nat \ {0}
    OBVIOUS
  <2>2. \A on : Keeps(t, OriginMode(t, on))
    BY <2>1, MarginsKeep
  <2> QED
    BY <1>2, <2>2 DEF SetOrigin, Do, Still
<1> QED
  BY <1>1, <1>2

LEMMA SaveStays ==
    ASSUME Sound(t), Save
    PROVE  Keeps(t, t') /\ Still
BY SaveKeeps DEF Save, Do, Still

LEMMA ResetStays ==
    ASSUME Sound(t), Reset
    PROVE  Keeps(t, t') /\ Still
<1>1. t.cols \in Nat \ {0} /\ t.rows \in Nat \ {0}
  BY DEF Sound
<1>2. Keeps(t, NewTerminal(t.cols, t.rows))
  <2> DEFINE y == NewTerminal(t.cols, t.rows)
  <2>1. Sound(y) /\ Inside(y) /\ y.wrap = FALSE /\ (t.cols > 1 => Clean(y))
    BY <1>1, NewIsSound
  <2> HIDE DEF y
  <2> QED
    BY <2>1 DEF Keeps, Steady, AtEdge, Clean, y
<1> QED
  BY <1>2 DEF Reset, Do, Still

LEMMA ClearTerminalStays ==
    ASSUME Sound(t), ClearTerminal
    PROVE  Keeps(t, t') /\ Still
BY ClearKeeps DEF ClearTerminal, Do, Still

LEMMA KittyStays ==
    ASSUME Sound(t), Kitty \/ KittyDelete
    PROVE  Keeps(t, t') /\ Still
<1>1. CASE Kitty
  <2>1. PICK more \in BOOLEAN, id \in 0..IdMax, data \in {<<>>} \cup {<<p>> : p \in Pictures},
             action \in {"transmit", "display", "place"} :
           Do(ShowKitty(t, [Display(id, 2) EXCEPT !.action = action], data, more))
    BY <1>1 DEF Kitty
  <2>2. /\ IsCommand([Display(id, 2) EXCEPT !.action = action])
        /\ [Display(id, 2) EXCEPT !.action = action].action # "delete"
    BY DEF IsCommand, Display
  <2>3. Keeps(t, ShowKitty(t, [Display(id, 2) EXCEPT !.action = action], data, more))
    BY <2>2, KittyKeeps
  <2> QED
    BY <2>1, <2>3 DEF Do, Still
<1>2. CASE KittyDelete
  <2>1. PICK id \in 0..IdMax, target \in {"all", "id", "other"} :
           Do(ShowKitty(t, [action |-> "delete", id |-> id, lines |-> 0, target |-> target],
                        <<>>, FALSE))
    BY <1>2 DEF KittyDelete
  <2> DEFINE cmd == [action |-> "delete", id |-> id, lines |-> 0, target |-> target]
  <2>2. IsCommand(cmd)
    BY DEF IsCommand
  <2>3. Keeps(t, ShowKitty(t, cmd, <<>>, FALSE))
    BY <2>2, KittyKeeps
  <2> QED
    BY <2>1, <2>3 DEF Do, Still
<1> QED
  BY <1>1, <1>2

LEMMA ItermStays ==
    ASSUME Sound(t), Iterm
    PROVE  Keeps(t, t') /\ Still
<1>1. CASE \E p \in Pictures :
              Do(WithStore(t, ShowImage(t.store, <<p>>, 1, t.row, t.rows)))
  <2>1. PICK p \in Pictures :
            Do(WithStore(t, ShowImage(t.store, <<p>>, 1, t.row, t.rows)))
    BY <1>1
  <2>2. 1 \in Nat
    OBVIOUS
  <2>3. Keeps(t, WithStore(t, ShowImage(t.store, <<p>>, 1, t.row, t.rows)))
    BY <2>2, ImagesKeep
  <2> QED
    BY <2>1, <2>3 DEF Do, Still
<1>2. CASE \E inline \in {"inline", "file"} : Do([t EXCEPT !.store = ItermBegin(@, inline)])
  <2>1. PICK inline \in {"inline", "file"} : Do([t EXCEPT !.store = ItermBegin(@, inline)])
    BY <1>2
  <2>2. 1 \in Nat
    OBVIOUS
  <2>3. Keeps(t, [t EXCEPT !.store = ItermBegin(@, inline)])
    BY <2>2, ImagesKeep
  <2> QED
    BY <2>1, <2>3 DEF Do, Still
<1>3. CASE \E p \in Pictures : Do([t EXCEPT !.store = ItermPart(@, <<p>>)])
  <2>1. PICK p \in Pictures : Do([t EXCEPT !.store = ItermPart(@, <<p>>)])
    BY <1>3
  <2>2. 1 \in Nat
    OBVIOUS
  <2>3. Keeps(t, [t EXCEPT !.store = ItermPart(@, <<p>>)])
    BY <2>2, ImagesKeep
  <2> QED
    BY <2>1, <2>3 DEF Do, Still
<1>4. CASE Do(WithStore(t, ItermEnd(t.store, 2, t.row, t.rows)))
  <2>1. 2 \in Nat
    OBVIOUS
  <2>2. Keeps(t, WithStore(t, ItermEnd(t.store, 2, t.row, t.rows)))
    BY <2>1, ImagesKeep
  <2> QED
    BY <1>4, <2>2 DEF Do, Still
<1> QED
  BY <1>1, <1>2, <1>3, <1>4 DEF Iterm

LEMMA DcsStays ==
    ASSUME Sound(t), Dcs
    PROVE  Keeps(t, t') /\ Climbs(t, t', {}) /\ Still
<1>1. "dcs" \in Fields \ Core
  BY DEF Fields, Core
<1>2. ASSUME NEW d
      PROVE  /\ Keeps(t, [t EXCEPT !.dcs = d])
             /\ \A f \in Core : [t EXCEPT !.dcs = d][f] = t[f]
  <2>1. \A f \in Core : f # "dcs" /\ f \in DOMAIN t
    BY <1>1 DEF Sound, Fields
  <2> QED
    BY <1>1, <2>1, OneFieldChanges
<1>3. CASE \E d : Do([t EXCEPT !.dcs = d])
  <2>1. PICK d : Do([t EXCEPT !.dcs = d])
    BY <1>3
  <2> DEFINE idle == [t EXCEPT !.dcs = d]
  <2>2. Keeps(t, idle) /\ \A f \in Core : idle[f] = t[f]
    BY <1>2
  <2> HIDE DEF idle
  <2>3. Climbs(t, idle, {})
    BY <2>2, ElsewhereClimbs DEF Keeps, Steady, Elsewhere
  <2> QED
    BY <2>1, <2>2, <2>3 DEF Do, Still, idle
<1>4. CASE /\ t.dcs.mode = "sixel"
           /\ LET idle == [t EXCEPT !.dcs = [mode |-> "none",
                             data |-> IF @.mode = "none" THEN @.data ELSE <<>>]]
              IN  Do(WithStore(idle, ShowImage(t.store, t.dcs.data, 1, t.row, t.rows)))
  <2> DEFINE d == [mode |-> "none",
                   data |-> IF t.dcs.mode = "none" THEN t.dcs.data ELSE <<>>]
             idle == [t EXCEPT !.dcs = d]
             s == ShowImage(t.store, t.dcs.data, 1, t.row, t.rows)
  <2>1. Do(WithStore(idle, s))
    BY <1>4
  <2> HIDE DEF d
  <2>2. Keeps(t, idle) /\ \A f \in Core : idle[f] = t[f]
    BY <1>2
  <2> HIDE DEF idle
  <2>3. Sound(idle) /\ idle.total = t.total
    BY <2>2 DEF Keeps, Steady, Core
  <2>4. IsStore(s) /\ Grows(t.store, s)
    <3>1. t.row \in Nat /\ t.rows \in Nat \ {0} /\ IsStore(t.store) /\ 1 \in Nat
      BY DEF Sound
    <3> QED
      BY <3>1, ShownIsStore
  <2> HIDE DEF s
  <2>5. Keeps(idle, WithStore(idle, s)) /\ Climbs(idle, WithStore(idle, s), {})
    BY <2>2, <2>3, <2>4, WithStoreKeeps DEF Core
  <2>6. Keeps(t, WithStore(idle, s))
    BY <2>2, <2>5, KeepsChain
  <2>7. Climbs(t, idle, {})
    BY <2>2, <2>3, ElsewhereClimbs DEF Elsewhere
  <2>8. Climbs(t, WithStore(idle, s), {})
    BY <2>3, <2>5, <2>7, ClimbsChain DEF Keeps, Steady
  <2> QED
    BY <2>1, <2>6, <2>8 DEF Do, Still
<1>5. ASSUME NEW p \in Pictures, Do([t EXCEPT !.dcs.data = <<p>>])
      PROVE  \E d : Do([t EXCEPT !.dcs = d])
  <2>1. [t EXCEPT !.dcs.data = <<p>>] = [t EXCEPT !.dcs = [t.dcs EXCEPT !.data = <<p>>]]
    OBVIOUS
  <2> QED
    BY <1>5, <2>1
<1>6. ASSUME NEW mode,
             Do([t EXCEPT !.dcs = [mode |-> mode,
                                   data |-> IF mode = "none" THEN @.data ELSE <<>>]])
      PROVE  \E d : Do([t EXCEPT !.dcs = d])
  BY <1>6
<1>7. ASSUME Do([t EXCEPT !.dcs = [mode |-> "none",
                              data |-> IF @.mode = "none" THEN @.data ELSE <<>>]])
      PROVE  \E d : Do([t EXCEPT !.dcs = d])
  BY <1>7
<1>8. \/ \E mode \in {"sixel", "decdld", "none"} :
            Do([t EXCEPT !.dcs = [mode |-> mode,
                                  data |-> IF mode = "none" THEN @.data ELSE <<>>]])
      \/ \E p \in Pictures : Do([t EXCEPT !.dcs.data = <<p>>])
      \/ Do([t EXCEPT !.dcs = [mode |-> "none",
                              data |-> IF @.mode = "none" THEN @.data ELSE <<>>]])
      \/ /\ t.dcs.mode = "sixel"
         /\ LET idle == [t EXCEPT !.dcs = [mode |-> "none",
                           data |-> IF @.mode = "none" THEN @.data ELSE <<>>]]
            IN  Do(WithStore(idle, ShowImage(t.store, t.dcs.data, 1, t.row, t.rows)))
  BY Zenon DEF Dcs
<1> QED
  BY <1>3, <1>4, <1>5, <1>6, <1>7, <1>8

LEMMA FeedChunkStays ==
    ASSUME Sound(t), FeedChunk
    PROVE  Keeps(t, t') /\ Climbs(t, t', Int) /\ Still
<1>1. PICK items \in Chunks : Inside(t) /\ Do(Chunk(t, items))
  BY DEF FeedChunk
<1> DEFINE S == {"text", "feed", CHOOSE p \in Pictures : TRUE}
<1>2. PICK m \in 0..2 : items \in [1..m -> S]
  BY DEF Chunks, SeqOf
<1> HIDE DEF S
<1>3. items \in Seq(S)
  BY <1>2
<1>4. Keeps(t, Chunk(t, items)) /\ Climbs(t, Chunk(t, items), Int)
  BY <1>1, <1>3, ChunkKeeps
<1> QED
  BY <1>1, <1>4 DEF Do, Still

LEMMA MarksStay ==
    ASSUME Sound(t), MarkCommand \/ Jump
    PROVE  Keeps(t, t') /\ Still
<1>1. CASE MarkCommand
  BY <1>1, MarksKeep DEF MarkCommand, Do, Still
<1>2. CASE Jump
  <2>1. PICK i : Do(JumpTo(t, i))
    BY <1>2 DEF Jump
  <2>2. Keeps(t, JumpTo(t, i))
    BY MarksKeep
  <2> QED
    BY <2>1, <2>2 DEF Do, Still
<1> QED
  BY <1>1, <1>2

-----------------------------------------------------------------------------
(* The invariant.                                                          *)

Inv ==
    /\ scope \in DOMAIN Scopes
    /\ Sound(t)
    /\ saved # Nothing => IsSnapshot(saved)

\* The actions after which the cursor is on the screen, the wrap at the edge and
\* the screen clean if they were before; and the others, by what they may change.
Keeping ==
    \/ MoveCursor \/ Control \/ Tabulate \/ Lines \/ ReverseLine \/ SetLinefeed
    \/ EditCells \/ EditLines \/ ScrollUpBy \/ SetOrigin \/ Save \/ ShowCursor \/ Reset
    \/ ClearTerminal \/ Kitty \/ KittyDelete \/ Iterm \/ Dcs \/ FeedChunk
    \/ MarkCommand \/ Jump \/ ScrollView

LEMMA KeepingStays ==
    ASSUME Inv, Keeping
    PROVE  Keeps(t, t') /\ Still
<1>1. Sound(t) /\ scope \in DOMAIN Scopes
  BY DEF Inv
<1> QED
  BY <1>1, MoveCursorStays, ControlStays, TabulateStays, LinesStay, ModesStay, EditCellsStays,
     EditLinesStays, SaveStays, ResetStays, ClearTerminalStays, KittyStays, ItermStays,
     DcsStays, FeedChunkStays, MarksStay
  DEF Keeping

LEMMA PrintCharGoes ==
    ASSUME Inv, PrintChar
    PROVE  Steady(t, t') /\ Still /\ t'.cols = t.cols /\ t'.rows = t.rows /\ (Clean(t) => Whole(t'))
<1>1. PICK ch \in Scopes[scope].chars : Inside(t) /\ Do(DoPrint(t, ch))
  BY DEF PrintChar, At
<1>2. ch \in Cell \ {Cont}
  BY ParametersAreNumbers DEF Inv
<1>3. t' = DoPrint(t, ch) /\ Still
  BY <1>1 DEF Do, Still
<1> QED
  BY <1>1, <1>2, <1>3, DoPrintKeeps DEF Inv

LEMMA InsertBlanksGoes ==
    ASSUME Inv, InsertBlanks
    PROVE  Steady(t, t') /\ Still
BY ParametersAreNumbers, CellsKeep DEF Inv, InsertBlanks, At, Do, Still

LEMMA ResizeToGoes ==
    ASSUME Inv, ResizeTo
    PROVE  Steady(t, t') /\ Still
BY ParametersAreNumbers, ResizeIsSteady DEF Inv, ResizeTo, Do, Still

LEMMA RestoreSnapshotGoes ==
    ASSUME Inv, RestoreSnapshot
    PROVE  Steady(t, t') /\ Still
BY RestoredIsSteady DEF Inv, RestoreSnapshot, Do, Still

LEMMA EscNextLineGoes ==
    ASSUME Inv, EscNextLine
    PROVE  /\ Sound(t') /\ (Inside(t) => Inside(t')) /\ (Clean(t) => Clean(t')) /\ Still
BY NextLineGoes DEF Inv, EscNextLine, At, Do, Still

LEMMA RestoreDoes ==
    ASSUME Inv, Restore
    PROVE  Sound(t') /\ (Clean(t) => Clean(t')) /\ Still
BY RestoreGoes DEF Inv, Restore, Do, Still

LEMMA SwitchScreensGoes ==
    ASSUME Inv, SwitchScreens
    PROVE  Sound(t') /\ Still
BY SwitchesAreSound DEF Inv, SwitchScreens, Do, Still

LEMMA TakeSnapshotGoes ==
    ASSUME Inv, TakeSnapshot
    PROVE  t' = t /\ scope' = scope /\ IsSnapshot(saved')
BY SnapshotIsOne DEF Inv, TakeSnapshot

LEMMA NextIs ==
    ASSUME Next
    PROVE  \/ Keeping \/ PrintChar \/ InsertBlanks \/ ResizeTo \/ RestoreSnapshot
           \/ EscNextLine \/ Restore \/ SwitchScreens \/ TakeSnapshot
BY DEF Next, Keeping

LEMMA InitInv == Init => Inv
<1> SUFFICES ASSUME Init
             PROVE  Inv
  OBVIOUS
<1>1. PICK z \in Sizes : t = NewTerminal(z[1], z[2])
  BY DEF Init
<1>2. z[1] \in Nat \ {0} /\ z[2] \in Nat \ {0}
  BY ParametersAreNumbers DEF Init
<1>3. Sound(t)
  BY <1>1, <1>2, NewIsSound
<1> QED
  BY <1>3 DEF Init, Inv

LEMMA NextInv == Inv /\ [Next]_vars => Inv'
<1> SUFFICES ASSUME Inv, [Next]_vars
             PROVE  Inv'
  OBVIOUS
<1>1. ASSUME Sound(t'), Still
      PROVE  Inv'
  BY <1>1 DEF Inv, Still
<1>2. CASE Keeping
  BY <1>1, <1>2, KeepingStays DEF Keeps, Steady
<1>3. CASE PrintChar
  BY <1>1, <1>3, PrintCharGoes DEF Steady
<1>4. CASE InsertBlanks \/ ResizeTo \/ RestoreSnapshot
  BY <1>1, <1>4, InsertBlanksGoes, ResizeToGoes, RestoreSnapshotGoes DEF Steady
<1>5. CASE EscNextLine \/ Restore \/ SwitchScreens
  BY <1>1, <1>5, EscNextLineGoes, RestoreDoes, SwitchScreensGoes
<1>6. CASE TakeSnapshot
  BY <1>6, TakeSnapshotGoes DEF Inv
<1>7. CASE UNCHANGED vars
  BY <1>7 DEF Inv, vars
<1> QED
  BY <1>2, <1>3, <1>4, <1>5, <1>6, <1>7, NextIs

\* Every screen has its size, the tab stops and margins lie on it, and every
\* placement shows an image that is stored, in every state the handlers can
\* reach; what is saved is a snapshot a terminal can be made from.
THEOREM Invariance == Spec => []Inv
<1> QED
  BY InitInv, NextInv, PTL DEF Spec

-----------------------------------------------------------------------------
(* The properties.                                                         *)

\* Of all handlers only those that put back a saved position take the cursor off
\* the screen.
THEOREM CursorStaysInside == Spec => CursorLeavesByRestoreOnly
<1>1. Inv /\ [Next]_vars => [Inside(t) /\ ~Inside(t') => Restore \/ SwitchScreens]_vars
  <2> SUFFICES ASSUME Inv, Next, Inside(t), ~Inside(t')
               PROVE  Restore \/ SwitchScreens
    BY DEF vars
  <2>1. ~Keeping
    BY KeepingStays DEF Keeps, Steady
  <2>2. ~PrintChar /\ ~InsertBlanks /\ ~ResizeTo /\ ~RestoreSnapshot
    BY PrintCharGoes, InsertBlanksGoes, ResizeToGoes, RestoreSnapshotGoes DEF Steady
  <2>3. ~EscNextLine /\ ~TakeSnapshot
    BY EscNextLineGoes, TakeSnapshotGoes
  <2> QED
    BY <2>1, <2>2, <2>3, NextIs
<1> QED
  BY <1>1, Invariance, PTL DEF Spec, CursorLeavesByRestoreOnly

\* A pending wrap leaves the last column by ESC E, a switch of the screens or a
\* restored cursor only.
THEOREM WrapStaysAtTheEdge == Spec => WrapWaitsAtTheEdge
<1>1. Inv /\ [Next]_vars =>
          [AtEdge(t) /\ ~AtEdge(t') => EscNextLine \/ SwitchScreens \/ Restore]_vars
  <2> SUFFICES ASSUME Inv, Next, AtEdge(t), ~AtEdge(t')
               PROVE  EscNextLine \/ SwitchScreens \/ Restore
    BY DEF vars
  <2>1. ~Keeping
    BY KeepingStays DEF Keeps, Steady
  <2>2. ~PrintChar /\ ~InsertBlanks /\ ~ResizeTo /\ ~RestoreSnapshot
    BY PrintCharGoes, InsertBlanksGoes, ResizeToGoes, RestoreSnapshotGoes DEF Steady
  <2>3. ~TakeSnapshot
    BY TakeSnapshotGoes
  <2> QED
    BY <2>1, <2>2, <2>3, NextIs
<1> QED
  BY <1>1, Invariance, PTL DEF Spec, WrapWaitsAtTheEdge

LEMMA CleanIsPaired ==
    ASSUME NEW x, Sound(x)
    PROVE  /\ Paired(Screen(x)) <=> Whole(x)
           /\ Clean(x) <=> /\ x.cols > 1 /\ Whole(x)
                           /\ \A r \in DOMAIN Screen(x) : \A c \in DOMAIN Screen(x)[r] :
                                 Screen(x)[r][c] # Mark
<1>1. /\ IsGrid(Screen(x), x.cols, x.rows) /\ x.cols \in Nat \ {0} /\ x.rows \in Nat \ {0}
  BY ScreenIsGrid DEF Sound
<1> DEFINE g == Screen(x)
<1>2. /\ DOMAIN g = 0..(x.rows - 1)
      /\ \A r \in 0..(x.rows - 1) : g[r] \in Line(x.cols) /\ DOMAIN g[r] = 0..(x.cols - 1)
  BY <1>1, GridSize
<1> HIDE DEF g
<1>3. ASSUME NEW c \in 0..(x.cols - 1)
      PROVE  c + 1 \in 0..(x.cols - 1) <=> c + 1 < x.cols
  BY <1>1
<1>4. Paired(g) <=> \A r \in 0..(x.rows - 1) : Halved(g[r], x.cols)
  BY <1>2, <1>3 DEF Paired, Halved
<1>5. (\A r \in DOMAIN g : \A c \in DOMAIN g[r] : g[r][c] # Mark)
      <=> \A r \in 0..(x.rows - 1) : Unmarked(g[r], x.cols)
  BY <1>2 DEF Unmarked
<1> QED
  BY <1>2, <1>4, <1>5 DEF g, Whole, Clean, ProperGrid, Proper

\* On a screen of more than one column without combining marks in cells of their
\* own, only ICH, a resize, and another screen put in its place (a switch or a
\* restored snapshot) show half a wide character where there was none.
THEOREM PairsStayWhole == Spec => WidePairsStayWhole
<1> DEFINE Torn == /\ Paired(Screen(t)) /\ ~Paired(Screen(t'))
                   /\ ~\E r \in DOMAIN Screen(t) : \E c \in DOMAIN Screen(t)[r] :
                          Screen(t)[r][c] = Mark
                   /\ t.cols > 1
<1>1. Inv /\ [Next]_vars => [Torn => InsertBlanks \/ ResizeTo \/ SwitchScreens \/ RestoreSnapshot]_vars
  <2> SUFFICES ASSUME Inv, Next, Torn
               PROVE  InsertBlanks \/ ResizeTo \/ SwitchScreens \/ RestoreSnapshot
    BY DEF vars
  <2>1. Sound(t) /\ Clean(t)
    BY CleanIsPaired DEF Inv
  <2>2. ASSUME Sound(t')
        PROVE  ~Clean(t') /\ ~Whole(t')
    BY <2>2, CleanIsPaired
  <2>3. ~Keeping
    BY <2>1, <2>2, KeepingStays DEF Keeps, Steady
  <2>4. ~PrintChar
    BY <2>1, <2>2, PrintCharGoes DEF Steady
  <2>5. ~EscNextLine /\ ~Restore
    BY <2>1, <2>2, EscNextLineGoes, RestoreDoes
  <2>6. ~TakeSnapshot
    BY <2>1, <2>2, TakeSnapshotGoes
  <2> QED
    BY <2>3, <2>4, <2>5, <2>6, NextIs
<1> QED
  BY <1>1, Invariance, PTL DEF Spec, WidePairsStayWhole
-----------------------------------------------------------------------------
(* The images and the text under them, action by action.                   *)

Moving == Lines \/ EscNextLine \/ ScrollUpBy \/ Kitty \/ Iterm \/ Dcs

LEMMA MovingClimbs ==
    ASSUME Inv, Moving
    PROVE  Climbs(t, t', {})
<1>1. Sound(t) /\ scope \in DOMAIN Scopes
  BY DEF Inv
<1>2. CASE Lines
  BY <1>1, <1>2, LinefeedKeeps, NewlineKeeps DEF Lines, At, Do
<1>3. CASE EscNextLine
  BY <1>1, <1>3, NextLineGoes DEF EscNextLine, At, Do
<1>4. CASE ScrollUpBy
  <2>1. PICK n \in Counts : t' = ScrollScreenUp(t, n)
    BY <1>4 DEF ScrollUpBy, Do
  <2>2. n \in Nat /\ n > 0
    BY <1>1, ParametersAreNumbers
  <2> QED
    BY <1>1, <2>1, <2>2, RegionsKeep
<1>5. CASE Kitty
  <2>1. PICK more \in BOOLEAN, id \in 0..IdMax, data \in {<<>>} \cup {<<p>> : p \in Pictures},
             action \in {"transmit", "display", "place"} :
           t' = ShowKitty(t, [Display(id, 2) EXCEPT !.action = action], data, more)
    BY <1>5 DEF Kitty, Do
  <2>2. /\ IsCommand([Display(id, 2) EXCEPT !.action = action])
        /\ [Display(id, 2) EXCEPT !.action = action].action # "delete"
    BY DEF IsCommand, Display
  <2> QED
    BY <1>1, <2>1, <2>2, KittyKeeps
<1>6. CASE Iterm
  <2>1. ASSUME NEW lines \in Nat, NEW data, NEW inline
        PROVE  /\ Climbs(t, WithStore(t, ShowImage(t.store, data, lines, t.row, t.rows)), {})
               /\ Climbs(t, WithStore(t, ItermEnd(t.store, lines, t.row, t.rows)), {})
               /\ Climbs(t, [t EXCEPT !.store = ItermBegin(@, inline)], {})
               /\ Climbs(t, [t EXCEPT !.store = ItermPart(@, data)], {})
    BY <1>1, <2>1, ImagesKeep
  <2>2. 1 \in Nat /\ 2 \in Nat
    OBVIOUS
  <2>3. \/ \E data : t' = WithStore(t, ShowImage(t.store, data, 1, t.row, t.rows))
        \/ \E inline : t' = [t EXCEPT !.store = ItermBegin(@, inline)]
        \/ \E data : t' = [t EXCEPT !.store = ItermPart(@, data)]
        \/ t' = WithStore(t, ItermEnd(t.store, 2, t.row, t.rows))
    BY <1>6 DEF Iterm, Do
  <2> QED
    BY <2>1, <2>2, <2>3
<1>7. CASE Dcs
  BY <1>1, <1>7, DcsStays
<1> QED
  BY <1>2, <1>3, <1>4, <1>5, <1>6, <1>7 DEF Moving

LEMMA PrintingClimbs ==
    ASSUME Inv, PrintChar
    PROVE  Climbs(t, t', {t'.row})
<1>1. PICK ch \in Scopes[scope].chars : Inside(t) /\ t' = DoPrint(t, ch)
  BY DEF PrintChar, At, Do
<1>2. ch \in Cell \ {Cont}
  BY ParametersAreNumbers DEF Inv
<1> QED
  BY <1>1, <1>2, DoPrintKeeps DEF Inv

\* The handlers that write to no line of the main screen and show no image.
Idle ==
    \/ MoveCursor \/ Control \/ Tabulate \/ SetLinefeed \/ SetOrigin
    \/ Save \/ Restore \/ ShowCursor \/ SwitchScreens
    \/ MarkCommand \/ Jump \/ ScrollView \/ TakeSnapshot

LEMMA IdleLeaves ==
    ASSUME Sound(t), Idle
    PROVE  t'.main = t.main /\ t'.total = t.total /\ t'.store = t.store
<1>1. DOMAIN t = Fields /\ {"main", "total", "store"} \subseteq DOMAIN t
  BY DEF Sound, Fields, Core
<1>2. ASSUME NEW c, NEW r
      PROVE  /\ MoveTo(t, c, r).main = t.main /\ MoveTo(t, c, r).total = t.total
             /\ MoveTo(t, c, r).store = t.store
  BY <1>1 DEF MoveTo
<1>3. CASE MoveCursor \/ SetOrigin
  <2>1. \E c, r : t' = MoveTo(t, c, r)
    BY <1>3 DEF MoveCursor, SetOrigin, OriginMode, Do
  <2> QED
    BY <1>2, <2>1
<1>4. CASE Control
  <2>1. \/ \E c, r : t' = MoveTo(t, c, r)
        \/ \E on : t' = [t EXCEPT !.autoWrap = on]
    BY <1>4 DEF Control, Backspace, Return, Do
  <2> QED
    BY <1>1, <1>2, <2>1
<1>5. CASE Tabulate
  <2>1. \/ \E c, r : t' = MoveTo(t, c, r)
        \/ \E tabs : t' = [t EXCEPT !.tabs = tabs]
    BY <1>5 DEF Tabulate, Tab, TabBack, Do
  <2> QED
    BY <1>1, <1>2, <2>1
<1>6. CASE SetLinefeed \/ ShowCursor \/ ScrollView
  BY <1>1, <1>6 DEF SetLinefeed, ShowCursor, ScrollView, Do
<1>7. CASE Save \/ Restore
  BY <1>1, <1>7 DEF Save, SaveCursor, Restore, RestoreCursor, Do
<1>8. CASE SwitchScreens
  BY <1>1, <1>8 DEF SwitchScreens, EnterAlt, LeaveAlt, Do
<1>9. CASE MarkCommand
  <2> DEFINE y == FinishCommand(t)
  <2>1. /\ y.main = t.main /\ y.total = t.total /\ y.store = t.store
        /\ {"main", "total", "store"} \subseteq DOMAIN y
    BY <1>1 DEF FinishCommand
  <2> HIDE DEF y
  <2>2. \/ \E p : t' = [y EXCEPT !.pending = p]
        \/ \E p : t' = [t EXCEPT !.pending = p]
        \/ t' = y
    BY <1>9 DEF MarkCommand, MarkPrompt, MarkExecuted, Do, y
  <2> QED
    BY <1>1, <2>1, <2>2
<1>10. CASE Jump
  <2>1. \E i : t' = JumpTo(t, i)
    BY <1>10 DEF Jump, Do
  <2> QED
    BY <1>1, <2>1 DEF JumpTo
<1>11. CASE TakeSnapshot
  BY <1>11 DEF TakeSnapshot
<1> QED
  BY <1>3, <1>4, <1>5, <1>6, <1>7, <1>8, <1>9, <1>10, <1>11 DEF Idle

\* The handlers that write to the screen without a look at the images.
LEMMA EditingLeaves ==
    ASSUME Sound(t), ReverseLine \/ EditLines \/ EditCells \/ InsertBlanks \/ ResizeTo
    PROVE  t'.total = t.total /\ t'.store = t.store
<1>1. DOMAIN t = Fields /\ {"total", "store"} \subseteq DOMAIN t
  BY DEF Sound, Fields, Core
<1>2. ASSUME NEW g
      PROVE  OnScreen(t, g).total = t.total /\ OnScreen(t, g).store = t.store
  BY <1>1 DEF OnScreen
<1>3. CASE ReverseLine
  BY <1>1, <1>2, <1>3 DEF ReverseLine, ReverseIndex, At, Do
<1>4. CASE EditLines
  <2>1. (\E g : t' = OnScreen(t, g)) \/ \E n, m : t' = SetMargins(t, n, m)
    BY <1>4 DEF EditLines, At, Do
  <2> QED
    BY <1>1, <1>2, <2>1 DEF SetMargins, MoveTo
<1>5. CASE EditCells \/ InsertBlanks
  <2>1. \E g : t' = OnScreen(t, g)
    BY <1>5 DEF EditCells, EraseLine, EraseDisplay, InsertBlanks, At, Do
  <2> QED
    BY <1>2, <2>1
<1>6. CASE ResizeTo
  BY <1>1, <1>6 DEF ResizeTo, Resize, Do
<1> QED
  BY <1>3, <1>4, <1>5, <1>6

LEMMA BlanksElsewhere ==
    ASSUME Sound(t), InsertBlanks
    PROVE  \A r \in DOMAIN t.main : r = t'.row \/ t'.main[r] = t.main[r]
<1>1. PICK n \in Counts : t' = OnScreen(t, InsertCells(Screen(t), t.col, t.row, n))
  BY DEF InsertBlanks, At, Do
<1> DEFINE g == InsertCells(Screen(t), t.col, t.row, n)
<1>2. \A r \in DOMAIN Screen(t) : r = t.row \/ g[r] = Screen(t)[r]
  BY DEF InsertCells
<1> HIDE DEF g
<1>3. t'.row = t.row /\ t'.main = IF t.usingAlt THEN t.main ELSE g
  BY <1>1 DEF g, OnScreen, Sound, Fields, Core
<1> QED
  BY <1>2, <1>3 DEF Screen

LEMMA ResizedCells ==
    ASSUME Sound(t), ResizeTo
    PROVE  \A r \in DOMAIN t.main \cap DOMAIN t'.main :
             \A c \in DOMAIN t.main[r] \cap DOMAIN t'.main[r] : t'.main[r][c] = t.main[r][c]
<1>1. PICK z \in Sizes : t' = Resize(t, z[1], z[2])
  BY DEF ResizeTo, Do
<1>2. t'.main = ResizeGrid(t.main, z[1], z[2])
  BY <1>1 DEF Resize, Sound, Fields, Core
<1>3. /\ DOMAIN t.main = 0..(t.rows - 1) /\ Rows(t.main) = t.rows /\ Cols(t.main) = t.cols
      /\ \A r \in 0..(t.rows - 1) : DOMAIN t.main[r] = 0..(t.cols - 1)
  BY GridSize DEF Sound
<1>4. ASSUME NEW r \in DOMAIN t.main \cap DOMAIN t'.main,
             NEW c \in DOMAIN t.main[r] \cap DOMAIN t'.main[r]
      PROVE  t'.main[r][c] = t.main[r][c]
  <2>1. r \in 0..(z[2] - 1) /\ r < t.rows
    BY <1>2, <1>3 DEF ResizeGrid, Sound
  <2>2. c \in 0..(z[1] - 1) /\ c < t.cols
    BY <1>2, <1>3, <2>1 DEF ResizeGrid, Sound
  <2> QED
    BY <1>2, <1>3, <2>1, <2>2 DEF ResizeGrid
<1> QED
  BY <1>4

\* What the property says of one image, and of the text under it.
Follows(p, n) ==
    /\ \E j \in DOMAIN t'.store.placements : t'.store.placements[j] = [p EXCEPT !.row = @ - n]
    /\ p.id \in DOMAIN t'.store.images

LEMMA ClimbingTracks ==
    ASSUME Sound(t), Sound(t'), NEW W, Climbs(t, t', W), NEW i \in DOMAIN t.store.placements,
           Within(t, t.store.placements[i]),
           t.store.placements[i].row + t.store.placements[i].lines > t'.total - t.total
    PROVE  /\ Follows(t.store.placements[i], t'.total - t.total)
           /\ W \subseteq {t'.row} =>
                  TextStaysUnder(t.store.placements[i], t'.total - t.total)
<1>1. PICK p : p = t.store.placements[i]
  OBVIOUS
<1>2. PICK n : n = t'.total - t.total
  OBVIOUS
<1>3. /\ DOMAIN t.store.placements = 1..Len(t.store.placements)
      /\ DOMAIN t'.store.placements = 1..Len(t'.store.placements)
  BY ListsAreSequences DEF Sound, IsStore
<1>4. /\ n \in Nat /\ Comes(t, t', n) /\ t'.rows = t.rows
      /\ t.top = 0 => \A r \in n..t.bottom : r - n \in W \/ t'.main[r - n] = t.main[r]
  BY <1>2 DEF Climbs
<1>5. Follows(p, n)
  BY <1>1, <1>2, <1>3, <1>4 DEF Comes, Follows, Moved
<1>6. p.row \in Int /\ p.lines \in Nat /\ t.top = 0 /\ p.row + p.lines <= t.bottom + 1
  BY <1>1, <1>3 DEF Sound, IsStore, InPlace, Within
<1>7. t.bottom \in Nat /\ t'.rows \in Nat /\ DOMAIN t'.main = 0..(t'.rows - 1)
  BY DEF Sound, IsGrid
<1>8. ASSUME W \subseteq {t'.row}, NEW r \in DOMAIN t.main \cap p.row..(p.row + p.lines - 1),
             r - n \in DOMAIN t'.main \ {t'.row}
      PROVE  t'.main[r - n] = t.main[r]
  <2>1. r \in Int /\ p.row <= r /\ r <= p.row + p.lines - 1
    BY <1>6, <1>8
  <2>2. r - n \in 0..(t'.rows - 1)
    BY <1>7, <1>8
  <2>3. r \in n..t.bottom
    BY <1>4, <1>6, <1>7, <2>1, <2>2
  <2> QED
    BY <1>4, <1>6, <1>8, <2>3
<1>9. W \subseteq {t'.row} => TextStaysUnder(p, n)
  BY <1>8 DEF TextStaysUnder
<1> QED
  BY <1>1, <1>2, <1>5, <1>9

LEMMA StandingTracks ==
    ASSUME Sound(t), t'.total = t.total, t'.store = t.store, NEW i \in DOMAIN t.store.placements
    PROVE  /\ Follows(t.store.placements[i], t'.total - t.total)
           /\ (\A r \in DOMAIN t.main \cap DOMAIN t'.main : r = t'.row \/
                  \A c \in DOMAIN t.main[r] \cap DOMAIN t'.main[r] : t'.main[r][c] = t.main[r][c])
                => TextStaysUnder(t.store.placements[i], t'.total - t.total)
<1>1. PICK p : p = t.store.placements[i]
  OBVIOUS
<1>2. t'.total - t.total = 0
  BY DEF Sound
<1>3. InPlace(p, t.store.images)
  BY <1>1, ListsAreSequences DEF Sound, IsStore
<1>4. [p EXCEPT !.row = @ - 0] = p
  BY <1>3, MovedBy DEF Moved
<1>5. p.id \in DOMAIN t.store.images /\ p.row \in Int /\ p.lines \in Nat
  BY <1>3 DEF InPlace
<1>6. Follows(p, 0)
  BY <1>1, <1>4, <1>5 DEF Follows
<1>7. \A r \in DOMAIN t.main \cap p.row..(p.row + p.lines - 1) : r - 0 = r
  BY <1>5
<1>8. (\A r \in DOMAIN t.main \cap DOMAIN t'.main : r = t'.row \/
          \A c \in DOMAIN t.main[r] \cap DOMAIN t'.main[r] : t'.main[r][c] = t.main[r][c])
      => TextStaysUnder(p, 0)
  BY <1>7 DEF TextStaysUnder
<1> QED
  BY <1>1, <1>2, <1>6, <1>8

\* An image in a region at the top of the screen goes up as far as the lines of
\* the region go into the history, with the text it was placed on: whatever
\* handler runs, but for those that take the image away or, by name, the text.
THEOREM ImagesComeAlong == Spec => ImagesTrackTheText
<1> DEFINE Tracks ==
      \A i \in DOMAIN t.store.placements :
        LET p == t.store.placements[i]
            n == t'.total - t.total
        IN  Within(t, p) /\ p.row + p.lines > n
            => \/ KittyDelete \/ ClearTerminal \/ Reset \/ RestoreSnapshot
               \/ /\ Follows(p, n)
                  /\ \/ TextStaysUnder(p, n)
                     \/ ReverseLine \/ EditLines \/ EditCells \/ FeedChunk
<1>1. Inv /\ Inv' /\ [Next]_vars => [Tracks]_vars
  <2> SUFFICES ASSUME Inv, Inv', Next
               PROVE  Tracks
    BY DEF vars
  <2>1. Sound(t) /\ Sound(t')
    BY DEF Inv
  <2>2. CASE Moving
    BY <2>1, <2>2, MovingClimbs, ClimbingTracks
  <2>3. CASE PrintChar
    BY <2>1, <2>3, PrintingClimbs, ClimbingTracks
  <2>4. CASE FeedChunk
    <3>1. Climbs(t, t', Int)
      BY <2>1, <2>4, FeedChunkStays
    <3> QED
      BY <2>1, <2>4, <3>1, ClimbingTracks
  <2>5. CASE Idle
    BY <2>1, <2>5, IdleLeaves, StandingTracks
  <2>6. CASE ReverseLine \/ EditLines \/ EditCells
    BY <2>1, <2>6, EditingLeaves, StandingTracks
  <2>7. CASE InsertBlanks
    BY <2>1, <2>7, EditingLeaves, BlanksElsewhere, StandingTracks
  <2>8. CASE ResizeTo
    BY <2>1, <2>8, EditingLeaves, ResizedCells, StandingTracks
  <2>9. CASE KittyDelete \/ ClearTerminal \/ Reset \/ RestoreSnapshot
    BY <2>9
  <2> QED
    BY <2>2, <2>3, <2>4, <2>5, <2>6, <2>7, <2>8, <2>9 DEF Next, Moving, Idle
<1>2. [Tracks]_vars <=>
      [ \A i \in DOMAIN t.store.placements :
          LET p == t.store.placements[i]
              n == t'.total - t.total
          IN  Within(t, p) /\ p.row + p.lines > n
              => \/ KittyDelete \/ ClearTerminal \/ Reset \/ RestoreSnapshot
                 \/ /\ \E j \in DOMAIN t'.store.placements :
                         t'.store.placements[j] = [p EXCEPT !.row = @ - n]
                    /\ p.id \in DOMAIN t'.store.images
                    /\ \/ TextStaysUnder(p, n)
                       \/ ReverseLine \/ EditLines \/ EditCells \/ FeedChunk ]_vars
  BY DEF Follows
<1> HIDE DEF Tracks
<1> QED
  BY <1>1, <1>2, Invariance, PTL DEF Spec, ImagesTrackTheText
=============================================================================
