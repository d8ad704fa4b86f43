------------------------------ MODULE Terminal ------------------------------
(***************************************************************************)
(* The terminal of a pane (crates/termojinal-vt/src/term/): the handlers   *)
(* the escape sequence parser calls, and the calls of the application      *)
(* (resize, clear, snapshot and restore, jumps along the command history). *)
(*                                                                         *)
(* The terminal is one record; a handler is an operator from a terminal to *)
(* a terminal, as the methods of the source are, and one action applies    *)
(* it.  Data the properties do not tell apart is left out: colours, the    *)
(* pen, the shape of the cursor, the text of a command.  `scope' names the *)
(* family of sequences an application of this behaviour sends; it never    *)
(* changes.                                                                *)
(***************************************************************************)
EXTENDS Grid, ImageStore, SequencesExt

CONSTANTS
  Scopes,       \* the families: names to [sizes, ops, chars], a size being <<cols, rows>>
  Nothing,      \* an Option that is None
  Pictures,     \* the pictures applications transmit
  Counts,       \* the numeric parameters of control sequences
  TabWidth,     \* distance of the initial tab stops, 8 in the code
  MaxScrolled,  \* bound on the lines that ever scroll into the history
  MaxImages,    \* bound on the placements
  MaxCommands,  \* the commands kept in the history (max_command_history)
  MaxIds        \* bound on the command ids

ASSUME TerminalAssumption ==
  /\ \A n \in {TabWidth, MaxCommands, IdMax} : n \in Nat \ {0}
  /\ \A n \in {MaxScrolled, MaxImages, MaxIds} : n \in Nat
  /\ Counts \subseteq Nat \ {0}
  /\ \A s \in DOMAIN Scopes :
       /\ Scopes[s].sizes \subseteq (Nat \ {0}) \X (Nat \ {0})
       /\ Scopes[s].chars \subseteq Cell \ {Cont}

VARIABLES scope, t, saved

vars == <<scope, t, saved>>

Sizes     == Scopes[scope].sizes
Uses(ops) == ops \in Scopes[scope].ops

InitialTabs(cols) == {c \in 0..(cols - 1) : c % TabWidth = 0}

NewTerminal(cols, rows) ==
  [main |-> NewGrid(cols, rows), alt |-> NewGrid(cols, rows), usingAlt |-> FALSE,
   cols |-> cols, rows |-> rows, col |-> 0, row |-> 0, wrap |-> FALSE,
   top |-> 0, bottom |-> rows - 1, savedMain |-> Nothing, savedAlt |-> Nothing,
   visible |-> TRUE, autoWrap |-> TRUE, linefeed |-> FALSE, tabs |-> InitialTabs(cols),
   history |-> 0, total |-> 0, offset |-> 0, store |-> NewStore,
   dcs |-> [mode |-> "none", data |-> <<>>],
   pending |-> Nothing, commands |-> <<>>, nextCommand |-> 0]

Screen(x)       == IF x.usingAlt THEN x.alt ELSE x.main
OnScreen(x, g)  == IF x.usingAlt THEN [x EXCEPT !.alt = g] ELSE [x EXCEPT !.main = g]
ClampCol(x, c)  == Least(c, x.cols - 1)
ClampRow(x, r)  == Least(r, x.rows - 1)
MoveKeepsWrap(x, c, r) == [x EXCEPT !.col = c, !.row = r]
MoveTo(x, c, r) == [x EXCEPT !.col = c, !.row = r, !.wrap = FALSE]

\* The cursor names a cell.  Every handler that reads or writes at the cursor
\* indexes the grid with it; Grid::cell asserts it.
Inside(x) == x.col < x.cols /\ x.row < x.rows

PushLinesOnly(x, n, images) == [x EXCEPT !.history = @ + n, !.total = @ + n]
\* Lines pushed from the main screen into the history: the images move along.
PushLines(x, n, images) ==
  [x EXCEPT !.history = @ + n, !.total = @ + n, !.store = ScrollImages(@, images)]

Newline(x) ==
  IF x.row = x.bottom
  THEN LET y == IF x.top = 0 /\ ~x.usingAlt THEN PushLines(x, 1, 1) ELSE x
       IN  OnScreen(y, ScrollUp(Screen(y), x.top, x.bottom, 1))
  ELSE [x EXCEPT !.row = ClampRow(x, @ + 1)]

ReverseIndex(x) ==
  IF x.row = x.top THEN OnScreen(x, ScrollDown(Screen(x), x.top, x.bottom, 1))
  ELSE [x EXCEPT !.row = Sub(@, 1)]

Newlines(x, n) ==
  LET after[i \in 0..n] == IF i = 0 THEN x ELSE Newline(after[i - 1]) IN after[n]

\* After an image was placed the text goes on below it.
PastImage(x, before) ==
  LET ps == x.store.placements
  IN  IF Len(ps) > before
        THEN Newlines([x EXCEPT !.col = 0, !.wrap = FALSE], ps[Len(ps)].lines) ELSE x

WithStore(x, s) == PastImage([x EXCEPT !.store = s], Len(x.store.placements))
AbsLine(x)      == x.total + x.row

-----------------------------------------------------------------------------
(* Printing and control characters                                           *)

\* A wide character that does not fit wraps at once, or is dropped.
DoPrint(x, ch) ==
  LET y    == IF x.wrap /\ x.autoWrap THEN Newline([x EXCEPT !.col = 0, !.wrap = FALSE])
                                      ELSE [x EXCEPT !.wrap = FALSE]
      full == ch = Lead /\ y.col >= y.cols - 1
      z    == IF full THEN Newline([y EXCEPT !.col = 0]) ELSE y
      next == z.col + Width(ch)
  IN  IF full /\ ~y.autoWrap THEN y
      ELSE [OnScreen(z, PutChar(Screen(z), z.col, z.row, ch)) EXCEPT
              !.col = Least(next, z.cols - 1), !.wrap = next >= z.cols]

Backspace(x) == MoveTo(x, Sub(x.col, 1), x.row)
Return(x)    == MoveTo(x, 0, x.row)

Linefeed(x) ==
  LET y == Newline(x) IN [y EXCEPT !.col = IF x.linefeed THEN 0 ELSE @, !.wrap = FALSE]

Tab(x) ==
  LET stops == {c \in x.tabs : c > x.col}
  IN  MoveTo(x, IF stops = {} THEN x.cols - 1
                ELSE CHOOSE c \in stops : \A d \in stops : c <= d, x.row)

\* One step of CBT: left by one, then on to a tab stop or the first column.
TabBack(x) ==
  LET stops == {c \in x.tabs \cup {0} : c < x.col}
  IN  IF x.col = 0 THEN MoveTo(x, 0, x.row)
      ELSE MoveTo(x, CHOOSE c \in stops : \A d \in stops : d <= c, x.row)

NextLine(x) == Newline([x EXCEPT !.col = 0])        \* ESC E leaves wrap as it is

-----------------------------------------------------------------------------
(* Saved cursors and the alternate screen                                    *)

SavedCursor(x) == [col |-> x.col, row |-> x.row, visible |-> x.visible]

SaveCursor(x) == IF x.usingAlt THEN [x EXCEPT !.savedAlt = SavedCursor(x)]
                               ELSE [x EXCEPT !.savedMain = SavedCursor(x)]

\* ESC 8, and mode 1048 reset, which leaves the visibility alone.
RestoreCursor(x, look) ==
  LET s == IF x.usingAlt THEN x.savedAlt ELSE x.savedMain
  IN  IF s = Nothing THEN x
      ELSE [x EXCEPT !.col = s.col, !.row = s.row,
                     !.visible = IF look THEN s.visible ELSE @]

\* Both screens' switches share the cursor that ESC 7 saves on the main screen.
EnterAlt(x) ==
  IF x.usingAlt THEN x
  ELSE [x EXCEPT !.savedMain = SavedCursor(x), !.usingAlt = TRUE,
                 !.alt = ClearGrid(@), !.col = 0, !.row = 0]

LeaveAlt(x) ==
  IF ~x.usingAlt THEN x
  ELSE LET y == [x EXCEPT !.usingAlt = FALSE, !.alt = ClearGrid(@), !.savedMain = Nothing]
       IN  IF x.savedMain = Nothing THEN [y EXCEPT !.visible = TRUE]
           ELSE [y EXCEPT !.col = x.savedMain.col, !.row = x.savedMain.row,
                          !.visible = x.savedMain.visible]

-----------------------------------------------------------------------------
(* Control sequences                                                         *)

SetMargins(x, top, bottom) ==
  LET b  == Least(bottom - 1, x.rows - 1)
      ok == top - 1 < b
  IN  [MoveTo(x, 0, 0) EXCEPT !.top = IF ok THEN top - 1 ELSE 0,
                              !.bottom = IF ok THEN b ELSE x.rows - 1]

\* DECOM moves the cursor; addressing ignores the mode.
OriginMode(x, on) == MoveTo(x, 0, IF on THEN x.top ELSE 0)

EraseDisplay(x, kind) ==
  OnScreen(x, CASE kind = "below" -> EraseBelow(Screen(x), x.col, x.row)
                [] kind = "above" -> EraseAbove(Screen(x), x.col, x.row)
                [] OTHER          -> ClearGrid(Screen(x)))

EraseLine(x, kind) ==
  OnScreen(x, CASE kind = "below" -> ClearToEol(Screen(x), x.col, x.row)
                [] kind = "above" -> ClearFromBol(Screen(x), x.col, x.row)
                [] OTHER          -> ClearRow(Screen(x), x.row))

\* SU pushes at most the lines of the region, but moves the images by n.
ScrollScreenUp(x, n) ==
  LET y == IF x.top = 0 /\ ~x.usingAlt THEN PushLines(x, Least(n, x.bottom + 1), n) ELSE x
  IN  OnScreen(y, ScrollUp(Screen(y), x.top, x.bottom, n))

-----------------------------------------------------------------------------
(* Calls of the application                                                  *)

ResizeKeepsCursor(x, cols, rows) ==
  [x EXCEPT !.main = ResizeGrid(@, cols, rows), !.alt = ResizeGrid(@, cols, rows),
            !.cols = cols, !.rows = rows, !.top = 0, !.bottom = rows - 1,
            !.wrap = FALSE, !.tabs = InitialTabs(cols), !.pending = Nothing]

\* A resize keeps the saved cursors and the images as they are.
Resize(x, cols, rows) ==
  [x EXCEPT !.main = ResizeGrid(@, cols, rows), !.alt = ResizeGrid(@, cols, rows),
            !.cols = cols, !.rows = rows, !.top = 0, !.bottom = rows - 1,
            !.col = Least(@, cols - 1), !.row = Least(@, rows - 1), !.wrap = FALSE,
            !.tabs = InitialTabs(cols), !.pending = Nothing]

ClearAll(x) ==
  [OnScreen(x, ClearGrid(Screen(x))) EXCEPT
     !.history = 0, !.offset = 0, !.col = 0, !.row = 0, !.wrap = FALSE,
     !.store = DeleteAll(@)]

\* snapshot() stores the grid that is shown and the alternate one: of a
\* terminal on its alternate screen the main screen is lost.
Snapshot(x) ==
  [grid |-> Screen(x), alt |-> x.alt, usingAlt |-> x.usingAlt, col |-> x.col,
   row |-> x.row, cols |-> x.cols, rows |-> x.rows, visible |-> x.visible,
   autoWrap |-> x.autoWrap, linefeed |-> x.linefeed, top |-> x.top, bottom |-> x.bottom,
   savedMain |-> x.savedMain, savedAlt |-> x.savedAlt, commands |-> x.commands]

\* restore_from_snapshot() puts the stored grid into the main screen of a new
\* terminal, and forgets where the commands' prompts were.
Restored(s) ==
  [NewTerminal(s.cols, s.rows) EXCEPT
     !.main = s.grid, !.alt = s.alt, !.usingAlt = s.usingAlt,
     !.col = Least(s.col, s.cols - 1), !.row = Least(s.row, s.rows - 1),
     !.visible = s.visible, !.autoWrap = s.autoWrap, !.linefeed = s.linefeed,
     !.top = s.top, !.bottom = Least(s.bottom, s.rows - 1),
     !.savedMain = s.savedMain, !.savedAlt = s.savedAlt,
     !.commands = [i \in DOMAIN s.commands |-> [s.commands[i] EXCEPT !.prompt = 0]],
     !.nextCommand = IF s.commands = <<>> THEN 0 ELSE s.commands[Len(s.commands)].id + 1]

-----------------------------------------------------------------------------
(* Commands marked by the shell (OSC 133) and jumps along them               *)

\* A record is kept for a command that was executed (mark C) when its end
\* (mark D) or the next prompt (mark A) comes.
FinishCommand(x) ==
  LET p    == x.pending
      cs   == Append(x.commands, [id |-> x.nextCommand, prompt |-> p.prompt])
      over == Sub(Len(cs), MaxCommands)
  IN  IF p = Nothing \/ ~p.started THEN [x EXCEPT !.pending = Nothing]
      ELSE [x EXCEPT !.pending = Nothing, !.nextCommand = @ + 1,
                     !.commands = SubSeq(cs, over + 1, Len(cs))]

MarkPrompt(x) ==
  [FinishCommand(x) EXCEPT !.pending = [prompt |-> AbsLine(x), started |-> FALSE]]
MarkExecuted(x) ==
  [x EXCEPT !.pending = IF @ = Nothing THEN @ ELSE [@ EXCEPT !.started = TRUE]]

OffsetOf(x, line) == IF line >= x.total THEN 0 ELSE x.total - line
ViewTop(x)        == IF x.offset = 0 THEN x.total + x.rows ELSE Sub(x.total, x.offset)

\* partition_point: how many records come first for which the predicate holds;
\* any number when those records are not the first.
Partitions(cs, holds) ==
  LET n == Cardinality(holds)
  IN  IF holds = 1..n THEN {n} ELSE 0..Len(cs)

JumpTo(x, i) == [x EXCEPT !.offset = OffsetOf(x, x.commands[i].prompt)]

-----------------------------------------------------------------------------
(* Input in chunks: feed() takes the graphics commands (APC) out of a chunk  *)
(* and runs them before the text of the chunk, wherever they stood in it.    *)

ShowKitty(x, cmd, data, more) ==
  WithStore(x, KittyFeed(x.store, cmd, data, more, x.row, x.rows))

Display(id, lines) == [action |-> "display", id |-> id, lines |-> lines, target |-> "all"]

Chunks == SeqOf({"text", "feed", CHOOSE p \in Pictures : TRUE}, 2) \ {<<>>}

Item(x, i) ==
  CASE i = "text"  -> DoPrint(x, Narrow)
    [] i = "feed"  -> Linefeed(x)
    [] OTHER       -> ShowKitty(x, Display(0, 2), <<i>>, FALSE)

Chunk(x, items) ==
  LET ordered  == Retained(items, Pictures) \o Retained(items, Range(items) \ Pictures)
      after[n \in 0..Len(ordered)] ==
        IF n = 0 THEN x ELSE Item(after[n - 1], ordered[n])
  IN  after[Len(ordered)]

-----------------------------------------------------------------------------
Init ==
  /\ scope \in DOMAIN Scopes
  /\ \E z \in Sizes : t = NewTerminal(z[1], z[2])
  /\ saved = Nothing

Bounded(x) ==
  /\ x.total <= MaxScrolled
  /\ Len(x.store.placements) <= MaxImages
  /\ x.nextCommand <= MaxIds
  /\ Len(x.store.kittyData) <= 2 /\ Len(x.store.itermData) <= 2

\* One handler ran to its end.
Do(x) == Bounded(x) /\ t' = x /\ UNCHANGED <<scope, saved>>
At(x) == Inside(t) /\ Do(x)      \* a handler that indexes the grid at the cursor

PrintChar == Uses("print") /\ \E ch \in Scopes[scope].chars : At(DoPrint(t, ch))

MoveCursor ==
  /\ Uses("move")
  /\ \E n \in Counts :
       \/ Do(MoveTo(t, t.col, Sub(t.row, n)))              \* CUU
       \/ Do(MoveTo(t, t.col, ClampRow(t, t.row + n)))     \* CUD
       \/ Do(MoveTo(t, ClampCol(t, t.col + n), t.row))     \* CUF
       \/ Do(MoveTo(t, Sub(t.col, n), t.row))              \* CUB
       \/ Do(MoveTo(t, 0, ClampRow(t, t.row + n)))         \* CNL
       \/ Do(MoveTo(t, 0, Sub(t.row, n)))                  \* CPL
       \/ Do(MoveTo(t, ClampCol(t, n - 1), t.row))         \* CHA
       \/ Do(MoveTo(t, t.col, ClampRow(t, n - 1)))         \* VPA
       \/ \E m \in Counts : Do(MoveTo(t, ClampCol(t, m - 1), ClampRow(t, n - 1)))  \* CUP

Control ==
  /\ Uses("control")
  /\ \/ Do(Backspace(t))
     \/ Do(Return(t))
     \/ \E on \in BOOLEAN : Do([t EXCEPT !.autoWrap = on])

Tabulate ==
  /\ Uses("tabs")
  /\ \/ Do(Tab(t))
     \/ Do(TabBack(t))
     \/ Inside(t) /\ Do([t EXCEPT !.tabs = @ \cup {t.col}])    \* HTS
     \/ Do([t EXCEPT !.tabs = @ \ {t.col}])                    \* TBC 0
     \/ Do([t EXCEPT !.tabs = {}])                             \* TBC 3

Lines ==
  /\ Uses("lines")
  /\ \/ At(Linefeed(t))
     \/ At(Newline(t))          \* ESC D

ReverseLine == Uses("lines") /\ At(ReverseIndex(t))  \* ESC M

EscNextLine == Uses("lines") /\ At(NextLine(t))      \* ESC E

SetLinefeed == Uses("lnm") /\ \E on \in BOOLEAN : Do([t EXCEPT !.linefeed = on])

EditCells ==
  /\ Uses("edit")
  /\ \/ \E n \in Counts :
          \/ At(OnScreen(t, DeleteCells(Screen(t), t.col, t.row, n)))
          \/ At(OnScreen(t, EraseCells(Screen(t), t.col, t.row, n)))
     \/ \E kind \in {"below", "above", "all"} :
          At(EraseLine(t, kind)) \/ At(EraseDisplay(t, kind))

InsertBlanks ==
  Uses("edit") /\ \E n \in Counts : At(OnScreen(t, InsertCells(Screen(t), t.col, t.row, n)))

EditLines ==
  /\ Uses("region")
  /\ \E n \in Counts :
       \/ At(OnScreen(t, InsertLines(Screen(t), t.row, n, t.bottom)))
       \/ At(OnScreen(t, DeleteLines(Screen(t), t.row, n, t.bottom)))
       \/ Do(OnScreen(t, ScrollDown(Screen(t), t.top, t.bottom, n)))
       \/ \E m \in Counts : Do(SetMargins(t, n, m))

ScrollUpBy == Uses("region") /\ \E n \in Counts : Do(ScrollScreenUp(t, n))   \* SU

SetOrigin == Uses("region") /\ \E on \in BOOLEAN : Do(OriginMode(t, on))

Save          == Uses("saved") /\ Do(SaveCursor(t))
Restore       == Uses("saved") /\ \E look \in BOOLEAN : Do(RestoreCursor(t, look))
ShowCursor    == Uses("saved") /\ \E on \in BOOLEAN : Do([t EXCEPT !.visible = on])
SwitchScreens == Uses("alt") /\ (Do(EnterAlt(t)) \/ Do(LeaveAlt(t)))

\* ESC c: a new terminal of the same size.
Reset == Uses("reset") /\ Do(NewTerminal(t.cols, t.rows))

ResizeTo == Uses("resize") /\ \E z \in Sizes : Do(Resize(t, z[1], z[2]))
ClearTerminal == Uses("clear") /\ Do(ClearAll(t))

\* The daemon snapshots its terminal, a client puts one in its pane's place.
TakeSnapshot == Uses("snapshot") /\ saved' = Snapshot(t) /\ UNCHANGED <<scope, t>>
RestoreSnapshot == Uses("snapshot") /\ saved # Nothing /\ Do(Restored(saved))

Kitty ==
  /\ Uses("image")
  /\ Inside(t)
  /\ \E more \in BOOLEAN, id \in 0..IdMax, data \in {<<>>} \cup {<<p>> : p \in Pictures} :
       \E action \in {"transmit", "display", "place"} :
         Do(ShowKitty(t, [Display(id, 2) EXCEPT !.action = action], data, more))

KittyDelete ==
  /\ Uses("image")
  /\ \E id \in 0..IdMax, target \in {"all", "id", "other"} :
       Do(ShowKitty(t, [action |-> "delete", id |-> id, lines |-> 0, target |-> target],
                    <<>>, FALSE))

Iterm ==
  /\ Uses("iterm")
  /\ Inside(t)
  /\ \/ \E p \in Pictures :
          Do(WithStore(t, ShowImage(t.store, <<p>>, 1, t.row, t.rows)))
     \/ \E inline \in {"inline", "file"} : Do([t EXCEPT !.store = ItermBegin(@, inline)])
     \/ \E p \in Pictures : Do([t EXCEPT !.store = ItermPart(@, <<p>>)])
     \/ Do(WithStore(t, ItermEnd(t.store, 2, t.row, t.rows)))

\* DCS: hook, put and unhook; only Sixel data becomes an image.
Dcs ==
  /\ Uses("dcs")
  /\ Inside(t)
  /\ \/ \E mode \in {"sixel", "decdld", "none"} :
          Do([t EXCEPT !.dcs = [mode |-> mode,
                                data |-> IF mode = "none" THEN @.data ELSE <<>>]])
     \/ \E p \in Pictures :
          t.dcs.data = <<>> /\ t.dcs.mode # "none" /\ Do([t EXCEPT !.dcs.data = <<p>>])
     \/ LET idle == [t EXCEPT !.dcs = [mode |-> "none",
                              data |-> IF @.mode = "none" THEN @.data ELSE <<>>]]
        IN  Do(IF t.dcs.mode # "sixel" THEN idle
               ELSE WithStore(idle, ShowImage(t.store, t.dcs.data, 1, t.row, t.rows)))

FeedChunk ==
  /\ Uses("feed")
  /\ Inside(t)
  /\ \E items \in Chunks : Do(Chunk(t, items))

MarkCommand ==
  /\ Uses("marks")
  /\ \/ Do(MarkPrompt(t))
     \/ Do(MarkExecuted(t))
     \/ Do(FinishCommand(t))

Jump ==
  /\ Uses("marks")
  /\ \/ \E n \in Partitions(t.commands, {i \in DOMAIN t.commands :
                                                t.commands[i].prompt < ViewTop(t)}) :
          n > 0 /\ Do(JumpTo(t, n))
     \/ /\ t.offset # 0
        /\ \E n \in Partitions(t.commands, {i \in DOMAIN t.commands :
                                                t.commands[i].prompt <= ViewTop(t)}) :
             n < Len(t.commands) /\ Do(JumpTo(t, n + 1))
     \/ \E i \in DOMAIN t.commands : Do(JumpTo(t, i))

ScrollView ==
  Uses("marks") /\ \E n \in 0..MaxScrolled : Do([t EXCEPT !.offset = Least(n, t.history)])

Next ==
  \/ PrintChar \/ MoveCursor \/ Control \/ Tabulate
  \/ Lines \/ ReverseLine \/ EscNextLine \/ SetLinefeed
  \/ EditCells \/ InsertBlanks \/ EditLines \/ ScrollUpBy \/ SetOrigin
  \/ Save \/ Restore \/ ShowCursor \/ SwitchScreens \/ Reset
  \/ ResizeTo \/ ClearTerminal \/ TakeSnapshot \/ RestoreSnapshot
  \/ Kitty \/ KittyDelete \/ Iterm \/ Dcs \/ FeedChunk
  \/ MarkCommand \/ Jump \/ ScrollView

Spec == Init /\ [][Next]_vars

-----------------------------------------------------------------------------
(* Properties                                                                *)

\* The operations of the source that print, erase, delete and move lines leave
\* no half of a wide character behind.  Only three things do: inserting cells
\* (ICH), a resize that cuts a line between the halves, and a screen or a
\* combining mark on which the damage was done before.
WidePairsStayWhole ==
  [][ /\ Paired(Screen(t)) /\ ~Paired(Screen(t'))
      /\ ~\E r \in DOMAIN Screen(t) : \E c \in DOMAIN Screen(t)[r] : Screen(t)[r][c] = Mark
      /\ t.cols > 1
      => InsertBlanks \/ ResizeTo \/ SwitchScreens \/ RestoreSnapshot ]_vars

\* The cursor leaves the screen only when a saved position is put back that an
\* earlier, larger screen had: leaving the alternate screen, ESC 8, mode 1048.
CursorLeavesByRestoreOnly ==
  [][ Inside(t) /\ ~Inside(t') => Restore \/ SwitchScreens ]_vars

\* A pending wrap belongs to the last column.  ESC E, the screen switches and
\* a restored cursor carry it to another column, where the next character then
\* starts a new line; no other handler does.
AtEdge(x) == x.wrap => x.col = x.cols - 1
WrapWaitsAtTheEdge ==
  [][ AtEdge(t) /\ ~AtEdge(t') => EscNextLine \/ SwitchScreens \/ Restore ]_vars

\* An image lies in a region that scrolls into the history.
Within(x, p) == x.top = 0 /\ p.row + p.lines <= x.bottom + 1

\* The text under an image is the same after the screen moved up by n lines,
\* the line apart that the cursor is on and a handler may have written to.
TextStaysUnder(p, n) ==
  \A r \in DOMAIN t.main \cap p.row..(p.row + p.lines - 1) :
    r - n \in DOMAIN t'.main \ {t'.row}
      => \A c \in DOMAIN t.main[r] \cap DOMAIN t'.main[r - n] :
           t'.main[r - n][c] = t.main[r][c]

\* "So they track the grid content": an image of the main screen goes exactly
\* as far up as lines went into the history, is dropped only when all its lines
\* did, keeps its picture stored, and the text under it comes along.  That
\* holds inside a region that starts at the top of the screen, the whole screen
\* as a rule.  Images are taken off by a deletion, a clear, a reset and another
\* terminal's snapshot; the text is taken from under an image by reverse index,
\* by IL, DL and SD, and by erasing, none of which looks at the images.
ImagesTrackTheText ==
  [][ \A i \in DOMAIN t.store.placements :
        LET p == t.store.placements[i]
            n == t'.total - t.total
        IN  Within(t, p) /\ p.row + p.lines > n
            => \/ KittyDelete \/ ClearTerminal \/ Reset \/ RestoreSnapshot
               \/ /\ \E j \in DOMAIN t'.store.placements :
                       t'.store.placements[j] = [p EXCEPT !.row = @ - n]
                  /\ p.id \in DOMAIN t'.store.images
                  /\ \/ TextStaysUnder(p, n)
                     \/ ReverseLine \/ EditLines \/ EditCells \/ FeedChunk ]_vars
=============================================================================
