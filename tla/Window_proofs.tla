--------------------------- MODULE Window_proofs ---------------------------
(***************************************************************************)
(* The window: what the mouse drags, what has a frame to move in, who      *)
(* takes a key, for any panes, any overlays and any way of hiding the      *)
(* quick terminal; and, in its second half, what a frame shows of the      *)
(* panes.                                                                  *)
(***************************************************************************)
EXTENDS Window, Frames, WellFoundedInduction, FiniteSetTheorems, TLAPS

\* At most one of the six fields is set, and none with the button up.
DragInv ==
    /\ drags = {} \/ \E k \in DragKinds : drags = {k}
    /\ ~held => drags = {}

-----------------------------------------------------------------------------
(* Which field a handler finds.                                            *)

\* A set of positions has a first one.
LEMMA FirstPosition ==
    ASSUME NEW S \in SUBSET Nat, S # {}
    PROVE  Min(S) \in S /\ \A y \in S : Min(S) <= y
<1>1. PICK x \in S : \A y \in S : ~ (<<y, x>> \in OpToRel(<, Nat))
  BY NatLessThanWellFounded, WFMin
<1>2. ASSUME NEW y \in S
      PROVE  x <= y
  <2>1. <<y, x>> \in Nat \X Nat /\ <<y, x>>[1] = y /\ <<y, x>>[2] = x
    OBVIOUS
  <2>2. ~ (y < x)
    BY <1>1, <2>1, Zenon DEF OpToRel
  <2> QED
    BY <2>2
<1> QED
  BY <1>2 DEF Min

\* In whatever order the fields are looked at, the only one set is found.
LEMMA TheOneIsFound ==
    ASSUME NEW k, drags = {k}, NEW order, Len(order) \in Nat,
           \E i \in 1..Len(order) : order[i] = k
    PROVE  First(order) = k
<1> DEFINE set == {i \in 1..Len(order) : order[i] \in drags}
<1>1. set # {} /\ set \in SUBSET Nat
  OBVIOUS
<1>2. Min(set) \in set
  BY <1>1, FirstPosition
<1>3. Min(set) # 0 /\ order[Min(set)] = k
  BY <1>2
<1>4. SelectInSeq(order, LAMBDA d : d \in drags) = Min(set)
  BY <1>1 DEF SelectInSeq
<1> QED
  BY <1>3, <1>4 DEF First

LEMMA NothingIsFound ==
    ASSUME drags = {}, NEW order
    PROVE  First(order) = None
<1>1. SelectInSeq(order, LAMBDA d : d \in drags) = 0
  BY DEF SelectInSeq
<1> QED
  BY <1>1 DEF First

-----------------------------------------------------------------------------
(* The three events of the button and the mouse.                           *)

LEMMA PressStep ==
    ASSUME DragInv, MousePress
    PROVE  DragInv'
<1>1. drags = {} /\ held' = TRUE
  BY DEF DragInv, MousePress
<1>2. \E kinds \in {{}, {"sidebar"}, {"click"}, {"resize"}, {"scrollbar"}} :
          drags' = drags \cup kinds
  BY Zenon DEF MousePress
<1> QED
  BY <1>1, <1>2 DEF DragInv, DragKinds

LEMMA ReleaseStep ==
    ASSUME DragInv, MouseRelease
    PROVE  DragInv'
<1> DEFINE order == <<"sidebar", "scrollbar", "tab_pane", "click", "tab", "resize">>
<1>1. drags' = drags \ {First(order)}
  BY DEF MouseRelease
<1>2. CASE drags = {}
  BY <1>1, <1>2 DEF DragInv
<1>3. ASSUME NEW k \in DragKinds, drags = {k}
      PROVE  First(order) = k
  <2>1. Len(order) = 6 /\ \E i \in 1..6 : order[i] = k
    BY DEF DragKinds
  <2> QED
    BY <1>3, <2>1, TheOneIsFound
<1> QED
  BY <1>1, <1>2, <1>3 DEF DragInv

\* A drag changes its kind, but with the button up there is none to change.
LEMMA MoveStep ==
    ASSUME DragInv, MouseMove
    PROVE  DragInv'
<1> DEFINE order == <<"sidebar", "scrollbar", "click", "tab_pane", "tab", "resize">>
<1>1. drags' \in Dragged(First(order)) /\ held' = held
  BY DEF MouseMove
<1>2. CASE drags = {}
  <2>1. First(order) = None
    BY <1>2, NothingIsFound
  <2> QED
    BY <1>1, <1>2, <2>1, WindowAssumption DEF Dragged, DragKinds, DragInv
<1>3. ASSUME NEW k \in DragKinds, drags = {k}
      PROVE  DragInv'
  <2>1. Len(order) = 6 /\ \E i \in 1..6 : order[i] = k
    BY DEF DragKinds
  <2>2. First(order) = k
    BY <1>3, <2>1, TheOneIsFound
  <2>3. drags' = {} \/ \E j \in DragKinds : drags' = {j}
    BY <1>1, <1>3, <2>2 DEF Dragged, DragKinds
  <2>4. held'
    BY <1>1, <1>3 DEF DragInv
  <2> QED
    BY <2>3, <2>4 DEF DragInv
<1> QED
  BY <1>2, <1>3 DEF DragInv

\* Keys, the input method, focus, frames and other processes drag nothing.
LEMMA QuietStep ==
    ASSUME DragInv, UNCHANGED <<held, drags>>
    PROVE  DragInv'
BY DEF DragInv

LEMMA DragStep ==
    DragInv /\ [Next]_vars => DragInv'
<1> SUFFICES ASSUME DragInv, [Next]_vars PROVE DragInv'
  OBVIOUS
<1>1. CASE KeyPress \/ ImePreedit \/ ImeCommit \/ ImeDisabled \/ MouseWheel
  BY <1>1, QuietStep DEF KeyPress, ImePreedit, ImeCommit, ImeDisabled, MouseWheel
<1>2. CASE MousePress
  BY <1>2, PressStep
<1>3. CASE MouseRelease
  BY <1>3, ReleaseStep
<1>4. CASE MouseMove
  BY <1>4, MoveStep
<1>5. CASE \/ \E gained \in BOOLEAN : WindowFocused(gained)
           \/ \E p \in Programs : ProgramWantsMouse(p)
  BY <1>5, QuietStep DEF WindowFocused, ProgramWantsMouse
<1>6. CASE Request \/ RedrawRequested \/ AboutToWait
  BY <1>6, QuietStep DEF Request, RedrawRequested, AboutToWait
<1>7. CASE UNCHANGED vars
  BY <1>7, QuietStep DEF vars
<1> QED
  BY <1>1, <1>2, <1>3, <1>4, <1>5, <1>6, <1>7 DEF Next

-----------------------------------------------------------------------------
(* What a handler may do to the state of the window.                       *)

IsState(s) ==
    /\ DOMAIN s = {"open", "focus", "preedit", "selecting", "quick", "redraw", "sent"}
    /\ DOMAIN s.quick = {"active", "visible", "shown", "animation"}

Moving(s) == s.quick.animation # None \/ "exec" \in s.open

\* A frame that was asked for still is, and so is one for what starts to move.
Follows(s, t) ==
    /\ IsState(t)
    /\ s.redraw => t.redraw
    /\ Moving(t) => t.redraw \/ Moving(s)

\* The fields of the states that the helpers make.
LEMMA Fields ==
    ASSUME NEW s, IsState(s), NEW what
    PROVE  /\ IsState(Draw(s)) /\ Draw(s).redraw = TRUE /\ Draw(s).sent = s.sent
           /\ Draw(s).open = s.open /\ Draw(s).quick = s.quick
           /\ IsState(Opened(s, what)) /\ Opened(s, what).redraw = TRUE
           /\ Opened(s, what).sent = s.sent
           /\ IsState(Closed(s, what)) /\ Closed(s, what).redraw = TRUE
           /\ Closed(s, what).sent = s.sent
           /\ IsState(Writes(s, what)) /\ Writes(s, what).redraw = s.redraw
           /\ Writes(s, what).open = s.open /\ Writes(s, what).quick = s.quick
           /\ Writes(s, what).sent = what
           /\ IsState(Discards(s)) /\ Discards(s).redraw = s.redraw
           /\ Discards(s).open = s.open /\ Discards(s).quick = s.quick
           /\ Discards(s).sent = s.sent
BY DEF IsState, Draw, Opened, Closed, Writes, Discards

LEMMA Composed ==
    ASSUME NEW s, NEW t, NEW u, Follows(s, t), Follows(t, u)
    PROVE  Follows(s, u)
BY DEF Follows

\* The helpers that draw, and those that leave what moves alone.
LEMMA HelpersFollow ==
    ASSUME NEW s, IsState(s), NEW what
    PROVE  /\ Follows(s, s) /\ Follows(s, Draw(s)) /\ Follows(s, Opened(s, what))
           /\ Follows(s, Closed(s, what)) /\ Follows(s, Toggled(s, what))
           /\ Follows(s, Writes(s, what)) /\ Follows(s, Discards(s))
<1>1. Follows(s, s) /\ Follows(s, Draw(s)) /\ Follows(s, Opened(s, what))
  BY Fields DEF Follows, Moving
<1>2. Follows(s, Closed(s, what))
  BY Fields DEF Follows
<1>4. ASSUME NEW t, IsState(t), t.redraw = s.redraw, t.open = s.open, t.quick = s.quick
      PROVE  Follows(s, t)
  BY <1>4 DEF Follows, Moving
<1>5. Follows(s, Writes(s, what))
  BY <1>4, Fields
<1>6. Follows(s, Discards(s))
  BY <1>4, Fields
<1>3. Follows(s, Toggled(s, what))
  BY Fields DEF Follows, Moving, Toggled
<1> QED
  BY <1>1, <1>2, <1>3, <1>5, <1>6

LEMMA QuickFollows ==
    ASSUME NEW s, IsState(s)
    PROVE  /\ Follows(s, HideQuick(s)) /\ HideQuick(s).sent = s.sent
           /\ Follows(s, ToggleQuick(s)) /\ ToggleQuick(s).sent = s.sent
<1>1. Follows(s, HideQuick(s)) /\ HideQuick(s).sent = s.sent /\ HideQuick(s).redraw = TRUE
  BY DEF Follows, Moving, HideQuick, Draw, IsState
<1>2. ASSUME NEW t, IsState(t)
      PROVE  IsState(ShowQuick(t)) /\ ShowQuick(t).sent = t.sent /\ ShowQuick(t).redraw = TRUE
  BY <1>2 DEF ShowQuick, Draw, IsState
<1>3. IsState([s EXCEPT !.quick.active = TRUE]) /\ [s EXCEPT !.quick.active = TRUE].sent = s.sent
  BY DEF IsState
<1> QED
  BY <1>1, <1>2, <1>3 DEF ToggleQuick, Follows

\* ... and sends no key to a shell.
Acts(s, t) == Follows(s, t) /\ (t.sent = "key" => s.sent = "key")

LEMMA ActsCompose ==
    ASSUME NEW s, NEW t, NEW u, Acts(s, t), Acts(t, u)
    PROVE  Acts(s, u)
BY Composed DEF Acts

LEMMA HelpersAct ==
    ASSUME NEW s, IsState(s), NEW what
    PROVE  /\ Acts(s, s) /\ Acts(s, Draw(s)) /\ Acts(s, Opened(s, what))
           /\ Acts(s, Closed(s, what)) /\ Acts(s, Toggled(s, what)) /\ Acts(s, Discards(s))
           /\ what # "key" => Acts(s, Writes(s, what))
           /\ Acts(s, [s EXCEPT !.open = @ \ what])
<1>1. Acts(s, s) /\ Acts(s, Draw(s)) /\ Acts(s, Opened(s, what)) /\ Acts(s, Closed(s, what))
  BY HelpersFollow, Fields DEF Acts
<1>2. Acts(s, Discards(s)) /\ (what # "key" => Acts(s, Writes(s, what)))
  BY HelpersFollow, Fields DEF Acts
<1>3. Acts(s, Toggled(s, what))
  <2>1. Toggled(s, what) \in {Opened(s, {what}), Closed(s, {what})}
    BY DEF Toggled
  <2>2. Opened(s, {what}).sent = s.sent /\ Closed(s, {what}).sent = s.sent
    BY Fields
  <2>3. Toggled(s, what).sent = s.sent
    BY <2>1, <2>2
  <2> QED
    BY <2>3, HelpersFollow DEF Acts
<1>4. Acts(s, [s EXCEPT !.open = @ \ what])
  <2> DEFINE t == [s EXCEPT !.open = @ \ what]
  <2>1. /\ IsState(t) /\ t.redraw = s.redraw /\ t.open = s.open \ what
        /\ t.quick = s.quick /\ t.sent = s.sent
    BY DEF IsState
  <2> HIDE DEF t
  <2>2. Moving(t) => Moving(s)
    BY <2>1 DEF Moving
  <2>3. Follows(s, t)
    BY <2>1, <2>2 DEF Follows
  <2>4. Acts(s, t)
    BY <2>1, <2>3 DEF Acts
  <2> QED
    BY <2>4 DEF t
<1> QED
  BY <1>1, <1>2, <1>3, <1>4

LEMMA GoesActs ==
    ASSUME NEW s, IsState(s), NEW t \in Goes(s)
    PROVE  Acts(s, t)
<1>1. PICK p \in Pane : t = Draw([s EXCEPT !.focus = p])
  BY DEF Goes
<1> DEFINE u == [s EXCEPT !.focus = p]
<1>2. IsState(u) /\ u.sent = s.sent
  BY DEF IsState
<1> HIDE DEF u
<1>3. IsState(t) /\ t.redraw = TRUE /\ t.sent = s.sent
  BY <1>1, <1>2, Fields DEF u
<1> QED
  BY <1>3 DEF Acts, Follows

LEMMA EffectsAct ==
    ASSUME NEW s, IsState(s), NEW a \in Actions, NEW t \in Effects(s, a)
    PROVE  Acts(s, t)
<1>1. CASE a = "move"
  <2>1. t \in Goes(Discards(s))
    BY <1>1 DEF Effects
  <2>2. Acts(s, Discards(s)) /\ IsState(Discards(s))
    BY Fields, HelpersAct
  <2>3. Acts(Discards(s), t)
    BY <2>1, <2>2, GoesActs
  <2> QED
    BY <2>2, <2>3, ActsCompose
<1>2. CASE a \in {"new", "close"}
  <2>1. t \in Goes(s) \/ \E what : t = Opened(s, what)
    BY <1>2 DEF Effects
  <2> QED
    BY <2>1, HelpersAct, GoesActs
<1>3. CASE a = "palette"
  <2>1. \E u \in {s, Closed(s, {"exec"})} : t = Toggled(u, "palette")
    BY <1>3 DEF Effects
  <2> QED
    BY <2>1, Fields, HelpersAct, ActsCompose
<1>4. CASE a \in {"command", "tree", "attach"}
  <2>1. t = s \/ t = Draw(s) \/ \E what : t \in {Opened(s, what), Closed(s, what)}
    BY <1>4 DEF Effects
  <2> QED
    BY <2>1, HelpersAct
<1>5. CASE a = "quick"
  <2>1. t = ToggleQuick(s)
    BY <1>5 DEF Effects
  <2> QED
    BY <2>1, QuickFollows DEF Acts
<1>6. CASE a \in {"write", "other"}
  <2>1. t = Draw(s) \/ t = Writes(s, "text")
    BY <1>6 DEF Effects
  <2> QED
    BY <2>1, HelpersAct
<1>7. CASE a \notin {"move", "new", "close", "palette", "command", "tree", "attach", "quick",
                   "write", "other"}
  <2>1. t = Toggled(s, a)
    BY <1>7 DEF Effects
  <2> QED
    BY <2>1, HelpersAct
<1> QED
  BY <1>1, <1>2, <1>3, <1>4, <1>5, <1>6, <1>7

\* An action that is not handled has dismissed a dialog at most.
LEMMA DispatchActs ==
    ASSUME NEW s, IsState(s), NEW a \in Actions, NEW o \in DispatchAction(s, a)
    PROVE  /\ Acts(s, o.s) /\ o.taken \in BOOLEAN
           /\ ~o.taken => o.s = [s EXCEPT !.open = @ \ {"confirm"}]
<1> DEFINE kept == [s EXCEPT !.open = @ \ {"confirm"}]
<1>1. Acts(s, s) /\ Acts(s, kept) /\ IsState(kept)
  BY HelpersAct DEF Acts, Follows
<1> HIDE DEF kept
<1>2. PICK u \in Kept(s, a) :
          o \in IF a = "passthrough" THEN {Passed(u)} ELSE {Taken(e) : e \in Effects(u, a)}
  BY Zenon DEF DispatchAction
<1>3. u = kept \/ (u = s /\ a = "close")
  <2>1. Kept(s, a) = IF a = "close" THEN {s, kept} ELSE {kept}
    BY Zenon DEF Kept, kept
  <2> QED
    BY <1>2, <2>1
<1>4. CASE a = "passthrough"
  <2>1. o.s = kept /\ o.taken = FALSE
    BY <1>2, <1>3, <1>4 DEF Passed
  <2> QED
    BY <1>1, <2>1 DEF kept
<1>5. CASE a # "passthrough"
  <2>1. PICK e \in Effects(u, a) : o = Taken(e)
    BY <1>2, <1>5
  <2>2. o.s = e /\ o.taken = TRUE
    BY <2>1 DEF Taken
  <2>3. Acts(s, e)
    BY <1>1, <1>3, EffectsAct, ActsCompose
  <2> QED
    BY <2>2, <2>3
<1> QED
  BY <1>4, <1>5

LEMMA EditorsAct ==
    ASSUME NEW s, IsState(s)
    PROVE  \A t \in OpenInEditor(s) \cup PaletteOpensInEditor(s) : Acts(s, t)
<1>1. ASSUME NEW r, IsState(r), NEW u \in Goes(r)
      PROVE  Acts(r, Writes(u, "text"))
  <2>1. Acts(r, u) /\ IsState(u)
    BY <1>1, GoesActs DEF Acts, Follows
  <2>2. Acts(u, Writes(u, "text"))
    BY <2>1, HelpersAct
  <2> QED
    BY <2>1, <2>2, ActsCompose
<1>2. \A t \in PaletteOpensInEditor(s) : Acts(s, t)
  BY <1>1, HelpersAct DEF PaletteOpensInEditor
<1>3. IsState(Closed(s, {"tree"})) /\ Acts(s, Closed(s, {"tree"}))
  BY Fields, HelpersAct
<1>4. \A t \in OpenInEditor(s) : Acts(s, t)
  BY <1>1, <1>3, HelpersAct, ActsCompose DEF OpenInEditor
<1> QED
  BY <1>2, <1>4

-----------------------------------------------------------------------------
(* What a handler makes of a key.                                          *)

\* What most handlers do: something opens, closes or gets the focus.
Near(s, t) ==
    \/ t \in {s, Draw(s)}
    \/ \E what : t \in {Opened(s, what), Closed(s, what), Writes(Closed(s, what), "text")}
    \/ \E what : t \in Goes(Closed(s, what))

LEMMA NearActs ==
    ASSUME NEW s, IsState(s), NEW t, Near(s, t)
    PROVE  Acts(s, t)
<1>1. CASE t \in {s, Draw(s)}
  BY <1>1, HelpersAct
<1>2. ASSUME NEW what, t \in {Opened(s, what), Closed(s, what), Writes(Closed(s, what), "text")}
      PROVE  Acts(s, t)
  <2> DEFINE c == Closed(s, what)
  <2>1. Acts(s, c) /\ IsState(c) /\ Acts(s, Opened(s, what))
    BY HelpersAct, Fields
  <2> HIDE DEF c
  <2>2. Acts(c, Writes(c, "text"))
    BY <2>1, HelpersAct
  <2>3. Acts(s, Writes(c, "text"))
    BY <2>1, <2>2, ActsCompose
  <2> QED
    BY <1>2, <2>1, <2>3 DEF c
<1>3. ASSUME NEW what, t \in Goes(Closed(s, what))
      PROVE  Acts(s, t)
  <2>1. Acts(s, Closed(s, what)) /\ IsState(Closed(s, what))
    BY HelpersAct, Fields
  <2>2. Acts(Closed(s, what), t)
    BY <1>3, <2>1, GoesActs
  <2> QED
    BY <2>1, <2>2, ActsCompose
<1> QED
  BY <1>1, <1>2, <1>3 DEF Near

\* A handler takes the key, or has left everything but a dialog as it was.
Untouched(s, t) ==
    /\ t.focus = s.focus /\ t.quick = s.quick /\ t.sent = s.sent
    /\ t.open \in {s.open, s.open \ {"confirm"}}

TakenWell(s, o) == Acts(s, o.s) /\ o.taken = TRUE
PassedWell(s, o) == Acts(s, o.s) /\ o.taken = FALSE /\ Untouched(s, o.s)

LEMMA TakesWell ==
    ASSUME NEW s, IsState(s), NEW t, Acts(s, t) \/ Near(s, t)
    PROVE  TakenWell(s, Taken(t))
BY NearActs DEF TakenWell, Taken

LEMMA PassesWell ==
    ASSUME NEW s, IsState(s)
    PROVE  PassedWell(s, Passed(s))
BY HelpersAct DEF PassedWell, Passed, Untouched

LEMMA Typed ==
    ASSUME NEW s, NEW k, NEW other, NEW o \in TypesOr(s, k, other)
    PROVE  o = Taken(Draw(s)) \/ o = other
BY DEF TypesOr

\* The dashboard, the about screen, the dialogs, the pickers and a command
\* that runs take every key.
LEMMA OverlaysTake ==
    ASSUME NEW s, IsState(s), NEW k,
           NEW o \in DashboardKey(s, k) \cup AboutKey(s, k) \cup ConfirmKey(s, k)
                     \cup ExecKey(s, k) \cup ListKey(s, k, "picker") \cup ListKey(s, k, "launch")
    PROVE  TakenWell(s, o)
<1> SUFFICES \E t : Near(s, t) /\ o = Taken(t)
  BY TakesWell
<1>1. CASE o \in DashboardKey(s, k)
  BY <1>1 DEF DashboardKey, Near
<1>2. CASE o \in AboutKey(s, k)
  BY <1>2 DEF AboutKey, Near
<1>3. CASE o \in ConfirmKey(s, k)
  BY <1>3 DEF ConfirmKey, Near
<1>4. CASE o \in ExecKey(s, k)
  BY <1>4 DEF ExecKey, Near
<1>5. ASSUME NEW which, o \in ListKey(s, k, which)
      PROVE  \E t : Near(s, t) /\ o = Taken(t)
  BY <1>5, Typed DEF ListKey, Near
<1> QED
  BY <1>1, <1>2, <1>3, <1>4, <1>5

\* So does the directory tree while it has the keyboard.
LEMMA TreeTakes ==
    ASSUME NEW s, IsState(s), NEW k, NEW o \in TreeKey(s, k)
    PROVE  TakenWell(s, o)
<1>1. CASE "find" \in s.open
  <2>1. o \in FindKey(s, k)
    BY <1>1 DEF TreeKey
  <2>2. \E t : Near(s, t) /\ o = Taken(t)
    BY <2>1 DEF FindKey, Near
  <2> QED
    BY <2>2, TakesWell
<1>2. CASE "find" \notin s.open
  <2>1. \E t : /\ o = Taken(t)
               /\ \/ Near(s, t)
                  \/ \E u \in OpenInEditor(s) : t \in {Draw(u), [u EXCEPT !.open = @ \ {"tree"}]}
    BY <1>2 DEF TreeKey, Near
  <2>2. ASSUME NEW u \in OpenInEditor(s)
        PROVE  Acts(s, Draw(u)) /\ Acts(s, [u EXCEPT !.open = @ \ {"tree"}])
    <3>1. Acts(s, u) /\ IsState(u)
      BY EditorsAct DEF Acts, Follows
    <3>2. Acts(u, Draw(u)) /\ Acts(u, [u EXCEPT !.open = @ \ {"tree"}])
      BY <3>1, HelpersAct
    <3> QED
      BY <3>1, <3>2, ActsCompose
  <2>3. PICK t : /\ o = Taken(t)
                 /\ \/ Near(s, t)
                    \/ \E u \in OpenInEditor(s) : t \in {Draw(u), [u EXCEPT !.open = @ \ {"tree"}]}
    BY <2>1
  <2>4. Acts(s, t) \/ Near(s, t)
    BY <2>2, <2>3
  <2> QED
    BY <2>3, <2>4, TakesWell
<1> QED
  BY <1>1, <1>2

\* The palette, the search bar and the timeline pass on what they do not use.
LEMMA ListsPass ==
    ASSUME NEW s, IsState(s), NEW k,
           NEW o \in TimelineKey(s, k) \cup SearchKey(s, k) \cup PaletteKey(s, k)
    PROVE  TakenWell(s, o) \/ PassedWell(s, o)
<1>1. CASE o \in TimelineKey(s, k) \cup SearchKey(s, k)
  <2>1. (\E t : Near(s, t) /\ o = Taken(t)) \/ o = Passed(s)
    BY <1>1, Typed DEF TimelineKey, SearchKey, Near
  <2> QED
    BY <2>1, TakesWell, PassesWell
<1>2. CASE o \in PaletteKey(s, k)
  <2> DEFINE left == Closed(s, {"palette"})
  <2>1. Acts(s, left) /\ IsState(left)
    BY HelpersAct, Fields
  <2>2. \/ \E t : Near(s, t) /\ o = Taken(t)
        \/ o = Passed(s)
        \/ \E t \in PaletteOpensInEditor(left) : o = Taken(Draw(t))
        \/ \E a \in Actions : \E d \in DispatchAction(left, a) : o = Taken(Draw(d.s))
    BY <1>2, Typed DEF PaletteKey, Near
  <2> HIDE DEF left
  <2>3. ASSUME NEW t, Acts(left, t)
        PROVE  TakenWell(s, Taken(Draw(t)))
    <3>1. Acts(s, t) /\ IsState(t)
      BY <2>1, <2>3, ActsCompose DEF Acts, Follows
    <3>2. Acts(s, Draw(t))
      BY <3>1, HelpersAct, ActsCompose
    <3> QED
      BY <3>2, TakesWell
  <2>4. ASSUME NEW t \in PaletteOpensInEditor(left)
        PROVE  Acts(left, t)
    BY <2>1, EditorsAct
  <2>5. ASSUME NEW a \in Actions, NEW d \in DispatchAction(left, a)
        PROVE  Acts(left, d.s)
    BY <2>1, DispatchActs
  <2> QED
    BY <2>2, <2>3, <2>4, <2>5, TakesWell, PassesWell
<1> QED
  BY <1>1, <1>2

LEMMA BindingsPass ==
    ASSUME NEW s, IsState(s), NEW k, NEW o \in BindingKey(s, k)
    PROVE  TakenWell(s, o) \/ PassedWell(s, o)
<1>1. CASE o = Passed(s)
  BY <1>1, PassesWell
<1>2. ASSUME NEW a \in Actions, o \in DispatchAction(s, a)
      PROVE  TakenWell(s, o) \/ PassedWell(s, o)
  <2>1. /\ Acts(s, o.s) /\ o.taken \in BOOLEAN
        /\ ~o.taken => o.s = [s EXCEPT !.open = @ \ {"confirm"}]
    BY <1>2, DispatchActs
  <2>2. Untouched(s, [s EXCEPT !.open = @ \ {"confirm"}])
    BY DEF Untouched, IsState
  <2> QED
    BY <2>1, <2>2 DEF TakenWell, PassedWell
<1> QED
  BY <1>1, <1>2 DEF BindingKey

\* The handlers that may pass a key on after they looked at it.
Passers == {"timeline", "palette", "search", "binding"}

LEMMA HandledWell ==
    ASSUME NEW s, IsState(s), NEW k, NEW n \in 1..14, NEW o \in Handle(Handlers[n], s, k)
    PROVE  TakenWell(s, o) \/ (PassedWell(s, o) /\ Handlers[n] \in Passers)
<1> DEFINE h == Handlers[n]
<1>1. h \in {"dashboard", "about", "confirm", "preedit", "tree", "ctrl_np", "exec", "timeline",
             "picker", "launch", "palette", "search", "quick", "binding"}
  BY DEF Handlers
<1>2. o \in Handle(h, s, k)
  OBVIOUS
<1> HIDE DEF h
<1>3. CASE h \in {"dashboard", "about", "confirm", "exec"}
  BY <1>2, <1>3, OverlaysTake DEF Handle
<1>4. CASE h \in {"picker", "launch"}
  <2>1. o \in ListKey(s, k, "picker") \cup ListKey(s, k, "launch")
    BY <1>2, <1>4 DEF Handle
  <2> QED
    BY <2>1, OverlaysTake
<1>5. CASE h \in {"preedit", "ctrl_np"}
  <2>1. o = Taken(s) \/ o = Taken(Draw(s))
    BY <1>2, <1>5 DEF Handle
  <2> QED
    BY <2>1, TakesWell DEF Near
<1>6. CASE h = "tree"
  BY <1>2, <1>6, TreeTakes DEF Handle
<1>7. CASE h = "quick"
  <2>1. o = Taken(HideQuick(s))
    BY <1>2, <1>7 DEF Handle
  <2> QED
    BY <2>1, QuickFollows, TakesWell DEF Acts
<1>8. CASE h \in {"timeline", "palette", "search"}
  <2>1. o \in TimelineKey(s, k) \cup SearchKey(s, k) \cup PaletteKey(s, k)
    BY <1>2, <1>8 DEF Handle
  <2> QED
    BY <1>8, <2>1, ListsPass DEF Passers, h
<1>9. CASE h = "binding"
  BY <1>2, <1>9, BindingsPass DEF Handle, Passers, h
<1> QED
  BY <1>1, <1>3, <1>4, <1>5, <1>6, <1>7, <1>8, <1>9

\* The shell is sent the key; only the selection of its pane ends.
LEMMA ShellTakes ==
    ASSUME NEW s, IsState(s), NEW k, NEW o \in ShellKey(s, k)
    PROVE  /\ Follows(s, o.s) /\ o.taken = TRUE
           /\ o.s.open = s.open /\ o.s.focus = s.focus /\ o.s.quick = s.quick
<1> DEFINE u == [s EXCEPT !.selecting = @ \ {s.focus},
                          !.redraw = @ \/ s.focus \in s.selecting]
<1>1. /\ IsState(u) /\ u.open = s.open /\ u.focus = s.focus /\ u.quick = s.quick
      /\ u.redraw = (s.redraw \/ s.focus \in s.selecting)
  BY DEF IsState
<1>2. o = Taken(s) \/ o = Taken(Writes(u, "key"))
  BY DEF ShellKey
<1> HIDE DEF u
<1>8. /\ IsState(Writes(u, "key")) /\ Writes(u, "key").open = u.open
      /\ Writes(u, "key").quick = u.quick /\ Writes(u, "key").redraw = u.redraw
  BY <1>1, Fields
<1>3. /\ IsState(Writes(u, "key")) /\ Writes(u, "key").open = s.open
      /\ Writes(u, "key").quick = s.quick
  BY <1>1, <1>8
<1>4. Writes(u, "key").focus = s.focus
  BY <1>1 DEF Writes, IsState
<1>5. s.redraw => Writes(u, "key").redraw
  BY <1>1, <1>8
<1>6. Follows(s, Writes(u, "key"))
  BY <1>3, <1>5 DEF Follows, Moving
<1>7. Follows(s, s)
  BY HelpersFollow
<1> QED
  BY <1>2, <1>3, <1>4, <1>6, <1>7 DEF Taken

-----------------------------------------------------------------------------
(* The handlers of a key, one after another.                               *)

\* A handler that lets no key through while it looks.
Blocks(h, up) ==
    \/ h \in {"dashboard", "about", "confirm", "tree", "picker", "launch"} \cap up
    \/ h = "exec" /\ {"palette", "exec"} \subseteq up

\* The key reached handler n untouched.
Reached(s, n, t) ==
    /\ t.open = s.open /\ t.focus = s.focus /\ t.quick = s.quick
    /\ \A j \in 1..n : ~Blocks(Handlers[j], s.open)

\* What n handlers made of a key.
Stage(s, n, o) ==
    /\ Follows(s, o.s) /\ o.taken \in BOOLEAN
    /\ ~o.taken => o.s.sent # "key" /\ Reached(s, n, o.s)
    /\ o.s.sent = "key" => Reached(s, 14, o.s)

LEMMA NextStage ==
    ASSUME NEW s, NEW k, NEW n \in 0..14, NEW o, Stage(s, n, o),
           NEW p \in IF o.taken \/ ~Looks(Handlers[n + 1], o.s, k) THEN {o}
                     ELSE Handle(Handlers[n + 1], o.s, k)
    PROVE  Stage(s, n + 1, p)
<1> DEFINE h == Handlers[n + 1]
<1>1. CASE o.taken
  BY <1>1 DEF Stage
<1>2. ASSUME ~o.taken, ~Blocks(h, s.open), Reached(s, n, o.s)
      PROVE  Reached(s, n + 1, o.s)
  BY <1>2 DEF Reached
<1>3. CASE ~o.taken /\ ~Looks(h, o.s, k)
  <2>1. p = o /\ Reached(s, n, o.s) /\ o.s.open = s.open
    BY <1>3 DEF Stage, Reached
  <2>2. ~Blocks(h, s.open)
    BY <1>3, <2>1 DEF Blocks, Looks
  <2> QED
    BY <1>2, <1>3, <2>1, <2>2 DEF Stage
<1>4. CASE ~o.taken /\ Looks(h, o.s, k)
  <2>1. /\ p \in Handle(h, o.s, k) /\ Reached(s, n, o.s) /\ IsState(o.s)
        /\ o.s.sent # "key" /\ Follows(s, o.s)
    BY <1>4 DEF Stage, Follows
  <2>2. CASE n = 14
    <3>1. p \in ShellKey(o.s, k)
      BY <2>1, <2>2 DEF Handle, Handlers
    <3>2. /\ Follows(o.s, p.s) /\ p.taken = TRUE /\ p.s.open = o.s.open
          /\ p.s.focus = o.s.focus /\ p.s.quick = o.s.quick
      BY <2>1, <3>1, ShellTakes
    <3>3. Reached(s, 14, p.s)
      BY <2>1, <2>2, <3>2 DEF Reached
    <3> QED
      BY <2>1, <3>2, <3>3, Composed DEF Stage
  <2>3. CASE n < 14
    <3>1. n + 1 \in 1..14
      BY <2>3
    <3>2. CASE TakenWell(o.s, p)
      BY <2>1, <3>2, Composed DEF TakenWell, Acts, Stage
    <3>3. CASE PassedWell(o.s, p) /\ h \in Passers
      <4>1. /\ Follows(o.s, p.s) /\ p.taken = FALSE /\ p.s.sent = o.s.sent
            /\ p.s.focus = o.s.focus /\ p.s.quick = o.s.quick
            /\ p.s.open \in {o.s.open, o.s.open \ {"confirm"}}
        BY <3>3 DEF PassedWell, Acts, Untouched
      <4>2. n >= 3 /\ Handlers[3] = "confirm"
        BY <3>1, <3>3 DEF Passers, Handlers
      <4>3. "confirm" \notin s.open /\ o.s.open = s.open
        BY <2>1, <4>2 DEF Reached, Blocks
      <4>4. p.s.open = s.open
        BY <4>1, <4>3
      <4>5. ~Blocks(h, s.open)
        BY <3>3 DEF Passers, Blocks
      <4>6. Reached(s, n + 1, p.s)
        BY <2>1, <4>1, <4>4, <4>5 DEF Reached
      <4>7. Follows(s, p.s) /\ p.s.sent # "key"
        BY <2>1, <4>1, Composed
      <4> QED
        BY <4>1, <4>6, <4>7 DEF Stage
    <3> QED
      BY <2>1, <3>1, <3>2, <3>3, HandledWell
  <2> QED
    BY <2>2, <2>3
<1> QED
  BY <1>1, <1>3, <1>4 DEF Stage

LEMMA Climb ==
    ASSUME NEW S, 0 \in S, \A n \in Nat : n \in S => n + 1 \in S
    PROVE  Nat \subseteq S
<1> SUFFICES ASSUME Nat \ S # {}
             PROVE  FALSE
  OBVIOUS
<1> DEFINE x == Min(Nat \ S)
<1>1. x \in Nat \ S
  BY FirstPosition
<1>2. \A y \in Nat \ S : x <= y
  BY FirstPosition
<1> HIDE DEF x
<1>3. x # 0 /\ x - 1 \in S /\ x - 1 \in Nat
  BY <1>1, <1>2
<1>4. (x - 1) + 1 \in S
  BY <1>3
<1> QED
  BY <1>1, <1>4

\* Whatever comes of a key went through all the handlers.
LEMMA KeyStages ==
    ASSUME NEW s, IsState(s), s.sent # "key", NEW k, NEW o \in KeyOutcomes(s, k)
    PROVE  Stage(s, 15, o)
<1> DEFINE size == Len(Handlers)
           next(g, i) == IF i = 0 THEN {Passed(s)}
                         ELSE UNION {IF q.taken \/ ~Looks(Handlers[i], q.s, k) THEN {q}
                                     ELSE Handle(Handlers[i], q.s, k) : q \in g[i - 1]}
           built(g, m) == g = [i \in 0..m |-> next(g, i)]
           some == {m \in Nat : \E g : built(g, m)}
           after == CHOOSE g : built(g, size)
           good == {i \in Nat : i <= size => \A q \in after[i] : Stage(s, i, q)}
<1>1. size = 15
  BY DEF Handlers
<1>2. KeyOutcomes(s, k) = after[size]
  BY Zenon DEF KeyOutcomes
<1> HIDE DEF next, size
<1>3. 0 \in some
  <2> DEFINE g == [i \in 0..0 |-> {Passed(s)}]
  <2>1. \A i \in 0..0 : next(g, i) = {Passed(s)}
    BY DEF next
  <2>2. built(g, 0)
    BY <2>1
  <2> QED
    BY <2>2
<1>4. ASSUME NEW m \in Nat, m \in some
      PROVE  m + 1 \in some
  <2>1. PICK g : built(g, m)
    BY <1>4
  <2>2. \A i \in 0..m : g[i] = next(g, i)
    BY <2>1
  <2> DEFINE h == [i \in 0..(m + 1) |-> IF i = m + 1 THEN next(g, m + 1) ELSE g[i]]
  <2>3. ASSUME NEW i \in 0..(m + 1)
        PROVE  h[i] = next(h, i)
    <3>1. CASE i = 0
      <4>1. h[0] = g[0] /\ g[0] = next(g, 0)
        BY <2>2, <3>1
      <4> QED
        BY <3>1, <4>1 DEF next
    <3>2. CASE i # 0
      <4>1. i - 1 \in 0..m /\ h[i - 1] = g[i - 1]
        BY <3>2
      <4> HIDE DEF h
      <4>2. next(h, i) = next(g, i)
        BY <3>2, <4>1 DEF next
      <4>3. i # m + 1 => i \in 0..m /\ g[i] = next(g, i)
        BY <2>2
      <4> QED
        BY <4>2, <4>3 DEF h
    <3> QED
      BY <3>1, <3>2
  <2>4. h = [i \in 0..(m + 1) |-> h[i]]
    OBVIOUS
  <2>5. built(h, m + 1)
    BY <2>3, <2>4
  <2> HIDE DEF built, h
  <2> QED
    BY <2>5
<1>5. built(after, size)
  <2>1. size \in some
    <3> HIDE DEF some
    <3> QED
      BY <1>1, <1>3, <1>4, Climb
  <2>2. \E g : built(g, size)
    BY <2>1
  <2> HIDE DEF built
  <2> QED
    BY <2>2
<1>6. \A i \in 0..size : after[i] = next(after, i)
  <2> HIDE DEF after
  <2> QED
    BY <1>5
<1> HIDE DEF after
<1>7. 0 \in good
  <2>1. after[0] = {Passed(s)}
    BY <1>1, <1>6 DEF next
  <2>2. Stage(s, 0, Passed(s))
    BY HelpersFollow DEF Stage, Passed, Reached
  <2> QED
    BY <2>1, <2>2
<1>8. ASSUME NEW i \in Nat, i \in good
      PROVE  i + 1 \in good
  <2> SUFFICES ASSUME i + 1 <= size, NEW q \in after[i + 1]
               PROVE  Stage(s, i + 1, q)
    OBVIOUS
  <2>1. i \in 0..14 /\ i + 1 \in 0..size /\ i + 1 # 0 /\ (i + 1) - 1 = i
    BY <1>1
  <2>2. PICK p \in after[i] : q \in IF p.taken \/ ~Looks(Handlers[i + 1], p.s, k) THEN {p}
                                    ELSE Handle(Handlers[i + 1], p.s, k)
    <3>1. after[i + 1] = next(after, i + 1)
      BY <1>6, <2>1
    <3> QED
      BY <2>1, <3>1 DEF next
  <2>3. Stage(s, i, p)
    BY <1>1, <1>8, <2>1
  <2> QED
    BY <2>1, <2>2, <2>3, NextStage
<1>9. size \in good
  <2> HIDE DEF good
  <2> QED
    BY <1>1, <1>7, <1>8, Climb
<1> QED
  BY <1>1, <1>2, <1>9

LEMMA StateIsState ==
    ASSUME DOMAIN quick = {"active", "visible", "shown", "animation"}
    PROVE  /\ IsState(State) /\ State.sent # "key"
           /\ State.open = open /\ State.focus = focus /\ State.quick = quick
           /\ State.redraw = redraw
BY WindowAssumption DEF IsState, State

-----------------------------------------------------------------------------
(* What moves has a frame.                                                 *)

MotionInv ==
    /\ DOMAIN quick = {"active", "visible", "shown", "animation"}
    /\ MotionHasAFrame

\* Every handler's step, with what it does to the scrolling of a selection.
LEMMA MotionStays ==
    ASSUME MotionInv, NEW t, Follows(State, t), Becomes(t),
           auto' => auto \/ animate', animate => animate'
    PROVE  MotionInv'
<1>1. quick' = t.quick /\ open' = t.open /\ redraw' = t.redraw /\ IsState(t)
  BY DEF Becomes, Follows
<1>2. Moving(State) => redraw \/ animate
  BY StateIsState DEF MotionInv, MotionHasAFrame, Moving
<1>3. redraw => redraw'
  BY <1>1, StateIsState DEF Follows, MotionInv
<1>4. Moving(t) => redraw' \/ animate'
  BY <1>1, <1>2, <1>3 DEF Follows
<1>5. auto => redraw' \/ animate'
  BY <1>3 DEF MotionInv, MotionHasAFrame
<1> QED
  BY <1>1, <1>4, <1>5 DEF MotionInv, MotionHasAFrame, Moving, IsState

LEMMA KeysMove ==
    ASSUME MotionInv, KeyPress \/ ImePreedit \/ ImeCommit \/ ImeDisabled
    PROVE  MotionInv'
<1>1. UNCHANGED <<auto, animate>>
  BY DEF KeyPress, ImePreedit, ImeCommit, ImeDisabled
<1>2. IsState(State) /\ State.sent # "key"
  BY StateIsState DEF MotionInv
<1>3. CASE KeyPress
  <2>1. PICK k \in Keys : \E o \in KeyOutcomes(State, k) : Becomes(o.s)
    BY <1>3 DEF KeyPress
  <2>2. PICK o \in KeyOutcomes(State, k) : Becomes(o.s)
    BY <2>1
  <2>3. Follows(State, o.s)
    BY <1>2, KeyStages DEF Stage
  <2> QED
    BY <1>1, <2>2, <2>3, MotionStays
<1>4. CASE ImePreedit \/ ImeCommit \/ ImeDisabled
  <2> DEFINE u == [State EXCEPT !.preedit = @ \cup {focus}]
             d == Discards(State)
  <2>1. IsState(d) /\ Follows(State, d)
    BY <1>2, Fields, HelpersFollow
  <2>2. IsState(u)
    BY <1>2 DEF IsState
  <2>3. Follows(State, State) /\ Follows(State, Draw(State))
    BY <1>2, HelpersFollow
  <2> HIDE DEF u, d
  <2>4. Draw(u).redraw = TRUE /\ IsState(Draw(u))
    BY <2>2, Fields
  <2>5. Follows(State, Draw(u))
    BY <2>4 DEF Follows
  <2>6. Follows(d, Draw(d)) /\ IsState(Draw(d))
    BY <2>1, Fields, HelpersFollow
  <2>7. Follows(Draw(d), Writes(Draw(d), "text"))
    BY <2>6, HelpersFollow
  <2>8. Follows(State, Draw(d)) /\ Follows(State, Writes(Draw(d), "text"))
    BY <2>1, <2>6, <2>7, Composed
  <2>9. \E t \in {State, Draw(State), Draw(u), Draw(d), Writes(Draw(d), "text")} : Becomes(t)
    BY <1>4, Zenon DEF ImePreedit, ImeCommit, ImeDisabled, u, d
  <2> QED
    BY <1>1, <2>3, <2>5, <2>8, <2>9, MotionStays
<1> QED
  BY <1>3, <1>4

LEMMA DrawnFollows ==
    ASSUME NEW s, NEW t, IsState(t)
    PROVE  Follows(s, Draw(t)) /\ IsState(Draw(t))
BY Fields DEF Follows

LEMMA PressMoves ==
    ASSUME MotionInv, MousePress
    PROVE  MotionInv'
<1> DEFINE s == IF "tree" \in open THEN Closed(State, {"tree", "find"}) ELSE State
           tree == Opened(State, {"tree"})
<1>1. IsState(State) /\ Follows(State, State)
  BY StateIsState, HelpersFollow DEF MotionInv
<1>2. IsState(s) /\ Follows(State, s)
  BY <1>1, Fields, HelpersFollow
<1>3. IsState(tree) /\ Follows(State, tree)
  BY <1>1, Fields, HelpersFollow
<1> HIDE DEF s, tree
<1>4. \A t \in SidebarClick(State) : Follows(State, t)
  <2>1. \A t \in OpenInEditor(tree) : Follows(State, t)
    BY <1>3, EditorsAct, Composed DEF Acts
  <2>2. Follows(State, Writes(tree, "text"))
    BY <1>3, HelpersFollow, Composed
  <2>3. \A t \in Goes(State) : Follows(State, t)
    BY <1>1, GoesActs DEF Acts
  <2>4. Follows(State, Opened(State, {"tree"})) /\ Follows(State, Closed(State, {"tree"}))
    BY <1>1, HelpersFollow
  <2> QED
    BY <1>1, <2>1, <2>2, <2>3, <2>4 DEF SidebarClick, tree
<1>5. \A t \in TabBarClick(s) : Follows(State, t)
  <2>1. \A t \in Effects(s, "new") \cup Effects(s, "close") : Follows(s, t)
    BY <1>2, EffectsAct DEF Acts, Actions
  <2> QED
    BY <1>2, <2>1, Composed DEF TabBarClick
<1>6. ASSUME NEW p \in Pane
      PROVE  Follows(State, PaneClick(s, p))
  <2> DEFINE u == [s EXCEPT !.focus = p]
             at == Draw(u)
             picks == [at EXCEPT !.selecting = @ \cup {p}]
  <2>1. IsState(u)
    BY <1>2 DEF IsState
  <2> HIDE DEF u
  <2>2. IsState(at) /\ at.redraw = TRUE
    BY <2>1, Fields
  <2> HIDE DEF at
  <2>3. IsState(Writes(at, "mouse")) /\ Writes(at, "mouse").redraw = TRUE
    BY <2>2, Fields
  <2>4. IsState(picks) /\ picks.redraw = TRUE
    BY <2>2 DEF IsState
  <2>5. PaneClick(s, p) \in {Writes(at, "mouse"), picks}
    BY DEF PaneClick, at, u
  <2> QED
    BY <2>3, <2>4, <2>5 DEF Follows
<1>7. Follows(State, Draw(s)) /\ Follows(State, Opened(s, {"confirm"}))
  BY <1>2, HelpersFollow, Composed
<1>8. UNCHANGED <<auto, animate>>
  BY DEF MousePress
<1>9. \E t : /\ Becomes(t)
             /\ \/ t \in {State, s, Draw(s), Opened(s, {"confirm"})}
                \/ t \in SidebarClick(State) \cup TabBarClick(s)
                \/ \E p \in Pane : t = PaneClick(s, p)
  BY DEF MousePress, s
<1>10. PICK t : Becomes(t) /\ Follows(State, t)
  BY <1>1, <1>2, <1>4, <1>5, <1>6, <1>7, <1>9
<1> QED
  BY <1>8, <1>10, MotionStays

LEMMA ReleaseMoves ==
    ASSUME MotionInv, MouseRelease
    PROVE  MotionInv'
<1> DEFINE chosen == IF focus \in reports THEN Writes(State, "mouse")
                     ELSE [State EXCEPT !.selecting = @ \ {focus}]
<1>1. IsState(State) /\ Follows(State, State) /\ Follows(State, Draw(State))
  BY StateIsState, HelpersFollow DEF MotionInv
<1>2. IsState(chosen)
  <2>1. IsState([State EXCEPT !.selecting = @ \ {focus}])
    BY <1>1 DEF IsState
  <2> QED
    BY <1>1, <2>1, Fields
<1> HIDE DEF chosen
<1>3. Follows(State, Draw(chosen)) /\ Follows(State, Opened(State, {"confirm"}))
  BY <1>1, <1>2, DrawnFollows, HelpersFollow
<1>4. \A t \in Goes(State) : Follows(State, t)
  BY <1>1, GoesActs DEF Acts
<1>5. \E t : /\ Becomes(t)
             /\ \/ t \in {State, Draw(State), Opened(State, {"confirm"}), Draw(chosen)}
                \/ t \in Goes(State)
  <2> DEFINE d == First(<<"sidebar", "scrollbar", "tab_pane", "click", "tab", "resize">>)
  <2>1. \E t \in CASE d \in {"sidebar", "resize"} -> {State}
                  [] d \in {"scrollbar", "tab"} -> {Draw(State)}
                  [] d = "tab_pane" -> {Draw(State), Opened(State, {"confirm"})}
                  [] d = "click" -> Goes(State)
                  [] OTHER -> {Draw(chosen)} : Becomes(t)
    BY Zenon DEF MouseRelease, chosen
  <2> HIDE DEF d
  <2> QED
    BY <2>1
<1>6. PICK t : Becomes(t) /\ Follows(State, t)
  BY <1>1, <1>3, <1>4, <1>5
<1>7. auto' = FALSE /\ UNCHANGED animate
  BY DEF MouseRelease
<1> QED
  BY <1>6, <1>7, MotionStays

LEMMA MouseMoves ==
    ASSUME MotionInv, MouseMove \/ MouseWheel
    PROVE  MotionInv'
<1> DEFINE told == Writes(State, "mouse")
<1>1. /\ IsState(State) /\ Follows(State, State) /\ Follows(State, Draw(State))
      /\ Follows(State, told) /\ IsState(told)
  BY StateIsState, HelpersFollow, Fields DEF MotionInv
<1> HIDE DEF told
<1>2. Follows(State, Draw(told))
  BY <1>1, DrawnFollows
<1>3. /\ \E t \in {State, Draw(State), told, Draw(told)} : Becomes(t)
      /\ \/ UNCHANGED <<auto, animate>>
         \/ auto' = FALSE /\ UNCHANGED animate
         \/ animate' = TRUE
  <2>1. CASE MouseMove
    BY <2>1 DEF MouseMove, MoveSelection, told
  <2>2. CASE MouseWheel
    BY <2>2 DEF MouseWheel, told
  <2> QED
    BY <2>1, <2>2
<1>4. PICK t : Becomes(t) /\ Follows(State, t)
  BY <1>1, <1>2, <1>3
<1> QED
  BY <1>3, <1>4, MotionStays

\* Focus, other processes, programs, and the frame timer.
LEMMA OthersMove ==
    ASSUME MotionInv,
           \/ \E gained \in BOOLEAN : WindowFocused(gained)
           \/ \E p \in Programs : ProgramWantsMouse(p)
           \/ Request \/ AboutToWait
    PROVE  MotionInv'
<1> DEFINE told == Writes(State, "focus")
<1>1. /\ IsState(State) /\ Follows(State, State) /\ Follows(State, Draw(State))
      /\ Follows(State, told) /\ IsState(told)
  BY StateIsState, HelpersFollow, Fields DEF MotionInv
<1> HIDE DEF told
<1>2. \A s \in {State, told} : Follows(State, Draw(s)) /\ Follows(State, HideQuick(s))
  BY <1>1, HelpersFollow, QuickFollows, Composed
<1>3. /\ Follows(State, ToggleQuick(State)) /\ Follows(State, Toggled(State, "palette"))
      /\ Follows(State, Toggled(State, "timeline")) /\ Follows(State, Writes(State, "text"))
  BY <1>1, HelpersFollow, QuickFollows
<1>4. \A t \in Goes(State) : Follows(State, t)
  BY <1>1, GoesActs DEF Acts
<1>5. UNCHANGED <<auto, animate>>
  BY DEF WindowFocused, ProgramWantsMouse, Request, AboutToWait
<1>6. \E t : Becomes(t) /\ Follows(State, t)
  <2>1. CASE \E gained \in BOOLEAN : WindowFocused(gained)
    <3>1. PICK gained \in BOOLEAN : WindowFocused(gained)
      BY <2>1
    <3>2. \E s \in {State, told} : Becomes(s) \/ Becomes(Draw(s)) \/ Becomes(HideQuick(s))
      BY <3>1, Zenon DEF WindowFocused, told
    <3> QED
      BY <1>1, <1>2, <3>2
  <2>2. CASE \E p \in Programs : ProgramWantsMouse(p)
    BY <1>1, <2>2 DEF ProgramWantsMouse
  <2>3. CASE Request
    BY <1>3, <1>4, <2>3 DEF Request
  <2>4. CASE AboutToWait
    BY <1>1, <2>4 DEF AboutToWait
  <2> QED
    BY <2>1, <2>2, <2>3, <2>4
<1> QED
  BY <1>5, <1>6, MotionStays

\* A frame that is not the last of the animation asks for the next one.
LEMMA FrameMoves ==
    ASSUME MotionInv, RedrawRequested
    PROVE  MotionInv'
<1>1. PICK over \in BOOLEAN :
          /\ quick.animation = None => over
          /\ Becomes([State EXCEPT !.quick = TickQuick(@, over), !.redraw = ~over])
  BY DEF RedrawRequested
<1>2. quick' = TickQuick(quick, over) /\ redraw' = ~over /\ open' = open
  BY <1>1, StateIsState DEF Becomes, State, MotionInv
<1>3. auto' = auto /\ (auto \/ "exec" \in open => animate')
  BY DEF RedrawRequested
<1>4. /\ DOMAIN quick' = {"active", "visible", "shown", "animation"}
      /\ over => quick'.animation = None
  BY <1>2 DEF TickQuick, MotionInv
<1> QED
  BY <1>2, <1>3, <1>4 DEF MotionInv, MotionHasAFrame

LEMMA MotionStep ==
    MotionInv /\ [Next]_vars => MotionInv'
<1> SUFFICES ASSUME MotionInv, [Next]_vars PROVE MotionInv'
  OBVIOUS
<1>1. CASE KeyPress \/ ImePreedit \/ ImeCommit \/ ImeDisabled
  BY <1>1, KeysMove
<1>2. CASE MousePress \/ MouseRelease \/ MouseMove \/ MouseWheel
  BY <1>2, PressMoves, ReleaseMoves, MouseMoves
<1>3. CASE \/ \E gained \in BOOLEAN : WindowFocused(gained)
           \/ \E p \in Programs : ProgramWantsMouse(p)
           \/ Request \/ AboutToWait
  BY <1>3, OthersMove
<1>4. CASE RedrawRequested
  BY <1>4, FrameMoves
<1>5. CASE UNCHANGED vars
  BY <1>5 DEF vars, MotionInv, MotionHasAFrame
<1> QED
  BY <1>1, <1>2, <1>3, <1>4, <1>5 DEF Next

-----------------------------------------------------------------------------
(* The theorems.                                                           *)

(* Whatever order of presses, movements, keys and requests a drag goes     *)
(* through, it is one drag, and it ends when the button is released.       *)
THEOREM NothingDragsUnheld == Spec => []DragsEndWithTheButton
<1>1. Init => DragInv
  BY DEF Init, DragInv
<1>2. DragInv => DragsEndWithTheButton
  <2>1. Cardinality({}) = 0 /\ \A k : Cardinality({k}) = 1
    BY FS_EmptySet, FS_Singleton, Zenon
  <2>2. DragInv => Cardinality(drags) \in {0, 1}
    BY <2>1, Zenon DEF DragInv
  <2> QED
    BY <2>2 DEF DragInv, DragsEndWithTheButton
<1> QED
  BY <1>1, <1>2, DragStep, PTL DEF Spec

LEMMA MotionInvariance == Spec => []MotionInv
<1>1. Init => MotionInv
  BY DEF Init, MotionInv, MotionHasAFrame
<1> QED
  BY <1>1, MotionStep, PTL DEF Spec

(* A slide of the quick terminal, a selection that scrolls and a command   *)
(* that is polled have their next frame asked for, whichever key, click,   *)
(* request or action started them, and whichever frame came before.        *)
THEOREM MotionIsDrawn == Spec => []MotionHasAFrame
<1>1. MotionInv => MotionHasAFrame
  BY DEF MotionInv
<1> QED
  BY MotionInvariance, <1>1, PTL

(* Of the fifteen handlers a key is offered to, none acts on it and passes *)
(* it on: a key a shell is sent has found every overlay closed that takes  *)
(* all keys, and left the window as it was, for any overlays at once.      *)
THEOREM OneHandlerTakesAKey == Spec => []KeysHaveOneTaker
<1>1. MotionInv => KeysHaveOneTaker
  <2> SUFFICES ASSUME MotionInv, NEW k \in Keys, NEW o \in KeyOutcomes(State, k), o.s.sent = "key"
               PROVE  /\ o.s.open = open /\ o.s.focus = focus /\ o.s.quick = quick
                      /\ open \cap {"dashboard", "about", "confirm", "tree", "picker", "launch"} = {}
                      /\ ~ {"palette", "exec"} \subseteq open
    BY DEF KeysHaveOneTaker
  <2>1. /\ IsState(State) /\ State.sent # "key" /\ State.open = open
        /\ State.focus = focus /\ State.quick = quick
    BY StateIsState DEF MotionInv
  <2>2. Reached(State, 14, o.s)
    BY <2>1, KeyStages DEF Stage
  <2>3. /\ o.s.open = open /\ o.s.focus = focus /\ o.s.quick = quick
        /\ \A n \in 1..14 : ~Blocks(Handlers[n], open)
    BY <2>1, <2>2 DEF Reached
  <2>4. \A h \in {"dashboard", "about", "confirm", "tree", "exec", "picker", "launch"} :
            \E n \in 1..14 : Handlers[n] = h
    BY DEF Handlers
  <2>5. \A h \in {"dashboard", "about", "confirm", "tree", "exec", "picker", "launch"} :
            ~Blocks(h, open)
    BY <2>3, <2>4
  <2> QED
    BY <2>3, <2>5 DEF Blocks
<1> QED
  BY MotionInvariance, <1>1, PTL

-----------------------------------------------------------------------------
(* Frames: the invariant.                                                  *)

\* What a terminal shows: a view into its scrollback, not past its oldest line.
IsScreen(s) ==
    /\ s \in [lines : [Lines -> Char], dirty : SUBSET Lines, cursor : Lines,
              mark : BOOLEAN, history : Seq(Char), offset : Nat,
              images : [ImageIds -> Picture \cup {None}]]
    /\ s.offset <= Len(s.history) /\ Len(s.history) <= MaxHistory

\* One pane, or two that differ.
IsOrder(panes) ==
    \/ \E p \in Pane : panes = <<p>>
    \/ panes \in [1..2 -> Pane] /\ panes[1] # panes[2]

\* A glyph in a row above the one being filled, or in that row and left of
\* where the next one goes.
Behind(g, a) ==
    \/ g.y + g.h <= a.pack_y
    \/ g.y = a.pack_y /\ g.x + g.w <= a.pack_x /\ g.h <= a.row

\* An atlas: glyphs inside it, none over another, and all of them behind the
\* place of the next, which begins in the atlas.
Packed(a) ==
    /\ a.height \in Nat /\ a.pack_x \in Nat /\ a.pack_y \in Nat /\ a.row \in Nat
    /\ a.height >= 3 /\ a.pack_y + a.row <= a.height
    /\ DOMAIN a.glyphs \subseteq Char /\ IsFiniteSet(DOMAIN a.glyphs)
    /\ a.glyphs \in [DOMAIN a.glyphs -> Box]
    /\ \A c \in DOMAIN a.glyphs : Behind(a.glyphs[c], a) /\ Inside(a.glyphs[c], a.height)
    /\ \A c, d \in DOMAIN a.glyphs : c # d => ~Overlap(a.glyphs[c], a.glyphs[d])

\* A texture has some of an atlas's glyphs and knows how many; with all of
\* them it is the copy of the atlas.
Copied(a, t, n) ==
    /\ DOMAIN t.glyphs \subseteq DOMAIN a.glyphs
    /\ n = Cardinality(DOMAIN t.glyphs)
    /\ DOMAIN t.glyphs = DOMAIN a.glyphs => t = Texture(a)

RendererFields == {"cell", "atlas", "texture", "version", "pane_caches", "buffer", "gpu_images"}

IsRenderer(r) ==
    /\ r = [f \in RendererFields |-> r[f]]
    /\ r.cell \in CellWidths
    /\ r.atlas = [k \in Atlases |-> r.atlas[k]]
    /\ r.texture = [k \in Atlases |-> r.texture[k]]
    /\ r.version = [k \in Atlases |-> r.version[k]]
    /\ r.pane_caches = [p \in Pane |-> r.pane_caches[p]]
    /\ r.buffer \in [Lines -> Instances \cup {None}]
    /\ r.gpu_images = [i \in ImageIds |-> r.gpu_images[i]]
    /\ \A k \in Atlases : Packed(r.atlas[k]) /\ Copied(r.atlas[k], r.texture[k], r.version[k])

\* The strengthening of FramesAreFresh that every step preserves.
IInv ==
    /\ screen = [p \in Pane |-> screen[p]] /\ \A p \in Pane : IsScreen(screen[p])
    /\ IsOrder(shown)
    /\ IsRenderer(renderer)
    /\ seen = [p \in Pane |-> seen[p]]
    /\ drawn \in BOOLEAN /\ edits \in 0..MaxEdits
    /\ FramesAreFresh
-----------------------------------------------------------------------------
(* Atlases.                                                                *)

\* A glyph is put where no other one is and where the texture is large enough.
LEMMA PackedAgain ==
    ASSUME NEW a, Packed(a), NEW c \in Char, c \notin DOMAIN a.glyphs,
           NEW w \in Nat, w + 2 <= AtlasWidth
    PROVE  /\ Packed(Pack(a, c, w, 1))
           /\ DOMAIN Pack(a, c, w, 1).glyphs = DOMAIN a.glyphs \cup {c}
           /\ \A d \in DOMAIN a.glyphs : Pack(a, c, w, 1).glyphs[d] = a.glyphs[d]
<1> DEFINE wraps == a.pack_x + w + 1 > AtlasWidth
           x == IF wraps THEN 1 ELSE a.pack_x
           y == IF wraps THEN a.pack_y + a.row + 1 ELSE a.pack_y
           row == IF wraps THEN 0 ELSE a.row
           height == IF y + 1 + 1 > a.height THEN 2 * a.height ELSE a.height
           deep == IF row > 1 + 1 THEN row ELSE 1 + 1
           new == [x |-> x, y |-> y, w |-> w, h |-> 1]
           put == [d \in DOMAIN a.glyphs \cup {c} |-> IF d = c THEN new ELSE a.glyphs[d]]
           b == Pack(a, c, w, 1)
<1>1. /\ b.height = height /\ b.glyphs = put /\ b.pack_x = x + w + 1
      /\ b.pack_y = y /\ b.row = deep
  BY DEF Pack
<1>2. AtlasWidth \in Nat
  BY FramesAssumption
<1>3. /\ a.height \in Nat /\ a.pack_x \in Nat /\ a.pack_y \in Nat /\ a.row \in Nat
      /\ a.height >= 3 /\ a.pack_y + a.row <= a.height
  BY DEF Packed
<1>4. /\ x \in Nat /\ y \in Nat /\ row \in Nat /\ height \in Nat /\ deep \in Nat
      /\ height >= 3 /\ height >= a.height /\ y + deep <= height /\ y + 2 <= height
      /\ x + w + 1 <= AtlasWidth /\ deep >= 1 /\ y >= a.pack_y /\ deep >= row
      /\ wraps => y = a.pack_y + a.row + 1
      /\ ~wraps => y = a.pack_y /\ x = a.pack_x /\ row = a.row
  BY <1>2, <1>3
<1> HIDE DEF wraps, x, y, row, height, deep, b
<1>5. /\ new.x = x /\ new.y = y /\ new.w = w /\ new.h = 1 /\ new \in Box
  BY <1>4 DEF Box
<1>6. /\ DOMAIN put = DOMAIN a.glyphs \cup {c} /\ put[c] = new
      /\ \A d \in DOMAIN a.glyphs : put[d] = a.glyphs[d]
  OBVIOUS
<1> HIDE DEF new, put
<1>7. put \in [DOMAIN put -> Box]
  <2>1. \A d \in DOMAIN a.glyphs : a.glyphs[d] \in Box
    BY DEF Packed
  <2>2. put = [d \in DOMAIN put |-> put[d]]
    BY DEF put
  <2> QED
    BY <1>5, <1>6, <2>1, <2>2
<1>8. IsFiniteSet(DOMAIN put) /\ DOMAIN put \subseteq Char
  BY <1>6, FS_AddElement DEF Packed
<1>9. Behind(new, b) /\ Inside(new, b.height)
  BY <1>1, <1>2, <1>4, <1>5 DEF Behind, Inside
<1>10. ASSUME NEW d \in DOMAIN a.glyphs
       PROVE  /\ Behind(put[d], b) /\ Inside(put[d], b.height)
              /\ ~Overlap(put[d], new) /\ ~Overlap(new, put[d])
  <2> DEFINE g == a.glyphs[d]
  <2>1. /\ g \in Box /\ Behind(g, a) /\ Inside(g, a.height) /\ put[d] = g
    BY <1>6 DEF Packed
  <2>2. g.x \in Nat /\ g.y \in Nat /\ g.w \in Nat /\ g.h \in Nat
    BY <2>1 DEF Box
  <2> HIDE DEF g
  <2>3. Behind(g, b)
    BY <1>1, <1>3, <1>4, <2>1, <2>2 DEF Behind
  <2>4. Inside(g, b.height)
    BY <1>1, <1>2, <1>3, <1>4, <2>1, <2>2 DEF Inside
  <2>5. g.y + g.h <= y \/ g.x + g.w <= x
    BY <1>3, <1>4, <2>1, <2>2 DEF Behind
  <2>6. ~Overlap(g, new) /\ ~Overlap(new, g)
    BY <1>4, <1>5, <2>2, <2>5 DEF Overlap
  <2> QED
    BY <2>1, <2>3, <2>4, <2>6
<1>11. \A d \in DOMAIN put : Behind(put[d], b) /\ Inside(put[d], b.height)
  BY <1>6, <1>9, <1>10
<1>12. \A d, e \in DOMAIN put : d # e => ~Overlap(put[d], put[e])
  <2>1. \A d, e \in DOMAIN a.glyphs : d # e => ~Overlap(put[d], put[e])
    BY <1>6 DEF Packed
  <2> QED
    BY <1>6, <1>10, <2>1
<1>13. Packed(b)
  BY <1>1, <1>4, <1>7, <1>8, <1>11, <1>12 DEF Packed
<1>14. b = Pack(a, c, w, 1)
  BY DEF b
<1> QED
  BY <1>1, <1>6, <1>13, <1>14

\* One atlas after another.
Grown(a, b) ==
    /\ Packed(b) /\ DOMAIN a.glyphs \subseteq DOMAIN b.glyphs
    /\ \A d \in DOMAIN a.glyphs : b.glyphs[d] = a.glyphs[d]
    /\ b = a \/ DOMAIN b.glyphs # DOMAIN a.glyphs

LEMMA GlyphIsThere ==
    ASSUME NEW a, Packed(a), NEW c \in Char, NEW w \in Nat, w + 2 <= AtlasWidth
    PROVE  Grown(a, GetGlyph(a, c, w, 1)) /\ c \in DOMAIN GetGlyph(a, c, w, 1).glyphs
BY PackedAgain DEF GetGlyph, Grown

LEMMA GrownTwice ==
    ASSUME NEW a, NEW b, NEW c, Grown(a, b), Grown(b, c)
    PROVE  Grown(a, c)
BY DEF Grown

\* What was copied of an atlas is still a part of it when it has grown.
LEMMA StillCopied ==
    ASSUME NEW a, NEW b, NEW t, NEW n, Copied(a, t, n), Grown(a, b)
    PROVE  Copied(b, t, n)
BY DEF Copied, Grown

\* With as many glyphs as the atlas a texture is its copy.
LEMMA CountTells ==
    ASSUME NEW a, NEW t, NEW n, Packed(a), Copied(a, t, n), GlyphCount(a) = n
    PROVE  t = Texture(a)
<1>1. /\ IsFiniteSet(DOMAIN a.glyphs) /\ DOMAIN t.glyphs \subseteq DOMAIN a.glyphs
      /\ Cardinality(DOMAIN t.glyphs) = Cardinality(DOMAIN a.glyphs)
  BY DEF Packed, Copied, GlyphCount
<1>2. DOMAIN t.glyphs = DOMAIN a.glyphs
  BY <1>1, FS_Subset
<1> QED
  BY <1>2 DEF Copied
-----------------------------------------------------------------------------
(* Loading glyphs.                                                         *)

\* Only atlases have grown.
Loaded(r, t) ==
    /\ IsRenderer(t) /\ \A k \in Atlases : Grown(r.atlas[k], t.atlas[k])
    /\ t.buffer = r.buffer /\ t.pane_caches = r.pane_caches /\ t.gpu_images = r.gpu_images

Has(r, c) == c \in DOMAIN r.atlas[Source(c)].glyphs

LEMMA LoadedTwice ==
    ASSUME NEW r, NEW t, NEW u, Loaded(r, t), Loaded(t, u)
    PROVE  Loaded(r, u)
BY GrownTwice DEF Loaded

LEMMA Remains ==
    ASSUME NEW r, NEW t, Loaded(r, t), NEW c, Has(r, c)
    PROVE  Has(t, c)
<1>1. Source(c) \in Atlases
  BY DEF Source, Atlases
<1> QED
  BY <1>1 DEF Has, Loaded, Grown

\* No character is wider than a row of an atlas.
LEMMA CharacterFits ==
    ASSUME NEW cell \in CellWidths, NEW c \in Char
    PROVE  Traits[c].cells * cell \in Nat /\ Traits[c].cells * cell + 2 <= AtlasWidth
<1>1. /\ cell \in Nat /\ 2 * cell + 2 <= AtlasWidth /\ AtlasWidth \in Nat
      /\ Traits[c].cells \in {1, 2}
  BY FramesAssumption
<1>2. CASE Traits[c].cells = 1
  BY <1>1, <1>2
<1>3. CASE Traits[c].cells = 2
  BY <1>1, <1>3
<1> QED
  BY <1>1, <1>2, <1>3

\* An atlas that takes a list of characters, one after another.
LEMMA AtlasFills ==
    ASSUME NEW a, Packed(a), NEW cell \in CellWidths, NEW chars, Len(chars) \in Nat, NEW wanted,
           \A n \in wanted : n \in 1..Len(chars) => chars[n] \in Char
    PROVE  /\ Grown(a, Load(a, cell, chars, wanted))
           /\ \A n \in wanted : n \in 1..Len(chars) =>
                chars[n] \in DOMAIN Load(a, cell, chars, wanted).glyphs
<1> DEFINE size == Len(chars)
           next(g, n) == IF n = 0 THEN a
                         ELSE IF n \in wanted
                              THEN GetGlyph(g[n - 1], chars[n], Traits[chars[n]].cells * cell, 1)
                              ELSE g[n - 1]
           built(g, m) == g = [n \in 0..m |-> next(g, n)]
           some == {m \in Nat : \E g : built(g, m)}
           after == CHOOSE g : built(g, size)
           sofar(m) == /\ Grown(a, after[m])
                       /\ \A n \in wanted : n \in 1..m => chars[n] \in DOMAIN after[m].glyphs
           good == {m \in Nat : m <= size => sofar(m)}
<1>1. Load(a, cell, chars, wanted) = after[size]
  BY Zenon DEF Load
<1>2. size \in Nat
  OBVIOUS
<1> HIDE DEF next, size
<1>3. 0 \in some
  <2> DEFINE g == [n \in 0..0 |-> a]
  <2>1. \A n \in 0..0 : next(g, n) = a
    BY DEF next
  <2>2. built(g, 0)
    BY <2>1
  <2> QED
    BY <2>2
<1>4. ASSUME NEW m \in Nat, m \in some
      PROVE  m + 1 \in some
  <2>1. PICK g : built(g, m)
    BY <1>4
  <2>2. \A n \in 0..m : g[n] = next(g, n)
    BY <2>1
  <2> DEFINE h == [n \in 0..(m + 1) |-> IF n = m + 1 THEN next(g, m + 1) ELSE g[n]]
  <2>3. ASSUME NEW n \in 0..(m + 1)
        PROVE  h[n] = next(h, n)
    <3>1. CASE n = 0
      <4>1. h[0] = g[0] /\ g[0] = next(g, 0)
        BY <2>2, <3>1
      <4> QED
        BY <3>1, <4>1 DEF next
    <3>2. CASE n # 0
      <4>1. n - 1 \in 0..m /\ h[n - 1] = g[n - 1]
        BY <3>2
      <4> HIDE DEF h
      <4>2. next(h, n) = next(g, n)
        BY <3>2, <4>1 DEF next
      <4>3. n # m + 1 => n \in 0..m /\ g[n] = next(g, n)
        BY <2>2
      <4> QED
        BY <4>2, <4>3 DEF h
    <3> QED
      BY <3>1, <3>2
  <2>4. h = [n \in 0..(m + 1) |-> h[n]]
    OBVIOUS
  <2>5. built(h, m + 1)
    BY <2>3, <2>4
  <2> HIDE DEF built, h
  <2> QED
    BY <2>5
<1>5. built(after, size)
  <2>1. size \in some
    <3> HIDE DEF some
    <3> QED
      BY <1>2, <1>3, <1>4, Climb
  <2>2. \E g : built(g, size)
    BY <2>1
  <2> HIDE DEF built
  <2> QED
    BY <2>2
<1>6. \A n \in 0..size : after[n] = next(after, n)
  <2> HIDE DEF after
  <2> QED
    BY <1>5
<1> HIDE DEF after
<1>7. 0 \in good
  <2>1. after[0] = a
    BY <1>2, <1>6 DEF next
  <2> QED
    BY <2>1 DEF Grown
<1>8. ASSUME NEW m \in Nat, m \in good
      PROVE  m + 1 \in good
  <2> SUFFICES ASSUME m + 1 <= size
               PROVE  sofar(m + 1)
    OBVIOUS
  <2>1. /\ m + 1 \in 1..size /\ m \in 0..size /\ m + 1 \in 0..size /\ (m + 1) - 1 = m
        /\ m + 1 # 0 /\ m <= size
    BY <1>2
  <2>2. sofar(m)
    BY <1>8, <2>1
  <2> DEFINE w == Traits[chars[m + 1]].cells * cell
  <2>3. after[m + 1] = IF m + 1 \in wanted THEN GetGlyph(after[m], chars[m + 1], w, 1)
                       ELSE after[m]
    BY <1>6, <2>1 DEF next
  <2>4. \A n \in 1..(m + 1) : n = m + 1 \/ n \in 1..m
    OBVIOUS
  <2>5. CASE m + 1 \in wanted
    <3>1. chars[m + 1] \in Char
      BY <2>1, <2>5 DEF size
    <3>2. w \in Nat /\ w + 2 <= AtlasWidth
      BY <3>1, CharacterFits
    <3> HIDE DEF w
    <3>3. Packed(after[m])
      BY <2>2 DEF Grown
    <3>4. Grown(after[m], after[m + 1]) /\ chars[m + 1] \in DOMAIN after[m + 1].glyphs
      BY <2>3, <2>5, <3>1, <3>2, <3>3, GlyphIsThere
    <3>5. Grown(a, after[m + 1])
      BY <2>2, <3>4, GrownTwice
    <3>6. \A n \in wanted : n \in 1..m => chars[n] \in DOMAIN after[m + 1].glyphs
      BY <2>2, <3>4 DEF Grown
    <3> QED
      BY <2>4, <3>4, <3>5, <3>6
  <2>6. CASE m + 1 \notin wanted
    BY <2>2, <2>3, <2>4, <2>6
  <2> QED
    BY <2>5, <2>6
<1> HIDE DEF good
<1>9. size \in good
  BY <1>2, <1>7, <1>8, Climb
<1>10. sofar(size)
  BY <1>2, <1>9 DEF good
<1> QED
  BY <1>1, <1>10 DEF size

\* A list of characters goes to both atlases, each to the one it is drawn from.
LEMMA ListLoads ==
    ASSUME NEW r, IsRenderer(r), NEW chars, Len(chars) \in Nat, NEW wanted,
           \A n \in wanted : n \in 1..Len(chars) => chars[n] \in Char
    PROVE  /\ Loaded(r, LoadAll(r, chars, wanted))
           /\ \A n \in wanted : n \in 1..Len(chars) => Has(LoadAll(r, chars, wanted), chars[n])
<1> DEFINE of(k) == {n \in wanted : IF k = "mono" THEN InMono(chars[n])
                                    ELSE Source(chars[n]) = "emoji"}
           filled(k) == Load(r.atlas[k], r.cell, chars, of(k))
           t == LoadAll(r, chars, wanted)
<1>1. t = [r EXCEPT !.atlas = [k \in Atlases |-> filled(k)]]
  BY DEF LoadAll, IsRenderer, RendererFields
<1>2. ASSUME NEW k \in Atlases
      PROVE  /\ Grown(r.atlas[k], filled(k))
             /\ \A n \in of(k) : n \in 1..Len(chars) => chars[n] \in DOMAIN filled(k).glyphs
  <2>1. Packed(r.atlas[k]) /\ r.cell \in CellWidths
    BY DEF IsRenderer
  <2>2. \A n \in of(k) : n \in 1..Len(chars) => chars[n] \in Char
    OBVIOUS
  <2> HIDE DEF of
  <2> QED
    BY <2>1, <2>2, AtlasFills
<1>3. r = [f \in RendererFields |-> r[f]]
  BY DEF IsRenderer
<1> HIDE DEF filled, t
<1>4. /\ t = [f \in RendererFields |-> t[f]] /\ t.cell = r.cell /\ t.texture = r.texture
      /\ t.version = r.version /\ t.pane_caches = r.pane_caches /\ t.buffer = r.buffer
      /\ t.gpu_images = r.gpu_images /\ t.atlas = [k \in Atlases |-> filled(k)]
  BY <1>1, <1>3 DEF RendererFields
<1>5. \A k \in Atlases : Grown(r.atlas[k], t.atlas[k])
  BY <1>2, <1>4
<1>6. \A k \in Atlases : Packed(t.atlas[k]) /\ Copied(t.atlas[k], t.texture[k], t.version[k])
  <2> TAKE k \in Atlases
  <2>1. Copied(r.atlas[k], r.texture[k], r.version[k])
    BY DEF IsRenderer
  <2>2. Copied(t.atlas[k], r.texture[k], r.version[k])
    BY <1>5, <2>1, StillCopied
  <2> QED
    BY <1>4, <1>5, <2>2 DEF Grown
<1>7. t.atlas = [k \in Atlases |-> t.atlas[k]]
  BY <1>4
<1>8. IsRenderer(t)
  BY <1>4, <1>6, <1>7 DEF IsRenderer
<1>9. ASSUME NEW n \in wanted, n \in 1..Len(chars)
      PROVE  Has(t, chars[n])
  <2>1. n \in of(Source(chars[n])) /\ Source(chars[n]) \in Atlases
    BY DEF Source, InMono, Atlases
  <2> HIDE DEF of
  <2> QED
    BY <1>2, <1>4, <1>9, <2>1 DEF Has
<1> QED
  BY <1>4, <1>5, <1>8, <1>9 DEF Loaded, t

-----------------------------------------------------------------------------
(* Textures and the buffer.                                                *)

\* After an upload, however few or many atlases have changed, every texture is
\* its atlas: an atlas only grows, so that the number of its glyphs tells.
LEMMA Uploaded ==
    ASSUME NEW r, IsRenderer(r)
    PROVE  /\ IsRenderer(Reupload(r)) /\ Loaded(r, Reupload(r))
           /\ \A k \in Atlases : Reupload(r).texture[k] = Texture(Reupload(r).atlas[k])
<1> DEFINE t == Reupload(r)
           texture(k) == IF GlyphCount(r.atlas[k]) # r.version[k] THEN Texture(r.atlas[k])
                         ELSE r.texture[k]
<1>1. r = [f \in RendererFields |-> r[f]] /\ r.texture = [k \in Atlases |-> r.texture[k]]
  BY DEF IsRenderer
<1>2. /\ t = [f \in RendererFields |-> t[f]] /\ t.cell = r.cell /\ t.atlas = r.atlas
      /\ t.pane_caches = r.pane_caches /\ t.buffer = r.buffer /\ t.gpu_images = r.gpu_images
      /\ t.version = [k \in Atlases |-> GlyphCount(r.atlas[k])]
      /\ t.texture = [k \in Atlases |-> texture(k)]
  BY <1>1 DEF Reupload, RendererFields
<1> HIDE DEF t
<1>3. ASSUME NEW k \in Atlases
      PROVE  /\ t.texture[k] = Texture(r.atlas[k]) /\ Packed(r.atlas[k])
             /\ Copied(r.atlas[k], t.texture[k], t.version[k])
  <2>1. Packed(r.atlas[k]) /\ Copied(r.atlas[k], r.texture[k], r.version[k])
    BY DEF IsRenderer
  <2>2. texture(k) = Texture(r.atlas[k])
    BY <2>1, CountTells
  <2>3. t.texture[k] = Texture(r.atlas[k])
    BY <1>2, <2>2
  <2>4. t.version[k] = Cardinality(DOMAIN r.atlas[k].glyphs)
    BY <1>2 DEF GlyphCount
  <2>5. Texture(r.atlas[k]).glyphs = r.atlas[k].glyphs
    BY DEF Texture
  <2> QED
    BY <2>1, <2>3, <2>4, <2>5 DEF Copied
<1> HIDE DEF texture
<1>4. IsRenderer(t)
  <2>1. t.version = [k \in Atlases |-> t.version[k]] /\ t.texture = [k \in Atlases |-> t.texture[k]]
    BY <1>2
  <2> QED
    BY <1>2, <1>3, <2>1 DEF IsRenderer
<1>5. \A k \in Atlases : Grown(r.atlas[k], t.atlas[k])
  BY <1>2, <1>3 DEF Grown
<1> QED
  BY <1>2, <1>3, <1>4, <1>5 DEF Loaded, t

\* An instance that names the place of its glyph shows its line.
LEMMA InstanceShows ==
    ASSUME NEW r, IsRenderer(r), NEW inst \in Instances,
           r.texture[inst.from] = Texture(r.atlas[inst.from]),
           inst.line.char \in DOMAIN r.atlas[inst.from].glyphs,
           r.atlas[inst.from].glyphs[inst.line.char] = inst.at
    PROVE  Look(r, inst) = inst.line
<1> DEFINE a == r.atlas[inst.from]
           c == inst.line.char
<1>1. inst # None
  BY FramesAssumption
<1>2. Packed(a)
  BY DEF IsRenderer, Instances
<1>3. r.texture[inst.from].height = a.height /\ r.texture[inst.from].glyphs = a.glyphs
  BY DEF Texture
<1>4. Inside(inst.at, a.height)
  BY <1>2 DEF Packed
<1>5. \A d \in DOMAIN a.glyphs \ {c} : ~Overlap(a.glyphs[d], inst.at)
  BY <1>2 DEF Packed
<1> QED
  BY <1>1, <1>3, <1>4, <1>5 DEF Look

LEMMA LineOnScreen ==
    ASSUME NEW s, IsScreen(s), NEW row \in Lines
    PROVE  CharAt(s, row) \in Char /\ LineAt(s, row) \in Appearances
<1>1. /\ s.lines \in [Lines -> Char] /\ s.history \in Seq(Char) /\ s.offset \in Nat
      /\ s.offset <= Len(s.history) /\ s.mark \in BOOLEAN /\ s.cursor \in Lines
      /\ Rows \in Nat /\ row \in 1..Rows
  BY FramesAssumption DEF IsScreen, Lines
<1>2. CASE row <= s.offset
  <2>1. s.offset - row + 1 \in 1..Len(s.history)
    BY <1>1, <1>2
  <2> QED
    BY <1>1, <1>2, <2>1 DEF CharAt, LineAt, Appearances
<1>3. CASE ~(row <= s.offset)
  <2>1. row - s.offset \in Lines
    BY <1>1, <1>3 DEF Lines
  <2> QED
    BY <1>1, <1>3, <2>1 DEF CharAt, LineAt, Appearances
<1> QED
  BY <1>2, <1>3

\* The buffer is this screen: each row an instance of its line now.
Describes(r, s) ==
    \A row \in Lines : r.buffer[row] = Instance(r, s, row) /\ Has(r, CharAt(s, row))

LEMMA InstanceOfLine ==
    ASSUME NEW r, IsRenderer(r), NEW s, IsScreen(s), NEW row \in Lines, Has(r, CharAt(s, row))
    PROVE  /\ Instance(r, s, row) \in Instances /\ Instance(r, s, row).line = LineAt(s, row)
           /\ Instance(r, s, row).line.char = CharAt(s, row)
           /\ Instance(r, s, row).from = Source(CharAt(s, row))
           /\ Instance(r, s, row).at = r.atlas[Source(CharAt(s, row))].glyphs[CharAt(s, row)]
<1> DEFINE c == CharAt(s, row)
<1>1. Source(c) \in Atlases
  BY DEF Source, Atlases
<1>2. r.atlas[Source(c)].glyphs[c] \in Box
  BY <1>1 DEF Has, IsRenderer, Packed
<1> QED
  BY <1>1, <1>2, LineOnScreen DEF Instance, Instances, LineAt

\* A rebuilt pane: its rows are in the buffer and other panes' caches untouched.
LEMMA Rebuilt ==
    ASSUME NEW r, IsRenderer(r), NEW p \in Pane, NEW s, IsScreen(s)
    PROVE  LET t == FullRebuild(r, p, s) IN
           /\ IsRenderer(t) /\ Describes(t, s) /\ t.gpu_images = r.gpu_images
           /\ \A q \in Pane \ {p} : t.pane_caches[q] = r.pane_caches[q]
<1> DEFINE chars == [row \in Lines |-> CharAt(s, row)]
           u == LoadAll(r, chars, Lines)
           rows == [row \in Lines |-> Instance(u, s, row)]
           t == FullRebuild(r, p, s)
<1>1. Rows \in Nat /\ Lines = 1..Rows
  BY FramesAssumption DEF Lines
<1>2. Len(chars) = Rows /\ \A row \in Lines : chars[row] \in Char /\ chars[row] = CharAt(s, row)
  BY <1>1, LineOnScreen
<1> HIDE DEF chars
<1>3. Loaded(r, u) /\ \A row \in Lines : Has(u, CharAt(s, row))
  <2>1. \A row \in Lines : row \in 1..Len(chars)
    BY <1>1, <1>2
  <2>2. Loaded(r, u) /\ \A row \in Lines : row \in 1..Len(chars) => Has(u, chars[row])
    BY <1>1, <1>2, ListLoads
  <2> QED
    BY <1>2, <2>1, <2>2
<1>4. t = [u EXCEPT !.buffer = rows,
                    !.pane_caches[p] = [instances |-> rows, offset |-> s.offset, mark |-> s.mark]]
  BY DEF FullRebuild, BuildRows, chars
<1> HIDE DEF u, t
<1>5. IsRenderer(u)
  BY <1>3 DEF Loaded
<1>6. rows \in [Lines -> Instances \cup {None}]
  BY <1>3, <1>5, InstanceOfLine
<1> HIDE DEF rows
<1>7. u = [f \in RendererFields |-> u[f]] /\ u.pane_caches = [q \in Pane |-> u.pane_caches[q]]
  BY <1>5 DEF IsRenderer
<1>8. /\ t = [f \in RendererFields |-> t[f]] /\ t.cell = u.cell /\ t.atlas = u.atlas
      /\ t.texture = u.texture /\ t.version = u.version /\ t.gpu_images = u.gpu_images
      /\ t.buffer = rows /\ t.pane_caches = [q \in Pane |-> t.pane_caches[q]]
      /\ \A q \in Pane \ {p} : t.pane_caches[q] = u.pane_caches[q]
  BY <1>4, <1>7 DEF RendererFields
<1>9. IsRenderer(t)
  BY <1>5, <1>6, <1>8 DEF IsRenderer
<1>10. Describes(t, s)
  <2>1. \A row \in Lines : t.buffer[row] = Instance(u, s, row)
    BY <1>8 DEF rows
  <2> QED
    BY <1>3, <1>8, <2>1 DEF Describes, Instance, Has
<1> QED
  BY <1>3, <1>8, <1>9, <1>10 DEF Loaded, t
-----------------------------------------------------------------------------
(* The parts of a frame.                                                   *)

LEMMA BufferIsLeft ==
    ASSUME NEW r, IsRenderer(r)
    PROVE  IsRenderer(Overwritten(r)) /\ Overwritten(r).pane_caches = NoCaches
<1> DEFINE t == Overwritten(r)
<1>1. r = [f \in RendererFields |-> r[f]]
  BY DEF IsRenderer
<1>2. /\ t = [f \in RendererFields |-> t[f]] /\ t.cell = r.cell /\ t.atlas = r.atlas
      /\ t.texture = r.texture /\ t.version = r.version /\ t.gpu_images = r.gpu_images
      /\ t.buffer = Junk /\ t.pane_caches = NoCaches
  BY <1>1 DEF Overwritten, RendererFields
<1> HIDE DEF t
<1>3. Junk \in [Lines -> Instances \cup {None}] /\ NoCaches = [p \in Pane |-> NoCaches[p]]
  BY DEF Junk, NoCaches
<1>4. IsRenderer(t)
  BY <1>2, <1>3 DEF IsRenderer
<1> QED
  BY <1>2, <1>4 DEF t

LEMMA TextIsDrawn ==
    ASSUME NEW r, IsRenderer(r), NEW chars \in Seq(Char)
    PROVE  /\ IsRenderer(RenderText(r, chars))
           /\ r.pane_caches = NoCaches => RenderText(r, chars).pane_caches = NoCaches
           /\ IsRenderer(RenderPreedit(r, chars))
           /\ RenderPreedit(r, chars).pane_caches = r.pane_caches
<1> DEFINE t == LoadAll(r, chars, DOMAIN chars)
<1>1. Len(chars) \in Nat /\ \A n \in DOMAIN chars : n \in 1..Len(chars) => chars[n] \in Char
  OBVIOUS
<1>2. Loaded(r, t)
  BY <1>1, ListLoads
<1> HIDE DEF t
<1>3. IsRenderer(Reupload(t)) /\ Loaded(r, Reupload(t))
  BY <1>2, Uploaded, LoadedTwice DEF Loaded
<1>4. /\ IsRenderer(Overwritten(Reupload(t)))
      /\ Overwritten(Reupload(t)).pane_caches = NoCaches
  BY <1>3, BufferIsLeft
<1>5. RenderText(r, chars) = r \/ RenderText(r, chars) = Overwritten(Reupload(t))
  BY DEF RenderText, t
<1>6. RenderPreedit(r, chars) = r \/ RenderPreedit(r, chars) = Reupload(t)
  BY DEF RenderPreedit, t
<1> QED
  BY <1>3, <1>4, <1>5, <1>6 DEF Loaded

\* The table has a texture for each picture of this screen.
LEMMA PicturesSynced ==
    ASSUME NEW r, IsRenderer(r), NEW s
    PROVE  /\ IsRenderer(SyncImages(r, s))
           /\ SyncImages(r, s).pane_caches = r.pane_caches
           /\ \A i \in Placed(s) : SyncImages(r, s).gpu_images[i] # None
<1> DEFINE table == [i \in ImageIds |-> IF i \notin Placed(s) THEN None
                                        ELSE IF r.gpu_images[i] # None THEN r.gpu_images[i]
                                        ELSE s.images[i]]
           t == [r EXCEPT !.gpu_images = table]
<1>1. r = [f \in RendererFields |-> r[f]]
  BY DEF IsRenderer
<1>2. SyncImages(r, s) = IF Placed(s) = {} THEN r ELSE t
  BY <1>1 DEF SyncImages, RendererFields
<1>3. \A i \in Placed(s) : table[i] # None
  BY DEF Placed
<1>4. table = [i \in ImageIds |-> table[i]]
  OBVIOUS
<1> HIDE DEF table
<1>5. /\ t = [f \in RendererFields |-> t[f]] /\ t.cell = r.cell /\ t.atlas = r.atlas
      /\ t.texture = r.texture /\ t.version = r.version /\ t.gpu_images = table
      /\ t.buffer = r.buffer /\ t.pane_caches = r.pane_caches
  BY <1>1 DEF RendererFields
<1> HIDE DEF t
<1>6. IsRenderer(t)
  BY <1>4, <1>5 DEF IsRenderer
<1> QED
  BY <1>2, <1>3, <1>5, <1>6

\* What the surface shows of a pane is what its terminal holds.
Shows(sight, s) ==
    /\ \A row \in Lines : sight.lines[row] = LineAt(s, row)
    /\ Placed(s) # {} => sight.pictures # {}
    /\ \A shows \in sight.pictures : shows.picture # None

\* One more pane: its screen is seen, and no other's cache or sight is touched.
Added(frame, next, p, s) ==
    /\ IsRenderer(next.r) /\ next.seen = [q \in Pane |-> next.seen[q]]
    /\ Shows(next.seen[p], s)
    /\ \A q \in Pane \ {p} : /\ next.r.pane_caches[q] = frame.r.pane_caches[q]
                             /\ next.seen[q] = frame.seen[q]

\* A pane without a cache is drawn from its screen.
LEMMA PaneIsDrawn ==
    ASSUME NEW frame, IsRenderer(frame.r), NEW p \in Pane, frame.r.pane_caches[p] = None,
           frame.seen = [q \in Pane |-> frame.seen[q]],
           NEW s, IsScreen(s), NEW typed \in Seq(Char)
    PROVE  Added(frame, RenderPane(frame, p, s, typed), p, s)
<1> DEFINE t == SyncImages(frame.r, s)
           u == FullRebuild(t, p, s)
           r == Reupload(u)
           sight == [lines |-> [row \in Lines |-> Look(r, r.buffer[row])],
                     pictures |-> IF Placed(s) = {} THEN {} ELSE RenderPlacements(r, s)]
<1>1. /\ IsRenderer(t) /\ t.pane_caches = frame.r.pane_caches
      /\ \A i \in Placed(s) : t.gpu_images[i] # None
  BY PicturesSynced
<1> HIDE DEF t
<1>2. UpdateInstances(t, p, s) = u
  BY <1>1 DEF UpdateInstances
<1>3. /\ IsRenderer(u) /\ Describes(u, s) /\ u.gpu_images = t.gpu_images
      /\ \A q \in Pane \ {p} : u.pane_caches[q] = t.pane_caches[q]
  BY <1>1, Rebuilt
<1> HIDE DEF u
<1>4. /\ IsRenderer(r) /\ Loaded(u, r) /\ \A k \in Atlases : r.texture[k] = Texture(r.atlas[k])
  BY <1>3, Uploaded
<1>5. r.atlas = u.atlas
  <2>1. u = [f \in RendererFields |-> u[f]]
    BY <1>3 DEF IsRenderer
  <2> QED
    BY <2>1 DEF Reupload, RendererFields
<1> HIDE DEF r
<1>6. ASSUME NEW row \in Lines
      PROVE  Look(r, r.buffer[row]) = LineAt(s, row)
  <2>1. Source(CharAt(s, row)) \in Atlases
    BY DEF Source, Atlases
  <2>2. Has(r, CharAt(s, row))
    BY <1>3, <1>4, Remains DEF Describes
  <2>3. r.buffer[row] = Instance(r, s, row)
    BY <1>3, <1>4, <1>5 DEF Describes, Loaded, Instance
  <2> DEFINE inst == Instance(r, s, row)
  <2>4. /\ inst \in Instances /\ inst.line = LineAt(s, row) /\ inst.line.char = CharAt(s, row)
        /\ inst.from = Source(CharAt(s, row))
        /\ inst.at = r.atlas[Source(CharAt(s, row))].glyphs[CharAt(s, row)]
    BY <1>4, <2>2, InstanceOfLine
  <2> HIDE DEF inst
  <2>5. Look(r, inst) = inst.line
    BY <1>4, <2>1, <2>2, <2>4, InstanceShows DEF Has
  <2> QED
    BY <2>3, <2>4, <2>5 DEF inst
<1>7. Shows(sight, s)
  <2>1. \A i \in Placed(s) : r.gpu_images[i] # None
    BY <1>1, <1>3, <1>4 DEF Loaded
  <2> DEFINE last == CHOOSE i \in Placed(s) : \A j \in Placed(s) : j <= i
             pictures == {[at |-> last, picture |-> r.gpu_images[i]] : i \in Placed(s)}
  <2>2. RenderPlacements(r, s) = pictures
    BY DEF RenderPlacements
  <2> HIDE DEF last
  <2>3. /\ Placed(s) # {} => pictures # {}
        /\ \A shows \in pictures : shows.picture # None
    <3>1. ASSUME NEW shows \in pictures
          PROVE  shows.picture # None
      <4>1. PICK i \in Placed(s) : shows = [at |-> last, picture |-> r.gpu_images[i]]
        OBVIOUS
      <4> QED
        BY <2>1, <4>1
    <3>2. \A i \in Placed(s) : [at |-> last, picture |-> r.gpu_images[i]] \in pictures
      OBVIOUS
    <3> HIDE DEF pictures
    <3> QED
      BY <3>1, <3>2
  <2> HIDE DEF pictures
  <2>4. /\ Placed(s) # {} => sight.pictures # {}
        /\ \A shows \in sight.pictures : shows.picture # None
    BY <2>2, <2>3
  <2> QED
    BY <1>6, <2>4 DEF Shows
<1>8. /\ IsRenderer(RenderPreedit(r, typed))
      /\ RenderPreedit(r, typed).pane_caches = r.pane_caches
  BY <1>4, TextIsDrawn
<1>9. RenderPane(frame, p, s, typed) =
        [r |-> RenderPreedit(r, typed), seen |-> [frame.seen EXCEPT ![p] = sight]]
  BY <1>2 DEF RenderPane, r, t
<1> HIDE DEF sight
<1> QED
  BY <1>1, <1>3, <1>4, <1>7, <1>8, <1>9 DEF Loaded, Added
-----------------------------------------------------------------------------
(* A frame.                                                                *)

LEMMA OrderOfPanes ==
    ASSUME NEW panes, IsOrder(panes)
    PROVE  /\ Len(panes) \in Nat /\ \A n \in 1..Len(panes) : panes[n] \in Pane
           /\ \A n, m \in 1..Len(panes) : n # m => panes[n] # panes[m]
           /\ Range(panes) = {panes[n] : n \in 1..Len(panes)}
<1>1. CASE \E p \in Pane : panes = <<p>>
  <2>1. PICK p \in Pane : panes = <<p>>
    BY <1>1
  <2>2. Len(panes) = 1 /\ DOMAIN panes = 1..1 /\ panes[1] = p
    BY <2>1
  <2> QED
    BY <2>2 DEF Range
<1>2. CASE panes \in [1..2 -> Pane] /\ panes[1] # panes[2]
  <2>1. Len(panes) = 2 /\ DOMAIN panes = 1..2
    BY <1>2
  <2> QED
    BY <1>2, <2>1 DEF Range
<1> QED
  BY <1>1, <1>2 DEF IsOrder

\* A frame so far: n panes drawn, the others without a cache.
Upto(n, frame) ==
    /\ IsRenderer(frame.r) /\ frame.seen = [p \in Pane |-> frame.seen[p]]
    /\ \A m \in 1..Len(shown) :
         IF m <= n THEN Shows(frame.seen[shown[m]], screen[shown[m]])
         ELSE frame.r.pane_caches[shown[m]] = None

LEMMA NextPane ==
    ASSUME IsOrder(shown), \A p \in Pane : IsScreen(screen[p]),
           NEW n \in 1..Len(shown), NEW frame, Upto(n - 1, frame), NEW typed \in Seq(Char)
    PROVE  Upto(n, RenderPane(frame, shown[n], screen[shown[n]], typed))
<1> DEFINE p == shown[n]
           next == RenderPane(frame, p, screen[p], typed)
<1>1. p \in Pane /\ IsScreen(screen[p]) /\ Len(shown) \in Nat
  BY OrderOfPanes
<1>2. IsRenderer(frame.r) /\ frame.seen = [q \in Pane |-> frame.seen[q]]
  BY DEF Upto
<1>3. frame.r.pane_caches[p] = None
  <2>1. ~(n <= n - 1)
    BY <1>1
  <2> QED
    BY <2>1 DEF Upto
<1> HIDE DEF p
<1>4. Added(frame, next, p, screen[p])
  BY <1>1, <1>2, <1>3, PaneIsDrawn
<1> HIDE DEF next
<1>5. ASSUME NEW m \in 1..Len(shown)
      PROVE  IF m <= n THEN Shows(next.seen[shown[m]], screen[shown[m]])
             ELSE next.r.pane_caches[shown[m]] = None
  <2>1. CASE m = n
    BY <1>1, <1>4, <2>1 DEF p, Added
  <2>2. CASE m # n
    <3>1. shown[m] \in Pane \ {p}
      BY <2>2, OrderOfPanes DEF p
    <3>2. m <= n <=> m <= n - 1
      BY <1>1, <2>2
    <3>3. IF m <= n - 1 THEN Shows(frame.seen[shown[m]], screen[shown[m]])
          ELSE frame.r.pane_caches[shown[m]] = None
      BY DEF Upto
    <3>4. /\ next.r.pane_caches[shown[m]] = frame.r.pane_caches[shown[m]]
          /\ next.seen[shown[m]] = frame.seen[shown[m]]
      BY <1>4, <3>1 DEF Added
    <3> QED
      BY <3>2, <3>3, <3>4
  <2> QED
    BY <2>1, <2>2
<1> QED
  BY <1>4, <1>5 DEF Added, Upto, next, p

AllShown(frame) ==
    /\ IsRenderer(frame.r) /\ frame.seen = [p \in Pane |-> frame.seen[p]]
    /\ \A m \in 1..Len(shown) : Shows(frame.seen[shown[m]], screen[shown[m]])

\* Whatever text is drawn before, in and over the panes, a frame shows each
\* pane as it is: the line under the bars has emptied the caches before.
LEMMA FrameIsDrawn ==
    ASSUME IsOrder(shown), \A p \in Pane : IsScreen(screen[p]), IsRenderer(renderer),
           NEW before \in Seq(Char), NEW typed \in Seq(Char), NEW after \in Seq(Char)
    PROVE  AllShown(RenderFrame(before, typed, after))
<1> DEFINE size == Len(shown)
           start == RenderText(DrawSeparator(renderer), before)
           next(g, n) == IF n = 0 THEN [r |-> start, seen |-> [p \in Pane |-> None]]
                         ELSE RenderPane(g[n - 1], shown[n], screen[shown[n]],
                                         IF n = 1 THEN typed ELSE <<>>)
           built(g, m) == g = [n \in 0..m |-> next(g, n)]
           some == {m \in Nat : \E g : built(g, m)}
           upTo == CHOOSE g : built(g, size)
           good == {m \in Nat : m <= size => Upto(m, upTo[m])}
           panes == upTo[size]
           bordered == IF size > 1 THEN DrawSeparator(panes.r) ELSE panes.r
           frame == RenderFrame(before, typed, after)
<1>1. frame = [panes EXCEPT !.r = RenderText(bordered, after)]
  BY Zenon DEF RenderFrame
<1>2. size \in Nat
  BY OrderOfPanes
<1>3. IsRenderer(start) /\ start.pane_caches = NoCaches
  <2> DEFINE r == DrawSeparator(renderer)
  <2>1. IsRenderer(r) /\ r.pane_caches = NoCaches
    BY BufferIsLeft DEF DrawSeparator
  <2> HIDE DEF r
  <2>2. /\ IsRenderer(RenderText(r, before))
        /\ RenderText(r, before).pane_caches = NoCaches
    BY <2>1, TextIsDrawn
  <2> QED
    BY <2>2 DEF r
<1> HIDE DEF next, size, start
<1>4. 0 \in some
  <2> DEFINE g == [n \in 0..0 |-> [r |-> start, seen |-> [p \in Pane |-> None]]]
  <2>1. \A n \in 0..0 : next(g, n) = [r |-> start, seen |-> [p \in Pane |-> None]]
    BY DEF next
  <2>2. built(g, 0)
    BY <2>1
  <2> QED
    BY <2>2
<1>5. ASSUME NEW m \in Nat, m \in some
      PROVE  m + 1 \in some
  <2>1. PICK g : built(g, m)
    BY <1>5
  <2>2. \A n \in 0..m : g[n] = next(g, n)
    BY <2>1
  <2> DEFINE h == [n \in 0..(m + 1) |-> IF n = m + 1 THEN next(g, m + 1) ELSE g[n]]
  <2>3. ASSUME NEW n \in 0..(m + 1)
        PROVE  h[n] = next(h, n)
    <3>1. CASE n = 0
      <4>1. h[0] = g[0] /\ g[0] = next(g, 0)
        BY <2>2, <3>1
      <4> QED
        BY <3>1, <4>1 DEF next
    <3>2. CASE n # 0
      <4>1. n - 1 \in 0..m /\ h[n - 1] = g[n - 1]
        BY <3>2
      <4> HIDE DEF h
      <4>2. next(h, n) = next(g, n)
        BY <3>2, <4>1 DEF next
      <4>3. n # m + 1 => n \in 0..m /\ g[n] = next(g, n)
        BY <2>2
      <4> QED
        BY <4>2, <4>3 DEF h
    <3> QED
      BY <3>1, <3>2
  <2>4. h = [n \in 0..(m + 1) |-> h[n]]
    OBVIOUS
  <2>5. built(h, m + 1)
    BY <2>3, <2>4
  <2> HIDE DEF built, h
  <2> QED
    BY <2>5
<1>6. built(upTo, size)
  <2>1. size \in some
    <3> HIDE DEF some
    <3> QED
      BY <1>2, <1>4, <1>5, Climb
  <2>2. \E g : built(g, size)
    BY <2>1
  <2> HIDE DEF built
  <2> QED
    BY <2>2
<1>7. \A n \in 0..size : upTo[n] = next(upTo, n)
  <2> HIDE DEF upTo
  <2> QED
    BY <1>6
<1> HIDE DEF upTo
<1>8. 0 \in good
  <2>1. upTo[0] = [r |-> start, seen |-> [p \in Pane |-> None]]
    <3>1. upTo[0] = next(upTo, 0)
      BY <1>2, <1>7
    <3> QED
      BY <3>1 DEF next
  <2>2. \A m \in 1..Len(shown) : ~(m <= 0) /\ start.pane_caches[shown[m]] = None
    BY <1>2, <1>3, OrderOfPanes DEF size, NoCaches
  <2>3. Upto(0, upTo[0])
    BY <1>3, <2>1, <2>2 DEF Upto
  <2> QED
    BY <2>3
<1>9. ASSUME NEW m \in Nat, m \in good
      PROVE  m + 1 \in good
  <2> SUFFICES ASSUME m + 1 <= size
               PROVE  Upto(m + 1, upTo[m + 1])
    OBVIOUS
  <2>1. /\ m + 1 \in 1..size /\ m + 1 \in 0..size /\ (m + 1) - 1 = m /\ m + 1 # 0 /\ m <= size
    BY <1>2
  <2>2. Upto((m + 1) - 1, upTo[m])
    BY <1>9, <2>1
  <2> DEFINE text == IF m + 1 = 1 THEN typed ELSE <<>>
  <2>3. upTo[m + 1] = RenderPane(upTo[m], shown[m + 1], screen[shown[m + 1]], text)
    BY <1>7, <2>1 DEF next
  <2>4. text \in Seq(Char)
    OBVIOUS
  <2> HIDE DEF text
  <2>5. m + 1 \in 1..Len(shown)
    BY <2>1 DEF size
  <2> QED
    BY <2>2, <2>3, <2>4, <2>5, NextPane
<1> HIDE DEF good
<1>10. size \in good
  BY <1>2, <1>8, <1>9, Climb
<1>11. Upto(size, panes)
  BY <1>2, <1>10 DEF good
<1>12. \E r, see : panes = [r |-> r, seen |-> see]
  <2>1. panes = next(upTo, size)
    BY <1>2, <1>7
  <2> QED
    BY <2>1 DEF next, RenderPane
<1> HIDE DEF panes
<1>13. IsRenderer(bordered)
  BY <1>11, BufferIsLeft DEF Upto, DrawSeparator
<1> HIDE DEF bordered
<1>14. IsRenderer(RenderText(bordered, after))
  BY <1>13, TextIsDrawn
<1> HIDE DEF frame
<1>15. frame.r = RenderText(bordered, after) /\ frame.seen = panes.seen
  BY <1>1, <1>12
<1>16. \A m \in 1..Len(shown) : Shows(panes.seen[shown[m]], screen[shown[m]])
  <2> TAKE m \in 1..Len(shown)
  <2>1. m <= size
    BY <1>2 DEF size
  <2> QED
    BY <1>11, <2>1 DEF Upto
<1>17. panes.seen = [p \in Pane |-> panes.seen[p]]
  BY <1>11 DEF Upto
<1> QED
  BY <1>14, <1>15, <1>16, <1>17 DEF frame, AllShown
-----------------------------------------------------------------------------
(* Steps.                                                                  *)

LEMMA NewAtlas ==
    Packed(EmptyAtlas) /\ DOMAIN EmptyAtlas.glyphs = {}
<1>1. /\ EmptyAtlas.height = AtlasHeight /\ EmptyAtlas.glyphs = <<>> /\ EmptyAtlas.pack_x = 1
      /\ EmptyAtlas.pack_y = 1 /\ EmptyAtlas.row = 0
  BY DEF EmptyAtlas
<1>2. DOMAIN EmptyAtlas.glyphs = {} /\ EmptyAtlas.glyphs \in [{} -> Box]
  BY <1>1
<1>3. IsFiniteSet({})
  BY FS_EmptySet
<1> QED
  BY <1>1, <1>2, <1>3, FramesAssumption DEF Packed

\* A renderer at any font size, with any buffer and any pictures.
LEMMA NewRendererIsSound ==
    ASSUME NEW cell \in CellWidths,
           NEW buffer \in [Lines -> Instances \cup {None}],
           NEW pictures, pictures = [i \in ImageIds |-> pictures[i]],
           NEW r, r = [NewRenderer(cell) EXCEPT !.buffer = buffer, !.gpu_images = pictures]
    PROVE  IsRenderer(r)
<1> DEFINE mono == GetGlyph(EmptyAtlas, Blank, cell, 1)
           atlas == [k \in Atlases |-> IF k = "mono" THEN mono ELSE EmptyAtlas]
           texture == [k \in Atlases |-> Texture(IF k = "mono" THEN mono ELSE EmptyAtlas)]
           version == [k \in Atlases |-> IF k = "mono" THEN 1 ELSE 0]
<1>1. /\ r = [f \in RendererFields |-> r[f]] /\ r.cell = cell /\ r.atlas = atlas
      /\ r.texture = texture /\ r.version = version /\ r.pane_caches = NoCaches
      /\ r.buffer = buffer /\ r.gpu_images = pictures
  BY DEF NewRenderer, RendererFields
<1>2. Blank \in Char /\ cell \in Nat /\ cell + 2 <= AtlasWidth
  <2>1. cell \in Nat /\ 2 * cell + 2 <= AtlasWidth /\ AtlasWidth \in Nat
    BY FramesAssumption
  <2> QED
    BY <2>1, FramesAssumption
<1>3. Packed(mono) /\ DOMAIN mono.glyphs = {Blank}
  <2>1. mono = Pack(EmptyAtlas, Blank, cell, 1)
    BY NewAtlas DEF GetGlyph
  <2>2. DOMAIN Pack(EmptyAtlas, Blank, cell, 1).glyphs = {} \cup {Blank}
    BY <1>2, NewAtlas, PackedAgain
  <2>3. Packed(Pack(EmptyAtlas, Blank, cell, 1))
    BY <1>2, NewAtlas, PackedAgain
  <2> QED
    BY <2>1, <2>2, <2>3
<1> HIDE DEF mono
<1>4. Copied(mono, Texture(mono), 1)
  <2>1. Cardinality({Blank}) = 1
    BY FS_Singleton
  <2> QED
    BY <1>3, <2>1 DEF Copied, Texture
<1>5. Copied(EmptyAtlas, Texture(EmptyAtlas), 0)
  <2>1. Cardinality({}) = 0
    BY FS_EmptySet
  <2> QED
    BY <2>1, NewAtlas DEF Copied, Texture
<1>6. \A k \in Atlases : Packed(atlas[k]) /\ Copied(atlas[k], texture[k], version[k])
  BY <1>3, <1>4, <1>5, NewAtlas
<1>7. /\ atlas = [k \in Atlases |-> atlas[k]] /\ texture = [k \in Atlases |-> texture[k]]
      /\ version = [k \in Atlases |-> version[k]]
  OBVIOUS
<1> HIDE DEF atlas, texture, version
<1>8. NoCaches = [p \in Pane |-> NoCaches[p]]
  BY DEF NoCaches
<1>9. \A k \in Atlases : Packed(r.atlas[k]) /\ Copied(r.atlas[k], r.texture[k], r.version[k])
  BY <1>1, <1>6
<1>10. /\ r.atlas = [k \in Atlases |-> r.atlas[k]] /\ r.texture = [k \in Atlases |-> r.texture[k]]
       /\ r.version = [k \in Atlases |-> r.version[k]]
       /\ r.pane_caches = [p \in Pane |-> r.pane_caches[p]]
       /\ r.gpu_images = [i \in ImageIds |-> r.gpu_images[i]]
  BY <1>1, <1>7, <1>8
<1>11. r = [f \in RendererFields |-> r[f]] /\ r.cell \in CellWidths
       /\ r.buffer \in [Lines -> Instances \cup {None}]
  BY <1>1
<1> QED
  BY <1>9, <1>10, <1>11 DEF IsRenderer

LEMMA InitFresh == FramesInit => IInv
<1> SUFFICES ASSUME FramesInit
             PROVE  IInv
  OBVIOUS
<1>1. IsScreen(NewScreen)
  BY FramesAssumption DEF IsScreen, NewScreen, Lines
<1>2. IsOrder(shown)
  BY DEF FramesInit, IsOrder
<1>3. PICK cell \in CellWidths : renderer = NewRenderer(cell)
  BY DEF FramesInit
<1>4. IsRenderer(renderer)
  <2> DEFINE pictures == [i \in ImageIds |-> None]
  <2>1. renderer = [NewRenderer(cell) EXCEPT !.buffer = Junk, !.gpu_images = pictures]
    <3>1. /\ renderer = [f \in RendererFields |-> renderer[f]]
          /\ renderer.buffer = Junk /\ renderer.gpu_images = pictures
      BY <1>3 DEF NewRenderer, RendererFields
    <3> HIDE DEF pictures
    <3>2. renderer = [renderer EXCEPT !.buffer = Junk, !.gpu_images = pictures]
      BY <3>1
    <3> QED
      BY <1>3, <3>2
  <2>2. Junk \in [Lines -> Instances \cup {None}]
    BY DEF Junk
  <2>3. pictures = [i \in ImageIds |-> pictures[i]]
    OBVIOUS
  <2> HIDE DEF pictures
  <2> QED
    BY <2>1, <2>2, <2>3, NewRendererIsSound
<1>5. MaxEdits \in Nat
  BY FramesAssumption
<1>6. /\ screen = [p \in Pane |-> NewScreen] /\ seen = [p \in Pane |-> None]
      /\ drawn = FALSE /\ edits = 0
  BY DEF FramesInit
<1>7. /\ screen = [p \in Pane |-> screen[p]] /\ \A p \in Pane : IsScreen(screen[p])
      /\ seen = [p \in Pane |-> seen[p]]
  BY <1>1, <1>6
<1>8. FramesAreFresh /\ edits \in 0..MaxEdits /\ drawn \in BOOLEAN
  <2>1. FramesAreFresh /\ drawn \in BOOLEAN
    BY <1>6, Zenon DEF FramesAreFresh
  <2>2. edits \in 0..MaxEdits
    BY <1>5, <1>6
  <2> QED
    BY <2>1, <2>2
<1> QED
  BY <1>2, <1>4, <1>7, <1>8 DEF IInv

\* A change to a pane that leaves its screen one.
LEMMA ScreenChanges ==
    ASSUME IInv, NEW p \in Pane, NEW s, IsScreen(s), EditScreen(p, s)
    PROVE  IInv'
<1>1. /\ screen' = [screen EXCEPT ![p] = s] /\ drawn' = FALSE /\ edits' = edits + 1
      /\ edits < MaxEdits /\ UNCHANGED <<shown, renderer, seen>>
  BY DEF EditScreen, Edit
<1>2. /\ screen = [q \in Pane |-> screen[q]] /\ \A q \in Pane : IsScreen(screen[q])
      /\ edits \in 0..MaxEdits /\ MaxEdits \in Nat
  BY FramesAssumption DEF IInv
<1>3. /\ screen' = [q \in Pane |-> screen'[q]] /\ \A q \in Pane : IsScreen(screen'[q])
      /\ edits' \in 0..MaxEdits
  BY <1>1, <1>2
<1>4. IsOrder(shown') /\ IsRenderer(renderer') /\ seen' = [q \in Pane |-> seen'[q]]
  BY <1>1 DEF IInv
<1> QED
  BY <1>1, <1>3, <1>4 DEF IInv, FramesAreFresh

ScreenFields == {"lines", "dirty", "cursor", "mark", "history", "offset", "images"}

LEMMA FieldsOfScreen ==
    ASSUME NEW s
    PROVE  IsScreen(s) <=>
             /\ s = [f \in ScreenFields |-> s[f]]
             /\ s.lines \in [Lines -> Char] /\ s.dirty \in SUBSET Lines /\ s.cursor \in Lines
             /\ s.mark \in BOOLEAN /\ s.history \in Seq(Char) /\ s.offset \in Nat
             /\ s.images \in [ImageIds -> Picture \cup {None}]
             /\ s.offset <= Len(s.history) /\ Len(s.history) <= MaxHistory
BY DEF IsScreen, ScreenFields

\* Lines of scrollback beyond the bound go at the far end: none that can be looked at
\* is lost while there is room, and no more are lost than came.
LEMMA HistoryGrows ==
    ASSUME NEW h \in Seq(Char), Len(h) <= MaxHistory, NEW c \in Char
    PROVE  LET kept == SubSeq(<<c>> \o h, 1,
                              IF Len(h) < MaxHistory THEN Len(h) + 1 ELSE MaxHistory)
           IN  kept \in Seq(Char) /\ Len(kept) >= Len(h) /\ Len(kept) <= MaxHistory
<1> DEFINE all == <<c>> \o h
           n == IF Len(h) < MaxHistory THEN Len(h) + 1 ELSE MaxHistory
<1>1. /\ Len(h) \in Nat /\ MaxHistory \in Nat /\ all \in Seq(Char) /\ Len(all) = Len(h) + 1
  BY FramesAssumption
<1>2. n \in Nat /\ n <= Len(all) /\ n >= Len(h) /\ n <= MaxHistory
  BY <1>1
<1> HIDE DEF all, n
<1>3. SubSeq(all, 1, n) \in Seq(Char) /\ Len(SubSeq(all, 1, n)) = n
  BY <1>1, <1>2
<1> QED
  BY <1>1, <1>2, <1>3 DEF all, n

LEMMA ScreenSteps ==
    ASSUME IInv, NEW p \in Pane,
           \/ \E row \in Lines : MoveCursor(p, row) \/ \E c \in Char : PutLine(p, row, c)
           \/ ScrollUp(p) \/ SetScrollOffset(p) \/ Highlight(p)
           \/ \E i \in ImageIds, picture \in Picture : PlaceImage(p, i, picture)
    PROVE  IInv'
<1> DEFINE s == screen[p]
<1>1. IsScreen(s)
  BY DEF IInv
<1>2. /\ s = [f \in ScreenFields |-> s[f]]
      /\ s.lines \in [Lines -> Char] /\ s.dirty \in SUBSET Lines /\ s.cursor \in Lines
      /\ s.mark \in BOOLEAN /\ s.history \in Seq(Char) /\ s.offset \in Nat
      /\ s.images \in [ImageIds -> Picture \cup {None}]
      /\ s.offset <= Len(s.history) /\ Len(s.history) <= MaxHistory
  BY <1>1, FieldsOfScreen
<1>3. ASSUME NEW row \in Lines, MoveCursor(p, row)
      PROVE  IInv'
  <2> DEFINE t == [s EXCEPT !.cursor = row]
  <2>1. /\ t = [f \in ScreenFields |-> t[f]] /\ t.lines = s.lines /\ t.dirty = s.dirty
        /\ t.cursor = row /\ t.mark = s.mark /\ t.history = s.history /\ t.offset = s.offset
        /\ t.images = s.images
    BY <1>2 DEF ScreenFields
  <2>2. EditScreen(p, t)
    BY <1>3 DEF MoveCursor
  <2> HIDE DEF t, s
  <2>3. IsScreen(t)
    BY <1>2, <2>1, FieldsOfScreen
  <2> QED
    BY <2>2, <2>3, ScreenChanges
<1>4. ASSUME NEW row \in Lines, NEW c \in Char, PutLine(p, row, c)
      PROVE  IInv'
  <2> DEFINE t == [s EXCEPT !.lines[row] = c, !.dirty = @ \cup {row}]
  <2>1. /\ t = [f \in ScreenFields |-> t[f]] /\ t.lines = [s.lines EXCEPT ![row] = c]
        /\ t.dirty = s.dirty \cup {row} /\ t.cursor = s.cursor /\ t.mark = s.mark
        /\ t.history = s.history /\ t.offset = s.offset /\ t.images = s.images
    BY <1>2 DEF ScreenFields
  <2>2. EditScreen(p, t)
    BY <1>4 DEF PutLine
  <2> HIDE DEF t, s
  <2>3. [s.lines EXCEPT ![row] = c] \in [Lines -> Char] /\ s.dirty \cup {row} \in SUBSET Lines
    BY <1>2
  <2>4. IsScreen(t)
    BY <1>2, <2>1, <2>3, FieldsOfScreen
  <2> QED
    BY <2>2, <2>4, ScreenChanges
<1>5. ASSUME ScrollUp(p)
      PROVE  IInv'
  <2> DEFINE kept == SubSeq(<<s.lines[1]>> \o s.history, 1,
                            IF Len(s.history) < MaxHistory THEN Len(s.history) + 1 ELSE MaxHistory)
             up == [row \in Lines |-> IF row < Rows THEN s.lines[row + 1] ELSE Blank]
             t == [s EXCEPT !.history = kept, !.lines = up, !.dirty = Lines]
  <2>1. 1 \in Lines /\ Rows \in Nat /\ Blank \in Char
    BY FramesAssumption DEF Lines
  <2>2. kept \in Seq(Char) /\ Len(kept) >= Len(s.history) /\ Len(kept) <= MaxHistory
    <3>1. s.lines[1] \in Char
      BY <1>2, <2>1
    <3> HIDE DEF s
    <3> QED
      BY <1>2, <3>1, HistoryGrows
  <2>3. up \in [Lines -> Char]
    <3>1. \A row \in Lines : row < Rows => row + 1 \in Lines
      BY <2>1 DEF Lines
    <3> HIDE DEF s
    <3> QED
      BY <1>2, <2>1, <3>1
  <2>4. EditScreen(p, t)
    BY <1>5 DEF ScrollUp
  <2> HIDE DEF kept, up
  <2>5. /\ t = [f \in ScreenFields |-> t[f]] /\ t.lines = up /\ t.dirty = Lines
        /\ t.cursor = s.cursor /\ t.mark = s.mark /\ t.history = kept
        /\ t.offset = s.offset /\ t.images = s.images
    BY <1>2 DEF ScreenFields
  <2> HIDE DEF t, s
  <2>6. Len(kept) \in Nat /\ Len(s.history) \in Nat
    BY <1>2, <2>2
  <2>7. s.offset <= Len(kept)
    BY <1>2, <2>2, <2>6
  <2>8. IsScreen(t)
    BY <1>2, <2>2, <2>3, <2>5, <2>7, FieldsOfScreen
  <2> QED
    BY <2>4, <2>8, ScreenChanges
<1>6. ASSUME SetScrollOffset(p)
      PROVE  IInv'
  <2>1. PICK n \in 0..Len(s.history) : EditScreen(p, [s EXCEPT !.offset = n])
    BY <1>6 DEF SetScrollOffset
  <2> DEFINE t == [s EXCEPT !.offset = n]
  <2>2. /\ t = [f \in ScreenFields |-> t[f]] /\ t.lines = s.lines /\ t.dirty = s.dirty
        /\ t.cursor = s.cursor /\ t.mark = s.mark /\ t.history = s.history /\ t.offset = n
        /\ t.images = s.images
    BY <1>2 DEF ScreenFields
  <2> HIDE DEF t, s
  <2>3. n \in Nat /\ n <= Len(s.history)
    BY <1>2
  <2>4. IsScreen(t)
    BY <1>2, <2>2, <2>3, FieldsOfScreen
  <2> QED
    BY <2>1, <2>4, ScreenChanges DEF t
<1>7. ASSUME Highlight(p)
      PROVE  IInv'
  <2> DEFINE t == [s EXCEPT !.mark = ~@]
  <2>1. /\ t = [f \in ScreenFields |-> t[f]] /\ t.lines = s.lines /\ t.dirty = s.dirty
        /\ t.cursor = s.cursor /\ t.mark = ~s.mark /\ t.history = s.history
        /\ t.offset = s.offset /\ t.images = s.images
    BY <1>2, Zenon DEF ScreenFields
  <2>2. EditScreen(p, t)
    BY <1>7 DEF Highlight
  <2>3. t.mark = (~s.mark) /\ (~s.mark) \in BOOLEAN
    BY <2>1
  <2> HIDE DEF t, s
  <2>4. t.mark \in BOOLEAN
    BY <2>3, Zenon
  <2>5. IsScreen(t)
    BY <1>2, <2>1, <2>4, FieldsOfScreen
  <2> QED
    BY <2>2, <2>5, ScreenChanges
<1>8. ASSUME NEW i \in ImageIds, NEW picture \in Picture, PlaceImage(p, i, picture)
      PROVE  IInv'
  <2> DEFINE t == [s EXCEPT !.images[i] = picture]
  <2>1. /\ t = [f \in ScreenFields |-> t[f]] /\ t.lines = s.lines /\ t.dirty = s.dirty
        /\ t.cursor = s.cursor /\ t.mark = s.mark /\ t.history = s.history
        /\ t.offset = s.offset /\ t.images = [s.images EXCEPT ![i] = picture]
    BY <1>2 DEF ScreenFields
  <2>2. EditScreen(p, t)
    BY <1>8 DEF PlaceImage
  <2> HIDE DEF t, s
  <2>3. [s.images EXCEPT ![i] = picture] \in [ImageIds -> Picture \cup {None}]
    BY <1>2
  <2>4. IsScreen(t)
    BY <1>2, <2>1, <2>3, FieldsOfScreen
  <2> QED
    BY <2>2, <2>4, ScreenChanges
<1> QED
  BY <1>3, <1>4, <1>5, <1>6, <1>7, <1>8
LEMMA PanesStep == IInv /\ ShowPanes => IInv'
<1> SUFFICES ASSUME IInv, ShowPanes
             PROVE  IInv'
  OBVIOUS
<1>1. /\ shown' \in {order \in [1..2 -> Pane] : order[1] # order[2]} \cup {<<p>> : p \in Pane}
      /\ UNCHANGED <<screen, renderer, seen>> /\ drawn' = FALSE
      /\ edits' = edits + 1 /\ edits < MaxEdits
  BY DEF ShowPanes, Edit
<1>2. IsOrder(shown')
  BY <1>1 DEF IsOrder
<1>3. edits' \in 0..MaxEdits
  BY <1>1, FramesAssumption DEF IInv
<1>4. /\ screen' = [p \in Pane |-> screen'[p]] /\ \A p \in Pane : IsScreen(screen'[p])
      /\ IsRenderer(renderer') /\ seen' = [p \in Pane |-> seen'[p]]
  BY <1>1 DEF IInv
<1> QED
  BY <1>1, <1>2, <1>3, <1>4 DEF IInv, FramesAreFresh

\* A step that leaves the panes alone and changes the renderer.
LEMMA RendererChanges ==
    ASSUME IInv, Edit, UNCHANGED <<screen, shown>>, IsRenderer(renderer')
    PROVE  IInv'
<1>1. /\ UNCHANGED <<screen, shown, seen>> /\ drawn' = FALSE
      /\ edits' = edits + 1 /\ edits < MaxEdits
  BY DEF Edit
<1>2. edits' \in 0..MaxEdits
  BY <1>1, FramesAssumption DEF IInv
<1>3. /\ screen' = [p \in Pane |-> screen'[p]] /\ \A p \in Pane : IsScreen(screen'[p])
      /\ IsOrder(shown') /\ seen' = [p \in Pane |-> seen'[p]]
  BY <1>1 DEF IInv
<1> QED
  BY <1>1, <1>2, <1>3 DEF IInv, FramesAreFresh

LEMMA FontStep ==
    ASSUME IInv, NEW cell \in CellWidths, SetFontSize(cell)
    PROVE  IInv'
<1>1. /\ renderer' = [NewRenderer(cell) EXCEPT !.buffer = renderer.buffer,
                                               !.gpu_images = renderer.gpu_images]
      /\ Edit /\ UNCHANGED <<screen, shown>>
  BY DEF SetFontSize
<1>2. /\ renderer.buffer \in [Lines -> Instances \cup {None}]
      /\ renderer.gpu_images = [i \in ImageIds |-> renderer.gpu_images[i]]
  BY DEF IInv, IsRenderer
<1>3. IsRenderer(renderer')
  BY <1>1, <1>2, NewRendererIsSound
<1> QED
  BY <1>1, <1>3, RendererChanges

LEMMA ClearStep == IInv /\ ClearCaches => IInv'
<1> SUFFICES ASSUME IInv, ClearCaches
             PROVE  IInv'
  OBVIOUS
<1>1. /\ renderer' = [renderer EXCEPT !.pane_caches = NoCaches]
      /\ Edit /\ UNCHANGED <<screen, shown>>
  BY DEF ClearCaches
<1>2. IsRenderer(renderer) /\ renderer = [f \in RendererFields |-> renderer[f]]
  BY DEF IInv, IsRenderer
<1> DEFINE r == [renderer EXCEPT !.pane_caches = NoCaches]
<1>3. /\ r = [f \in RendererFields |-> r[f]] /\ r.cell = renderer.cell
      /\ r.atlas = renderer.atlas /\ r.texture = renderer.texture
      /\ r.version = renderer.version /\ r.gpu_images = renderer.gpu_images
      /\ r.buffer = renderer.buffer /\ r.pane_caches = NoCaches
  BY <1>2 DEF RendererFields
<1> HIDE DEF r
<1>4. NoCaches = [p \in Pane |-> NoCaches[p]]
  BY DEF NoCaches
<1>5. IsRenderer(r)
  BY <1>2, <1>3, <1>4 DEF IsRenderer
<1>6. IsRenderer(renderer')
  BY <1>1, <1>5 DEF r
<1> QED
  BY <1>1, <1>6, RendererChanges

\* Text in a frame is a list of characters.
LEMMA TextsAreLists ==
    ASSUME NEW text \in Texts
    PROVE  text[1] \in Seq(Char) /\ text[2] \in Seq(Char) /\ text[3] \in Seq(Char)
<1>1. CASE text = << <<>>, <<>>, <<>> >>
  BY <1>1
<1>2. CASE \E k \in 1..3, c \in Char \ {Blank} : text = [i \in 1..3 |-> IF i = k THEN <<c>> ELSE <<>>]
  <2>1. PICK k \in 1..3, c \in Char : text = [i \in 1..3 |-> IF i = k THEN <<c>> ELSE <<>>]
    BY <1>2
  <2>2. <<c>> \in Seq(Char) /\ <<>> \in Seq(Char)
    OBVIOUS
  <2> QED
    BY <2>1, <2>2
<1> QED
  BY <1>1, <1>2 DEF Texts

\* What is dirty is not what is seen.
LEMMA CleanedLooksTheSame ==
    ASSUME NEW s, IsScreen(s)
    PROVE  /\ IsScreen([s EXCEPT !.dirty = {}])
           /\ \A sight : Shows(sight, s) => Shows(sight, [s EXCEPT !.dirty = {}])
<1> DEFINE t == [s EXCEPT !.dirty = {}]
<1>1. /\ s = [f \in ScreenFields |-> s[f]]
      /\ s.lines \in [Lines -> Char] /\ s.dirty \in SUBSET Lines /\ s.cursor \in Lines
      /\ s.mark \in BOOLEAN /\ s.history \in Seq(Char) /\ s.offset \in Nat
      /\ s.images \in [ImageIds -> Picture \cup {None}]
      /\ s.offset <= Len(s.history) /\ Len(s.history) <= MaxHistory
  BY FieldsOfScreen
<1>2. /\ t = [f \in ScreenFields |-> t[f]] /\ t.lines = s.lines /\ t.dirty = {}
      /\ t.cursor = s.cursor /\ t.mark = s.mark /\ t.history = s.history
      /\ t.offset = s.offset /\ t.images = s.images
  BY <1>1 DEF ScreenFields
<1> HIDE DEF t
<1>3. IsScreen(t)
  BY <1>1, <1>2, FieldsOfScreen
<1>4. Placed(t) = Placed(s) /\ \A row \in Lines : LineAt(t, row) = LineAt(s, row)
  BY <1>2 DEF Placed, LineAt, CharAt
<1>5. \A sight : Shows(sight, s) => Shows(sight, t)
  BY <1>4 DEF Shows
<1> QED
  BY <1>3, <1>5 DEF t

LEMMA RedrawStep == IInv /\ Redraw => IInv'
<1> SUFFICES ASSUME IInv, Redraw
             PROVE  IInv'
  OBVIOUS
<1>1. /\ IsOrder(shown) /\ \A p \in Pane : IsScreen(screen[p])
      /\ IsRenderer(renderer) /\ edits \in 0..MaxEdits
  BY DEF IInv
<1>2. PICK text \in Texts : /\ renderer' = RenderFrame(text[1], text[2], text[3]).r
                            /\ seen' = RenderFrame(text[1], text[2], text[3]).seen
  BY DEF Redraw
<1>3. /\ screen' = [p \in Pane |-> IF p \in Range(shown) THEN [screen[p] EXCEPT !.dirty = {}]
                                   ELSE screen[p]]
      /\ drawn' = TRUE /\ shown' = shown /\ edits' = edits
  BY DEF Redraw
<1>4. text[1] \in Seq(Char) /\ text[2] \in Seq(Char) /\ text[3] \in Seq(Char)
  BY TextsAreLists
<1>5. /\ IsRenderer(renderer') /\ seen' = [p \in Pane |-> seen'[p]]
      /\ \A m \in 1..Len(shown) : Shows(seen'[shown[m]], screen[shown[m]])
  <2> DEFINE frame == RenderFrame(text[1], text[2], text[3])
  <2>1. AllShown(frame)
    BY <1>1, <1>4, FrameIsDrawn
  <2>2. renderer' = frame.r /\ seen' = frame.seen
    BY <1>2
  <2> HIDE DEF frame
  <2> QED
    BY <2>1, <2>2 DEF AllShown
<1>6. Range(shown) = {shown[m] : m \in 1..Len(shown)} /\ Range(shown) \subseteq Pane
  BY <1>1, OrderOfPanes
<1>7. ASSUME NEW p \in Range(shown)
      PROVE  Shows(seen'[p], screen'[p])
  <2>1. p \in Pane /\ Shows(seen'[p], screen[p]) /\ IsScreen(screen[p])
    BY <1>1, <1>5, <1>6
  <2>2. screen'[p] = [screen[p] EXCEPT !.dirty = {}]
    BY <1>3, <2>1
  <2> QED
    BY <2>1, <2>2, CleanedLooksTheSame
<1>8. FramesAreFresh'
  BY <1>3, <1>7 DEF FramesAreFresh, Shows
<1>9. screen' = [p \in Pane |-> screen'[p]] /\ \A p \in Pane : IsScreen(screen'[p])
  BY <1>1, <1>3, CleanedLooksTheSame
<1> QED
  BY <1>1, <1>3, <1>5, <1>8, <1>9 DEF IInv

-----------------------------------------------------------------------------

\* In every state the renderer is sound: both atlases are packed without
\* overlap, inside their textures, and what was not uploaded yet is counted;
\* terminals show what they have, and if nothing has changed since the last
\* frame the surface shows the panes.
THEOREM FramesInvariance == FramesSpec => []IInv
<1>1. IInv /\ UNCHANGED frameVars => IInv'
  BY DEF IInv, FramesAreFresh, frameVars
<1>2. IInv /\ FramesNext => IInv'
  BY ScreenSteps, PanesStep, ClearStep, RedrawStep, FontStep DEF FramesNext
<1> QED
  BY <1>1, <1>2, InitFresh, PTL DEF FramesSpec

\* After a frame every pane on screen shows the lines, the cursor and the
\* highlight its terminal has now, with the glyphs of the font in use, and a
\* texture for its pictures, whatever the order of changes, splits, font sizes
\* and frames, for every number of panes and lines, every character and every
\* size of the atlas that a character fits in.
THEOREM FramesShowPanes == FramesSpec => []FramesAreFresh
<1>1. IInv => FramesAreFresh
  BY DEF IInv
<1> QED
  BY <1>1, FramesInvariance, PTL

\* No glyph is ever over another, or beyond the end of its atlas, where its
\* lines would not be copied: the one doubling is enough.
GlyphsHaveTheirPlace ==
    \A k \in Atlases : LET a == renderer.atlas[k] IN
        /\ \A c \in DOMAIN a.glyphs : Inside(a.glyphs[c], a.height)
        /\ \A c, d \in DOMAIN a.glyphs : c # d => ~Overlap(a.glyphs[c], a.glyphs[d])

THEOREM AtlasesArePacked == FramesSpec => []GlyphsHaveTheirPlace
<1>1. IInv => GlyphsHaveTheirPlace
  BY DEF IInv, IsRenderer, Packed, GlyphsHaveTheirPlace
<1> QED
  BY <1>1, FramesInvariance, PTL

=============================================================================
