------------------------------- MODULE Window -------------------------------
(***************************************************************************)
(* The window's events: keys, the input method, the mouse, focus, redraws, *)
(* and the requests of other processes, one at a time on the main thread.  *)
(* A key is offered to one handler after another until one takes it; the   *)
(* last sends it to the shell of the focused pane.  Overlays, dialogs and  *)
(* the directory tree stack in any order, because they are also opened by  *)
(* the mouse, by the palette and by other processes.                       *)
(*                                                                         *)
(* Lists, filters and what is selected in them are left out: what enter    *)
(* chooses is any entry.  One workspace; panes of other tabs are panes one *)
(* can go to.  Left out too: Allow Flow's keys (AllowFlow), what actions   *)
(* do to tabs and layouts (Workspaces), positions, sizes and cursor shape. *)
(***************************************************************************)
EXTENDS Panes, Naturals, FiniteSets, SequencesExt

CONSTANTS
    Slides,        \* quick_terminal.animation = "slide_down"
    HidesOnLoss,   \* quick_terminal.hide_on_focus_loss
    HidesOnEscape, \* quick_terminal.dismiss_on_esc
    Offered,       \* bound: what can be open in an instance
    MaxOpen,       \* bound: how much of it at once
    Programs       \* bound: panes whose program may ask for mouse events

DragKinds == {"sidebar", "scrollbar", "click", "tab_pane", "tab", "resize"}

ASSUME WindowAssumption ==
    /\ Pane # {} /\ MaxOpen \in Nat /\ Programs \subseteq Pane
    /\ {Slides, HidesOnLoss, HidesOnEscape} \subseteq BOOLEAN
    /\ None \notin DragKinds \cup {"key"}

VARIABLES
    open,       \* overlays, dialogs and modes that are up
    focus,      \* the focused pane of the active tab
    preedit,    \* panes with text of the input method not yet committed
    selecting,  \* panes whose selection follows the mouse
    reports,    \* panes whose program asked for mouse events
    quick,      \* QuickTerminalState and whether the window is on screen
    held,       \* the left button is down
    drags,      \* sidebar_drag, scrollbar_drag, pending_tab_click, ...
    auto,       \* selection_auto_scroll
    redraw,     \* a redraw is requested
    animate     \* needs_animation_frame

vars == <<open, focus, preedit, selecting, reports, quick, held, drags, auto,
          redraw, animate>>

\* "exec" is a command plugin that runs, "tree" the directory tree's focus,
\* "find" its find mode, "confirm" any of the three dialogs.
Overlays == {"dashboard", "about", "confirm", "tree", "find", "timeline",
             "picker", "launch", "palette", "exec", "search"}

\* "shortcut" is a key with a modifier, "silent" a key without text.
Keys == {"escape", "enter", "arrow", "backspace", "char", "ctrl_np", "shortcut",
         "silent", "modifier"}

-----------------------------------------------------------------------------
(* What a handler reads and writes, whether it took the key, and what it   *)
(* sends to a shell.                                                       *)

State == [open |-> open, focus |-> focus, preedit |-> preedit,
          selecting |-> selecting, quick |-> quick, redraw |-> redraw, sent |-> None]

Becomes(s) == /\ open' = s.open /\ focus' = s.focus /\ preedit' = s.preedit
              /\ selecting' = s.selecting /\ quick' = s.quick
              /\ redraw' = s.redraw
              /\ s.open \subseteq Offered /\ Cardinality(s.open) <= MaxOpen

Taken(s) == [s |-> s, taken |-> TRUE]
Passed(s) == [s |-> s, taken |-> FALSE]

Draw(s) == [s EXCEPT !.redraw = TRUE]
Opened(s, what) == Draw([s EXCEPT !.open = @ \cup what])
Closed(s, what) == Draw([s EXCEPT !.open = @ \ what])
Toggled(s, o) == IF o \in s.open THEN Closed(s, {o}) ELSE Opened(s, {o})
Writes(s, what) == [s EXCEPT !.sent = what]

\* Some pane of the window gets the focus; it may be a new one, or the same.
Goes(s) == {Draw([s EXCEPT !.focus = p]) : p \in Pane}

\* clear_focused_preedit
Discards(s) == [s EXCEPT !.preedit = @ \ {s.focus}]

\* A key has text or not; with a modifier that depends on the system.
HasText(k) == CASE k \in {"char", "ctrl_np"} -> {TRUE}
                [] k = "shortcut" -> BOOLEAN
                [] OTHER -> {FALSE}

\* A list that takes text: it narrows the list, other keys do what "other" is.
TypesOr(s, k, other) == {IF t THEN Taken(Draw(s)) ELSE other : t \in HasText(k)}
-----------------------------------------------------------------------------
(* The quick terminal: a window that slides in and out. *)

ShowQuick(s) ==
    Draw([s EXCEPT !.quick.shown = TRUE, !.quick.visible = TRUE,
                   !.quick.animation = IF Slides THEN "down" ELSE @])

\* While it slides out it counts as visible.  First with no frame asked for.
HideQuickUndrawn(s) ==
    IF Slides THEN [s EXCEPT !.quick.animation = "up"]
    ELSE [s EXCEPT !.quick.shown = FALSE, !.quick.visible = FALSE]

HideQuick(s) ==
    Draw(IF Slides THEN [s EXCEPT !.quick.animation = "up"]
         ELSE [s EXCEPT !.quick.shown = FALSE, !.quick.visible = FALSE])

ToggleQuick(s) ==
    IF s.quick.active /\ s.quick.visible THEN HideQuick(s)
    ELSE ShowQuick([s EXCEPT !.quick.active = TRUE])

\* The next frame of the animation, or its end.
TickQuick(q, over) ==
    IF ~over THEN q
    ELSE [q EXCEPT !.animation = None,
                   !.visible = @ /\ q.animation # "up", !.shown = @ /\ q.animation # "up"]
-----------------------------------------------------------------------------
(* Actions, as far as the window's own state goes. *)

Actions == {"move", "new", "close", "palette", "command", "search", "launch",
            "timeline", "about", "dashboard", "quick", "tree", "attach", "write",
            "passthrough", "other"}

Kept(s, a) == IF a = "close" THEN {s, [s EXCEPT !.open = @ \ {"confirm"}]}
              ELSE {[s EXCEPT !.open = @ \ {"confirm"}]}

Effects(s, a) ==
    CASE a = "move" -> Goes(Discards(s))
      [] a = "new" -> Goes(s) \cup {Opened(s, {"picker"})}
      [] a = "close" -> Goes(s) \cup {Opened(s, {"confirm"})}
      [] a = "palette" -> {Toggled(IF "palette" \in s.open THEN Closed(s, {"exec"}) ELSE s, "palette")}
      [] a = "command" -> {Opened(s, {"palette", "exec"}), s}
      [] a = "quick" -> {ToggleQuick(s)}
      [] a = "tree" -> {Opened(s, {"tree"}), Closed(s, {"tree"})}
      [] a = "attach" -> {Opened(s, {"picker"}), Draw(s)}
      [] a = "write" -> {Draw(s), Writes(s, "text")}
      [] a = "other" -> {Draw(s)}
      [] OTHER -> {Toggled(s, a)}

\* Everything but Passthrough is handled.
DispatchAction(s, a) ==
    UNION {IF a = "passthrough" THEN {Passed(t)} ELSE {Taken(e) : e \in Effects(t, a)}
           : t \in Kept(s, a)}

\* A new tab with an editor in it; the tree loses the keyboard.
OpenInEditor(s) == {Writes(t, "text") : t \in Goes(Closed(s, {"tree"}))} \cup {s}
\* The palette does the same for a file it found; the tree stays as it is.
PaletteOpensInEditor(s) == {Writes(t, "text") : t \in Goes(s)} \cup {s}
-----------------------------------------------------------------------------
(* The handlers of a key. *)

DashboardKey(s, k) ==
    CASE k = "escape" -> {Taken(Closed(s, {"dashboard"}))}
      [] k = "enter" -> {Taken(s)} \cup {Taken(t) : t \in Goes(Closed(s, {"dashboard"}))}
      [] OTHER -> {Taken(Draw(s)), Taken(s)}

\* Arrows scroll, and so may a letter; every other key closes it.
AboutKey(s, k) ==
    (IF k \in {"arrow", "char"} THEN {Taken(Draw(s))} ELSE {})
    \cup (IF k # "arrow" THEN {Taken(Closed(s, {"about"}))} ELSE {})

\* Letters say yes, say no or say nothing.
ConfirmKey(s, k) ==
    IF k \in {"escape", "enter"} THEN {Taken(Closed(s, {"confirm"}))}
    ELSE IF k = "char" THEN {Taken(t) : t \in {s} \cup Goes(Closed(s, {"confirm"}))}
    ELSE {Taken(s)}

FindKey(s, k) ==
    IF k \in {"escape", "enter"} THEN {Taken(Closed(s, {"find"}))}
    ELSE {Taken(Draw(s)), Taken(s)}

TreeKey(s, k) ==
    LET left == Closed(s, {"tree"}) IN
    IF "find" \in s.open THEN FindKey(s, k)
    ELSE {Taken(t) : t \in
        CASE k = "escape" -> {left}
          [] k = "shortcut" -> {left, s}
          [] k = "enter" -> {Draw(s)} \cup {Draw(t) : t \in OpenInEditor(s)}
          [] k = "char" -> {Draw(s), left, Opened(s, {"find"}), Writes(left, "text"), s}
                           \cup {[t EXCEPT !.open = @ \ {"tree"}] : t \in OpenInEditor(s)}
          [] OTHER -> {Draw(s), s}}

\* The command's answer, or its end; see CommandRun.  First without the return.
ExecKeyFalls(s, k) == {Taken(Draw(s)), Passed(Closed(s, {"exec", "palette"}))}

ExecKey(s, k) == {Taken(Draw(s)), Taken(Closed(s, {"exec", "palette"}))}

TimelineKey(s, k) ==
    LET left == Closed(s, {"timeline"}) IN
    CASE k = "escape" -> {Taken(left)}
      [] k = "enter" -> {Taken(left), Taken(Writes(left, "text")), Taken(Draw(s))}
      [] k \in {"arrow", "backspace"} -> {Taken(Draw(s))}
      [] OTHER -> TypesOr(s, k, Passed(s))

\* The session picker and quick launch take every key.
ListKey(s, k, o) ==
    LET left == Closed(s, {o}) IN
    CASE k = "escape" -> {Taken(left)}
      [] k = "enter" -> {Taken(s)} \cup {Taken(t) : t \in Goes(left)}
      [] k = "arrow" -> {Taken(Draw(s))}
      [] k = "backspace" -> {Taken(left), Taken(Draw(s))}
      [] OTHER -> TypesOr(s, k, Taken(s))

\* Files or commands: enter runs an action, opens an editor or sends a "cd".
PaletteKey(s, k) ==
    LET left == Closed(s, {"palette"}) IN
    CASE k = "escape" -> {Taken(left)}
      [] k = "enter" -> {Taken(Draw(s)), Taken(Writes(left, "text"))}
                        \cup {Taken(Draw(t)) : t \in PaletteOpensInEditor(left)}
                        \cup {Taken(Draw(d.s)) : d \in UNION {DispatchAction(left, a) : a \in Actions}}
      [] k = "arrow" -> {Taken(Draw(s))}
      [] k = "backspace" -> {Taken(Draw(s)), Taken(left)}
      [] OTHER -> TypesOr(s, k, Passed(s))

SearchKey(s, k) ==
    CASE k = "escape" -> {Taken(Closed(s, {"search"}))}
      [] k \in {"enter", "arrow", "backspace"} -> {Taken(Draw(s))}
      [] OTHER -> TypesOr(s, k, Passed(s))

BindingKey(s, k) == {Passed(s)} \cup UNION {DispatchAction(s, a) : a \in Actions}

\* The key ends the pane's selection and is written to its shell.
ShellKey(s, k) ==
    IF k = "modifier" THEN {Taken(s)}
    ELSE {Taken(Writes([s EXCEPT !.selecting = @ \ {s.focus},
                                 !.redraw = @ \/ s.focus \in s.selecting], "key"))}

\* Who sees the key, in this order, and whether it looks at it now.
Handlers == <<"dashboard", "about", "confirm", "preedit", "tree", "ctrl_np", "exec",
              "timeline", "picker", "launch", "palette", "search", "quick",
              "binding", "shell">>

Looks(h, s, k) ==
    CASE h = "preedit" -> "palette" \notin s.open /\ s.focus \in s.preedit
      [] h = "ctrl_np" -> k = h /\ s.open \cap {"palette", "exec", "launch", "picker"} # {}
      [] h = "exec" -> {"palette", "exec"} \subseteq s.open
      [] h = "quick" -> /\ HidesOnEscape /\ k = "escape"
                        /\ s.quick.active /\ s.quick.visible
                        /\ s.open \cap {"palette", "exec", "search"} = {}
      [] h = "binding" -> k = "shortcut"
      [] h = "shell" -> TRUE
      [] OTHER -> h \in s.open

Handle(h, s, k) ==
    CASE h = "dashboard" -> DashboardKey(s, k)
      [] h = "about" -> AboutKey(s, k)
      [] h = "confirm" -> ConfirmKey(s, k)
      [] h = "preedit" -> {Taken(s)}
      [] h = "tree" -> TreeKey(s, k)
      [] h = "ctrl_np" -> {Taken(Draw(s))}
      [] h = "exec" -> ExecKey(s, k)
      [] h = "timeline" -> TimelineKey(s, k)
      [] h \in {"picker", "launch"} -> ListKey(s, k, h)
      [] h = "palette" -> PaletteKey(s, k)
      [] h = "search" -> SearchKey(s, k)
      [] h = "quick" -> {Taken(HideQuick(s))}
      [] h = "binding" -> BindingKey(s, k)
      [] h = "shell" -> ShellKey(s, k)

\* What can come of a key: every handler that looks at it, until one takes it.
KeyOutcomes(s, k) ==
    LET after[i \in 0..Len(Handlers)] ==
            IF i = 0 THEN {Passed(s)}
            ELSE UNION {IF o.taken \/ ~Looks(Handlers[i], o.s, k) THEN {o}
                        ELSE Handle(Handlers[i], o.s, k) : o \in after[i - 1]}
    IN  after[Len(Handlers)]

KeyPress == /\ \E k \in Keys : \E o \in KeyOutcomes(State, k) : Becomes(o.s)
            /\ UNCHANGED <<reports, held, drags, auto, animate>>
-----------------------------------------------------------------------------
(* The input method. *)

\* Quick launch and the palette keep its text for themselves.
ToPane == open \cap {"launch", "palette"} = {}

ImePreedit ==
    /\ \E t \in (IF ~ToPane THEN {State, Draw(State)}
                 ELSE {Draw(Discards(State)), Draw([State EXCEPT !.preedit = @ \cup {focus}])}) :
           Becomes(t)
    /\ UNCHANGED <<reports, held, drags, auto, animate>>

\* Empty text is not written; a letter may answer a permission request.
ImeCommit ==
    /\ \E t \in (IF ~ToPane THEN {Draw(State)}
                 ELSE LET s == Draw(Discards(State)) IN {s, Writes(s, "text")}) : Becomes(t)
    /\ UNCHANGED <<reports, held, drags, auto, animate>>

ImeDisabled ==
    /\ Becomes(IF ToPane THEN Draw(Discards(State)) ELSE State)
    /\ UNCHANGED <<reports, held, drags, auto, animate>>
-----------------------------------------------------------------------------
(* The mouse. *)

First(order) == LET i == SelectInSeq(order, LAMBDA d : d \in drags)
                IN  IF i = 0 THEN None ELSE order[i]

\* On the sidebar: another workspace, the tree (its first click gives it the
\* keyboard, a second one changes directory or opens the file), a new one.
SidebarClick(s) ==
    Goes(s) \cup {s, Opened(s, {"tree"}), Closed(s, {"tree"})}
    \cup OpenInEditor(Opened(s, {"tree"})) \cup {Writes(Opened(s, {"tree"}), "text")}

\* On the tab bar: a tab, its close button, the new tab button, or nothing.
TabBarClick(s) == {s} \cup Effects(s, "new") \cup Effects(s, "close")

\* On a pane that has or gets the focus: a report, or a selection begins.
PaneClick(s, p) ==
    LET at == Draw([s EXCEPT !.focus = p]) IN
    IF p \in reports THEN Writes(at, "mouse") ELSE [at EXCEPT !.selecting = @ \cup {p}]

\* Beside the sidebar a click takes the keyboard from the tree.
MousePress ==
    LET s == IF "tree" \in open THEN Closed(State, {"tree", "find"}) ELSE State
        begins(t, kinds) == Becomes(t) /\ drags' = drags \cup kinds
    IN  /\ ~held /\ held' = TRUE
        /\ \/ begins(State, {"sidebar"})
           \/ \E t \in SidebarClick(State) : begins(t, {})
           \/ begins(s, {"click"})
           \/ \E t \in TabBarClick(s) : begins(t, {})
           \/ begins(s, {"resize"})
           \/ begins(Draw(s), {"scrollbar"})
           \/ begins(Opened(s, {"confirm"}), {})
           \/ \E p \in Pane : begins(PaneClick(s, p), {})
        /\ UNCHANGED <<reports, auto, animate>>

\* A tab can be dropped on a pane; a dialog asks first.
MouseRelease ==
    LET d == First(<<"sidebar", "scrollbar", "tab_pane", "click", "tab", "resize">>) IN
    /\ held /\ held' = FALSE
    /\ auto' = FALSE
    /\ drags' = drags \ {d}
    /\ \E t \in CASE d \in {"sidebar", "resize"} -> {State}
                  [] d \in {"scrollbar", "tab"} -> {Draw(State)}
                  [] d = "tab_pane" -> {Draw(State), Opened(State, {"confirm"})}
                  [] d = "click" -> Goes(State)
                  [] OTHER -> {Draw(IF focus \in reports THEN Writes(State, "mouse")
                                    ELSE [State EXCEPT !.selecting = @ \ {focus}])} :
           Becomes(t)
    /\ UNCHANGED <<reports, animate>>

\* Without the reset, then as it is: over a pane the tab is to be dropped, back
\* over the tab bar it is moved again, between panes it is forgotten.
DraggedKeepsTab(d) ==
    CASE d = "click" -> {drags, (drags \ {"click"}) \cup {"tab"}}
      [] d = "tab_pane" -> {drags, (drags \ {"tab_pane"}) \cup {"tab"}}
      [] d = "tab" -> {drags, drags \cup {"tab_pane"}}
      [] OTHER -> {drags}

Dragged(d) ==
    CASE d = "click" -> {drags, (drags \ {"click"}) \cup {"tab"}}
      [] d = "tab_pane" -> {drags, (drags \ {"tab_pane"}) \cup {"tab"}}
      [] d = "tab" -> {drags, drags \ {"tab"}, (drags \ {"tab"}) \cup {"tab_pane"}}
      [] OTHER -> {drags}

\* A selection that leaves its pane scrolls it until the mouse comes back.
MoveSelection ==
    \/ focus \notin selecting /\ UNCHANGED <<auto, animate>>
    \/ focus \in selecting /\ auto' = FALSE /\ UNCHANGED animate
    \/ focus \in selecting /\ auto' = TRUE /\ animate' = TRUE

MouseMove ==
    LET d == First(<<"sidebar", "scrollbar", "click", "tab_pane", "tab", "resize">>) IN
    /\ drags' \in Dragged(d)
    /\ \/ d # None /\ Becomes(Draw(State)) /\ UNCHANGED <<auto, animate>>
       \/ /\ d = None /\ focus \in reports
          /\ \E t \in {State, Writes(State, "mouse")} : Becomes(Draw(t))
          /\ UNCHANGED <<auto, animate>>
       \/ d = None /\ focus \notin reports /\ Becomes(Draw(State)) /\ MoveSelection
    /\ UNCHANGED <<reports, held>>

MouseWheel ==
    /\ \E t \in {State, IF focus \in reports THEN Writes(State, "mouse") ELSE Draw(State)} :
           Becomes(t)
    /\ UNCHANGED <<reports, held, drags, auto, animate>>
-----------------------------------------------------------------------------
(* Everything else. *)

WindowFocused(gained) ==
    LET told == {State, Writes(State, "focus")} IN
    /\ \E s \in told :
           IF gained THEN Becomes(Draw(s))
           ELSE Becomes(IF HidesOnLoss /\ quick.active /\ quick.visible THEN HideQuick(s) ELSE s)
    /\ UNCHANGED <<reports, held, drags, auto, animate>>

\* Another process: the hotkey, "tm", a session that ends and takes its pane.
Request ==
    /\ \E t \in {ToggleQuick(State), Toggled(State, "palette"), Toggled(State, "timeline"),
                  Writes(State, "text")} \cup Goes(State) : Becomes(t)
    /\ UNCHANGED <<reports, held, drags, auto, animate>>

ProgramWantsMouse(p) ==
    /\ reports' = IF p \in reports THEN reports \ {p} ELSE reports \cup {p}
    /\ Becomes(Draw(State))
    /\ UNCHANGED <<held, drags, auto, animate>>

\* RedrawRequested: the frame, and what has to go on after it.  A redraw asked
\* for while it is handled comes later.
RedrawRequested ==
    /\ redraw
    /\ animate' \in (IF auto \/ "exec" \in open THEN {TRUE} ELSE BOOLEAN)
    /\ \E over \in BOOLEAN :
           /\ quick.animation = None => over
           /\ Becomes([State EXCEPT !.quick = TickQuick(@, over), !.redraw = ~over])
    /\ UNCHANGED <<reports, held, drags, auto>>

\* The frame timer.
AboutToWait ==
    /\ animate /\ ~redraw /\ Becomes(Draw(State))
    /\ UNCHANGED <<reports, held, drags, auto, animate>>

Init ==
    /\ open = {} /\ focus \in Pane /\ preedit = {} /\ selecting = {} /\ reports = {}
    /\ quick = [active |-> FALSE, visible |-> FALSE, shown |-> TRUE, animation |-> None]
    /\ held = FALSE /\ drags = {} /\ auto = FALSE /\ redraw = TRUE /\ animate = FALSE

Next ==
    \/ KeyPress \/ ImePreedit \/ ImeCommit \/ ImeDisabled
    \/ MousePress \/ MouseRelease \/ MouseMove \/ MouseWheel
    \/ \E gained \in BOOLEAN : WindowFocused(gained)
    \/ \E p \in Programs : ProgramWantsMouse(p)
    \/ Request \/ RedrawRequested \/ AboutToWait

Spec == Init /\ [][Next]_vars
-----------------------------------------------------------------------------
(* Properties. *)

\* A key that reaches the shell did nothing else: no handler acts on a key and
\* passes it on, and none of the overlays that take every key lets one through.
KeysHaveOneTaker ==
    \A k \in Keys : \A o \in KeyOutcomes(State, k) :
        o.s.sent = "key" =>
            /\ o.s.open = open /\ o.s.focus = focus /\ o.s.quick = quick
            /\ open \cap {"dashboard", "about", "confirm", "tree", "picker", "launch"} = {}
            /\ ~ {"palette", "exec"} \subseteq open

\* The fields that say what the mouse drags are independent, and releasing the
\* button clears only the first that is set; yet nothing follows the mouse
\* with the button up, whatever the drag went through.
DragsEndWithTheButton ==
    /\ Cardinality(drags) <= 1
    /\ ~held => drags = {}

\* Whatever moves by itself (the quick terminal's slide, the scrolling of a
\* selection, the polling of a command) has its next frame asked for.
MotionHasAFrame ==
    quick.animation # None \/ auto \/ "exec" \in open => redraw \/ animate
=============================================================================
