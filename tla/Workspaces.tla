----------------------------- MODULE Workspaces -----------------------------
(***************************************************************************)
(* The window's workspaces: each has tabs, each tab a split-pane tree and  *)
(* the panes it holds.  One event loop owns all of it and handles one      *)
(* event at a time: a key, a mouse press, move or release, a command of    *)
(* the `tm` tool, the end of a pane's shell, an agent's hook.  What makes  *)
(* it hard is what is remembered between two events: the tab a drag        *)
(* started on, the pane a dialog asks about, the workspace an agent is     *)
(* routed to are kept as positions and ids while tabs and workspaces come  *)
(* and go under them.                                                      *)
(*                                                                         *)
(* Positions count from 1 here and from 0 in the code.  Left out: sizes    *)
(* and drawing, titles and names, the terminals' contents, the sidebar's   *)
(* directory trees, and the overlays that only choose one of these steps.  *)
(***************************************************************************)
EXTENDS PaneList, FiniteSets

CONSTANTS
    Session,    \* agent sessions that report through hooks
    None,       \* no pane, no workspace
    Start,      \* possible numbers of tabs per workspace at start
    MaxPanes,   \* bound: panes are created only below this id
    MaxPending  \* bound: gestures and dialogs that are open at the same time

ASSUME StartAssumption ==
    /\ None \notin Nat /\ MaxPanes \in Nat /\ MaxPending \in Nat
    /\ Start \subseteq Seq(Nat \ {0}) /\ <<>> \notin Start

VARIABLES
    status,     \* "running", "quit", or "panicked" (an index out of bounds)
    workspaces, \* AppState.workspaces
    active_workspace,
    next_pane_id,
    gesture,    \* pending_tab_click, tab_drag, tab_pane_drag: at most one
    confirm,    \* pending_close_confirm, _kill_confirm, _pane_tab_confirm
    session_to_workspace, \* by session; None where there is no entry
    home,       \* for the properties: the workspace that entry was made for
    workspace_infos,      \* for each entry, the workspace whose it is
    agent_infos           \* likewise

vars == <<status, workspaces, active_workspace, next_pane_id, gesture, confirm,
          session_to_workspace, home, workspace_infos, agent_infos>>

events == <<gesture, confirm>>
routes == <<session_to_workspace, home>>
infos == <<workspace_infos, agent_infos>>
-----------------------------------------------------------------------------
Tab(layout, panes) == [layout |-> layout, panes |-> panes]

NewTabFor(pane) == Tab(NewLayout(pane), {pane})

\* A workspace's id is the id of the first pane it was made for; the code
\* has none, and tells workspaces apart by position.
Workspace(id, tabs) == [id |-> id, tabs |-> tabs, active_tab |-> 1]

Ids(list) == [i \in DOMAIN list |-> list[i].id]

Least(a, b) == IF a < b THEN a ELSE b

active_ws == workspaces[active_workspace]
active_tab == active_ws.tabs[active_ws.active_tab]
focused_id == active_tab.layout.focused

PanesOf(ws) == UNION {ws.tabs[t].panes : t \in DOMAIN ws.tabs}

Holds(w, t, p) == /\ w \in DOMAIN workspaces
                  /\ t \in DOMAIN workspaces[w].tabs
                  /\ p \in workspaces[w].tabs[t].panes

\* Wrong: the entries stay when their workspace goes.
KeepAll(list, w) == list

\* What every other operation leaves of the two info lists when a workspace
\* is removed: an entry of the same position goes, if there is one.
DropAt(list, w) == IF w \in DOMAIN list THEN RemoveAt(list, w) ELSE list

NoGesture == [kind |-> "none"]
NoConfirm == [close |-> None, kill |-> None, move |-> None]

SomeConfirm == confirm # NoConfirm
-----------------------------------------------------------------------------
\* What dispatch_action does before it looks at the action: it dismisses the
\* dialogs, except a close dialog for CloseTab and a kill dialog for
\* CloseAndKillSession.
Dismissed(keepClose, keepKill) ==
    [close |-> IF keepClose THEN confirm.close ELSE None,
     kill |-> IF keepKill THEN confirm.kill ELSE None,
     move |-> None]

DismissAll == confirm' = NoConfirm /\ UNCHANGED gesture

\* The picker's choice and a file opened from the directory tree arrive
\* without the dispatcher, and leave a dialog open.
Prologue(dispatched) == IF dispatched THEN DismissAll ELSE UNCHANGED events

SetWs(w, ws) == workspaces' = [workspaces EXCEPT ![w] = ws]

SetLayout(w, t, layout) ==
    workspaces' = [workspaces EXCEPT ![w].tabs[t].layout = layout]

SetActiveLayout(layout) ==
    SetLayout(active_workspace, active_ws.active_tab, layout)

PushTab(ws, tab) == [ws EXCEPT !.tabs = Append(@, tab),
                               !.active_tab = Len(ws.tabs) + 1]

\* The tab that is active after a removal, as the tab bar's close button and
\* a merge compute it.
ShiftedTab(ws, t) ==
    IF ws.active_tab > Len(ws.tabs) - 1 THEN Len(ws.tabs) - 1
    ELSE IF ws.active_tab > t THEN ws.active_tab - 1 ELSE ws.active_tab

\* Wrong: the entry of the removed workspace goes, those above it stay.
NotRenumbered(w) ==
    [s \in Session |->
        IF session_to_workspace[s] = w THEN None ELSE session_to_workspace[s]]

\* cleanup_session_to_workspace
Renumbered(w) ==
    [s \in Session |->
        LET at == session_to_workspace[s]
        IN IF at = None \/ at = w THEN None ELSE IF at > w THEN at - 1 ELSE at]

\* Wrong: the active workspace may be past the end.
RemoveUnclamped(w) ==
    /\ workspaces' = RemoveAt(workspaces, w)
    /\ workspace_infos' = DropAt(workspace_infos, w)
    /\ agent_infos' = DropAt(agent_infos, w)
    /\ session_to_workspace' = Renumbered(w)
    /\ home' = [s \in Session |->
                   IF session_to_workspace'[s] = None THEN None ELSE home[s]]
    /\ UNCHANGED <<status, active_workspace>>

\* What all three places that remove a workspace do.
RemoveWorkspace(w) ==
    /\ workspaces' = RemoveAt(workspaces, w)
    /\ workspace_infos' = DropAt(workspace_infos, w)
    /\ agent_infos' = DropAt(agent_infos, w)
    /\ session_to_workspace' = Renumbered(w)
    /\ home' = [s \in Session |->
                   IF session_to_workspace'[s] = None THEN None ELSE home[s]]
    /\ active_workspace' = Least(active_workspace, Len(workspaces) - 1)
    /\ UNCHANGED status
-----------------------------------------------------------------------------
\* How many tabs the workspaces before each one have, and all of them.
TabsBefore(shape) ==
    LET before[w \in 1..Len(shape) + 1] ==
            IF w = 1 THEN 0 ELSE before[w - 1] + shape[w - 1]
    IN before

\* A new start, or one that re-attaches the daemon's unattached sessions: one
\* tab for each, grouped by the workspace it was in.
StartWorkspaces(shape) ==
    [w \in DOMAIN shape |->
        LET first == TabsBefore(shape)[w]
        IN Workspace(first, [t \in 1..shape[w] |-> NewTabFor(first + t - 1)])]

Init ==
    /\ status = "running" /\ active_workspace = 1
    /\ \E shape \in Start :
        /\ workspaces = StartWorkspaces(shape)
        /\ next_pane_id = TabsBefore(shape)[Len(shape) + 1]
    /\ gesture = NoGesture /\ confirm = NoConfirm
    /\ session_to_workspace = [s \in Session |-> None]
    /\ home = [s \in Session |-> None]
    /\ workspace_infos = Ids(workspaces) /\ agent_infos = Ids(workspaces)
-----------------------------------------------------------------------------
(* Actions of the dispatcher, by a key or by the `tm` tool.  A key reaches *)
(* it only while no dialog is open; the tool always does.                  *)

\* Wrong: the tree's own counter names the pane (no set_next_id).
SplitByTreeCounter(made, dispatched) ==
    LET p == Head(active_tab.layout.panes) + Len(active_tab.layout.panes)
        split == SplitLeaf(active_tab.layout, focused_id, p)
    IN /\ p < MaxPanes /\ next_pane_id' = p + 1
       /\ workspaces' = [workspaces EXCEPT ![active_workspace].tabs[active_ws.active_tab] =
                            Tab(split, active_tab.panes \cup (IF made THEN {p} ELSE {}))]
       /\ Prologue(dispatched)
       /\ UNCHANGED <<status, active_workspace, routes, infos>>

\* do_split, or the session picker attaching into a split: the tree is split
\* before the session exists, and stays split when there is none.  No session
\* is asked for when the new pane got no place on the screen.
SplitPane(made, dispatched) ==
    LET p == next_pane_id
        split == SplitLeaf(active_tab.layout, focused_id, p)
        shown == p \in Visible(split)
    IN /\ p < MaxPanes /\ next_pane_id' = p + 1
       /\ workspaces' = [workspaces EXCEPT ![active_workspace].tabs[active_ws.active_tab] =
                            Tab(split, active_tab.panes \cup
                                       (IF made /\ shown THEN {p} ELSE {}))]
       /\ Prologue(dispatched)
       /\ UNCHANGED <<status, active_workspace, routes, infos>>

\* do_new_tab, the session picker's new tab, a file opened in the editor.
NewTab(made, dispatched) ==
    /\ next_pane_id < MaxPanes /\ next_pane_id' = next_pane_id + 1
    /\ IF made THEN SetWs(active_workspace, PushTab(active_ws, NewTabFor(next_pane_id)))
               ELSE UNCHANGED workspaces
    /\ Prologue(dispatched)
    /\ UNCHANGED <<status, active_workspace, routes, infos>>

\* No entry is pushed to workspace_infos; drawing the sidebar adds it.
NewWorkspace(made) ==
    /\ next_pane_id < MaxPanes /\ next_pane_id' = next_pane_id + 1
    /\ IF made
       THEN /\ workspaces' = Append(workspaces,
                                    Workspace(next_pane_id, <<NewTabFor(next_pane_id)>>))
            /\ agent_infos' = Append(agent_infos, next_pane_id)
            /\ active_workspace' = Len(workspaces) + 1
       ELSE UNCHANGED <<workspaces, agent_infos, active_workspace>>
    /\ DismissAll
    /\ UNCHANGED <<status, routes, workspace_infos>>

ZoomPane == /\ SetActiveLayout(ToggleZoom(active_tab.layout))
            /\ DismissAll
            /\ UNCHANGED <<status, active_workspace, next_pane_id, routes, infos>>

\* NextPane and PrevPane, by a key only.
StepPane(step) ==
    /\ ~SomeConfirm
    /\ SetActiveLayout(StepFocus(active_tab.layout, step))
    /\ UNCHANGED <<status, active_workspace, next_pane_id, events, routes, infos>>

\* NextTab and PrevTab, by a key only.
StepTab(step) ==
    /\ ~SomeConfirm
    /\ active_ws.active_tab + step \in DOMAIN active_ws.tabs
    /\ SetWs(active_workspace, [active_ws EXCEPT !.active_tab = @ + step])
    /\ UNCHANGED <<status, active_workspace, next_pane_id, events, routes, infos>>

\* Workspace(n) by a key, SwitchWorkspace of the tool, a click in the sidebar.
SwitchWorkspace(w) ==
    /\ w \in DOMAIN workspaces /\ active_workspace' = w
    /\ UNCHANGED <<status, workspaces, next_pane_id, events, routes, infos>>

\* Wrong: the pane is copied, not removed from the tab's map.
CopyToOwnTab(p) ==
    LET layout == active_tab.layout
        left == [active_ws EXCEPT !.tabs[active_ws.active_tab] =
                    Tab(CloseLeaf(layout, p), active_tab.panes)]
    IN IF ~Extractable(layout, p) THEN UNCHANGED workspaces
       ELSE SetWs(active_workspace,
                  IF p \in active_tab.panes THEN PushTab(left, NewTabFor(p)) ELSE left)

\* Takes a pane out of the active tab into a tab of its own, at the end.
\* The tab is made only if the pane is there: a place in the tree whose
\* session could not be created just disappears.
MoveToOwnTab(p) ==
    LET layout == active_tab.layout
        left == [active_ws EXCEPT !.tabs[active_ws.active_tab] =
                    Tab(CloseLeaf(layout, p), active_tab.panes \ {p})]
    IN IF ~Extractable(layout, p) THEN UNCHANGED workspaces
       ELSE SetWs(active_workspace,
                  IF p \in active_tab.panes THEN PushTab(left, NewTabFor(p)) ELSE left)

ExtractPaneToTab ==
    /\ MoveToOwnTab(focused_id)
    /\ DismissAll
    /\ UNCHANGED <<status, active_workspace, next_pane_id, routes, infos>>
-----------------------------------------------------------------------------
(* Closing panes.                                                          *)

\* What is left of workspace w when pane p goes: of its tab, or without it.
\* close_focused_pane closes the active tab, so clamping is enough for it;
\* an exit in another tab clamps just the same.
ClosePane(w, t, p) ==
    LET ws == workspaces[w]
        tab == ws.tabs[t]
        kept == Tab(CloseLeaf(tab.layout, p), tab.panes \ {p})
    IN IF ~IsWhole(tab.layout, p)
       THEN /\ SetWs(w, [ws EXCEPT !.tabs[t] = kept])
            /\ UNCHANGED <<status, active_workspace, routes, infos>>
       ELSE IF Len(ws.tabs) > 1
       THEN /\ SetWs(w, [ws EXCEPT !.tabs = RemoveAt(@, t),
                                   !.active_tab = Least(@, Len(ws.tabs) - 1)])
            /\ UNCHANGED <<status, active_workspace, routes, infos>>
       ELSE IF Len(workspaces) > 1
       THEN RemoveWorkspace(w)
       ELSE /\ status' = "quit"
            /\ workspaces' = [workspaces EXCEPT ![w].tabs[t].panes = @ \ {p}]
            /\ UNCHANGED <<active_workspace, routes, infos>>

CloseFocusedPane == ClosePane(active_workspace, active_ws.active_tab, focused_id)

\* With a child in the foreground the pane is closed only after a yes.
CloseTab(child) ==
    IF child /\ focused_id \in active_tab.panes
    THEN /\ confirm' = [Dismissed(TRUE, FALSE) EXCEPT !.close = focused_id]
         /\ UNCHANGED <<status, workspaces, active_workspace, next_pane_id,
                        gesture, routes, infos>>
    ELSE /\ confirm' = Dismissed(TRUE, FALSE)
         /\ CloseFocusedPane
         /\ UNCHANGED <<next_pane_id, gesture>>

CloseAndKillSession ==
    /\ confirm' = [Dismissed(FALSE, TRUE) EXCEPT
                      !.kill = IF focused_id \in active_tab.panes
                               THEN focused_id ELSE @]
    /\ UNCHANGED <<status, workspaces, active_workspace, next_pane_id, gesture,
                   routes, infos>>

\* The shell of pane p ended, or its session vanished.  An event for a pane
\* that is already gone changes nothing.
PtyExited(w, t, p) ==
    /\ Holds(w, t, p)
    /\ ClosePane(w, t, p)
    /\ UNCHANGED <<next_pane_id, events>>

\* The `tm` tool's CloseWorkspace; the last one cannot be closed.
CloseWorkspace(w) ==
    /\ w \in DOMAIN workspaces /\ Len(workspaces) > 1
    /\ RemoveWorkspace(w)
    /\ UNCHANGED <<next_pane_id, events>>
-----------------------------------------------------------------------------
(* The answers to the dialogs.  The kill dialog takes the key first, then  *)
(* the close dialog, then the move dialog.                                 *)

\* y kills the session and closes the pane, n only closes it.
AnswerKill ==
    /\ confirm.kill # None
    /\ confirm' = [confirm EXCEPT !.kill = None]
    /\ IF focused_id = confirm.kill THEN CloseFocusedPane
       ELSE UNCHANGED <<status, workspaces, active_workspace, routes, infos>>
    /\ UNCHANGED <<next_pane_id, gesture>>

\* Wrong: a yes closes whatever has the focus by now.
AnswerCloseUnchecked ==
    /\ confirm.kill = None /\ confirm.close # None
    /\ confirm' = [confirm EXCEPT !.close = None]
    /\ CloseFocusedPane
    /\ UNCHANGED <<next_pane_id, gesture>>

AnswerClose ==
    /\ confirm.kill = None /\ confirm.close # None
    /\ confirm' = [confirm EXCEPT !.close = None]
    /\ IF focused_id = confirm.close THEN CloseFocusedPane
       ELSE UNCHANGED <<status, workspaces, active_workspace, routes, infos>>
    /\ UNCHANGED <<next_pane_id, gesture>>

\* execute_tab_to_pane: the tab leaves the tab bar and its panes are inserted
\* around the target, in whatever tab is active then.
MergeTab(tab, target, first) ==
    LET ws == active_ws
        moved == ws.tabs[tab]
        order == moved.layout.panes
        rest == RemoveAt(ws.tabs, tab)
        at == ShiftedTab(ws, tab)
        placed == InsertLeaves(rest[at].layout, target, order, first)
    IN IF tab \notin DOMAIN ws.tabs \/ Len(ws.tabs) = 1 THEN UNCHANGED workspaces
       ELSE SetWs(active_workspace,
                  [ws EXCEPT !.tabs = [rest EXCEPT ![at] =
                                Tab(FocusLeaf(placed, Head(order)), @.panes \cup moved.panes)],
                             !.active_tab = at])

\* Which side of the target the tab was dropped on is chosen here, not kept.
AnswerMove(first) ==
    /\ confirm.kill = None /\ confirm.close = None /\ confirm.move # None
    /\ confirm' = NoConfirm
    /\ IF confirm.move.kind = "pane" THEN MoveToOwnTab(confirm.move.pane)
       ELSE MergeTab(confirm.move.tab, confirm.move.target, first)
    /\ UNCHANGED <<status, active_workspace, next_pane_id, gesture, routes, infos>>

\* Escape, or no to the last two, closes the dialog in front.
Dismiss ==
    /\ SomeConfirm
    /\ confirm' = IF confirm.kill # None THEN [confirm EXCEPT !.kill = None]
                  ELSE IF confirm.close # None THEN [confirm EXCEPT !.close = None]
                  ELSE NoConfirm
    /\ UNCHANGED <<status, workspaces, active_workspace, next_pane_id, gesture,
                   routes, infos>>
-----------------------------------------------------------------------------
(* The mouse on the tab bar.  Keys, the tool and exits come in between.    *)

Press(t) ==
    /\ gesture = NoGesture /\ t \in DOMAIN active_ws.tabs
    /\ gesture' = [kind |-> "press", tab |-> t]
    /\ UNCHANGED <<status, workspaces, active_workspace, next_pane_id, confirm,
                   routes, infos>>

\* Released where it was pressed: the tab of that position becomes active,
\* and the panes are laid out, which looks the tab up.
ReleaseClick ==
    /\ gesture.kind = "press" /\ gesture' = NoGesture
    /\ SetWs(active_workspace, [active_ws EXCEPT !.active_tab = gesture.tab])
    /\ status' = IF gesture.tab \in DOMAIN active_ws.tabs THEN status ELSE "panicked"
    /\ UNCHANGED <<active_workspace, next_pane_id, confirm, routes, infos>>

StartDrag ==
    /\ gesture.kind = "press"
    /\ gesture' = [kind |-> "drag", tab |-> gesture.tab]
    /\ UNCHANGED <<status, workspaces, active_workspace, next_pane_id, confirm,
                   routes, infos>>

\* The dragged tab takes the place of the tab under the cursor.
DragOverTab(t) ==
    LET ws == active_ws
        from == gesture.tab
        active == ws.active_tab
    IN /\ gesture.kind = "drag" /\ t \in DOMAIN ws.tabs /\ t # from
       /\ IF from \notin DOMAIN ws.tabs
          THEN status' = "panicked" /\ UNCHANGED <<workspaces, gesture>>
          ELSE /\ SetWs(active_workspace,
                        [ws EXCEPT !.tabs = InsertAt(RemoveAt(@, from), t, ws.tabs[from]),
                                   !.active_tab =
                                       IF active = from THEN t
                                       ELSE IF from < active /\ t >= active THEN active - 1
                                       ELSE IF from > active /\ t <= active THEN active + 1
                                       ELSE active])
               /\ gesture' = [gesture EXCEPT !.tab = t]
               /\ UNCHANGED status
       /\ UNCHANGED <<active_workspace, next_pane_id, confirm, routes, infos>>

\* Down from the tab bar, and from pane to pane.
DragOverPane(p) ==
    /\ \/ gesture.kind = "drag" /\ Len(active_ws.tabs) > 1
       \/ gesture.kind = "over"
    /\ p \in Visible(active_tab.layout)
    /\ gesture' = [kind |-> "over", tab |-> gesture.tab, target |-> p]
    /\ UNCHANGED <<status, workspaces, active_workspace, next_pane_id, confirm,
                   routes, infos>>

DragBack ==
    /\ gesture.kind = "over"
    /\ gesture' = [kind |-> "drag", tab |-> gesture.tab]
    /\ UNCHANGED <<status, workspaces, active_workspace, next_pane_id, confirm,
                   routes, infos>>

\* Released over a pane: asks first, if there is still such a tab.
Drop ==
    /\ gesture.kind = "over" /\ gesture' = NoGesture
    /\ confirm' = IF gesture.tab \in DOMAIN active_ws.tabs /\ Len(active_ws.tabs) > 1
                  THEN [confirm EXCEPT !.move =
                           [kind |-> "tab", tab |-> gesture.tab,
                            target |-> gesture.target]]
                  ELSE confirm
    /\ UNCHANGED <<status, workspaces, active_workspace, next_pane_id, routes, infos>>

\* Released on the tab bar, or moved off it to where no pane is.
EndDrag ==
    /\ gesture.kind = "drag" /\ gesture' = NoGesture
    /\ UNCHANGED <<status, workspaces, active_workspace, next_pane_id, confirm,
                   routes, infos>>

\* The close button of a tab; on the last tab it closes the focused pane.
CloseButton(t) ==
    /\ gesture = NoGesture /\ t \in DOMAIN active_ws.tabs
    /\ IF Len(active_ws.tabs) > 1
       THEN /\ SetWs(active_workspace,
                     [active_ws EXCEPT !.tabs = RemoveAt(@, t),
                                       !.active_tab = ShiftedTab(active_ws, t)])
            /\ UNCHANGED <<status, active_workspace, routes, infos>>
       ELSE CloseFocusedPane
    /\ UNCHANGED <<next_pane_id, events>>
-----------------------------------------------------------------------------
(* The mouse on the panes, and the rest of the tool's commands.            *)

\* Command-click: asks whether to give the pane a tab of its own.
CmdClick(p) ==
    /\ gesture = NoGesture /\ Len(active_tab.layout.panes) > 1
    /\ p \in Visible(active_tab.layout)
    /\ confirm' = [confirm EXCEPT !.move = [kind |-> "pane", pane |-> p]]
    /\ UNCHANGED <<status, workspaces, active_workspace, next_pane_id, gesture,
                   routes, infos>>

FocusPane(p) ==
    /\ p \in Visible(active_tab.layout) \cup active_tab.panes
    /\ SetActiveLayout(FocusLeaf(active_tab.layout, p))
    /\ UNCHANGED <<status, active_workspace, next_pane_id, events, routes, infos>>

SwitchTab(w, t) ==
    /\ w \in DOMAIN workspaces /\ t \in DOMAIN workspaces[w].tabs
    /\ SetWs(w, [workspaces[w] EXCEPT !.active_tab = t])
    /\ UNCHANGED <<status, active_workspace, next_pane_id, events, routes, infos>>
-----------------------------------------------------------------------------
(* Agents' hooks and the sidebar.                                          *)

Padded(list, n) ==
    [i \in 1..(IF Len(list) < n THEN n ELSE Len(list)) |->
        IF i \in DOMAIN list THEN list[i]
        ELSE IF i \in DOMAIN workspaces THEN workspaces[i].id ELSE None]

\* A request or a status of session s: for the workspace it is routed to, or
\* else for the one with its pane, or else for the active one.
AgentHook(s, w) ==
    LET known == session_to_workspace[s] # None
        at == IF known THEN session_to_workspace[s] ELSE w
    IN /\ w \in DOMAIN workspaces
       /\ PanesOf(workspaces[w]) # {} \/ w = active_workspace
       /\ session_to_workspace' = [session_to_workspace EXCEPT ![s] = at]
       /\ home' = [home EXCEPT ![s] = IF known THEN @ ELSE workspaces[w].id]
       /\ agent_infos' = Padded(agent_infos, at)
       /\ UNCHANGED <<status, workspaces, active_workspace, next_pane_id, events,
                      workspace_infos>>

\* cleanup_stale_session_mappings: an idle agent's route is forgotten after
\* an hour, or once another session reports for its workspace.
ForgetRoute(s) ==
    /\ session_to_workspace[s] # None
    /\ session_to_workspace' = [session_to_workspace EXCEPT ![s] = None]
    /\ home' = [home EXCEPT ![s] = None]
    /\ UNCHANGED <<status, workspaces, active_workspace, next_pane_id, events, infos>>

DrawSidebar ==
    /\ workspace_infos' = Padded(workspace_infos, Len(workspaces))
    /\ agent_infos' = Padded(agent_infos, Len(workspaces))
    /\ UNCHANGED <<status, workspaces, active_workspace, next_pane_id, events, routes>>
-----------------------------------------------------------------------------
PaneId == 0..MaxPanes - 1
Places == DOMAIN workspaces
TabsOf(w) == DOMAIN workspaces[w].tabs

Terminated == status # "running" /\ UNCHANGED vars

Dispatch ==
    \/ \E made, dispatched \in BOOLEAN : SplitPane(made, dispatched)
    \/ \E made, dispatched \in BOOLEAN : NewTab(made, dispatched)
    \/ \E made \in BOOLEAN : NewWorkspace(made)
    \/ ZoomPane
    \/ \E step \in {-1, 1} : StepPane(step) \/ StepTab(step)
    \/ \E w \in Places : SwitchWorkspace(w)
    \/ ExtractPaneToTab
    \/ \E child \in BOOLEAN : CloseTab(child)
    \/ CloseAndKillSession

Answer == AnswerKill \/ AnswerClose \/ Dismiss \/ \E first \in BOOLEAN : AnswerMove(first)

Mouse ==
    \/ \E t \in TabsOf(active_workspace) : Press(t) \/ DragOverTab(t) \/ CloseButton(t)
    \/ ReleaseClick \/ StartDrag \/ DragBack \/ Drop \/ EndDrag
    \/ \E p \in PaneId : DragOverPane(p) \/ CmdClick(p) \/ FocusPane(p)

Outside ==
    \/ \E w \in Places : CloseWorkspace(w)
    \/ \E w \in Places : \E t \in TabsOf(w) : SwitchTab(w, t)
    \/ \E w \in Places : \E t \in TabsOf(w) : \E p \in PaneId : PtyExited(w, t, p)
    \/ \E s \in Session : ForgetRoute(s) \/ \E w \in Places : AgentHook(s, w)
    \/ DrawSidebar

Pending == (IF gesture = NoGesture THEN 0 ELSE 1)
           + Cardinality({d \in DOMAIN confirm : confirm[d] # None})

Next == \/ /\ status = "running"
           /\ Dispatch \/ Answer \/ Mouse \/ Outside
           /\ Pending' <= MaxPending
        \/ Terminated

Spec == Init /\ [][Next]_vars
-----------------------------------------------------------------------------
Layouts == [panes : Seq(Nat), focused : Nat, zoomed : BOOLEAN]

\* The types of the variables, and the bounds of every position the code
\* indexes with: while the window runs there is a workspace, each has a tab,
\* and the active ones exist (active_ws and active_tab look them up
\* unchecked in nearly every handler).
TypeOK ==
    /\ status \in {"running", "quit", "panicked"} /\ next_pane_id \in Nat
    /\ active_workspace \in DOMAIN workspaces
    /\ \A w \in DOMAIN workspaces : LET ws == workspaces[w] IN
        /\ ws.id \in Nat
        /\ ws.active_tab \in DOMAIN ws.tabs \/ status = "panicked"
        /\ \A t \in DOMAIN ws.tabs :
            /\ ws.tabs[t].layout \in Layouts /\ ws.tabs[t].layout.panes # <<>>
            /\ ws.tabs[t].panes \subseteq Nat
    /\ gesture.kind \in {"none", "press", "drag", "over"}
    /\ {confirm.close, confirm.kill} \subseteq Nat \cup {None}
    /\ session_to_workspace \in [Session -> Nat \cup {None}]

AllTabs == UNION {{w} \X DOMAIN workspaces[w].tabs : w \in DOMAIN workspaces}

TabAt(wt) == workspaces[wt[1]].tabs[wt[2]]

\* A pane is held by one tab and drawn in one place, whatever was split,
\* extracted, merged and closed: events find their pane by its id alone.
OnePlace ==
    /\ \A a, b \in AllTabs :
        a # b => /\ TabAt(a).panes \cap TabAt(b).panes = {}
                 /\ Leaves(TabAt(a).layout) \cap Leaves(TabAt(b).layout) = {}
    /\ \A a \in AllTabs : LET order == TabAt(a).layout.panes IN
        \A i, j \in DOMAIN order : order[i] = order[j] => i = j

\* Every pane a tab holds is in its tree, and the focus is: what is typed
\* goes to a pane that can be seen.
Housed == \A a \in AllTabs :
              TabAt(a).panes \cup {TabAt(a).layout.focused} \subseteq Leaves(TabAt(a).layout)

MissedMerge ==
    /\ confirm.move # None /\ confirm.move.kind = "tab" /\ confirm'.move = None
    /\ confirm.move.target \notin Leaves(active_tab.layout)'

\* A pane loses its place in its tab's tree, or the focus leaves the tree, in
\* one way only: a tab merged next to a pane that is not in the tab it lands
\* in.  No closing, extracting, splitting or exit does it, in any order.
OnlyAMissedMergeUnhouses == [][Housed => Housed' \/ MissedMerge]_workspaces

\* The info entries by position are those of the workspaces by position,
\* although only one of the two lists grows with a new workspace.
InfosAligned ==
    /\ \A i \in DOMAIN workspace_infos :
        i \in DOMAIN workspaces /\ workspace_infos[i] = workspaces[i].id
    /\ agent_infos = Ids(workspaces)

\* A session's route leads to the workspace it was made for until that one
\* is closed, wherever workspaces are removed; then there is no route.
RoutesHold ==
    \A s \in Session : session_to_workspace[s] # None =>
        /\ session_to_workspace[s] \in DOMAIN workspaces
        /\ workspaces[session_to_workspace[s]].id = home[s]

HeldPanes == UNION {PanesOf(workspaces[w]) : w \in DOMAIN workspaces}

\* A yes closes no pane but the one the dialog was opened for, though focus,
\* tab and workspace may have changed while it was open.  (In a tab that a
\* missed merge has left with hidden panes, those go with the last one.)
ConfirmedCloseHitsItsPane ==
    [][ /\ (AnswerKill /\ Housed => HeldPanes \ HeldPanes' \subseteq {confirm.kill})
        /\ (AnswerClose /\ Housed => HeldPanes \ HeldPanes' \subseteq {confirm.close})]_workspaces

\* A pane never moves to another workspace, and its id is never used again:
\* a hook or an exit that arrives late cannot reach a pane made since.
PanesStay ==
    [][\A w \in DOMAIN workspaces, v \in DOMAIN workspaces' :
          LET old == PanesOf(workspaces[w]) new == PanesOf(workspaces'[v])
          IN /\ (workspaces[w].id # workspaces'[v].id => old \cap new = {})
             /\ (workspaces[w].id = workspaces'[v].id =>
                    \A p \in new \ old : p >= next_pane_id)]_workspaces
=============================================================================
