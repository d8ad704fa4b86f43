# Termojinal in TLA+

Termojinal is a terminal emulator in which a daemon (`termojinald`) owns every
PTY and the GUI is a client that attaches to sessions. This directory models the parts of it
where processes, threads and queues meet (daemon, attaching, permission requests,
command plugins), the parts whose state is easy to get out of step (screen,
scrollback, images, workspaces, caches of the renderer, the window's overlays and
drags), checks them with TLC on small instances, and proves with TLAPS, for every
size, what matters most about the daemon, attaching, permission requests, the
scrollback, workspaces and the places of their panes, command plugins, and the
window's keys, drags and frames.

Paths below are relative to `src/`; `session/` stands for
`crates/termojinal-session/src/`, `ipc/` for `crates/termojinal-ipc/src/`,
`claude/` for `crates/termojinal-claude/src/`, `vt/` for
`crates/termojinal-vt/src/`, `render/` for `crates/termojinal-render/src/` and
`app/` for `src/src/`.

## Inventory

| Component | State | Operations | Interacts by | Hard behaviour |
|---|---|---|---|---|
| Session manager (`session/lib.rs`, `daemon.rs`) | map of sessions, map of external registrations, one tokio mutex | create, update, remove, kill all, reap, register, unregister, send, resize, attach, detach, shutdown | control channel (256) to each io task, handlers under the mutex | await under the mutex; removal by four parties; recycled pids |
| Session io task (`session/lib.rs` 699-888) | PTY master, exit code, list of clients | read, feed, broadcast, write, resize, wait, delist | reads the PTY, `try_send` to clients, takes the manager mutex to delist | write loop on a full PTY, EOF against commands, wait with a timeout |
| Session files (`session/persistence.rs`) | one JSON file a session | save, load all, remove, clear | manager only | truncate-then-write, full disk, removals that fail, errors that are ignored, stale files after a crash |
| Attach protocol (`daemon.rs` 466-644, `ipc/protocol.rs`, `ipc/daemon_connection.rs`) | client channel (1024), socket, frames | attach, snapshot, stream, key input, detach | select! of channel and socket; reader and writer threads in the GUI | snapshot against stream, partial frames, full channel, 5 s handshake |
| GUI panes (`app/daemon_client.rs`, `app/main.rs`) | buffer and pending flag a pane, the event queue | output, snapshot, exit, close | flag and buffer shared by threads | lost wakeup, order of snapshot and output |
| Allow Flow (`app/ipc.rs`, `app/allow_flow.rs`, `claude/`) | requests, rules, deferred answer channels, session-to-workspace map | request, decide by key or command, rule, disconnect | one listener thread, one event loop, one channel a request | races for one request; timeouts; indices of workspaces that close |
| Workspaces, tabs, layout (`app/workspace.rs`, `app/actions.rs`, `crates/termojinal-layout`) | tree of splits a tab, focus, zoom, active indices | split, close, focus, zoom, move, extract | event loop only | indices after removals, a pane in exactly one tree |
| Terminal (`vt/grid.rs`, `vt/term/`) | main and alternate grid, cursor, margins, tabs, saved cursors, command records, snapshot | the parser's handlers, feed, resize, clear, snapshot, restore, jumps | daemon and GUI each keep one; a snapshot travels between them | wide characters at edges, pending wrap, cursors saved on a larger screen, restore in place |
| Inline images (`vt/image/`, `vt/term/`) | images by id, placements by absolute line, a transfer in parts | transmit, place, delete, scroll, collect | moved by the grid's scrolls; drawn by id | what is kept while it scrolls; half a transfer between other commands |
| Scrollback (`vt/scrollback.rs`) | hot ring, file with map and offsets, one cached line | push, evict, get, clear | the terminal's scrolls; the renderer reads it | file, index, map and cache change one by one; each system call may fail |
| Command plugins (`ipc/command_*.rs`, `app/command_ui.rs`) | child, reader thread, channel, runner, the palette's state | start, poll, show, answer, type, move, close | JSON lines over stdio; a frame takes one message | script ahead of the user, early exit, a helper that keeps the output open |
| Renderer (`render/`) | shared instance buffer, two atlases and their textures, picture textures, a cache a pane | draw panes, text and separators, sync images, change font | one buffer for all that is drawn in a frame | which cache still describes a buffer others wrote to |
| Window (`app/main.rs`, `app/ui/`, `app/quick_terminal.rs`) | overlays, preedit, drags, selection, quick terminal, redraw flags | key, input method, mouse, focus, request, frame | event loop; sends to shells | many independent flags: who takes a key, who ends a drag, who asks for the next frame |
| Agent monitor (`claude/monitor.rs`) | sessions found on disk | poll, hook events | thread to event loop | stale status |
| Keybindings, MCP, hotkey, config, platform glue | lookup tables | | event loop | mostly none |

What makes each correct: a session is listed exactly as long as it lives, has a
file exactly as long as it is listed and the disk obeys, and signals reach only its own shell; a
pane shows the shell's output in order, without loss it was not told of, and
both sides learn when the other goes; a request is decided once and its asker
told that decision; a pane is in exactly one tree of one tab and every active
index points at something; lines read back from the history in order; handlers
keep wide characters whole and the cursor on the screen; a frame shows what the
panes hold; a script's answers go to its questions; a key has one taker.

## Modules

| Module | Models |
|---|---|
| `SessionDirectory` | abstract: what the daemon promises of a session (opened once, ends once, recorded only while live) |
| `DaemonSessions` | manager, mutex, io tasks, files, process ids, terminals' slave sides, crash and restart |
| `DaemonSessions_proofs` | theorems about `DaemonSessions` |
| `AttachStream` | one session's output on its way to the panes attached to it |
| `AttachStream_proofs` | theorems about `AttachStream`: order, wakeups, detaching, and that output has no gap |
| `AllowFlow` | permission requests, decisions, answers |
| `AllowFlow_proofs` | theorems about `AllowFlow` |
| `PaneList` | a tab's split-pane tree as its users see it: panes in order, focus, zoom |
| `Workspaces` | workspaces, tabs and panes under keys, mouse, dialogs, the `tm` tool, exits and hooks |
| `Workspaces_proofs` | theorems about `Workspaces`: what is kept by a workspace's position, and where panes are |
| `Grid` | a screen of cells: printing, erasing, shifting, scrolling, resizing, wide characters |
| `ImageStore` | images and their placements |
| `Terminal` | the parser's handlers and the application's calls, over `Grid` and `ImageStore` |
| `Terminal_proofs` | theorems about `Terminal`: the cursor, the pending wrap, wide characters, images and the text under them |
| `History` | abstract: what a scrollback promises (lines read back, newest first) |
| `Scrollback` | the tiers: memory, file, map, cached line, with failing system calls |
| `Scrollback_proofs` | theorems about `Scrollback` |
| `CommandRun` | a command plugin: script, reader thread, runner, the palette's interface |
| `CommandRun_proofs` | theorems about `CommandRun`: answers and lists |
| `Frames` | drawing: shared buffer, caches, atlases, textures |
| `Window` | events of the window: keys, input method, mouse, quick terminal, frames |
| `Panes` | the panes of the window, which `Frames` and `Window` share |
| `Window_proofs` | theorems about `Window` (drags, requested frames, who takes a key) and about `Frames` (what a frame shows) |
| `MCDaemonSessions`, `MCAllowFlow`, `MCWorkspaces`, `MCTerminal`, `MCCommandRun`, `MCFrames`, `MCWindow` | values for TLC |

`AttachStream` looks inside what `DaemonSessions` treats as one handler
(`AttachBegins`, `AttachEnds`) and one io task; its `Removed` and `IoDelists` are
the steps of `DaemonSessions` that touch its session. `Workspaces` and
`AllowFlow` both have the list of workspaces: `AllowFlow` keeps its length and
the active index, which is what requests refer to; `Workspaces` keeps what is in
it. `Window` says which handler an event reaches; what the handler then does is an
action of `Workspaces`, `AllowFlow` or `CommandRun`, and in `Window` any of the
effects it may have on the window's own fields. `Terminal` counts the lines it
gives to the history; `Scrollback` is what keeps them. `Frames` reads a terminal
by what a pane shows.

### DaemonSessions

A request handler that takes the mutex and awaits nothing is one action guarded
by `Free`. Three holders await: `Send` on a full control channel (`lock = s`),
`AttachBegins` while it writes a snapshot (`lock = "client"`) and
`ShutdownBegins` for 200 ms (`lock = "shutdown"`). Each io task is a program
counter `task[s]`: `start`, `run` (the select! loop), `write` (the loop that
writes input), `wait` (waitpid), `cleanup` (waiting for the mutex), `done`, and
`failed` when `AsyncFd::new` fails. The kernel is `proc` (who has each pid),
`zombie` and `tty` (whose slave side is open): a pid returns to `free` only when
somebody waits for it, and may then belong to another process. What a PTY's
bytes are, names, working directories and the sizes of terminals are left out.

With `DiskFails` any save may fail, before it opens the file (what was there
stays, or nothing) or after truncating it (`SaveFails`), and any removal may leave
the file (`Erase`). What the code does then is kept: `create_session` gives the
session up, an update or `save_all` returns the error and stops, a registration is
listed all the same, and every delisting goes on. `failed` is a history variable
with the ids whose last save or removal did not succeed; the next start begins
without it, as it reads the directory anew.

`exit_session` and `force_exit_session` are `Remove` and `Unregister`: the
question of a foreground child only decides whether they happen.

### AttachStream

Chunks of output are numbered; a snapshot is the number of chunks fed when it
was taken; `view` is what the pane shows, a snapshot and then chunks. An input
frame is two parts, the length and the rest, as `write_frame_sync` writes them. A
session with no clients at the start stands for any earlier history.

A complete input frame is key input or a resize, which are not told apart: its
handler is `commanding` until it has the manager mutex, and queues a command in
the io task's control channel (`ctl`). With the channel full it stays there,
`sending`, with the mutex held, and looks neither at its client's channel nor at
its socket. `OtherSends` is another request that does the same (`lock =
"other"`). The io task takes commands in its loop; while it is `writing` input it
reads no output. `Jammed` is somebody waiting for room while the io task takes
nothing. That a handler of another session jams the same mutex is not in this
module, which has one session; `daemon_jam` shows what it does to all.

### AllowFlow

A hook process (`tm allow-request`) has one request. `listener` is the thread of
`app_ipc_listener` with the connection it serves, `box` the channel it waits on;
`deferred` is `pending_ipc_responses`. Requests are numbered from 1 in the order
they arrive; the sequence is never shortened, as in the engine. A rule made from
a request covers `Covers[kind]`, since its patterns are unanchored regular
expressions. Commands of other connections are one action for accepting them and
one for each effect. `RuleFiles` are the rules a start may find in
`allow_rules.toml`, deny rules among them. Not in it: the hint bar, agent states,
the write of an answer to a prompting PTY, writing the rule file, other tabs and
panes of a workspace.

### Workspaces

`workspaces` is `AppState.workspaces`, each with its tabs and `active_tab`; a tab
has a `layout` (`PaneList`) and the set of panes it holds (the keys of
`tab.panes`), which the code keeps apart and which may come to differ. Positions
count from 1. A workspace has no identity in the code; the model gives it the id
of its first pane, so that a property can say which one an index, an info entry
or a session's route was for (`home` is the workspace a route was made for, and
exists for that property only). `gesture` is what `pending_tab_click`, `tab_drag`
and `tab_pane_drag` remember between mouse events, `confirm` the three dialogs.
An action is one event of the window's loop: an action of the dispatcher, an
answer to a dialog, a mouse event on the tab bar or a pane, a request of the `tm`
tool, `PtyExited`, a hook, a drawing of the sidebar. `made` says whether the new
session could be created. Hit-testing is "some pane that is visible" or "some
tab". An index out of bounds (`ReleaseClick`, `DragOverTab`) is status
`panicked`, where nothing more happens.

The tree is a list of panes here because no step of `Workspaces` asks for more:
where a pane is inserted, which pane gets the focus after a close (the first of
the rest, as `close` picks it) and what next and previous mean depend on the
order only. What the list leaves out is the geometry: directions, ratios,
`resize`, and the navigation that compares rectangles.

### Grid, ImageStore and Terminal

A terminal is one record `t` and a handler one operator from terminals to
terminals, named as the method is or as the sequence (`DoPrint`, `Newline`,
`ReverseIndex`, `EraseDisplay`, ...); an action applies one of them. A cell is
empty, a narrow character, the first or the second half of a wide one, or a
combining mark's; colours and the pen are left out. Positions count from 0, as
in the code. A placement has a row and a height in rows, as in the store; the
store's scrolls change the row, the grid's move the text, and nothing in the code
ties the two together but that handlers call both. `ImagesTrackTheText` compares
them: in every step, an image of the main screen in a region that starts at row 0
(the whole screen as a rule) goes exactly as far up as lines went into the
history, is dropped only with its last line, keeps its picture, and the text under
it comes along, the line apart that the cursor is on, which a handler may write to.
What parts them is named: reverse index, IL, DL and SD move text without images,
erasing and shifting cells changes the text, a chunk may do any of it. Left out are
images below the margin or in a region that starts lower, and the text of the
alternate screen, which has no placements of its own in the code.
`scope` is a constant of a behaviour: a family of sequences (which `ops`, which
sizes) an application sends. The families split the questions (cells, tabs,
saved cursors and screens, copies, margins, the three image protocols, images among line edits, chunks,
command marks); what one of them does cannot be undone by another's handler that
the family leaves out, because the record and the handlers are the same in all.
A handler that indexes the grid at the cursor is guarded by `Inside`, which is
what `Grid::cell` asserts; `CursorLeavesByRestoreOnly` says who makes it false.
`saved` is a snapshot on its way from one terminal to another.

### Scrollback and History

A line is one unit of the file: `file` is a sequence of units, `Hole` where
nothing was written and `Torn` where a write was cut off, `cursor` the position
of the open file, `offsets`, `count`, `size` and `mapped` the fields of
`WarmTier`. Creating, writing, mapping and truncating may each fail; `intact` is
a history variable that says none did and no written file was cleared. Nothing is
promised of a buffer that is not intact, and `History` says so.

### CommandRun

Three parties: the script (`ScriptWrites`, `ScriptExits`), the reader thread
(`ReadLine`, `ReadEof`), the event loop (`Poll` is a frame, the rest are keys). A
message is its number among the script's lines, so that an answer can be said to
be for a question. `helper` is a process the script left behind that keeps its
stdout open: the reader sees no end until it is gone. Closing the palette drops
the runner, which kills the child; the thread may outlive it.

### Frames

A line of a pane is one character and drawing is read back: `Look` says what a
texture has at the place an instance names, so a stale cache, an overwritten
buffer or a glyph that moved shows up as a wrong line. `RenderFrame` is the order
of `app/ui/frame.rs`: the fill of the content area and text before the panes, the
panes with the input method's text in the focused one, separators and text after.
The atlases pack rows and double in height as the code's do; lines of a bitmap
that do not fit are not copied, and `Look` misses them (`Inside`).

### Window

`KeyOutcomes` folds the handlers in the order of `window_event`, each with the
condition under which it looks at a key; `Taken` is its early return. `open` is
every overlay, dialog and mode that is up, each a field of its own in the code.
A list's contents are left out, so what enter chooses is any entry. `drags` are
the fields that a press or a movement sets (`sidebar_drag`, `scrollbar_drag`,
`pending_tab_click`, `tab_drag`, `tab_pane_drag`, the pane separator's); `quick`
is `QuickTerminalState` and whether the window is on the screen; `redraw` a
requested frame and `animate` the timer's flag.

Three handlers are coarser than the code. The dialog that kills and closes
ignores enter, which the others do not (`app/main.rs` 1196), and dialogs that
are up together are one element of `open`: `ConfirmKey` is one dialog with its
yes, its no and an enter that ends it. Keys of the tree with a modifier other than ctrl still reach the arms
f, v and e (1449-1506), which `TreeKey` does only without one. `MousePress` is the
left button: the context menu of the right one (2920-2941), whose entries are
actions of the dispatcher, and the middle one are left out.

## Runs

| Run | Instance | What it shows |
|---|---|---|
| `daemon_safety` | 2 sessions, 2 pids, channel of 1, failing saves and removals | types; no ghost session; pids pinned; shells signalled; refinement of `SessionDirectory` |
| `daemon_progress` | 1 session, 1 registration, 2 pids, failing disk, fairness | files match the map as far as the disk obeys; hung-up sessions are delisted and tasks end unless the mutex is jammed |
| `attach_stream` | 1 pane, 2 chunks, 1 input frame, channels and socket of 1, fairness | order, gaps, wakeups, detachment, learning of exit; catching up and detaching of a closed pane unless the mutex is jammed for good |
| `allow_flow` | 2 hook processes, 1 prompting pane, 2 workspaces, no rules or a deny rule | requests and answer channels agree; answers match decisions; decisions are final |
| `allow_live` | the same with 1 workspace, fairness | everybody is answered; abandoned requests go |
| `workspaces` | 3 panes, started as one tab or as two workspaces of 2 and 1 tabs, 1 agent session, one open gesture or dialog | active indices exist; a pane is in one place; info lists and routes follow the workspaces; panes leave their tree in one way only; a confirmed close closes its pane; panes stay in their workspace |
| `terminal` | eleven families of sequences on screens of 1 to 4 cells | which handlers break a wide character, take the cursor off the screen or a pending wrap off the edge; images and the text under them move together |
| `scrollback` | 2 lines in memory, 3 in the file, failing system calls | the tiers agree; refinement of `History` |
| `command_run` | 3 lines of any kind, 2 items, 1 typed letter, fairness | an answer is for its question; the list on screen is the question's; the end is shown |
| `frames` | 2 panes of 2 lines, 1 line of history, 1 picture, 3 changes | after a frame a pane shows what it holds |
| `window` | 2 panes, two overlays at a time, quick terminal that slides | one taker a key; drags end with the button; what moves has a next frame |
| `daemon_jam` (violation) | 1 session | the finding |

Bounds. Two sessions and two pids are enough for one session's pid to be freed
and taken by another session or a stranger; symmetry over both is sound, since
that run has no liveness property. A channel of capacity one is full after one
message, which is the only thing its capacity is asked about, and so is a control channel; the proofs hold
for every capacity, and those of `AttachStream` for any number of panes. Two chunks are enough for one before and one after a
snapshot and for a loss between two. Two hook processes are enough for one to
queue behind the other and for a rule made from one not to cover the other; the
deny rule covers one of the two kinds they ask for, so that a rule decides and a user does in
the same run.
`MaxRequests` bounds the prompts of panes, `MaxEvents` the commands waiting in
the event loop, `MaxOut` and `MaxKeys` what a shell and a user produce.
`MaxPanes` bounds the ids of panes ever made: with three there are a tab of two
panes beside a tab of one, three tabs, and two workspaces of which either has
two tabs, and so every case of a removal before, at and after the active one.
`MaxPending` is one gesture or one dialog, since each remembers its position on
its own; what changes under it are the keys, commands and exits, which are not
bounded. All of the run's properties also hold with `MaxPending = 2` (515,484
states) and, without sessions, with 3; the run keeps 1 to stay short.

In `terminal` a line of four cells has a wide character with a neighbour on
either side and one that does not fit; four rows have a margin with rows on both
sides; `MaxScrolled` and `MaxImages` let a picture leave the screen and reach the
history, `IdMax` lets the next id wrap. `Counts` goes past every size of the
images' family and of the cells' but one, so that counts larger than the region
occur. In `scrollback` the file holds one line more than memory, and a line more
than the oldest is asked for; the theorems hold for every size. In `command_run`
three lines are two questions and an end in any order, so that a script is a
question ahead of its user. In `frames` the atlas holds two cells a row and fills
its height within three characters; `MaxEdits` is the distance between two
frames that can matter to a pane's own cache, other panes and the text around
them. `CellWidths` is one width, so a change of font rebuilds the atlases at the
same size. In `window` at most two of six overlays (`Offered`) are up: those that
take every key, those that pass keys on, the two modes of the tree and a command
in the palette. The other overlays are in the module and follow the same
handlers; they are not opened in the run. `Programs` is one pane that may ask for
the mouse.

Deadlock is checked, except in `AttachStream`: a session that ended with its
panes closed has nothing left to do. In `Workspaces` a window that has quit or
panicked stutters (`Terminated`).

Fairness. tokio runs every ready task and its mutex queues first come first
served, so the step that needs the mutex is strongly fair; `select!` picks among
ready branches at random, so each branch is fair on its own; threads of the GUI
run. A client being attached reads or goes away, and a shell that got SIGHUP
exits. A client of the app's socket closes its connection once it is answered,
as `tm` and the MCP server do. In `CommandRun` the reader thread runs, and frames
come while a command is open, which `MotionHasAFrame` of `Window` checks of the
window. There is no fairness for what people, scripts and shells do: that a shell
reads its input, writes, or exits, that a script goes on, that a user closes a
pane, answers or decides. So an io task in its write loop may stay there, and
with it a handler that waits for room under the mutex: `PaneCatchesUp` and
`ClosedPaneDetaches` claim what they say when no jam lasts for ever (`JamsPass`), as
`HungUpSessionIsDelistedUnlessJammed` does.
`RemovedSessionTaskEnds` needs none of the first: a removed session's shell was
sent SIGHUP.

## Findings

`send_input` and `resize_session` await a full control channel with the manager
mutex held. An io task that has left its loop receives no more but keeps the
channel open until it has taken that mutex: the two wait for each other and the
daemon serves nobody (`session/lib.rs` 646-688, 843-887). While the task still
runs, the same wait lasts as long as a shell does not read its input (787-814):
meanwhile the handler shows its pane nothing and does not see it close. The run `daemon_jam` shows it.

Seen while modelling, and left in the models as the code has it. Where a
property had to exclude one of these, its comment says so.

Daemon, Allow Flow and workspaces:
- A chunk fed before a snapshot and broadcast after the attach is shown twice
  (`session/lib.rs` 752-760, `daemon.rs` 546-567).
- `select!` drops a `read_frame` that has read the length when output arrives
  first; the next read takes payload for a length (`daemon.rs` 604).
- A request that a deny rule resolves is told `allow`: the answer is a constant
  (`app/ipc.rs` 102-105), while a rule's field is "The decision to apply"
  (`claude/rules.rs` 27) and the engine records and logs "auto-deny"
  (`claude/lib.rs` 214-232). `AnswersMatchDecisions` has this as its only exception.
- A registration whose save fails is listed without a file (`session/lib.rs`
  493-494), and a file that cannot be removed stays behind its session, silently
  but for `remove` (343-344, 453, 470, 501, 556, 885); the next start tries again.
- Closing a workspace renumbers `session_to_workspace` but not the pending
  requests (`app/ipc.rs` 199, `app/main.rs` 3502-3512, 4133-4143).
- Dragging the active tab onto its own pane and saying yes removes the tab and
  inserts its panes around a pane that went with it: they stay in `tab.panes` of
  another tab but in no tree (`app/main.rs` 4024-4065).
  `OnlyAMissedMergeUnhouses` shows that nothing else does this.
- A tab whose position was remembered by a press or a drag may be gone at the
  release (`app/main.rs` 2555, 2260), which is an index out of bounds.
- `active_workspace` and `active_tab` are clamped, not shifted, when something
  before them goes by an exit or by the tool, so the view moves to a neighbour.

Terminal, images and scrollback:
- Leaving the alternate screen, ESC 8 and mode 1048 put back a cursor that a
  resize may have left outside the screen; ESC E, the screen switches and a
  restored cursor carry a pending wrap away from the last column.
- A snapshot stores the grid on display as the main one (`vt/term/snapshot.rs` 16, 72,
  127): taken on the alternate screen, the main screen is lost.
- Inserting cells and narrowing the screen cut wide characters in two; inserting
  and deleting lines below the margin computes a negative height (`vt/grid.rs`
  207, 218).
- `feed` runs the graphics commands of a chunk before its text, wherever they
  stood (`vt/term/mod.rs` 292-303).
- Only scrolls into the history move the images, "so they track the grid content"
  (`vt/term/mod.rs` 371): reverse index (380-385), IL, DL, SD and scrolls in a
  region below row 0 or on the alternate screen move text and leave the images,
  and a region that ends above the last row takes images below it along. SU moves
  them by its count, also when fewer lines leave the screen.
- A scroll drops images that were transmitted and not yet placed; automatic ids may
  meet ids the application chose; another command in the middle of a Kitty
  transfer becomes part of it.
- Records of restored commands have line 0, so the list that jumps search by
  bisection is not sorted.
- A failed write to the scrollback's file leaves its offset in the index, and
  `clear` cuts the file without moving the position it writes at.

Command plugins, renderer and window:
- An answer to a script that has exited is lost and its question is shown again
  on the next frame (`app/command_ui.rs` near 400).
- Every separator empties all caches, and each frame begins with one, the fill of
  the content area (`app/ui/frame.rs` 67): the incremental path of
  `update_instances` is never reached by a frame. An atlas doubles without bound; one
  uniform buffer serves all pictures of a pane; picture textures are known by id
  across panes.
- The input method's text reaches the shell under search, timeline, dashboard,
  about, the tree and the dialogs; keys without text pass the palette, the
  timeline and search, though `app/main.rs` 1787 says the palette intercepts all.
- `ShowPalette` over the socket hides a running command and does not end it
  (`app/ipc.rs` 611); a toggle while the quick terminal slides out starts the
  slide again; find mode stays when the tree is closed by a click in the sidebar;
  a selection goes on when the focus or the mouse mode
  changes before the release.

## Proofs

`DaemonSessions_proofs` proves, for every set of sessions, registrations, panes
and pids and every capacity, from `ConstantsAssumption` alone: `TypeCorrect`,
`FilesCorrect`, `NoGhost`, `PidsPinned`, `ShellsSignalled` and `Refinement`. The
inductive invariant is the conjunction of `TypeOK`, that nothing is listed, no
task runs and the mutex is free while the daemon is down, `FilesMatchSessions`,
`NoGhostSession` and `PidPinned`. `FilesMatchSessions` excuses the ids in `failed`
and no others, so each step that saves or removes has to account for both
outcomes of every file it touches; that a session, unlike a registration, always
has some file is because a session is listed only after a save that succeeded, and a
later one that fails leaves the old file or a torn one. `PidPinned` is not inductive without the type of `proc` and the
fact that only a task in `wait`, `ShutdownEnds` and `Vanish` free a pid: a
session's pid is pinned as long as its task has not collected it, which is why
`Unwaited` names those program counters. Refinement and `ShellsSignalled` are
then shown step by step from that invariant. Each action has a step of its own.

`Scrollback_proofs` proves, for every set of lines, every capacity in memory and
every bound on the file, from `ScrollbackAssumption` alone: `TiersStayInStep`
(`TiersAgree`) and `ReadsAsOneHistory` (`LinesReadBack`, the refinement of
`History`). The inductive invariant is `TiersAgree` and, while the buffer is
intact, that the file holds rows only and memory is within its capacity. The two cases that carry
it are `Push`, where memory hands its oldest line to the file and the sequence
`Lines` only grows at its end, and `Get`, where the cached row must still be the
line of its index: it is, since the file of an intact buffer is only appended to.
The refinement maps `lines` to the whole sequence while the buffer is intact and
to nothing afterwards, which `Spoil` and `HClear` allow.

`AttachStream_proofs` proves, for any number of panes on one session, any output
and any capacities, from `BoundsAssumption`: `OutputInOrder` (`ShownInOrder`),
`OutputIsSeen` (`NoLostWakeup`) and `NobodyStaysAttached` (`ClosedIsDetached`).
The order of what is shown is not inductive, since a step only moves the next
chunk along; `PipesHold` is: the chunks in a pane's view (after the snapshot), in
its buffer, on the wire and in its channel are each in order, each part is older
than the next, and all are older than the next chunk to be broadcast.
`NoLostWakeup` needs `FlagIsEvent`: while a pane's flag is set an event for it is
queued, so output that finds the flag set needs no event of its own.
`ClosedIsDetached` needs that only a handler past its attach is in the list.

Its second part adds `OutputWithoutGap` (`NoGapUnlessDropped`) on that
invariant. Its own has three parts for each pane. `Phase` follows the handshake:
the snapshot is the first thing on the wire, the reader passes it on before any
output, and nothing is drained into the view before it is handled. `NoGap` says
that what the pane holds (view, buffer, wire) has no hole above its snapshot, and
that while the handler serves it, what it holds and its channel together reach
up to the next chunk: this is where the client must be in the list before the
snapshot is taken. `Shown` then follows from the order and the absence of holes.

`AllowFlow_proofs` proves, for any hook processes, panes, workspaces and rules,
from `SourcesAssumption`: `ChannelsFollowRequests` (`DeferredArePending`),
`AnswersAreDecisions` (`AnswersMatchDecisions`) and `NoDecisionUndone`
(`DecisionsAreFinal`). What a hook process hears has first been in the
listener's channel, so the invariant says of the channel what the property says of
the answer (`BoxIsADecision`, by `AnswerTo`), and that a request a rule decided was
never pending, so that `AnswerTo` of a pending request is what is decided of it and
the exception for deny rules is met by no decision of a user.

`Workspaces_proofs` proves, for any number of panes, agent sessions, gestures and
dialogs, from `StartAssumption`, in two arguments. The first is about positions
and needs only how many workspaces there are: `InfosFollow` (`InfosAligned`) and
`RoutesFollow` (`RoutesHold`). Each action is shown to be one of three: all
workspaces stay in their places (`StayPut`), one is added at the end, or one is removed
(`RemovalStep`, which carries the renumbering). That the active workspace exists
is part of the invariant, as a removal by the focused pane would otherwise remove
nothing and renumber.

The second is about what is in the workspaces: `Types` (`TypeOK`),
`OnePlaceForAPane` (`OnePlace`), `PanesStayHome` (`PanesStay`),
`OnlyMergesUnhouse` (`OnlyAMissedMergeUnhouses`) and `ConfirmedCloseIsExact`
(`ConfirmedCloseHitsItsPane`). `OnePlace` is not inductive: nothing in it says
that the next id is new, that an index points at a tab or that a gesture remembers a
workspace at all. `Placed` adds that. `Trees`: every tree is a nonempty list
without repetition whose panes the ids have reached, and tabs and
workspaces share none; `Pointing`: unless the window has panicked, every
workspace's active tab exists; `Asking`: the types of gesture and dialogs. The lemmas climb from a tree (an
insertion adds one pane, a close removes one, a merge is a recursive function
over the list that moves) to a tab, to a workspace, and to all workspaces: `Moves` says
that each workspace of the new state either is made of one of the old
(`Becomes`: it has no pane but its own and those just made, and loses no pane's
place but by a missed merge) or is new and has only panes just made
(`Newcomer`). Every action is shown to move so, and the three theorems about steps read
their claim from it.

`CommandRun_proofs` proves, for every script, any items and letters, and any
number of lines, from `RunAssumption`: `AnswersAreInOrder`
(`AnswersFollowQuestions`) and `ListIsShown` (`ListIsTheQuestions`). `Channel`
says that what the reader thread has passed on and nobody has taken are the lines
after the current one, without a gap, and the end of the file only behind them;
`Answered` counts: as many answers as questions up to the current line, one fewer
while the runner waits; `Shown` that a question is on the screen only while the
runner waits for just that one. Then the next answer goes to the
next question. `Picked` is kept by every key in any state, and is why the marked
line is one of the list.

`Window_proofs` proves, for any panes and overlays, from `WindowAssumption`:
`NothingDragsUnheld` (`DragsEndWithTheButton`), `MotionIsDrawn`
(`MotionHasAFrame`) and `OneHandlerTakesAKey` (`KeysHaveOneTaker`). With at most
one of the six fields of a drag set, every handler finds that one in whatever order it
looks, so the release, which clears only the first it finds, clears all. For
frames, every handler is shown to relate its window to the next by `Follows`:
what moves after it moved before or it asked for a frame, and it takes back no
request; the relation composes, so it holds of all handlers one after another.
For keys, `Stage` says of the first handlers together what one says
of itself: either one of them took the key, or overlays, focus and quick terminal
are as they were and none of the overlays that stop every key is up among those asked so far; by
recursion over the handlers, the shell is reached only when all passed the key on.

`Window_proofs` also proves of `Frames`, with which it shares the panes and the
lemmas on recursive functions, for any
panes, lines, characters, pictures and font sizes, from `FramesAssumption`:
`FramesShowPanes` (`FramesAreFresh`) and `AtlasesArePacked`. The assumption is that
an atlas is at least three rows high and that a wide character with its gaps fits
in its width; in the code atlases begin with 1024 and 512 pixels a side. `FramesAreFresh` is
not inductive: it says nothing of what a frame finds. `IInv` adds
- of an atlas (`Packed`), that each glyph is `Behind` the place of the next one: in
  a row that is finished, or in the same row and to its left. So a new glyph lies
  over no other; and as the row being filled ends inside the atlas, doubling the
  height once makes room;
- of a texture (`Copied`), that it has some of the atlas's glyphs, that `version` is
  how many, and that with all of them it is the copy. Atlases only grow, so an equal
  number of glyphs means the same glyphs (`CountTells`), and comparing the numbers
  is enough to upload what has changed;
- of a terminal, that the view into its history does not reach past the oldest line.

It says nothing of the caches between frames, and need not: the fill of the
content area empties them, so every pane is built from its terminal. `Upto` is
the induction over the panes of a frame: those drawn so far show their terminals,
the others still have no cache, because the panes of a tab differ. What a later
pane and the text over it load into the atlases moves no glyph (`Grown`), and by
`InstanceShows` an instance that names its glyph's place reads back its line.

`Terminal_proofs` proves, for every size of the screen, any numeric parameters,
any tab width and any pictures, from `TerminalAssumption`: `ImagesComeAlong`
(`ImagesTrackTheText`), `CursorStaysInside` (`CursorLeavesByRestoreOnly`),
`WrapStaysAtTheEdge` (`WrapWaitsAtTheEdge`) and `PairsStayWhole`
(`WidePairsStayWhole`). The inductive invariant is `Sound`: both grids have the
size the terminal says, tab stops and margins lie on the screen, and each
placement has its image.
The cursor and the saved ones may be anywhere, as a resize leaves them.
Of a handler from a terminal `x` to `y` it is then shown that it `Keeps`: `y` is
sound, and if in `x` the cursor was on the screen, the wrap at the edge or the
screen `Clean`, so it is in `y`. The relation composes, so it holds of line feeds
repeated after an image and of the items of a chunk by induction on their number.
`Clean` is a line by line account of wide halves, for each operation of `Grid` on
the line of the cursor, and a lemma that scrolling only moves lines and adds blank
ones. The handlers that do not `Keep` are the ones the properties name, and
printing, which may put a mark on a clean screen.

For the images a second relation says that `y` `Climbs` from `x`: with `n` lines
more in the history, every image within the region is `n` rows higher with its
picture stored, or was above `n`, and row `r` of the region is at `r - n`, some
given rows apart (the cursor's, where a handler may have written, or any, once a
chunk prints more than one line). It composes as long as the second step disturbs
no more than the first allows, which gives line feeds after an image and the items
of a chunk by induction on their number. Every action is then one of: it climbs, it
leaves text and images alone, it leaves the main screen alone, or it is named in
the property.

Only model-checked: all liveness, since TLAPS has no support for fairness and
ENABLED (`PaneCatchesUp`, `PaneLearnsOfExit`, `ClosedPaneDetaches`,
`RemovedSessionTaskEnds`, `HungUpSessionIsDelistedUnlessJammed`,
`EveryClientIsAnswered`, `AbandonedIsDismissed`, `EndIsShown`). Every invariant, every
action property and both refinements that the passing runs check are theorems.

## What is left

1. `LayoutTree`: the immutable tree of splits as a function from positions, with
   directions, ratios, resize and navigation by rectangles, shown to implement
   `PaneList`. In `Workspaces`: the refresher's results, which are applied by
   position after workspaces moved.
2. `AllowFlow`: the write of an answer to a prompting PTY, the hint bar, the rule
   file with two processes; several panes on one session with the registry of
   write channels in `AttachStream`.
3. `Terminal`: insert mode, REP, and the mouse modes as sequences.

Hazards that no property covers: a terminal prompt that a rule resolves is
recorded as decided but nothing is written to the PTY (`claude/lib.rs` 227); two
apps save the rule file from memory (`claude/rules.rs` 102); a snapshot has no
state of the parser (`session/lib.rs` 639); registering a pane twice leaves
the first registration's file, which nothing removes before the next start (494); a shell that outlives its terminal's end of
file by a second is left a zombie, and between waitpid and the delisting its pid
may name another process (844); `unregister_write_channel` removes whatever is registered for a
session (`ipc/daemon_connection.rs` 37).

## Not modelled

Drawing and hit-testing of widgets, the rasterizer, shaders, configuration,
appearance, platform glue and the global hotkey draw, parse or call the system,
and keep no state that other parts depend on. The MCP server and the socket
clients translate calls into the requests modelled here. Decoding of images and
the finding, parsing and signing of commands are functions of their input. The
Claude session monitor publishes a list that is only drawn. `SnapshotStore` is
not used by the daemon.
