---------------------------- MODULE AttachStream ----------------------------
(***************************************************************************)
(* One daemon-owned session and the GUI panes attached to it: the io task  *)
(* that feeds each chunk of PTY output to the daemon's terminal and then   *)
(* broadcasts it, the connection handler that attaches, sends a snapshot   *)
(* and forwards the client's channel, and in the GUI the reader and writer *)
(* threads of a pane and the event handler that owns the pane.             *)
(*                                                                         *)
(* Chunks of output are the numbers 1, 2, ... in the order the shell wrote *)
(* them; a snapshot is the number of chunks the daemon's terminal had seen *)
(* when it was taken.  The mutex is the one of DaemonSessions, seen by the *)
(* steps that involve this session.  So is the control channel: a handler  *)
(* that has read a key or a resize sends a command to the io task with the *)
(* mutex held, and waits there while the channel is full.                  *)
(***************************************************************************)
EXTENDS Naturals, Sequences

CONSTANTS
    Conn,       \* connections to the session, each with its GUI pane
    MaxOut,     \* bound: chunks the shell writes
    MaxKeys,    \* bound: input frames a pane sends
    ChanCap,    \* capacity of a client's channel (1024 in the code)
    CtlCap,     \* capacity of the control channel (256 in the code)
    WireCap     \* frames the socket holds before a write of it blocks

ASSUME BoundsAssumption ==
    /\ MaxOut \in Nat /\ MaxKeys \in Nat
    /\ ChanCap \in Nat \ {0} /\ CtlCap \in Nat \ {0} /\ WireCap \in Nat \ {0}
    /\ Conn \cap {"free", "other", "idle"} = {}

VARIABLES
    out,        \* chunks read from the PTY and fed to the terminal
    io,         \* the session's io task
    listed,     \* the session is in SessionManager.sessions
    ctl,        \* commands waiting in the session's control channel
    lock,       \* holder of the mutex across steps: a connection that is
                \* attaching or sending, or another request that sends
    clients,    \* DaemonSession.clients
    chan,       \* each client's channel, oldest first
    dropped,    \* clients that a full channel cost a message
    conn,       \* each connection handler
    snap,       \* the snapshot a handler has taken
    wire,       \* frames on the socket, daemon to GUI
    up,         \* parts of frames on the socket, GUI to daemon
    rd,         \* parts consumed by the handler's pending read_frame
    gui,        \* each pane's reader thread
    sent,       \* parts of frames the pane's writer thread has written
    shut,       \* panes whose side of the socket is shut down
    buf,        \* pty_buffers[pane]
    pending,    \* PTY_PENDING[pane]
    events,     \* the pane's events in the event loop's queue
    main,       \* the event handler: "idle" or draining a pane's buffer
    pane,       \* the pane exists in the GUI
    view        \* what the pane's terminal shows: a snapshot, then chunks

streams  == <<clients, chan, dropped>>
control  == <<ctl, lock>>
daemon   == <<out, io, listed, streams>>
handler  == <<conn, snap, rd>>
window   == <<buf, pending, events, main, pane, view>>
threads  == <<gui, sent, shut>>
vars     == <<daemon, control, handler, wire, up, threads, window>>

\* Messages and frames.
Chunk(n)    == [kind |-> "chunk", n |-> n]
Snapshot(n) == [kind |-> "snapshot", n |-> n]
ExitMsg     == [kind |-> "exit", n |-> 0]
Reply(kind) == [kind |-> kind, n |-> 0]

\* A frame arrives in parts: write_frame_sync writes the length, and then
\* what the length announces.
Part == 1..2

Room(c) == Len(wire[c]) < WireCap

Send(c, f) == wire' = [wire EXCEPT ![c] = Append(@, f)]

\* try_send to every client whose handler still holds the receiver: a full
\* channel loses the message.
Receivers == {c \in clients : conn[c] # "closed"}

Broadcast(m) ==
    /\ chan' = [c \in Conn |->
                  IF c \in Receivers /\ Len(chan[c]) < ChanCap
                  THEN Append(chan[c], m) ELSE chan[c]]
    /\ dropped' = dropped \cup {c \in Receivers : Len(chan[c]) = ChanCap}

\* Mutant: something keeps the session's clients after its task has ended.
SendersGoneIfDetached(c) == c \notin clients

\* Every sender of a client's channel is gone.
SendersGone(c) == c \notin clients \/ io = "gone"

Notify(c, e) == events' = [events EXCEPT ![c] = Append(@, e)]

-----------------------------------------------------------------------------
Init ==
    /\ out = 0 /\ io = "reading" /\ listed = TRUE
    /\ ctl = 0 /\ lock = "free"
    /\ clients = {} /\ dropped = {}
    /\ chan = [c \in Conn |-> <<>>]
    /\ conn = [c \in Conn |-> "none"]
    /\ snap = [c \in Conn |-> 0]
    /\ wire = [c \in Conn |-> <<>>]
    /\ up = [c \in Conn |-> <<>>]
    /\ rd = [c \in Conn |-> <<>>]
    /\ gui = [c \in Conn |-> "none"]
    /\ sent = [c \in Conn |-> 0]
    /\ shut = {}
    /\ buf = [c \in Conn |-> <<>>]
    /\ pending = {}
    /\ events = [c \in Conn |-> <<>>]
    /\ main = "idle"
    /\ pane = {}
    /\ view = [c \in Conn |-> <<0>>]

-----------------------------------------------------------------------------
(* session_io_task: read a chunk and feed it under the terminal's lock,    *)
(* then broadcast it under the clients' lock.  Neither needs the mutex.    *)
IoFeeds ==
    /\ io = "reading" /\ out < MaxOut
    /\ out' = out + 1
    /\ io' = "fed"
    /\ UNCHANGED <<listed, clients, chan, dropped, control, handler, wire, up,
                   threads, window>>

IoBroadcasts ==
    /\ io = "fed"
    /\ Broadcast(Chunk(out))
    /\ io' = "reading"
    /\ UNCHANGED <<out, listed, clients, control, handler, wire, up, threads,
                   window>>

(* control_rx.recv(): a resize is done at once, input is written in a loop *)
(* that reads no output, for as long as the shell does not read.           *)
IoTakes ==
    /\ io = "reading" /\ ctl > 0
    /\ ctl' = ctl - 1
    /\ io' \in {"reading", "writing"}
    /\ UNCHANGED <<out, listed, streams, lock, handler, wire, up, threads,
                   window>>

IoHasWritten ==
    /\ io = "writing"
    /\ io' = "reading"
    /\ UNCHANGED <<out, listed, streams, control, handler, wire, up, threads,
                   window>>

(* The loop ends; after waitpid the clients are told.                      *)
IoStops ==
    /\ io = "reading"
    /\ io' = "exited"
    /\ UNCHANGED <<out, listed, clients, chan, dropped, control, handler, wire,
                   up, threads, window>>

IoNotifies ==
    /\ io = "exited"
    /\ Broadcast(ExitMsg)
    /\ io' = "notified"
    /\ UNCHANGED <<out, listed, clients, control, handler, wire, up, threads,
                   window>>

(* The task removes the session from the manager, and with the session and *)
(* the task the last references to the clients go.                         *)
IoDelists ==
    /\ io = "notified" /\ lock = "free"
    /\ io' = "gone" /\ listed' = FALSE
    /\ ctl' = 0
    /\ UNCHANGED <<out, streams, lock, handler, wire, up, threads, window>>

(* Some request removes the session while its io task still runs.          *)
Removed ==
    /\ listed /\ lock = "free"
    /\ listed' = FALSE
    /\ UNCHANGED <<out, io, clients, chan, dropped, control, handler, wire, up,
                   threads, window>>

(* Another request resizes the session, in the same way: see TakeMutex.    *)
OtherSends ==
    /\ listed /\ lock = "free"
    /\ IF ctl < CtlCap THEN ctl' = ctl + 1 /\ UNCHANGED lock
                       ELSE lock' = "other" /\ UNCHANGED ctl
    /\ UNCHANGED <<daemon, handler, wire, up, threads, window>>

OtherResumes ==
    /\ lock = "other" /\ ctl < CtlCap
    /\ ctl' = ctl + 1 /\ lock' = "free"
    /\ UNCHANGED <<daemon, handler, wire, up, threads, window>>

-----------------------------------------------------------------------------
(* handle_binary_connection.  Under the mutex it attaches the client, then *)
(* takes the snapshot, then writes it to the socket.                       *)
Attach(c) ==
    /\ conn[c] = "accepted" /\ lock = "free" /\ listed
    /\ clients' = clients \cup {c}
    /\ lock' = c
    /\ conn' = [conn EXCEPT ![c] = "attached"]
    /\ UNCHANGED <<out, io, listed, ctl, chan, dropped, snap, rd, wire, up,
                   threads, window>>

Refuse(c) ==
    /\ conn[c] = "accepted" /\ lock = "free" /\ ~listed
    /\ Send(c, Reply("refused"))
    /\ conn' = [conn EXCEPT ![c] = "closed"]
    /\ UNCHANGED <<daemon, control, snap, rd, up, threads, window>>

TakeSnapshot(c) ==
    /\ conn[c] = "attached"
    /\ snap' = [snap EXCEPT ![c] = out]
    /\ conn' = [conn EXCEPT ![c] = "snapped"]
    /\ UNCHANGED <<daemon, control, rd, wire, up, threads, window>>

WriteSnapshot(c) ==
    /\ conn[c] = "snapped" /\ c \notin shut /\ Room(c)
    /\ Send(c, Snapshot(snap[c]))
    /\ snap' = [snap EXCEPT ![c] = 0]
    /\ lock' = "free"
    /\ conn' = [conn EXCEPT ![c] = "greeting"]
    /\ UNCHANGED <<daemon, ctl, rd, up, threads, window>>

\* Mutant: returns without detaching the client.
SnapshotFailsAttached(c) ==
    /\ conn[c] = "snapped" /\ c \in shut
    /\ lock' = "free"
    /\ conn' = [conn EXCEPT ![c] = "closed"]
    /\ UNCHANGED <<daemon, ctl, snap, rd, wire, up, threads, window>>

SnapshotFails(c) ==
    /\ conn[c] = "snapped" /\ c \in shut
    /\ clients' = clients \ {c}
    /\ lock' = "free"
    /\ conn' = [conn EXCEPT ![c] = "closed"]
    /\ UNCHANGED <<out, io, listed, ctl, chan, dropped, snap, rd, wire, up,
                   threads, window>>

WriteOk(c) ==
    /\ conn[c] = "greeting"
    /\ IF c \in shut
       THEN conn' = [conn EXCEPT ![c] = "leaving"] /\ UNCHANGED wire
       ELSE /\ Room(c)
            /\ Send(c, Reply("ok"))
            /\ conn' = [conn EXCEPT ![c] = "streaming"]
    /\ UNCHANGED <<daemon, control, snap, rd, up, threads, window>>

(* The streaming loop is a select! of the client's channel and read_frame. *)
(* When the channel wins, the read_frame future is dropped together with   *)
(* the parts it has consumed.                                              *)
ForwardMessage(c) ==
    /\ conn[c] = "streaming" /\ chan[c] # <<>>
    /\ c \in shut \/ Room(c)
    /\ chan' = [chan EXCEPT ![c] = Tail(@)]
    /\ rd' = [rd EXCEPT ![c] = <<>>]
    /\ IF c \in shut THEN UNCHANGED wire ELSE Send(c, Head(chan[c]))
    /\ conn' = [conn EXCEPT ![c] =
                  IF c \in shut \/ Head(chan[c]) = ExitMsg
                  THEN "leaving" ELSE "streaming"]
    /\ UNCHANGED <<out, io, listed, clients, dropped, control, snap, up,
                   threads, window>>

ChannelCloses(c) ==
    /\ conn[c] = "streaming" /\ chan[c] = <<>> /\ SendersGone(c)
    /\ conn' = [conn EXCEPT ![c] = "leaving"]
    /\ UNCHANGED <<daemon, control, snap, rd, wire, up, threads, window>>

ReadPart(c) ==
    /\ conn[c] = "streaming" /\ up[c] # <<>> /\ rd[c] = <<>>
    /\ rd' = [rd EXCEPT ![c] = Append(@, Head(up[c]))]
    /\ up' = [up EXCEPT ![c] = Tail(@)]
    /\ UNCHANGED <<daemon, control, conn, snap, wire, threads, window>>

(* A complete frame: a key or a resize, which is a command for the io      *)
(* task.  What does not start with a length is read as one all the same,   *)
(* and may be a command, something unknown, or out of range: the           *)
(* connection ends.                                                        *)
ReadFrame(c) ==
    /\ conn[c] = "streaming" /\ up[c] # <<>> /\ rd[c] # <<>>
    /\ up' = [up EXCEPT ![c] = Tail(@)]
    /\ rd' = [rd EXCEPT ![c] = <<>>]
    /\ \E next \in IF Append(rd[c], Head(up[c])) = <<1, 2>> THEN {"commanding"}
                   ELSE {"commanding", "streaming", "leaving"} :
           conn' = [conn EXCEPT ![c] = next]
    /\ UNCHANGED <<daemon, control, snap, wire, threads, window>>

(* manager.lock().await, and then send_input or resize_session: an unknown *)
(* session is an error nobody looks at; with room in the control channel   *)
(* the command is queued at once; without room the handler stays there     *)
(* with the mutex, away from its client's channel and socket.              *)
TakeMutex(c) ==
    /\ conn[c] = "commanding" /\ lock = "free"
    /\ IF listed /\ ctl = CtlCap
       THEN lock' = c /\ conn' = [conn EXCEPT ![c] = "sending"]
       ELSE UNCHANGED lock /\ conn' = [conn EXCEPT ![c] = "streaming"]
    /\ ctl' = IF listed /\ ctl < CtlCap THEN ctl + 1 ELSE ctl
    /\ UNCHANGED <<daemon, snap, rd, wire, up, threads, window>>

SendResumes(c) ==
    /\ conn[c] = "sending" /\ ctl < CtlCap
    /\ ctl' = ctl + 1 /\ lock' = "free"
    /\ conn' = [conn EXCEPT ![c] = "streaming"]
    /\ UNCHANGED <<daemon, snap, rd, wire, up, threads, window>>

\* Mutant: the streaming loop goes on after end of file.
ReadFailsAndGoesOn(c) ==
    /\ conn[c] = "streaming" /\ c \in shut /\ up[c] = <<>>
    /\ UNCHANGED vars

ReadFails(c) ==
    /\ conn[c] = "streaming" /\ c \in shut /\ up[c] = <<>>
    /\ conn' = [conn EXCEPT ![c] = "leaving"]
    /\ UNCHANGED <<daemon, control, snap, rd, wire, up, threads, window>>

(* detach_session finds the session only if it is still listed; then the   *)
(* handler returns and its end of the socket closes.                       *)
Detach(c) ==
    /\ conn[c] = "leaving" /\ lock = "free"
    /\ clients' = IF listed THEN clients \ {c} ELSE clients
    /\ conn' = [conn EXCEPT ![c] = "closed"]
    /\ up' = [up EXCEPT ![c] = <<>>] /\ rd' = [rd EXCEPT ![c] = <<>>]
    /\ UNCHANGED <<out, io, listed, chan, dropped, control, snap, wire,
                   threads, window>>

-----------------------------------------------------------------------------
(* The GUI.  spawn_pane and attach_existing_session start a reader thread, *)
(* which connects and sends the attach request.                            *)
Connect(c) ==
    /\ gui[c] = "none"
    /\ gui' = [gui EXCEPT ![c] = "handshake"]
    /\ conn' = [conn EXCEPT ![c] = "accepted"]
    /\ pane' = pane \cup {c}
    /\ UNCHANGED <<daemon, control, snap, rd, wire, up, sent, shut, buf,
                   pending, events, main, view>>

Receive(c, kind) ==
    /\ wire[c] # <<>> /\ Head(wire[c]).kind = kind
    /\ wire' = [wire EXCEPT ![c] = Tail(@)]

(* The thread ends with DaemonReaderEvent::Exited, closing the socket.     *)
ReaderEnds(c) ==
    /\ gui' = [gui EXCEPT ![c] = "gone"]
    /\ shut' = shut \cup {c}
    /\ Notify(c, ExitMsg)

ReaderGetsSnapshot(c) ==
    /\ gui[c] = "handshake"
    /\ Receive(c, "snapshot")
    /\ Notify(c, Head(wire[c]))
    /\ UNCHANGED <<daemon, control, handler, up, threads, buf, pending, main,
                   pane, view>>

ReaderGetsOk(c) ==
    /\ gui[c] = "handshake"
    /\ Receive(c, "ok")
    /\ gui' = [gui EXCEPT ![c] = "reading"]
    /\ UNCHANGED <<daemon, control, handler, up, sent, shut, window>>

(* Refused, or no answer within the 5 s of the handshake's read timeout.   *)
ReaderGivesUp(c) ==
    /\ gui[c] = "handshake"
    /\ \/ Receive(c, "refused")
       \/ wire[c] = <<>> /\ UNCHANGED wire
    /\ ReaderEnds(c)
    /\ UNCHANGED <<daemon, control, handler, up, sent, buf, pending, main,
                   pane, view>>

\* Mutant: pushes before what is buffered.
ReaderPushesInFront(c) ==
    /\ gui[c] = "reading"
    /\ Receive(c, "chunk")
    /\ buf' = IF c \in pane
              THEN [buf EXCEPT ![c] = <<Head(wire[c]).n>> \o @] ELSE buf
    /\ gui' = [gui EXCEPT ![c] = "pushed"]
    /\ UNCHANGED <<daemon, control, handler, up, sent, shut, pending, events,
                   main, pane, view>>

\* Mutant: sends an event only if the flag was already set.
ReaderSwapsInverted(c) ==
    /\ gui[c] = "pushed"
    /\ gui' = [gui EXCEPT ![c] = "reading"]
    /\ pending' = pending \cup {c}
    /\ IF c \in pending THEN Notify(c, Reply("output"))
                        ELSE UNCHANGED events
    /\ UNCHANGED <<daemon, control, handler, wire, up, sent, shut, buf, main,
                   pane, view>>

(* DaemonReaderEvent::Output: push to the pane's buffer, if it still has   *)
(* one, and then swap the pending flag, sending an event if it was clear.  *)
ReaderPushes(c) ==
    /\ gui[c] = "reading"
    /\ Receive(c, "chunk")
    /\ buf' = IF c \in pane
              THEN [buf EXCEPT ![c] = Append(@, Head(wire[c]).n)] ELSE buf
    /\ gui' = [gui EXCEPT ![c] = "pushed"]
    /\ UNCHANGED <<daemon, control, handler, up, sent, shut, pending, events,
                   main, pane, view>>

ReaderSwapsPending(c) ==
    /\ gui[c] = "pushed"
    /\ gui' = [gui EXCEPT ![c] = "reading"]
    /\ pending' = pending \cup {c}
    /\ IF c \in pending THEN UNCHANGED events
                        ELSE Notify(c, Reply("output"))
    /\ UNCHANGED <<daemon, control, handler, wire, up, sent, shut, buf, main,
                   pane, view>>

(* session_exited, end of file, or the pane shut the socket down.          *)
ReaderStops(c) ==
    /\ gui[c] = "reading"
    /\ \/ Receive(c, "exit")
       \/ /\ c \in shut \/ (wire[c] = <<>> /\ conn[c] = "closed")
          /\ UNCHANGED wire
    /\ ReaderEnds(c)
    /\ UNCHANGED <<daemon, control, handler, up, sent, buf, pending, main,
                   pane, view>>

(* The writer thread sends key input and resizes, a part at a time, while  *)
(* the other end is open.                                                  *)
WriterWrites(c) ==
    /\ gui[c] \in {"reading", "pushed"} /\ c \notin shut
    /\ conn[c] # "closed" /\ sent[c] < 2 * MaxKeys
    /\ c \in pane \/ sent[c] % 2 # 0
    /\ sent' = [sent EXCEPT ![c] = @ + 1]
    /\ up' = [up EXCEPT ![c] = Append(@, (sent[c] % 2) + 1)]
    /\ UNCHANGED <<daemon, control, handler, wire, gui, shut, window>>

(* WriteCommand::Shutdown, taken between two frames: the writer exists     *)
(* once the handshake is over.                                             *)
WriterShutsDown(c) ==
    /\ gui[c] \in {"reading", "pushed"} /\ c \notin shut
    /\ c \notin pane /\ sent[c] % 2 = 0
    /\ shut' = shut \cup {c}
    /\ UNCHANGED <<daemon, control, handler, wire, up, gui, sent, window>>

(* UserEvent::PtyOutput: clear the flag, then drain the buffer into the    *)
(* pane's terminal under the buffers' lock.                                *)
NextEvent(c, kind) ==
    /\ main = "idle"
    /\ events[c] # <<>> /\ Head(events[c]).kind = kind
    /\ events' = [events EXCEPT ![c] = Tail(@)]

\* Mutant: leaves the flag set.
HandleOutputKeepsFlag(c) ==
    /\ NextEvent(c, "output")
    /\ main' = c
    /\ UNCHANGED <<daemon, control, handler, wire, up, threads, buf, pending,
                   pane, view>>

HandleOutput(c) ==
    /\ NextEvent(c, "output")
    /\ pending' = pending \ {c}
    /\ main' = c
    /\ UNCHANGED <<daemon, control, handler, wire, up, threads, buf, pane,
                   view>>

Drain(c) ==
    /\ main = c
    /\ main' = "idle"
    /\ view' = IF c \in pane THEN [view EXCEPT ![c] = @ \o buf[c]] ELSE view
    /\ buf' = [buf EXCEPT ![c] = <<>>]
    /\ UNCHANGED <<daemon, control, handler, wire, up, threads, pending,
                   events, pane>>

\* Mutant: also forgets the output buffered since.
HandleSnapshotClears(c) ==
    /\ NextEvent(c, "snapshot")
    /\ view' = IF c \in pane
               THEN [view EXCEPT ![c] = <<Head(events[c]).n>>] ELSE view
    /\ buf' = [buf EXCEPT ![c] = <<>>]
    /\ UNCHANGED <<daemon, control, handler, wire, up, threads, pending, main,
                   pane>>

(* UserEvent::SnapshotReceived replaces the pane's terminal.               *)
HandleSnapshot(c) ==
    /\ NextEvent(c, "snapshot")
    /\ view' = IF c \in pane
               THEN [view EXCEPT ![c] = <<Head(events[c]).n>>] ELSE view
    /\ UNCHANGED <<daemon, control, handler, wire, up, threads, buf, pending,
                   main, pane>>

(* A pane goes with its terminal, its buffer and its flag.  Its Drop       *)
(* leaves a Shutdown for the writer thread, see WriterShutsDown.           *)
DropPane(c) ==
    /\ pane' = pane \ {c}
    /\ buf' = [buf EXCEPT ![c] = <<>>]
    /\ pending' = pending \ {c}
    /\ view' = [view EXCEPT ![c] = <<0>>]

HandleExited(c) ==
    /\ NextEvent(c, "exit")
    /\ DropPane(c)
    /\ UNCHANGED <<daemon, control, handler, wire, up, threads, main>>

(* The user closes the pane.                                               *)
ClosePane(c) ==
    /\ main = "idle" /\ c \in pane
    /\ DropPane(c)
    /\ UNCHANGED <<daemon, control, handler, wire, up, threads, events, main>>

-----------------------------------------------------------------------------
IoTask ==
    \/ IoFeeds \/ IoBroadcasts \/ IoTakes \/ IoHasWritten
    \/ IoStops \/ IoNotifies \/ IoDelists

Handler(c) ==
    \/ Attach(c) \/ Refuse(c) \/ TakeSnapshot(c) \/ WriteSnapshot(c)
    \/ SnapshotFails(c) \/ WriteOk(c)
    \/ ForwardMessage(c) \/ ChannelCloses(c)
    \/ ReadPart(c) \/ ReadFrame(c) \/ ReadFails(c)
    \/ TakeMutex(c) \/ SendResumes(c)
    \/ Detach(c)

Reader(c) ==
    \/ ReaderGetsSnapshot(c) \/ ReaderGetsOk(c) \/ ReaderGivesUp(c)
    \/ ReaderPushes(c) \/ ReaderSwapsPending(c) \/ ReaderStops(c)

EventLoop(c) ==
    \/ HandleOutput(c) \/ Drain(c) \/ HandleSnapshot(c) \/ HandleExited(c)

Next ==
    \/ IoTask \/ Removed \/ OtherSends \/ OtherResumes
    \/ \E c \in Conn : \/ Handler(c) \/ Reader(c) \/ EventLoop(c)
                       \/ Connect(c) \/ ClosePane(c)
                       \/ WriterWrites(c) \/ WriterShutsDown(c)

(* The mutex is first come first served, so what waits for it is strongly  *)
(* fair.  select! picks among the ready branches at random: each is fair   *)
(* on its own.  The reader, the writer in the middle of a frame and the    *)
(* event loop are threads that run.  Nothing makes the shell write, read   *)
(* its input or exit, a user close a pane, or a request resize or remove   *)
(* the session.                                                            *)
Fairness ==
    /\ WF_vars(IoBroadcasts \/ IoNotifies)
    /\ WF_vars(IoTakes)
    /\ SF_vars(IoDelists)
    /\ WF_vars(OtherResumes)
    /\ \A c \in Conn :
        /\ SF_vars(Attach(c) \/ Refuse(c) \/ TakeMutex(c) \/ Detach(c))
        /\ WF_vars(\/ TakeSnapshot(c) \/ WriteSnapshot(c) \/ SnapshotFails(c)
                   \/ WriteOk(c))
        /\ WF_vars(SendResumes(c))
        /\ WF_vars(ForwardMessage(c))
        /\ WF_vars(ChannelCloses(c))
        /\ WF_vars(ReadPart(c) \/ ReadFrame(c) \/ ReadFails(c))
        /\ WF_vars(Reader(c))
        /\ WF_vars(WriterShutsDown(c) \/ (sent[c] % 2 # 0 /\ WriterWrites(c)))
        /\ SF_vars(EventLoop(c))

Spec == Init /\ [][Next]_vars

FairSpec == Spec /\ Fairness

-----------------------------------------------------------------------------
(* After the snapshot a pane shows chunks in the order the shell wrote     *)
(* them and none twice.                                                    *)
ShownInOrder ==
    \A c \in Conn : \A i \in 2..(Len(view[c]) - 1) :
        view[c][i] < view[c][i + 1]

(* A pane's output has no gap, between the snapshot and the first chunk or *)
(* later, unless a full channel cost its client a message: the client is   *)
(* attached before the snapshot is taken.                                  *)
NoGapUnlessDropped ==
    \A c \in Conn \ dropped : \A i \in 1..(Len(view[c]) - 1) :
        view[c][i + 1] <= view[c][i] + 1

(* A pane with buffered output has an event in the queue that will drain   *)
(* it, unless its reader or the event handler is about to see to it: the   *)
(* flag that spares events never swallows the last one.                    *)
NoLostWakeup ==
    \A c \in pane :
        buf[c] # <<>> =>
            \/ gui[c] = "pushed" \/ main = c
            \/ \E i \in DOMAIN events[c] : events[c][i] = Reply("output")

(* Once a connection is over the client is not in the session's list, so   *)
(* that is_attached() tells whether a pane is there to show the session.   *)
ClosedIsDetached ==
    listed => \A c \in clients : conn[c] # "closed"

(* Somebody holds the mutex, waiting for room in the control channel of an *)
(* io task that takes nothing from it: it writes input the shell does not  *)
(* read, or it is past its loop and waits for the same mutex.              *)
Jammed ==
    /\ lock = "other" \/ \E c \in Conn : conn[c] = "sending"
    /\ io \in {"writing", "exited", "notified"}

JamsPass == []<>~Jammed

(* Whatever the shell has written, an attached pane gets to show it,       *)
(* unless its channel overflowed, the pane goes, or the mutex is jammed    *)
(* for good.                                                               *)
PaneCatchesUp ==
    JamsPass =>
        \A c \in Conn : \A k \in 1..MaxOut :
            (gui[c] = "reading" /\ out = k) ~>
                \/ view[c][Len(view[c])] >= k
                \/ c \in dropped \/ c \notin pane

(* Every pane of a session that ended is closed: by the exit message, or,  *)
(* when that was dropped or the client attached after it, by end of file.  *)
PaneLearnsOfExit ==
    \A c \in Conn : (io = "gone" /\ c \in pane) ~> c \notin pane

(* Dropping a pane detaches its client, also in the middle of a handshake, *)
(* with the socket full or with its last key on the way to the io task,    *)
(* unless the mutex is jammed for good.                                    *)
ClosedPaneDetaches ==
    JamsPass =>
        \A c \in Conn :
            (gui[c] # "none" /\ c \notin pane) ~> (c \notin clients \/ ~listed)

=============================================================================
