------------------------ MODULE AttachStream_proofs ------------------------
(***************************************************************************)
(* Theorems about AttachStream, for any number of connections, any amount  *)
(* of output and any capacities of channels and sockets.                   *)
(***************************************************************************)
EXTENDS AttachStream, SequenceTheorems, TLAPS

Message == [kind : {"chunk", "snapshot", "exit", "ok", "refused", "output"}, n : Nat]

Types ==
    /\ out \in Nat
    /\ clients \subseteq Conn
    /\ chan \in [Conn -> Seq(Message)] /\ wire \in [Conn -> Seq(Message)]
    /\ conn \in [Conn -> {"none", "accepted", "attached", "snapped", "greeting",
                          "streaming", "commanding", "sending", "leaving",
                          "closed"}]
    /\ snap \in [Conn -> Nat]
    /\ gui \in [Conn -> {"none", "handshake", "reading", "pushed", "gone"}]
    /\ buf \in [Conn -> Seq(Nat)]
    /\ pending \subseteq Conn
    /\ events \in [Conn -> Seq(Message)]
    /\ main \in Conn \cup {"idle"}
    /\ pane \subseteq Conn
    /\ view \in [Conn -> Seq(Nat)]

-----------------------------------------------------------------------------
(* The steps that only move the mutex and the control channel.             *)

Commands  == IoTakes \/ IoHasWritten
Elsewhere == Removed \/ OtherSends \/ OtherResumes

LEMMA CommandsTouch ==
    Commands => /\ io # "fed" /\ io' # "fed"
                /\ UNCHANGED <<out, listed, streams, handler, wire, up, threads, window>>
BY DEF Commands, IoTakes, IoHasWritten

LEMMA ElsewhereTouches ==
    Elsewhere => /\ listed' => listed
                 /\ UNCHANGED <<out, io, streams, handler, wire, up, threads, window>>
BY DEF Elsewhere, Removed, OtherSends, OtherResumes, daemon, streams

LEMMA HandlerCommands ==
    ASSUME NEW c \in Conn, TakeMutex(c) \/ SendResumes(c)
    PROVE  /\ conn[c] \in {"commanding", "sending"}
           /\ \/ conn' = [conn EXCEPT ![c] = "streaming"]
              \/ conn' = [conn EXCEPT ![c] = "sending"]
           /\ UNCHANGED <<daemon, snap, rd, wire, up, threads, window>>
BY DEF TakeMutex, SendResumes

-----------------------------------------------------------------------------
(* Each step keeps the variables in their sets.                            *)

LEMMA MessagesAreMessages ==
    /\ \A n \in Nat : Chunk(n) \in Message /\ Snapshot(n) \in Message
    /\ ExitMsg \in Message
    /\ \A kind \in {"ok", "refused", "output"} : Reply(kind) \in Message
<1>1. Nat # {} /\ 0 \in Nat
  OBVIOUS
<1> QED
  BY <1>1, SMTT(30) DEF Message, Chunk, Snapshot, ExitMsg, Reply

LEMMA TailsAreTails ==
    ASSUME NEW f \in [Conn -> Seq(Message)], NEW c \in Conn, f[c] # <<>>
    PROVE  /\ [f EXCEPT ![c] = Tail(@)] \in [Conn -> Seq(Message)]
           /\ Head(f[c]) \in Message /\ Head(f[c]).n \in Nat
           /\ Tail(f[c]) \in Seq(Message)
<1>1. f[c] \in Seq(Message)
  OBVIOUS
<1>2. Head(f[c]) \in Message /\ Tail(f[c]) \in Seq(Message)
  BY <1>1, HeadTailProperties
<1> QED
  BY <1>2 DEF Message

LEMMA TypeStep ==
    Types /\ [Next]_vars => Types'
<1> SUFFICES ASSUME Types, [Next]_vars PROVE Types'
  OBVIOUS
<1> USE DEF Types, daemon, streams, handler, window, threads
<1>1. CASE IoTask
  <2>1. \A m \in Message : Broadcast(m) => chan' \in [Conn -> Seq(Message)]
    BY DEF Broadcast
  <2> QED
    BY <1>1, <2>1, MessagesAreMessages
       DEF IoTask, IoFeeds, IoBroadcasts, IoTakes, IoHasWritten, IoStops, IoNotifies,
           IoDelists
<1>2. CASE Elsewhere
  BY <1>2, ElsewhereTouches
<1>3. ASSUME NEW c \in Conn, Handler(c)
      PROVE  Types'
  <2>1. \A m \in Message : Send(c, m) => wire' \in [Conn -> Seq(Message)]
    BY DEF Send
  <2>2. CASE Attach(c) \/ SnapshotFails(c) \/ ChannelCloses(c) \/ Detach(c)
    BY <2>2 DEF Attach, SnapshotFails, ChannelCloses, Detach
  <2>3. CASE Refuse(c) \/ WriteOk(c)
    BY <2>1, <2>3, MessagesAreMessages DEF Refuse, WriteOk
  <2>4. CASE TakeSnapshot(c)
    BY <2>4 DEF TakeSnapshot
  <2>5. CASE WriteSnapshot(c)
    BY <2>1, <2>5, MessagesAreMessages DEF WriteSnapshot
  <2>6. CASE ForwardMessage(c)
    <3>1. Head(chan[c]) \in Message /\ chan' \in [Conn -> Seq(Message)]
      BY <2>6, TailsAreTails DEF ForwardMessage
    <3>2. wire' \in [Conn -> Seq(Message)]
      BY <2>1, <2>6, <3>1 DEF ForwardMessage
    <3> QED
      BY <2>6, <3>1, <3>2 DEF ForwardMessage
  <2>7. CASE ReadPart(c) \/ ReadFrame(c) \/ ReadFails(c)
    BY <2>7 DEF ReadPart, ReadFrame, ReadFails
  <2>8. CASE TakeMutex(c) \/ SendResumes(c)
    BY <2>8, HandlerCommands
  <2> QED
    BY <1>3, <2>2, <2>3, <2>4, <2>5, <2>6, <2>7, <2>8 DEF Handler
<1>4. ASSUME NEW c \in Conn, Reader(c)
      PROVE  Types'
  <2>1. \A m \in Message : Notify(c, m) => events' \in [Conn -> Seq(Message)]
    BY DEF Notify
  <2>2. \A kind : Receive(c, kind) => /\ wire' \in [Conn -> Seq(Message)]
                                      /\ Head(wire[c]) \in Message /\ Head(wire[c]).n \in Nat
    <3> SUFFICES ASSUME NEW kind, Receive(c, kind)
                 PROVE  /\ wire' \in [Conn -> Seq(Message)]
                        /\ Head(wire[c]) \in Message /\ Head(wire[c]).n \in Nat
      OBVIOUS
    <3>1. wire \in [Conn -> Seq(Message)] /\ wire[c] # <<>>
      BY DEF Receive
    <3>2. wire' = [wire EXCEPT ![c] = Tail(@)]
      BY DEF Receive
    <3> HIDE DEF Types
    <3> QED
      BY <3>1, <3>2, TailsAreTails
  <2>3. CASE ReaderGetsSnapshot(c)
    BY <2>1, <2>2, <2>3 DEF ReaderGetsSnapshot
  <2>4. CASE ReaderGetsOk(c)
    BY <2>2, <2>4 DEF ReaderGetsOk
  <2>5. CASE ReaderGivesUp(c)
    BY <2>1, <2>2, <2>5, MessagesAreMessages DEF ReaderGivesUp, ReaderEnds
  <2>6. CASE ReaderPushes(c)
    <3>1. wire' \in [Conn -> Seq(Message)] /\ Head(wire[c]).n \in Nat
      BY <2>2, <2>6 DEF ReaderPushes
    <3>2. buf' \in [Conn -> Seq(Nat)]
      BY <3>1, <2>6 DEF ReaderPushes
    <3> QED
      BY <3>1, <3>2, <2>6 DEF ReaderPushes
  <2>7. CASE ReaderSwapsPending(c)
    BY <2>1, <2>7, MessagesAreMessages DEF ReaderSwapsPending
  <2>8. CASE ReaderStops(c)
    BY <2>1, <2>2, <2>8, MessagesAreMessages DEF ReaderStops, ReaderEnds
  <2> QED
    BY <1>4, <2>3, <2>4, <2>5, <2>6, <2>7, <2>8 DEF Reader
<1>5. ASSUME NEW c \in Conn, EventLoop(c)
      PROVE  Types'
  <2>1. \A kind : NextEvent(c, kind) => /\ events' \in [Conn -> Seq(Message)]
                                        /\ Head(events[c]).n \in Nat
    <3> SUFFICES ASSUME NEW kind, NextEvent(c, kind)
                 PROVE  /\ events' \in [Conn -> Seq(Message)]
                        /\ Head(events[c]).n \in Nat
      OBVIOUS
    <3>1. events \in [Conn -> Seq(Message)] /\ events[c] # <<>>
      BY DEF NextEvent
    <3>2. events' = [events EXCEPT ![c] = Tail(@)]
      BY DEF NextEvent
    <3> HIDE DEF Types
    <3> QED
      BY <3>1, <3>2, TailsAreTails
  <2>2. CASE HandleOutput(c)
    BY <2>1, <2>2 DEF HandleOutput
  <2>3. CASE Drain(c)
    BY <2>3 DEF Drain
  <2>4. CASE HandleSnapshot(c)
    <3>1. events' \in [Conn -> Seq(Message)] /\ Head(events[c]).n \in Nat
      BY <2>1, <2>4 DEF HandleSnapshot
    <3>2. view' \in [Conn -> Seq(Nat)]
      <4>1. \A n \in Nat : <<n>> \in Seq(Nat)
        OBVIOUS
      <4> QED
        BY <2>4, <3>1, <4>1 DEF HandleSnapshot
    <3> QED
      BY <2>4, <3>1, <3>2 DEF HandleSnapshot
  <2>5. CASE HandleExited(c)
    <3>1. <<0>> \in Seq(Nat) /\ <<>> \in Seq(Nat)
      OBVIOUS
    <3> QED
      BY <2>1, <2>5, <3>1, SMTT(20) DEF HandleExited, DropPane
  <2> QED
    BY <1>5, <2>2, <2>3, <2>4, <2>5 DEF EventLoop
<1>6. ASSUME NEW c \in Conn,
             Connect(c) \/ ClosePane(c) \/ WriterWrites(c) \/ WriterShutsDown(c)
      PROVE  Types'
  <2>1. CASE Connect(c)
    BY <2>1 DEF Connect
  <2>2. CASE ClosePane(c)
    <3>1. <<0>> \in Seq(Nat) /\ <<>> \in Seq(Nat)
      OBVIOUS
    <3> QED
      BY <2>2, <3>1 DEF ClosePane, DropPane
  <2>3. CASE WriterWrites(c)
    BY <2>3 DEF WriterWrites
  <2>4. CASE WriterShutsDown(c)
    BY <2>4 DEF WriterShutsDown
  <2> QED
    BY <1>6, <2>1, <2>2, <2>3, <2>4
<1>7. CASE UNCHANGED vars
  BY <1>7 DEF vars
<1> QED
  BY <1>1, <1>2, <1>3, <1>4, <1>5, <1>6, <1>7 DEF Next, Elsewhere

-----------------------------------------------------------------------------
(* Where the chunks of a connection are: in its channel, on its wire, in   *)
(* the pane's buffer and in the pane's view, oldest last.  Each part is in *)
(* order, each is older than the one before it, and the next chunk to be   *)
(* broadcast is newer than all.                                            *)

Rising(s, k) == \A i, j \in k..Len(s) : i < j => s[i] < s[j]
From(s, k)   == {s[i] : i \in k..Len(s)}

IsChunk(m)   == m.kind = "chunk"
Mono(s)      == \A i, j \in 1..Len(s) :
                    i < j /\ IsChunk(s[i]) /\ IsChunk(s[j]) => s[i].n < s[j].n
Nums(s)      == {s[i].n : i \in {k \in 1..Len(s) : IsChunk(s[k])}}

Before(S, T) == \A x \in S, y \in T : x < y

Pipe(v, b, w, q, f) ==
    /\ Rising(v, 2) /\ Rising(b, 1) /\ Mono(w) /\ Mono(q)
    /\ Before(From(v, 2), From(b, 1)) /\ Before(From(v, 2), Nums(w))
    /\ Before(From(v, 2), Nums(q)) /\ Before(From(b, 1), Nums(w))
    /\ Before(From(b, 1), Nums(q)) /\ Before(Nums(w), Nums(q))
    /\ Before(From(v, 2) \cup From(b, 1) \cup Nums(w) \cup Nums(q), {f})

LEMMA NumsAreNumbers ==
    /\ \A s \in Seq(Message) : Nums(s) \subseteq Nat
    /\ \A s \in Seq(Nat) : \A k \in {1, 2} : From(s, k) \subseteq Nat
<1>1. ASSUME NEW s \in Seq(Message), NEW i \in 1..Len(s)
      PROVE  s[i].n \in Nat
  <2>1. s[i] \in Message
    BY ElementOfSeq
  <2> QED
    BY <2>1 DEF Message
<1>2. ASSUME NEW s \in Seq(Nat), NEW k \in {1, 2}, NEW i \in k..Len(s)
      PROVE  s[i] \in Nat
  BY ElementOfSeq
<1> QED
  BY <1>1, <1>2 DEF Nums, From

LEMMA TailKeepsOrder ==
    ASSUME NEW s \in Seq(Message), s # <<>>, Mono(s)
    PROVE  /\ Mono(Tail(s)) /\ Nums(Tail(s)) \subseteq Nums(s)
           /\ IsChunk(Head(s)) => /\ Head(s).n \in Nums(s)
                                  /\ Before({Head(s).n}, Nums(Tail(s)))
<1>1. /\ Len(s) \in Nat \ {0} /\ Len(Tail(s)) = Len(s) - 1 /\ Head(s) = s[1]
      /\ \A i \in 1..Len(Tail(s)) : Tail(s)[i] = s[i + 1]
  BY HeadTailProperties, EmptySeq, LenProperties
<1>2. Mono(Tail(s))
  BY <1>1 DEF Mono
<1>3. Nums(Tail(s)) \subseteq Nums(s)
  BY <1>1 DEF Nums
<1>4. IsChunk(Head(s)) => Head(s).n \in Nums(s)
  BY <1>1 DEF Nums
<1>5. IsChunk(Head(s)) => Before({Head(s).n}, Nums(Tail(s)))
  BY <1>1 DEF Mono, Nums, Before
<1> QED
  BY <1>2, <1>3, <1>4, <1>5

LEMMA AppendKeepsOrder ==
    ASSUME NEW s \in Seq(Message), NEW m \in Message, Mono(s),
           IsChunk(m) => Before(Nums(s), {m.n})
    PROVE  /\ Mono(Append(s, m))
           /\ Nums(Append(s, m)) = Nums(s) \cup (IF IsChunk(m) THEN {m.n} ELSE {})
<1>1. /\ Len(s) \in Nat /\ Len(Append(s, m)) = Len(s) + 1
      /\ \A i \in 1..Len(s) : Append(s, m)[i] = s[i]
      /\ Append(s, m)[Len(s) + 1] = m
  BY AppendProperties, LenProperties
<1>2. \A i \in 1..Len(s) : IsChunk(s[i]) => s[i].n \in Nums(s)
  BY DEF Nums
<1>3. Mono(Append(s, m))
  BY <1>1, <1>2 DEF Mono, Before
<1>4. Nums(Append(s, m)) = Nums(s) \cup (IF IsChunk(m) THEN {m.n} ELSE {})
  BY <1>1 DEF Nums
<1> QED
  BY <1>3, <1>4

LEMMA BufferKeepsOrder ==
    ASSUME NEW b \in Seq(Nat), NEW n \in Nat, Rising(b, 1), Before(From(b, 1), {n})
    PROVE  Rising(Append(b, n), 1) /\ From(Append(b, n), 1) = From(b, 1) \cup {n}
<1>1. /\ Len(b) \in Nat /\ Len(Append(b, n)) = Len(b) + 1
      /\ \A i \in 1..Len(b) : Append(b, n)[i] = b[i]
      /\ Append(b, n)[Len(b) + 1] = n
  BY AppendProperties, LenProperties
<1>2. \A i \in 1..Len(b) : b[i] < n
  BY DEF From, Before
<1>3. Rising(Append(b, n), 1)
  BY <1>1, <1>2 DEF Rising
<1>4. From(Append(b, n), 1) = From(b, 1) \cup {n}
  BY <1>1 DEF From
<1> QED
  BY <1>3, <1>4

LEMMA DrainKeepsOrder ==
    ASSUME NEW v \in Seq(Nat), NEW b \in Seq(Nat),
           Rising(v, 2), Rising(b, 1), Before(From(v, 2), From(b, 1))
    PROVE  /\ Rising(v \o b, 2)
           /\ From(v \o b, 2) \subseteq From(v, 2) \cup From(b, 1)
<1>1. /\ Len(v) \in Nat /\ Len(b) \in Nat /\ Len(v \o b) = Len(v) + Len(b)
      /\ \A i \in 1..(Len(v) + Len(b)) :
            (v \o b)[i] = IF i <= Len(v) THEN v[i] ELSE b[i - Len(v)]
  BY ConcatProperties, LenProperties
<1>2. ASSUME NEW i \in 2..Len(v \o b)
      PROVE  \/ i \in 2..Len(v) /\ (v \o b)[i] = v[i] /\ v[i] \in From(v, 2)
             \/ /\ i \notin 2..Len(v) /\ i > Len(v) /\ i - Len(v) \in 1..Len(b)
                /\ (v \o b)[i] = b[i - Len(v)] /\ b[i - Len(v)] \in From(b, 1)
  <2>1. CASE i <= Len(v)
    BY <1>1, <2>1 DEF From
  <2>2. CASE i > Len(v)
    BY <1>1, <2>2 DEF From
  <2> QED
    BY <1>1, <2>1, <2>2
<1>3. ASSUME NEW i \in 2..Len(v \o b), NEW j \in 2..Len(v \o b), i < j
      PROVE  (v \o b)[i] < (v \o b)[j]
  <2>1. CASE j \in 2..Len(v)
    BY <1>1, <1>2, <1>3, <2>1 DEF Rising
  <2>2. CASE j \notin 2..Len(v) /\ i \in 2..Len(v)
    BY <1>2, <2>2 DEF Before
  <2>3. CASE j \notin 2..Len(v) /\ i \notin 2..Len(v)
    <3>1. /\ i - Len(v) \in 1..Len(b) /\ j - Len(v) \in 1..Len(b)
          /\ (v \o b)[i] = b[i - Len(v)] /\ (v \o b)[j] = b[j - Len(v)]
      BY <1>2, <2>3
    <3>2. i - Len(v) < j - Len(v)
      BY <1>1, <1>3
    <3> QED
      BY <3>1, <3>2 DEF Rising
  <2> QED
    BY <2>1, <2>2, <2>3
<1> QED
  BY <1>2, <1>3 DEF Rising, From

(* What each kind of step does to the pipe.                                *)

LEMMA PipeLosesHead ==
    ASSUME NEW v \in Seq(Nat), NEW b \in Seq(Nat), NEW w \in Seq(Message),
           NEW q \in Seq(Message), NEW f, Pipe(v, b, w, q, f)
    PROVE  /\ w # <<>> => Pipe(v, b, Tail(w), q, f)
           /\ q # <<>> => Pipe(v, b, w, Tail(q), f)
<1>1. ASSUME w # <<>>
      PROVE  Pipe(v, b, Tail(w), q, f)
  <2>1. Mono(w)
    BY DEF Pipe
  <2>2. Mono(Tail(w)) /\ Nums(Tail(w)) \subseteq Nums(w)
    BY <1>1, <2>1, TailKeepsOrder
  <2> QED
    BY <2>2 DEF Pipe, Before
<1>2. ASSUME q # <<>>
      PROVE  Pipe(v, b, w, Tail(q), f)
  <2>1. Mono(q)
    BY DEF Pipe
  <2>2. Mono(Tail(q)) /\ Nums(Tail(q)) \subseteq Nums(q)
    BY <1>2, <2>1, TailKeepsOrder
  <2> QED
    BY <2>2 DEF Pipe, Before
<1> QED
  BY <1>1, <1>2

LEMMA PipeBroadcasts ==
    ASSUME NEW v \in Seq(Nat), NEW b \in Seq(Nat), NEW w \in Seq(Message),
           NEW q \in Seq(Message), NEW n \in Nat, Pipe(v, b, w, q, n)
    PROVE  /\ Pipe(v, b, w, q, n + 1)
           /\ Pipe(v, b, w, Append(q, Chunk(n)), n + 1)
<1>1. /\ From(v, 2) \subseteq Nat /\ From(b, 1) \subseteq Nat
      /\ Nums(w) \subseteq Nat /\ Nums(q) \subseteq Nat
  BY NumsAreNumbers
<1>2. Pipe(v, b, w, q, n + 1)
  BY <1>1 DEF Pipe, Before
<1>3. Chunk(n) \in Message /\ IsChunk(Chunk(n)) /\ Chunk(n).n = n
  BY MessagesAreMessages DEF IsChunk, Chunk
<1>4. Mono(q) /\ Before(Nums(q), {n})
  BY DEF Pipe, Before
<1>5. Mono(Append(q, Chunk(n))) /\ Nums(Append(q, Chunk(n))) = Nums(q) \cup {n}
  BY <1>3, <1>4, AppendKeepsOrder
<1>6. Pipe(v, b, w, Append(q, Chunk(n)), n + 1)
  BY <1>1, <1>2, <1>5 DEF Pipe, Before
<1> QED
  BY <1>2, <1>6

LEMMA PipeCarriesOther ==
    ASSUME NEW v \in Seq(Nat), NEW b \in Seq(Nat), NEW w \in Seq(Message),
           NEW q \in Seq(Message), NEW f, Pipe(v, b, w, q, f),
           NEW m \in Message, ~IsChunk(m)
    PROVE  Pipe(v, b, w, Append(q, m), f) /\ Pipe(v, b, Append(w, m), q, f)
<1>1. Mono(q) /\ Mono(w)
  BY DEF Pipe
<1>2. /\ Mono(Append(q, m)) /\ Nums(Append(q, m)) = Nums(q)
      /\ Mono(Append(w, m)) /\ Nums(Append(w, m)) = Nums(w)
  BY <1>1, AppendKeepsOrder
<1> QED
  BY <1>2 DEF Pipe

LEMMA PipeForwards ==
    ASSUME NEW v \in Seq(Nat), NEW b \in Seq(Nat), NEW w \in Seq(Message),
           NEW q \in Seq(Message), NEW f, Pipe(v, b, w, q, f), q # <<>>
    PROVE  Pipe(v, b, Append(w, Head(q)), Tail(q), f)
<1>1. Mono(q) /\ Mono(w) /\ Before(Nums(w), Nums(q))
  BY DEF Pipe
<1>2. /\ Mono(Tail(q)) /\ Nums(Tail(q)) \subseteq Nums(q)
      /\ IsChunk(Head(q)) => /\ Head(q).n \in Nums(q)
                             /\ Before({Head(q).n}, Nums(Tail(q)))
  BY <1>1, TailKeepsOrder
<1>3. Head(q) \in Message
  BY HeadTailProperties
<1>4. IsChunk(Head(q)) => Before(Nums(w), {Head(q).n})
  BY <1>1, <1>2 DEF Before
<1>5. /\ Mono(Append(w, Head(q)))
      /\ Nums(Append(w, Head(q))) = Nums(w) \cup (IF IsChunk(Head(q)) THEN {Head(q).n} ELSE {})
  BY <1>1, <1>3, <1>4, AppendKeepsOrder
<1>6. CASE IsChunk(Head(q))
  BY <1>2, <1>5, <1>6 DEF Pipe, Before
<1>7. CASE ~IsChunk(Head(q))
  BY <1>2, <1>5, <1>7 DEF Pipe, Before
<1> QED
  BY <1>6, <1>7

LEMMA PipeBuffers ==
    ASSUME NEW v \in Seq(Nat), NEW b \in Seq(Nat), NEW w \in Seq(Message),
           NEW q \in Seq(Message), NEW f, Pipe(v, b, w, q, f), w # <<>>,
           IsChunk(Head(w))
    PROVE  Pipe(v, Append(b, Head(w).n), Tail(w), q, f)
<1> DEFINE n == Head(w).n
<1>1. Mono(w) /\ Rising(b, 1) /\ Before(From(b, 1), Nums(w))
  BY DEF Pipe
<1>2. /\ Mono(Tail(w)) /\ Nums(Tail(w)) \subseteq Nums(w)
      /\ n \in Nums(w) /\ Before({n}, Nums(Tail(w)))
  BY <1>1, TailKeepsOrder
<1>3. n \in Nat /\ Before(From(b, 1), {n})
  BY <1>1, <1>2, NumsAreNumbers DEF Before
<1>4. Rising(Append(b, n), 1) /\ From(Append(b, n), 1) = From(b, 1) \cup {n}
  BY <1>1, <1>3, BufferKeepsOrder
<1> HIDE DEF n
<1>5. Pipe(v, Append(b, n), Tail(w), q, f)
  BY <1>2, <1>4 DEF Pipe, Before
<1> QED
  BY <1>5 DEF n

LEMMA PipeDrains ==
    ASSUME NEW v \in Seq(Nat), NEW b \in Seq(Nat), NEW w \in Seq(Message),
           NEW q \in Seq(Message), NEW f, Pipe(v, b, w, q, f)
    PROVE  Pipe(v, <<>>, w, q, f) /\ Pipe(v \o b, <<>>, w, q, f)
<1>1. Rising(<<>>, 1) /\ From(<<>>, 1) = {}
  BY DEF Rising, From
<1>2. Rising(v, 2) /\ Rising(b, 1) /\ Before(From(v, 2), From(b, 1))
  BY DEF Pipe
<1>3. Rising(v \o b, 2) /\ From(v \o b, 2) \subseteq From(v, 2) \cup From(b, 1)
  BY <1>2, DrainKeepsOrder
<1> QED
  BY <1>1, <1>3 DEF Pipe, Before

LEMMA PipeRestarts ==
    ASSUME NEW v, NEW b, NEW w, NEW q, NEW f, NEW n, Pipe(v, b, w, q, f)
    PROVE  Pipe(<<n>>, b, w, q, f)
<1>1. Rising(<<n>>, 2) /\ From(<<n>>, 2) = {}
  BY DEF Rising, From
<1> QED
  BY <1>1 DEF Pipe, Before

-----------------------------------------------------------------------------
(* The pipe of every connection stays in order.                            *)

Fresh == IF io = "fed" THEN out ELSE out + 1

PipesHold == \A c \in Conn : Pipe(view[c], buf[c], wire[c], chan[c], Fresh)

LEMMA PipesMove ==
    ASSUME NEW c \in Conn, PipesHold, UNCHANGED <<io, out>>,
           \A d \in Conn \ {c} : /\ view'[d] = view[d] /\ buf'[d] = buf[d]
                                 /\ wire'[d] = wire[d] /\ chan'[d] = chan[d],
           Pipe(view'[c], buf'[c], wire'[c], chan'[c], Fresh)
    PROVE  PipesHold'
BY DEF PipesHold, Fresh

LEMMA IoKeepsPipes ==
    ASSUME Types, PipesHold, IoTask
    PROVE  PipesHold'
<1> USE DEF streams, handler, window, threads
<1>1. CASE IoFeeds \/ Commands \/ IoStops \/ IoDelists
  <2>1. Fresh' = Fresh /\ UNCHANGED <<view, buf, wire, chan>>
    BY <1>1, CommandsTouch DEF IoFeeds, IoStops, IoDelists, Fresh, Types
  <2> QED
    BY <2>1 DEF PipesHold
<1>2. CASE IoBroadcasts
  <2>1. Fresh = out /\ Fresh' = out + 1 /\ out \in Nat /\ UNCHANGED <<view, buf, wire>>
    BY <1>2 DEF IoBroadcasts, Fresh, Types
  <2>2. ASSUME NEW c \in Conn
        PROVE  Pipe(view'[c], buf'[c], wire'[c], chan'[c], Fresh')
    <3>1. chan'[c] = chan[c] \/ chan'[c] = Append(chan[c], Chunk(out))
      BY <1>2 DEF IoBroadcasts, Broadcast
    <3>2. /\ view[c] \in Seq(Nat) /\ buf[c] \in Seq(Nat)
          /\ wire[c] \in Seq(Message) /\ chan[c] \in Seq(Message)
      BY DEF Types
    <3>3. Pipe(view[c], buf[c], wire[c], chan[c], out)
      BY <2>1 DEF PipesHold
    <3> QED
      BY <2>1, <3>1, <3>2, <3>3, PipeBroadcasts
  <2> QED
    BY <2>2 DEF PipesHold
<1>3. CASE IoNotifies
  <2>1. Fresh' = Fresh /\ UNCHANGED <<view, buf, wire>>
    BY <1>3 DEF IoNotifies, Fresh
  <2>2. ASSUME NEW c \in Conn
        PROVE  Pipe(view'[c], buf'[c], wire'[c], chan'[c], Fresh')
    <3>1. chan'[c] = chan[c] \/ chan'[c] = Append(chan[c], ExitMsg)
      BY <1>3 DEF IoNotifies, Broadcast
    <3>2. /\ view[c] \in Seq(Nat) /\ buf[c] \in Seq(Nat)
          /\ wire[c] \in Seq(Message) /\ chan[c] \in Seq(Message)
      BY DEF Types
    <3>3. ExitMsg \in Message /\ ~IsChunk(ExitMsg)
      BY MessagesAreMessages DEF IsChunk, ExitMsg
    <3>4. Pipe(view[c], buf[c], wire[c], chan[c], Fresh)
      BY DEF PipesHold
    <3> QED
      BY <2>1, <3>1, <3>2, <3>3, <3>4, PipeCarriesOther
  <2> QED
    BY <2>2 DEF PipesHold
<1> QED
  BY <1>1, <1>2, <1>3 DEF IoTask, Commands

LEMMA ConnectionKeepsPipes ==
    ASSUME Types, PipesHold, NEW c \in Conn, Handler(c) \/ Reader(c)
    PROVE  PipesHold'
<1> USE DEF daemon, streams, handler, window, threads
<1>1. /\ view[c] \in Seq(Nat) /\ buf[c] \in Seq(Nat)
      /\ wire[c] \in Seq(Message) /\ chan[c] \in Seq(Message)
      /\ wire \in [Conn -> Seq(Message)] /\ chan \in [Conn -> Seq(Message)]
      /\ buf \in [Conn -> Seq(Nat)]
      /\ snap[c] \in Nat
  BY DEF Types
<1>2. Pipe(view[c], buf[c], wire[c], chan[c], Fresh)
  BY DEF PipesHold
<1>3. \A m \in Message : ~IsChunk(m) /\ Send(c, m) /\ UNCHANGED <<io, out, view, buf, chan>>
                           => PipesHold'
  <2> SUFFICES ASSUME NEW m \in Message, ~IsChunk(m), Send(c, m),
                      UNCHANGED <<io, out, view, buf, chan>>
               PROVE  PipesHold'
    OBVIOUS
  <2>1. /\ wire'[c] = Append(wire[c], m)
        /\ \A d \in Conn \ {c} : wire'[d] = wire[d]
    BY <1>1 DEF Send
  <2>2. Pipe(view[c], buf[c], Append(wire[c], m), chan[c], Fresh)
    BY <1>1, <1>2, PipeCarriesOther
  <2> QED
    BY <2>1, <2>2, PipesMove
<1>4. \A kind : Receive(c, kind) /\ UNCHANGED <<io, out, view, buf, chan>> => PipesHold'
  <2> SUFFICES ASSUME NEW kind, Receive(c, kind), UNCHANGED <<io, out, view, buf, chan>>
               PROVE  PipesHold'
    OBVIOUS
  <2>1. /\ wire[c] # <<>> /\ wire'[c] = Tail(wire[c])
        /\ \A d \in Conn \ {c} : wire'[d] = wire[d]
    BY <1>1 DEF Receive
  <2>2. Pipe(view[c], buf[c], Tail(wire[c]), chan[c], Fresh)
    BY <1>1, <1>2, <2>1, PipeLosesHead
  <2> QED
    BY <2>1, <2>2, PipesMove
<1>5. UNCHANGED <<io, out, view, buf, chan, wire>> => PipesHold'
  BY DEF PipesHold, Fresh
<1>6. CASE Refuse(c) \/ WriteOk(c)
  <2>1. \A kind \in {"ok", "refused"} : Reply(kind) \in Message /\ ~IsChunk(Reply(kind))
    BY MessagesAreMessages DEF IsChunk, Reply
  <2> QED
    BY <1>3, <1>5, <1>6, <2>1 DEF Refuse, WriteOk
<1>7. CASE WriteSnapshot(c)
  <2>1. Snapshot(snap[c]) \in Message /\ ~IsChunk(Snapshot(snap[c]))
    BY <1>1, MessagesAreMessages DEF IsChunk, Snapshot
  <2> QED
    BY <1>3, <1>7, <2>1 DEF WriteSnapshot
<1>8. CASE ForwardMessage(c)
  <2>1. /\ chan[c] # <<>> /\ chan'[c] = Tail(chan[c])
        /\ \A d \in Conn \ {c} : chan'[d] = chan[d] /\ wire'[d] = wire[d]
        /\ wire'[c] = wire[c] \/ wire'[c] = Append(wire[c], Head(chan[c]))
        /\ UNCHANGED <<io, out, view, buf>>
    BY <1>1, <1>8 DEF ForwardMessage, Send
  <2>2. Pipe(view[c], buf[c], wire'[c], Tail(chan[c]), Fresh)
    BY <1>1, <1>2, <2>1, PipeLosesHead, PipeForwards
  <2> QED
    BY <2>1, <2>2, PipesMove
<1>9. CASE ReaderPushes(c)
  <2>1. /\ wire[c] # <<>> /\ IsChunk(Head(wire[c])) /\ wire'[c] = Tail(wire[c])
        /\ buf'[c] = buf[c] \/ buf'[c] = Append(buf[c], Head(wire[c]).n)
        /\ \A d \in Conn \ {c} : buf'[d] = buf[d] /\ wire'[d] = wire[d]
        /\ UNCHANGED <<io, out, view, chan>>
    BY <1>1, <1>9 DEF ReaderPushes, Receive, IsChunk
  <2>2. Pipe(view[c], buf'[c], Tail(wire[c]), chan[c], Fresh)
    BY <1>1, <1>2, <2>1, PipeLosesHead, PipeBuffers
  <2> QED
    BY <2>1, <2>2, PipesMove
<1>10. CASE ReaderGetsSnapshot(c) \/ ReaderGetsOk(c)
  BY <1>4, <1>10 DEF ReaderGetsSnapshot, ReaderGetsOk
<1>11. CASE ReaderGivesUp(c) \/ ReaderStops(c)
  BY <1>4, <1>5, <1>11 DEF ReaderGivesUp, ReaderStops
<1>12. CASE ReaderSwapsPending(c) \/ Attach(c) \/ TakeSnapshot(c) \/ SnapshotFails(c)
  BY <1>5, <1>12 DEF ReaderSwapsPending, Attach, TakeSnapshot, SnapshotFails
<1>13. CASE ChannelCloses(c) \/ ReadPart(c) \/ ReadFrame(c) \/ ReadFails(c) \/ Detach(c)
  BY <1>5, <1>13 DEF ChannelCloses, ReadPart, ReadFrame, ReadFails, Detach
<1>14. CASE TakeMutex(c) \/ SendResumes(c)
  BY <1>5, <1>14, HandlerCommands
<1> QED
  BY <1>6, <1>7, <1>8, <1>9, <1>10, <1>11, <1>12, <1>13, <1>14 DEF Handler, Reader

LEMMA PaneKeepsPipes ==
    ASSUME Types, PipesHold, NEW c \in Conn,
           \/ EventLoop(c) \/ Connect(c) \/ ClosePane(c)
           \/ WriterWrites(c) \/ WriterShutsDown(c)
    PROVE  PipesHold'
<1> USE DEF daemon, streams, handler, window, threads
<1>1. /\ view[c] \in Seq(Nat) /\ buf[c] \in Seq(Nat)
      /\ wire[c] \in Seq(Message) /\ chan[c] \in Seq(Message)
      /\ view \in [Conn -> Seq(Nat)] /\ buf \in [Conn -> Seq(Nat)]
  BY DEF Types
<1>2. Pipe(view[c], buf[c], wire[c], chan[c], Fresh)
  BY DEF PipesHold
<1>3. UNCHANGED <<io, out, view, buf, chan, wire>> => PipesHold'
  BY DEF PipesHold, Fresh
<1>4. CASE HandleOutput(c) \/ Connect(c) \/ WriterShutsDown(c)
  BY <1>3, <1>4 DEF HandleOutput, Connect, WriterShutsDown
<1>5. CASE WriterWrites(c)
  BY <1>3, <1>5 DEF WriterWrites
<1>6. CASE Drain(c)
  <2>1. /\ buf'[c] = <<>>
        /\ view'[c] = view[c] \/ view'[c] = view[c] \o buf[c]
        /\ \A d \in Conn \ {c} : view'[d] = view[d] /\ buf'[d] = buf[d]
        /\ UNCHANGED <<io, out, wire, chan>>
    BY <1>1, <1>6 DEF Drain
  <2>2. Pipe(view'[c], <<>>, wire[c], chan[c], Fresh)
    BY <1>1, <1>2, <2>1, PipeDrains
  <2> QED
    BY <2>1, <2>2, PipesMove
<1>7. CASE HandleSnapshot(c)
  <2>1. /\ view'[c] = view[c] \/ view'[c] = <<Head(events[c]).n>>
        /\ \A d \in Conn \ {c} : view'[d] = view[d]
        /\ UNCHANGED <<io, out, buf, wire, chan>>
    BY <1>1, <1>7 DEF HandleSnapshot
  <2>2. Pipe(view'[c], buf[c], wire[c], chan[c], Fresh)
    BY <1>2, <2>1, PipeRestarts
  <2> QED
    BY <2>1, <2>2, PipesMove
<1>8. CASE HandleExited(c) \/ ClosePane(c)
  <2>1. /\ buf'[c] = <<>> /\ view'[c] = <<0>>
        /\ \A d \in Conn \ {c} : buf'[d] = buf[d] /\ view'[d] = view[d]
        /\ UNCHANGED <<io, out, wire, chan>>
    BY <1>1, <1>8 DEF HandleExited, ClosePane, DropPane
  <2>2. Pipe(<<0>>, <<>>, wire[c], chan[c], Fresh)
    BY <1>1, <1>2, PipeDrains, PipeRestarts
  <2> QED
    BY <2>1, <2>2, PipesMove
<1> QED
  BY <1>4, <1>5, <1>6, <1>7, <1>8 DEF EventLoop

-----------------------------------------------------------------------------
(* A client is in the session's list only after its handler's attach, and  *)
(* no handler attaches for a pane that was never opened.                   *)

Opened  == \A c \in Conn : gui[c] = "none" => conn[c] = "none" /\ buf[c] = <<>>
Clients == \A c \in clients : conn[c] \notin {"none", "accepted"}

LEMMA ClientStep ==
    ASSUME Types, Opened, Clients, ClosedIsDetached, [Next]_vars
    PROVE  Opened' /\ Clients' /\ ClosedIsDetached'
<1> USE DEF Types, Opened, Clients, ClosedIsDetached, daemon, streams, handler, window,
           threads
<1>1. CASE IoTask
  BY <1>1 DEF IoTask, IoFeeds, IoBroadcasts, IoTakes, IoHasWritten, IoStops, IoNotifies,
              IoDelists, Broadcast
<1>2. CASE Elsewhere
  BY <1>2, ElsewhereTouches
<1>3. ASSUME NEW c \in Conn, Handler(c)
      PROVE  Opened' /\ Clients' /\ ClosedIsDetached'
  <2>1. CASE Attach(c)
    BY <2>1 DEF Attach
  <2>2. CASE Refuse(c)
    BY <2>2 DEF Refuse
  <2>3. CASE SnapshotFails(c)
    BY <2>3 DEF SnapshotFails
  <2>4. CASE Detach(c)
    BY <2>4 DEF Detach
  <2>5. ASSUME UNCHANGED <<clients, listed, gui, buf>>, conn[c] # "none",
               \A d \in Conn \ {c} : conn'[d] = conn[d],
               conn'[c] \notin {"none", "accepted", "closed"}
        PROVE  Opened' /\ Clients' /\ ClosedIsDetached'
    BY <2>5
  <2>6. CASE TakeSnapshot(c) \/ WriteSnapshot(c) \/ WriteOk(c)
    <3> HIDE DEF Opened, Clients, ClosedIsDetached
    <3>1. conn[c] # "none" /\ UNCHANGED <<clients, listed, gui, buf>>
      BY <2>6 DEF TakeSnapshot, WriteSnapshot, WriteOk
    <3>2. /\ \A d \in Conn \ {c} : conn'[d] = conn[d]
          /\ conn'[c] \notin {"none", "accepted", "closed"}
      BY <2>6 DEF TakeSnapshot, WriteSnapshot, WriteOk
    <3> QED
      BY <2>5, <3>1, <3>2
  <2>7. CASE \/ ForwardMessage(c) \/ ChannelCloses(c)
             \/ ReadPart(c) \/ ReadFrame(c) \/ ReadFails(c)
    <3> HIDE DEF Opened, Clients, ClosedIsDetached
    <3>1. conn[c] = "streaming" /\ UNCHANGED <<clients, listed, gui, buf>>
      BY <2>7 DEF ForwardMessage, ChannelCloses, ReadPart, ReadFrame, ReadFails
    <3>2. \/ UNCHANGED conn
          \/ conn' = [conn EXCEPT ![c] = "leaving"]
          \/ conn' = [conn EXCEPT ![c] = "streaming"]
          \/ conn' = [conn EXCEPT ![c] = "commanding"]
      BY <2>7 DEF ForwardMessage, ChannelCloses, ReadPart, ReadFrame, ReadFails
    <3> QED
      BY <2>5, <3>1, <3>2
  <2>8. CASE TakeMutex(c) \/ SendResumes(c)
    <3> HIDE DEF Opened, Clients, ClosedIsDetached
    <3>1. /\ conn[c] # "none" /\ UNCHANGED <<clients, listed, gui, buf>>
          /\ \A d \in Conn \ {c} : conn'[d] = conn[d]
          /\ conn'[c] \notin {"none", "accepted", "closed"}
      BY <2>8, HandlerCommands
    <3> QED
      BY <2>5, <3>1
  <2> QED
    BY <1>3, <2>1, <2>2, <2>3, <2>4, <2>5, <2>6, <2>7, <2>8 DEF Handler
<1>4. ASSUME NEW c \in Conn, Reader(c)
      PROVE  Opened' /\ Clients' /\ ClosedIsDetached'
  <2>1. /\ gui[c] # "none" /\ gui'[c] # "none" /\ UNCHANGED <<clients, conn, listed>>
        /\ \A d \in Conn \ {c} : gui'[d] = gui[d] /\ buf'[d] = buf[d]
    BY <1>4, SMTT(20) DEF Reader, ReaderGetsSnapshot, ReaderGetsOk, ReaderGivesUp,
                ReaderPushes, ReaderSwapsPending, ReaderStops, ReaderEnds
  <2> QED
    BY <2>1
<1>5. ASSUME NEW c \in Conn, EventLoop(c) \/ ClosePane(c)
      PROVE  Opened' /\ Clients' /\ ClosedIsDetached'
  <2>1. /\ UNCHANGED <<clients, conn, listed, gui>>
        /\ \A d \in Conn : buf'[d] = buf[d] \/ buf'[d] = <<>>
    BY <1>5 DEF EventLoop, HandleOutput, Drain, HandleSnapshot, HandleExited,
                ClosePane, DropPane
  <2> QED
    BY <2>1
<1>6. ASSUME NEW c \in Conn, Connect(c)
      PROVE  Opened' /\ Clients' /\ ClosedIsDetached'
  BY <1>6 DEF Connect
<1>7. ASSUME NEW c \in Conn, WriterWrites(c) \/ WriterShutsDown(c)
      PROVE  Opened' /\ Clients' /\ ClosedIsDetached'
  <2>1. UNCHANGED <<clients, conn, listed, gui, buf>>
    BY <1>7 DEF WriterWrites, WriterShutsDown
  <2> QED
    BY <2>1
<1>8. CASE UNCHANGED vars
  BY <1>8 DEF vars
<1> QED
  BY <1>1, <1>2, <1>3, <1>4, <1>5, <1>6, <1>7, <1>8 DEF Next, Elsewhere

-----------------------------------------------------------------------------
(* While the flag of a pane is set an output event for it is queued.       *)

Woken(c)    == \E i \in DOMAIN events[c] : events[c][i] = Reply("output")
FlagIsEvent == \A c \in pending : Woken(c)

LEMMA EventsQueue ==
    ASSUME Types, NEW c \in Conn, NEW m \in Message, Notify(c, m)
    PROVE  /\ \A d \in Conn : Woken(d) => Woken(d)'
           /\ m = Reply("output") => Woken(c)'
<1>1. events[c] \in Seq(Message) /\ events' = [events EXCEPT ![c] = Append(@, m)]
  BY DEF Types, Notify
<1>2. /\ Len(events[c]) \in Nat /\ Len(events'[c]) = Len(events[c]) + 1
      /\ \A i \in 1..Len(events[c]) : events'[c][i] = events[c][i]
      /\ events'[c][Len(events[c]) + 1] = m
      /\ DOMAIN events[c] = 1..Len(events[c]) /\ DOMAIN events'[c] = 1..Len(events'[c])
  BY <1>1, AppendProperties, LenProperties DEF Types
<1>3. \A d \in Conn \ {c} : events'[d] = events[d]
  BY <1>1
<1>4. \A i \in DOMAIN events[c] : i \in DOMAIN events'[c]
  BY <1>2
<1>5. Len(events[c]) + 1 \in DOMAIN events'[c]
  BY <1>2
<1> QED
  BY <1>2, <1>3, <1>4, <1>5 DEF Woken

LEMMA EventsAreTaken ==
    ASSUME Types, NEW c \in Conn, NEW kind, NextEvent(c, kind)
    PROVE  /\ \A d \in Conn \ {c} : Woken(d) => Woken(d)'
           /\ kind # "output" /\ Woken(c) => Woken(c)'
<1>1. /\ events[c] \in Seq(Message) /\ events[c] # <<>> /\ Head(events[c]).kind = kind
      /\ events'[c] = Tail(events[c])
  BY DEF Types, NextEvent
<1>2. \A d \in Conn \ {c} : events'[d] = events[d]
  BY DEF Types, NextEvent
<1>3. /\ Len(events[c]) \in Nat \ {0} /\ Head(events[c]) = events[c][1]
      /\ Len(events'[c]) = Len(events[c]) - 1
      /\ \A i \in 1..Len(events'[c]) : events'[c][i] = events[c][i + 1]
      /\ DOMAIN events[c] = 1..Len(events[c]) /\ DOMAIN events'[c] = 1..Len(events'[c])
  BY <1>1, HeadTailProperties, EmptySeq, LenProperties
<1>4. ASSUME kind # "output", NEW i \in DOMAIN events[c],
             events[c][i] = Reply("output")
      PROVE  Woken(c)'
  <2>1. Head(events[c]) # Reply("output")
    BY <1>1, <1>4 DEF Reply
  <2>2. i # 1 /\ i - 1 \in DOMAIN events'[c] /\ events'[c][i - 1] = events[c][i]
    BY <1>3, <1>4, <2>1
  <2> QED
    BY <1>4, <2>2 DEF Woken
<1> QED
  BY <1>2, <1>4 DEF Woken

LEMMA WakeupStep ==
    ASSUME Types, Opened, FlagIsEvent, NoLostWakeup, [Next]_vars
    PROVE  FlagIsEvent' /\ NoLostWakeup'
<1> USE DEF daemon, streams, handler, window, threads
<1>1. NoLostWakeup <=> \A c \in pane : buf[c] # <<>> =>
                          gui[c] = "pushed" \/ main = c \/ Woken(c)
  BY DEF NoLostWakeup, Woken
<1>2. NoLostWakeup' <=> \A c \in pane' : buf'[c] # <<>> =>
                          gui'[c] = "pushed" \/ main' = c \/ Woken(c)'
  BY DEF NoLostWakeup, Woken
<1>3. ASSUME UNCHANGED <<pane, buf, main, events, pending>>,
             \A c \in Conn : gui[c] = "pushed" => gui'[c] = "pushed"
      PROVE  FlagIsEvent' /\ NoLostWakeup'
  BY <1>3, <1>1, <1>2 DEF FlagIsEvent, Woken, Types
<1>4. CASE IoTask \/ Elsewhere
  <2>1. UNCHANGED <<pane, buf, main, events, pending, gui>>
    BY <1>4, ElsewhereTouches
       DEF IoTask, IoFeeds, IoBroadcasts, IoTakes, IoHasWritten, IoStops, IoNotifies, IoDelists
  <2> QED
    BY <1>3, <2>1
<1>5. ASSUME NEW c \in Conn, Handler(c)
      PROVE  FlagIsEvent' /\ NoLostWakeup'
  <2>1. UNCHANGED <<pane, buf, main, events, pending, gui>>
    BY <1>5 DEF Handler, Attach, Refuse, TakeSnapshot, WriteSnapshot,
                SnapshotFails, WriteOk, ForwardMessage, ChannelCloses, ReadPart,
                ReadFrame, ReadFails, TakeMutex, SendResumes, Detach
  <2> QED
    BY <1>3, <2>1
<1>6. ASSUME NEW c \in Conn, Reader(c)
      PROVE  FlagIsEvent' /\ NoLostWakeup'
  <2>1. CASE ReaderGetsSnapshot(c)
    <3>1. Head(wire[c]) \in Message /\ Notify(c, Head(wire[c]))
      BY <2>1, TailsAreTails DEF ReaderGetsSnapshot, Receive, Types
    <3>2. \A d \in Conn : Woken(d) => Woken(d)'
      BY <3>1, EventsQueue
    <3> QED
      BY <2>1, <3>2, <1>1, <1>2 DEF ReaderGetsSnapshot, FlagIsEvent, Types
  <2>2. CASE ReaderGivesUp(c) \/ ReaderStops(c)
    <3>1. /\ Notify(c, ExitMsg) /\ gui[c] # "pushed"
          /\ \A d \in Conn \ {c} : gui'[d] = gui[d]
          /\ UNCHANGED <<pane, buf, main, pending>>
      BY <2>2 DEF ReaderGivesUp, ReaderStops, ReaderEnds, Types
    <3>2. \A d \in Conn : Woken(d) => Woken(d)'
      BY <3>1, EventsQueue, MessagesAreMessages
    <3> QED
      BY <3>1, <3>2, <1>1, <1>2 DEF FlagIsEvent, Types
  <2>3. CASE ReaderGetsOk(c)
    BY <2>3, <1>3 DEF ReaderGetsOk, Types
  <2>4. CASE ReaderPushes(c)
    <3>1. /\ gui'[c] = "pushed"
          /\ \A d \in Conn \ {c} : gui'[d] = gui[d] /\ buf'[d] = buf[d]
          /\ UNCHANGED <<pane, main, pending, events>>
      BY <2>4 DEF ReaderPushes, Types
    <3> QED
      BY <3>1, <1>1, <1>2 DEF FlagIsEvent, Types, Woken
  <2>5. CASE ReaderSwapsPending(c)
    <3>1. /\ \A d \in Conn \ {c} : gui'[d] = gui[d]
          /\ UNCHANGED <<pane, buf, main>>
          /\ pending' = pending \cup {c}
      BY <2>5 DEF ReaderSwapsPending, Types
    <3>2. Woken(c)' /\ \A d \in Conn : Woken(d) => Woken(d)'
      <4>1. CASE c \in pending
        BY <2>5, <4>1 DEF ReaderSwapsPending, FlagIsEvent, Woken
      <4>2. CASE c \notin pending
        BY <2>5, <4>2, EventsQueue, MessagesAreMessages DEF ReaderSwapsPending
      <4> QED
        BY <4>1, <4>2
    <3> QED
      BY <3>1, <3>2, <1>1, <1>2 DEF FlagIsEvent, Types
  <2> QED
    BY <1>6, <2>1, <2>2, <2>3, <2>4, <2>5 DEF Reader
<1>7. ASSUME NEW c \in Conn, HandleOutput(c)
      PROVE  FlagIsEvent' /\ NoLostWakeup'
  <2>1. \A d \in Conn \ {c} : Woken(d) => Woken(d)'
    BY <1>7, EventsAreTaken DEF HandleOutput
  <2>2. /\ main = "idle" /\ main' = c /\ pending' = pending \ {c}
        /\ UNCHANGED <<pane, buf, gui>>
    BY <1>7 DEF HandleOutput, NextEvent
  <2> QED
    BY <2>1, <2>2, <1>1, <1>2, BoundsAssumption DEF FlagIsEvent, Types
<1>8. ASSUME NEW c \in Conn, Drain(c)
      PROVE  FlagIsEvent' /\ NoLostWakeup'
  BY <1>8, <1>1, <1>2 DEF Drain, FlagIsEvent, Types, Woken
<1>9. ASSUME NEW c \in Conn, HandleSnapshot(c)
      PROVE  FlagIsEvent' /\ NoLostWakeup'
  <2>1. \A d \in Conn : Woken(d) => Woken(d)'
    BY <1>9, EventsAreTaken DEF HandleSnapshot
  <2> QED
    BY <1>9, <2>1, <1>1, <1>2 DEF HandleSnapshot, FlagIsEvent, Types
<1>10. ASSUME NEW c \in Conn, HandleExited(c) \/ ClosePane(c)
       PROVE  FlagIsEvent' /\ NoLostWakeup'
  <2>1. \A d \in Conn \ {c} : Woken(d) => Woken(d)'
    BY <1>10, EventsAreTaken DEF HandleExited, ClosePane, Woken
  <2>2. /\ pane' = pane \ {c} /\ pending' = pending \ {c}
        /\ \A d \in Conn \ {c} : buf'[d] = buf[d]
        /\ UNCHANGED <<main, gui>>
    BY <1>10 DEF HandleExited, ClosePane, DropPane, Types
  <2> QED
    BY <2>1, <2>2, <1>1, <1>2 DEF FlagIsEvent, Types
<1>11. ASSUME NEW c \in Conn, Connect(c)
       PROVE  FlagIsEvent' /\ NoLostWakeup'
  <2>1. /\ buf[c] = <<>> /\ pane' = pane \cup {c}
        /\ \A d \in Conn \ {c} : gui'[d] = gui[d]
        /\ UNCHANGED <<buf, pending, events, main>>
    BY <1>11 DEF Connect, Opened, Types
  <2> QED
    BY <2>1, <1>1, <1>2 DEF FlagIsEvent, Types, Woken
<1>12. ASSUME NEW c \in Conn, WriterWrites(c) \/ WriterShutsDown(c)
       PROVE  FlagIsEvent' /\ NoLostWakeup'
  <2>1. UNCHANGED <<pane, buf, main, events, pending, gui>>
    BY <1>12 DEF WriterWrites, WriterShutsDown
  <2> QED
    BY <1>3, <2>1
<1>13. CASE UNCHANGED vars
  <2>1. UNCHANGED <<pane, buf, main, events, pending, gui>>
    BY <1>13 DEF vars
  <2> QED
    BY <1>3, <2>1
<1> QED
  BY <1>4, <1>5, <1>6, <1>7, <1>8, <1>9, <1>10, <1>11, <1>12, <1>13
     DEF Next, EventLoop, Elsewhere

-----------------------------------------------------------------------------
(* The inductive invariant.                                                *)

IInv ==
    /\ Types /\ PipesHold
    /\ Opened /\ Clients /\ ClosedIsDetached
    /\ FlagIsEvent /\ NoLostWakeup

LEMMA InitHolds ==
    Init => IInv
<1> SUFFICES ASSUME Init PROVE IInv
  OBVIOUS
<1>1. Types
  <2>1. <<0>> \in Seq(Nat) /\ <<>> \in Seq(Nat) /\ <<>> \in Seq(Message)
    OBVIOUS
  <2> QED
    BY <2>1 DEF Init, Types
<1>2. PipesHold
  <2>1. From(<<0>>, 2) = {} /\ From(<<>>, 1) = {} /\ Nums(<<>>) = {}
    BY DEF From, Nums
  <2>2. Rising(<<0>>, 2) /\ Rising(<<>>, 1) /\ Mono(<<>>)
    BY DEF Rising, Mono
  <2>3. Pipe(<<0>>, <<>>, <<>>, <<>>, Fresh)
    BY <2>1, <2>2 DEF Pipe, Before
  <2> QED
    BY <2>3 DEF Init, PipesHold
<1>3. Opened /\ Clients /\ ClosedIsDetached /\ FlagIsEvent /\ NoLostWakeup
  BY DEF Init, Opened, Clients, ClosedIsDetached, FlagIsEvent, NoLostWakeup
<1> QED
  BY <1>1, <1>2, <1>3 DEF IInv

LEMMA StepKeeps ==
    IInv /\ [Next]_vars => IInv'
<1> SUFFICES ASSUME IInv, [Next]_vars PROVE IInv'
  OBVIOUS
<1>1. Types'
  BY TypeStep DEF IInv
<1>2. PipesHold'
  <2>1. CASE Elsewhere \/ UNCHANGED vars
    BY <2>1, ElsewhereTouches
       DEF vars, daemon, streams, handler, window, threads, IInv, PipesHold, Fresh
  <2> QED
    BY <2>1, IoKeepsPipes, ConnectionKeepsPipes, PaneKeepsPipes
       DEF Next, Elsewhere, IInv
<1>3. Opened' /\ Clients' /\ ClosedIsDetached'
  BY ClientStep DEF IInv
<1>4. FlagIsEvent' /\ NoLostWakeup'
  BY WakeupStep DEF IInv
<1> QED
  BY <1>1, <1>2, <1>3, <1>4 DEF IInv

(* The inductive invariant holds, for any number of panes attached, any    *)
(* output and any capacity: the types, the order of the chunks on their    *)
(* way, who is attached, and the flag with its event.                      *)
THEOREM Invariance == Spec => []IInv
BY InitHolds, StepKeeps, PTL DEF Spec

(* After its snapshot a pane shows chunks in the order the shell wrote     *)
(* them and none twice, whatever overflows, closes or exits on the way     *)
(* from session_io_task to process_pty_output.                             *)
THEOREM OutputInOrder == Spec => []ShownInOrder
<1>1. IInv => ShownInOrder
  <2> SUFFICES ASSUME IInv, NEW c \in Conn, NEW i \in 2..(Len(view[c]) - 1)
               PROVE  view[c][i] < view[c][i + 1]
    BY DEF ShownInOrder
  <2>1. Rising(view[c], 2) /\ view[c] \in Seq(Nat)
    BY DEF IInv, PipesHold, Pipe, Types
  <2>2. Len(view[c]) \in Nat /\ i \in 2..Len(view[c]) /\ i + 1 \in 2..Len(view[c])
    BY <2>1, LenProperties
  <2> QED
    BY <2>1, <2>2 DEF Rising
<1> QED
  BY <1>1, Invariance, PTL

(* The swap of PTY_PENDING never loses the last wakeup: buffered output of *)
(* a pane has an event queued, or a thread about to see to it.             *)
THEOREM OutputIsSeen == Spec => []NoLostWakeup
<1>1. IInv => NoLostWakeup
  BY DEF IInv
<1> QED
  BY <1>1, Invariance, PTL

(* While a session is listed, no connection that is over is among its      *)
(* clients: every way out of handle_binary_connection detaches.            *)
THEOREM NobodyStaysAttached == Spec => []ClosedIsDetached
<1>1. IInv => ClosedIsDetached
  BY DEF IInv
<1> QED
  BY <1>1, Invariance, PTL

-----------------------------------------------------------------------------
(* That the output of a pane has no gap.  The argument follows a snapshot  *)
(* from the handler to the pane's view and shows that nothing is drained   *)
(* into the view before it, and that what is on its way never misses a     *)
(* chunk newer than the snapshot.                                          *)
-----------------------------------------------------------------------------
(* Snapshots among messages.                                               *)

IsSnap(m) == m.kind = "snapshot"

Snaps(s) == {s[i].n : i \in {k \in 1..Len(s) : IsSnap(s[k])}}

\* Neither a snapshot nor an output event.
Quiet(s) == \A i \in 1..Len(s) : s[i].kind \notin {"snapshot", "output"}

\* No output event comes before a snapshot.
SnapFirst(s) == \A i, j \in 1..Len(s) :
                    i < j /\ IsSnap(s[j]) => s[i].kind # "output"

OnlyHead(s) == \A i \in 1..Len(s) : IsSnap(s[i]) => i = 1

LEMMA SnapsOfEmpty ==
    Snaps(<<>>) = {} /\ Quiet(<<>>) /\ SnapFirst(<<>>) /\ OnlyHead(<<>>)
BY DEF Snaps, Quiet, SnapFirst, OnlyHead

LEMMA QuietHasNone ==
    ASSUME NEW s, Quiet(s)
    PROVE  Snaps(s) = {}
BY DEF Quiet, Snaps, IsSnap

LEMMA SnapsOfAppend ==
    ASSUME NEW s \in Seq(Message), NEW m \in Message
    PROVE  /\ Snaps(Append(s, m)) = Snaps(s) \cup (IF IsSnap(m) THEN {m.n} ELSE {})
           /\ OnlyHead(s) /\ (~IsSnap(m) \/ s = <<>>) => OnlyHead(Append(s, m))
           /\ SnapFirst(s) /\ (IsSnap(m) => Quiet(s)) => SnapFirst(Append(s, m))
           /\ Quiet(s) /\ m.kind \notin {"snapshot", "output"} => Quiet(Append(s, m))
<1>1. /\ Len(s) \in Nat /\ Len(Append(s, m)) = Len(s) + 1
      /\ \A i \in 1..Len(s) : Append(s, m)[i] = s[i]
      /\ Append(s, m)[Len(s) + 1] = m
  BY AppendProperties, LenProperties
<1>2. Snaps(Append(s, m)) = Snaps(s) \cup (IF IsSnap(m) THEN {m.n} ELSE {})
  BY <1>1 DEF Snaps
<1>3. OnlyHead(s) /\ (~IsSnap(m) \/ s = <<>>) => OnlyHead(Append(s, m))
  BY <1>1 DEF OnlyHead
<1>4. SnapFirst(s) /\ (IsSnap(m) => Quiet(s)) => SnapFirst(Append(s, m))
  BY <1>1 DEF SnapFirst, Quiet
<1>5. Quiet(s) /\ m.kind \notin {"snapshot", "output"} => Quiet(Append(s, m))
  BY <1>1 DEF Quiet
<1> QED
  BY <1>2, <1>3, <1>4, <1>5

LEMMA SnapsOfTail ==
    ASSUME NEW s \in Seq(Message), s # <<>>
    PROVE  /\ Snaps(s) = Snaps(Tail(s)) \cup (IF IsSnap(Head(s)) THEN {Head(s).n} ELSE {})
           /\ OnlyHead(s) => /\ OnlyHead(Tail(s)) /\ Snaps(Tail(s)) = {}
           /\ SnapFirst(s) => SnapFirst(Tail(s))
           /\ Quiet(s) => Quiet(Tail(s))
           /\ SnapFirst(s) /\ Head(s).kind = "output" => Snaps(s) = {}
<1>1. /\ Len(s) \in Nat \ {0} /\ Len(Tail(s)) = Len(s) - 1 /\ Head(s) = s[1]
      /\ \A i \in 1..Len(Tail(s)) : Tail(s)[i] = s[i + 1]
  BY HeadTailProperties, EmptySeq, LenProperties
<1>2. Snaps(s) = Snaps(Tail(s)) \cup (IF IsSnap(Head(s)) THEN {Head(s).n} ELSE {})
  <2>1. ASSUME NEW i \in 1..Len(s), i # 1
        PROVE  i - 1 \in 1..Len(Tail(s)) /\ Tail(s)[i - 1] = s[i]
    BY <1>1, <2>1
  <2>2. ASSUME NEW n \in Snaps(s)
        PROVE  n \in Snaps(Tail(s)) \cup (IF IsSnap(Head(s)) THEN {Head(s).n} ELSE {})
    <3>1. PICK i \in 1..Len(s) : IsSnap(s[i]) /\ n = s[i].n
      BY DEF Snaps
    <3>2. CASE i = 1
      BY <1>1, <3>1, <3>2
    <3>3. CASE i # 1
      BY <2>1, <3>1, <3>3 DEF Snaps
    <3> QED
      BY <3>2, <3>3
  <2>3. ASSUME NEW n \in Snaps(Tail(s))
        PROVE  n \in Snaps(s)
    <3>1. PICK i \in 1..Len(Tail(s)) : IsSnap(Tail(s)[i]) /\ n = Tail(s)[i].n
      BY DEF Snaps
    <3>2. i + 1 \in 1..Len(s) /\ Tail(s)[i] = s[i + 1]
      BY <1>1
    <3> QED
      BY <3>1, <3>2 DEF Snaps
  <2>4. IsSnap(Head(s)) => Head(s).n \in Snaps(s)
    <3>1. 1 \in 1..Len(s) /\ Head(s) = s[1]
      BY <1>1
    <3> QED
      BY <3>1 DEF Snaps
  <2> QED
    BY <2>2, <2>3, <2>4
<1>3. OnlyHead(s) => OnlyHead(Tail(s)) /\ Snaps(Tail(s)) = {}
  BY <1>1 DEF OnlyHead, Snaps
<1>4. SnapFirst(s) => SnapFirst(Tail(s))
  BY <1>1 DEF SnapFirst
<1>5. Quiet(s) => Quiet(Tail(s))
  BY <1>1 DEF Quiet
<1>6. SnapFirst(s) /\ Head(s).kind = "output" => Snaps(s) = {}
  BY <1>1 DEF SnapFirst, Snaps, IsSnap
<1> QED
  BY <1>2, <1>3, <1>4, <1>5, <1>6

LEMMA DrainKeepsFirst ==
    ASSUME NEW v \in Seq(Nat), NEW b \in Seq(Nat), v # <<>>
    PROVE  /\ v \o b # <<>> /\ (v \o b)[1] = v[1]
           /\ From(v, 2) \cup From(b, 1) \subseteq From(v \o b, 2)
<1> DEFINE m == Len(v)
           l == Len(b)
<1>1. m \in Nat /\ l \in Nat /\ m # 0 /\ v \o b \in Seq(Nat)
  BY LenProperties, EmptySeq, ConcatProperties
<1>2. /\ Len(v \o b) = m + l
      /\ \A i \in 1..(m + l) : (v \o b)[i] = IF i <= m THEN v[i] ELSE b[i - m]
  BY ConcatProperties
<1>3. /\ From(v, 2) = {v[i] : i \in 2..m} /\ From(b, 1) = {b[i] : i \in 1..l}
      /\ From(v \o b, 2) = {(v \o b)[i] : i \in 2..(m + l)}
  BY <1>2 DEF From
<1> HIDE DEF m, l
<1>4. Len(v \o b) # 0 /\ 1 \in 1..(m + l) /\ 1 <= m
  BY <1>1, <1>2
<1>5. v \o b # <<>>
  BY <1>1, <1>4, EmptySeq
<1>6. From(v, 2) \cup From(b, 1) \subseteq From(v \o b, 2)
  <2>1. ASSUME NEW i \in 2..m
        PROVE  v[i] \in From(v \o b, 2)
    <3>1. i \in 2..(m + l) /\ (v \o b)[i] = v[i]
      BY <1>1, <1>2
    <3> QED
      BY <1>3, <3>1
  <2>2. ASSUME NEW i \in 1..l
        PROVE  b[i] \in From(v \o b, 2)
    <3>1. i + m \in 2..(m + l) /\ (v \o b)[i + m] = b[i]
      BY <1>1, <1>2
    <3> QED
      BY <1>3, <3>1
  <2> QED
    BY <1>3, <2>1, <2>2
<1> QED
  BY <1>2, <1>4, <1>5, <1>6

-----------------------------------------------------------------------------
(* What the steps of a connection leave alone.                             *)

UntouchedByHandler(c) ==
    /\ UNCHANGED <<io, out, dropped, gui, buf, events, view, main, pane>>
    /\ \A e \in Conn \ {c} : /\ chan'[e] = chan[e] /\ conn'[e] = conn[e]
                             /\ wire'[e] = wire[e] /\ snap'[e] = snap[e]
                             /\ e \in clients => e \in clients'

UntouchedByReader(c) ==
    /\ UNCHANGED <<io, out, dropped, clients, chan, conn, snap, view, main, pane>>
    /\ \A e \in Conn \ {c} : /\ wire'[e] = wire[e] /\ gui'[e] = gui[e]
                             /\ buf'[e] = buf[e] /\ events'[e] = events[e]

UntouchedByEvents(c) ==
    /\ UNCHANGED <<io, out, dropped, clients, chan, conn, snap, wire, gui>>
    /\ pane' \subseteq pane
    /\ \A e \in Conn \ {c} : /\ buf'[e] = buf[e] /\ view'[e] = view[e]
                             /\ events'[e] = events[e] /\ (main' = e => main = e)

LEMMA HandlerTouches ==
    ASSUME Types, NEW c \in Conn, Handler(c)
    PROVE  UntouchedByHandler(c)
<1> USE DEF daemon, streams, window, threads, UntouchedByHandler
<1>1. CASE Attach(c) \/ SnapshotFails(c) \/ Detach(c)
  BY <1>1 DEF Attach, SnapshotFails, Detach, Types
<1>2. CASE Refuse(c) \/ WriteOk(c) \/ WriteSnapshot(c) \/ TakeSnapshot(c)
  BY <1>2, SMTT(20) DEF Refuse, WriteOk, WriteSnapshot, TakeSnapshot, Send, Types
<1>3. CASE ForwardMessage(c)
  BY <1>3 DEF ForwardMessage, Send, Types
<1>4. CASE ChannelCloses(c) \/ ReadPart(c) \/ ReadFrame(c) \/ ReadFails(c)
  BY <1>4, SMTT(20) DEF ChannelCloses, ReadPart, ReadFrame, ReadFails, Types
<1>5. CASE TakeMutex(c) \/ SendResumes(c)
  BY <1>5, HandlerCommands DEF Types
<1> QED
  BY <1>1, <1>2, <1>3, <1>4, <1>5 DEF Handler

LEMMA ReaderTouches ==
    ASSUME Types, NEW c \in Conn, Reader(c)
    PROVE  UntouchedByReader(c)
<1> USE DEF daemon, streams, handler, window, threads, UntouchedByReader
<1>1. \A kind : Receive(c, kind) => \A e \in Conn \ {c} : wire'[e] = wire[e]
  BY DEF Receive, Types
<1>2. \A m : Notify(c, m) => \A e \in Conn \ {c} : events'[e] = events[e]
  BY DEF Notify, Types
<1>3. CASE ReaderGetsSnapshot(c) \/ ReaderGetsOk(c)
  BY <1>1, <1>2, <1>3, SMTT(20) DEF ReaderGetsSnapshot, ReaderGetsOk, Types
<1>4. CASE ReaderGivesUp(c) \/ ReaderStops(c)
  BY <1>1, <1>2, <1>4, SMTT(20) DEF ReaderGivesUp, ReaderStops, ReaderEnds, Types
<1>5. CASE ReaderPushes(c)
  BY <1>1, <1>5, SMTT(20) DEF ReaderPushes, Types
<1>6. CASE ReaderSwapsPending(c)
  BY <1>2, <1>6, SMTT(20) DEF ReaderSwapsPending, Types
<1> QED
  BY <1>3, <1>4, <1>5, <1>6 DEF Reader

LEMMA EventsTouch ==
    ASSUME Types, NEW c \in Conn, EventLoop(c) \/ ClosePane(c)
    PROVE  UntouchedByEvents(c)
<1> USE DEF daemon, streams, handler, window, threads, UntouchedByEvents
<1>1. \A kind : NextEvent(c, kind) => \A e \in Conn \ {c} : events'[e] = events[e]
  BY DEF NextEvent, Types
<1>2. CASE ClosePane(c) \/ HandleExited(c)
  BY <1>1, <1>2, SMTT(20) DEF ClosePane, HandleExited, DropPane, Types
<1>3. CASE HandleSnapshot(c)
  BY <1>1, <1>3, SMTT(20) DEF HandleSnapshot, Types
<1>4. CASE HandleOutput(c)
  BY <1>1, <1>4 DEF HandleOutput, Types
<1>5. CASE Drain(c)
  BY <1>5, BoundsAssumption, SMTT(20) DEF Drain, Types
<1> QED
  BY <1>2, <1>3, <1>4, <1>5 DEF EventLoop

-----------------------------------------------------------------------------
(* The handshake.  Until the pane has taken the snapshot off its wire,     *)
(* nothing of it is buffered, and until the event loop has handled it,     *)
(* nothing is drained.                                                     *)

NotSent  == {"none", "accepted", "attached", "snapped"}
Serving  == {"attached", "snapped", "greeting", "streaming", "commanding",
             "sending"}
Early(c) == conn[c] \in NotSent \/ Snaps(wire[c]) # {}
Unseen(c) == Early(c) \/ Snaps(events[c]) # {}

Phase(c) ==
    /\ Len(chan[c]) <= ChanCap /\ Snaps(chan[c]) = {}
    /\ conn[c] \in Serving => c \in clients
    /\ conn[c] \in {"none", "accepted"} => chan[c] = <<>>
    /\ conn[c] \in NotSent => wire[c] = <<>>
    /\ OnlyHead(wire[c]) /\ SnapFirst(events[c])
    /\ Early(c) => /\ gui[c] \in {"none", "handshake", "gone"}
                   /\ buf[c] = <<>> /\ Quiet(events[c])
    /\ Unseen(c) => main # c /\ Len(view[c]) = 1
    /\ view[c] # <<>>

LEMMA PhaseKept ==
    ASSUME NEW c, Phase(c),
           /\ chan'[c] = chan[c] /\ conn'[c] = conn[c] /\ wire'[c] = wire[c]
           /\ gui'[c] = gui[c] /\ buf'[c] = buf[c] /\ events'[c] = events[c]
           /\ view'[c] = view[c],
           c \in clients => c \in clients', main' = c => main = c
    PROVE  Phase(c)'
BY DEF Phase, Early, Unseen

LEMMA IoKeepsPhase ==
    ASSUME Types, Clients, NEW d \in Conn, Phase(d), IoTask \/ Elsewhere
    PROVE  Phase(d)'
<1> USE DEF streams, handler, window, threads
<1>1. CASE IoFeeds \/ Commands \/ IoStops \/ IoDelists \/ Elsewhere
  <2>1. UNCHANGED <<chan, conn, wire, gui, buf, events, view, clients, main>>
    BY <1>1, CommandsTouch, ElsewhereTouches DEF IoFeeds, IoStops, IoDelists
  <2> QED
    BY <2>1, PhaseKept
<1>2. ASSUME NEW m \in Message, ~IsSnap(m), Broadcast(m),
             UNCHANGED <<conn, wire, gui, buf, events, view, clients, main>>
      PROVE  Phase(d)'
  <2>1. \/ chan'[d] = chan[d]
        \/ d \in clients /\ Len(chan[d]) < ChanCap /\ chan'[d] = Append(chan[d], m)
    BY <1>2 DEF Broadcast, Receivers
  <2>2. CASE chan'[d] = chan[d]
    BY <1>2, <2>2, PhaseKept
  <2>3. CASE d \in clients /\ Len(chan[d]) < ChanCap /\ chan'[d] = Append(chan[d], m)
    <3>1. chan[d] \in Seq(Message) /\ Snaps(chan[d]) = {}
      BY DEF Types, Phase
    <3>2. Snaps(chan'[d]) = {} /\ Len(chan'[d]) = Len(chan[d]) + 1 /\ Len(chan[d]) \in Nat
      BY <1>2, <2>3, <3>1, SnapsOfAppend, AppendProperties, LenProperties
    <3>3. conn[d] \notin {"none", "accepted"}
      BY <2>3 DEF Clients
    <3>4. Len(chan'[d]) <= ChanCap
      BY <2>3, <3>2, BoundsAssumption
    <3> QED
      BY <1>2, <3>2, <3>3, <3>4 DEF Phase, Early, Unseen
  <2> QED
    BY <2>1, <2>2, <2>3
<1>3. CASE IoBroadcasts
  <2>1. Chunk(out) \in Message /\ ~IsSnap(Chunk(out))
    BY MessagesAreMessages DEF Types, IsSnap, Chunk
  <2> QED
    BY <1>2, <1>3, <2>1 DEF IoBroadcasts
<1>4. CASE IoNotifies
  <2>1. ExitMsg \in Message /\ ~IsSnap(ExitMsg)
    BY MessagesAreMessages DEF IsSnap, ExitMsg
  <2> QED
    BY <1>2, <1>4, <2>1 DEF IoNotifies
<1> QED
  BY <1>1, <1>3, <1>4 DEF IoTask, Commands

LEMMA HandlerKeepsPhase ==
    ASSUME Types, NEW c \in Conn, NEW d \in Conn, Phase(d), Handler(c)
    PROVE  Phase(d)'
<1> USE DEF daemon, streams, window, threads, UntouchedByHandler
<1>1. UntouchedByHandler(c)
  BY HandlerTouches
<1>2. CASE d # c
  BY <1>1, <1>2, PhaseKept
<1>3. ASSUME Phase(c), NEW m \in Message, ~IsSnap(m), Send(c, m),
             chan'[c] = chan[c], c \in clients => c \in clients',
             conn[c] \notin NotSent \/ conn[c] = "accepted",
             conn'[c] \notin NotSent,
             conn'[c] \in Serving => c \in clients
      PROVE  Phase(c)'
  <2>1. wire[c] \in Seq(Message) /\ wire'[c] = Append(wire[c], m)
    BY <1>3 DEF Types, Send
  <2>2. Snaps(wire'[c]) = Snaps(wire[c]) /\ OnlyHead(wire'[c])
    BY <1>3, <2>1, SnapsOfAppend DEF Phase
  <2>3. Early(c)' => Early(c)
    BY <1>3, <2>2 DEF Early
  <2> QED
    BY <1>1, <1>3, <2>2, <2>3 DEF Phase, Unseen, NotSent
<1>4. CASE d = c
  <2> USE <1>4
  <2>1. CASE Attach(c)
    <3>1. /\ conn[c] = "accepted" /\ conn'[c] = "attached" /\ c \in clients'
          /\ UNCHANGED <<chan, wire>>
      BY <2>1 DEF Attach, Types
    <3> QED
      BY <1>1, <3>1 DEF Phase, Early, Unseen, NotSent, Serving
  <2>2. CASE TakeSnapshot(c)
    <3>1. conn[c] = "attached" /\ conn'[c] = "snapped" /\ UNCHANGED <<chan, wire, clients>>
      BY <2>2 DEF TakeSnapshot, Types
    <3> QED
      BY <1>1, <3>1 DEF Phase, Early, Unseen, NotSent, Serving
  <2>3. CASE SnapshotFails(c)
    <3>1. conn[c] = "snapped" /\ conn'[c] = "closed" /\ UNCHANGED <<chan, wire>>
      BY <2>3 DEF SnapshotFails, Types
    <3> QED
      BY <1>1, <3>1 DEF Phase, Early, Unseen, NotSent, Serving
  <2>4. CASE Detach(c)
    <3>1. conn[c] = "leaving" /\ conn'[c] = "closed" /\ UNCHANGED <<chan, wire>>
      BY <2>4 DEF Detach, Types
    <3> QED
      BY <1>1, <3>1 DEF Phase, Early, Unseen, NotSent, Serving
  <2>5. CASE \/ ChannelCloses(c) \/ ReadPart(c) \/ ReadFrame(c) \/ ReadFails(c)
             \/ WriteOk(c) /\ c \in shut
             \/ TakeMutex(c) \/ SendResumes(c)
    <3>1. /\ conn[c] \in {"streaming", "greeting", "commanding", "sending"}
          /\ \/ conn'[c] = conn[c]
             \/ conn'[c] \in {"streaming", "commanding", "sending"} /\ conn[c] # "greeting"
             \/ conn'[c] = "leaving"
          /\ UNCHANGED <<chan, wire, clients>>
      <4>1. CASE ChannelCloses(c) \/ ReadPart(c)
        BY <4>1 DEF ChannelCloses, ReadPart, Types
      <4>2. CASE ReadFrame(c) \/ ReadFails(c)
        BY <4>2 DEF ReadFrame, ReadFails, Types
      <4>3. CASE WriteOk(c) /\ c \in shut
        BY <4>3 DEF WriteOk, Types
      <4>4. CASE TakeMutex(c) \/ SendResumes(c)
        BY <4>4, HandlerCommands DEF Types
      <4> QED
        BY <2>5, <4>1, <4>2, <4>3, <4>4
    <3> QED
      BY <1>1, <3>1 DEF Phase, Early, Unseen, NotSent, Serving
  <2>6. CASE Refuse(c)
    <3>1. Reply("refused") \in Message /\ ~IsSnap(Reply("refused"))
      BY MessagesAreMessages DEF IsSnap, Reply
    <3>2. /\ Send(c, Reply("refused")) /\ conn[c] = "accepted" /\ conn'[c] = "closed"
          /\ UNCHANGED <<chan, clients>>
      BY <2>6 DEF Refuse, Types
    <3> QED
      BY <1>3, <3>1, <3>2 DEF NotSent, Serving
  <2>7. CASE WriteOk(c) /\ c \notin shut
    <3>1. Reply("ok") \in Message /\ ~IsSnap(Reply("ok"))
      BY MessagesAreMessages DEF IsSnap, Reply
    <3>2. /\ Send(c, Reply("ok")) /\ conn[c] = "greeting" /\ conn'[c] = "streaming"
          /\ UNCHANGED <<chan, clients>>
      BY <2>7 DEF WriteOk, Types
    <3>3. c \in clients
      BY <3>2 DEF Phase, Serving
    <3> QED
      BY <1>3, <3>1, <3>2, <3>3 DEF NotSent, Serving
  <2>8. CASE WriteSnapshot(c)
    <3>1. /\ conn[c] = "snapped" /\ conn'[c] = "greeting" /\ Send(c, Snapshot(snap[c]))
          /\ UNCHANGED <<chan, clients>>
      BY <2>8 DEF WriteSnapshot, Types
    <3>2. Snapshot(snap[c]) \in Message /\ wire[c] = <<>> /\ wire[c] \in Seq(Message)
          /\ wire'[c] = Append(wire[c], Snapshot(snap[c]))
      BY <3>1, MessagesAreMessages DEF Phase, NotSent, Types, Send
    <3>3. OnlyHead(wire'[c])
      BY <3>2, SnapsOfAppend DEF Phase
    <3>4. Early(c) /\ c \in clients
      BY <3>1 DEF Early, NotSent, Phase, Serving
    <3> QED
      BY <1>1, <3>1, <3>3, <3>4 DEF Phase, Early, Unseen, NotSent, Serving
  <2>9. CASE ForwardMessage(c)
    <3>1. /\ conn[c] = "streaming" /\ conn'[c] \in {"streaming", "leaving"}
          /\ chan[c] # <<>> /\ chan'[c] = Tail(chan[c]) /\ UNCHANGED clients
          /\ wire'[c] = wire[c] \/ wire'[c] = Append(wire[c], Head(chan[c]))
          /\ chan[c] \in Seq(Message) /\ wire[c] \in Seq(Message)
      BY <2>9 DEF ForwardMessage, Types, Send
    <3>2. /\ Len(chan'[c]) <= ChanCap /\ Snaps(chan'[c]) = {}
          /\ Head(chan[c]) \in Message /\ ~IsSnap(Head(chan[c]))
      <4>1. /\ Len(chan'[c]) = Len(chan[c]) - 1 /\ Len(chan[c]) \in Nat
            /\ Head(chan[c]) \in Message
        BY <3>1, HeadTailProperties, LenProperties
      <4>2. Snaps(chan'[c]) = {} /\ ~IsSnap(Head(chan[c]))
        BY <3>1, SnapsOfTail DEF Phase
      <4>3. Len(chan'[c]) <= ChanCap
        BY <4>1, BoundsAssumption DEF Phase
      <4> QED
        BY <4>1, <4>2, <4>3
    <3>3. Snaps(wire'[c]) = Snaps(wire[c]) /\ OnlyHead(wire'[c])
      BY <3>1, <3>2, SnapsOfAppend DEF Phase
    <3>4. Early(c)' <=> Early(c)
      BY <3>1, <3>3 DEF Early, NotSent
    <3> QED
      BY <1>1, <3>1, <3>2, <3>3, <3>4 DEF Phase, Unseen, NotSent, Serving
  <2> QED
    BY <2>1, <2>2, <2>3, <2>4, <2>5, <2>6, <2>7, <2>8, <2>9 DEF Handler
<1> QED
  BY <1>2, <1>4

LEMMA ReaderKeepsPhase ==
    ASSUME Types, NEW c \in Conn, NEW d \in Conn, Phase(d), Reader(c)
    PROVE  Phase(d)'
<1> USE DEF daemon, streams, handler, window, threads, UntouchedByReader
<1>1. UntouchedByReader(c)
  BY ReaderTouches
<1>2. CASE d # c
  BY <1>1, <1>2, PhaseKept
<1>3. CASE d = c
  <2> USE <1>3
  <2>1. \A kind : Receive(c, kind) /\ kind # "snapshot" =>
            /\ wire'[c] = Tail(wire[c]) /\ wire[c] # <<>>
            /\ OnlyHead(wire'[c]) /\ Snaps(wire[c]) = {} /\ Snaps(wire'[c]) = {}
    <3> SUFFICES ASSUME NEW kind, Receive(c, kind), kind # "snapshot"
                 PROVE  /\ wire'[c] = Tail(wire[c]) /\ wire[c] # <<>>
                        /\ OnlyHead(wire'[c]) /\ Snaps(wire[c]) = {} /\ Snaps(wire'[c]) = {}
      OBVIOUS
    <3>1. /\ wire[c] \in Seq(Message) /\ wire[c] # <<>> /\ ~IsSnap(Head(wire[c]))
          /\ wire'[c] = Tail(wire[c])
      BY DEF Receive, Types, IsSnap
    <3> QED
      BY <3>1, SnapsOfTail DEF Phase
  <2>2. \A kind : Receive(c, kind) /\ kind # "snapshot" => ~Early(c)
    BY <2>1 DEF Early, Phase, Receive
  <2>3. \A m \in Message : Notify(c, m) /\ ~IsSnap(m) =>
            /\ Snaps(events'[c]) = Snaps(events[c]) /\ SnapFirst(events'[c])
            /\ m.kind # "output" /\ Quiet(events[c]) => Quiet(events'[c])
    <3> SUFFICES ASSUME NEW m \in Message, Notify(c, m), ~IsSnap(m)
                 PROVE  /\ Snaps(events'[c]) = Snaps(events[c]) /\ SnapFirst(events'[c])
                        /\ m.kind # "output" /\ Quiet(events[c]) => Quiet(events'[c])
      OBVIOUS
    <3>1. events[c] \in Seq(Message) /\ events'[c] = Append(events[c], m)
      BY DEF Notify, Types
    <3>2. SnapFirst(events[c]) /\ m.kind # "snapshot"
      BY DEF Phase, IsSnap
    <3>3. Snaps(events'[c]) = Snaps(events[c]) /\ SnapFirst(events'[c])
      BY <3>1, <3>2, SnapsOfAppend
    <3>4. m.kind # "output" /\ Quiet(events[c]) => Quiet(events'[c])
      BY <3>1, <3>2, SnapsOfAppend
    <3> QED
      BY <3>3, <3>4
  <2>4. CASE ReaderGetsSnapshot(c)
    <3>1. /\ wire[c] \in Seq(Message) /\ wire[c] # <<>> /\ IsSnap(Head(wire[c]))
          /\ wire'[c] = Tail(wire[c]) /\ Head(wire[c]) \in Message
          /\ events[c] \in Seq(Message) /\ events'[c] = Append(events[c], Head(wire[c]))
          /\ UNCHANGED <<gui, buf>>
      BY <2>4, TailsAreTails DEF ReaderGetsSnapshot, Receive, Notify, Types, IsSnap
    <3>2. OnlyHead(wire'[c]) /\ Snaps(wire'[c]) = {} /\ Snaps(wire[c]) # {}
      BY <3>1, SnapsOfTail DEF Phase
    <3>3. Early(c) /\ conn[c] \notin NotSent
      BY <3>1, <3>2 DEF Early, Phase
    <3>4. SnapFirst(events'[c])
      BY <3>1, <3>3, SnapsOfAppend DEF Phase
    <3> QED
      BY <1>1, <3>1, <3>2, <3>3, <3>4 DEF Phase, Early, Unseen
  <2>5. CASE ReaderGetsOk(c)
    BY <1>1, <2>1, <2>2, <2>5 DEF ReaderGetsOk, Phase, Early, Unseen
  <2>6. CASE ReaderPushes(c)
    BY <1>1, <2>1, <2>2, <2>6 DEF ReaderPushes, Phase, Early, Unseen
  <2>7. CASE ReaderSwapsPending(c)
    <3>1. ~Early(c) /\ UNCHANGED <<wire, buf>>
      BY <2>7 DEF ReaderSwapsPending, Phase
    <3>2. Snaps(events'[c]) = Snaps(events[c]) /\ SnapFirst(events'[c])
      <4>1. Reply("output") \in Message /\ ~IsSnap(Reply("output"))
        BY MessagesAreMessages DEF IsSnap, Reply
      <4> QED
        BY <2>3, <2>7, <4>1 DEF ReaderSwapsPending, Phase
    <3> QED
      BY <1>1, <3>1, <3>2 DEF Phase, Early, Unseen
  <2>8. CASE ReaderGivesUp(c) \/ ReaderStops(c)
    <3>1. /\ Notify(c, ExitMsg) /\ UNCHANGED buf /\ gui'[c] = "gone"
          /\ UNCHANGED wire \/ Receive(c, "refused") \/ Receive(c, "exit")
      BY <2>8 DEF ReaderGivesUp, ReaderStops, ReaderEnds, Types
    <3>2. ExitMsg \in Message /\ ~IsSnap(ExitMsg) /\ ExitMsg.kind # "output"
      BY MessagesAreMessages DEF IsSnap, ExitMsg
    <3>3. /\ Snaps(events'[c]) = Snaps(events[c]) /\ SnapFirst(events'[c])
          /\ Quiet(events[c]) => Quiet(events'[c])
      BY <2>3, <3>1, <3>2
    <3>4. /\ OnlyHead(wire'[c]) /\ Snaps(wire'[c]) = Snaps(wire[c])
          /\ wire[c] = <<>> => wire'[c] = <<>>
      BY <2>1, <3>1 DEF Phase
    <3> QED
      BY <1>1, <3>1, <3>3, <3>4 DEF Phase, Early, Unseen
  <2> QED
    BY <2>4, <2>5, <2>6, <2>7, <2>8 DEF Reader
<1> QED
  BY <1>2, <1>3

LEMMA PaneKeepsPhase ==
    ASSUME Types, Opened, NEW c \in Conn, NEW d \in Conn, Phase(d),
           \/ EventLoop(c) \/ Connect(c) \/ ClosePane(c)
           \/ WriterWrites(c) \/ WriterShutsDown(c)
    PROVE  Phase(d)'
<1> USE DEF daemon, streams, handler, window, threads, UntouchedByEvents
<1>1. CASE WriterWrites(c)
  BY <1>1, PhaseKept DEF WriterWrites
<1>2. CASE WriterShutsDown(c)
  BY <1>2, PhaseKept DEF WriterShutsDown
<1>3. CASE Connect(c)
  <2>1. /\ gui'[c] = "handshake" /\ conn[c] = "none" /\ conn'[c] = "accepted"
        /\ \A e \in Conn \ {c} : gui'[e] = gui[e] /\ conn'[e] = conn[e]
        /\ UNCHANGED <<chan, wire, buf, events, view, clients, main>>
    BY <1>3 DEF Connect, Opened, Types
  <2>2. CASE d # c
    BY <2>1, <2>2, PhaseKept
  <2>3. CASE d = c
    BY <2>1, <2>3 DEF Phase, Early, Unseen, NotSent, Serving
  <2> QED
    BY <2>2, <2>3
<1>4. CASE ClosePane(c) \/ Drain(c) \/ EventLoop(c)
  <2>1. UntouchedByEvents(c)
    BY <1>4, EventsTouch DEF EventLoop
  <2>2. CASE d # c
    BY <2>1, <2>2, PhaseKept
  <2>3. \A kind : NextEvent(c, kind) =>
          /\ events[c] \in Seq(Message) /\ events[c] # <<>> /\ Head(events[c]).kind = kind
          /\ events'[c] = Tail(events[c])
    BY DEF NextEvent, Types
  <2>4. CASE d = c
    <3> USE <2>4
    <3>1. CASE ClosePane(c)
      <4>1. buf'[c] = <<>> /\ view'[c] = <<0>> /\ UNCHANGED <<events, main>>
        BY <3>1 DEF ClosePane, DropPane, Types
      <4>2. Len(<<0>>) = 1 /\ <<0>> # <<>>
        OBVIOUS
      <4> QED
        BY <2>1, <4>1, <4>2 DEF Phase, Early, Unseen
    <3>2. CASE HandleOutput(c)
      <4>1. /\ events[c] \in Seq(Message) /\ events[c] # <<>>
            /\ Head(events[c]).kind = "output" /\ events'[c] = Tail(events[c])
            /\ UNCHANGED <<buf, view>>
        BY <2>3, <3>2 DEF HandleOutput
      <4>2. SnapFirst(events'[c]) /\ Snaps(events[c]) = {} /\ Snaps(events'[c]) = {}
        BY <4>1, SnapsOfTail DEF Phase
      <4>3. ~Quiet(events[c])
        <5>1. 1 \in 1..Len(events[c]) /\ events[c][1].kind = "output"
          BY <4>1, HeadTailProperties, EmptySeq, LenProperties
        <5> QED
          BY <5>1 DEF Quiet
      <4> QED
        BY <2>1, <4>1, <4>2, <4>3 DEF Phase, Early, Unseen
    <3>3. CASE Drain(c)
      <4>1. /\ main = c /\ main' # c /\ buf'[c] = <<>> /\ UNCHANGED events
            /\ view'[c] = view[c] \/ view'[c] = view[c] \o buf[c]
            /\ view[c] \in Seq(Nat) /\ buf[c] \in Seq(Nat) /\ view[c] # <<>>
        BY <3>3, BoundsAssumption DEF Drain, Types, Phase
      <4>2. view'[c] # <<>>
        BY <4>1, DrainKeepsFirst
      <4> QED
        BY <2>1, <4>1, <4>2 DEF Phase, Early, Unseen
    <3>4. CASE HandleSnapshot(c)
      <4>1. /\ events[c] \in Seq(Message) /\ events[c] # <<>>
            /\ IsSnap(Head(events[c])) /\ events'[c] = Tail(events[c])
            /\ view'[c] = view[c] \/ view'[c] = <<Head(events[c]).n>>
            /\ UNCHANGED <<buf, main>>
        BY <2>3, <3>4 DEF HandleSnapshot, IsSnap, Types
      <4>2. SnapFirst(events'[c]) /\ Snaps(events[c]) # {}
        BY <4>1, SnapsOfTail DEF Phase
      <4>3. ~Early(c) /\ main # c /\ Len(view'[c]) = 1 /\ view'[c] # <<>>
        <5>1. ~Early(c) /\ Unseen(c)
          BY <4>2, QuietHasNone DEF Phase, Unseen
        <5>2. main # c /\ Len(view[c]) = 1 /\ view[c] # <<>>
          BY <5>1 DEF Phase
        <5>3. \A n : Len(<<n>>) = 1 /\ <<n>> # <<>>
          OBVIOUS
        <5> QED
          BY <4>1, <5>1, <5>2, <5>3
      <4> QED
        BY <2>1, <4>1, <4>2, <4>3 DEF Phase, Early, Unseen
    <3>5. CASE HandleExited(c)
      <4>1. /\ events[c] \in Seq(Message) /\ events[c] # <<>>
            /\ ~IsSnap(Head(events[c])) /\ events'[c] = Tail(events[c])
            /\ buf'[c] = <<>> /\ view'[c] = <<0>> /\ UNCHANGED main
        BY <2>3, <3>5, SMTT(20) DEF HandleExited, DropPane, IsSnap, Types
      <4>2. /\ SnapFirst(events'[c]) /\ Snaps(events'[c]) = Snaps(events[c])
            /\ Quiet(events[c]) => Quiet(events'[c])
        BY <4>1, SnapsOfTail DEF Phase
      <4>3. Len(<<0>>) = 1 /\ <<0>> # <<>>
        OBVIOUS
      <4> QED
        BY <2>1, <4>1, <4>2, <4>3 DEF Phase, Early, Unseen
    <3> QED
      BY <1>4, <3>1, <3>2, <3>3, <3>4, <3>5 DEF EventLoop
  <2> QED
    BY <2>2, <2>4
<1> QED
  BY <1>1, <1>2, <1>3, <1>4

-----------------------------------------------------------------------------
(* What a pane holds: the chunks it has shown since its snapshot, buffered *)
(* or has on its wire; and the snapshot they follow, wherever that is.  As *)
(* long as the handler serves the client, what it holds and what is in its *)
(* channel reach up to the next chunk to be broadcast.                     *)

Held(c) == From(view[c], 2) \cup From(buf[c], 1) \cup Nums(wire[c])

Bases(c) ==
    (IF conn[c] = "snapped" THEN {snap[c]} ELSE {})
    \cup Snaps(wire[c]) \cup Snaps(events[c])
    \cup (IF Unseen(c) THEN {} ELSE {view[c][1]})

Gapless(H, B)   == \A x \in H \cup B, y \in H, k \in Nat : x < k /\ k < y => k \in H
Covers(T, B, f) == \A x \in T \cup B, k \in Nat : x < k /\ k < f => k \in T

NoGap(c) ==
    c \in pane \ dropped =>
        /\ Gapless(Held(c), Bases(c))
        /\ conn[c] \in Serving => Covers(Held(c) \cup Nums(chan[c]), Bases(c), Fresh)

LEMMA NumsOfTail ==
    ASSUME NEW s \in Seq(Message), s # <<>>
    PROVE  Nums(s) = Nums(Tail(s)) \cup (IF IsChunk(Head(s)) THEN {Head(s).n} ELSE {})
<1>1. /\ Len(s) \in Nat \ {0} /\ Len(Tail(s)) = Len(s) - 1 /\ Head(s) = s[1]
      /\ \A i \in 1..Len(Tail(s)) : Tail(s)[i] = s[i + 1]
  BY HeadTailProperties, EmptySeq, LenProperties
<1>2. Nums(s) = Nums(Tail(s)) \cup (IF IsChunk(Head(s)) THEN {Head(s).n} ELSE {})
  <2>1. ASSUME NEW i \in 1..Len(s), i # 1
        PROVE  i - 1 \in 1..Len(Tail(s)) /\ Tail(s)[i - 1] = s[i]
    BY <1>1, <2>1
  <2>2. ASSUME NEW n \in Nums(s)
        PROVE  n \in Nums(Tail(s)) \cup (IF IsChunk(Head(s)) THEN {Head(s).n} ELSE {})
    <3>1. PICK i \in 1..Len(s) : IsChunk(s[i]) /\ n = s[i].n
      BY DEF Nums
    <3>2. CASE i = 1
      BY <1>1, <3>1, <3>2
    <3>3. CASE i # 1
      BY <2>1, <3>1, <3>3 DEF Nums
    <3> QED
      BY <3>2, <3>3
  <2>3. ASSUME NEW n \in Nums(Tail(s))
        PROVE  n \in Nums(s)
    <3>1. PICK i \in 1..Len(Tail(s)) : IsChunk(Tail(s)[i]) /\ n = Tail(s)[i].n
      BY DEF Nums
    <3>2. i + 1 \in 1..Len(s) /\ Tail(s)[i] = s[i + 1]
      BY <1>1
    <3> QED
      BY <3>1, <3>2 DEF Nums
  <2>4. IsChunk(Head(s)) => Head(s).n \in Nums(s)
    <3>1. 1 \in 1..Len(s) /\ Head(s) = s[1]
      BY <1>1
    <3> QED
      BY <3>1 DEF Nums
  <2> QED
    BY <2>2, <2>3, <2>4
<1> QED
  BY <1>2

LEMMA NumsOfAppend ==
    ASSUME NEW s \in Seq(Message), NEW m \in Message
    PROVE  Nums(Append(s, m)) = Nums(s) \cup (IF IsChunk(m) THEN {m.n} ELSE {})
<1>1. /\ Len(s) \in Nat /\ Len(Append(s, m)) = Len(s) + 1
      /\ \A i \in 1..Len(s) : Append(s, m)[i] = s[i]
      /\ Append(s, m)[Len(s) + 1] = m
  BY AppendProperties, LenProperties
<1> QED
  BY <1>1 DEF Nums

LEMMA CoversBroadcast ==
    ASSUME NEW T, NEW B, NEW n \in Nat, Covers(T, B, n)
    PROVE  Covers(T \cup {n}, B, n + 1)
<1> SUFFICES ASSUME NEW x \in T \cup {n} \cup B, NEW k \in Nat, x < k, k < n + 1
             PROVE  k \in T \cup {n}
  BY DEF Covers
<1>1. CASE k = n
  BY <1>1
<1>2. CASE k < n
  <2>1. x # n
    BY <1>2
  <2> QED
    BY <1>2, <2>1 DEF Covers
<1> QED
  BY <1>1, <1>2

LEMMA CoversIsGapless ==
    ASSUME NEW v \in Seq(Nat), NEW b \in Seq(Nat), NEW w \in Seq(Message),
           NEW q \in Seq(Message), NEW f \in Nat, NEW B, Pipe(v, b, w, q, f),
           Covers(From(v, 2) \cup From(b, 1) \cup Nums(w) \cup Nums(q), B, f)
    PROVE  Gapless(From(v, 2) \cup From(b, 1) \cup Nums(w), B)
<1> DEFINE H == From(v, 2) \cup From(b, 1) \cup Nums(w)
<1>1. H \subseteq Nat /\ Before(H, {f}) /\ Before(H, Nums(q)) /\ Nums(q) \subseteq Nat
  BY NumsAreNumbers DEF Pipe, Before
<1>2. Covers(H \cup Nums(q), B, f)
  OBVIOUS
<1> HIDE DEF H
<1>3. ASSUME NEW x \in H \cup B, NEW y \in H, NEW k \in Nat, x < k, k < y
      PROVE  k \in H
  <2>1. k < f
    BY <1>1, <1>3 DEF Before
  <2>2. k \in H \cup Nums(q)
    BY <1>2, <1>3, <2>1 DEF Covers
  <2>3. k \notin Nums(q)
    BY <1>1, <1>3 DEF Before
  <2> QED
    BY <2>2, <2>3
<1>4. Gapless(H, B)
  BY <1>3 DEF Gapless
<1> QED
  BY <1>4 DEF H

LEMMA NothingHeld ==
    ASSUME Types, NEW c \in Conn, Phase(c), conn[c] \in NotSent
    PROVE  Held(c) = {} /\ Snaps(wire[c]) = {} /\ Snaps(events[c]) = {} /\ Unseen(c)
<1>1. Early(c) /\ Unseen(c) /\ wire[c] = <<>> /\ buf[c] = <<>> /\ Len(view[c]) = 1
      /\ Quiet(events[c])
  BY DEF Phase, Early, Unseen
<1>2. From(view[c], 2) = {} /\ From(<<>>, 1) = {} /\ Nums(<<>>) = {}
  BY <1>1 DEF From, Nums
<1> QED
  BY <1>1, <1>2, SnapsOfEmpty, QuietHasNone DEF Held

LEMMA GapKept ==
    ASSUME NEW c, NoGap(c), Held(c)' = Held(c), Bases(c)' \subseteq Bases(c),
           dropped \subseteq dropped', c \in pane' => c \in pane,
           conn'[c] \in Serving => /\ conn[c] \in Serving /\ Fresh' = Fresh
                                   /\ Nums(chan'[c]) = Nums(chan[c])
    PROVE  NoGap(c)'
BY DEF NoGap, Gapless, Covers

LEMMA GapElsewhere ==
    ASSUME NEW c, NoGap(c),
           /\ view'[c] = view[c] /\ buf'[c] = buf[c] /\ wire'[c] = wire[c]
           /\ chan'[c] = chan[c] /\ conn'[c] = conn[c] /\ snap'[c] = snap[c]
           /\ events'[c] = events[c],
           dropped \subseteq dropped', c \in pane' => c \in pane, Fresh' = Fresh
    PROVE  NoGap(c)'
<1>1. Held(c)' = Held(c) /\ Bases(c)' = Bases(c)
  BY DEF Held, Bases, Unseen, Early
<1> QED
  BY <1>1, GapKept

LEMMA IoKeepsGap ==
    ASSUME Types, NEW d \in Conn, Phase(d), NoGap(d), IoTask \/ Elsewhere
    PROVE  NoGap(d)'
<1> USE DEF streams, handler, window, threads
<1>1. /\ UNCHANGED <<view, buf, wire, conn, snap, events, pane>>
      /\ dropped \subseteq dropped'
  BY ElsewhereTouches
     DEF IoTask, IoFeeds, IoBroadcasts, IoTakes, IoHasWritten, IoStops, IoNotifies,
         IoDelists, Broadcast
<1>2. Held(d)' = Held(d) /\ Bases(d)' = Bases(d)
  BY <1>1 DEF Held, Bases, Unseen, Early
<1>3. CASE IoFeeds \/ Commands \/ IoStops \/ IoDelists \/ Elsewhere
  <2>1. UNCHANGED chan /\ Fresh' = Fresh
    BY <1>3, CommandsTouch, ElsewhereTouches DEF IoFeeds, IoStops, IoDelists, Fresh, Types
  <2> QED
    BY <1>1, <2>1, GapElsewhere
<1>4. CASE IoNotifies
  <2>1. /\ Fresh' = Fresh
        /\ chan'[d] = chan[d] \/ chan'[d] = Append(chan[d], ExitMsg)
    BY <1>4 DEF IoNotifies, Broadcast, Fresh
  <2>2. chan[d] \in Seq(Message) /\ ExitMsg \in Message /\ ~IsChunk(ExitMsg)
    BY MessagesAreMessages DEF Types, IsChunk, ExitMsg
  <2>3. Nums(chan'[d]) = Nums(chan[d])
    BY <2>1, <2>2, NumsOfAppend
  <2> QED
    BY <1>1, <1>2, <2>1, <2>3, GapKept
<1>5. CASE IoBroadcasts
  <2>1. /\ out \in Nat /\ Fresh = out /\ Fresh' = out + 1 /\ Broadcast(Chunk(out))
        /\ chan[d] \in Seq(Message)
    BY <1>5 DEF IoBroadcasts, Fresh, Types
  <2>2. ASSUME d \in pane' \ dropped', conn'[d] \in Serving
        PROVE  Covers(Held(d)' \cup Nums(chan'[d]), Bases(d)', Fresh')
    <3>1. d \in Receivers
      BY <1>1, <2>2 DEF Receivers, Phase, Serving
    <3>2. Len(chan[d]) < ChanCap
      <4>1. Len(chan[d]) # ChanCap
        BY <2>1, <2>2, <3>1 DEF Broadcast
      <4>2. Len(chan[d]) \in Nat /\ Len(chan[d]) <= ChanCap
        BY <2>1, LenProperties DEF Phase
      <4> QED
        BY <4>1, <4>2, BoundsAssumption
    <3>3. chan'[d] = Append(chan[d], Chunk(out))
      BY <2>1, <3>1, <3>2 DEF Broadcast
    <3>4. Nums(chan'[d]) = Nums(chan[d]) \cup {out}
      <4>1. Chunk(out) \in Message /\ IsChunk(Chunk(out)) /\ Chunk(out).n = out
        BY <2>1, MessagesAreMessages DEF IsChunk, Chunk
      <4> QED
        BY <2>1, <3>3, <4>1, NumsOfAppend
    <3>5. Covers(Held(d) \cup Nums(chan[d]), Bases(d), out)
      BY <1>1, <2>1, <2>2 DEF NoGap
    <3>6. Covers((Held(d) \cup Nums(chan[d])) \cup {out}, Bases(d), out + 1)
      BY <2>1, <3>5, CoversBroadcast
    <3>7. Held(d)' \cup Nums(chan'[d]) = (Held(d) \cup Nums(chan[d])) \cup {out}
      BY <1>2, <3>4
    <3> QED
      BY <1>2, <2>1, <3>6, <3>7
  <2>3. d \in pane' \ dropped' => Gapless(Held(d)', Bases(d)')
    BY <1>1, <1>2 DEF NoGap
  <2> QED
    BY <2>2, <2>3 DEF NoGap
<1> QED
  BY <1>3, <1>4, <1>5 DEF IoTask, Commands

LEMMA HandlerKeepsGap ==
    ASSUME Types, PipesHold, NEW c \in Conn, NEW d \in Conn, Phase(d), NoGap(d), Handler(c)
    PROVE  NoGap(d)'
<1> USE DEF daemon, streams, window, threads, UntouchedByHandler
<1>1. UntouchedByHandler(c)
  BY HandlerTouches
<1>2. Fresh' = Fresh
  BY <1>1 DEF Fresh
<1>3. CASE d # c
  BY <1>1, <1>2, <1>3, GapElsewhere
<1>4. ASSUME conn[c] \notin NotSent, conn'[c] \notin NotSent,
             conn'[c] \in Serving => conn[c] \in Serving,
             Nums(chan'[c]) = Nums(chan[c]), Nums(wire'[c]) = Nums(wire[c]),
             Snaps(wire'[c]) = Snaps(wire[c]), NoGap(c)
      PROVE  NoGap(c)'
  <2>1. Held(c)' = Held(c)
    BY <1>1, <1>4 DEF Held
  <2>2. Bases(c)' = Bases(c)
    BY <1>1, <1>4 DEF Bases, Unseen, Early, NotSent
  <2> QED
    BY <1>1, <1>2, <1>4, <2>1, <2>2, GapKept
<1>5. CASE d = c
  <2> USE <1>5
  <2>1. CASE Attach(c)
    <3>1. conn[c] = "accepted" /\ conn'[c] = "attached" /\ UNCHANGED <<chan, wire>>
      BY <2>1 DEF Attach, Types
    <3>2. /\ Held(c) = {} /\ Snaps(wire[c]) = {} /\ Snaps(events[c]) = {}
          /\ chan[c] = <<>>
      BY <3>1, NothingHeld DEF NotSent, Phase
    <3>3. Held(c)' = {} /\ Bases(c)' = {} /\ Nums(chan'[c]) = {}
      <4>1. Held(c)' = {}
        BY <1>1, <3>1, <3>2 DEF Held
      <4>2. Bases(c)' = {}
        BY <1>1, <3>1, <3>2 DEF Bases, Unseen, Early, NotSent
      <4>3. Nums(<<>>) = {}
        BY DEF Nums
      <4> QED
        BY <3>1, <3>2, <4>1, <4>2, <4>3
    <3> QED
      BY <3>3 DEF NoGap, Gapless, Covers
  <2>2. CASE TakeSnapshot(c)
    <3>1. /\ conn[c] = "attached" /\ conn'[c] = "snapped" /\ snap'[c] = out
          /\ UNCHANGED <<chan, wire>>
      BY <2>2 DEF TakeSnapshot, Types
    <3>2. Held(c) = {} /\ Snaps(wire[c]) = {} /\ Snaps(events[c]) = {}
      BY <3>1, NothingHeld DEF NotSent
    <3>3. Held(c)' = {} /\ Bases(c)' = {out}
      BY <1>1, <3>1, <3>2 DEF Held, Bases, Unseen, Early, NotSent
    <3>4. out \in Nat /\ \A k \in Nat : ~(out < k /\ k < Fresh)
      BY DEF Types, Fresh
    <3>5. c \in pane \ dropped => Covers(Held(c) \cup Nums(chan[c]), Bases(c), Fresh)
      BY <3>1 DEF NoGap, Serving
    <3>6. c \in pane \ dropped => Covers(Held(c)' \cup Nums(chan'[c]), {out}, Fresh)
      BY <3>1, <3>2, <3>3, <3>4, <3>5 DEF Covers
    <3> QED
      BY <1>1, <1>2, <3>3, <3>6 DEF NoGap, Gapless
  <2>3. CASE WriteSnapshot(c)
    <3>1. /\ conn[c] = "snapped" /\ conn'[c] = "greeting" /\ UNCHANGED chan
          /\ wire'[c] = Append(wire[c], Snapshot(snap[c]))
          /\ wire[c] \in Seq(Message) /\ snap[c] \in Nat
      BY <2>3 DEF WriteSnapshot, Send, Types
    <3>2. /\ Snapshot(snap[c]) \in Message /\ IsSnap(Snapshot(snap[c]))
          /\ ~IsChunk(Snapshot(snap[c])) /\ Snapshot(snap[c]).n = snap[c]
      BY <3>1, MessagesAreMessages DEF IsSnap, IsChunk, Snapshot
    <3>3. Snaps(wire[c]) = {} /\ Snaps(events[c]) = {}
      BY <3>1, NothingHeld DEF NotSent
    <3>4. Nums(wire'[c]) = Nums(wire[c]) /\ Snaps(wire'[c]) = {snap[c]}
      <4> DEFINE m == Snapshot(snap[c])
      <4>1. m \in Message /\ IsSnap(m) /\ ~IsChunk(m) /\ m.n = snap[c]
        BY <3>2
      <4> HIDE DEF m
      <4>2. Nums(Append(wire[c], m)) = Nums(wire[c])
        BY <3>1, <4>1, NumsOfAppend
      <4>3. Snaps(Append(wire[c], m)) = {snap[c]}
        BY <3>1, <3>3, <4>1, SnapsOfAppend
      <4> QED
        BY <3>1, <4>2, <4>3 DEF m
    <3>5. Held(c)' = Held(c)
      BY <1>1, <3>4 DEF Held
    <3>6. Bases(c)' = {snap[c]} /\ snap[c] \in Bases(c)
      BY <1>1, <3>1, <3>3, <3>4 DEF Bases, Unseen, Early
    <3> QED
      BY <1>1, <1>2, <3>1, <3>5, <3>6, GapKept DEF Serving
  <2>4. CASE SnapshotFails(c) \/ Refuse(c)
    <3>1. /\ conn[c] \in NotSent /\ conn'[c] = "closed"
          /\ wire'[c] = wire[c] \/ wire'[c] = Append(wire[c], Reply("refused"))
          /\ wire[c] \in Seq(Message)
      BY <2>4 DEF SnapshotFails, Refuse, Send, Types, NotSent
    <3>2. Reply("refused") \in Message /\ ~IsChunk(Reply("refused"))
      BY MessagesAreMessages DEF IsChunk, Reply
    <3>3. Held(c)' = Held(c)
      BY <1>1, <3>1, <3>2, NumsOfAppend DEF Held
    <3>4. Held(c)' = {}
      BY <3>1, <3>3, NothingHeld
    <3> QED
      BY <3>1, <3>4 DEF NoGap, Gapless, Serving
  <2>5. CASE WriteOk(c)
    <3>1. /\ conn[c] = "greeting" /\ conn'[c] \in {"streaming", "leaving"}
          /\ wire'[c] = wire[c] \/ wire'[c] = Append(wire[c], Reply("ok"))
          /\ wire[c] \in Seq(Message) /\ UNCHANGED chan
      BY <2>5 DEF WriteOk, Send, Types
    <3>2. Reply("ok") \in Message /\ ~IsChunk(Reply("ok")) /\ ~IsSnap(Reply("ok"))
      BY MessagesAreMessages DEF IsChunk, IsSnap, Reply
    <3>3. Nums(wire'[c]) = Nums(wire[c]) /\ Snaps(wire'[c]) = Snaps(wire[c])
      BY <3>1, <3>2, NumsOfAppend, SnapsOfAppend
    <3> QED
      BY <1>4, <3>1, <3>3 DEF NotSent, Serving
  <2>6. CASE \/ Detach(c) \/ ChannelCloses(c) \/ ReadPart(c) \/ ReadFrame(c) \/ ReadFails(c)
             \/ TakeMutex(c) \/ SendResumes(c)
    <3>1. /\ conn[c] \in {"streaming", "leaving", "commanding", "sending"}
          /\ \/ conn'[c] \in {"leaving", "closed"} \/ conn'[c] = conn[c]
             \/ conn[c] # "leaving" /\ conn'[c] \in {"streaming", "commanding", "sending"}
          /\ UNCHANGED <<chan, wire>>
      <4>1. CASE Detach(c) \/ ChannelCloses(c) \/ ReadPart(c)
        BY <4>1 DEF Detach, ChannelCloses, ReadPart, Types
      <4>2. CASE ReadFrame(c) \/ ReadFails(c)
        BY <4>2 DEF ReadFrame, ReadFails, Types
      <4>3. CASE TakeMutex(c) \/ SendResumes(c)
        BY <4>3, HandlerCommands DEF Types
      <4> QED
        BY <2>6, <4>1, <4>2, <4>3
    <3> QED
      BY <1>4, <3>1 DEF NotSent, Serving
  <2>7. CASE ForwardMessage(c) /\ c \in shut
    <3>1. /\ conn[c] = "streaming" /\ conn'[c] = "leaving" /\ UNCHANGED <<wire, snap>>
      BY <2>7 DEF ForwardMessage, Types
    <3>2. Held(c)' = Held(c) /\ Bases(c)' = Bases(c)
      BY <1>1, <3>1 DEF Held, Bases, Unseen, Early, NotSent
    <3> QED
      BY <1>1, <3>1, <3>2, GapKept DEF Serving
  <2>8. CASE ForwardMessage(c) /\ c \notin shut
    <3> DEFINE m == Head(chan[c])
               n == IF IsChunk(m) THEN {m.n} ELSE {}
    <3>1. /\ conn[c] = "streaming" /\ conn'[c] \in {"streaming", "leaving"}
          /\ chan[c] # <<>> /\ chan'[c] = Tail(chan[c]) /\ wire'[c] = Append(wire[c], m)
      BY <2>8 DEF ForwardMessage, Send, Types
    <3>2. /\ chan[c] \in Seq(Message) /\ wire[c] \in Seq(Message)
          /\ view[c] \in Seq(Nat) /\ buf[c] \in Seq(Nat) /\ Fresh \in Nat
      BY DEF Types, Fresh
    <3>3. m \in Message /\ Tail(chan[c]) \in Seq(Message) /\ Append(wire[c], m) \in Seq(Message)
      BY <3>1, <3>2, HeadTailProperties, AppendProperties
    <3>4. ~IsSnap(m)
      BY <3>1, <3>2, SnapsOfTail DEF Phase
    <3> HIDE DEF m
    <3>5. Nums(wire'[c]) = Nums(wire[c]) \cup n /\ Snaps(wire'[c]) = Snaps(wire[c])
      BY <3>1, <3>2, <3>3, <3>4, NumsOfAppend, SnapsOfAppend
    <3>6. Nums(chan[c]) = Nums(chan'[c]) \cup n
      BY <3>1, <3>2, NumsOfTail DEF m
    <3>7. Pipe(view[c], buf[c], wire'[c], chan'[c], Fresh)
      BY <3>1, <3>2, PipeForwards DEF PipesHold, m
    <3>8. Held(c)' \cup Nums(chan'[c]) = Held(c) \cup Nums(chan[c])
      BY <1>1, <3>5, <3>6 DEF Held
    <3>9. Bases(c)' = Bases(c)
      BY <1>1, <3>1, <3>5 DEF Bases, Unseen, Early, NotSent
    <3>10. c \in pane \ dropped => Covers(Held(c)' \cup Nums(chan'[c]), Bases(c)', Fresh)
      BY <3>1, <3>8, <3>9 DEF NoGap, Serving
    <3>11. c \in pane \ dropped => Gapless(Held(c)', Bases(c)')
      <4>1. Held(c)' = From(view[c], 2) \cup From(buf[c], 1) \cup Nums(wire'[c])
        BY <1>1 DEF Held
      <4> QED
        BY <3>1, <3>2, <3>3, <3>7, <3>10, <4>1, CoversIsGapless
    <3> QED
      BY <1>1, <1>2, <3>10, <3>11 DEF NoGap
  <2> QED
    BY <2>1, <2>2, <2>3, <2>4, <2>5, <2>6, <2>7, <2>8 DEF Handler
<1> QED
  BY <1>3, <1>5

LEMMA ReaderKeepsGap ==
    ASSUME Types, PipesHold, NEW c \in Conn, NEW d \in Conn, Phase(d), NoGap(d), Reader(c)
    PROVE  NoGap(d)'
<1> USE DEF daemon, streams, handler, window, threads, UntouchedByReader
<1>1. UntouchedByReader(c)
  BY ReaderTouches
<1>2. Fresh' = Fresh
  BY <1>1 DEF Fresh
<1>3. CASE d # c
  BY <1>1, <1>2, <1>3, GapElsewhere
<1>4. CASE d = c
  <2> USE <1>4
  <2>1. ASSUME Held(c)' = Held(c), Snaps(wire'[c]) = Snaps(wire[c]),
               Snaps(events'[c]) = Snaps(events[c])
        PROVE  NoGap(c)'
    <3>1. Bases(c)' = Bases(c)
      BY <1>1, <2>1 DEF Bases, Unseen, Early
    <3> QED
      BY <1>1, <1>2, <2>1, <3>1, GapKept
  <2>2. \A m \in Message : Notify(c, m) => Snaps(events'[c]) = Snaps(events[c])
                                              \cup (IF IsSnap(m) THEN {m.n} ELSE {})
    <3>1. events[c] \in Seq(Message)
      BY DEF Types
    <3>2. \A m : Notify(c, m) => events'[c] = Append(events[c], m)
      BY DEF Notify, Types
    <3> QED
      BY <3>1, <3>2, SnapsOfAppend
  <2>3. \A kind : Receive(c, kind) =>
          /\ wire[c] \in Seq(Message) /\ wire[c] # <<>> /\ wire'[c] = Tail(wire[c])
          /\ Head(wire[c]) \in Message /\ Head(wire[c]).kind = kind
    BY TailsAreTails DEF Receive, Types
  <2>4. \A kind : Receive(c, kind) /\ kind \notin {"chunk", "snapshot"} =>
          Nums(wire'[c]) = Nums(wire[c]) /\ Snaps(wire'[c]) = Snaps(wire[c])
    BY <2>3, NumsOfTail, SnapsOfTail DEF IsChunk, IsSnap
  <2>5. CASE ReaderGetsSnapshot(c)
    <3>1. /\ wire[c] \in Seq(Message) /\ wire[c] # <<>> /\ wire'[c] = Tail(wire[c])
          /\ Head(wire[c]) \in Message /\ IsSnap(Head(wire[c])) /\ ~IsChunk(Head(wire[c]))
      BY <2>3, <2>5 DEF ReaderGetsSnapshot, IsSnap, IsChunk
    <3>2. Nums(wire'[c]) = Nums(wire[c])
      BY <3>1, NumsOfTail
    <3>3. Held(c)' = Held(c)
      BY <1>1, <2>5, <3>2 DEF Held, ReaderGetsSnapshot
    <3>4. Snaps(wire[c]) = Snaps(wire'[c]) \cup {Head(wire[c]).n}
      BY <3>1, SnapsOfTail
    <3>5. Snaps(events'[c]) = Snaps(events[c]) \cup {Head(wire[c]).n}
      BY <2>2, <2>5, <3>1 DEF ReaderGetsSnapshot
    <3>6. Bases(c)' \subseteq Bases(c)
      BY <1>1, <3>4, <3>5 DEF Bases, Unseen, Early
    <3> QED
      BY <1>1, <1>2, <3>3, <3>6, GapKept
  <2>6. CASE ReaderGetsOk(c)
    <3>1. Receive(c, "ok") /\ UNCHANGED <<buf, events>>
      BY <2>6 DEF ReaderGetsOk
    <3>2. Nums(wire'[c]) = Nums(wire[c]) /\ Snaps(wire'[c]) = Snaps(wire[c])
      BY <2>4, <3>1
    <3> QED
      BY <1>1, <2>1, <3>1, <3>2 DEF Held
  <2>7. CASE ReaderPushes(c) /\ c \in pane
    <3> DEFINE n == Head(wire[c]).n
    <3>1. /\ wire[c] \in Seq(Message) /\ wire[c] # <<>> /\ wire'[c] = Tail(wire[c])
          /\ IsChunk(Head(wire[c])) /\ ~IsSnap(Head(wire[c])) /\ n \in Nat
          /\ buf'[c] = Append(buf[c], n) /\ UNCHANGED events
          /\ buf[c] \in Seq(Nat)
      <4>1. Receive(c, "chunk") /\ UNCHANGED events
        BY <2>7 DEF ReaderPushes
      <4>2. buf \in [Conn -> Seq(Nat)] /\ buf' = [buf EXCEPT ![c] = Append(@, n)]
        BY <2>7 DEF ReaderPushes, Types
      <4>3. Head(wire[c]).kind = "chunk" /\ n \in Nat
        BY <2>3, <4>1 DEF Message
      <4> HIDE DEF n
      <4> QED
        BY <2>3, <4>1, <4>2, <4>3 DEF IsSnap, IsChunk
    <3>2. Rising(buf[c], 1) /\ Before(From(buf[c], 1), Nums(wire[c]))
      BY DEF PipesHold, Pipe
    <3>3. Nums(wire[c]) = Nums(wire'[c]) \cup {n} /\ Snaps(wire'[c]) = Snaps(wire[c])
      BY <3>1, NumsOfTail, SnapsOfTail
    <3> HIDE DEF n
    <3>4. From(buf'[c], 1) = From(buf[c], 1) \cup {n}
      <4>1. Before(From(buf[c], 1), {n})
        BY <3>2, <3>3 DEF Before
      <4> QED
        BY <3>1, <3>2, <4>1, BufferKeepsOrder
    <3>5. Held(c)' = Held(c)
      BY <1>1, <3>3, <3>4 DEF Held
    <3> QED
      BY <2>1, <3>1, <3>3, <3>5
  <2>8. CASE ReaderPushes(c) /\ c \notin pane
    BY <1>1, <2>8 DEF NoGap
  <2>9. CASE ReaderSwapsPending(c)
    <3>1. Reply("output") \in Message /\ ~IsSnap(Reply("output"))
      BY MessagesAreMessages DEF IsSnap, Reply
    <3>2. UNCHANGED <<wire, buf>> /\ (UNCHANGED events \/ Notify(c, Reply("output")))
      BY <2>9 DEF ReaderSwapsPending
    <3> QED
      BY <1>1, <2>1, <2>2, <3>1, <3>2 DEF Held
  <2>10. CASE ReaderGivesUp(c) \/ ReaderStops(c)
    <3>1. ExitMsg \in Message /\ ~IsSnap(ExitMsg)
      BY MessagesAreMessages DEF IsSnap, ExitMsg
    <3>2. /\ Notify(c, ExitMsg) /\ UNCHANGED buf
          /\ UNCHANGED wire \/ Receive(c, "refused") \/ Receive(c, "exit")
      BY <2>10 DEF ReaderGivesUp, ReaderStops, ReaderEnds
    <3>3. Nums(wire'[c]) = Nums(wire[c]) /\ Snaps(wire'[c]) = Snaps(wire[c])
      BY <2>4, <3>2
    <3> QED
      BY <1>1, <2>1, <2>2, <3>1, <3>2, <3>3 DEF Held
  <2> QED
    BY <2>5, <2>6, <2>7, <2>8, <2>9, <2>10 DEF Reader
<1> QED
  BY <1>3, <1>4

LEMMA PaneKeepsGap ==
    ASSUME Types, PipesHold, Opened, NEW c \in Conn, NEW d \in Conn, Phase(d), NoGap(d),
           \/ EventLoop(c) \/ Connect(c) \/ ClosePane(c)
           \/ WriterWrites(c) \/ WriterShutsDown(c)
    PROVE  NoGap(d)'
<1> USE DEF daemon, streams, handler, window, threads, UntouchedByEvents
<1>1. UNCHANGED <<io, out, dropped, chan, snap, wire>> /\ Fresh' = Fresh
  <2>1. CASE Connect(c) \/ ClosePane(c) \/ WriterWrites(c) \/ WriterShutsDown(c)
    BY <2>1 DEF Connect, ClosePane, WriterWrites, WriterShutsDown, Fresh
  <2>2. CASE EventLoop(c)
    BY <2>2 DEF EventLoop, HandleOutput, Drain, HandleSnapshot, HandleExited, Fresh
  <2> QED
    BY <2>1, <2>2
<1>2. CASE WriterWrites(c) \/ WriterShutsDown(c)
  <2>1. UNCHANGED <<conn, view, buf, events, pane>>
    BY <1>2 DEF WriterWrites, WriterShutsDown
  <2> QED
    BY <1>1, <2>1, GapElsewhere
<1>3. CASE Connect(c)
  <2>1. /\ conn[c] = "none" /\ conn'[c] = "accepted"
        /\ pane' = pane \cup {c} /\ UNCHANGED <<view, buf, events>>
        /\ \A e \in Conn \ {c} : conn'[e] = conn[e]
    BY <1>3 DEF Connect, Opened, Types
  <2>2. CASE d # c
    BY <1>1, <2>1, <2>2, GapElsewhere
  <2>3. CASE d = c
    <3>1. Held(c)' = {}
      BY <1>1, <2>1, <2>3, NothingHeld DEF Held, NotSent
    <3> QED
      BY <2>1, <2>3, <3>1 DEF NoGap, Gapless, Serving
  <2> QED
    BY <2>2, <2>3
<1>4. CASE ClosePane(c) \/ EventLoop(c)
  <2>1. UntouchedByEvents(c)
    BY <1>4, EventsTouch
  <2>2. CASE d # c
    BY <1>1, <2>1, <2>2, GapElsewhere
  <2>3. CASE d = c
    <3> USE <2>3
    <3>1. CASE ClosePane(c) \/ HandleExited(c)
      <4>1. c \notin pane'
        BY <3>1 DEF ClosePane, HandleExited, DropPane
      <4> QED
        BY <4>1 DEF NoGap
    <3>2. CASE (Drain(c) \/ HandleSnapshot(c)) /\ c \notin pane
      BY <2>1, <3>2 DEF NoGap
    <3>3. CASE HandleOutput(c)
      <4>1. /\ events[c] \in Seq(Message) /\ events[c] # <<>>
            /\ ~IsSnap(Head(events[c])) /\ events'[c] = Tail(events[c])
            /\ UNCHANGED <<view, buf>>
        BY <3>3 DEF HandleOutput, NextEvent, Types, IsSnap
      <4>2. Snaps(events'[c]) = Snaps(events[c])
        BY <4>1, SnapsOfTail
      <4>3. Held(c)' = Held(c) /\ Bases(c)' = Bases(c)
        BY <1>1, <2>1, <4>1, <4>2 DEF Held, Bases, Unseen, Early
      <4> QED
        BY <1>1, <2>1, <4>3, GapKept
    <3>4. CASE Drain(c) /\ c \in pane
      <4>1. /\ view'[c] = view[c] \o buf[c] /\ buf'[c] = <<>> /\ UNCHANGED events
            /\ view[c] \in Seq(Nat) /\ buf[c] \in Seq(Nat) /\ view[c] # <<>>
        BY <3>4 DEF Drain, Types, Phase
      <4>2. /\ Rising(view[c], 2) /\ Rising(buf[c], 1)
            /\ Before(From(view[c], 2), From(buf[c], 1))
        BY DEF PipesHold, Pipe
      <4>3. /\ view'[c][1] = view[c][1]
            /\ From(view'[c], 2) = From(view[c], 2) \cup From(buf[c], 1)
        BY <4>1, <4>2, DrainKeepsFirst, DrainKeepsOrder
      <4>4. From(<<>>, 1) = {}
        BY DEF From
      <4>5. Held(c)' = Held(c) /\ Bases(c)' = Bases(c)
        BY <1>1, <2>1, <4>1, <4>3, <4>4 DEF Held, Bases, Unseen, Early
      <4> QED
        BY <1>1, <2>1, <4>5, GapKept
    <3>5. CASE HandleSnapshot(c) /\ c \in pane
      <4> DEFINE n == Head(events[c]).n
      <4>1. /\ events[c] \in Seq(Message) /\ events[c] # <<>>
            /\ IsSnap(Head(events[c])) /\ events'[c] = Tail(events[c])
            /\ view'[c] = <<n>> /\ UNCHANGED buf
        BY <3>5 DEF HandleSnapshot, NextEvent, Types, IsSnap
      <4>2. Snaps(events[c]) = Snaps(events'[c]) \cup {n}
        BY <4>1, SnapsOfTail
      <4> HIDE DEF n
      <4>3. Len(view[c]) = 1
        BY <4>2 DEF Phase, Unseen
      <4>4. From(view[c], 2) = {} /\ From(<<n>>, 2) = {} /\ <<n>>[1] = n
        BY <4>3 DEF From
      <4>5. Held(c)' = Held(c)
        BY <1>1, <4>1, <4>4 DEF Held
      <4>6. Bases(c)' \subseteq Bases(c)
        BY <1>1, <2>1, <4>1, <4>2, <4>4 DEF Bases, Unseen, Early
      <4> QED
        BY <1>1, <2>1, <4>5, <4>6, GapKept
    <3> QED
      BY <1>4, <3>1, <3>2, <3>3, <3>4, <3>5 DEF EventLoop
  <2> QED
    BY <2>2, <2>3
<1> QED
  BY <1>2, <1>3, <1>4

-----------------------------------------------------------------------------
(* What is shown.                                                          *)

Shown(c) ==
    c \notin dropped =>
        \A i \in 1..(Len(view[c]) - 1) : view[c][i + 1] <= view[c][i] + 1

LEMMA HeldIsShown ==
    ASSUME NEW v \in Seq(Nat), NEW b \in Seq(Nat), NEW w \in Seq(Message),
           NEW q, NEW f, NEW B, Pipe(v, b, w, q, f),
           Len(v) = 1 \/ v[1] \in B,
           Gapless(From(v, 2) \cup From(b, 1) \cup Nums(w), B),
           NEW i \in 1..(Len(v) - 1)
    PROVE  v[i + 1] <= v[i] + 1
<1> DEFINE H == From(v, 2) \cup From(b, 1) \cup Nums(w)
           k == v[i] + 1
<1> SUFFICES ASSUME ~(v[i + 1] <= k) PROVE FALSE
  OBVIOUS
<1>1. /\ Len(v) \in Nat /\ i \in 1..Len(v) /\ i + 1 \in 2..Len(v)
      /\ v[i] \in Nat /\ v[i + 1] \in Nat
  <2>1. Len(v) \in Nat /\ i \in 1..Len(v) /\ i + 1 \in 1..Len(v) /\ i + 1 \in 2..Len(v)
    BY LenProperties
  <2> QED
    BY <2>1, ElementOfSeq
<1>2. k \in Nat /\ v[i] < k /\ k < v[i + 1]
  <2>1. \A x, y \in Nat : ~(y <= x + 1) => x + 1 \in Nat /\ x < x + 1 /\ x + 1 < y
    OBVIOUS
  <2> QED
    BY <1>1, <2>1
<1>3. v[i + 1] \in From(v, 2)
  BY <1>1 DEF From
<1>4. v[i] \in H \cup B
  <2>1. CASE i = 1
    BY <1>1, <2>1
  <2>2. CASE i # 1
    <3>1. i \in 2..Len(v)
      BY <1>1, <2>2
    <3> QED
      BY <3>1 DEF From
  <2> QED
    BY <2>1, <2>2
<1>5. k \in H
  <2>1. Gapless(H, B) /\ v[i + 1] \in H
    BY <1>3
  <2> HIDE DEF H, k
  <2> QED
    BY <1>2, <1>4, <2>1 DEF Gapless
<1>6. k \notin From(b, 1) /\ k \notin Nums(w)
  <2>1. \A y \in From(b, 1) \cup Nums(w) : v[i + 1] < y /\ y \in Nat
    BY <1>3, NumsAreNumbers DEF Pipe, Before
  <2> QED
    BY <1>1, <1>2, <2>1, SMTT(20)
<1>7. k \notin From(v, 2)
  <2> SUFFICES ASSUME NEW j \in 2..Len(v), v[j] = k PROVE FALSE
    BY DEF From
  <2>1. Rising(v, 2)
    BY DEF Pipe
  <2>2. CASE j <= i
    <3>1. i \in 2..Len(v) /\ (j < i => v[j] < v[i])
      BY <1>1, <2>1, <2>2 DEF Rising
    <3> QED
      BY <1>1, <1>2, <2>2, <3>1
  <2>3. CASE j > i
    <3>1. j = i + 1 \/ v[i + 1] < v[j]
      BY <1>1, <2>1, <2>3 DEF Rising
    <3> QED
      BY <1>1, <1>2, <3>1, SMTT(20)
  <2> QED
    BY <1>1, <2>2, <2>3
<1> QED
  BY <1>5, <1>6, <1>7

LEMMA ViewsOfClosedPanes ==
    ASSUME Types, [Next]_vars, NEW c \in Conn, c \notin pane'
    PROVE  /\ view'[c] = view[c] \/ view'[c] = <<0>>
           /\ dropped \subseteq dropped'
<1> USE DEF daemon, streams, handler, window, threads
<1>1. CASE IoTask \/ Elsewhere
  BY <1>1, ElsewhereTouches
     DEF IoTask, IoFeeds, IoBroadcasts, IoTakes, IoHasWritten, IoStops, IoNotifies,
         IoDelists, Broadcast
<1>2. ASSUME NEW d \in Conn, Handler(d)
      PROVE  view' = view /\ dropped' = dropped
  BY <1>2, HandlerTouches DEF UntouchedByHandler
<1>3. ASSUME NEW d \in Conn, Reader(d)
      PROVE  view' = view /\ dropped' = dropped
  BY <1>3, ReaderTouches DEF UntouchedByReader
<1>4. ASSUME NEW d \in Conn, Connect(d) \/ WriterShutsDown(d) \/ WriterWrites(d)
      PROVE  view' = view /\ dropped' = dropped
  BY <1>4 DEF Connect, WriterShutsDown, WriterWrites
<1>5. ASSUME NEW d \in Conn, ClosePane(d) \/ HandleExited(d)
      PROVE  /\ view'[c] = view[c] \/ view'[c] = <<0>>
             /\ dropped' = dropped
  BY <1>5 DEF ClosePane, HandleExited, DropPane, Types
<1>6. ASSUME NEW d \in Conn, HandleOutput(d) \/ Drain(d) \/ HandleSnapshot(d)
      PROVE  view'[c] = view[c] /\ dropped' = dropped
  BY <1>6 DEF HandleOutput, Drain, HandleSnapshot, Types
<1>7. CASE UNCHANGED vars
  BY <1>7 DEF vars
<1> QED
  BY <1>1, <1>2, <1>3, <1>4, <1>5, <1>6, <1>7 DEF Next, EventLoop, Elsewhere

-----------------------------------------------------------------------------
Gaps == \A c \in Conn : Phase(c) /\ NoGap(c) /\ Shown(c)

LEMMA GapsStep ==
    IInv /\ Gaps /\ [Next]_vars => Gaps'
<1> SUFFICES ASSUME IInv, Gaps, [Next]_vars, NEW d \in Conn
             PROVE  Phase(d)' /\ NoGap(d)' /\ Shown(d)'
  BY DEF Gaps
<1>1. /\ Types /\ PipesHold /\ Opened /\ Clients
      /\ Phase(d) /\ NoGap(d) /\ Shown(d)
  BY DEF IInv, Gaps
<1>2. ASSUME IoTask \/ Elsewhere
      PROVE  Phase(d)' /\ NoGap(d)'
  BY <1>1, <1>2, IoKeepsPhase, IoKeepsGap
<1>3. ASSUME NEW c \in Conn, Handler(c)
      PROVE  Phase(d)' /\ NoGap(d)'
  BY <1>1, <1>3, HandlerKeepsPhase, HandlerKeepsGap
<1>4. ASSUME NEW c \in Conn, Reader(c)
      PROVE  Phase(d)' /\ NoGap(d)'
  BY <1>1, <1>4, ReaderKeepsPhase, ReaderKeepsGap
<1>5. ASSUME NEW c \in Conn,
             \/ EventLoop(c) \/ Connect(c) \/ ClosePane(c)
             \/ WriterWrites(c) \/ WriterShutsDown(c)
      PROVE  Phase(d)' /\ NoGap(d)'
  BY <1>1, <1>5, PaneKeepsPhase, PaneKeepsGap
<1>6. ASSUME UNCHANGED vars
      PROVE  Phase(d)' /\ NoGap(d)'
  BY <1>1, <1>6, PhaseKept, GapElsewhere
     DEF vars, daemon, streams, handler, window, threads, Fresh
<1>7. Phase(d)' /\ NoGap(d)'
  BY <1>2, <1>3, <1>4, <1>5, <1>6 DEF Next, Elsewhere
<1>8. Shown(d)'
  <2>1. CASE d \in pane'
    <3>1. Types' /\ PipesHold'
      BY StepKeeps DEF IInv
    <3>2. /\ view'[d] \in Seq(Nat) /\ buf'[d] \in Seq(Nat) /\ wire'[d] \in Seq(Message)
          /\ Pipe(view'[d], buf'[d], wire'[d], chan'[d], Fresh')
      BY <3>1 DEF Types, PipesHold
    <3>3. Len(view'[d]) = 1 \/ view'[d][1] \in Bases(d)'
      BY <1>7 DEF Phase, Bases
    <3>4. d \notin dropped' =>
            Gapless(From(view'[d], 2) \cup From(buf'[d], 1) \cup Nums(wire'[d]), Bases(d)')
      BY <1>7, <2>1 DEF NoGap, Held
    <3> QED
      BY <3>2, <3>3, <3>4, HeldIsShown DEF Shown
  <2>2. CASE d \notin pane'
    <3>1. /\ view'[d] = view[d] \/ view'[d] = <<0>>
          /\ dropped \subseteq dropped'
      BY <1>1, <2>2, ViewsOfClosedPanes
    <3>2. 1..(Len(<<0>>) - 1) = {}
      OBVIOUS
    <3> QED
      BY <1>1, <3>1, <3>2 DEF Shown
  <2> QED
    BY <2>1, <2>2
<1> QED
  BY <1>7, <1>8

(* A pane's output has no gap, between the snapshot and the first chunk or *)
(* later, unless a full channel cost its client a message, for any number  *)
(* of connections, any output and any capacities: attach_session comes     *)
(* before snapshot_session in handle_binary_connection, and every way from *)
(* there to the pane's terminal is first in, first out.                    *)
THEOREM OutputWithoutGap == Spec => []NoGapUnlessDropped
<1>1. Init => Gaps
  <2> SUFFICES ASSUME Init, NEW c \in Conn
               PROVE  Phase(c) /\ NoGap(c) /\ Shown(c)
    BY DEF Gaps
  <2>1. /\ chan[c] = <<>> /\ wire[c] = <<>> /\ events[c] = <<>> /\ buf[c] = <<>>
        /\ conn[c] = "none" /\ gui[c] = "none" /\ view[c] = <<0>>
        /\ main = "idle" /\ pane = {}
    BY DEF Init
  <2>2. Phase(c)
    <3>1. Len(<<>>) = 0 /\ Len(<<0>>) = 1 /\ <<0>> # <<>>
      OBVIOUS
    <3> QED
      BY <2>1, <3>1, SnapsOfEmpty, BoundsAssumption DEF Phase, Unseen, Serving
  <2>3. NoGap(c)
    BY <2>1 DEF NoGap
  <2>4. Shown(c)
    <3>1. 1..(Len(<<0>>) - 1) = {}
      OBVIOUS
    <3> QED
      BY <2>1, <3>1 DEF Shown
  <2> QED
    BY <2>2, <2>3, <2>4
<1>2. IInv /\ Gaps /\ [Next]_vars => Gaps'
  BY GapsStep
<1>3. Gaps => NoGapUnlessDropped
  BY DEF Gaps, Shown, NoGapUnlessDropped
<1> QED
  BY <1>1, <1>2, <1>3, Invariance, PTL DEF Spec

=============================================================================
