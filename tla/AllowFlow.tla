----------------------------- MODULE AllowFlow -----------------------------
(***************************************************************************)
(* Allow Flow: how a permission request of an AI tool reaches the user and *)
(* how the decision gets back.  A hook process (`tm allow-request`)        *)
(* connects to the GUI's socket and blocks for the answer; one listener    *)
(* thread serves one connection at a time; the event loop owns the engine, *)
(* the rules, the deferred answers and the list of workspaces.  Prompts    *)
(* that a configured pattern finds in a pane's output are requests too,    *)
(* answered by writing to the PTY.                                         *)
(*                                                                         *)
(* Left out: the hint bar, the sidebar's agent states, notifications and   *)
(* the file the rules are saved to, which no step here reads back.         *)
(***************************************************************************)
EXTENDS Naturals, Sequences, FiniteSetsExt, SequencesExt

CONSTANTS
    Client,     \* hook processes, each with one request
    Pane,       \* panes whose output may match a configured pattern
    Workspace,  \* workspaces
    Workspaces, \* the sequence of them that is open at the start
    HomeOf,     \* [Client \cup Pane -> Workspace]
    Kind,       \* what is asked for: a tool and an action
    KindOf,     \* [Client \cup Pane -> Kind]
    Covers,     \* [Kind -> SUBSET Kind]: what a rule made from a kind
                \* matches (itself; as a regular expression, maybe more)
    RuleFiles,  \* what allow_rules.toml may hold: rules, in order
    MaxRequests,\* bound: requests from panes only below this many
    MaxEvents   \* bound: commands are taken only below this many events

Decision == {"allow", "deny"}

Rule == [kind : Kind, decision : Decision]

ASSUME SourcesAssumption ==
    /\ Client \cap Pane = {} /\ Client \cap {"nobody"} = {}
    /\ Workspaces \in Seq(Workspace) /\ Workspaces # <<>>
    /\ IsInjective(Workspaces)
    /\ HomeOf \in [Client \cup Pane -> Workspace]
    /\ KindOf \in [Client \cup Pane -> Kind]
    /\ Covers \in [Kind -> SUBSET Kind] /\ \A k \in Kind : k \in Covers[k]
    /\ RuleFiles \subseteq Seq(Rule)
    /\ MaxRequests \in Nat /\ MaxEvents \in Nat \ {0}

VARIABLES
    workspaces, \* AppState.workspaces, in order
    active,     \* AppState.active_workspace, from 1
    sessionWs,  \* session_to_workspace; 0 for a client that has no entry
    rules,      \* RuleStore.rules
    requests,   \* AllowFlowEngine.requests; a request's id is its position
    deferred,   \* pending_ipc_responses: ids whose client awaits an answer
    events,     \* the event loop's queue
    listener,   \* the listener thread: "accept", "read", "wait", "command"
    serving,    \* the client it serves, or "nobody"
    box,        \* the channel it waits on: "empty" or the answer sent to it
    backlog,    \* connections not yet accepted
    unread,     \* clients whose request line has not been read
    dead,       \* clients whose connection_alive flag is cleared
    client,     \* "idle", "waiting", "answered", "gone"
    answer      \* what each client was told; "ask" for an error

ui      == <<workspaces, active, sessionWs, rules, requests, deferred>>
thread  == <<listener, serving, backlog, unread, dead>>
outside == <<client, answer>>
vars    == <<ui, events, thread, box, outside>>

Pending == {i \in DOMAIN requests : requests[i].status = "pending"}

\* RuleStore::match_request: the first rule that matches decides.
Verdict(kind) ==
    LET i == SelectInSeq(rules, LAMBDA r : kind \in Covers[r.kind])
    IN  IF i = 0 THEN "pending" ELSE rules[i].decision

\* The position of an open workspace.
IndexOf(w) == CHOOSE i \in DOMAIN workspaces : workspaces[i] = w

Open(w) == \E i \in DOMAIN workspaces : workspaces[i] = w

\* Sends d to the channel of client c; nothing comes of it if the listener
\* no longer waits on that channel.
Answer(c, d) ==
    box' = IF listener = "wait" /\ serving = c THEN d ELSE box

-----------------------------------------------------------------------------
Init ==
    /\ workspaces = Workspaces /\ active = 1
    /\ sessionWs = [c \in Client |-> 0]
    /\ rules \in RuleFiles
    /\ requests = <<>> /\ deferred = {}
    /\ events = <<>>
    /\ listener = "accept" /\ serving = "nobody" /\ box = "empty"
    /\ backlog = <<>> /\ unread = {} /\ dead = {}
    /\ client = [c \in Client |-> "idle"]
    /\ answer = [c \in Client |-> "none"]

-----------------------------------------------------------------------------
(* The hook process connects, writes its request and blocks.               *)
Ask(c) ==
    /\ client[c] = "idle"
    /\ client' = [client EXCEPT ![c] = "waiting"]
    /\ backlog' = Append(backlog, c)
    /\ unread' = unread \cup {c}
    /\ UNCHANGED <<ui, events, listener, serving, dead, box, answer>>

(* It exits: answered, or killed, or after its own 600 s.                  *)
Leave(c) ==
    /\ client[c] \in {"waiting", "answered"}
    /\ client' = [client EXCEPT ![c] = "gone"]
    /\ UNCHANGED <<ui, events, thread, box, answer>>

-----------------------------------------------------------------------------
(* app_ipc_listener: accept, then read the connection's lines.             *)
Accept ==
    /\ listener = "accept" /\ backlog # <<>>
    /\ listener' = "read" /\ serving' = Head(backlog)
    /\ backlog' = Tail(backlog)
    /\ UNCHANGED <<ui, events, unread, dead, box, outside>>

ReadRequest(c) ==
    /\ listener = "read" /\ serving = c /\ c \in unread
    /\ unread' = unread \ {c}
    /\ listener' = "wait" /\ box' = "empty"
    /\ events' = Append(events, [kind |-> "request", from |-> c])
    /\ UNCHANGED <<ui, serving, backlog, dead, outside>>

Tell(c, a) ==
    /\ client' = [client EXCEPT ![c] = IF @ = "waiting" THEN "answered" ELSE @]
    /\ answer' = [answer EXCEPT ![c] = IF client[c] = "waiting" THEN a ELSE @]

(* recv_timeout returns what the event loop sent ...                       *)
RelayAnswer(c) ==
    /\ listener = "wait" /\ serving = c /\ box # "empty"
    /\ Tell(c, box)
    /\ listener' = "read" /\ box' = "empty"
    /\ UNCHANGED <<ui, events, serving, backlog, unread, dead>>

\* Mutant: nothing is told to the client when the wait is over.
WaitTimesOutSilently(c) ==
    /\ listener = "wait" /\ serving = c /\ box = "empty"
    /\ listener' = "read"
    /\ UNCHANGED <<ui, events, serving, backlog, unread, dead, box, outside>>

(* ... or gives up after 600 s: the client falls back to asking itself.    *)
WaitTimesOut(c) ==
    /\ listener = "wait" /\ serving = c /\ box = "empty"
    /\ Tell(c, "ask")
    /\ listener' = "read"
    /\ UNCHANGED <<ui, events, serving, backlog, unread, dead, box>>

\* Mutant: forgets to clear connection_alive.
DisconnectedAlive(c) ==
    /\ listener = "read" /\ serving = c
    /\ c \notin unread /\ client[c] = "gone"
    /\ listener' = "accept" /\ serving' = "nobody"
    /\ events' = Append(events, [kind |-> "disconnected", from |-> c])
    /\ UNCHANGED <<ui, backlog, unread, dead, box, outside>>

(* End of file.                                                            *)
Disconnected(c) ==
    /\ listener = "read" /\ serving = c
    /\ c \notin unread /\ client[c] = "gone"
    /\ listener' = "accept" /\ serving' = "nobody"
    /\ dead' = dead \cup {c}
    /\ events' = Append(events, [kind |-> "disconnected", from |-> c])
    /\ UNCHANGED <<ui, backlog, unread, box, outside>>

(* Any other request on the socket, such as the approve, deny and status   *)
(* commands of tm and of the MCP server: it waits for at most 5 s.         *)
AcceptCommand ==
    /\ listener = "accept" /\ Len(events) < MaxEvents
    /\ listener' = "command"
    /\ events' = Append(events, [kind |-> "command", from |-> "nobody"])
    /\ UNCHANGED <<ui, serving, backlog, unread, dead, box, outside>>

CommandEnds ==
    /\ listener = "command"
    /\ listener' = "accept"
    /\ UNCHANGED <<ui, events, serving, backlog, unread, dead, box, outside>>

-----------------------------------------------------------------------------
(* handle_detected_request: a rule resolves the request or it is queued.   *)
AddRequest(from, ws) ==
    requests' = Append(requests,
        [from |-> from, ws |-> ws, status |-> Verdict(KindOf[from]),
         auto |-> Verdict(KindOf[from]) # "pending"])

TakeEvent(kind) ==
    /\ events # <<>> /\ Head(events).kind = kind
    /\ events' = Tail(events)

(* AppIpcRequest::PermissionRequest.  The workspace is the one remembered  *)
(* for the client's session, else the active one (the tool's session id is *)
(* compared with those of the daemon and none is equal).  When a rule      *)
(* resolves the request the answer is "allow", whatever the rule says.     *)
HandleRequest ==
    /\ TakeEvent("request")
    /\ LET c  == Head(events).from
           ws == IF sessionWs[c] # 0 THEN sessionWs[c] ELSE active IN
       /\ sessionWs' = [sessionWs EXCEPT ![c] = ws]
       /\ AddRequest(c, ws)
       /\ IF Verdict(KindOf[c]) = "pending"
          THEN /\ deferred' = deferred \cup {Len(requests) + 1}
               /\ UNCHANGED box
          ELSE /\ Answer(c, "allow")
               /\ UNCHANGED deferred
    /\ UNCHANGED <<workspaces, active, rules, thread, outside>>

\* Mutant: the answer to a deferred request is always "allow".
ResolveAllowing(I, d) ==
    /\ requests' = [i \in DOMAIN requests |->
                      IF i \in I THEN [requests[i] EXCEPT !.status = d]
                                 ELSE requests[i]]
    /\ deferred' = deferred \ I
    /\ IF \E i \in I \cap deferred : requests[i].from = serving
       THEN Answer(serving, "allow")
       ELSE UNCHANGED box

(* The requests in I get decision d, and those deferred their answer.      *)
Resolve(I, d) ==
    /\ requests' = [i \in DOMAIN requests |->
                      IF i \in I THEN [requests[i] EXCEPT !.status = d]
                                 ELSE requests[i]]
    /\ deferred' = deferred \ I
    /\ IF \E i \in I \cap deferred : requests[i].from = serving
       THEN Answer(serving, d)
       ELSE UNCHANGED box

\* Mutant: dismisses the requests but keeps their channels.
DisconnectedKeepsChannels ==
    /\ TakeEvent("disconnected")
    /\ LET stale == {i \in deferred : requests[i].from \in dead} IN
       requests' = [i \in DOMAIN requests |->
                      IF i \in stale \cap Pending
                      THEN [requests[i] EXCEPT !.status = "deny"]
                      ELSE requests[i]]
    /\ UNCHANGED <<workspaces, active, sessionWs, rules, deferred, thread, box,
                   outside>>

(* UserEvent::IpcClientDisconnected: deferred requests of connections that *)
(* are dead are dismissed, which counts as denied.                         *)
HandleDisconnected ==
    /\ TakeEvent("disconnected")
    /\ LET stale == {i \in deferred : requests[i].from \in dead} IN
       /\ requests' = [i \in DOMAIN requests |->
                         IF i \in stale \cap Pending
                         THEN [requests[i] EXCEPT !.status = "deny"]
                         ELSE requests[i]]
       /\ deferred' = deferred \ stale
    /\ UNCHANGED <<workspaces, active, sessionWs, rules, thread, box, outside>>

\* The requests of a workspace, by its index.
PendingFor(ws) == {i \in Pending : requests[i].ws = ws}

\* The workspace of the first pending request.
TargetWs == requests[Min(Pending)].ws

(* process_key: Y and N decide all of the target workspace, y and n the    *)
(* first.                                                                  *)
DecideKey ==
    /\ Pending # {}
    /\ \E d \in Decision :
         \/ Resolve({Min(PendingFor(TargetWs))}, d)
         \/ Resolve(PendingFor(TargetWs), d)
    /\ UNCHANGED <<workspaces, active, sessionWs, rules, events, thread,
                   outside>>

(* The key a allows the first and adds a rule for the likes of it.         *)
AlwaysKey ==
    /\ Pending # {}
    /\ LET i == Min(PendingFor(TargetWs)) IN
       /\ Resolve({i}, "allow")
       /\ rules' = Append(rules, [kind |-> KindOf[requests[i].from],
                                  decision |-> "allow"])
    /\ UNCHANGED <<workspaces, active, sessionWs, events, thread, outside>>

\* Mutant: does not look at the status of the request.
RespondTwiceCommand ==
    /\ TakeEvent("command")
    /\ \E i \in DOMAIN requests, d \in Decision : Resolve({i}, d)
    /\ UNCHANGED <<workspaces, active, sessionWs, rules, thread, outside>>

(* ApproveRequest and DenyRequest: an id that is not pending is an error.  *)
RespondCommand ==
    /\ TakeEvent("command")
    /\ \E i \in Pending, d \in Decision : Resolve({i}, d)
    /\ UNCHANGED <<workspaces, active, sessionWs, rules, thread, outside>>

ApproveAllCommand ==
    /\ TakeEvent("command")
    /\ \E ws \in 1..Cardinality(Workspace) : Resolve(PendingFor(ws), "allow")
    /\ UNCHANGED <<workspaces, active, sessionWs, rules, thread, outside>>

(* UpdateAgentStatus: a session that has no entry yet gets that of its     *)
(* pane, when the message names it, or the active workspace.               *)
StatusCommand ==
    /\ TakeEvent("command")
    /\ \E c \in Client :
         \E ws \in {active} \cup {i \in DOMAIN workspaces :
                                   workspaces[i] = HomeOf[c]} :
           sessionWs' = [sessionWs EXCEPT ![c] = IF @ # 0 THEN @ ELSE ws]
    /\ UNCHANGED <<workspaces, active, rules, requests, deferred, thread, box,
                   outside>>

OtherCommand ==
    /\ TakeEvent("command")
    /\ UNCHANGED <<ui, thread, box, outside>>

(* UserEvent::PtyOutput: a notification or a visible line of the pane      *)
(* matches a pattern, once for every batch of output that shows it.        *)
Prompt(p) ==
    /\ Open(HomeOf[p]) /\ Len(requests) < MaxRequests
    /\ AddRequest(p, IndexOf(HomeOf[p]))
    /\ UNCHANGED <<workspaces, active, sessionWs, rules, deferred, events,
                   thread, box, outside>>

SwitchWorkspace(i) ==
    /\ i \in DOMAIN workspaces /\ i # active
    /\ active' = i
    /\ UNCHANGED <<workspaces, sessionWs, rules, requests, deferred, events,
                   thread, box, outside>>

(* NewWorkspace and the CreateWorkspace command append a workspace.  None  *)
(* of Pane and Client is from it, so its identity may have been used.      *)
OpenWorkspace(w) ==
    /\ ~Open(w) /\ \A x \in Client \cup Pane : HomeOf[x] # w
    /\ workspaces' = Append(workspaces, w)
    /\ active' = Len(workspaces) + 1
    /\ UNCHANGED <<sessionWs, rules, requests, deferred, events, thread, box,
                   outside>>

(* A workspace closes: by command, by key, or because its last pane exits. *)
(* session_to_workspace is renumbered; the requests are not.               *)
CloseWorkspace(i) ==
    /\ i \in DOMAIN workspaces /\ Len(workspaces) > 1
    /\ workspaces' = RemoveAt(workspaces, i)
    /\ active' = Min({active, Len(workspaces) - 1})
    /\ sessionWs' = [c \in Client |-> IF sessionWs[c] = i THEN 0
                                      ELSE IF sessionWs[c] > i
                                      THEN sessionWs[c] - 1 ELSE sessionWs[c]]
    /\ UNCHANGED <<rules, requests, deferred, events, thread, box, outside>>

-----------------------------------------------------------------------------
Listener(c) ==
    ReadRequest(c) \/ RelayAnswer(c) \/ WaitTimesOut(c) \/ Disconnected(c)

EventLoop ==
    \/ HandleRequest \/ HandleDisconnected
    \/ RespondCommand \/ ApproveAllCommand \/ StatusCommand \/ OtherCommand

User ==
    \/ DecideKey \/ AlwaysKey
    \/ \E w \in Workspace : OpenWorkspace(w)
    \/ \E i \in DOMAIN workspaces : SwitchWorkspace(i) \/ CloseWorkspace(i)

Next ==
    \/ \E c \in Client : Ask(c) \/ Leave(c) \/ Listener(c)
    \/ Accept \/ AcceptCommand \/ CommandEnds
    \/ EventLoop
    \/ User
    \/ \E p \in Pane : Prompt(p)

(* The event loop and the listener run; connections are accepted in order, *)
(* so the accept of a client is not put off for ever by commands; a hook   *)
(* process exits once it is answered.  Nobody need answer: the user, the   *)
(* commands and a client that gives up have no fairness.                   *)
Fairness ==
    /\ WF_vars(EventLoop)
    /\ SF_vars(Accept)
    /\ WF_vars(CommandEnds)
    /\ \A c \in Client :
        /\ WF_vars(Listener(c))
        /\ WF_vars(client[c] = "answered" /\ Leave(c))

Spec == Init /\ [][Next]_vars

FairSpec == Spec /\ Fairness

-----------------------------------------------------------------------------
(* The requests of clients that are pending are the ones with a deferred   *)
(* answer: deciding one, by key, by command or by a disconnection, always  *)
(* settles both, so no client is left waiting on a decided request and     *)
(* none is answered twice.                                                 *)
DeferredArePending ==
    deferred = {i \in Pending : requests[i].from \in Client}

\* The answer that a decided request has: the decision, but "allow" for one
\* that a deny rule decided.
AnswerTo(i) ==
    IF requests[i].auto /\ requests[i].status = "deny" THEN "allow"
    ELSE requests[i].status

(* A client hears what was decided of its own request, by a key, a command *)
(* or an allow rule, whatever decisions and disconnections race; but when  *)
(* a deny rule decided, and only then, it hears the opposite.              *)
AnswersMatchDecisions ==
    \A c \in Client : answer[c] \in Decision =>
        \E i \in DOMAIN requests :
            requests[i].from = c /\ answer[c] = AnswerTo(i)

(* A decision is final: a key, a command and a disconnection that race for *)
(* a request do not undo one another.                                      *)
DecisionsAreFinal ==
    [][\A i \in DOMAIN requests \ Pending : requests'[i] = requests[i]]_vars

(* Every client that asks gets an answer or gives up, although one thread  *)
(* serves them all and blocks for up to 600 s on each.                     *)
EveryClientIsAnswered ==
    \A c \in Client : (client[c] = "waiting") ~> (client[c] # "waiting")

(* The request of a client that has gone, while queueing, while its        *)
(* request was pending or after a timeout, does not stay on the user's     *)
(* list.                                                                   *)
AbandonedIsDismissed ==
    \A c \in Client :
        (client[c] = "gone" /\ \E i \in Pending : requests[i].from = c)
            ~> ~\E i \in Pending : requests[i].from = c

=============================================================================
