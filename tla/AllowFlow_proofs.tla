-------------------------- MODULE AllowFlow_proofs --------------------------
(***************************************************************************)
(* Theorems about AllowFlow, for any hook processes, prompting panes,      *)
(* workspaces, kinds of request and rules.                                 *)
(***************************************************************************)
EXTENDS AllowFlow, WellFoundedInduction, SequenceTheorems, TLAPS

Status == Decision \cup {"pending"}

Request == [from : Client \cup Pane, ws : Nat, status : Status, auto : BOOLEAN]

\* What comes from a connection names its client; a command names nobody.
Event == [kind : {"request", "disconnected"}, from : Client]
         \cup [kind : {"command"}, from : {"nobody"}]

Types ==
    /\ workspaces \in Seq(Workspace) /\ active \in Nat
    /\ sessionWs \in [Client -> Nat]
    /\ rules \in Seq(Rule)
    /\ requests \in Seq(Request)
    /\ events \in Seq(Event)
    /\ box \in Decision \cup {"empty"}
    /\ answer \in [Client -> Decision \cup {"none", "ask"}]

\* An answer on its way to the listener is about the client it serves, and it
\* is the answer to a decided request of that client.
BoxIsADecision ==
    listener = "wait" /\ box # "empty" =>
        \E i \in DOMAIN requests :
            /\ requests[i].from = serving /\ requests[i].status # "pending"
            /\ box = AnswerTo(i)

\* A request that a rule decided was never pending.
RulesDecideAtOnce == \A i \in Pending : ~requests[i].auto

\* The inductive invariant.
IInv ==
    /\ Types
    /\ RulesDecideAtOnce
    /\ DeferredArePending
    /\ BoxIsADecision
    /\ AnswersMatchDecisions

\* What no step does to a request that was decided.
DecisionsStand ==
    /\ DOMAIN requests \subseteq DOMAIN requests'
    /\ \A i \in DOMAIN requests \ Pending : requests'[i] = requests[i]

-----------------------------------------------------------------------------
(* Sets of positions, and what the rules say.                              *)

\* A set of positions has a first one.
LEMMA MinIsMember ==
    ASSUME NEW S \in SUBSET Nat, S # {}
    PROVE  Min(S) \in S
<1>1. PICK x \in S : \A y \in S : ~ (<<y, x>> \in OpToRel(<, Nat))
  BY NatLessThanWellFounded, WFMin
<1>2. ASSUME NEW y \in S
      PROVE  x <= y
  <2>1. <<y, x>> \in Nat \X Nat /\ <<y, x>>[1] = y /\ <<y, x>>[2] = x
    OBVIOUS
  <2>2. ~ (y < x)
    BY <1>1, <2>1, Zenon DEF OpToRel
  <2> QED
    BY <2>2
<1> QED
  BY <1>2 DEF Min

\* The rules decide or leave the request pending.
LEMMA VerdictIsAStatus ==
    ASSUME Types, NEW kind
    PROVE  Verdict(kind) \in Status
<1> DEFINE hits == {i \in 1..Len(rules) : kind \in Covers[rules[i].kind]}
<1>1. CASE hits = {}
  BY <1>1 DEF Verdict, SelectInSeq, Status
<1>2. CASE hits # {}
  <2>1. hits \in SUBSET Nat
    BY DEF Types
  <2>2. Min(hits) \in hits
    BY <1>2, <2>1, MinIsMember
  <2>3. PICK n \in 1..Len(rules) : n = Min(hits)
    BY <2>2
  <2>4. rules[n].decision \in Decision
    <3>1. rules[n] \in Rule
      BY ElementOfSeq DEF Types
    <3> QED
      BY <3>1 DEF Rule
  <2>5. Verdict(kind) = rules[n].decision
    BY <1>2, <2>3 DEF Verdict, SelectInSeq
  <2> QED
    BY <2>4, <2>5 DEF Status
<1> QED
  BY <1>1, <1>2

\* The requests a key decides are pending ones, and there is a first.
LEMMA KeyTargets ==
    ASSUME Types, Pending # {}
    PROVE  /\ PendingFor(TargetWs) \subseteq Pending
           /\ Min(PendingFor(TargetWs)) \in Pending
<1>1. Pending \in SUBSET Nat
  BY DEF Pending, Types
<1>2. Min(Pending) \in PendingFor(TargetWs)
  BY <1>1, MinIsMember DEF PendingFor, TargetWs
<1>3. PendingFor(TargetWs) \in SUBSET Nat
  BY <1>1 DEF PendingFor
<1> QED
  BY <1>2, <1>3, MinIsMember DEF PendingFor

-----------------------------------------------------------------------------
(* The ways in which the list of requests changes.                         *)

\* A new request goes to the end of the list.
LEMMA AddStep ==
    ASSUME IInv, NEW from \in Client \cup Pane, NEW ws \in Nat, AddRequest(from, ws)
    PROVE  /\ requests' \in Seq(Request)
           /\ DecisionsStand /\ RulesDecideAtOnce'
           /\ Pending' = Pending \cup (IF Verdict(KindOf[from]) = "pending"
                                     THEN {Len(requests) + 1} ELSE {})
           /\ \A i \in DOMAIN requests : requests'[i] = requests[i]
           /\ Len(requests) + 1 \in DOMAIN requests' \ DOMAIN requests
           /\ requests'[Len(requests) + 1].from = from
           /\ requests'[Len(requests) + 1].auto <=> Verdict(KindOf[from]) # "pending"
           /\ requests'[Len(requests) + 1].status = Verdict(KindOf[from])
<1> DEFINE r == [from |-> from, ws |-> ws, status |-> Verdict(KindOf[from]),
                 auto |-> Verdict(KindOf[from]) # "pending"]
<1>1. r \in Request
  BY VerdictIsAStatus DEF IInv, Request
<1>2. requests' = Append(requests, r) /\ requests \in Seq(Request)
  BY DEF AddRequest, IInv, Types
<1>3. /\ requests' \in Seq(Request)
      /\ DOMAIN requests = 1..Len(requests) /\ Len(requests) \in Nat
      /\ DOMAIN requests' = 1..(Len(requests) + 1)
      /\ \A i \in DOMAIN requests : requests'[i] = requests[i]
      /\ requests'[Len(requests) + 1] = r
  BY <1>1, <1>2
<1>4. /\ r.from = from /\ r.status = Verdict(KindOf[from])
      /\ r.auto <=> Verdict(KindOf[from]) # "pending"
  OBVIOUS
<1> HIDE DEF r
<1>5. Pending' = Pending \cup (IF r.status = "pending" THEN {Len(requests) + 1} ELSE {})
  BY <1>3 DEF Pending
<1>6. RulesDecideAtOnce'
  BY <1>3, <1>4, <1>5 DEF IInv, RulesDecideAtOnce, Pending
<1> QED
  BY <1>3, <1>4, <1>5, <1>6 DEF DecisionsStand

\* Pending requests get a decision; the others stay as they are.
LEMMA MarkStep ==
    ASSUME IInv, NEW I \in SUBSET Pending, NEW d \in Decision,
           requests' = [i \in DOMAIN requests |->
                          IF i \in I THEN [requests[i] EXCEPT !.status = d]
                                     ELSE requests[i]]
    PROVE  /\ requests' \in Seq(Request)
           /\ DecisionsStand /\ RulesDecideAtOnce'
           /\ Pending' = Pending \ I
           /\ DOMAIN requests' = DOMAIN requests
           /\ \A i \in DOMAIN requests : requests'[i].from = requests[i].from
           /\ \A i \in I : requests'[i].status = d /\ AnswerTo(i)' = d
<1>1. DOMAIN requests = 1..Len(requests) /\ Len(requests) \in Nat
  BY DEF IInv, Types
<1>2. \A i \in DOMAIN requests : requests[i] \in Request
  BY ElementOfSeq DEF IInv, Types
<1>3. ASSUME NEW i \in I
      PROVE  /\ i \in DOMAIN requests /\ requests'[i] = [requests[i] EXCEPT !.status = d]
             /\ requests'[i] \in Request /\ requests'[i].status = d
             /\ requests'[i].from = requests[i].from /\ requests'[i].auto = requests[i].auto
  <2>1. i \in DOMAIN requests
    BY DEF Pending
  <2>2. requests[i] \in Request
    BY <1>2, <2>1
  <2> QED
    BY <2>1, <2>2 DEF Request, Status
<1>4. \A i \in DOMAIN requests \ I : requests'[i] = requests[i]
  OBVIOUS
<1>5. requests' \in Seq(Request)
  BY <1>1, <1>2, <1>3, <1>4, IsASeq, SMTT(20)
<1>6. Pending' = Pending \ I
  BY <1>3, <1>4 DEF Pending, Decision
<1>7. RulesDecideAtOnce'
  BY <1>4, <1>6 DEF IInv, RulesDecideAtOnce, Pending
<1>8. \A i \in I : AnswerTo(i)' = d
  <2>1. \A i \in I : ~requests[i].auto
    BY DEF IInv, RulesDecideAtOnce
  <2> QED
    BY <1>3, <2>1 DEF AnswerTo
<1> QED
  BY <1>3, <1>4, <1>5, <1>6, <1>7, <1>8 DEF DecisionsStand, Pending

\* While the answers stand still, decisions that stand keep them right.
LEMMA AnswersStand ==
    ASSUME IInv, DecisionsStand, UNCHANGED answer
    PROVE  AnswersMatchDecisions'
<1> SUFFICES ASSUME NEW c \in Client, answer[c] \in Decision
             PROVE  \E i \in DOMAIN requests' :
                        requests'[i].from = c /\ answer[c] = AnswerTo(i)'
  BY DEF AnswersMatchDecisions
<1>1. PICK i \in DOMAIN requests : requests[i].from = c /\ answer[c] = AnswerTo(i)
  BY DEF IInv, AnswersMatchDecisions
<1>2. i \notin Pending
  BY <1>1 DEF AnswerTo, Pending, Decision
<1>3. /\ i \in DOMAIN requests' /\ requests'[i] = requests[i]
      /\ AnswerTo(i)' = AnswerTo(i)
  BY <1>2 DEF DecisionsStand, AnswerTo
<1> QED
  BY <1>1, <1>3

LEMMA BoxStands ==
    ASSUME IInv, DecisionsStand, UNCHANGED <<listener, serving, box>>
    PROVE  BoxIsADecision'
BY DEF IInv, DecisionsStand, BoxIsADecision, Pending, AnswerTo

\* Deciding pending requests takes their channels, and the listener, if it
\* waits for one of them, is told that decision.
LEMMA ResolveStep ==
    ASSUME IInv, NEW I \in SUBSET Pending, NEW d \in Decision, Resolve(I, d),
           UNCHANGED <<listener, serving, answer>>
    PROVE  /\ requests' \in Seq(Request) /\ box' \in Decision \cup {"empty"}
           /\ DecisionsStand /\ RulesDecideAtOnce' /\ DeferredArePending'
           /\ BoxIsADecision' /\ AnswersMatchDecisions'
<1>1. /\ requests' \in Seq(Request)
      /\ DecisionsStand /\ RulesDecideAtOnce'
      /\ Pending' = Pending \ I
      /\ DOMAIN requests' = DOMAIN requests
      /\ \A i \in DOMAIN requests : requests'[i].from = requests[i].from
      /\ \A i \in I : requests'[i].status = d /\ AnswerTo(i)' = d
  BY MarkStep DEF Resolve
<1>2. box' \in {box, d}
  BY DEF Resolve, Answer
<1>3. DeferredArePending'
  <2>1. deferred' = {i \in Pending : requests[i].from \in Client} \ I
    BY DEF Resolve, IInv, DeferredArePending
  <2>2. \A i \in Pending : requests'[i].from = requests[i].from
    BY <1>1 DEF Pending
  <2> QED
    BY <1>1, <2>1, <2>2 DEF DeferredArePending
<1>4. AnswersMatchDecisions'
  BY <1>1, AnswersStand
<1>5. BoxIsADecision'
  <2>1. CASE \E i \in I \cap deferred : requests[i].from = serving
    <3>1. PICK i \in I : requests[i].from = serving
      BY <2>1
    <3>2. /\ i \in DOMAIN requests' /\ requests'[i].from = serving'
          /\ requests'[i].status = d /\ AnswerTo(i)' = d
      BY <1>1, <3>1 DEF Pending
    <3>3. listener' = "wait" => box' = d
      BY <2>1 DEF Resolve, Answer
    <3> QED
      BY <3>2, <3>3 DEF BoxIsADecision, Decision
  <2>2. CASE ~ \E i \in I \cap deferred : requests[i].from = serving
    BY <1>1, <2>2, BoxStands DEF Resolve
  <2> QED
    BY <2>1, <2>2
<1> QED
  BY <1>1, <1>2, <1>3, <1>4, <1>5 DEF IInv, Types

\* What is taken from the event loop's queue names a client, but for commands.
LEMMA TakenEvent ==
    ASSUME Types, NEW kind, TakeEvent(kind)
    PROVE  /\ events' \in Seq(Event)
           /\ kind # "command" => Head(events).from \in Client
<1>1. Head(events) \in Event /\ Tail(events) \in Seq(Event)
  BY HeadTailProperties DEF TakeEvent, Types
<1> QED
  BY <1>1 DEF TakeEvent, Event

-----------------------------------------------------------------------------
(* The steps.                                                              *)

LEMMA RequestStep ==
    ASSUME IInv, HandleRequest
    PROVE  IInv' /\ DecisionsStand
<1> DEFINE c == Head(events).from
           ws == IF sessionWs[c] # 0 THEN sessionWs[c] ELSE active
           n == Len(requests) + 1
<1>1. c \in Client /\ events' \in Seq(Event)
  BY TakenEvent DEF HandleRequest, IInv
<1>2. ws \in Nat
  BY <1>1 DEF IInv, Types
<1>3. AddRequest(c, ws) /\ sessionWs' = [sessionWs EXCEPT ![c] = ws]
  BY DEF HandleRequest
<1>4. /\ requests' \in Seq(Request)
      /\ DecisionsStand /\ RulesDecideAtOnce'
      /\ Pending' = Pending \cup (IF Verdict(KindOf[c]) = "pending" THEN {n} ELSE {})
      /\ \A i \in DOMAIN requests : requests'[i] = requests[i]
      /\ n \in DOMAIN requests' \ DOMAIN requests
      /\ requests'[n].from = c
      /\ requests'[n].auto <=> Verdict(KindOf[c]) # "pending"
      /\ requests'[n].status = Verdict(KindOf[c])
  BY <1>1, <1>2, <1>3, AddStep
<1>5. UNCHANGED <<workspaces, active, rules, listener, serving, client, answer>>
  BY DEF HandleRequest, thread, outside
<1>6. AnswersMatchDecisions'
  BY <1>4, <1>5, AnswersStand
<1>7. \/ /\ Verdict(KindOf[c]) = "pending"
         /\ deferred' = deferred \cup {n} /\ UNCHANGED box
      \/ /\ Verdict(KindOf[c]) # "pending"
         /\ Answer(c, "allow") /\ UNCHANGED deferred
  BY DEF HandleRequest
<1> HIDE DEF c, ws, n
<1>8. Types'
  BY <1>1, <1>2, <1>3, <1>4, <1>5, <1>7 DEF IInv, Types, Answer, Decision
<1>9. DeferredArePending'
  <2>1. \A i \in Pending : requests'[i].from = requests[i].from
    BY <1>4 DEF Pending
  <2> QED
    BY <1>1, <1>4, <1>7, <2>1 DEF DeferredArePending, IInv
<1>10. BoxIsADecision'
  <2>1. CASE UNCHANGED box
    BY <1>4, <1>5, <2>1, BoxStands
  <2>2. CASE Verdict(KindOf[c]) # "pending" /\ listener = "wait" /\ serving = c
    <3>1. box' = "allow"
      BY <1>7, <2>2 DEF Answer
    <3>2. PICK i \in DOMAIN requests' : i = n
      BY <1>4
    <3>3. /\ requests'[i].from = c /\ requests'[i].auto
          /\ requests'[i].status \in Decision
      BY <1>4, <2>2, <3>2, VerdictIsAStatus DEF IInv, Status
    <3>4. AnswerTo(i)' = "allow"
      BY <3>3 DEF AnswerTo, Decision
    <3> QED
      BY <1>5, <2>2, <3>1, <3>3, <3>4 DEF BoxIsADecision, Decision
  <2> QED
    BY <1>7, <2>1, <2>2 DEF Answer
<1> QED
  BY <1>4, <1>6, <1>8, <1>9, <1>10 DEF IInv

\* Dismissing the deferred requests of dead connections is deciding them, but
\* nobody waits for an answer.
LEMMA DisconnectedStep ==
    ASSUME IInv, HandleDisconnected
    PROVE  IInv' /\ DecisionsStand
<1> DEFINE stale == {i \in deferred : requests[i].from \in dead}
<1>1. stale \cap Pending \in SUBSET Pending /\ "deny" \in Decision
  BY DEF Decision
<1>2. requests' = [i \in DOMAIN requests |->
                     IF i \in stale \cap Pending THEN [requests[i] EXCEPT !.status = "deny"]
                                                ELSE requests[i]]
  BY DEF HandleDisconnected
<1>3. /\ requests' \in Seq(Request)
      /\ DecisionsStand /\ RulesDecideAtOnce'
      /\ Pending' = Pending \ (stale \cap Pending)
      /\ \A i \in DOMAIN requests : requests'[i].from = requests[i].from
  BY <1>1, <1>2, MarkStep
<1>4. /\ UNCHANGED <<workspaces, active, sessionWs, rules, listener, serving,
                      box, client, answer>>
      /\ deferred' = deferred \ stale
  BY DEF HandleDisconnected, thread, outside
<1>5. DeferredArePending'
  <2>1. \A i \in Pending : requests'[i].from = requests[i].from
    BY <1>3 DEF Pending
  <2> QED
    BY <1>3, <1>4, <2>1 DEF DeferredArePending, IInv
<1>6. Types'
  BY <1>3, <1>4, TakenEvent DEF IInv, Types, HandleDisconnected
<1> QED
  BY <1>3, <1>4, <1>5, <1>6, AnswersStand, BoxStands DEF IInv

\* The listener ends a wait: what it tells the client is what it was sent.
LEMMA RelayStep ==
    ASSUME IInv, NEW c \in Client, RelayAnswer(c)
    PROVE  IInv' /\ DecisionsStand
<1>1. UNCHANGED <<workspaces, active, sessionWs, rules, requests, deferred, events, serving>>
  BY DEF RelayAnswer, ui
<1>2. /\ listener = "wait" /\ serving = c /\ box # "empty"
      /\ listener' = "read" /\ box' = "empty"
      /\ answer' = [answer EXCEPT ![c] = IF client[c] = "waiting" THEN box ELSE @]
  BY DEF RelayAnswer, Tell
<1>3. /\ DecisionsStand /\ RulesDecideAtOnce' /\ DeferredArePending'
      /\ BoxIsADecision' /\ Types'
  BY <1>1, <1>2 DEF IInv, DecisionsStand, RulesDecideAtOnce, DeferredArePending,
                    BoxIsADecision, Types, Pending
<1>4. AnswersMatchDecisions'
  <2> SUFFICES ASSUME NEW x \in Client, answer'[x] \in Decision
               PROVE  \E i \in DOMAIN requests :
                          requests[i].from = x /\ answer'[x] = AnswerTo(i)
    BY <1>1 DEF AnswersMatchDecisions, AnswerTo
  <2>1. answer'[x] = answer[x] \/ (x = serving /\ answer'[x] = box)
    BY <1>2 DEF IInv, Types
  <2>2. CASE answer'[x] = answer[x]
    BY <2>2 DEF IInv, AnswersMatchDecisions
  <2>3. CASE x = serving /\ answer'[x] = box
    BY <1>2, <2>3 DEF IInv, BoxIsADecision
  <2> QED
    BY <2>1, <2>2, <2>3
<1> QED
  BY <1>3, <1>4 DEF IInv

LEMMA TimeoutStep ==
    ASSUME IInv, NEW c \in Client, WaitTimesOut(c)
    PROVE  IInv' /\ DecisionsStand
<1>1. UNCHANGED <<workspaces, active, sessionWs, rules, requests, deferred, events, serving>>
  BY DEF WaitTimesOut, ui
<1>2. /\ listener' = "read" /\ UNCHANGED box
      /\ answer' = [answer EXCEPT ![c] = IF client[c] = "waiting" THEN "ask" ELSE @]
  BY DEF WaitTimesOut, Tell
<1>3. /\ DecisionsStand /\ RulesDecideAtOnce' /\ DeferredArePending'
      /\ BoxIsADecision' /\ Types'
  BY <1>1, <1>2 DEF IInv, DecisionsStand, RulesDecideAtOnce, DeferredArePending,
                    BoxIsADecision, Types, Pending
<1>4. AnswersMatchDecisions'
  <2>1. \A x \in Client : answer'[x] = answer[x] \/ answer'[x] = "ask"
    BY <1>2 DEF IInv, Types
  <2> QED
    BY <1>1, <2>1 DEF IInv, AnswersMatchDecisions, Decision, AnswerTo
<1> QED
  BY <1>3, <1>4 DEF IInv

\* A prompt of a pane is a request with no channel.
LEMMA PromptStep ==
    ASSUME IInv, NEW p \in Pane, Prompt(p)
    PROVE  IInv' /\ DecisionsStand
<1>1. IndexOf(HomeOf[p]) \in Nat
  BY DEF Prompt, Open, IndexOf, IInv, Types
<1>2. p \in Client \cup Pane /\ p \notin Client
  BY SourcesAssumption
<1>3. AddRequest(p, IndexOf(HomeOf[p]))
  BY DEF Prompt
<1>4. /\ requests' \in Seq(Request)
      /\ DecisionsStand /\ RulesDecideAtOnce'
      /\ Pending' \subseteq Pending \cup {Len(requests) + 1} /\ Pending \subseteq Pending'
      /\ \A i \in DOMAIN requests : requests'[i] = requests[i]
      /\ requests'[Len(requests) + 1].from = p
  BY <1>1, <1>2, <1>3, AddStep
<1>5. UNCHANGED <<workspaces, active, sessionWs, rules, deferred, events, listener,
                  serving, box, answer>>
  BY DEF Prompt, thread, outside
<1>6. Types'
  BY <1>4, <1>5 DEF IInv, Types
<1>7. DeferredArePending'
  <2>1. \A i \in Pending : requests'[i] = requests[i]
    BY <1>4 DEF Pending
  <2> QED
    BY <1>2, <1>4, <1>5, <2>1 DEF DeferredArePending, IInv
<1> QED
  BY <1>4, <1>5, <1>6, <1>7, AnswersStand, BoxStands DEF IInv

\* A step that decides requests and takes no others.
LEMMA DecidingStep ==
    ASSUME IInv, DecideKey \/ AlwaysKey \/ RespondCommand \/ ApproveAllCommand
    PROVE  IInv' /\ DecisionsStand
<1> USE DEF Decision
<1>1. \E I \in SUBSET Pending, d \in Decision : Resolve(I, d)
  <2>1. CASE DecideKey
    BY <2>1, KeyTargets DEF DecideKey, IInv
  <2>2. CASE AlwaysKey
    BY <2>2, KeyTargets DEF AlwaysKey, IInv
  <2>3. CASE RespondCommand
    BY <2>3 DEF RespondCommand
  <2>4. CASE ApproveAllCommand
    BY <2>4 DEF ApproveAllCommand, PendingFor
  <2> QED
    BY <2>1, <2>2, <2>3, <2>4
<1>2. UNCHANGED <<workspaces, active, sessionWs, listener, serving, answer>>
  BY DEF DecideKey, AlwaysKey, RespondCommand, ApproveAllCommand, thread, outside
<1>3. events' \in Seq(Event)
  BY TakenEvent DEF DecideKey, AlwaysKey, RespondCommand, ApproveAllCommand, IInv, Types
<1>4. rules' \in Seq(Rule)
  <2>1. CASE AlwaysKey
    <3> DEFINE i == Min(PendingFor(TargetWs))
    <3>1. i \in Pending
      BY <2>1, KeyTargets DEF AlwaysKey, IInv
    <3>2. requests[i] \in Request
      BY <3>1, ElementOfSeq DEF IInv, Types, Pending
    <3>3. KindOf[requests[i].from] \in Kind
      BY <3>2, SourcesAssumption DEF Request
    <3>4. rules' = Append(rules, [kind |-> KindOf[requests[i].from], decision |-> "allow"])
      BY <2>1 DEF AlwaysKey
    <3>5. [kind |-> KindOf[requests[i].from], decision |-> "allow"] \in Rule
      BY <3>3 DEF Rule
    <3> QED
      BY <3>4, <3>5 DEF IInv, Types
  <2>2. CASE UNCHANGED rules
    BY <2>2 DEF IInv, Types
  <2> QED
    BY <2>1, <2>2 DEF DecideKey, RespondCommand, ApproveAllCommand
<1>5. /\ requests' \in Seq(Request) /\ box' \in Decision \cup {"empty"}
      /\ DecisionsStand /\ RulesDecideAtOnce' /\ DeferredArePending'
      /\ BoxIsADecision' /\ AnswersMatchDecisions'
  BY <1>1, <1>2, ResolveStep
<1> QED
  BY <1>2, <1>3, <1>4, <1>5 DEF IInv, Types

\* A step that leaves the requests and their answers alone.
LEMMA QuietStep ==
    ASSUME IInv, UNCHANGED <<requests, deferred, box, answer>>, Types',
           UNCHANGED <<listener, serving>> \/ listener' # "wait"
    PROVE  IInv' /\ DecisionsStand
<1>1. /\ DecisionsStand /\ RulesDecideAtOnce' /\ DeferredArePending'
  BY DEF IInv, DecisionsStand, RulesDecideAtOnce, DeferredArePending, Pending
<1>2. BoxIsADecision'
  BY DEF IInv, BoxIsADecision, AnswerTo
<1> QED
  BY <1>1, <1>2, AnswersStand DEF IInv

\* The listener and the clients, apart from the ends of a wait.
LEMMA ListenerStep ==
    ASSUME IInv, NEW c \in Client,
           Ask(c) \/ Leave(c) \/ ReadRequest(c) \/ Disconnected(c)
    PROVE  IInv' /\ DecisionsStand
<1> DEFINE asked == [kind |-> "request", from |-> c]
           left == [kind |-> "disconnected", from |-> c]
<1>1. asked \in Event /\ left \in Event
  BY DEF Event
<1>2. CASE Ask(c) \/ Leave(c)
  <2>1. UNCHANGED <<ui, events, box, answer, listener, serving>>
    BY <1>2 DEF Ask, Leave, thread
  <2> QED
    BY <2>1, QuietStep DEF ui, IInv, Types
<1>3. CASE Disconnected(c)
  <2>1. /\ UNCHANGED <<ui, box, answer>> /\ listener' = "accept"
        /\ events' = Append(events, left)
    BY <1>3 DEF Disconnected, outside
  <2> QED
    BY <1>1, <2>1, QuietStep DEF ui, IInv, Types
<1>4. CASE ReadRequest(c)
  <2>1. /\ UNCHANGED <<ui, serving, answer>> /\ box' = "empty"
        /\ events' = Append(events, asked)
    BY <1>4 DEF ReadRequest, outside
  <2>2. Types' /\ DecisionsStand /\ RulesDecideAtOnce' /\ DeferredArePending' /\ BoxIsADecision'
    BY <1>1, <2>1 DEF ui, IInv, Types, DecisionsStand, RulesDecideAtOnce,
                      DeferredArePending, BoxIsADecision, Pending, AnswerTo
  <2> QED
    BY <2>1, <2>2, AnswersStand DEF IInv
<1> QED
  BY <1>2, <1>3, <1>4

LEMMA ConnectionStep ==
    ASSUME IInv, Accept \/ AcceptCommand \/ CommandEnds
    PROVE  IInv' /\ DecisionsStand
<1> DEFINE command == [kind |-> "command", from |-> "nobody"]
<1>1. command \in Event
  BY DEF Event
<1>2. UNCHANGED <<ui, box, answer>> /\ listener' # "wait"
  BY DEF Accept, AcceptCommand, CommandEnds, outside
<1>3. UNCHANGED events \/ events' = Append(events, command)
  BY DEF Accept, AcceptCommand, CommandEnds
<1>4. events' \in Seq(Event)
  <2>1. events \in Seq(Event) /\ Append(events, command) \in Seq(Event)
    BY <1>1, AppendProperties DEF IInv, Types
  <2> HIDE DEF command
  <2> QED
    BY <1>3, <2>1
<1>5. Types'
  BY <1>2, <1>4 DEF ui, IInv, Types
<1> QED
  BY <1>2, <1>5, QuietStep DEF ui

LEMMA CommandStep ==
    ASSUME IInv, StatusCommand \/ OtherCommand
    PROVE  IInv' /\ DecisionsStand
<1>1. UNCHANGED <<workspaces, active, rules, requests, deferred, box, answer, listener, serving>>
  BY DEF StatusCommand, OtherCommand, ui, thread, outside
<1>2. events' \in Seq(Event)
  BY TakenEvent DEF StatusCommand, OtherCommand, IInv
<1>3. sessionWs' \in [Client -> Nat]
  BY DEF StatusCommand, OtherCommand, ui, IInv, Types
<1> QED
  BY <1>1, <1>2, <1>3, QuietStep DEF IInv, Types

\* Workspaces come and go; indices stay natural numbers.
LEMMA WorkspaceStep ==
    ASSUME IInv, \/ \E w \in Workspace : OpenWorkspace(w)
                 \/ \E i \in DOMAIN workspaces : SwitchWorkspace(i) \/ CloseWorkspace(i)
    PROVE  IInv' /\ DecisionsStand
<1>1. UNCHANGED <<rules, requests, deferred, events, box, answer, listener, serving>>
  BY DEF OpenWorkspace, SwitchWorkspace, CloseWorkspace, thread, outside
<1> DEFINE Indexed == /\ workspaces' \in Seq(Workspace) /\ active' \in Nat
                      /\ sessionWs' \in [Client -> Nat]
<1>2. Indexed
  <2>1. ASSUME NEW w \in Workspace, OpenWorkspace(w)
        PROVE  Indexed
    BY <2>1 DEF OpenWorkspace, IInv, Types
  <2>2. ASSUME NEW i \in DOMAIN workspaces, SwitchWorkspace(i)
        PROVE  Indexed
    BY <2>2 DEF SwitchWorkspace, IInv, Types
  <2>3. ASSUME NEW i \in DOMAIN workspaces, CloseWorkspace(i)
        PROVE  Indexed
    <3>1. workspaces \in Seq(Workspace) /\ i \in 1..Len(workspaces) /\ Len(workspaces) \in Nat
      BY DEF IInv, Types
    <3>2. SubSeq(workspaces, 1, i - 1) \in Seq(Workspace)
      BY <3>1, SubSeqProperties
    <3>3. SubSeq(workspaces, i + 1, Len(workspaces)) \in Seq(Workspace)
      BY <3>1, SubSeqProperties
    <3>4. workspaces' \in Seq(Workspace)
      BY <2>3, <3>2, <3>3 DEF CloseWorkspace, RemoveAt
    <3>5. active' \in Nat
      <4>1. {active, Len(workspaces) - 1} \in SUBSET Nat
        BY <2>3, <3>1 DEF CloseWorkspace, IInv, Types
      <4>2. Min({active, Len(workspaces) - 1}) \in {active, Len(workspaces) - 1}
        BY <4>1, MinIsMember
      <4> QED
        BY <2>3, <4>1, <4>2 DEF CloseWorkspace
    <3>6. sessionWs' \in [Client -> Nat]
      BY <2>3, <3>1 DEF CloseWorkspace, IInv, Types
    <3> QED
      BY <3>4, <3>5, <3>6
  <2> QED
    BY <2>1, <2>2, <2>3
<1> QED
  BY <1>1, <1>2, QuietStep DEF IInv, Types

LEMMA Step ==
    IInv /\ [Next]_vars => IInv' /\ DecisionsStand
<1> SUFFICES ASSUME IInv, [Next]_vars PROVE IInv' /\ DecisionsStand
  OBVIOUS
<1>1. CASE \E c \in Client : Ask(c) \/ Leave(c) \/ Listener(c)
  BY <1>1, ListenerStep, RelayStep, TimeoutStep DEF Listener
<1>2. CASE Accept \/ AcceptCommand \/ CommandEnds
  BY <1>2, ConnectionStep
<1>3. CASE EventLoop
  BY <1>3, RequestStep, DisconnectedStep, DecidingStep, CommandStep DEF EventLoop
<1>4. CASE User
  BY <1>4, DecidingStep, WorkspaceStep DEF User
<1>5. CASE \E p \in Pane : Prompt(p)
  BY <1>5, PromptStep
<1>6. CASE UNCHANGED vars
  BY <1>6, QuietStep DEF vars, ui, thread, outside, IInv, Types
<1> QED
  BY <1>1, <1>2, <1>3, <1>4, <1>5, <1>6 DEF Next

LEMMA Start ==
    Init => IInv
<1> SUFFICES ASSUME Init PROVE IInv
  OBVIOUS
<1>1. Types
  BY SourcesAssumption DEF Init, Types
<1>2. RulesDecideAtOnce /\ DeferredArePending /\ BoxIsADecision /\ AnswersMatchDecisions
  BY DEF Init, RulesDecideAtOnce, DeferredArePending, BoxIsADecision,
         AnswersMatchDecisions, Pending, Decision
<1> QED
  BY <1>1, <1>2 DEF IInv

-----------------------------------------------------------------------------
(* The theorems.                                                           *)

(* The inductive invariant holds in every reachable state.                 *)
THEOREM Invariance == Spec => []IInv
BY Start, Step, PTL DEF Spec

(* Deciding a request, by key, command or disconnection, always settles    *)
(* its channel with it: no hook process waits on a decided request, and    *)
(* none is answered twice.                                                 *)
THEOREM ChannelsFollowRequests == Spec => []DeferredArePending
<1>1. IInv => DeferredArePending
  BY DEF IInv
<1> QED
  BY <1>1, Invariance, PTL

(* What a hook process hears is what was decided of a request of its own,  *)
(* by a key, a command or an allow rule; only for one that a deny rule     *)
(* decided, and for every such one, is it "allow" instead.                 *)
THEOREM AnswersAreDecisions == Spec => []AnswersMatchDecisions
<1>1. IInv => AnswersMatchDecisions
  BY DEF IInv
<1> QED
  BY <1>1, Invariance, PTL

(* Nothing that races for a request undoes a decision.                     *)
THEOREM NoDecisionUndone == Spec => DecisionsAreFinal
<1>1. IInv /\ [Next]_vars =>
        [\A i \in DOMAIN requests \ Pending : requests'[i] = requests[i]]_vars
  BY Step DEF DecisionsStand
<1> QED
  BY <1>1, Invariance, PTL DEF Spec, DecisionsAreFinal
=============================================================================
