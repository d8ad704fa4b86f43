------------------------- MODULE Workspaces_proofs -------------------------
(***************************************************************************)
(* Theorems about Workspaces, for any number of panes, tabs, workspaces,   *)
(* agent sessions, gestures and dialogs.  There are two arguments.  In the *)
(* first, about what is remembered of a workspace by its position, the     *)
(* trees of the tabs play no part: a step either leaves the workspaces     *)
(* where they are, or adds one at the end, or removes one.  The second is  *)
(* about the panes, and goes up from one tree to one tab, to the tabs of a *)
(* workspace and to all workspaces: whatever a step does, each workspace   *)
(* after it is one of those before it, with no other pane than it had or a *)
(* new one, or else is new.                                                *)
(***************************************************************************)
EXTENDS Workspaces, SequenceTheorems, NaturalsInduction, WellFoundedInduction, TLAPS

IsList(s) == Len(s) \in Nat /\ s = [i \in 1..Len(s) |-> s[i]]

IsWorkspace(ws) == DOMAIN ws = {"id", "tabs", "active_tab"}

AreWorkspaces(list) == IsList(list) /\ \A w \in 1..Len(list) : IsWorkspace(list[w])

Positions ==
    /\ AreWorkspaces(workspaces)
    /\ active_workspace \in 1..Len(workspaces)
    /\ IsList(workspace_infos) /\ IsList(agent_infos)
    /\ session_to_workspace = [s \in Session |-> session_to_workspace[s]]
    /\ home = [s \in Session |-> home[s]]

\* The inductive invariant of the first argument.
IInv == Positions /\ InfosAligned /\ RoutesHold

-----------------------------------------------------------------------------
(* Lists.                                                                  *)

LEMMA ListsAreSequences ==
    ASSUME NEW s, IsList(s)
    PROVE  /\ s \in Seq({s[i] : i \in 1..Len(s)})
           /\ DOMAIN s = 1..Len(s) /\ Len(s) \in Nat
<1>1. s \in [1..Len(s) -> {s[i] : i \in 1..Len(s)}]
  BY DEF IsList
<1> QED
  BY <1>1 DEF IsList

LEMMA SequencesAreLists ==
    ASSUME NEW S, NEW s \in Seq(S)
    PROVE  IsList(s)
BY DEF IsList

LEMMA Longer ==
    ASSUME NEW s, IsList(s), NEW e
    PROVE  /\ IsList(Append(s, e)) /\ Len(Append(s, e)) = Len(s) + 1
           /\ Append(s, e)[Len(s) + 1] = e
           /\ \A i \in 1..Len(s) : Append(s, e)[i] = s[i]
<1> DEFINE S == {s[i] : i \in 1..Len(s)} \cup {e}
<1>1. s \in Seq(S) /\ Len(s) \in Nat
  <2>1. s \in [1..Len(s) -> S] /\ Len(s) \in Nat
    BY DEF IsList
  <2> QED
    BY <2>1
<1> HIDE DEF S
<1>2. e \in S
  BY DEF S
<1>3. Append(s, e) \in Seq(S)
  BY <1>1, <1>2, AppendProperties
<1>4. IsList(Append(s, e))
  BY <1>3, SequencesAreLists
<1>5. /\ Len(Append(s, e)) = Len(s) + 1
      /\ Append(s, e)[Len(s) + 1] = e
      /\ \A i \in 1..Len(s) : Append(s, e)[i] = s[i]
  BY <1>1, <1>2, AppendProperties
<1> QED
  BY <1>4, <1>5

\* What was behind the removed place moves up by one.
LEMMA Shorter ==
    ASSUME NEW s, IsList(s), NEW w \in 1..Len(s)
    PROVE  /\ IsList(RemoveAt(s, w)) /\ Len(RemoveAt(s, w)) = Len(s) - 1
           /\ \A i \in 1..Len(s) - 1 :
                  RemoveAt(s, w)[i] = IF i < w THEN s[i] ELSE s[i + 1]
<1> DEFINE S == {s[i] : i \in 1..Len(s)}
           n == Len(s)
           a == SubSeq(s, 1, w - 1)
           b == SubSeq(s, w + 1, n)
<1>1. s \in Seq(S) /\ n \in Nat /\ w \in 1..n /\ DOMAIN s = 1..n
  BY ListsAreSequences
<1> HIDE DEF S
<1>2. /\ a \in Seq(S) /\ Len(a) = w - 1 /\ \A i \in 1..w - 1 : a[i] = s[i]
  <2>1. a \in Seq(S)
    BY <1>1
  <2>2. Len(a) = w - 1
    BY <1>1
  <2>3. ASSUME NEW i \in 1..w - 1
        PROVE  a[i] = s[i]
    BY <1>1
  <2> QED
    BY <2>1, <2>2, <2>3
<1>3. /\ b \in Seq(S) /\ Len(b) = n - w /\ \A i \in 1..n - w : b[i] = s[i + w]
  <2>1. b \in Seq(S)
    BY <1>1
  <2>2. Len(b) = n - w
    <3>1. CASE w + 1 <= n
      BY <1>1, <3>1
    <3>2. CASE w = n
      BY <1>1, <3>2
    <3>3. w + 1 <= n \/ w = n
      <4>1. n \in Nat /\ w \in Nat /\ w <= n
        BY <1>1
      <4> HIDE DEF n
      <4> QED
        BY <4>1
    <3> QED
      BY <3>1, <3>2, <3>3
  <2>3. ASSUME NEW i \in 1..n - w
        PROVE  b[i] = s[i + w]
    BY <1>1
  <2> QED
    BY <2>1, <2>2, <2>3
<1> HIDE DEF a, b
<1>4. /\ a \o b \in Seq(S) /\ Len(a \o b) = n - 1
      /\ \A i \in 1..n - 1 : (a \o b)[i] = IF i < w THEN a[i] ELSE b[i - w + 1]
  <2>1. /\ a \o b \in Seq(S) /\ Len(a \o b) = Len(a) + Len(b)
        /\ \A i \in 1..Len(a) + Len(b) :
               (a \o b)[i] = IF i <= Len(a) THEN a[i] ELSE b[i - Len(a)]
    BY <1>2, <1>3, ConcatProperties
  <2>2. /\ Len(a) + Len(b) = n - 1
        /\ \A i \in 1..n - 1 : (i <= Len(a) <=> i < w) /\ i - Len(a) = i - w + 1
    BY <1>1, <1>2, <1>3
  <2> QED
    BY <2>1, <2>2
<1>5. ASSUME NEW i \in 1..n - 1
      PROVE  (a \o b)[i] = IF i < w THEN s[i] ELSE s[i + 1]
  <2>1. CASE i < w
    BY <1>1, <1>2, <1>4, <2>1
  <2>2. CASE ~(i < w)
    <3>1. i - w + 1 \in 1..n - w /\ (i - w + 1) + w = i + 1
      BY <1>1, <2>2
    <3> QED
      BY <1>3, <1>4, <2>2, <3>1
  <2> QED
    BY <2>1, <2>2
<1>6. RemoveAt(s, w) = a \o b
  BY DEF RemoveAt, a, b
<1> QED
  BY <1>4, <1>5, <1>6, SequencesAreLists

LEMMA Filled ==
    ASSUME NEW list, IsList(list), NEW n \in Nat
    PROVE  /\ IsList(Padded(list, n))
           /\ Len(Padded(list, n)) = IF Len(list) < n THEN n ELSE Len(list)
           /\ \A i \in 1..Len(Padded(list, n)) :
                  Padded(list, n)[i] = IF i \in 1..Len(list) THEN list[i]
                                       ELSE IF i \in DOMAIN workspaces
                                            THEN workspaces[i].id ELSE None
<1> DEFINE m == IF Len(list) < n THEN n ELSE Len(list)
           f == [i \in 1..m |-> IF i \in 1..Len(list) THEN list[i]
                                ELSE IF i \in DOMAIN workspaces
                                     THEN workspaces[i].id ELSE None]
<1>1. m \in Nat /\ DOMAIN list = 1..Len(list)
  BY ListsAreSequences DEF IsList
<1>2. Padded(list, n) = f
  BY <1>1 DEF Padded
<1> HIDE DEF m
<1>3. Len(f) = m
  BY <1>1
<1> QED
  BY <1>1, <1>2, <1>3 DEF IsList, m

-----------------------------------------------------------------------------
(* The workspaces stay where they are.                                     *)

StayPut ==
    /\ AreWorkspaces(workspaces') /\ Len(workspaces') = Len(workspaces)
    /\ \A w \in 1..Len(workspaces) : workspaces'[w].id = workspaces[w].id

LEMMA StayStep ==
    ASSUME IInv, StayPut, active_workspace' \in 1..Len(workspaces),
           UNCHANGED <<routes, infos>>
    PROVE  IInv'
<1>1. DOMAIN workspaces = 1..Len(workspaces) /\ DOMAIN workspaces' = 1..Len(workspaces)
  BY ListsAreSequences DEF IInv, Positions, AreWorkspaces, StayPut
<1>2. Positions'
  BY DEF IInv, Positions, StayPut, routes, infos
<1>3. InfosAligned'
  <2>1. Ids(workspaces') = Ids(workspaces)
    BY <1>1 DEF Ids, StayPut
  <2> QED
    BY <1>1, <2>1 DEF IInv, InfosAligned, StayPut, infos
<1>4. RoutesHold'
  BY <1>1 DEF IInv, RoutesHold, StayPut, routes
<1> QED
  BY <1>2, <1>3, <1>4 DEF IInv

LEMMA UnchangedStays ==
    ASSUME IInv, workspaces' = workspaces
    PROVE  StayPut
BY DEF StayPut, IInv, Positions

\* One of them changes, but not its name.
LEMMA SetStays ==
    ASSUME IInv, NEW w \in 1..Len(workspaces), NEW ws,
           IsWorkspace(ws), ws.id = workspaces[w].id,
           workspaces' = [workspaces EXCEPT ![w] = ws]
    PROVE  StayPut
<1>1. IsList(workspaces) /\ \A v \in 1..Len(workspaces) : IsWorkspace(workspaces[v])
  BY DEF IInv, Positions, AreWorkspaces
<1>2. /\ Len(workspaces) \in Nat
      /\ workspaces' = [v \in 1..Len(workspaces) |-> IF v = w THEN ws ELSE workspaces[v]]
  BY <1>1, ListsAreSequences DEF IsList
<1>3. Len(workspaces') = Len(workspaces)
  BY <1>2
<1>4. IsList(workspaces')
  BY <1>2, <1>3 DEF IsList
<1> QED
  BY <1>1, <1>2, <1>3, <1>4 DEF StayPut, AreWorkspaces

\* A change of the tabs, or of which is active, is not of the name.
LEMMA NameStays ==
    ASSUME NEW ws, IsWorkspace(ws), NEW tabs, NEW at, NEW t, NEW tab, NEW layout,
           NEW x \in {[ws EXCEPT !.tabs = tabs], [ws EXCEPT !.active_tab = at],
                      [ws EXCEPT !.tabs = tabs, !.active_tab = at],
                      [ws EXCEPT !.tabs[t] = tab], [ws EXCEPT !.tabs[t].panes = tab],
                      [ws EXCEPT !.tabs[t].layout = layout]}
    PROVE  IsWorkspace(x) /\ x.id = ws.id
BY DEF IsWorkspace

LEMMA PushKeepsName ==
    ASSUME NEW ws, IsWorkspace(ws), NEW tab
    PROVE  IsWorkspace(PushTab(ws, tab)) /\ PushTab(ws, tab).id = ws.id
BY DEF IsWorkspace, PushTab

LEMMA InPlace ==
    ASSUME IInv
    PROVE  /\ active_workspace \in 1..Len(workspaces)
           /\ DOMAIN workspaces = 1..Len(workspaces) /\ Len(workspaces) \in Nat
           /\ \A w \in 1..Len(workspaces) : IsWorkspace(workspaces[w])
BY ListsAreSequences DEF IInv, Positions, AreWorkspaces

\* Somewhere in the tabs of one workspace.
LEMMA WithinStays ==
    ASSUME IInv, NEW w \in 1..Len(workspaces), NEW t, NEW x,
           \/ workspaces' = [workspaces EXCEPT ![w].tabs[t] = x]
           \/ workspaces' = [workspaces EXCEPT ![w].tabs[t].panes = x]
           \/ workspaces' = [workspaces EXCEPT ![w].tabs[t].layout = x]
    PROVE  StayPut
<1>1. IsWorkspace(workspaces[w])
  BY InPlace
<1>2. CASE workspaces' = [workspaces EXCEPT ![w].tabs[t] = x]
  BY <1>1, <1>2, NameStays, SetStays
<1>3. CASE workspaces' = [workspaces EXCEPT ![w].tabs[t].panes = x]
  BY <1>1, <1>3, NameStays, SetStays
<1>4. CASE workspaces' = [workspaces EXCEPT ![w].tabs[t].layout = x]
  BY <1>1, <1>4, NameStays, SetStays
<1> QED
  BY <1>2, <1>3, <1>4

-----------------------------------------------------------------------------
(* One of them goes.                                                       *)

LEMMA RemovalStep ==
    ASSUME IInv, NEW w \in 1..Len(workspaces), Len(workspaces) > 1, RemoveWorkspace(w)
    PROVE  IInv'
<1> DEFINE n == Len(workspaces)
<1>1. /\ IsList(workspaces) /\ n \in Nat /\ DOMAIN workspaces = 1..n
      /\ \A v \in 1..n : IsWorkspace(workspaces[v])
  BY ListsAreSequences DEF IInv, Positions, AreWorkspaces
<1>2. /\ IsList(workspaces') /\ Len(workspaces') = n - 1
      /\ DOMAIN workspaces' = 1..n - 1
      /\ \A i \in 1..n - 1 :
             workspaces'[i] = IF i < w THEN workspaces[i] ELSE workspaces[i + 1]
  <2>1. workspaces' = RemoveAt(workspaces, w)
    BY DEF RemoveWorkspace
  <2>2. /\ IsList(workspaces') /\ Len(workspaces') = n - 1
        /\ \A i \in 1..n - 1 :
               workspaces'[i] = IF i < w THEN workspaces[i] ELSE workspaces[i + 1]
    BY <1>1, <2>1, Shorter
  <2> QED
    BY <2>2, ListsAreSequences
<1>3. AreWorkspaces(workspaces')
  BY <1>1, <1>2 DEF AreWorkspaces
<1>4. active_workspace' \in 1..n - 1
  BY <1>1 DEF RemoveWorkspace, Least, IInv, Positions
<1>5. /\ session_to_workspace' = [s \in Session |-> session_to_workspace'[s]]
      /\ home' = [s \in Session |-> home'[s]]
  BY DEF RemoveWorkspace, Renumbered
<1>6. ASSUME NEW list, NEW rest, IsList(list), rest = DropAt(list, w),
             \A i \in 1..Len(list) : i \in 1..n /\ list[i] = workspaces[i].id
      PROVE  /\ IsList(rest) /\ DOMAIN rest = 1..Len(rest)
             /\ \A i \in 1..Len(rest) : i \in 1..n - 1 /\ rest[i] = workspaces'[i].id
             /\ Len(list) = n => Len(rest) = n - 1
  <2>1. Len(list) \in Nat /\ DOMAIN list = 1..Len(list) /\ Len(list) <= n
    <3>1. Len(list) \in Nat /\ DOMAIN list = 1..Len(list)
      BY <1>6, ListsAreSequences
    <3>2. Len(list) = 0 \/ Len(list) \in 1..n
      BY <1>6, <3>1
    <3> QED
      BY <1>1, <3>1, <3>2
  <2>2. CASE w \in 1..Len(list)
    <3>1. /\ IsList(rest) /\ Len(rest) = Len(list) - 1
          /\ \A i \in 1..Len(list) - 1 : rest[i] = IF i < w THEN list[i] ELSE list[i + 1]
      BY <1>6, <2>1, <2>2, Shorter DEF DropAt
    <3>2. DOMAIN rest = 1..Len(rest)
      BY <3>1, ListsAreSequences
    <3>3. ASSUME NEW i \in 1..Len(rest)
          PROVE  i \in 1..n - 1 /\ rest[i] = workspaces'[i].id
      <4>1. i \in 1..n - 1 /\ i \in 1..Len(list) /\ i + 1 \in 1..Len(list)
        BY <1>1, <2>1, <3>1
      <4> QED
        BY <1>2, <1>6, <3>1, <4>1
    <3> QED
      BY <3>1, <3>2, <3>3
  <2>3. CASE w \notin 1..Len(list)
    <3>1. rest = list /\ Len(list) < w
      BY <1>6, <2>1, <2>3 DEF DropAt
    <3>2. ASSUME NEW i \in 1..Len(list)
          PROVE  i \in 1..n - 1 /\ list[i] = workspaces'[i].id
      <4>1. i < w /\ i \in 1..n - 1
        BY <1>1, <2>1, <3>1
      <4> QED
        BY <1>2, <1>6, <4>1
    <3>3. Len(list) # n
      <4>1. w <= n /\ n \in Nat /\ Len(list) < w /\ Len(list) \in Nat
        BY <1>1, <2>1, <3>1
      <4> QED
        BY <4>1
    <3> QED
      BY <1>6, <2>1, <3>1, <3>2, <3>3
  <2> QED
    BY <2>2, <2>3
<1>7. IsList(workspace_infos') /\ IsList(agent_infos') /\ InfosAligned'
  <2>1. /\ IsList(workspace_infos) /\ IsList(agent_infos)
        /\ DOMAIN workspace_infos = 1..Len(workspace_infos)
        /\ DOMAIN agent_infos = 1..Len(agent_infos)
    BY ListsAreSequences DEF IInv, Positions
  <2>2. \A i \in 1..Len(workspace_infos) :
            i \in 1..n /\ workspace_infos[i] = workspaces[i].id
    BY <1>1, <2>1 DEF IInv, InfosAligned
  <2>3. Len(agent_infos) = n /\ \A i \in 1..n : agent_infos[i] = workspaces[i].id
    <3>1. agent_infos = [i \in 1..n |-> workspaces[i].id]
      BY <1>1 DEF IInv, InfosAligned, Ids
    <3> QED
      BY <1>1, <3>1
  <2>4. /\ workspace_infos' = DropAt(workspace_infos, w)
        /\ agent_infos' = DropAt(agent_infos, w)
    BY DEF RemoveWorkspace
  <2>5. /\ IsList(workspace_infos')
        /\ DOMAIN workspace_infos' = 1..Len(workspace_infos')
        /\ \A i \in 1..Len(workspace_infos') :
               i \in 1..n - 1 /\ workspace_infos'[i] = workspaces'[i].id
    BY <1>6, <2>1, <2>2, <2>4
  <2>6. /\ IsList(agent_infos') /\ Len(agent_infos') = n - 1
        /\ DOMAIN agent_infos' = 1..n - 1
        /\ \A i \in 1..n - 1 : agent_infos'[i] = workspaces'[i].id
    <3>1. /\ IsList(agent_infos') /\ DOMAIN agent_infos' = 1..Len(agent_infos')
          /\ \A i \in 1..Len(agent_infos') :
                 i \in 1..n - 1 /\ agent_infos'[i] = workspaces'[i].id
          /\ Len(agent_infos) = n => Len(agent_infos') = n - 1
      <4>1. \A i \in 1..Len(agent_infos) :
                i \in 1..n /\ agent_infos[i] = workspaces[i].id
        BY <2>3
      <4> QED
        BY <1>6, <2>1, <2>4, <4>1
    <3> QED
      BY <2>3, <3>1
  <2>7. agent_infos' = Ids(workspaces')
    BY <1>2, <2>6 DEF Ids, IsList
  <2> QED
    BY <1>2, <2>5, <2>6, <2>7 DEF InfosAligned
<1>8. RoutesHold'
  <2> SUFFICES ASSUME NEW s \in Session, session_to_workspace'[s] # None
               PROVE  /\ session_to_workspace'[s] \in 1..n - 1
                      /\ workspaces'[session_to_workspace'[s]].id = home'[s]
    BY <1>2 DEF RoutesHold
  <2> DEFINE at == session_to_workspace[s]
  <2>1. /\ at # None /\ at # w /\ home'[s] = home[s]
        /\ session_to_workspace'[s] = IF at > w THEN at - 1 ELSE at
    BY DEF RemoveWorkspace, Renumbered
  <2>2. at \in 1..n /\ workspaces[at].id = home[s]
    BY <1>1, <2>1 DEF IInv, RoutesHold
  <2>3. CASE at > w
    <3>1. at - 1 \in 1..n - 1 /\ ~(at - 1 < w) /\ (at - 1) + 1 = at
      BY <1>1, <2>2, <2>3
    <3> QED
      BY <1>2, <2>1, <2>2, <2>3, <3>1
  <2>4. CASE ~(at > w)
    <3>1. at \in 1..n - 1 /\ at < w
      BY <1>1, <2>1, <2>2, <2>4
    <3> QED
      BY <1>2, <2>1, <2>2, <2>4, <3>1
  <2> QED
    BY <2>3, <2>4
<1> QED
  BY <1>2, <1>3, <1>4, <1>5, <1>7, <1>8 DEF IInv, Positions
-----------------------------------------------------------------------------
(* Closing a pane, by a key, a dialog, a button or an exit.                *)

LEMMA CloseStep ==
    ASSUME IInv, NEW w \in 1..Len(workspaces), NEW t, NEW p, ClosePane(w, t, p)
    PROVE  IInv'
<1> DEFINE ws == workspaces[w]
           tab == ws.tabs[t]
           kept == Tab(CloseLeaf(tab.layout, p), tab.panes \ {p})
<1>1. IsWorkspace(ws)
  BY InPlace
<1>2. CASE /\ SetWs(w, [ws EXCEPT !.tabs[t] = kept])
           /\ UNCHANGED <<status, active_workspace, routes, infos>>
  <2>1. IsWorkspace([ws EXCEPT !.tabs[t] = kept]) /\ [ws EXCEPT !.tabs[t] = kept].id = ws.id
    BY <1>1, NameStays
  <2>2. StayPut
    BY <1>2, <2>1, SetStays DEF SetWs
  <2> QED
    BY <1>2, <2>2, StayStep, InPlace
<1>3. CASE /\ SetWs(w, [ws EXCEPT !.tabs = RemoveAt(@, t),
                                  !.active_tab = Least(@, Len(ws.tabs) - 1)])
           /\ UNCHANGED <<status, active_workspace, routes, infos>>
  <2> DEFINE x == [ws EXCEPT !.tabs = RemoveAt(@, t),
                             !.active_tab = Least(@, Len(ws.tabs) - 1)]
  <2>1. IsWorkspace(x) /\ x.id = ws.id
    BY <1>1 DEF IsWorkspace
  <2>2. StayPut
    BY <1>3, <2>1, SetStays DEF SetWs
  <2> QED
    BY <1>3, <2>2, StayStep, InPlace
<1>4. CASE Len(workspaces) > 1 /\ RemoveWorkspace(w)
  BY <1>4, RemovalStep
<1>5. CASE /\ workspaces' = [workspaces EXCEPT ![w].tabs[t].panes = @ \ {p}]
           /\ UNCHANGED <<active_workspace, routes, infos>>
  <2>1. workspaces' = [workspaces EXCEPT ![w].tabs[t].panes =
                          workspaces[w].tabs[t].panes \ {p}]
    BY <1>5
  <2>2. StayPut
    BY <2>1, WithinStays
  <2> QED
    BY <1>5, <2>2, StayStep, InPlace
<1> QED
  BY <1>2, <1>3, <1>4, <1>5 DEF ClosePane

LEMMA CloseFocusedStep ==
    ASSUME IInv, \/ CloseFocusedPane
                 \/ UNCHANGED <<status, workspaces, active_workspace, routes, infos>>
    PROVE  IInv'
<1>1. CASE CloseFocusedPane
  BY <1>1, CloseStep, InPlace DEF CloseFocusedPane
<1>2. CASE UNCHANGED <<status, workspaces, active_workspace, routes, infos>>
  BY <1>2, UnchangedStays, StayStep, InPlace
<1> QED
  BY <1>1, <1>2

-----------------------------------------------------------------------------
(* The actions.                                                            *)

\* A pane that gets a tab of its own.
LEMMA OwnTabStays ==
    ASSUME IInv, NEW p, MoveToOwnTab(p)
    PROVE  StayPut
<1> DEFINE layout == active_tab.layout
           kept == Tab(CloseLeaf(layout, p), active_tab.panes \ {p})
           left == [active_ws EXCEPT !.tabs[active_ws.active_tab] = kept]
<1>1. IsWorkspace(active_ws) /\ active_workspace \in 1..Len(workspaces)
  BY InPlace DEF active_ws
<1>2. IsWorkspace(left) /\ left.id = active_ws.id
  BY <1>1, NameStays
<1>3. CASE UNCHANGED workspaces
  BY <1>3, UnchangedStays
<1>4. CASE SetWs(active_workspace, left)
  BY <1>1, <1>2, <1>4, SetStays DEF SetWs, active_ws
<1>5. CASE SetWs(active_workspace, PushTab(left, NewTabFor(p)))
  <2>1. /\ IsWorkspace(PushTab(left, NewTabFor(p)))
        /\ PushTab(left, NewTabFor(p)).id = active_ws.id
    BY <1>2, PushKeepsName
  <2> QED
    BY <1>1, <1>5, <2>1, SetStays DEF SetWs, active_ws
<1>6. \/ UNCHANGED workspaces \/ SetWs(active_workspace, left)
      \/ SetWs(active_workspace, PushTab(left, NewTabFor(p)))
  BY DEF MoveToOwnTab
<1> QED
  BY <1>3, <1>4, <1>5, <1>6

\* A tab that is taken into another.
LEMMA MergeStays ==
    ASSUME IInv, NEW tab, NEW target, NEW first, MergeTab(tab, target, first)
    PROVE  StayPut
<1>1. IsWorkspace(active_ws) /\ active_workspace \in 1..Len(workspaces)
  BY InPlace DEF active_ws
<1>2. CASE UNCHANGED workspaces
  BY <1>2, UnchangedStays
<1>3. ASSUME NEW tabs, NEW at,
             SetWs(active_workspace, [active_ws EXCEPT !.tabs = tabs, !.active_tab = at])
      PROVE  StayPut
  <2>1. /\ IsWorkspace([active_ws EXCEPT !.tabs = tabs, !.active_tab = at])
        /\ [active_ws EXCEPT !.tabs = tabs, !.active_tab = at].id = active_ws.id
    BY <1>1 DEF IsWorkspace
  <2> QED
    BY <1>1, <1>3, <2>1, SetStays DEF SetWs, active_ws
<1>4. \/ UNCHANGED workspaces
      \/ \E tabs, at :
             SetWs(active_workspace, [active_ws EXCEPT !.tabs = tabs, !.active_tab = at])
  BY Zenon DEF MergeTab
<1> QED
  BY <1>2, <1>3, <1>4

LEMMA LayoutStep ==
    ASSUME IInv, NEW layout, SetActiveLayout(layout),
           UNCHANGED <<active_workspace, routes, infos>>
    PROVE  IInv'
<1>1. StayPut
  BY InPlace, WithinStays DEF SetActiveLayout, SetLayout
<1> QED
  BY <1>1, StayStep, InPlace

LEMMA QuietStep ==
    ASSUME IInv, UNCHANGED <<workspaces, active_workspace, routes, infos>>
    PROVE  IInv'
BY UnchangedStays, StayStep, InPlace

\* A new workspace goes to the end, with an entry in one of the two lists.
LEMMA NewWorkspaceStep ==
    ASSUME IInv, NEW made \in BOOLEAN, NewWorkspace(made)
    PROVE  IInv'
<1>1. CASE ~made
  BY <1>1, QuietStep DEF NewWorkspace, infos
<1>2. CASE made
  <2> DEFINE n == Len(workspaces)
             new == Workspace(next_pane_id, <<NewTabFor(next_pane_id)>>)
  <2>1. /\ workspaces' = Append(workspaces, new)
        /\ agent_infos' = Append(agent_infos, next_pane_id)
        /\ active_workspace' = n + 1
        /\ UNCHANGED <<routes, workspace_infos>>
    BY <1>2 DEF NewWorkspace
  <2>2. IsWorkspace(new) /\ new.id = next_pane_id
    BY DEF Workspace, IsWorkspace
  <2> HIDE DEF new
  <2>3. /\ IsList(workspaces) /\ n \in Nat /\ DOMAIN workspaces = 1..n
        /\ \A w \in 1..n : IsWorkspace(workspaces[w])
    BY InPlace DEF IInv, Positions, AreWorkspaces
  <2>4. /\ IsList(workspaces') /\ Len(workspaces') = n + 1
        /\ workspaces'[n + 1] = new
        /\ \A i \in 1..n : workspaces'[i] = workspaces[i]
    BY <2>1, <2>3, Longer
  <2>5. DOMAIN workspaces' = 1..n + 1
    BY <2>4, ListsAreSequences
  <2>6. AreWorkspaces(workspaces')
    <3>1. \A i \in 1..n + 1 : i \in 1..n \/ i = n + 1
      BY <2>3
    <3> QED
      BY <2>2, <2>3, <2>4, <3>1 DEF AreWorkspaces
  <2>7. agent_infos = [i \in 1..n |-> workspaces[i].id] /\ IsList(agent_infos)
    BY <2>3 DEF IInv, Positions, InfosAligned, Ids
  <2>8. /\ IsList(agent_infos') /\ Len(agent_infos') = n + 1
        /\ agent_infos'[n + 1] = new.id
        /\ \A i \in 1..n : agent_infos'[i] = workspaces[i].id
    <3>1. Len(agent_infos) = n
      BY <2>3, <2>7
    <3> QED
      BY <2>1, <2>2, <2>7, <3>1, Longer
  <2>9. agent_infos' = Ids(workspaces')
    <3>1. \A i \in 1..n + 1 : agent_infos'[i] = workspaces'[i].id
      <4>1. \A i \in 1..n + 1 : i \in 1..n \/ i = n + 1
        BY <2>3
      <4> QED
        BY <2>4, <2>8, <4>1
    <3> QED
      BY <2>5, <2>8, <3>1 DEF Ids, IsList
  <2>10. InfosAligned'
    <3>1. \A i \in DOMAIN workspace_infos :
              i \in 1..n /\ workspace_infos[i] = workspaces[i].id
      BY <2>3 DEF IInv, InfosAligned
    <3>2. \A i \in 1..n : i \in 1..n + 1
      BY <2>3
    <3> QED
      BY <2>1, <2>4, <2>5, <2>9, <3>1, <3>2 DEF InfosAligned
  <2>11. RoutesHold'
    <3>1. \A s \in Session : session_to_workspace[s] # None =>
              /\ session_to_workspace[s] \in 1..n
              /\ workspaces[session_to_workspace[s]].id = home[s]
      BY <2>3 DEF IInv, RoutesHold
    <3>2. \A i \in 1..n : i \in 1..n + 1
      BY <2>3
    <3> QED
      BY <2>1, <2>4, <2>5, <3>1, <3>2 DEF RoutesHold, routes
  <2>12. Positions'
    <3>1. n + 1 \in 1..n + 1
      BY <2>3
    <3> QED
      BY <2>1, <2>4, <2>6, <2>8, <3>1 DEF IInv, Positions, routes
  <2> QED
    BY <2>10, <2>11, <2>12 DEF IInv
<1> QED
  BY <1>1, <1>2

LEMMA DispatchStep ==
    ASSUME IInv, Dispatch
    PROVE  IInv'
<1>1. ASSUME NEW made \in BOOLEAN, NEW dispatched \in BOOLEAN, SplitPane(made, dispatched)
      PROVE  IInv'
  <2>1. StayPut
    BY <1>1, InPlace, WithinStays DEF SplitPane
  <2> QED
    BY <1>1, <2>1, StayStep, InPlace DEF SplitPane
<1>2. ASSUME NEW made \in BOOLEAN, NEW dispatched \in BOOLEAN, NewTab(made, dispatched)
      PROVE  IInv'
  <2>1. CASE SetWs(active_workspace, PushTab(active_ws, NewTabFor(next_pane_id)))
    <3>1. IsWorkspace(active_ws)
      BY InPlace DEF active_ws
    <3>2. /\ IsWorkspace(PushTab(active_ws, NewTabFor(next_pane_id)))
          /\ PushTab(active_ws, NewTabFor(next_pane_id)).id = active_ws.id
      BY <3>1, PushKeepsName
    <3>3. StayPut
      BY <2>1, <3>2, InPlace, SetStays DEF SetWs, active_ws
    <3> QED
      BY <1>2, <3>3, StayStep, InPlace DEF NewTab
  <2>2. CASE UNCHANGED workspaces
    BY <1>2, <2>2, QuietStep DEF NewTab
  <2> QED
    BY <1>2, <2>1, <2>2 DEF NewTab
<1>3. ASSUME NEW made \in BOOLEAN, NewWorkspace(made)
      PROVE  IInv'
  BY <1>3, NewWorkspaceStep
<1>4. CASE ZoomPane
  BY <1>4, LayoutStep DEF ZoomPane
<1>5. ASSUME NEW step \in {-1, 1}, StepPane(step)
      PROVE  IInv'
  BY <1>5, LayoutStep DEF StepPane
<1>6. ASSUME NEW step \in {-1, 1}, StepTab(step)
      PROVE  IInv'
  <2>1. IsWorkspace(active_ws) /\ active_workspace \in 1..Len(workspaces)
    BY InPlace DEF active_ws
  <2>2. PICK x : SetWs(active_workspace, [active_ws EXCEPT !.active_tab = x])
    BY <1>6, Zenon DEF StepTab
  <2>3. /\ IsWorkspace([active_ws EXCEPT !.active_tab = x])
        /\ [active_ws EXCEPT !.active_tab = x].id = active_ws.id
    BY <2>1 DEF IsWorkspace
  <2>4. StayPut
    BY <2>1, <2>2, <2>3, SetStays DEF SetWs, active_ws
  <2> QED
    BY <1>6, <2>1, <2>4, StayStep DEF StepTab
<1>7. ASSUME NEW w \in Places, SwitchWorkspace(w)
      PROVE  IInv'
  BY <1>7, UnchangedStays, StayStep, InPlace DEF SwitchWorkspace
<1>8. CASE ExtractPaneToTab
  BY <1>8, OwnTabStays, StayStep, InPlace DEF ExtractPaneToTab
<1>9. ASSUME NEW child \in BOOLEAN, CloseTab(child)
      PROVE  IInv'
  <2>1. CloseFocusedPane \/ UNCHANGED <<status, workspaces, active_workspace, routes, infos>>
    BY <1>9, Zenon DEF CloseTab
  <2> QED
    BY <2>1, CloseFocusedStep
<1>10. CASE CloseAndKillSession
  BY <1>10, QuietStep DEF CloseAndKillSession
<1> QED
  BY <1>1, <1>2, <1>3, <1>4, <1>5, <1>6, <1>7, <1>8, <1>9, <1>10 DEF Dispatch

LEMMA AnswerStep ==
    ASSUME IInv, Answer
    PROVE  IInv'
<1>1. CASE AnswerKill \/ AnswerClose
  <2>1. CloseFocusedPane \/ UNCHANGED <<status, workspaces, active_workspace, routes, infos>>
    BY <1>1, Zenon DEF AnswerKill, AnswerClose
  <2> QED
    BY <2>1, CloseFocusedStep
<1>2. CASE Dismiss
  BY <1>2, QuietStep DEF Dismiss
<1>3. ASSUME NEW first \in BOOLEAN, AnswerMove(first)
      PROVE  IInv'
  <2>1. StayPut
    BY <1>3, OwnTabStays, MergeStays DEF AnswerMove
  <2> QED
    BY <1>3, <2>1, StayStep, InPlace DEF AnswerMove
<1> QED
  BY <1>1, <1>2, <1>3 DEF Answer

LEMMA MouseStep ==
    ASSUME IInv, Mouse
    PROVE  IInv'
<1>1. IsWorkspace(active_ws) /\ active_workspace \in 1..Len(workspaces)
  BY InPlace DEF active_ws
<1>2. ASSUME NEW tabs, NEW at,
             SetWs(active_workspace, [active_ws EXCEPT !.tabs = tabs, !.active_tab = at])
      PROVE  StayPut
  <2>1. /\ IsWorkspace([active_ws EXCEPT !.tabs = tabs, !.active_tab = at])
        /\ [active_ws EXCEPT !.tabs = tabs, !.active_tab = at].id = active_ws.id
    BY <1>1 DEF IsWorkspace
  <2> QED
    BY <1>1, <1>2, <2>1, SetStays DEF SetWs, active_ws
<1>3. ASSUME NEW t, DragOverTab(t)
      PROVE  IInv'
  <2>1. \/ UNCHANGED workspaces
        \/ \E tabs, at :
               SetWs(active_workspace, [active_ws EXCEPT !.tabs = tabs, !.active_tab = at])
    BY <1>3, Zenon DEF DragOverTab
  <2>2. StayPut
    BY <1>2, <2>1, UnchangedStays
  <2> QED
    BY <1>1, <1>3, <2>2, StayStep DEF DragOverTab
<1>4. ASSUME NEW t, CloseButton(t)
      PROVE  IInv'
  <2>1. CASE CloseFocusedPane
    BY <2>1, CloseFocusedStep
  <2>2. CASE /\ \E tabs, at : SetWs(active_workspace,
                               [active_ws EXCEPT !.tabs = tabs, !.active_tab = at])
             /\ UNCHANGED <<status, active_workspace, routes, infos>>
    <3>1. StayPut
      BY <1>2, <2>2
    <3> QED
      BY <1>1, <2>2, <3>1, StayStep
  <2> QED
    BY <1>4, <2>1, <2>2, Zenon DEF CloseButton
<1>5. CASE ReleaseClick
  <2>1. /\ IsWorkspace([active_ws EXCEPT !.active_tab = gesture.tab])
        /\ [active_ws EXCEPT !.active_tab = gesture.tab].id = active_ws.id
    BY <1>1 DEF IsWorkspace
  <2>2. StayPut
    BY <1>1, <1>5, <2>1, SetStays DEF ReleaseClick, SetWs, active_ws
  <2> QED
    BY <1>1, <1>5, <2>2, StayStep DEF ReleaseClick
<1>6. ASSUME NEW p, FocusPane(p)
      PROVE  IInv'
  BY <1>6, LayoutStep DEF FocusPane
<1>7. CASE \/ StartDrag \/ DragBack \/ Drop \/ EndDrag
           \/ \E t \in TabsOf(active_workspace) : Press(t)
           \/ \E p \in PaneId : DragOverPane(p) \/ CmdClick(p)
  BY <1>7, QuietStep DEF StartDrag, DragBack, Drop, EndDrag, Press, DragOverPane, CmdClick
<1> QED
  BY <1>3, <1>4, <1>5, <1>6, <1>7 DEF Mouse

\* A hook's route is the one there was, or a new one to where its pane is.
LEMMA HookStep ==
    ASSUME IInv, NEW s \in Session, NEW w \in Places, AgentHook(s, w)
    PROVE  IInv'
<1> DEFINE n == Len(workspaces)
           known == session_to_workspace[s] # None
           at == IF known THEN session_to_workspace[s] ELSE w
<1>1. DOMAIN workspaces = 1..n /\ n \in Nat
  BY InPlace
<1>2. at \in 1..n
  BY <1>1 DEF IInv, RoutesHold, Places
<1>3. agent_infos = [i \in 1..n |-> workspaces[i].id] /\ IsList(agent_infos)
  BY <1>1 DEF IInv, InfosAligned, Ids, Positions
<1>4. agent_infos' = agent_infos
  <2>1. agent_infos' = Padded(agent_infos, at) /\ at \in Nat
    BY <1>1, <1>2 DEF AgentHook
  <2>2. Len(agent_infos) = n
    BY <1>1, <1>3
  <2>3. /\ IsList(agent_infos') /\ Len(agent_infos') = n
        /\ \A i \in 1..n : agent_infos'[i] = agent_infos[i]
    <3>1. ~(Len(agent_infos) < at)
      BY <1>1, <1>2, <2>1, <2>2
    <3>2. /\ IsList(agent_infos') /\ Len(agent_infos') = Len(agent_infos)
          /\ \A i \in 1..Len(agent_infos') :
                 agent_infos'[i] = IF i \in 1..Len(agent_infos) THEN agent_infos[i]
                                   ELSE IF i \in DOMAIN workspaces
                                        THEN workspaces[i].id ELSE None
      BY <1>3, <2>1, <3>1, Filled
    <3> QED
      BY <2>2, <3>2
  <2> QED
    BY <1>3, <2>2, <2>3 DEF IsList
<1>5. UNCHANGED <<workspaces, active_workspace, workspace_infos>>
  BY DEF AgentHook
<1>6. /\ session_to_workspace' = [session_to_workspace EXCEPT ![s] = at]
      /\ home' = [home EXCEPT ![s] = IF known THEN @ ELSE workspaces[w].id]
  BY DEF AgentHook
<1>7. Positions'
  BY <1>4, <1>5, <1>6 DEF IInv, Positions
<1>8. InfosAligned'
  BY <1>4, <1>5 DEF IInv, InfosAligned
<1>9. RoutesHold'
  BY <1>1, <1>2, <1>5, <1>6 DEF IInv, Positions, RoutesHold
<1> QED
  BY <1>7, <1>8, <1>9 DEF IInv

LEMMA ForgetStep ==
    ASSUME IInv, NEW s \in Session, ForgetRoute(s)
    PROVE  IInv'
<1>1. Positions' /\ InfosAligned'
  BY DEF ForgetRoute, IInv, Positions, InfosAligned, infos
<1>2. RoutesHold'
  BY DEF ForgetRoute, IInv, Positions, RoutesHold
<1> QED
  BY <1>1, <1>2 DEF IInv

\* The missing entries are made for the workspaces of their positions.
LEMMA DrawStep ==
    ASSUME IInv, DrawSidebar
    PROVE  IInv'
<1> DEFINE n == Len(workspaces)
<1>1. DOMAIN workspaces = 1..n /\ n \in Nat
  BY InPlace
<1>2. /\ workspace_infos' = Padded(workspace_infos, n)
      /\ agent_infos' = Padded(agent_infos, n)
      /\ UNCHANGED <<workspaces, active_workspace, session_to_workspace, home>>
  BY DEF DrawSidebar, routes
<1>3. ASSUME NEW list, NEW full, IsList(list), full = Padded(list, n),
             \A i \in 1..Len(list) : i \in 1..n /\ list[i] = workspaces[i].id
      PROVE  IsList(full) /\ DOMAIN full = 1..n /\ full = Ids(workspaces)
  <2>1. Len(list) \in Nat /\ Len(list) <= n
    <3>1. Len(list) \in Nat
      BY <1>3 DEF IsList
    <3>2. Len(list) = 0 \/ Len(list) \in 1..n
      BY <1>3, <3>1
    <3> QED
      BY <1>1, <3>1, <3>2
  <2>2. IsList(full) /\ Len(full) = n /\ \A i \in 1..n : full[i] = workspaces[i].id
    BY <1>1, <1>3, <2>1, Filled
  <2> QED
    BY <1>1, <2>2, ListsAreSequences DEF IsList, Ids
<1>4. IsList(workspace_infos') /\ workspace_infos' = Ids(workspaces)
  <2>1. /\ IsList(workspace_infos)
        /\ \A i \in 1..Len(workspace_infos) :
               i \in 1..n /\ workspace_infos[i] = workspaces[i].id
    BY <1>1, ListsAreSequences DEF IInv, Positions, InfosAligned
  <2> QED
    BY <1>2, <1>3, <2>1
<1>5. IsList(agent_infos') /\ agent_infos' = Ids(workspaces)
  <2>1. IsList(agent_infos) /\ agent_infos = [i \in 1..n |-> workspaces[i].id]
    BY <1>1 DEF IInv, Positions, InfosAligned, Ids
  <2>2. \A i \in 1..Len(agent_infos) : i \in 1..n /\ agent_infos[i] = workspaces[i].id
    BY <1>1, <2>1
  <2> QED
    BY <1>2, <1>3, <2>1, <2>2
<1>6. Positions'
  BY <1>2, <1>4, <1>5 DEF IInv, Positions
<1>7. InfosAligned'
  BY <1>1, <1>2, <1>4, <1>5 DEF InfosAligned, Ids
<1>8. RoutesHold'
  BY <1>2 DEF IInv, RoutesHold
<1> QED
  BY <1>6, <1>7, <1>8 DEF IInv

LEMMA OutsideStep ==
    ASSUME IInv, Outside
    PROVE  IInv'
<1>1. ASSUME NEW w \in Places, CloseWorkspace(w)
      PROVE  IInv'
  BY <1>1, InPlace, RemovalStep DEF CloseWorkspace
<1>2. ASSUME NEW w \in Places, NEW t, SwitchTab(w, t)
      PROVE  IInv'
  <2>1. IsWorkspace(workspaces[w]) /\ w \in 1..Len(workspaces)
    BY InPlace DEF Places
  <2>2. StayPut
    BY <1>2, <2>1, NameStays, SetStays DEF SwitchTab, SetWs
  <2> QED
    BY <1>2, <2>2, StayStep, InPlace DEF SwitchTab
<1>3. ASSUME NEW w \in Places, NEW t, NEW p, PtyExited(w, t, p)
      PROVE  IInv'
  BY <1>3, InPlace, CloseStep DEF PtyExited, Places
<1> QED
  BY <1>1, <1>2, <1>3, HookStep, ForgetStep, DrawStep DEF Outside

LEMMA Step ==
    IInv /\ [Next]_vars => IInv'
<1> SUFFICES ASSUME IInv, [Next]_vars PROVE IInv'
  OBVIOUS
<1>1. CASE Dispatch \/ Answer \/ Mouse \/ Outside
  BY <1>1, DispatchStep, AnswerStep, MouseStep, OutsideStep
<1>2. CASE UNCHANGED vars
  BY <1>2, QuietStep DEF vars, routes, infos
<1> QED
  BY <1>1, <1>2 DEF Next, Terminated

LEMMA Beginning ==
    Init => IInv
<1> SUFFICES ASSUME Init PROVE IInv
  OBVIOUS
<1>1. PICK shape \in Start : workspaces = StartWorkspaces(shape)
  BY DEF Init
<1>2. Len(shape) \in Nat \ {0} /\ DOMAIN shape = 1..Len(shape)
  BY StartAssumption, EmptySeq, LenProperties
<1>3. /\ DOMAIN workspaces = 1..Len(shape)
      /\ workspaces = [w \in 1..Len(shape) |-> workspaces[w]]
      /\ \A w \in 1..Len(shape) : IsWorkspace(workspaces[w])
  BY <1>1, <1>2 DEF StartWorkspaces, Workspace, IsWorkspace
<1>4. Len(workspaces) = Len(shape) /\ AreWorkspaces(workspaces)
  <2>1. Len(workspaces) = Len(shape)
    BY <1>2, <1>3
  <2> QED
    BY <1>2, <1>3, <2>1 DEF AreWorkspaces, IsList
<1>5. IsList(Ids(workspaces)) /\ DOMAIN Ids(workspaces) = 1..Len(workspaces)
  BY <1>2, <1>3, <1>4 DEF Ids, IsList
<1>6. Positions
  <2>1. active_workspace \in 1..Len(workspaces)
    <3>1. active_workspace = 1
      BY Zenon DEF Init
    <3>2. Len(workspaces) \in Nat /\ Len(workspaces) # 0
      BY <1>2, <1>4
    <3> QED
      BY <3>1, <3>2
  <2>2. /\ session_to_workspace = [s \in Session |-> session_to_workspace[s]]
        /\ home = [s \in Session |-> home[s]]
    BY DEF Init
  <2> QED
    BY <1>4, <1>5, <2>1, <2>2 DEF Init, Positions
<1>7. InfosAligned
  BY <1>3 DEF Init, InfosAligned, Ids
<1>8. RoutesHold
  BY DEF Init, RoutesHold
<1> QED
  BY <1>6, <1>7, <1>8 DEF IInv

-----------------------------------------------------------------------------
(* Lists without repetition, and what an insertion leaves.                 *)

Distinct(list) == \A i, j \in 1..Len(list) : list[i] = list[j] => i = j

IsLayout(l) == l \in Layouts /\ l.panes # <<>> /\ Distinct(l.panes)

LEMMA TypedList ==
    ASSUME NEW s, IsList(s), NEW S, \A i \in 1..Len(s) : s[i] \in S
    PROVE  s \in Seq(S)
<1>1. s \in [1..Len(s) -> S] /\ Len(s) \in Nat
  BY DEF IsList
<1> QED
  BY <1>1

\* What was at the place and behind it moves down by one.
LEMMA Wider ==
    ASSUME NEW s, IsList(s), NEW w \in 1..Len(s) + 1, NEW e
    PROVE  /\ IsList(InsertAt(s, w, e)) /\ Len(InsertAt(s, w, e)) = Len(s) + 1
           /\ \A i \in 1..Len(s) + 1 :
                  InsertAt(s, w, e)[i] =
                      IF i < w THEN s[i] ELSE IF i = w THEN e ELSE s[i - 1]
<1> DEFINE S == {s[i] : i \in 1..Len(s)} \cup {e}
           n == Len(s)
           a == SubSeq(s, 1, w - 1)
           b == SubSeq(s, w, n)
           c == a \o <<e>>
<1>1. s \in Seq(S) /\ n \in Nat /\ w \in 1..n + 1 /\ e \in S
  <2>1. s \in [1..Len(s) -> S] /\ Len(s) \in Nat
    BY DEF IsList
  <2> QED
    BY <2>1
<1> HIDE DEF S
<1>2. /\ a \in Seq(S) /\ Len(a) = w - 1 /\ \A i \in 1..w - 1 : a[i] = s[i]
  <2>1. a \in Seq(S)
    BY <1>1
  <2>2. Len(a) = w - 1
    BY <1>1
  <2>3. ASSUME NEW i \in 1..w - 1
        PROVE  a[i] = s[i]
    BY <1>1
  <2> QED
    BY <2>1, <2>2, <2>3
<1>3. /\ b \in Seq(S) /\ Len(b) = n - w + 1
      /\ \A i \in 1..n - w + 1 : b[i] = s[i + w - 1]
  <2>1. b \in Seq(S)
    BY <1>1
  <2>2. Len(b) = n - w + 1
    <3>1. CASE w <= n
      BY <1>1, <3>1
    <3>2. CASE w = n + 1
      BY <1>1, <3>2
    <3>3. w <= n \/ w = n + 1
      <4>1. n \in Nat /\ w \in Nat /\ w <= n + 1
        BY <1>1
      <4> HIDE DEF n
      <4> QED
        BY <4>1
    <3> QED
      BY <3>1, <3>2, <3>3
  <2>3. ASSUME NEW i \in 1..n - w + 1
        PROVE  b[i] = s[i + w - 1]
    BY <1>1
  <2> QED
    BY <2>1, <2>2, <2>3
<1> HIDE DEF a, b
<1>4. /\ c \in Seq(S) /\ Len(c) = w
      /\ c[w] = e /\ \A i \in 1..w - 1 : c[i] = s[i]
  <2>1. c = Append(a, e)
    BY <1>1, <1>2
  <2>2. /\ Append(a, e) \in Seq(S) /\ Len(Append(a, e)) = Len(a) + 1
        /\ Append(a, e)[Len(a) + 1] = e
        /\ \A i \in 1..Len(a) : Append(a, e)[i] = a[i]
    BY <1>1, <1>2, AppendProperties
  <2>3. Len(a) + 1 = w
    BY <1>1, <1>2
  <2> QED
    BY <1>2, <2>1, <2>2, <2>3
<1> HIDE DEF c
<1>5. /\ c \o b \in Seq(S) /\ Len(c \o b) = Len(c) + Len(b)
      /\ \A i \in 1..Len(c) + Len(b) :
             (c \o b)[i] = IF i <= Len(c) THEN c[i] ELSE b[i - Len(c)]
  BY <1>3, <1>4, ConcatProperties
<1>6. Len(c) + Len(b) = n + 1
  BY <1>1, <1>3, <1>4
<1>7. ASSUME NEW i \in 1..n + 1
      PROVE  (c \o b)[i] = IF i < w THEN s[i] ELSE IF i = w THEN e ELSE s[i - 1]
  <2>1. CASE i < w
    <3>1. i <= Len(c) /\ i \in 1..w - 1
      BY <1>1, <1>4, <2>1
    <3> QED
      BY <1>4, <1>5, <1>6, <2>1, <3>1
  <2>2. CASE i = w
    BY <1>1, <1>4, <1>5, <1>6, <2>2
  <2>3. CASE i > w
    <3>1. i - w \in 1..n - w + 1 /\ (i - w) + w - 1 = i - 1 /\ ~(i <= w)
      BY <1>1, <2>3
    <3> QED
      BY <1>1, <1>3, <1>4, <1>5, <1>6, <2>3, <3>1
  <2>4. i < w \/ i = w \/ i > w
    <3>1. i \in Int /\ w \in Int
      BY <1>1
    <3> QED
      BY <3>1
  <2> QED
    BY <2>1, <2>2, <2>3, <2>4
<1>8. InsertAt(s, w, e) = c \o b
  BY DEF InsertAt, a, b, c
<1> QED
  BY <1>5, <1>6, <1>7, <1>8, SequencesAreLists

-----------------------------------------------------------------------------
(* The panes of one tree.                                                  *)

LEMMA Tree ==
    ASSUME NEW l, IsLayout(l)
    PROVE  /\ DOMAIN l = {"panes", "focused", "zoomed"}
           /\ l.panes \in Seq(Nat) /\ IsList(l.panes)
           /\ Len(l.panes) \in Nat \ {0} /\ DOMAIN l.panes = 1..Len(l.panes)
           /\ l.focused \in Nat /\ l.zoomed \in BOOLEAN
           /\ Leaves(l) = {l.panes[i] : i \in 1..Len(l.panes)}
           /\ Leaves(l) \subseteq Nat /\ Leaves(l) # {}
<1>1. l.panes \in Seq(Nat) /\ l.panes # <<>> /\ l.focused \in Nat /\ l.zoomed \in BOOLEAN
      /\ DOMAIN l = {"panes", "focused", "zoomed"}
  BY DEF IsLayout, Layouts
<1>2. IsList(l.panes) /\ DOMAIN l.panes = 1..Len(l.panes) /\ Len(l.panes) \in Nat \ {0}
  BY <1>1, EmptySeq, LenProperties, SequencesAreLists
<1> QED
  BY <1>1, <1>2 DEF Leaves

\* A tree of its own.
LEMMA Sapling ==
    ASSUME NEW p \in Nat
    PROVE  /\ IsLayout(NewLayout(p)) /\ Leaves(NewLayout(p)) = {p}
           /\ NewLayout(p).focused = p
<1>1. NewLayout(p) \in Layouts /\ NewLayout(p).panes = <<p>> /\ NewLayout(p).focused = p
  BY DEF NewLayout, Layouts
<1>2. <<p>> # <<>> /\ Len(<<p>>) = 1 /\ <<p>>[1] = p /\ DOMAIN <<p>> = {1}
  OBVIOUS
<1> QED
  BY <1>1, <1>2 DEF IsLayout, Distinct, Leaves

LEMMA Found ==
    ASSUME NEW l, IsLayout(l), NEW p \in Leaves(l)
    PROVE  PlaceOf(p, l) \in 1..Len(l.panes) /\ l.panes[PlaceOf(p, l)] = p
<1>1. \E i \in DOMAIN l.panes : l.panes[i] = p
  BY DEF Leaves
<1> QED
  BY <1>1, Tree DEF PlaceOf

LEMMA Pruned ==
    ASSUME NEW l, IsLayout(l), NEW p, ~IsWhole(l, p)
    PROVE  /\ IsLayout(CloseLeaf(l, p)) /\ Leaves(CloseLeaf(l, p)) = Leaves(l) \ {p}
           /\ l.focused \in Leaves(l) => CloseLeaf(l, p).focused \in Leaves(l) \ {p}
<1> DEFINE s == l.panes
           n == Len(s)
           rest == Without(l, p)
<1>1. /\ s \in Seq(Nat) /\ IsList(s) /\ n \in Nat \ {0} /\ DOMAIN s = 1..n
      /\ Leaves(l) = {s[i] : i \in 1..n} /\ Distinct(s) /\ l.focused \in Nat
      /\ \A i \in 1..n : s[i] \in Nat
  BY Tree DEF IsLayout
<1>2. /\ rest \in Seq(Nat) /\ Len(rest) \in Nat \ {0} /\ DOMAIN rest = 1..Len(rest)
      /\ Distinct(rest)
      /\ {rest[i] : i \in 1..Len(rest)} = Leaves(l) \ {p}
  <2>1. CASE p \notin Leaves(l)
    BY <1>1, <2>1 DEF Without
  <2>2. CASE p \in Leaves(l)
    <3> DEFINE at == PlaceOf(p, l)
    <3>1. at \in 1..n /\ s[at] = p
      BY <2>2, Found
    <3>2. n > 1
      <4>1. ASSUME n = 1
            PROVE  FALSE
        <5>1. s[1] = p
          BY <1>1, <3>1, <4>1
        <5>2. s = <<p>>
          BY <1>1, <4>1, <5>1
        <5> QED
          BY <5>2 DEF IsWhole
      <4>2. n \in Nat \ {0}
        BY <1>1
      <4> HIDE DEF n
      <4> QED
        BY <4>1, <4>2
    <3>3. rest = RemoveAt(s, at)
      BY <2>2 DEF Without
    <3> HIDE DEF rest, at
    <3>4. /\ IsList(rest) /\ Len(rest) = n - 1
          /\ \A i \in 1..n - 1 : rest[i] = IF i < at THEN s[i] ELSE s[i + 1]
      BY <1>1, <3>1, <3>3, Shorter
    <3>5. \A i \in 1..n - 1 : i \in 1..n /\ i + 1 \in 1..n
      BY <1>1
    <3>6. rest \in Seq(Nat)
      <4>1. \A i \in 1..Len(rest) : rest[i] \in Nat
        BY <1>1, <3>4, <3>5
      <4> QED
        BY <3>4, <4>1, TypedList
    <3>7. Distinct(rest)
      <4> SUFFICES ASSUME NEW i \in 1..n - 1, NEW j \in 1..n - 1, rest[i] = rest[j]
                   PROVE  i = j
        BY <3>4 DEF Distinct
      <4> DEFINE x == IF i < at THEN i ELSE i + 1
                 y == IF j < at THEN j ELSE j + 1
      <4>1. x \in 1..n /\ y \in 1..n /\ s[x] = s[y]
        BY <3>4, <3>5
      <4>2. x = y
        BY <1>1, <4>1 DEF Distinct
      <4> QED
        BY <1>1, <3>1, <4>2
    <3>8. ASSUME NEW q
          PROVE  (\E i \in 1..n - 1 : rest[i] = q) <=> (q \in Leaves(l) /\ q # p)
      <4>1. ASSUME NEW i \in 1..n - 1, rest[i] = q
            PROVE  q \in Leaves(l) /\ q # p
        <5> DEFINE x == IF i < at THEN i ELSE i + 1
        <5>1. x \in 1..n /\ s[x] = q /\ x # at
          BY <1>1, <3>1, <3>4, <3>5, <4>1
        <5> QED
          BY <1>1, <3>1, <5>1 DEF Distinct
      <4>2. ASSUME q \in Leaves(l), q # p
            PROVE  \E i \in 1..n - 1 : rest[i] = q
        <5>1. PICK x \in 1..n : s[x] = q
          BY <1>1, <4>2
        <5>2. CASE x < at
          <6>1. x \in 1..n - 1
            BY <1>1, <3>1, <5>2
          <6> QED
            BY <3>4, <5>1, <5>2, <6>1
        <5>3. CASE x > at
          <6>1. x - 1 \in 1..n - 1 /\ ~(x - 1 < at) /\ (x - 1) + 1 = x
            BY <1>1, <3>1, <5>3
          <6> QED
            BY <3>4, <5>1, <6>1
        <5>4. x # at
          BY <3>1, <4>2, <5>1
        <5> QED
          BY <1>1, <3>1, <5>2, <5>3, <5>4
      <4> QED
        BY <4>1, <4>2
    <3>9. Len(rest) \in Nat \ {0} /\ DOMAIN rest = 1..Len(rest)
      <4>1. n - 1 \in Nat \ {0}
        BY <1>1, <3>2
      <4> QED
        BY <3>4, <3>6, <4>1, LenProperties
    <3>10. {rest[i] : i \in 1..Len(rest)} = Leaves(l) \ {p}
      <4>1. \A q : q \in {rest[i] : i \in 1..n - 1} <=> \E i \in 1..n - 1 : rest[i] = q
        OBVIOUS
      <4> QED
        BY <3>4, <3>8, <4>1
    <3> QED
      BY <3>6, <3>7, <3>9, <3>10
  <2> QED
    BY <2>1, <2>2
<1> HIDE DEF rest
<1>3. rest[1] \in Leaves(l) \ {p} /\ Head(rest) = rest[1]
  BY <1>2
<1>4. CloseLeaf(l, p) = [panes |-> rest,
                         focused |-> IF l.focused = p THEN Head(rest) ELSE l.focused,
                         zoomed |-> FALSE]
  BY DEF CloseLeaf, rest
<1>5. CloseLeaf(l, p) \in Layouts
  BY <1>1, <1>2, <1>3, <1>4 DEF Layouts
<1>6. rest # <<>>
  BY <1>2
<1>7. CloseLeaf(l, p).panes = rest
  BY <1>4
<1>8. IsLayout(CloseLeaf(l, p))
  BY <1>2, <1>5, <1>6, <1>7 DEF IsLayout
<1>9. Leaves(CloseLeaf(l, p)) = Leaves(l) \ {p}
  BY <1>2, <1>7 DEF Leaves
<1>10. l.focused \in Leaves(l) => CloseLeaf(l, p).focused \in Leaves(l) \ {p}
  BY <1>3, <1>4
<1> QED
  BY <1>8, <1>9, <1>10

\* The tree with p next to the target, or as it was.
Bears(l2, l, target, p) ==
    /\ IsLayout(l2) /\ l2.focused = p /\ ~l2.zoomed
    /\ Leaves(l2) = IF target \in Leaves(l) THEN Leaves(l) \cup {p} ELSE Leaves(l)

LEMMA Grafted ==
    ASSUME NEW l, IsLayout(l), NEW p \in Nat, p \notin Leaves(l), NEW target, NEW first
    PROVE  Bears(InsertLeaf(l, target, p, first), l, target, p)
<1> DEFINE s == l.panes
           n == Len(s)
           l2 == InsertLeaf(l, target, p, first)
           more == l2.panes
<1>1. /\ s \in Seq(Nat) /\ IsList(s) /\ n \in Nat \ {0} /\ DOMAIN s = 1..n
      /\ Leaves(l) = {s[i] : i \in 1..n} /\ Distinct(s) /\ s # <<>>
      /\ \A i \in 1..n : s[i] \in Nat
  BY Tree DEF IsLayout
<1>2. l2.focused = p /\ l2.zoomed = FALSE /\ l2 = [panes |-> more, focused |-> p, zoomed |-> FALSE]
  BY DEF InsertLeaf
<1>3. CASE target \notin Leaves(l)
  <2>1. more = s
    BY <1>3 DEF InsertLeaf
  <2> QED
    BY <1>1, <1>2, <1>3, <2>1 DEF IsLayout, Layouts, Leaves, Bears
<1>4. CASE target \in Leaves(l)
  <2> DEFINE at == PlaceOf(target, l) + (IF first THEN 0 ELSE 1)
  <2>1. at \in 1..n + 1
    <3>1. PlaceOf(target, l) \in 1..n
      BY <1>4, Found
    <3> QED
      BY <1>1, <3>1
  <2>2. more = InsertAt(s, at, p)
    BY <1>4 DEF InsertLeaf
  <2> HIDE DEF more, l2, at
  <2>3. /\ IsList(more) /\ Len(more) = n + 1
        /\ \A i \in 1..n + 1 :
               more[i] = IF i < at THEN s[i] ELSE IF i = at THEN p ELSE s[i - 1]
    BY <1>1, <2>1, <2>2, Wider
  <2>4. \A i \in 1..n + 1 : (i < at => i \in 1..n) /\ (i > at => i - 1 \in 1..n)
    BY <1>1, <2>1
  <2>5. more \in Seq(Nat)
    <3>1. \A i \in 1..Len(more) : more[i] \in Nat
      <4> SUFFICES ASSUME NEW i \in 1..n + 1 PROVE more[i] \in Nat
        BY <2>3
      <4>1. i < at \/ i = at \/ i > at
        BY <1>1, <2>1
      <4> QED
        BY <1>1, <2>3, <2>4, <4>1
    <3> QED
      BY <2>3, <3>1, TypedList
  <2>6. Distinct(more)
    <3> SUFFICES ASSUME NEW i \in 1..n + 1, NEW j \in 1..n + 1, more[i] = more[j]
                 PROVE  i = j
      BY <2>3 DEF Distinct
    <3>1. \A x \in 1..n : s[x] # p
      BY <1>1
    <3>2. ASSUME NEW k \in 1..n + 1, k # at
          PROVE  /\ (IF k < at THEN k ELSE k - 1) \in 1..n
                 /\ more[k] = s[IF k < at THEN k ELSE k - 1]
      BY <1>1, <2>1, <2>3, <2>4, <3>2
    <3>3. CASE i = at \/ j = at
      <4>1. more[at] = p
        BY <2>1, <2>3
      <4> QED
        BY <3>1, <3>2, <3>3, <4>1
    <3>4. CASE i # at /\ j # at
      <4> DEFINE x == IF i < at THEN i ELSE i - 1
                 y == IF j < at THEN j ELSE j - 1
      <4>1. x \in 1..n /\ y \in 1..n /\ s[x] = s[y]
        BY <3>2, <3>4
      <4>2. x = y
        BY <1>1, <4>1 DEF Distinct
      <4> QED
        BY <1>1, <2>1, <3>4, <4>2
    <3> QED
      BY <3>3, <3>4
  <2>7. ASSUME NEW q
        PROVE  (\E i \in 1..n + 1 : more[i] = q) <=> (q \in Leaves(l) \/ q = p)
    <3>1. ASSUME NEW i \in 1..n + 1, more[i] = q
          PROVE  q \in Leaves(l) \/ q = p
      <4>1. i < at \/ i = at \/ i > at
        BY <1>1, <2>1
      <4> QED
        BY <1>1, <2>3, <2>4, <3>1, <4>1
    <3>2. CASE q = p
      BY <2>1, <2>3, <3>2
    <3>3. ASSUME q \in Leaves(l)
          PROVE  \E i \in 1..n + 1 : more[i] = q
      <4>1. PICK x \in 1..n : s[x] = q
        BY <1>1, <3>3
      <4>2. CASE x < at
        <5>1. x \in 1..n + 1
          BY <1>1
        <5> QED
          BY <2>3, <4>1, <4>2, <5>1
      <4>3. CASE ~(x < at)
        <5>1. x + 1 \in 1..n + 1 /\ ~(x + 1 < at) /\ x + 1 # at /\ (x + 1) - 1 = x
          BY <1>1, <2>1, <4>3
        <5> QED
          BY <2>3, <4>1, <5>1
      <4> QED
        BY <4>2, <4>3
    <3> QED
      BY <3>1, <3>2, <3>3
  <2>8. DOMAIN more = 1..n + 1 /\ more # <<>>
    BY <1>1, <2>3, <2>5
  <2>9. l2 \in Layouts
    BY <1>2, <2>5 DEF Layouts
  <2>10. Leaves(l2) = Leaves(l) \cup {p}
    BY <2>7, <2>8 DEF Leaves, more
  <2>11. IsLayout(l2)
    BY <2>6, <2>8, <2>9 DEF IsLayout, more
  <2> QED
    BY <1>2, <1>4, <2>10, <2>11 DEF l2, Bears
<1> QED
  BY <1>3, <1>4

LEMMA Climb ==
    ASSUME NEW S, 0 \in S, \A n \in Nat : n \in S => n + 1 \in S
    PROVE  Nat \subseteq S
<1> SUFFICES ASSUME Nat \ S # {}
             PROVE  FALSE
  OBVIOUS
<1>1. PICK x \in Nat \ S : \A y \in Nat \ S : ~ (<<y, x>> \in OpToRel(<, Nat))
  BY NatLessThanWellFounded, WFMin
<1>2. x # 0 /\ x - 1 \in Nat /\ x - 1 < x
  OBVIOUS
<1>3. <<x - 1, x>> \in Nat \X Nat /\ <<x - 1, x>>[1] = x - 1 /\ <<x - 1, x>>[2] = x
  BY <1>2
<1>4. x - 1 \notin Nat \ S
  BY <1>1, <1>2, <1>3, Zenon DEF OpToRel
<1>5. (x - 1) + 1 \in S
  BY <1>2, <1>4
<1> QED
  BY <1>5

\* A merged tab's panes end up around the target, or nowhere.
LEMMA AllGrafted ==
    ASSUME NEW l, IsLayout(l), NEW order \in Seq(Nat), order # <<>>, Distinct(order),
           \A i \in 1..Len(order) : order[i] \notin Leaves(l), NEW target, NEW first
    PROVE  LET l2 == InsertLeaves(l, target, order, first)
               moved == {order[i] : i \in 1..Len(order)}
           IN /\ IsLayout(l2)
              /\ Leaves(l2) = IF target \in Leaves(l) THEN Leaves(l) \cup moved ELSE Leaves(l)
<1> DEFINE size == Len(order)
           next(g, n) == IF n = 0 THEN l
                         ELSE InsertLeaf(g[n - 1], IF n = 1 THEN target ELSE Head(order),
                                         order[n], first)
           built(g, m) == g = [n \in 0..m |-> next(g, n)]
           some == {m \in Nat : \E g : built(g, m)}
           after == CHOOSE g : built(g, size)
           upTo(n) == {order[i] : i \in 1..n}
           full == target \in Leaves(l)
           good == {n \in Nat : n <= size =>
                       /\ IsLayout(after[n])
                       /\ Leaves(after[n]) = IF full THEN Leaves(l) \cup upTo(n) ELSE Leaves(l)}
<1> HIDE DEF next
<1>1. 0 \in some
  <2> DEFINE g == [n \in 0..0 |-> l]
  <2>1. \A n \in 0..0 : next(g, n) = l
    BY DEF next
  <2>2. built(g, 0)
    BY <2>1
  <2> QED
    BY <2>2
<1>2. ASSUME NEW m \in Nat, m \in some
      PROVE  m + 1 \in some
  <2>1. PICK g : built(g, m)
    BY <1>2
  <2>5. \A n \in 0..m : g[n] = next(g, n)
    BY <2>1
  <2> DEFINE h == [n \in 0..(m + 1) |-> IF n = m + 1 THEN next(g, m + 1) ELSE g[n]]
  <2>2. ASSUME NEW n \in 0..(m + 1)
        PROVE  h[n] = next(h, n)
    <3>1. CASE n = 0
      <4>1. h[0] = g[0] /\ g[0] = next(g, 0)
        BY <2>5, <3>1
      <4> QED
        BY <3>1, <4>1 DEF next
    <3>2. CASE n # 0
      <4>1. n - 1 \in 0..m /\ h[n - 1] = g[n - 1]
        BY <3>2
      <4>2. next(h, n) = next(g, n)
        BY <3>2, <4>1 DEF next
      <4>3. n # m + 1 => n \in 0..m /\ g[n] = next(g, n)
        BY <2>5
      <4> QED
        BY <4>2, <4>3
    <3> QED
      BY <3>1, <3>2
  <2>3. h = [n \in 0..(m + 1) |-> h[n]]
    OBVIOUS
  <2>4. built(h, m + 1)
    BY <2>2, <2>3
  <2> HIDE DEF built, h
  <2> QED
    BY <2>4
<1>9. /\ size \in Nat /\ size # 0 /\ Head(order) = order[1]
      /\ \A i \in 1..size : order[i] \in Nat
  BY EmptySeq, LenProperties
<1>3. built(after, size)
  BY <1>1, <1>2, <1>9, Climb
<1>4. InsertLeaves(l, target, order, first) = after[size]
  BY DEF InsertLeaves, next
<1>7. \A n \in 0..size : after[n] = next(after, n)
  <2> HIDE DEF after
  <2> QED
    BY <1>3
<1>10. ASSUME NEW g, IsLayout(g), NEW a, NEW q \in Nat, q \notin Leaves(g)
       PROVE  /\ IsLayout(InsertLeaf(g, a, q, first))
              /\ Leaves(InsertLeaf(g, a, q, first)) =
                     IF a \in Leaves(g) THEN Leaves(g) \cup {q} ELSE Leaves(g)
  BY <1>10, Grafted DEF Bears
<1> HIDE DEF after, size
<1>5. 0 \in good
  <2>1. after[0] = l
    BY <1>7, <1>9 DEF next
  <2>2. upTo(0) = {}
    OBVIOUS
  <2> QED
    BY <2>1, <2>2
<1>6. ASSUME NEW n \in Nat, n \in good
      PROVE  n + 1 \in good
  <2> SUFFICES ASSUME n + 1 <= size
               PROVE  /\ IsLayout(after[n + 1])
                      /\ Leaves(after[n + 1]) =
                             IF full THEN Leaves(l) \cup upTo(n + 1) ELSE Leaves(l)
    OBVIOUS
  <2> DEFINE anchor == IF n + 1 = 1 THEN target ELSE order[1]
             p == order[n + 1]
  <2>1. /\ IsLayout(after[n]) /\ n + 1 \in 1..size /\ n + 1 # 0 /\ (n + 1) - 1 = n
        /\ Leaves(after[n]) = IF full THEN Leaves(l) \cup upTo(n) ELSE Leaves(l)
    BY <1>6, <1>9
  <2>2. after[n + 1] = InsertLeaf(after[n], anchor, p, first)
    BY <1>7, <1>9, <2>1 DEF next
  <2>3. p \in Nat /\ p \notin Leaves(l)
    BY <1>9, <2>1 DEF size
  <2>4. p \notin upTo(n)
    <3> SUFFICES ASSUME NEW i \in 1..n, order[i] = p PROVE FALSE
      OBVIOUS
    <3>1. i \in 1..size /\ i # n + 1
      BY <1>9, <2>1
    <3> QED
      BY <2>1, <3>1 DEF Distinct, size
  <2>5. p \notin Leaves(after[n])
    BY <2>1, <2>3, <2>4
  <2>6. /\ IsLayout(after[n + 1])
        /\ Leaves(after[n + 1]) = IF anchor \in Leaves(after[n])
                                  THEN Leaves(after[n]) \cup {p} ELSE Leaves(after[n])
    <3> DEFINE l2 == InsertLeaf(after[n], anchor, p, first)
    <3> HIDE DEF p, anchor, upTo, full
    <3>1. /\ IsLayout(l2)
          /\ Leaves(l2) = IF anchor \in Leaves(after[n])
                          THEN Leaves(after[n]) \cup {p} ELSE Leaves(after[n])
      BY <1>10, <2>1, <2>3, <2>5
    <3> HIDE DEF l2
    <3>2. after[n + 1] = l2
      BY <2>2 DEF l2
    <3> QED
      BY <3>1, <3>2
  <2>7. anchor \in Leaves(after[n]) <=> full
    <3>1. CASE n = 0
      <4>1. upTo(n) = {}
        BY <3>1
      <4> QED
        BY <2>1, <3>1, <4>1
    <3>2. CASE n # 0
      <4>1. anchor = order[1] /\ 1 \in 1..n /\ 1 \in 1..size
        BY <1>9, <2>1, <3>2
      <4>2. order[1] \in upTo(n) /\ order[1] \notin Leaves(l)
        BY <4>1 DEF size
      <4> QED
        BY <2>1, <4>1, <4>2
    <3> QED
      BY <3>1, <3>2
  <2>8. upTo(n + 1) = upTo(n) \cup {p}
    <3>1. 1..(n + 1) = 1..n \cup {n + 1}
      OBVIOUS
    <3> QED
      BY <3>1
  <2> HIDE DEF p, anchor, upTo, full
  <2> QED
    BY <2>1, <2>6, <2>7, <2>8
<1>8. size \in good
  BY <1>5, <1>6, <1>9, Climb
<1> QED
  BY <1>4, <1>8, <1>9 DEF size

LEMMA Focused ==
    ASSUME NEW l, IsLayout(l), NEW p
    PROVE  /\ IsLayout(FocusLeaf(l, p)) /\ FocusLeaf(l, p).panes = l.panes
           /\ Leaves(FocusLeaf(l, p)) = Leaves(l)
           /\ FocusLeaf(l, p).focused = IF p \in Leaves(l) THEN p ELSE l.focused
<1>1. FocusLeaf(l, p) = IF p \in Leaves(l) THEN [l EXCEPT !.focused = p] ELSE l
  BY DEF FocusLeaf
<1>2. FocusLeaf(l, p).panes = l.panes /\ FocusLeaf(l, p) \in Layouts
      /\ FocusLeaf(l, p).focused = IF p \in Leaves(l) THEN p ELSE l.focused
  BY <1>1, Tree DEF IsLayout, Layouts
<1> QED
  BY <1>2 DEF IsLayout, Leaves

LEMMA Stepped ==
    ASSUME NEW l, IsLayout(l), NEW step \in Int
    PROVE  /\ IsLayout(StepFocus(l, step)) /\ Leaves(StepFocus(l, step)) = Leaves(l)
           /\ l.focused \in Leaves(l) => StepFocus(l, step).focused \in Leaves(l)
<1> DEFINE n == Len(l.panes)
           at == IF l.focused \in Leaves(l) THEN PlaceOf(l.focused, l) ELSE 1
           k == ((at - 1 + step) % n) + 1
<1>1. /\ n \in Nat \ {0} /\ \A i \in 1..n : l.panes[i] \in Nat
      /\ Leaves(l) = {l.panes[i] : i \in 1..n}
      /\ l.panes \in Seq(Nat) /\ l.focused \in Nat /\ l \in Layouts
  BY Tree DEF IsLayout
<1>2. at \in 1..n
  <2>1. 1 \in 1..n
    <3> HIDE DEF n
    <3> QED
      BY <1>1
  <2> QED
    BY <2>1, Found
<1>3. StepFocus(l, step) = IF n <= 1 THEN l ELSE [l EXCEPT !.focused = l.panes[k]]
  BY DEF StepFocus
<1>4. k \in 1..n
  <2> HIDE DEF n, at
  <2> QED
    BY <1>1, <1>2
<1> HIDE DEF k, n
<1>5. l.panes[k] \in Nat /\ l.panes[k] \in Leaves(l)
  BY <1>1, <1>4
<1>6. /\ StepFocus(l, step) \in Layouts /\ StepFocus(l, step).panes = l.panes
      /\ StepFocus(l, step).focused = IF n <= 1 THEN l.focused ELSE l.panes[k]
  BY <1>1, <1>3, <1>5 DEF Layouts
<1> QED
  BY <1>5, <1>6 DEF IsLayout, Leaves

LEMMA Zoomed ==
    ASSUME NEW l, IsLayout(l)
    PROVE  /\ IsLayout(ToggleZoom(l)) /\ Leaves(ToggleZoom(l)) = Leaves(l)
           /\ ToggleZoom(l).focused = l.focused
<1>1. ToggleZoom(l) = IF Len(l.panes) <= 1 THEN l ELSE [l EXCEPT !.zoomed = ~l.zoomed]
  BY DEF ToggleZoom
<1>2. ToggleZoom(l) \in Layouts /\ ToggleZoom(l).panes = l.panes
      /\ ToggleZoom(l).focused = l.focused
  BY <1>1, Tree DEF IsLayout, Layouts
<1> QED
  BY <1>2 DEF IsLayout, Leaves

-----------------------------------------------------------------------------
(* The tabs of one workspace.                                              *)

IsTab(tab, bound) ==
    /\ DOMAIN tab = {"layout", "panes"} /\ IsLayout(tab.layout)
    /\ Leaves(tab.layout) \cup tab.panes \subseteq 0..bound - 1

Homed(tab) == tab.panes \cup {tab.layout.focused} \subseteq Leaves(tab.layout)

Apart(a, b) == /\ a.panes \cap b.panes = {}
               /\ Leaves(a.layout) \cap Leaves(b.layout) = {}

Tidy(ws, bound) ==
    /\ IsWorkspace(ws) /\ ws.id \in 0..bound - 1
    /\ IsList(ws.tabs) /\ Len(ws.tabs) # 0
    /\ \A t \in 1..Len(ws.tabs) : IsTab(ws.tabs[t], bound)
    /\ \A t, u \in 1..Len(ws.tabs) : t # u => Apart(ws.tabs[t], ws.tabs[u])

LeavesOf(ws) == UNION {Leaves(ws.tabs[t].layout) : t \in DOMAIN ws.tabs}

Pointed(ws) == ws.active_tab \in 1..Len(ws.tabs)

AllHomed(ws) == \A t \in 1..Len(ws.tabs) : Homed(ws.tabs[t])

\* x is ws with another tab at t.
Swapped(ws, t, tab, x) ==
    /\ IsWorkspace(x) /\ x.id = ws.id /\ IsList(x.tabs) /\ Len(x.tabs) = Len(ws.tabs)
    /\ \A u \in 1..Len(ws.tabs) : x.tabs[u] = IF u = t THEN tab ELSE ws.tabs[u]

\* A tab may gain panes, and keeps its own in its tree if they were.
TabGains(old, new, gained, bound) ==
    /\ IsTab(new, bound)
    /\ new.panes \subseteq old.panes \cup gained
    /\ Leaves(new.layout) \subseteq Leaves(old.layout) \cup gained
    /\ Homed(old) => Homed(new)

\* The same of a workspace.
Gains(old, new, gained, bound) ==
    /\ Tidy(new, bound) /\ new.id = old.id
    /\ PanesOf(new) \subseteq PanesOf(old) \cup gained
    /\ LeavesOf(new) \subseteq LeavesOf(old) \cup gained
    /\ Pointed(old) => Pointed(new)
    /\ AllHomed(old) => AllHomed(new)

Lacks(ws, gained) == (PanesOf(ws) \cup LeavesOf(ws)) \cap gained = {}

LEMMA NewTabs ==
    ASSUME NEW p \in Nat, NEW bound \in Nat, p < bound
    PROVE  /\ IsTab(NewTabFor(p), bound) /\ Homed(NewTabFor(p))
           /\ NewTabFor(p).panes = {p} /\ Leaves(NewTabFor(p).layout) = {p}
<1>1. /\ DOMAIN NewTabFor(p) = {"layout", "panes"}
      /\ NewTabFor(p).layout = NewLayout(p) /\ NewTabFor(p).panes = {p}
  BY DEF NewTabFor, Tab
<1>2. p \in 0..bound - 1
  OBVIOUS
<1> QED
  BY <1>1, <1>2, Sapling DEF IsTab, Homed

LEMMA TabFields ==
    ASSUME NEW layout, NEW panes
    PROVE  /\ DOMAIN Tab(layout, panes) = {"layout", "panes"}
           /\ Tab(layout, panes).layout = layout /\ Tab(layout, panes).panes = panes
BY DEF Tab

LEMMA Widened ==
    ASSUME NEW a \in Nat, NEW b \in Nat, a <= b, NEW ws, Tidy(ws, a)
    PROVE  Tidy(ws, b)
<1>1. 0..a - 1 \subseteq 0..b - 1
  OBVIOUS
<1> QED
  BY <1>1 DEF Tidy, IsTab

LEMMA InTabs ==
    ASSUME NEW ws, IsList(ws.tabs)
    PROVE  /\ DOMAIN ws.tabs = 1..Len(ws.tabs) /\ Len(ws.tabs) \in Nat
           /\ \A p : p \in PanesOf(ws) <=> \E t \in 1..Len(ws.tabs) : p \in ws.tabs[t].panes
           /\ \A p : p \in LeavesOf(ws) <=>
                         \E t \in 1..Len(ws.tabs) : p \in Leaves(ws.tabs[t].layout)
<1>1. DOMAIN ws.tabs = 1..Len(ws.tabs) /\ Len(ws.tabs) \in Nat
  BY ListsAreSequences
<1> QED
  BY <1>1 DEF PanesOf, LeavesOf

\* x has some of the tabs of ws: at each place that of another place.
Picked(ws, x, from) ==
    /\ IsWorkspace(x) /\ x.id = ws.id /\ IsList(x.tabs) /\ Len(x.tabs) # 0
    /\ \A t \in 1..Len(x.tabs) :
           from[t] \in 1..Len(ws.tabs) /\ x.tabs[t] = ws.tabs[from[t]]
    /\ \A t, u \in 1..Len(x.tabs) : from[t] = from[u] => t = u

\* Tabs that go, or change places.
LEMMA Rearranged ==
    ASSUME NEW bound, NEW ws, Tidy(ws, bound),
           NEW x, NEW from, Picked(ws, x, from)
    PROVE  /\ Tidy(x, bound)
           /\ PanesOf(x) \subseteq PanesOf(ws) /\ LeavesOf(x) \subseteq LeavesOf(ws)
           /\ AllHomed(ws) => AllHomed(x)
<1>1. IsList(ws.tabs)
  BY DEF Tidy
<1>5. /\ IsWorkspace(x) /\ x.id = ws.id /\ IsList(x.tabs) /\ Len(x.tabs) # 0
      /\ \A t \in 1..Len(x.tabs) :
             from[t] \in 1..Len(ws.tabs) /\ x.tabs[t] = ws.tabs[from[t]]
      /\ \A t, u \in 1..Len(x.tabs) : from[t] = from[u] => t = u
  BY DEF Picked
<1>2. PanesOf(x) \subseteq PanesOf(ws) /\ LeavesOf(x) \subseteq LeavesOf(ws)
  <2>1. ASSUME NEW p \in PanesOf(x) PROVE p \in PanesOf(ws)
    <3>1. PICK t \in 1..Len(x.tabs) : p \in x.tabs[t].panes
      BY <1>5, InTabs
    <3> QED
      BY <1>1, <1>5, <3>1, InTabs
  <2>2. ASSUME NEW p \in LeavesOf(x) PROVE p \in LeavesOf(ws)
    <3>1. PICK t \in 1..Len(x.tabs) : p \in Leaves(x.tabs[t].layout)
      BY <1>5, InTabs
    <3> QED
      BY <1>1, <1>5, <3>1, InTabs
  <2> QED
    BY <2>1, <2>2
<1>3. Tidy(x, bound)
  <2>1. \A t \in 1..Len(x.tabs) : IsTab(x.tabs[t], bound)
    BY <1>5 DEF Tidy
  <2>2. ASSUME NEW t \in 1..Len(x.tabs), NEW u \in 1..Len(x.tabs), t # u
        PROVE  Apart(x.tabs[t], x.tabs[u])
    <3>1. from[t] # from[u] /\ from[t] \in 1..Len(ws.tabs) /\ from[u] \in 1..Len(ws.tabs)
      BY <1>5, <2>2
    <3>2. Apart(ws.tabs[from[t]], ws.tabs[from[u]])
      BY <3>1 DEF Tidy
    <3> QED
      BY <1>5, <3>2
  <2> QED
    BY <1>5, <2>1, <2>2 DEF Tidy
<1>4. AllHomed(ws) => AllHomed(x)
  BY <1>5 DEF AllHomed
<1> QED
  BY <1>2, <1>3, <1>4

\* One tab is replaced.
LEMMA Refitted ==
    ASSUME NEW bound, NEW ws, Tidy(ws, bound), NEW t \in 1..Len(ws.tabs),
           NEW tab, IsTab(tab, bound),
           \A u \in 1..Len(ws.tabs) : u # t => Apart(ws.tabs[u], tab),
           NEW x, Swapped(ws, t, tab, x)
    PROVE  /\ Tidy(x, bound)
           /\ PanesOf(x) \subseteq PanesOf(ws) \cup tab.panes
           /\ LeavesOf(x) \subseteq LeavesOf(ws) \cup Leaves(tab.layout)
           /\ AllHomed(ws) /\ Homed(tab) => AllHomed(x)
<1> DEFINE n == Len(ws.tabs)
<1>1. IsList(ws.tabs) /\ n \in Nat /\ DOMAIN ws.tabs = 1..n
  BY InTabs DEF Tidy
<1>2. IsWorkspace(x) /\ x.id = ws.id
  BY DEF Swapped
<1>3. Len(x.tabs) = n
  BY DEF Swapped
<1>4. IsList(x.tabs) /\ \A u \in 1..n : x.tabs[u] = IF u = t THEN tab ELSE ws.tabs[u]
  BY DEF Swapped
<1>5. PanesOf(x) \subseteq PanesOf(ws) \cup tab.panes
  <2> SUFFICES ASSUME NEW p \in PanesOf(x) PROVE p \in PanesOf(ws) \cup tab.panes
    OBVIOUS
  <2>1. PICK u \in 1..n : p \in x.tabs[u].panes
    BY <1>3, <1>4, InTabs
  <2> QED
    BY <1>1, <1>4, <2>1, InTabs
<1>6. LeavesOf(x) \subseteq LeavesOf(ws) \cup Leaves(tab.layout)
  <2> SUFFICES ASSUME NEW p \in LeavesOf(x)
               PROVE  p \in LeavesOf(ws) \cup Leaves(tab.layout)
    OBVIOUS
  <2>1. PICK u \in 1..n : p \in Leaves(x.tabs[u].layout)
    BY <1>3, <1>4, InTabs
  <2> QED
    BY <1>1, <1>4, <2>1, InTabs
<1>7. Tidy(x, bound)
  <2>1. \A u, v \in 1..n : u # v => Apart(x.tabs[u], x.tabs[v])
    BY <1>4 DEF Tidy, Apart
  <2>2. x.id \in 0..bound - 1 /\ Len(x.tabs) # 0
    BY <1>2, <1>3 DEF Tidy
  <2>3. \A u \in 1..n : IsTab(x.tabs[u], bound)
    BY <1>4 DEF Tidy
  <2> QED
    BY <1>2, <1>3, <1>4, <2>1, <2>2, <2>3 DEF Tidy
<1>8. AllHomed(ws) /\ Homed(tab) => AllHomed(x)
  BY <1>3, <1>4 DEF AllHomed
<1> QED
  BY <1>3, <1>4, <1>5, <1>6, <1>7, <1>8

\* One more tab, which becomes the active one.
LEMMA Pushed ==
    ASSUME NEW bound, NEW ws, Tidy(ws, bound), NEW tab, IsTab(tab, bound),
           \A u \in 1..Len(ws.tabs) : Apart(ws.tabs[u], tab)
    PROVE  LET x == PushTab(ws, tab)
           IN /\ Tidy(x, bound) /\ Pointed(x)
              /\ PanesOf(x) \subseteq PanesOf(ws) \cup tab.panes
              /\ LeavesOf(x) \subseteq LeavesOf(ws) \cup Leaves(tab.layout)
              /\ AllHomed(ws) /\ Homed(tab) => AllHomed(x)
<1> DEFINE n == Len(ws.tabs)
           x == PushTab(ws, tab)
<1>1. IsList(ws.tabs) /\ n \in Nat
  BY InTabs DEF Tidy
<1>2. /\ IsWorkspace(x) /\ x.id = ws.id /\ x.tabs = Append(ws.tabs, tab)
      /\ x.active_tab = n + 1
  BY DEF Tidy, IsWorkspace, PushTab
<1> HIDE DEF x
<1>3. /\ IsList(x.tabs) /\ Len(x.tabs) = n + 1 /\ x.tabs[n + 1] = tab
      /\ \A u \in 1..n : x.tabs[u] = ws.tabs[u]
  BY <1>1, <1>2, Longer
<1>4. /\ n + 1 \in 1..n + 1 /\ \A u \in 1..n + 1 : u \in 1..n \/ u = n + 1
      /\ n + 1 # 0
  BY <1>1
<1>5. ASSUME NEW p \in PanesOf(x) PROVE p \in PanesOf(ws) \cup tab.panes
  <2>1. PICK u \in 1..n + 1 : p \in x.tabs[u].panes
    BY <1>3, InTabs
  <2> QED
    BY <1>1, <1>3, <1>4, <2>1, InTabs
<1>6. ASSUME NEW p \in LeavesOf(x) PROVE p \in LeavesOf(ws) \cup Leaves(tab.layout)
  <2>1. PICK u \in 1..n + 1 : p \in Leaves(x.tabs[u].layout)
    BY <1>3, InTabs
  <2> QED
    BY <1>1, <1>3, <1>4, <2>1, InTabs
<1>7. Tidy(x, bound)
  <2>1. \A u, v \in 1..n + 1 : u # v => Apart(x.tabs[u], x.tabs[v])
    BY <1>3, <1>4 DEF Tidy, Apart
  <2>2. \A u \in 1..n + 1 : IsTab(x.tabs[u], bound)
    BY <1>3, <1>4 DEF Tidy
  <2> QED
    BY <1>2, <1>3, <1>4, <2>1, <2>2 DEF Tidy
<1>8. AllHomed(ws) /\ Homed(tab) => AllHomed(x)
  BY <1>3, <1>4 DEF AllHomed
<1>9. Pointed(x)
  BY <1>2, <1>3, <1>4 DEF Pointed
<1> QED
  BY <1>5, <1>6, <1>7, <1>8, <1>9 DEF x

-----------------------------------------------------------------------------
(* All workspaces.                                                         *)

Separate(a, b) == /\ a.id # b.id
                  /\ PanesOf(a) \cap PanesOf(b) = {}
                  /\ LeavesOf(a) \cap LeavesOf(b) = {}

Trees ==
    /\ next_pane_id \in Nat
    /\ \A w \in 1..Len(workspaces) : Tidy(workspaces[w], next_pane_id)
    /\ \A v, w \in 1..Len(workspaces) : v # w => Separate(workspaces[v], workspaces[w])

Pointing ==
    /\ status \in {"running", "quit", "panicked"}
    /\ status # "panicked" => \A w \in 1..Len(workspaces) : Pointed(workspaces[w])

AllAtHome == \A w \in 1..Len(workspaces) : AllHomed(workspaces[w])

Fresh == next_pane_id..next_pane_id' - 1

\* What a step makes of a workspace that it does not remove, which may gain
\* panes; what a new workspace is;
Becomes(old, new, gained) ==
    /\ Tidy(new, next_pane_id') /\ new.id = old.id
    /\ PanesOf(new) \subseteq PanesOf(old) \cup gained
    /\ LeavesOf(new) \subseteq LeavesOf(old) \cup gained
    /\ Pointed(old) => status' = "panicked" \/ Pointed(new)
    /\ AllHomed(old) => MissedMerge \/ AllHomed(new)

Newcomer(new) ==
    /\ Tidy(new, next_pane_id') /\ Pointed(new) /\ AllHomed(new)
    /\ {new.id} \cup PanesOf(new) \cup LeavesOf(new) \subseteq Fresh

\* and of all together: `was` gives the place each one had, 0 to a new one,
\* and only the one at `at` is new or gains panes.
Moved(was, at) ==
    /\ next_pane_id' \in Nat /\ next_pane_id <= next_pane_id'
    /\ \A w \in 1..Len(workspaces') :
           \/ w = at /\ was[w] = 0 /\ Newcomer(workspaces'[w])
           \/ /\ was[w] \in 1..Len(workspaces)
              /\ Becomes(workspaces[was[w]], workspaces'[w],
                         IF w = at THEN Fresh ELSE {})
    /\ \A v, w \in 1..Len(workspaces') : was[v] = was[w] => v = w

Moves == \E was, at : Moved(was, at)

LEMMA Below ==
    ASSUME NEW bound, NEW ws, Tidy(ws, bound)
    PROVE  {ws.id} \cup PanesOf(ws) \cup LeavesOf(ws) \subseteq 0..bound - 1
<1>1. IsList(ws.tabs)
  BY DEF Tidy
<1>2. \A t \in 1..Len(ws.tabs) :
          Leaves(ws.tabs[t].layout) \cup ws.tabs[t].panes \subseteq 0..bound - 1
  BY DEF Tidy, IsTab
<1> QED
  BY <1>1, <1>2, InTabs DEF Tidy

LEMMA FreshIsNew ==
    ASSUME Trees, next_pane_id' \in Nat, next_pane_id <= next_pane_id'
    PROVE  /\ \A p \in Fresh : p >= next_pane_id
           /\ \A w \in 1..Len(workspaces) :
                  ({workspaces[w].id} \cup PanesOf(workspaces[w]) \cup LeavesOf(workspaces[w]))
                      \cap Fresh = {}
<1>1. next_pane_id \in Nat
  BY DEF Trees
<1>2. \A p \in Fresh : p \notin 0..next_pane_id - 1 /\ p >= next_pane_id
  BY <1>1 DEF Fresh
<1>3. \A w \in 1..Len(workspaces) :
          {workspaces[w].id} \cup PanesOf(workspaces[w]) \cup LeavesOf(workspaces[w])
              \subseteq 0..next_pane_id - 1
  BY Below DEF Trees
<1> QED
  BY <1>2, <1>3

LEMMA MovedApart ==
    ASSUME Trees, NEW was, NEW at, Moved(was, at),
           NEW v \in 1..Len(workspaces'), NEW w \in 1..Len(workspaces'), v # w, w # at
    PROVE  Separate(workspaces'[v], workspaces'[w])
<1> DEFINE b == workspaces[was[w]]
           x == workspaces'[v]
           y == workspaces'[w]
<1>1. /\ was[w] \in 1..Len(workspaces) /\ was[v] # was[w]
      /\ y.id = b.id /\ PanesOf(y) \subseteq PanesOf(b) /\ LeavesOf(y) \subseteq LeavesOf(b)
  BY DEF Moved, Becomes
<1>2. ({b.id} \cup PanesOf(b) \cup LeavesOf(b)) \cap Fresh = {}
  BY <1>1, FreshIsNew DEF Moved
<1>3. CASE was[v] = 0 /\ Newcomer(x)
  <2>1. {x.id} \cup PanesOf(x) \cup LeavesOf(x) \subseteq Fresh
    BY <1>3 DEF Newcomer
  <2> HIDE DEF b, x, y
  <2> QED
    BY <1>1, <1>2, <2>1 DEF Separate, x, y
<1>4. CASE /\ was[v] \in 1..Len(workspaces)
           /\ \E gained \in {{}, Fresh} : Becomes(workspaces[was[v]], x, gained)
  <2> DEFINE a == workspaces[was[v]]
  <2>1. Separate(a, b)
    BY <1>1, <1>4 DEF Trees
  <2>2. /\ x.id = a.id /\ PanesOf(x) \subseteq PanesOf(a) \cup Fresh
        /\ LeavesOf(x) \subseteq LeavesOf(a) \cup Fresh
    BY <1>4 DEF Becomes
  <2> HIDE DEF a, b, x, y
  <2> QED
    BY <1>1, <1>2, <2>1, <2>2 DEF Separate, x, y
<1> QED
  BY <1>3, <1>4 DEF Moved

LEMMA MovesKeepTrees ==
    ASSUME Trees, Moves
    PROVE  Trees'
<1>1. PICK was, at : Moved(was, at)
  BY DEF Moves
<1>2. \A w \in 1..Len(workspaces') : Tidy(workspaces'[w], next_pane_id')
  BY <1>1 DEF Moved, Newcomer, Becomes
<1>3. ASSUME NEW v \in 1..Len(workspaces'), NEW w \in 1..Len(workspaces'), v # w
      PROVE  Separate(workspaces'[v], workspaces'[w])
  <2>1. CASE w # at
    BY <1>1, <1>3, <2>1, MovedApart
  <2>2. CASE v # at
    <3>1. Separate(workspaces'[w], workspaces'[v])
      BY <1>1, <1>3, <2>2, MovedApart
    <3> QED
      BY <3>1 DEF Separate
  <2> QED
    BY <1>3, <2>1, <2>2
<1> QED
  BY <1>1, <1>2, <1>3 DEF Trees, Moved

LEMMA MovesKeepPlaces ==
    ASSUME Moves, Pointing, status' \in {"running", "quit", "panicked"},
           status = "running"
    PROVE  Pointing' /\ (AllAtHome => MissedMerge \/ AllAtHome')
<1>1. PICK was, at : Moved(was, at)
  BY DEF Moves
<1>2. ASSUME NEW w \in 1..Len(workspaces')
      PROVE  /\ status' = "panicked" \/ Pointed(workspaces'[w])
             /\ AllAtHome => MissedMerge \/ AllHomed(workspaces'[w])
  BY <1>1 DEF Moved, Newcomer, Becomes, Pointing, AllAtHome
<1> QED
  BY <1>2 DEF Pointing, AllAtHome

\* No pane changes its workspace.
LEMMA MovesKeepPanes ==
    ASSUME Trees, Moves, NEW w \in 1..Len(workspaces), NEW v \in 1..Len(workspaces')
    PROVE  LET old == PanesOf(workspaces[w])
               new == PanesOf(workspaces'[v])
           IN /\ workspaces[w].id # workspaces'[v].id => old \cap new = {}
              /\ workspaces[w].id = workspaces'[v].id =>
                     \A p \in new \ old : p >= next_pane_id
<1> DEFINE a == workspaces[w]
           x == workspaces'[v]
<1>1. PICK was, at : Moved(was, at)
  BY DEF Moves
<1>2. /\ ({a.id} \cup PanesOf(a)) \cap Fresh = {} /\ \A p \in Fresh : p >= next_pane_id
  BY <1>1, FreshIsNew DEF Moved
<1>3. CASE Newcomer(x)
  <2>1. {x.id} \cup PanesOf(x) \subseteq Fresh
    BY <1>3 DEF Newcomer
  <2> HIDE DEF a, x
  <2> QED
    BY <1>2, <2>1 DEF a, x
<1>4. CASE /\ was[v] \in 1..Len(workspaces)
           /\ \E gained \in {{}, Fresh} : Becomes(workspaces[was[v]], x, gained)
  <2> DEFINE b == workspaces[was[v]]
  <2>1. was[v] # w => Separate(a, b)
    BY <1>4 DEF Trees
  <2>2. x.id = b.id /\ PanesOf(x) \subseteq PanesOf(b) \cup Fresh
    BY <1>4 DEF Becomes
  <2>3. was[v] = w => a = b
    OBVIOUS
  <2> HIDE DEF a, b, x
  <2> QED
    BY <1>2, <2>1, <2>2, <2>3 DEF Separate, a, x
<1> QED
  BY <1>1, <1>3, <1>4 DEF Moved

-----------------------------------------------------------------------------
(* What the actions do to the list.                                        *)

Onward == next_pane_id' \in Nat /\ next_pane_id <= next_pane_id'

LEMMA SameAgain ==
    ASSUME Trees, Onward, NEW w \in 1..Len(workspaces), NEW gained
    PROVE  Becomes(workspaces[w], workspaces[w], gained)
<1>1. Tidy(workspaces[w], next_pane_id')
  BY Widened DEF Trees, Onward
<1> QED
  BY <1>1 DEF Becomes

LEMMA EditMoves ==
    ASSUME IInv, Trees, Onward, NEW w \in 1..Len(workspaces), NEW x,
           workspaces' = [workspaces EXCEPT ![w] = x], Becomes(workspaces[w], x, Fresh)
    PROVE  Moves
<1> DEFINE n == Len(workspaces)
           was == [v \in 1..n |-> v]
<1>1. StayPut
  BY SetStays DEF Becomes, Tidy
<1>2. /\ Len(workspaces') = n /\ n \in Nat /\ DOMAIN workspaces = 1..n
      /\ \A v \in 1..n : workspaces'[v] = IF v = w THEN x ELSE workspaces[v]
  BY <1>1, InPlace DEF StayPut
<1>3. \A v \in 1..n : was[v] = v
  OBVIOUS
<1> HIDE DEF was
<1>4. ASSUME NEW v \in 1..n
      PROVE  Becomes(workspaces[was[v]], workspaces'[v], IF v = w THEN Fresh ELSE {})
  <2>1. CASE v = w
    BY <1>2, <1>3, <2>1
  <2>2. CASE v # w
    <3>1. Becomes(workspaces[v], workspaces[v], {})
      BY SameAgain
    <3> QED
      BY <1>2, <1>3, <2>2, <3>1
  <2> QED
    BY <2>1, <2>2
<1>5. Moved(was, w)
  BY <1>2, <1>3, <1>4 DEF Moved, Onward
<1> QED
  BY <1>5 DEF Moves

LEMMA StillMoves ==
    ASSUME IInv, Trees, Onward, workspaces' = workspaces
    PROVE  Moves
<1>1. active_workspace \in 1..Len(workspaces) /\ DOMAIN workspaces = 1..Len(workspaces)
  BY InPlace
<1>2. workspaces' = [workspaces EXCEPT ![active_workspace] = workspaces[active_workspace]]
  <2>1. workspaces = [w \in 1..Len(workspaces) |-> workspaces[w]]
    BY DEF IInv, Positions, AreWorkspaces, IsList
  <2> QED
    BY <1>1, <2>1
<1> QED
  BY <1>1, <1>2, SameAgain, EditMoves

LEMMA RemovalMoves ==
    ASSUME IInv, Trees, Onward, NEW w \in 1..Len(workspaces),
           workspaces' = RemoveAt(workspaces, w)
    PROVE  Moves
<1> DEFINE n == Len(workspaces)
           was == [v \in 1..n - 1 |-> IF v < w THEN v ELSE v + 1]
<1>1. /\ n \in Nat /\ IsList(workspaces)
      /\ Len(workspaces') = n - 1
      /\ \A v \in 1..n - 1 :
             workspaces'[v] = IF v < w THEN workspaces[v] ELSE workspaces[v + 1]
  BY InPlace, Shorter DEF IInv, Positions, AreWorkspaces
<1>2. \A v \in 1..n - 1 : was[v] = IF v < w THEN v ELSE v + 1
  OBVIOUS
<1> HIDE DEF was
<1>3. ASSUME NEW v \in 1..n - 1
      PROVE  /\ was[v] \in 1..n
             /\ workspaces'[v] = workspaces[was[v]]
             /\ v # n
  BY <1>1, <1>2
<1>4. \A v \in 1..n - 1 : Becomes(workspaces[was[v]], workspaces'[v], {})
  BY <1>3, SameAgain
<1>5. \A u, v \in 1..n - 1 : was[u] = was[v] => u = v
  BY <1>1, <1>2
<1>6. Moved(was, n)
  BY <1>1, <1>3, <1>4, <1>5 DEF Moved, Onward
<1> QED
  BY <1>6 DEF Moves

LEMMA NewcomerMoves ==
    ASSUME IInv, Trees, Onward, NEW x, workspaces' = Append(workspaces, x), Newcomer(x)
    PROVE  Moves
<1> DEFINE n == Len(workspaces)
           was == [v \in 1..n + 1 |-> IF v = n + 1 THEN 0 ELSE v]
<1>1. /\ n \in Nat /\ Len(workspaces') = n + 1 /\ workspaces'[n + 1] = x
      /\ \A v \in 1..n : workspaces'[v] = workspaces[v]
  BY InPlace, Longer DEF IInv, Positions, AreWorkspaces
<1>2. \A v \in 1..n + 1 : was[v] = IF v = n + 1 THEN 0 ELSE v
  OBVIOUS
<1> HIDE DEF was
<1>3. ASSUME NEW v \in 1..n + 1, v # n + 1
      PROVE  was[v] \in 1..n /\ was[v] = v /\ workspaces'[v] = workspaces[v]
  BY <1>1, <1>2, <1>3
<1>4. \A v \in 1..n + 1 : v # n + 1 => Becomes(workspaces[was[v]], workspaces'[v], {})
  BY <1>3, SameAgain
<1>5. \A u, v \in 1..n + 1 : was[u] = was[v] => u = v
  BY <1>1, <1>2
<1>6. n + 1 \in 1..n + 1 /\ was[n + 1] = 0
  BY <1>1, <1>2
<1>7. Moved(was, n + 1)
  <2>1. ASSUME NEW v \in 1..n + 1
        PROVE  \/ v = n + 1 /\ was[v] = 0 /\ Newcomer(workspaces'[v])
               \/ /\ was[v] \in 1..n
                  /\ Becomes(workspaces[was[v]], workspaces'[v],
                             IF v = n + 1 THEN Fresh ELSE {})
    BY <1>1, <1>3, <1>4, <1>6
  <2> QED
    BY <1>1, <1>5, <2>1 DEF Moved, Onward
<1> QED
  BY <1>7 DEF Moves

\* The active tab is there, and its tree.
LEMMA Here ==
    ASSUME IInv, Trees, Pointing, status = "running"
    PROVE  /\ active_workspace \in 1..Len(workspaces)
           /\ Tidy(active_ws, next_pane_id) /\ Pointed(active_ws)
           /\ active_ws = workspaces[active_workspace]
           /\ active_ws.active_tab \in 1..Len(active_ws.tabs)
           /\ active_tab = active_ws.tabs[active_ws.active_tab]
           /\ IsTab(active_tab, next_pane_id)
           /\ next_pane_id \in Nat
<1>1. active_workspace \in 1..Len(workspaces)
  BY InPlace
<1> QED
  BY <1>1 DEF Trees, Pointing, Pointed, Tidy, active_ws, active_tab

LEMMA ListEdited ==
    ASSUME NEW ws, IsWorkspace(ws), IsList(ws.tabs), NEW t \in 1..Len(ws.tabs), NEW tab
    PROVE  Swapped(ws, t, tab, [ws EXCEPT !.tabs[t] = tab])
<1> DEFINE x == [ws EXCEPT !.tabs[t] = tab]
           y == x.tabs
<1>1. IsWorkspace(x) /\ x.id = ws.id /\ y = [ws.tabs EXCEPT ![t] = tab]
  BY DEF IsWorkspace
<1>2. Len(ws.tabs) \in Nat /\ DOMAIN ws.tabs = 1..Len(ws.tabs)
  BY ListsAreSequences
<1> HIDE DEF y
<1>3. y = [u \in 1..Len(ws.tabs) |-> IF u = t THEN tab ELSE ws.tabs[u]]
  BY <1>1, <1>2
<1>4. Len(y) = Len(ws.tabs)
  BY <1>2, <1>3
<1>5. IsList(y) /\ \A u \in 1..Len(ws.tabs) : y[u] = IF u = t THEN tab ELSE ws.tabs[u]
  BY <1>3, <1>4 DEF IsList
<1> HIDE DEF x
<1>6. Swapped(ws, t, tab, x)
  BY <1>1, <1>4, <1>5 DEF Swapped, y
<1> QED
  BY <1>6 DEF x

LEMMA TabGainsThenAll ==
    ASSUME NEW a \in Nat, NEW b \in Nat, a <= b, NEW ws, Tidy(ws, a),
           NEW t \in 1..Len(ws.tabs), NEW gained, Lacks(ws, gained),
           NEW tab, TabGains(ws.tabs[t], tab, gained, b),
           NEW x, Swapped(ws, t, tab, x), x.active_tab = ws.active_tab
    PROVE  Gains(ws, x, gained, b)
<1>1. Tidy(ws, b) /\ IsList(ws.tabs) /\ IsTab(tab, b)
  BY Widened DEF Tidy, TabGains
<1>2. /\ ws.tabs[t].panes \subseteq PanesOf(ws)
      /\ Leaves(ws.tabs[t].layout) \subseteq LeavesOf(ws)
  BY <1>1, InTabs
<1>3. ASSUME NEW u \in 1..Len(ws.tabs), u # t
      PROVE  Apart(ws.tabs[u], tab)
  <2>1. Apart(ws.tabs[u], ws.tabs[t])
    BY <1>3 DEF Tidy
  <2>2. /\ ws.tabs[u].panes \subseteq PanesOf(ws)
        /\ Leaves(ws.tabs[u].layout) \subseteq LeavesOf(ws)
    BY <1>1, InTabs
  <2> QED
    BY <2>1, <2>2 DEF Apart, TabGains, Lacks
<1>4. /\ Tidy(x, b)
      /\ PanesOf(x) \subseteq PanesOf(ws) \cup tab.panes
      /\ LeavesOf(x) \subseteq LeavesOf(ws) \cup Leaves(tab.layout)
      /\ AllHomed(ws) /\ Homed(tab) => AllHomed(x)
  BY <1>1, <1>3, Refitted
<1>5. AllHomed(ws) => AllHomed(x)
  BY <1>4 DEF AllHomed, TabGains
<1>6. x.id = ws.id /\ (Pointed(ws) => Pointed(x))
  BY DEF Pointed, Swapped
<1> QED
  BY <1>2, <1>4, <1>5, <1>6 DEF Gains, TabGains

\* One tab of one workspace is given another tree, other panes.
LEMMA TabMoves ==
    ASSUME IInv, Trees, Onward, NEW w \in 1..Len(workspaces),
           NEW t \in 1..Len(workspaces[w].tabs), NEW tab,
           TabGains(workspaces[w].tabs[t], tab, Fresh, next_pane_id'),
           workspaces' = [workspaces EXCEPT ![w].tabs[t] = tab]
    PROVE  Moves
<1> DEFINE ws == workspaces[w]
           x == [ws EXCEPT !.tabs[t] = tab]
<1>1. /\ Tidy(ws, next_pane_id) /\ next_pane_id \in Nat /\ next_pane_id' \in Nat
      /\ next_pane_id <= next_pane_id' /\ IsWorkspace(ws) /\ IsList(ws.tabs)
  BY DEF Trees, Onward, Tidy
<1>2. Lacks(ws, Fresh)
  BY FreshIsNew DEF Onward, Lacks
<1>3. Swapped(ws, t, tab, x)
  BY <1>1, ListEdited
<1>4. workspaces' = [workspaces EXCEPT ![w] = x] /\ x.active_tab = ws.active_tab
  BY <1>1 DEF IsWorkspace
<1> HIDE DEF x
<1>5. Gains(ws, x, Fresh, next_pane_id')
  BY <1>1, <1>2, <1>3, <1>4, TabGainsThenAll
<1>6. Becomes(ws, x, Fresh)
  BY <1>5 DEF Becomes, Gains
<1> QED
  BY <1>4, <1>6, EditMoves

\* One tab's tree changes, but not which panes it has.
LEMMA LayoutMoves ==
    ASSUME IInv, Trees, Pointing, status = "running", UNCHANGED next_pane_id,
           NEW l, IsLayout(l), Leaves(l) = Leaves(active_tab.layout),
           active_tab.layout.focused \in Leaves(l) => l.focused \in Leaves(l),
           SetActiveLayout(l)
    PROVE  Moves
<1> DEFINE tab == [active_tab EXCEPT !.layout = l]
           t == active_ws.active_tab
<1>1. Onward /\ active_workspace \in 1..Len(workspaces) /\ t \in 1..Len(active_ws.tabs)
      /\ IsTab(active_tab, next_pane_id')
  BY Here DEF Onward
<1>2. /\ DOMAIN tab = {"layout", "panes"} /\ tab.layout = l /\ tab.panes = active_tab.panes
  BY <1>1 DEF IsTab
<1>3. workspaces' = [workspaces EXCEPT ![active_workspace].tabs[t] = tab]
  BY DEF SetActiveLayout, SetLayout, active_tab, active_ws
<1> HIDE DEF tab
<1>4. TabGains(active_tab, tab, Fresh, next_pane_id')
  BY <1>1, <1>2 DEF IsTab, Homed, TabGains
<1> QED
  BY <1>1, <1>2, <1>3, <1>4, TabMoves DEF active_tab, active_ws
-----------------------------------------------------------------------------
(* Closing, moving and merging.                                            *)

LEMMA ClosedTab ==
    ASSUME NEW bound, NEW tab, IsTab(tab, bound), NEW p, ~IsWhole(tab.layout, p), NEW gained
    PROVE  TabGains(tab, Tab(CloseLeaf(tab.layout, p), tab.panes \ {p}), gained, bound)
<1> DEFINE new == Tab(CloseLeaf(tab.layout, p), tab.panes \ {p})
<1>1. /\ DOMAIN new = {"layout", "panes"} /\ new.layout = CloseLeaf(tab.layout, p)
      /\ new.panes = tab.panes \ {p}
  BY DEF Tab
<1>2. /\ IsLayout(new.layout) /\ Leaves(new.layout) = Leaves(tab.layout) \ {p}
      /\ tab.layout.focused \in Leaves(tab.layout) => new.layout.focused \in Leaves(tab.layout) \ {p}
  <2> DEFINE l == tab.layout
             m == CloseLeaf(l, p)
  <2>1. IsLayout(l) /\ ~IsWhole(l, p) /\ new.layout = m
    BY <1>1 DEF IsTab
  <2> HIDE DEF l
  <2>2. /\ IsLayout(m) /\ Leaves(m) = Leaves(l) \ {p}
        /\ l.focused \in Leaves(l) => m.focused \in Leaves(l) \ {p}
    BY <2>1, Pruned
  <2> HIDE DEF m, new
  <2> QED
    BY <2>1, <2>2 DEF l
<1> HIDE DEF new
<1>3. IsTab(new, bound) /\ (Homed(tab) => Homed(new))
  BY <1>1, <1>2 DEF IsTab, Homed
<1> QED
  BY <1>1, <1>2, <1>3 DEF TabGains, new

LEMMA TabGone ==
    ASSUME NEW bound, NEW ws, Tidy(ws, bound), NEW t \in 1..Len(ws.tabs), Len(ws.tabs) > 1,
           NEW x, IsWorkspace(x), x.id = ws.id, x.tabs = RemoveAt(ws.tabs, t)
    PROVE  /\ Tidy(x, bound) /\ Len(x.tabs) = Len(ws.tabs) - 1
           /\ PanesOf(x) \subseteq PanesOf(ws) /\ LeavesOf(x) \subseteq LeavesOf(ws)
           /\ AllHomed(ws) => AllHomed(x)
           /\ \A u \in 1..Len(ws.tabs) - 1 :
                  x.tabs[u] = ws.tabs[IF u < t THEN u ELSE u + 1]
<1> DEFINE n == Len(ws.tabs)
           from == [u \in 1..n - 1 |-> IF u < t THEN u ELSE u + 1]
<1>1. IsList(ws.tabs) /\ n \in Nat
  BY InTabs DEF Tidy
<1>2. /\ IsList(x.tabs) /\ Len(x.tabs) = n - 1
      /\ \A u \in 1..n - 1 : x.tabs[u] = IF u < t THEN ws.tabs[u] ELSE ws.tabs[u + 1]
  BY <1>1, Shorter
<1>3. \A u \in 1..n - 1 : from[u] = IF u < t THEN u ELSE u + 1
  OBVIOUS
<1> HIDE DEF from
<1>4. \A u \in 1..n - 1 : from[u] \in 1..n /\ x.tabs[u] = ws.tabs[from[u]]
  BY <1>1, <1>2, <1>3
<1>5. \A u, v \in 1..n - 1 : from[u] = from[v] => u = v
  BY <1>1, <1>3
<1>6. Len(x.tabs) # 0
  <2>1. n - 1 # 0
    <3> HIDE DEF n
    <3>1. n > 1
      BY DEF n
    <3> QED
      BY <1>1, <3>1
  <2> QED
    BY <1>2, <2>1
<1>7. /\ Tidy(x, bound)
      /\ PanesOf(x) \subseteq PanesOf(ws) /\ LeavesOf(x) \subseteq LeavesOf(ws)
      /\ AllHomed(ws) => AllHomed(x)
  <2>1. \A u \in 1..Len(x.tabs) :
            from[u] \in 1..Len(ws.tabs) /\ x.tabs[u] = ws.tabs[from[u]]
    BY <1>2, <1>4
  <2>2. \A u, v \in 1..Len(x.tabs) : from[u] = from[v] => u = v
    BY <1>2, <1>5
  <2>3. Picked(ws, x, from)
    BY <1>2, <1>6, <2>1, <2>2 DEF Picked
  <2> QED
    BY <2>3, Rearranged
<1> QED
  BY <1>2, <1>3, <1>4, <1>7

LEMMA GainsBecome ==
    ASSUME IInv, Trees, Onward, NEW w \in 1..Len(workspaces), NEW x,
           Gains(workspaces[w], x, Fresh, next_pane_id'),
           workspaces' = [workspaces EXCEPT ![w] = x]
    PROVE  Moves
<1>1. Becomes(workspaces[w], x, Fresh)
  BY DEF Becomes, Gains
<1> QED
  BY <1>1, EditMoves

Ends == status' \in {"running", "quit", "panicked"}

LEMMA CloseMoves ==
    ASSUME IInv, Trees, Pointing, UNCHANGED next_pane_id, NEW w \in 1..Len(workspaces),
           NEW t \in 1..Len(workspaces[w].tabs), NEW p, ClosePane(w, t, p)
    PROVE  Moves /\ Ends
<1> DEFINE ws == workspaces[w]
           tab == ws.tabs[t]
           kept == Tab(CloseLeaf(tab.layout, p), tab.panes \ {p})
<1>1. /\ Onward /\ Tidy(ws, next_pane_id') /\ IsWorkspace(ws) /\ IsList(ws.tabs)
      /\ IsTab(tab, next_pane_id') /\ DOMAIN tab = {"layout", "panes"}
  BY DEF Onward, Trees, Tidy, IsTab
<1>2. CASE /\ ~IsWhole(tab.layout, p)
           /\ SetWs(w, [ws EXCEPT !.tabs[t] = kept])
           /\ UNCHANGED <<status, active_workspace, routes, infos>>
  <2>1. TabGains(tab, kept, Fresh, next_pane_id')
    BY <1>1, <1>2, ClosedTab
  <2>2. workspaces' = [workspaces EXCEPT ![w].tabs[t] = kept]
    BY <1>2 DEF SetWs
  <2> HIDE DEF kept
  <2> QED
    BY <1>1, <1>2, <2>1, <2>2, TabMoves DEF Ends, Pointing
<1>3. CASE /\ Len(ws.tabs) > 1
           /\ SetWs(w, [ws EXCEPT !.tabs = RemoveAt(@, t),
                                  !.active_tab = Least(@, Len(ws.tabs) - 1)])
           /\ UNCHANGED <<status, active_workspace, routes, infos>>
  <2> DEFINE x == [ws EXCEPT !.tabs = RemoveAt(@, t),
                             !.active_tab = Least(@, Len(ws.tabs) - 1)]
  <2>1. /\ IsWorkspace(x) /\ x.id = ws.id /\ x.tabs = RemoveAt(ws.tabs, t)
        /\ x.active_tab = Least(ws.active_tab, Len(ws.tabs) - 1)
    BY <1>1 DEF IsWorkspace
  <2>2. workspaces' = [workspaces EXCEPT ![w] = x]
    BY <1>3 DEF SetWs
  <2> HIDE DEF x
  <2>3. /\ Tidy(x, next_pane_id') /\ Len(x.tabs) = Len(ws.tabs) - 1
        /\ PanesOf(x) \subseteq PanesOf(ws) /\ LeavesOf(x) \subseteq LeavesOf(ws)
        /\ AllHomed(ws) => AllHomed(x)
    BY <1>1, <1>3, <2>1, TabGone
  <2>4. Pointed(ws) => Pointed(x)
    <3>1. Len(ws.tabs) \in Nat
      BY <1>1, InTabs
    <3> QED
      BY <1>3, <2>1, <2>3, <3>1 DEF Pointed, Least
  <2>5. Gains(ws, x, Fresh, next_pane_id')
    BY <2>1, <2>3, <2>4 DEF Gains
  <2> QED
    BY <1>1, <1>3, <2>2, <2>5, GainsBecome DEF Ends, Pointing
<1>4. CASE Len(workspaces) > 1 /\ RemoveWorkspace(w)
  BY <1>1, <1>4, RemovalMoves DEF RemoveWorkspace, Ends, Pointing
<1>5. CASE /\ status' = "quit"
           /\ workspaces' = [workspaces EXCEPT ![w].tabs[t].panes = @ \ {p}]
  <2> DEFINE new == [tab EXCEPT !.panes = tab.panes \ {p}]
  <2>1. /\ DOMAIN new = {"layout", "panes"} /\ new.layout = tab.layout
        /\ new.panes = tab.panes \ {p}
    BY <1>1
  <2>2. workspaces' = [workspaces EXCEPT ![w].tabs[t] = new]
    BY <1>5
  <2> HIDE DEF new
  <2>3. TabGains(tab, new, Fresh, next_pane_id')
    BY <1>1, <2>1 DEF TabGains, IsTab, Homed
  <2> QED
    BY <1>1, <1>5, <2>2, <2>3, TabMoves DEF Ends
<1> QED
  BY <1>2, <1>3, <1>4, <1>5 DEF ClosePane

LEMMA CloseFocusedMoves ==
    ASSUME IInv, Trees, Pointing, status = "running", UNCHANGED next_pane_id,
           \/ CloseFocusedPane
           \/ UNCHANGED <<status, workspaces, active_workspace, routes, infos>>
    PROVE  Moves /\ Ends
<1>1. CASE CloseFocusedPane
  BY <1>1, Here, CloseMoves DEF CloseFocusedPane
<1>2. CASE UNCHANGED <<status, workspaces, active_workspace, routes, infos>>
  <2>1. Onward
    BY DEF Onward, Trees
  <2> QED
    BY <1>2, <2>1, StillMoves DEF Ends, Pointing
<1> QED
  BY <1>1, <1>2

\* A pane that gets a tab of its own leaves the one it was in.
LEMMA OwnTabMoves ==
    ASSUME IInv, Trees, Pointing, status = "running", UNCHANGED next_pane_id,
           NEW p, MoveToOwnTab(p)
    PROVE  Moves
<1> DEFINE layout == active_tab.layout
           t == active_ws.active_tab
           kept == Tab(CloseLeaf(layout, p), active_tab.panes \ {p})
           left == [active_ws EXCEPT !.tabs[t] = kept]
           own == NewTabFor(p)
           b == next_pane_id'
<1>1. /\ Onward /\ active_workspace \in 1..Len(workspaces)
      /\ Tidy(active_ws, b) /\ IsWorkspace(active_ws) /\ IsList(active_ws.tabs)
      /\ t \in 1..Len(active_ws.tabs) /\ active_tab = active_ws.tabs[t]
      /\ active_ws = workspaces[active_workspace]
      /\ IsTab(active_tab, b) /\ b \in Nat /\ IsLayout(layout)
  BY Here DEF Onward, Tidy, IsTab
<1>2. CASE UNCHANGED workspaces
  BY <1>1, <1>2, StillMoves
<1>3. ASSUME Extractable(layout, p)
      PROVE  /\ Swapped(active_ws, t, kept, left) /\ left.active_tab = active_ws.active_tab
             /\ TabGains(active_tab, kept, {}, b)
             /\ p \notin Leaves(kept.layout) /\ p \notin kept.panes
             /\ Gains(active_ws, left, {}, b)
  <2>1. ~IsWhole(layout, p) /\ p \in Leaves(layout)
    <3>1. Len(<<p>>) = 1
      OBVIOUS
    <3>2. p \in Leaves(layout) /\ Len(layout.panes) > 1
      BY <1>3 DEF Extractable
    <3>3. ASSUME layout.panes = <<p>>
          PROVE  FALSE
      <4>1. Len(layout.panes) = 1
        BY <3>1, <3>3
      <4> QED
        BY <3>2, <4>1
    <3> QED
      BY <3>2, <3>3 DEF IsWhole
  <2>2. TabGains(active_tab, kept, {}, b)
    BY <1>1, <2>1, ClosedTab
  <2>3. p \notin Leaves(kept.layout) /\ p \notin kept.panes
    BY <1>1, <2>1, Pruned, TabFields
  <2>4. left.active_tab = active_ws.active_tab
    BY <1>1 DEF IsWorkspace
  <2>5. Swapped(active_ws, t, kept, left)
    BY <1>1, ListEdited
  <2>6. Lacks(active_ws, {})
    BY DEF Lacks
  <2> HIDE DEF left, kept
  <2>7. Gains(active_ws, left, {}, b)
    BY <1>1, <2>2, <2>4, <2>5, <2>6, TabGainsThenAll
  <2> QED
    BY <2>2, <2>3, <2>4, <2>5, <2>7
<1>4. CASE Extractable(layout, p) /\ SetWs(active_workspace, left)
  <2>1. Gains(active_ws, left, Fresh, b)
    BY <1>3, <1>4 DEF Gains
  <2>2. workspaces' = [workspaces EXCEPT ![active_workspace] = left]
    BY <1>4 DEF SetWs
  <2> HIDE DEF left
  <2> QED
    BY <1>1, <2>1, <2>2, GainsBecome
<1>5. CASE /\ Extractable(layout, p) /\ p \in active_tab.panes
           /\ SetWs(active_workspace, PushTab(left, own))
  <2>1. p \in Leaves(layout) /\ p \in active_tab.panes /\ p \in Nat /\ p < b
    BY <1>1, <1>5 DEF Extractable, IsTab
  <2>2. /\ IsTab(own, b) /\ Homed(own) /\ own.panes = {p} /\ Leaves(own.layout) = {p}
    BY <1>1, <2>1, NewTabs
  <2>3. workspaces' = [workspaces EXCEPT ![active_workspace] = PushTab(left, own)]
    BY <1>5 DEF SetWs
  <2>4. /\ Swapped(active_ws, t, kept, left)
        /\ p \notin Leaves(kept.layout) /\ p \notin kept.panes
        /\ Gains(active_ws, left, {}, b)
    BY <1>3, <1>5
  <2> HIDE DEF left, kept, own
  <2>5. ASSUME NEW u \in 1..Len(left.tabs)
        PROVE  Apart(left.tabs[u], own)
    <3>1. u \in 1..Len(active_ws.tabs)
      BY <2>4 DEF Swapped
    <3>2. CASE u = t
      <4>1. left.tabs[u] = kept
        BY <2>4, <3>1, <3>2 DEF Swapped
      <4> QED
        BY <2>2, <2>4, <4>1 DEF Apart
    <3>3. CASE u # t
      <4>1. left.tabs[u] = active_ws.tabs[u]
        BY <2>4, <3>1, <3>3 DEF Swapped
      <4>2. Apart(active_ws.tabs[u], active_tab)
        BY <1>1, <3>1, <3>3 DEF Tidy
      <4> QED
        BY <2>1, <2>2, <4>1, <4>2 DEF Apart
    <3> QED
      BY <3>2, <3>3
  <2>6. /\ Tidy(PushTab(left, own), b) /\ Pointed(PushTab(left, own))
        /\ PanesOf(PushTab(left, own)) \subseteq PanesOf(left) \cup own.panes
        /\ LeavesOf(PushTab(left, own)) \subseteq LeavesOf(left) \cup Leaves(own.layout)
        /\ AllHomed(left) /\ Homed(own) => AllHomed(PushTab(left, own))
    BY <2>2, <2>4, <2>5, Pushed DEF Gains
  <2>7. p \in PanesOf(active_ws) /\ p \in LeavesOf(active_ws)
    BY <1>1, <2>1, InTabs
  <2>8. PushTab(left, own).id = active_ws.id
    BY <2>4 DEF PushTab, Gains, Tidy, IsWorkspace
  <2>9. Gains(active_ws, PushTab(left, own), Fresh, b)
    BY <2>2, <2>4, <2>6, <2>7, <2>8 DEF Gains
  <2> QED
    BY <1>1, <2>3, <2>9, GainsBecome
<1> QED
  BY <1>2, <1>4, <1>5 DEF MoveToOwnTab

\* The tab that takes another's panes in, next to the target if it has it.
MergeInto(base, moved, target, first) ==
    Tab(FocusLeaf(InsertLeaves(base.layout, target, moved.layout.panes, first),
                  Head(moved.layout.panes)),
        base.panes \cup moved.panes)

Joined(base, moved, target, new, bound) ==
    /\ IsTab(new, bound) /\ new.panes = base.panes \cup moved.panes
    /\ Leaves(new.layout) = IF target \in Leaves(base.layout)
                            THEN Leaves(base.layout) \cup Leaves(moved.layout)
                            ELSE Leaves(base.layout)
    /\ target \in Leaves(base.layout) /\ Homed(base) /\ Homed(moved) => Homed(new)

LEMMA MergedTab ==
    ASSUME NEW bound, NEW base, NEW moved, IsTab(base, bound), IsTab(moved, bound),
           Apart(base, moved), NEW target, NEW first
    PROVE  Joined(base, moved, target, MergeInto(base, moved, target, first), bound)
<1> DEFINE new == MergeInto(base, moved, target, first)
           l == base.layout
           order == moved.layout.panes
           placed == InsertLeaves(l, target, order, first)
           h == Head(order)
<1>1. /\ IsLayout(l) /\ order \in Seq(Nat) /\ order # <<>> /\ Distinct(order)
      /\ Leaves(moved.layout) = {order[i] : i \in 1..Len(order)}
      /\ Len(order) \in Nat \ {0}
  <2>1. IsLayout(l) /\ IsLayout(moved.layout)
    BY DEF IsTab
  <2>2. order # <<>> /\ Distinct(order)
    BY <2>1 DEF IsLayout
  <2> QED
    BY <2>1, <2>2, Tree
<1>2. \A i \in 1..Len(order) : order[i] \notin Leaves(l)
  BY <1>1 DEF Apart
<1>3. /\ DOMAIN new = {"layout", "panes"} /\ new.layout = FocusLeaf(placed, h)
      /\ new.panes = base.panes \cup moved.panes
  BY TabFields DEF MergeInto
<1>4. h \in Leaves(moved.layout)
  <2>1. h = order[1] /\ 1 \in 1..Len(order)
    <3>1. h = order[1]
      BY <1>1
    <3>2. 1 \in 1..Len(order)
      BY <1>1
    <3> QED
      BY <3>1, <3>2
  <2> QED
    BY <1>1, <2>1
<1> HIDE DEF l, order, h
<1>5. /\ IsLayout(placed)
      /\ Leaves(placed) = IF target \in Leaves(l)
                          THEN Leaves(l) \cup {order[i] : i \in 1..Len(order)} ELSE Leaves(l)
  BY <1>1, <1>2, AllGrafted
<1> HIDE DEF placed, new
<1>6. /\ IsLayout(new.layout) /\ Leaves(new.layout) = Leaves(placed)
      /\ h \in Leaves(placed) => new.layout.focused = h
  <2> DEFINE m == FocusLeaf(placed, h)
  <2>1. /\ IsLayout(m) /\ Leaves(m) = Leaves(placed)
        /\ h \in Leaves(placed) => m.focused = h
    BY <1>5, Focused
  <2> HIDE DEF m
  <2>2. new.layout = m
    BY <1>3 DEF m
  <2> QED
    BY <2>1, <2>2
<1>7. IsTab(new, bound)
  <2>1. /\ Leaves(l) \cup base.panes \subseteq 0..bound - 1
        /\ Leaves(moved.layout) \cup moved.panes \subseteq 0..bound - 1
    BY DEF IsTab, l
  <2> QED
    BY <1>1, <1>3, <1>5, <1>6, <2>1 DEF IsTab
<1>8. ASSUME target \in Leaves(l), Homed(base), Homed(moved)
      PROVE  Homed(new)
  <2>1. base.panes \subseteq Leaves(l) /\ moved.panes \subseteq Leaves(moved.layout)
    BY <1>8 DEF Homed, l
  <2>2. Leaves(new.layout) = Leaves(l) \cup Leaves(moved.layout)
    BY <1>1, <1>5, <1>6, <1>8
  <2>3. new.layout.focused = h
    BY <1>1, <1>4, <1>5, <1>6, <1>8
  <2> QED
    BY <1>3, <1>4, <2>1, <2>2, <2>3 DEF Homed
<1> QED
  BY <1>1, <1>3, <1>5, <1>6, <1>7, <1>8 DEF l, new, Joined

LEMMA MergeMoves ==
    ASSUME IInv, Trees, Pointing, status = "running",
           UNCHANGED <<next_pane_id, active_workspace>>,
           NEW tab, NEW target, NEW first, MergeTab(tab, target, first),
           confirm.move # None, confirm.move.kind = "tab", confirm'.move = None,
           confirm.move.target = target
    PROVE  Moves
<1> DEFINE ws == active_ws
           n == Len(ws.tabs)
           moved == ws.tabs[tab]
           rest == RemoveAt(ws.tabs, tab)
           at == ShiftedTab(ws, tab)
           fin == MergeInto(rest[at], moved, target, first)
           mid == [ws EXCEPT !.tabs = rest, !.active_tab = at]
           x == [ws EXCEPT !.tabs = [rest EXCEPT ![at] = fin], !.active_tab = at]
           b == next_pane_id'
<1>1. /\ Onward /\ active_workspace \in 1..Len(workspaces)
      /\ Tidy(ws, b) /\ IsWorkspace(ws) /\ IsList(ws.tabs)
      /\ ws = workspaces[active_workspace] /\ b \in Nat
      /\ ws.active_tab \in 1..n /\ n \in Nat /\ DOMAIN ws.tabs = 1..n
  BY Here, InTabs DEF Onward, Tidy
<1>2. CASE UNCHANGED workspaces
  BY <1>1, <1>2, StillMoves
<1>3. CASE /\ tab \in 1..n /\ n # 1
           /\ SetWs(active_workspace, x)
  <2>1. n > 1
    <3> HIDE DEF n
    <3> QED
      BY <1>1, <1>3
  <2>2. at \in 1..n - 1
    <3>1. ws.active_tab \in 1..n /\ n > 1 /\ tab \in 1..n /\ n \in Nat
      BY <1>1, <1>3, <2>1
    <3>2. at = IF ws.active_tab > n - 1 THEN n - 1
               ELSE IF ws.active_tab > tab THEN ws.active_tab - 1 ELSE ws.active_tab
      BY DEF ShiftedTab
    <3> HIDE DEF n, at, ws
    <3> QED
      BY <3>1, <3>2
  <2>3. /\ IsWorkspace(mid) /\ mid.id = ws.id /\ mid.tabs = rest /\ mid.active_tab = at
        /\ IsWorkspace(x) /\ x.id = ws.id /\ x.tabs = [rest EXCEPT ![at] = fin]
        /\ x.active_tab = at
    BY <1>1 DEF IsWorkspace
  <2> HIDE DEF x, mid
  <2>4. /\ Tidy(mid, b) /\ Len(mid.tabs) = n - 1
        /\ PanesOf(mid) \subseteq PanesOf(ws) /\ LeavesOf(mid) \subseteq LeavesOf(ws)
        /\ AllHomed(ws) => AllHomed(mid)
        /\ \A u \in 1..n - 1 : mid.tabs[u] = ws.tabs[IF u < tab THEN u ELSE u + 1]
    BY <1>1, <1>3, <2>1, <2>3, TabGone
  <2> DEFINE place(u) == IF u < tab THEN u ELSE u + 1
             base == rest[at]
  <2>5. /\ \A u \in 1..n - 1 : /\ place(u) \in 1..n /\ place(u) # tab
                               /\ mid.tabs[u] = ws.tabs[place(u)]
        /\ \A u, v \in 1..n - 1 : place(u) = place(v) => u = v
    <3> HIDE DEF n
    <3> QED
      BY <1>1, <1>3, <2>4
  <2>6. base = ws.tabs[place(at)] /\ base = mid.tabs[at]
    BY <2>2, <2>3, <2>5
  <2>7. /\ IsTab(base, b) /\ IsTab(moved, b) /\ Apart(base, moved)
        /\ moved.panes \subseteq PanesOf(ws) /\ Leaves(moved.layout) \subseteq LeavesOf(ws)
        /\ base.panes \subseteq PanesOf(ws) /\ Leaves(base.layout) \subseteq LeavesOf(ws)
    BY <1>1, <1>3, <2>2, <2>5, <2>6, InTabs DEF Tidy
  <2>8. /\ IsTab(fin, b) /\ fin.panes = base.panes \cup moved.panes
        /\ Leaves(fin.layout) = IF target \in Leaves(base.layout)
                                THEN Leaves(base.layout) \cup Leaves(moved.layout)
                                ELSE Leaves(base.layout)
        /\ target \in Leaves(base.layout) /\ Homed(base) /\ Homed(moved) => Homed(fin)
    <3> HIDE DEF base, moved, b
    <3>1. Joined(base, moved, target, MergeInto(base, moved, target, first), b)
      BY <2>7, MergedTab
    <3>2. fin = MergeInto(base, moved, target, first)
      BY DEF base
    <3> HIDE DEF fin
    <3> QED
      BY <3>1, <3>2 DEF Joined
  <2> HIDE DEF fin
  <2>9. Swapped(mid, at, fin, x)
    <3>1. IsList(rest) /\ Len(rest) = n - 1
      BY <2>3, <2>4 DEF Tidy
    <3>2. DOMAIN rest = 1..n - 1 /\ n - 1 \in Nat
      BY <3>1, ListsAreSequences
    <3> DEFINE y == x.tabs
    <3>3. y = [rest EXCEPT ![at] = fin]
      BY <2>3
    <3> HIDE DEF y, rest, at, n
    <3>4. y = [u \in 1..n - 1 |-> IF u = at THEN fin ELSE rest[u]]
      BY <3>2, <3>3
    <3>5. Len(y) = n - 1
      BY <3>2, <3>4
    <3>6. IsList(y) /\ \A u \in 1..n - 1 : y[u] = IF u = at THEN fin ELSE rest[u]
      BY <3>2, <3>4, <3>5 DEF IsList
    <3> QED
      BY <2>3, <2>4, <3>5, <3>6 DEF Swapped, y
  <2>10. ASSUME NEW u \in 1..Len(mid.tabs), u # at
         PROVE  Apart(mid.tabs[u], fin)
    <3>1. /\ u \in 1..n - 1 /\ place(u) # tab /\ place(u) # place(at)
          /\ place(u) \in 1..n /\ place(at) \in 1..n
          /\ mid.tabs[u] = ws.tabs[place(u)]
      BY <2>2, <2>4, <2>5, <2>10
    <3>2. Apart(ws.tabs[place(u)], base) /\ Apart(ws.tabs[place(u)], moved)
      BY <1>1, <1>3, <2>6, <3>1 DEF Tidy
    <3> HIDE DEF place, base, moved
    <3> QED
      BY <2>8, <3>1, <3>2 DEF Apart
  <2>11. /\ Tidy(x, b)
         /\ PanesOf(x) \subseteq PanesOf(mid) \cup fin.panes
         /\ LeavesOf(x) \subseteq LeavesOf(mid) \cup Leaves(fin.layout)
         /\ AllHomed(mid) /\ Homed(fin) => AllHomed(x)
    <3>1. at \in 1..Len(mid.tabs)
      BY <2>2, <2>4
    <3> HIDE DEF at
    <3> QED
      BY <2>4, <2>8, <2>9, <2>10, <3>1, Refitted
  <2>12. Pointed(x)
    BY <2>2, <2>3, <2>4, <2>9 DEF Pointed, Swapped
  <2>13. workspaces' = [workspaces EXCEPT ![active_workspace] = x]
    BY <1>3 DEF SetWs
  <2>14. CASE target \in Leaves(base.layout)
    <3>1. AllHomed(ws) => Homed(base) /\ Homed(moved)
      BY <1>3, <2>2, <2>5, <2>6 DEF AllHomed
    <3>2. AllHomed(ws) => AllHomed(x)
      BY <2>4, <2>8, <2>11, <2>14, <3>1
    <3> HIDE DEF base, moved, at, ws, n, b
    <3>3. Gains(ws, x, Fresh, b)
      BY <2>3, <2>4, <2>7, <2>8, <2>11, <2>12, <3>2 DEF Gains
    <3> QED
      BY <1>1, <2>13, <3>3, GainsBecome DEF ws, b
  <2>15. CASE target \notin Leaves(base.layout)
    <3>1. active_tab' = fin
      <4>1. workspaces'[active_workspace] = x
        BY <1>1, <2>13, InPlace
      <4>2. x.tabs[at] = fin
        BY <2>2, <2>4, <2>9 DEF Swapped
      <4> QED
        BY <2>3, <4>1, <4>2 DEF active_tab, active_ws
    <3>2. MissedMerge
      BY <2>8, <2>15, <3>1 DEF MissedMerge
    <3> HIDE DEF base, moved, at, ws, n, b
    <3>3. Becomes(ws, x, Fresh)
      BY <2>3, <2>4, <2>7, <2>8, <2>11, <2>12, <3>2 DEF Becomes, b
    <3> QED
      BY <1>1, <2>13, <3>3, EditMoves DEF ws
  <2> QED
    BY <2>14, <2>15
<1> QED
  BY <1>1, <1>2, <1>3 DEF MergeTab, MergeInto

LEMMA DragMoves ==
    ASSUME IInv, Trees, Pointing, status = "running", NEW t, DragOverTab(t)
    PROVE  Moves /\ Ends
<1> DEFINE ws == active_ws
           n == Len(ws.tabs)
           from == gesture.tab
           active == ws.active_tab
           rest == RemoveAt(ws.tabs, from)
           to == IF active = from THEN t
                 ELSE IF from < active /\ t >= active THEN active - 1
                 ELSE IF from > active /\ t <= active THEN active + 1
                 ELSE active
           x == [ws EXCEPT !.tabs = InsertAt(rest, t, ws.tabs[from]), !.active_tab = to]
           b == next_pane_id'
<1>1. /\ Onward /\ active_workspace \in 1..Len(workspaces)
      /\ Tidy(ws, b) /\ IsWorkspace(ws) /\ IsList(ws.tabs)
      /\ ws = workspaces[active_workspace] /\ b \in Nat
      /\ active \in 1..n /\ n \in Nat /\ DOMAIN ws.tabs = 1..n
  BY Here, InTabs DEF Onward, Tidy, DragOverTab
<1>2. CASE status' = "panicked" /\ UNCHANGED workspaces
  BY <1>1, <1>2, StillMoves DEF Ends
<1>3. CASE /\ t \in 1..n /\ t # from /\ from \in 1..n
           /\ SetWs(active_workspace, x) /\ UNCHANGED status
  <2>1. /\ IsWorkspace(x) /\ x.id = ws.id /\ x.active_tab = to
        /\ x.tabs = InsertAt(rest, t, ws.tabs[from])
    BY <1>1 DEF IsWorkspace
  <2>2. workspaces' = [workspaces EXCEPT ![active_workspace] = x]
    BY <1>3 DEF SetWs
  <2> HIDE DEF x, b
  <2>3. /\ IsList(rest) /\ Len(rest) = n - 1
        /\ \A u \in 1..n - 1 : rest[u] = IF u < from THEN ws.tabs[u] ELSE ws.tabs[u + 1]
    BY <1>1, <1>3, Shorter
  <2> HIDE DEF rest
  <2>4. /\ IsList(x.tabs) /\ Len(x.tabs) = n
        /\ \A u \in 1..n : x.tabs[u] = IF u < t THEN rest[u]
                                       ELSE IF u = t THEN ws.tabs[from] ELSE rest[u - 1]
    <3>1. (n - 1) + 1 = n
      BY <1>1
    <3> QED
      BY <1>3, <2>1, <2>3, <3>1, Wider
  <2> DEFINE back(u) == IF u < from THEN u ELSE u + 1
             was == [u \in 1..n |-> IF u < t THEN back(u) ELSE IF u = t THEN from
                                    ELSE back(u - 1)]
  <2>5. \A u \in 1..n : was[u] = IF u < t THEN back(u) ELSE IF u = t THEN from
                                 ELSE back(u - 1)
    OBVIOUS
  <2> HIDE DEF was
  <2>6. ASSUME NEW u \in 1..n
        PROVE  was[u] \in 1..n /\ x.tabs[u] = ws.tabs[was[u]]
    <3>1. CASE u < t
      <4>1. u \in 1..n - 1 /\ back(u) \in 1..n
        <5> HIDE DEF n, from
        <5> QED
          BY <1>1, <1>3, <3>1
      <4> QED
        BY <2>3, <2>4, <2>5, <3>1, <4>1
    <3>2. CASE u = t
      <4>1. ~(u < t)
        BY <1>1, <3>2
      <4> QED
        BY <1>3, <2>4, <2>5, <3>2, <4>1
    <3>3. CASE u > t
      <4>1. u - 1 \in 1..n - 1 /\ back(u - 1) \in 1..n /\ ~(u < t) /\ u # t
            /\ (u - 1) + 1 = u
        <5> HIDE DEF n, from
        <5> QED
          BY <1>1, <1>3, <3>3
      <4> QED
        BY <2>3, <2>4, <2>5, <4>1
    <3>4. u < t \/ u = t \/ u > t
      <4>1. u \in Int /\ t \in Int
        BY <1>1, <1>3
      <4> QED
        BY <4>1
    <3> QED
      BY <3>1, <3>2, <3>3, <3>4
  <2>7. \A u, v \in 1..n : was[u] = was[v] => u = v
    <3> HIDE DEF n, from
    <3> QED
      BY <1>1, <1>3, <2>5
  <2>8. n # 0
    <3> HIDE DEF n
    <3> QED
      BY <1>1
  <2>9. Picked(ws, x, was)
    BY <2>1, <2>4, <2>6, <2>7, <2>8 DEF Picked
  <2>10. Pointed(x)
    <3>1. to \in 1..n
      <4> HIDE DEF n, from, active
      <4> QED
        BY <1>1, <1>3
    <3> QED
      BY <2>1, <2>4, <3>1 DEF Pointed
  <2>11. Gains(ws, x, Fresh, b)
    BY <1>1, <2>1, <2>9, <2>10, Rearranged DEF Gains
  <2> QED
    BY <1>1, <1>3, <2>2, <2>11, GainsBecome DEF Ends, b
<1>4. (status' = "panicked" /\ UNCHANGED workspaces) \/ <1>3!1
  BY <1>1 DEF DragOverTab
<1> QED
  BY <1>2, <1>3, <1>4

\* The new pane is in the tree if the focus was, and only then gets a shell.
LEMMA SplitMoves ==
    ASSUME IInv, Trees, Pointing, status = "running",
           NEW made \in BOOLEAN, NEW dispatched \in BOOLEAN, SplitPane(made, dispatched)
    PROVE  Moves
<1> DEFINE p == next_pane_id
           t == active_ws.active_tab
           l == active_tab.layout
           split == SplitLeaf(l, focused_id, p)
           more == IF made /\ p \in Visible(split) THEN {p} ELSE {}
           new == Tab(split, active_tab.panes \cup more)
<1>1. /\ active_workspace \in 1..Len(workspaces)
      /\ t \in 1..Len(active_ws.tabs) /\ active_tab = active_ws.tabs[t]
      /\ active_ws = workspaces[active_workspace]
      /\ IsTab(active_tab, p) /\ p \in Nat /\ next_pane_id' = p + 1
  BY Here DEF SplitPane
<1>2. Onward /\ Fresh = {p}
  BY <1>1 DEF Onward, Fresh
<1>3. IsLayout(l) /\ p \notin Leaves(l) /\ Leaves(l) \cup active_tab.panes \subseteq 0..p - 1
  BY <1>1 DEF IsTab
<1>4. /\ IsLayout(split) /\ split.focused = p /\ ~split.zoomed
      /\ Leaves(split) = IF focused_id \in Leaves(l) THEN Leaves(l) \cup {p} ELSE Leaves(l)
  <2> DEFINE m == InsertLeaf(l, focused_id, p, FALSE)
  <2>1. /\ IsLayout(m) /\ m.focused = p /\ ~m.zoomed
        /\ Leaves(m) = IF focused_id \in Leaves(l) THEN Leaves(l) \cup {p} ELSE Leaves(l)
    <3>1. Bears(m, l, focused_id, p)
      BY <1>1, <1>3, Grafted
    <3> QED
      BY <3>1 DEF Bears
  <2> QED
    BY <2>1 DEF SplitLeaf
<1>5. workspaces' = [workspaces EXCEPT ![active_workspace].tabs[t] = new]
  BY DEF SplitPane
<1>6. /\ DOMAIN new = {"layout", "panes"} /\ new.layout = split
      /\ new.panes = active_tab.panes \cup more
  BY TabFields
<1> HIDE DEF new, split
<1>7. IsTab(new, next_pane_id')
  <2>1. 0..p - 1 \subseteq 0..(p + 1) - 1 /\ p \in 0..(p + 1) - 1
    BY <1>1
  <2> QED
    BY <1>1, <1>3, <1>4, <1>6, <2>1 DEF IsTab
<1>8. ASSUME Homed(active_tab)
      PROVE  Homed(new)
  <2>1. focused_id \in Leaves(l)
    BY <1>8 DEF Homed, focused_id
  <2> QED
    BY <1>4, <1>6, <1>8, <2>1 DEF Homed
<1>9. TabGains(active_tab, new, Fresh, next_pane_id')
  BY <1>2, <1>4, <1>6, <1>7, <1>8 DEF TabGains
<1> QED
  BY <1>1, <1>2, <1>5, <1>9, TabMoves

LEMMA FreshTab ==
    ASSUME Trees, next_pane_id' = next_pane_id + 1
    PROVE  LET own == NewTabFor(next_pane_id)
           IN /\ Onward /\ Fresh = {next_pane_id}
              /\ IsTab(own, next_pane_id') /\ Homed(own) /\ own.panes = {next_pane_id}
              /\ Leaves(own.layout) = {next_pane_id}
<1>1. next_pane_id \in Nat /\ next_pane_id' \in Nat /\ next_pane_id < next_pane_id'
  BY DEF Trees
<1>2. Onward /\ Fresh = {next_pane_id}
  BY <1>1 DEF Onward, Fresh
<1> QED
  BY <1>1, <1>2, NewTabs

LEMMA NewTabMoves ==
    ASSUME IInv, Trees, Pointing, status = "running",
           NEW made \in BOOLEAN, NEW dispatched \in BOOLEAN, NewTab(made, dispatched)
    PROVE  Moves
<1> DEFINE p == next_pane_id
           own == NewTabFor(p)
           x == PushTab(active_ws, own)
           b == next_pane_id'
<1>1. /\ active_workspace \in 1..Len(workspaces)
      /\ Tidy(active_ws, p) /\ IsList(active_ws.tabs)
      /\ active_ws = workspaces[active_workspace] /\ p \in Nat /\ b = p + 1
  BY Here DEF NewTab, Tidy
<1>2. /\ Onward /\ Fresh = {p} /\ IsTab(own, b) /\ Homed(own) /\ own.panes = {p}
      /\ Leaves(own.layout) = {p}
  BY <1>1, FreshTab
<1>3. CASE UNCHANGED workspaces
  BY <1>2, <1>3, StillMoves
<1>4. CASE SetWs(active_workspace, x)
  <2>1. Tidy(active_ws, b)
    BY <1>1, Widened
  <2>2. Lacks(active_ws, {p})
    BY <1>1, <1>2, FreshIsNew DEF Onward, Lacks
  <2> HIDE DEF own, b, p
  <2>3. \A u \in 1..Len(active_ws.tabs) : Apart(active_ws.tabs[u], own)
    BY <1>1, <1>2, <2>2, InTabs DEF Apart, Lacks
  <2>4. /\ Tidy(x, b) /\ Pointed(x)
        /\ PanesOf(x) \subseteq PanesOf(active_ws) \cup own.panes
        /\ LeavesOf(x) \subseteq LeavesOf(active_ws) \cup Leaves(own.layout)
        /\ AllHomed(active_ws) /\ Homed(own) => AllHomed(x)
    BY <1>2, <2>1, <2>3, Pushed
  <2>5. x.id = active_ws.id
    BY <1>1 DEF PushTab, Tidy, IsWorkspace
  <2> HIDE DEF x
  <2>6. Gains(active_ws, x, Fresh, b)
    BY <1>2, <2>4, <2>5 DEF Gains
  <2> QED
    BY <1>1, <1>2, <1>4, <2>6, GainsBecome DEF SetWs, b
<1> QED
  BY <1>3, <1>4 DEF NewTab

LEMMA NewWorkspaceMoves ==
    ASSUME IInv, Trees, NEW made \in BOOLEAN, NewWorkspace(made)
    PROVE  Moves
<1> DEFINE p == next_pane_id
           own == NewTabFor(p)
           x == Workspace(p, <<own>>)
           b == next_pane_id'
<1>1. b = p + 1 /\ p \in Nat
  BY DEF NewWorkspace, Trees
<1>2. /\ Onward /\ Fresh = {p} /\ IsTab(own, b) /\ Homed(own) /\ own.panes = {p}
      /\ Leaves(own.layout) = {p}
  BY <1>1, FreshTab
<1>3. CASE UNCHANGED workspaces
  BY <1>2, <1>3, StillMoves
<1>4. CASE workspaces' = Append(workspaces, x)
  <2> HIDE DEF own, b, p
  <2>1. IsWorkspace(x) /\ x.id = p /\ x.tabs = <<own>> /\ x.active_tab = 1
    BY DEF Workspace, IsWorkspace
  <2> HIDE DEF x
  <2>2. IsList(x.tabs) /\ Len(x.tabs) = 1 /\ x.tabs[1] = own /\ DOMAIN x.tabs = {1}
    BY <2>1 DEF IsList
  <2>3. PanesOf(x) = {p} /\ LeavesOf(x) = {p}
    BY <1>2, <2>2 DEF PanesOf, LeavesOf
  <2>4. p \in 0..b - 1
    BY <1>1
  <2>5. Tidy(x, b) /\ Pointed(x) /\ AllHomed(x)
    <3>1. \A u \in 1..Len(x.tabs) : u = 1
      BY <2>2
    <3> QED
      BY <1>2, <2>1, <2>2, <2>4, <3>1 DEF Tidy, Pointed, AllHomed
  <2>6. Newcomer(x)
    BY <1>2, <2>1, <2>3, <2>5 DEF Newcomer, b
  <2> QED
    BY <1>2, <1>4, <2>6, NewcomerMoves
<1> QED
  BY <1>3, <1>4 DEF NewWorkspace

-----------------------------------------------------------------------------
(* What is remembered between two events, and every action.                *)

Gestures == {NoGesture} \cup [kind : {"press", "drag"}, tab : Nat]
                        \cup [kind : {"over"}, tab : Nat, target : Nat]

Requests == {None} \cup [kind : {"pane"}, pane : Nat]
                   \cup [kind : {"tab"}, tab : Nat, target : Nat]

Asking ==
    /\ gesture \in Gestures
    /\ confirm \in [close : Nat \cup {None}, kill : Nat \cup {None}, move : Requests]

Placed == Trees /\ Pointing /\ Asking

\* A workspace gets another active tab, or is to get one that it has not.
LEMMA ActiveTabMoves ==
    ASSUME IInv, Trees, UNCHANGED next_pane_id,
           NEW w \in 1..Len(workspaces), NEW t,
           SetWs(w, [workspaces[w] EXCEPT !.active_tab = t]),
           t \in DOMAIN workspaces[w].tabs \/ status' = "panicked"
    PROVE  Moves
<1> DEFINE ws == workspaces[w]
           x == [ws EXCEPT !.active_tab = t]
<1>1. /\ Onward /\ Tidy(ws, next_pane_id') /\ IsWorkspace(ws) /\ IsList(ws.tabs)
      /\ DOMAIN ws.tabs = 1..Len(ws.tabs)
  BY InTabs DEF Onward, Trees, Tidy
<1>2. /\ IsWorkspace(x) /\ x.id = ws.id /\ x.tabs = ws.tabs /\ x.active_tab = t
  BY <1>1 DEF IsWorkspace
<1>3. workspaces' = [workspaces EXCEPT ![w] = x]
  BY DEF SetWs
<1> HIDE DEF x
<1>4. /\ Tidy(x, next_pane_id') /\ PanesOf(x) = PanesOf(ws) /\ LeavesOf(x) = LeavesOf(ws)
      /\ AllHomed(ws) => AllHomed(x)
  BY <1>1, <1>2 DEF Tidy, PanesOf, LeavesOf, AllHomed
<1>5. status' = "panicked" \/ Pointed(x)
  BY <1>1, <1>2 DEF Pointed
<1>6. Becomes(ws, x, Fresh)
  BY <1>2, <1>4, <1>5 DEF Becomes
<1> QED
  BY <1>1, <1>3, <1>6, EditMoves

LEMMA QuietMoves ==
    ASSUME IInv, Trees, Pointing, UNCHANGED <<status, workspaces, next_pane_id>>
    PROVE  Moves /\ Ends
<1>1. Onward
  BY DEF Onward, Trees
<1> QED
  BY <1>1, StillMoves DEF Ends, Pointing

LEMMA DispatchMoves ==
    ASSUME IInv, Trees, Pointing, status = "running", Dispatch
    PROVE  Moves /\ Ends
<1>0. /\ active_workspace \in 1..Len(workspaces) /\ active_ws = workspaces[active_workspace]
      /\ IsLayout(active_tab.layout)
  BY Here DEF IsTab
<1>1. ASSUME NEW made \in BOOLEAN, NEW dispatched \in BOOLEAN, SplitPane(made, dispatched)
      PROVE  Moves /\ Ends
  <2>1. Moves
    BY <1>1, SplitMoves
  <2> QED
    BY <1>1, <2>1 DEF SplitPane, Ends
<1>2. ASSUME NEW made \in BOOLEAN, NEW dispatched \in BOOLEAN, NewTab(made, dispatched)
      PROVE  Moves /\ Ends
  <2>1. Moves
    BY <1>2, NewTabMoves
  <2> QED
    BY <1>2, <2>1 DEF NewTab, Ends
<1>3. ASSUME NEW made \in BOOLEAN, NewWorkspace(made)
      PROVE  Moves /\ Ends
  <2>1. Moves
    BY <1>3, NewWorkspaceMoves
  <2> QED
    BY <1>3, <2>1 DEF NewWorkspace, Ends
<1>4. CASE ZoomPane
  <2> DEFINE l == active_tab.layout
             m == ToggleZoom(l)
  <2>1. IsLayout(m) /\ Leaves(m) = Leaves(l) /\ m.focused = l.focused
    BY <1>0, Zoomed
  <2>2. SetActiveLayout(m) /\ UNCHANGED <<status, next_pane_id>>
    BY <1>4 DEF ZoomPane
  <2> HIDE DEF m
  <2>3. Moves
    BY <2>1, <2>2, LayoutMoves
  <2> QED
    BY <2>2, <2>3 DEF Ends
<1>5. ASSUME NEW step \in {-1, 1}, StepPane(step)
      PROVE  Moves /\ Ends
  <2> DEFINE l == active_tab.layout
             m == StepFocus(l, step)
  <2>1. /\ IsLayout(m) /\ Leaves(m) = Leaves(l)
        /\ l.focused \in Leaves(l) => m.focused \in Leaves(l)
    BY <1>0, Stepped
  <2>2. SetActiveLayout(m) /\ UNCHANGED <<status, next_pane_id>>
    BY <1>5 DEF StepPane
  <2> HIDE DEF m
  <2>3. Moves
    BY <2>1, <2>2, LayoutMoves
  <2> QED
    BY <2>2, <2>3 DEF Ends
<1>6. ASSUME NEW step \in {-1, 1}, StepTab(step)
      PROVE  Moves /\ Ends
  <2>1. /\ active_ws.active_tab + step \in DOMAIN active_ws.tabs
        /\ SetWs(active_workspace,
                 [active_ws EXCEPT !.active_tab = active_ws.active_tab + step])
        /\ UNCHANGED <<status, next_pane_id>>
    BY <1>6 DEF StepTab
  <2> DEFINE to == active_ws.active_tab + step
  <2> HIDE DEF to
  <2>2. to \in DOMAIN active_ws.tabs /\ SetWs(active_workspace, [active_ws EXCEPT !.active_tab = to])
    BY <2>1 DEF to
  <2>3. Moves
    BY <1>0, <2>1, <2>2, ActiveTabMoves
  <2> QED
    BY <2>1, <2>3 DEF Ends
<1>7. ASSUME NEW w \in Places, SwitchWorkspace(w)
      PROVE  Moves /\ Ends
  BY <1>7, QuietMoves DEF SwitchWorkspace
<1>8. CASE ExtractPaneToTab
  <2>1. Moves
    BY <1>8, OwnTabMoves DEF ExtractPaneToTab
  <2> QED
    BY <1>8, <2>1 DEF ExtractPaneToTab, Ends
<1>9. ASSUME NEW child \in BOOLEAN, CloseTab(child)
      PROVE  Moves /\ Ends
  <2>1. CloseFocusedPane \/ UNCHANGED <<status, workspaces, active_workspace, routes, infos>>
    BY <1>9, Zenon DEF CloseTab
  <2>2. UNCHANGED next_pane_id
    BY <1>9, Zenon DEF CloseTab
  <2> QED
    BY <2>1, <2>2, CloseFocusedMoves
<1>10. CASE CloseAndKillSession
  BY <1>10, QuietMoves DEF CloseAndKillSession
<1> QED
  BY <1>1, <1>2, <1>3, <1>4, <1>5, <1>6, <1>7, <1>8, <1>9, <1>10 DEF Dispatch

LEMMA AnswerMoves ==
    ASSUME IInv, Placed, status = "running", Answer
    PROVE  Moves /\ Ends
<1>1. CASE AnswerKill \/ AnswerClose
  <2>1. /\ CloseFocusedPane \/ UNCHANGED <<status, workspaces, active_workspace, routes, infos>>
        /\ UNCHANGED next_pane_id
    BY <1>1, Zenon DEF AnswerKill, AnswerClose
  <2> QED
    BY <2>1, CloseFocusedMoves DEF Placed
<1>2. CASE Dismiss
  BY <1>2, QuietMoves DEF Dismiss, Placed
<1>3. ASSUME NEW first \in BOOLEAN, AnswerMove(first)
      PROVE  Moves /\ Ends
  <2>1. CASE confirm.move.kind = "pane"
    <3>1. MoveToOwnTab(confirm.move.pane) /\ UNCHANGED <<status, next_pane_id>>
      BY <1>3, <2>1 DEF AnswerMove
    <3> QED
      BY <3>1, OwnTabMoves DEF Placed, Ends
  <2>2. CASE confirm.move.kind # "pane"
    <3>1. /\ MergeTab(confirm.move.tab, confirm.move.target, first)
          /\ confirm.move # None /\ confirm' = NoConfirm
          /\ UNCHANGED <<status, next_pane_id, active_workspace>>
      BY <1>3, <2>2 DEF AnswerMove
    <3>2. confirm.move.kind = "tab" /\ confirm'.move = None
      BY <2>2, <3>1 DEF Placed, Asking, Requests, NoConfirm
    <3>3. Moves
      BY <3>1, <3>2, MergeMoves DEF Placed
    <3> QED
      BY <3>1, <3>3 DEF Ends
  <2> QED
    BY <2>1, <2>2
<1> QED
  BY <1>1, <1>2, <1>3 DEF Answer

LEMMA ButtonMoves ==
    ASSUME IInv, Trees, Pointing, status = "running", NEW t, CloseButton(t)
    PROVE  Moves /\ Ends
<1> DEFINE ws == active_ws
           n == Len(ws.tabs)
           x == [ws EXCEPT !.tabs = RemoveAt(@, t), !.active_tab = ShiftedTab(ws, t)]
           b == next_pane_id'
<1>1. /\ Onward /\ active_workspace \in 1..Len(workspaces)
      /\ Tidy(ws, b) /\ IsWorkspace(ws) /\ IsList(ws.tabs)
      /\ ws = workspaces[active_workspace] /\ b \in Nat
      /\ ws.active_tab \in 1..n /\ n \in Nat /\ DOMAIN ws.tabs = 1..n
      /\ t \in 1..n
  BY Here, InTabs DEF Onward, Tidy, CloseButton
<1>2. CASE /\ n > 1 /\ SetWs(active_workspace, x) /\ UNCHANGED status
  <2>1. /\ IsWorkspace(x) /\ x.id = ws.id /\ x.active_tab = ShiftedTab(ws, t)
        /\ x.tabs = RemoveAt(ws.tabs, t)
    BY <1>1 DEF IsWorkspace
  <2>2. workspaces' = [workspaces EXCEPT ![active_workspace] = x]
    BY <1>2 DEF SetWs
  <2> HIDE DEF x, b
  <2>3. /\ Tidy(x, b) /\ Len(x.tabs) = n - 1
        /\ PanesOf(x) \subseteq PanesOf(ws) /\ LeavesOf(x) \subseteq LeavesOf(ws)
        /\ AllHomed(ws) => AllHomed(x)
    <3> HIDE DEF ws
    <3>1. /\ Tidy(ws, b) /\ t \in 1..Len(ws.tabs) /\ Len(ws.tabs) > 1
          /\ IsWorkspace(x) /\ x.id = ws.id /\ x.tabs = RemoveAt(ws.tabs, t)
      BY <1>1, <1>2, <2>1
    <3> QED
      BY <3>1, TabGone
  <2>4. ShiftedTab(ws, t) = IF ws.active_tab > n - 1 THEN n - 1
                            ELSE IF ws.active_tab > t THEN ws.active_tab - 1 ELSE ws.active_tab
    BY DEF ShiftedTab
  <2>5. ShiftedTab(ws, t) \in 1..n - 1
    <3> HIDE DEF n, ws
    <3> QED
      BY <1>1, <1>2, <2>4
  <2>6. Gains(ws, x, Fresh, b)
    BY <2>1, <2>3, <2>5 DEF Gains, Pointed
  <2> QED
    BY <1>1, <1>2, <2>2, <2>6, GainsBecome DEF Ends, b
<1>3. CASE CloseFocusedPane
  <2>1. UNCHANGED next_pane_id
    BY DEF CloseButton
  <2> QED
    BY <1>3, <2>1, CloseFocusedMoves
<1> QED
  BY <1>2, <1>3 DEF CloseButton

LEMMA MouseMoves ==
    ASSUME IInv, Trees, Pointing, status = "running", Mouse
    PROVE  Moves /\ Ends
<1>0. /\ active_workspace \in 1..Len(workspaces) /\ active_ws = workspaces[active_workspace]
      /\ IsLayout(active_tab.layout)
  BY Here DEF IsTab
<1>1. ASSUME NEW t, DragOverTab(t)
      PROVE  Moves /\ Ends
  BY <1>1, DragMoves
<1>2. ASSUME NEW t, CloseButton(t)
      PROVE  Moves /\ Ends
  BY <1>2, ButtonMoves
<1>3. CASE ReleaseClick
  <2> DEFINE t == gesture.tab
  <2>1. /\ SetWs(active_workspace, [active_ws EXCEPT !.active_tab = t])
        /\ UNCHANGED next_pane_id
        /\ status' = IF t \in DOMAIN active_ws.tabs THEN status ELSE "panicked"
    BY <1>3 DEF ReleaseClick
  <2> HIDE DEF t
  <2>2. Moves
    BY <1>0, <2>1, ActiveTabMoves
  <2> QED
    BY <2>1, <2>2 DEF Ends
<1>4. ASSUME NEW p, FocusPane(p)
      PROVE  Moves /\ Ends
  <2> DEFINE l == active_tab.layout
             m == FocusLeaf(l, p)
  <2>1. /\ IsLayout(m) /\ Leaves(m) = Leaves(l)
        /\ l.focused \in Leaves(l) => m.focused \in Leaves(l)
    BY <1>0, Focused
  <2>2. SetActiveLayout(m) /\ UNCHANGED <<status, next_pane_id>>
    BY <1>4 DEF FocusPane
  <2> HIDE DEF m
  <2>3. Moves
    BY <2>1, <2>2, LayoutMoves
  <2> QED
    BY <2>2, <2>3 DEF Ends
<1>5. CASE \/ StartDrag \/ DragBack \/ Drop \/ EndDrag
           \/ \E t \in TabsOf(active_workspace) : Press(t)
           \/ \E p \in PaneId : DragOverPane(p) \/ CmdClick(p)
  BY <1>5, QuietMoves DEF StartDrag, DragBack, Drop, EndDrag, Press, DragOverPane, CmdClick
<1> QED
  BY <1>1, <1>2, <1>3, <1>4, <1>5 DEF Mouse

LEMMA OutsideMoves ==
    ASSUME IInv, Trees, Pointing, status = "running", Outside
    PROVE  Moves /\ Ends
<1>0. Places = 1..Len(workspaces)
  BY InPlace DEF Places
<1>1. ASSUME NEW w \in Places, CloseWorkspace(w)
      PROVE  Moves /\ Ends
  <2>1. Onward /\ workspaces' = RemoveAt(workspaces, w) /\ UNCHANGED status
    BY <1>1 DEF CloseWorkspace, RemoveWorkspace, Onward, Trees
  <2> QED
    BY <1>0, <2>1, RemovalMoves DEF Ends
<1>2. ASSUME NEW w \in Places, NEW t \in TabsOf(w), SwitchTab(w, t)
      PROVE  Moves /\ Ends
  <2>1. Moves
    BY <1>0, <1>2, ActiveTabMoves DEF SwitchTab
  <2> QED
    BY <1>2, <2>1 DEF SwitchTab, Ends
<1>3. ASSUME NEW w \in Places, NEW t \in TabsOf(w), NEW p \in PaneId, PtyExited(w, t, p)
      PROVE  Moves /\ Ends
  <2>1. t \in 1..Len(workspaces[w].tabs)
    BY <1>0, <1>3, InTabs DEF TabsOf, Trees, Tidy
  <2> QED
    BY <1>0, <1>3, <2>1, CloseMoves DEF PtyExited
<1>4. CASE \/ \E s \in Session : ForgetRoute(s) \/ \E w \in Places : AgentHook(s, w)
           \/ DrawSidebar
  BY <1>4, QuietMoves DEF ForgetRoute, AgentHook, DrawSidebar
<1> QED
  BY <1>1, <1>2, <1>3, <1>4 DEF Outside

LEMMA QuestionFields ==
    ASSUME Asking
    PROVE  /\ confirm.close \in Nat \cup {None} /\ confirm.kill \in Nat \cup {None}
           /\ confirm.move \in Requests
BY DEF Asking

LEMMA AskingStep ==
    ASSUME IInv, Placed, status = "running", Dispatch \/ Answer \/ Mouse \/ Outside
    PROVE  Asking'
<1> DEFINE Questions == [close : Nat \cup {None}, kill : Nat \cup {None}, move : Requests]
<1>0. /\ gesture \in Gestures /\ confirm \in Questions /\ NoGesture \in Gestures
      /\ None \in Requests /\ NoConfirm \in Questions
      /\ \A keepClose, keepKill \in BOOLEAN : Dismissed(keepClose, keepKill) \in Questions
  BY DEF Placed, Asking, Gestures, Requests, NoConfirm, Dismissed
<1>1. PaneId \subseteq Nat
  BY StartAssumption DEF PaneId
<1>2. TabsOf(active_workspace) \subseteq Nat
  BY Here, InTabs DEF TabsOf, Placed, Tidy
<1>3. \A p \in active_tab.panes : p \in Nat
  BY Here DEF Placed, IsTab
<1>4. CASE UNCHANGED events
  BY <1>0, <1>4 DEF Asking, events
<1>5. CASE DismissAll
  BY <1>0, <1>5 DEF Asking, DismissAll
<1>6. CASE \E child \in BOOLEAN : CloseTab(child)
  <2>1. PICK child \in BOOLEAN : CloseTab(child)
    BY <1>6
  <2>2. UNCHANGED gesture
    BY <2>1, Zenon DEF CloseTab
  <2>3. CASE confirm' = Dismissed(TRUE, FALSE)
    BY <1>0, <2>2, <2>3 DEF Asking
  <2>4. CASE /\ focused_id \in active_tab.panes
             /\ confirm' = [Dismissed(TRUE, FALSE) EXCEPT !.close = focused_id]
    <3>1. Dismissed(TRUE, FALSE) \in Questions /\ focused_id \in Nat
      BY <1>0, <1>3, <2>4
    <3> QED
      BY <1>0, <2>2, <2>4, <3>1 DEF Asking
  <2> QED
    BY <2>1, <2>3, <2>4, Zenon DEF CloseTab
<1>7. CASE CloseAndKillSession
  <2>1. Dismissed(FALSE, TRUE) \in Questions
    BY <1>0
  <2>2. confirm' \in Questions
    BY <1>3, <1>7, <2>1 DEF CloseAndKillSession
  <2> QED
    BY <1>0, <1>7, <2>2 DEF CloseAndKillSession, Asking
<1>8. CASE Dispatch
  BY <1>4, <1>5, <1>6, <1>7, <1>8
     DEF Dispatch, SplitPane, NewTab, NewWorkspace, ZoomPane, StepPane, StepTab,
         SwitchWorkspace, ExtractPaneToTab, Prologue
<1>9. CASE Answer
  BY <1>0, <1>9 DEF Answer, AnswerKill, AnswerClose, Dismiss, AnswerMove, Asking
<1>10. ASSUME NEW t \in TabsOf(active_workspace), Press(t) \/ DragOverTab(t) \/ CloseButton(t)
       PROVE  Asking'
  <2>1. t \in Nat
    BY <1>2
  <2>2. CASE Press(t)
    BY <1>0, <2>1, <2>2 DEF Press, Asking, Gestures
  <2>3. CASE CloseButton(t)
    <3>1. UNCHANGED events
      BY <2>3, Zenon DEF CloseButton
    <3> QED
      BY <1>4, <3>1
  <2>4. CASE DragOverTab(t)
    <3>1. /\ gesture.kind = "drag" /\ UNCHANGED confirm
          /\ gesture' = gesture \/ gesture' = [gesture EXCEPT !.tab = t]
      BY <2>4, Zenon DEF DragOverTab
    <3> QED
      BY <1>0, <2>1, <3>1 DEF Asking, Gestures, NoGesture
  <2> QED
    BY <1>10, <2>2, <2>3, <2>4
<1>11. CASE ReleaseClick \/ EndDrag
  BY <1>0, <1>11 DEF ReleaseClick, EndDrag, Asking
<1>12. CASE StartDrag \/ DragBack
  BY <1>0, <1>12 DEF StartDrag, DragBack, Asking, Gestures, NoGesture
<1>13. CASE Drop
  <2>1. gesture \in [kind : {"over"}, tab : Nat, target : Nat]
    BY <1>0, <1>13 DEF Drop, Gestures, NoGesture
  <2>2. [kind |-> "tab", tab |-> gesture.tab, target |-> gesture.target] \in Requests
    BY <2>1 DEF Requests
  <2> QED
    BY <1>0, <1>13, <2>2 DEF Drop, Asking
<1>14. ASSUME NEW p \in PaneId, DragOverPane(p)
       PROVE  Asking'
  BY <1>0, <1>1, <1>14 DEF DragOverPane, Asking, Gestures, NoGesture
<1>15. ASSUME NEW p \in PaneId, CmdClick(p)
       PROVE  Asking'
  <2>1. [kind |-> "pane", pane |-> p] \in Requests
    BY <1>1 DEF Requests
  <2> QED
    BY <1>0, <1>15, <2>1 DEF CmdClick, Asking
<1>16. ASSUME NEW p \in PaneId, FocusPane(p)
       PROVE  Asking'
  BY <1>4, <1>16 DEF FocusPane
<1>17. CASE Mouse
  BY <1>10, <1>11, <1>12, <1>13, <1>14, <1>15, <1>16, <1>17 DEF Mouse
<1>18. CASE Outside
  <2>1. UNCHANGED events
    BY <1>18, Zenon DEF Outside, CloseWorkspace, SwitchTab, PtyExited, ForgetRoute,
                        AgentHook, DrawSidebar, events
  <2> QED
    BY <1>4, <2>1
<1> QED
  BY <1>8, <1>9, <1>17, <1>18

\* What a step does to everything, and what it is.
LEMMA PlacedStep ==
    ASSUME IInv, Placed, status = "running", Dispatch \/ Answer \/ Mouse \/ Outside
    PROVE  /\ Placed' /\ Moves
           /\ AllAtHome => MissedMerge \/ AllAtHome'
<1>1. Moves /\ Ends
  BY DispatchMoves, AnswerMoves, MouseMoves, OutsideMoves DEF Placed
<1>2. Trees'
  BY <1>1, MovesKeepTrees DEF Placed
<1>3. Pointing' /\ (AllAtHome => MissedMerge \/ AllAtHome')
  BY <1>1, MovesKeepPlaces DEF Placed, Ends
<1>4. Asking'
  BY AskingStep
<1> QED
  BY <1>1, <1>2, <1>3, <1>4 DEF Placed

-----------------------------------------------------------------------------
(* The start.                                                              *)

\* One numbers the tabs of each workspace after those of the ones before it.
Counts(before, shape) ==
    /\ \A w \in 1..Len(shape) + 1 : before[w] \in Nat
    /\ \A v \in 1..Len(shape), w \in 1..Len(shape) + 1 :
           v < w => before[v] + shape[v] <= before[w]

LEMMA Counted ==
    ASSUME NEW shape \in Seq(Nat \ {0}), shape # <<>>
    PROVE  Counts(TabsBefore(shape), shape)
<1> DEFINE size == Len(shape)
           next(g, w) == IF w = 1 THEN 0 ELSE g[w - 1] + shape[w - 1]
           built(g, m) == g = [w \in 1..m + 1 |-> next(g, w)]
           some == {m \in Nat : \E g : built(g, m)}
           before == CHOOSE g : built(g, size)
           good == {m \in Nat : m <= size =>
                       /\ \A v \in 1..m + 1 : before[v] \in Nat
                       /\ \A v \in 1..m : before[v] + shape[v] <= before[m + 1]}
<1> HIDE DEF next
<1>1. 0 \in some
  <2> DEFINE g == [w \in 1..0 + 1 |-> 0]
  <2>1. \A w \in 1..0 + 1 : next(g, w) = 0
    BY DEF next
  <2>2. built(g, 0)
    BY <2>1
  <2> QED
    BY <2>2
<1>2. ASSUME NEW m \in Nat, m \in some
      PROVE  m + 1 \in some
  <2>1. PICK g : built(g, m)
    BY <1>2
  <2>2. \A w \in 1..m + 1 : g[w] = next(g, w)
    BY <2>1
  <2> DEFINE top == (m + 1) + 1
             h == [w \in 1..top |-> IF w = top THEN next(g, top) ELSE g[w]]
  <2>3. ASSUME NEW w \in 1..top
        PROVE  h[w] = next(h, w)
    <3>1. CASE w = 1
      <4>1. h[1] = g[1] /\ g[1] = next(g, 1)
        BY <2>2, <3>1
      <4> QED
        BY <3>1, <4>1 DEF next
    <3>2. CASE w # 1
      <4>1. w - 1 \in 1..m + 1 /\ h[w - 1] = g[w - 1]
        BY <3>2
      <4>2. next(h, w) = next(g, w)
        BY <3>2, <4>1 DEF next
      <4>3. w # top => w \in 1..m + 1 /\ g[w] = next(g, w)
        BY <2>2
      <4> QED
        BY <4>2, <4>3
    <3> QED
      BY <3>1, <3>2
  <2>4. h = [w \in 1..top |-> h[w]]
    OBVIOUS
  <2>5. built(h, m + 1)
    BY <2>3, <2>4
  <2> HIDE DEF built, h
  <2> QED
    BY <2>5
<1>3. size \in Nat /\ size # 0 /\ \A w \in 1..size : shape[w] \in Nat
  BY EmptySeq, LenProperties
<1>4. built(before, size)
  BY <1>1, <1>2, <1>3, Climb
<1>5. TabsBefore(shape) = before
  BY DEF TabsBefore, next
<1>6. \A w \in 1..size + 1 : before[w] = next(before, w)
  <2> HIDE DEF before
  <2> QED
    BY <1>4
<1> HIDE DEF before, size
<1>7. 0 \in good
  <2>1. before[0 + 1] = 0
    BY <1>3, <1>6 DEF next
  <2> QED
    BY <2>1
<1>8. ASSUME NEW m \in Nat, m \in good
      PROVE  m + 1 \in good
  <2> SUFFICES ASSUME m + 1 <= size
               PROVE  /\ \A v \in 1..(m + 1) + 1 : before[v] \in Nat
                      /\ \A v \in 1..m + 1 : before[v] + shape[v] <= before[(m + 1) + 1]
    OBVIOUS
  <2>1. /\ \A v \in 1..m + 1 : before[v] \in Nat
        /\ shape[m + 1] \in Nat
        /\ \A v \in 1..m : before[v] + shape[v] <= before[m + 1]
    BY <1>3, <1>8
  <2>2. before[(m + 1) + 1] = before[m + 1] + shape[m + 1]
    <3>1. (m + 1) + 1 \in 1..size + 1 /\ (m + 1) + 1 # 1 /\ ((m + 1) + 1) - 1 = m + 1
      BY <1>3
    <3> QED
      BY <1>6, <3>1 DEF next
  <2>3. ASSUME NEW v \in 1..m + 1
        PROVE  before[v] + shape[v] <= before[(m + 1) + 1]
    <3>1. CASE v = m + 1
      BY <2>1, <2>2, <3>1
    <3>2. CASE v \in 1..m
      <4>1. before[v] \in Nat /\ shape[v] \in Nat /\ before[m + 1] \in Nat
        BY <1>3, <2>1, <3>2
      <4> QED
        BY <1>3, <2>1, <2>2, <3>2, <4>1
    <3> QED
      BY <3>1, <3>2
  <2>4. \A v \in 1..(m + 1) + 1 : v \in 1..m + 1 \/ v = (m + 1) + 1
    OBVIOUS
  <2>5. before[(m + 1) + 1] \in Nat
    BY <2>1, <2>2
  <2> QED
    BY <2>1, <2>3, <2>4, <2>5
<1>9. Nat \subseteq good
  BY <1>7, <1>8, Climb
<1>10. ASSUME NEW w \in 1..size + 1
       PROVE  /\ before[w] \in Nat
              /\ \A v \in 1..size : v < w => before[v] + shape[v] <= before[w]
  <2>1. w - 1 \in Nat /\ w - 1 <= size /\ (w - 1) + 1 = w
    BY <1>3
  <2>2. \A v \in 1..size : v < w => v \in 1..w - 1
    BY <1>3
  <2>3. w - 1 \in good
    BY <1>9, <2>1
  <2> QED
    BY <2>1, <2>2, <2>3
<1> QED
  BY <1>5, <1>10 DEF Counts, size

LEMMA StartsPlaced ==
    Init => Placed /\ AllAtHome
<1> SUFFICES ASSUME Init PROVE Placed /\ AllAtHome
  OBVIOUS
<1>1. PICK shape \in Start : /\ workspaces = StartWorkspaces(shape)
                             /\ next_pane_id = TabsBefore(shape)[Len(shape) + 1]
  BY DEF Init
<1> DEFINE n == Len(shape)
           before == TabsBefore(shape)
           own(w, t) == NewTabFor(before[w] + t - 1)
<1>2. /\ shape \in Seq(Nat \ {0}) /\ shape # <<>> /\ n \in Nat \ {0} /\ DOMAIN shape = 1..n
      /\ \A w \in 1..n : shape[w] \in Nat \ {0}
  BY StartAssumption, EmptySeq, LenProperties
<1>3. Counts(before, shape)
  BY <1>2, Counted
<1> HIDE DEF before
<1>4. workspaces = [w \in 1..n |-> Workspace(before[w], [t \in 1..shape[w] |-> own(w, t)])]
  BY <1>1, <1>2 DEF StartWorkspaces, before
<1>5. Len(workspaces) = n /\ next_pane_id = before[n + 1] /\ next_pane_id \in Nat
  BY <1>1, <1>2, <1>3, <1>4 DEF Counts, before
<1>6. ASSUME NEW w \in 1..n
      PROVE  /\ before[w] \in Nat /\ before[w] + shape[w] <= next_pane_id
             /\ \A v \in 1..n : w < v => before[w] + shape[w] <= before[v]
  BY <1>2, <1>3, <1>5 DEF Counts
<1>7. ASSUME NEW w \in 1..n
      PROVE  /\ IsWorkspace(workspaces[w]) /\ workspaces[w].id = before[w]
             /\ workspaces[w].active_tab = 1
             /\ IsList(workspaces[w].tabs) /\ Len(workspaces[w].tabs) = shape[w]
             /\ \A t \in 1..shape[w] : workspaces[w].tabs[t] = own(w, t)
  <2> DEFINE tabs == [t \in 1..shape[w] |-> own(w, t)]
  <2>1. /\ IsWorkspace(workspaces[w]) /\ workspaces[w].id = before[w]
        /\ workspaces[w].active_tab = 1 /\ workspaces[w].tabs = tabs
    BY <1>4 DEF Workspace, IsWorkspace
  <2>2. Len(tabs) = shape[w]
    BY <1>2
  <2>3. IsList(tabs)
    BY <1>2, <2>2 DEF IsList
  <2> QED
    BY <2>1, <2>2, <2>3
<1>8. ASSUME NEW w \in 1..n, NEW t \in 1..shape[w]
      PROVE  /\ IsTab(own(w, t), next_pane_id) /\ Homed(own(w, t))
             /\ own(w, t).panes = {before[w] + t - 1}
             /\ Leaves(own(w, t).layout) = {before[w] + t - 1}
  <2> DEFINE p == before[w] + t - 1
  <2>1. p \in Nat /\ p < next_pane_id
    BY <1>2, <1>5, <1>6
  <2> HIDE DEF p
  <2>2. own(w, t) = NewTabFor(p)
    BY DEF p
  <2> QED
    BY <1>5, <2>1, <2>2, NewTabs DEF p
<1> HIDE DEF own
<1>9. ASSUME NEW w \in 1..n
      PROVE  /\ Tidy(workspaces[w], next_pane_id) /\ Pointed(workspaces[w])
             /\ AllHomed(workspaces[w])
             /\ \A p \in PanesOf(workspaces[w]) \cup LeavesOf(workspaces[w]) :
                    p \in before[w]..before[w] + shape[w] - 1
  <2> DEFINE ws == workspaces[w]
  <2>1. /\ IsWorkspace(ws) /\ ws.id = before[w] /\ ws.active_tab = 1
        /\ IsList(ws.tabs) /\ Len(ws.tabs) = shape[w]
        /\ \A t \in 1..shape[w] : ws.tabs[t] = own(w, t)
    BY <1>7
  <2> HIDE DEF ws
  <2>2. /\ before[w] \in 0..next_pane_id - 1 /\ shape[w] # 0 /\ 1 \in 1..shape[w]
    BY <1>2, <1>5, <1>6
  <2>3. ASSUME NEW t \in 1..shape[w], NEW u \in 1..shape[w], t # u
        PROVE  Apart(own(w, t), own(w, u))
    <3> DEFINE p == before[w] + t - 1
               q == before[w] + u - 1
    <3>1. p # q
      BY <1>2, <1>6, <2>3
    <3>2. /\ own(w, t).panes = {p} /\ Leaves(own(w, t).layout) = {p}
          /\ own(w, u).panes = {q} /\ Leaves(own(w, u).layout) = {q}
      BY <1>8
    <3> HIDE DEF p, q
    <3> QED
      BY <3>1, <3>2 DEF Apart
  <2>4. Tidy(ws, next_pane_id)
    BY <1>8, <2>1, <2>2, <2>3 DEF Tidy
  <2>5. Pointed(ws) /\ AllHomed(ws)
    BY <1>8, <2>1, <2>2 DEF Pointed, AllHomed
  <2>6. ASSUME NEW p \in PanesOf(ws) \cup LeavesOf(ws)
        PROVE  p \in before[w]..before[w] + shape[w] - 1
    <3>1. PICK t \in 1..shape[w] : p \in ws.tabs[t].panes \cup Leaves(ws.tabs[t].layout)
      BY <2>1, InTabs
    <3>2. p = before[w] + t - 1
      BY <1>8, <2>1, <3>1
    <3> QED
      BY <1>2, <1>6, <3>2
  <2> QED
    BY <2>4, <2>5, <2>6 DEF ws
<1>10. ASSUME NEW v \in 1..n, NEW w \in 1..n, v < w
       PROVE  Separate(workspaces[v], workspaces[w])
  <2>1. \A p : p \in before[v]..before[v] + shape[v] - 1
                  => p \notin before[w]..before[w] + shape[w] - 1
    BY <1>2, <1>6, <1>10
  <2>2. before[v] # before[w]
    BY <1>2, <1>6, <1>10
  <2>3. workspaces[v].id # workspaces[w].id
    BY <1>7, <2>2
  <2>4. /\ PanesOf(workspaces[v]) \cap PanesOf(workspaces[w]) = {}
        /\ LeavesOf(workspaces[v]) \cap LeavesOf(workspaces[w]) = {}
    BY <1>9, <2>1
  <2> QED
    BY <2>3, <2>4 DEF Separate
<1>11. ASSUME NEW v \in 1..n, NEW w \in 1..n, v # w
       PROVE  Separate(workspaces[v], workspaces[w])
  <2>1. v < w \/ w < v
    BY <1>2, <1>11
  <2> QED
    BY <1>10, <2>1 DEF Separate
<1>12. Trees /\ Pointing /\ AllAtHome
  BY <1>5, <1>9, <1>11 DEF Trees, Pointing, AllAtHome, Init
<1>13. Asking
  <2>1. gesture = NoGesture /\ confirm = NoConfirm
    BY Zenon DEF Init
  <2> QED
    BY <2>1 DEF Asking, Gestures, Requests, NoConfirm
<1> QED
  BY <1>12, <1>13 DEF Placed

-----------------------------------------------------------------------------
(* What the invariant says of the panes.                                   *)

\* The inductive invariant of both.
Inv == IInv /\ Placed

LEMMA HousedIsAllAtHome ==
    ASSUME IInv, Trees
    PROVE  Housed <=> AllAtHome
<1>1. DOMAIN workspaces = 1..Len(workspaces)
  BY InPlace
<1>2. \A w \in 1..Len(workspaces) :
          DOMAIN workspaces[w].tabs = 1..Len(workspaces[w].tabs)
  BY InTabs DEF Trees, Tidy
<1>3. ASSUME AllAtHome, NEW a \in AllTabs
      PROVE  Homed(TabAt(a))
  <2>1. PICK w \in 1..Len(workspaces) : a \in {w} \X DOMAIN workspaces[w].tabs
    BY <1>1, <1>3 DEF AllTabs
  <2>2. a[1] = w /\ a[2] \in 1..Len(workspaces[w].tabs)
    BY <1>2, <2>1
  <2> QED
    BY <1>3, <2>2 DEF AllAtHome, AllHomed, TabAt
<1>4. ASSUME Housed, NEW w \in 1..Len(workspaces), NEW t \in 1..Len(workspaces[w].tabs)
      PROVE  Homed(workspaces[w].tabs[t])
  <2>1. <<w, t>> \in AllTabs
    <3>1. <<w, t>> \in {w} \X DOMAIN workspaces[w].tabs
      BY <1>2
    <3> QED
      BY <1>1, <3>1 DEF AllTabs
  <2>2. TabAt(<<w, t>>) = workspaces[w].tabs[t]
    BY DEF TabAt
  <2> QED
    BY <1>4, <2>1, <2>2 DEF Housed, Homed
<1> QED
  BY <1>3, <1>4 DEF Housed, Homed, AllAtHome, AllHomed

LEMMA OnePlaceThen ==
    ASSUME IInv, Trees
    PROVE  OnePlace
<1>1. DOMAIN workspaces = 1..Len(workspaces)
  BY InPlace
<1>2. ASSUME NEW w \in 1..Len(workspaces)
      PROVE  /\ DOMAIN workspaces[w].tabs = 1..Len(workspaces[w].tabs)
             /\ Tidy(workspaces[w], next_pane_id)
             /\ \A t \in 1..Len(workspaces[w].tabs) :
                    /\ workspaces[w].tabs[t].panes \subseteq PanesOf(workspaces[w])
                    /\ Leaves(workspaces[w].tabs[t].layout) \subseteq LeavesOf(workspaces[w])
  BY InTabs DEF Trees, Tidy
<1>3. ASSUME NEW a \in AllTabs
      PROVE  /\ a[1] \in 1..Len(workspaces) /\ a[2] \in 1..Len(workspaces[a[1]].tabs)
             /\ a = <<a[1], a[2]>> /\ TabAt(a) = workspaces[a[1]].tabs[a[2]]
  <2>1. PICK w \in 1..Len(workspaces) : a \in {w} \X DOMAIN workspaces[w].tabs
    BY <1>1, <1>3 DEF AllTabs
  <2> QED
    BY <1>2, <2>1 DEF TabAt
<1>4. ASSUME NEW a \in AllTabs, NEW b \in AllTabs, a # b
      PROVE  Apart(TabAt(a), TabAt(b))
  <2>1. /\ a[1] \in 1..Len(workspaces) /\ a[2] \in 1..Len(workspaces[a[1]].tabs)
        /\ b[1] \in 1..Len(workspaces) /\ b[2] \in 1..Len(workspaces[b[1]].tabs)
        /\ a = <<a[1], a[2]>> /\ b = <<b[1], b[2]>>
        /\ TabAt(a) = workspaces[a[1]].tabs[a[2]]
        /\ TabAt(b) = workspaces[b[1]].tabs[b[2]]
    BY <1>3
  <2>2. CASE a[1] = b[1]
    <3>1. a[2] # b[2]
      BY <1>4, <2>1, <2>2
    <3> QED
      BY <1>2, <2>1, <2>2, <3>1 DEF Tidy
  <2>3. CASE a[1] # b[1]
    <3>1. Separate(workspaces[a[1]], workspaces[b[1]])
      BY <2>1, <2>3 DEF Trees
    <3> QED
      BY <1>2, <2>1, <3>1 DEF Separate, Apart
  <2> QED
    BY <2>2, <2>3
<1>5. ASSUME NEW a \in AllTabs
      PROVE  LET order == TabAt(a).layout.panes
             IN \A i, j \in DOMAIN order : order[i] = order[j] => i = j
  <2>1. IsLayout(TabAt(a).layout)
    BY <1>2, <1>3 DEF Tidy, IsTab
  <2> QED
    BY <2>1, Tree DEF IsLayout, Distinct
<1> QED
  BY <1>4, <1>5 DEF OnePlace, Apart

LEMMA TypesThen ==
    ASSUME IInv, Placed
    PROVE  TypeOK
<1>1. /\ DOMAIN workspaces = 1..Len(workspaces) /\ active_workspace \in 1..Len(workspaces)
      /\ Len(workspaces) \in Nat
  BY InPlace
<1>2. status \in {"running", "quit", "panicked"} /\ next_pane_id \in Nat
  BY DEF Placed, Trees, Pointing
<1>3. ASSUME NEW w \in 1..Len(workspaces)
      PROVE  LET ws == workspaces[w] IN
             /\ ws.id \in Nat
             /\ ws.active_tab \in DOMAIN ws.tabs \/ status = "panicked"
             /\ \A t \in DOMAIN ws.tabs :
                 /\ ws.tabs[t].layout \in Layouts /\ ws.tabs[t].layout.panes # <<>>
                 /\ ws.tabs[t].panes \subseteq Nat
  <2> DEFINE ws == workspaces[w]
  <2>1. /\ Tidy(ws, next_pane_id) /\ (status = "panicked" \/ Pointed(ws))
        /\ 0..next_pane_id - 1 \subseteq Nat
    BY <1>2 DEF Placed, Trees, Pointing
  <2> HIDE DEF ws
  <2>2. DOMAIN ws.tabs = 1..Len(ws.tabs)
    BY <2>1, InTabs DEF Tidy
  <2>3. ws.id \in Nat
    BY <2>1 DEF Tidy
  <2>4. ASSUME NEW t \in DOMAIN ws.tabs
        PROVE  /\ ws.tabs[t].layout \in Layouts /\ ws.tabs[t].layout.panes # <<>>
               /\ ws.tabs[t].panes \subseteq Nat
    BY <2>1, <2>2 DEF Tidy, IsTab, IsLayout
  <2> QED
    BY <2>1, <2>2, <2>3, <2>4 DEF Pointed, ws
<1>4. /\ gesture.kind \in {"none", "press", "drag", "over"}
      /\ {confirm.close, confirm.kill} \subseteq Nat \cup {None}
  <2>1. gesture.kind \in {"none", "press", "drag", "over"}
    BY DEF Placed, Asking, Gestures, NoGesture
  <2> QED
    BY <2>1, QuestionFields DEF Placed
<1>5. session_to_workspace \in [Session -> Nat \cup {None}]
  <2>1. \A s \in Session : session_to_workspace[s] \in Nat \cup {None}
    BY <1>1 DEF IInv, RoutesHold
  <2> QED
    BY <2>1 DEF IInv, Positions
<1> QED
  BY <1>1, <1>2, <1>3, <1>4, <1>5 DEF TypeOK

LEMMA Held ==
    ASSUME IInv
    PROVE  \A q : q \in HeldPanes <=> \E v \in 1..Len(workspaces) : q \in PanesOf(workspaces[v])
BY InPlace DEF HeldPanes

\* A closed pane takes no other with it, if all are in their trees.
LEMMA ClosingLosesOne ==
    ASSUME IInv, Trees, Trees', IInv', AllAtHome, NEW w \in 1..Len(workspaces),
           NEW t \in 1..Len(workspaces[w].tabs), NEW p, ClosePane(w, t, p)
    PROVE  HeldPanes \ HeldPanes' \subseteq {p}
<1> DEFINE ws == workspaces[w]
           tab == ws.tabs[t]
           n == Len(workspaces)
           kept == Tab(CloseLeaf(tab.layout, p), tab.panes \ {p})
<1>1. /\ n \in Nat /\ DOMAIN workspaces = 1..n /\ IsList(workspaces)
      /\ IsWorkspace(ws) /\ IsList(ws.tabs) /\ DOMAIN ws.tabs = 1..Len(ws.tabs)
      /\ Len(ws.tabs) \in Nat /\ DOMAIN tab = {"layout", "panes"} /\ Homed(tab)
  BY InPlace, InTabs DEF IInv, Positions, AreWorkspaces, Trees, Tidy, IsTab, AllAtHome, AllHomed
<1>2. ASSUME IsWhole(tab.layout, p)
      PROVE  tab.panes \subseteq {p}
  <2>1. Leaves(tab.layout) = {p}
    BY <1>2 DEF IsWhole, Leaves
  <2> QED
    BY <1>1, <2>1 DEF Homed
<1>3. SUFFICES ASSUME NEW q \in HeldPanes, q # p
               PROVE  \E v \in 1..Len(workspaces') : q \in PanesOf(workspaces'[v])
  <2>1. \A q : q \in HeldPanes' <=> \E v \in 1..Len(workspaces') : q \in PanesOf(workspaces'[v])
    BY InPlace, ListsAreSequences DEF HeldPanes, IInv, Positions, AreWorkspaces
  <2> QED
    BY <1>3, <2>1
<1>4. PICK v \in 1..n : q \in PanesOf(workspaces[v])
  BY <1>3, Held
<1>5. v = w => \E u \in 1..Len(ws.tabs) : q \in ws.tabs[u].panes
  BY <1>1, <1>4, InTabs
<1>6. ASSUME NEW x, workspaces' = [workspaces EXCEPT ![w] = x], v = w => q \in PanesOf(x)
      PROVE  \E y \in 1..Len(workspaces') : q \in PanesOf(workspaces'[y])
  <2>1. /\ DOMAIN workspaces' = 1..n
        /\ workspaces'[v] = IF v = w THEN x ELSE workspaces[v]
    BY <1>1, <1>6
  <2>2. DOMAIN workspaces' = 1..Len(workspaces')
    BY ListsAreSequences DEF IInv, Positions, AreWorkspaces
  <2> QED
    BY <1>4, <1>6, <2>1, <2>2
<1>7. ASSUME NEW new, new.panes = tab.panes \ {p},
             workspaces' = [workspaces EXCEPT ![w].tabs[t] = new]
      PROVE  \E y \in 1..Len(workspaces') : q \in PanesOf(workspaces'[y])
  <2> DEFINE x == [ws EXCEPT !.tabs[t] = new]
  <2>1. Swapped(ws, t, new, x)
    BY <1>1, ListEdited
  <2>2. workspaces' = [workspaces EXCEPT ![w] = x]
    BY <1>7
  <2> HIDE DEF x
  <2>3. ASSUME v = w
        PROVE  q \in PanesOf(x)
    <3>1. PICK u \in 1..Len(ws.tabs) : q \in ws.tabs[u].panes
      BY <1>5, <2>3
    <3>2. q \in x.tabs[u].panes /\ u \in 1..Len(x.tabs)
      BY <1>3, <1>7, <2>1, <3>1 DEF Swapped
    <3> QED
      BY <2>1, <3>2, InTabs DEF Swapped
  <2> QED
    BY <1>6, <2>2, <2>3
<1>8. CASE SetWs(w, [ws EXCEPT !.tabs[t] = kept])
  <2>1. workspaces' = [workspaces EXCEPT ![w].tabs[t] = kept] /\ kept.panes = tab.panes \ {p}
    BY <1>8, TabFields DEF SetWs
  <2> HIDE DEF kept
  <2> QED
    BY <1>7, <2>1
<1>9. CASE /\ IsWhole(tab.layout, p) /\ Len(ws.tabs) > 1
           /\ SetWs(w, [ws EXCEPT !.tabs = RemoveAt(@, t),
                                  !.active_tab = Least(@, Len(ws.tabs) - 1)])
  <2> DEFINE x == [ws EXCEPT !.tabs = RemoveAt(@, t),
                             !.active_tab = Least(@, Len(ws.tabs) - 1)]
  <2>1. x.tabs = RemoveAt(ws.tabs, t) /\ workspaces' = [workspaces EXCEPT ![w] = x]
    BY <1>1, <1>9 DEF IsWorkspace, SetWs
  <2> HIDE DEF x
  <2>2. /\ IsList(x.tabs) /\ Len(x.tabs) = Len(ws.tabs) - 1
        /\ \A u \in 1..Len(ws.tabs) - 1 :
               x.tabs[u] = IF u < t THEN ws.tabs[u] ELSE ws.tabs[u + 1]
    BY <1>1, <2>1, Shorter
  <2>3. ASSUME v = w
        PROVE  q \in PanesOf(x)
    <3>1. PICK u \in 1..Len(ws.tabs) : q \in ws.tabs[u].panes
      BY <1>5, <2>3
    <3>2. u # t
      BY <1>2, <1>3, <1>9, <3>1
    <3>3. CASE u < t
      <4>1. u \in 1..Len(x.tabs) /\ x.tabs[u] = ws.tabs[u]
        BY <1>1, <2>2, <3>3
      <4> QED
        BY <2>2, <3>1, <4>1, InTabs
    <3>4. CASE u > t
      <4>1. u - 1 \in 1..Len(x.tabs) /\ x.tabs[u - 1] = ws.tabs[u]
        <5>1. u - 1 \in 1..Len(ws.tabs) - 1 /\ ~(u - 1 < t) /\ (u - 1) + 1 = u
          BY <1>1, <3>4
        <5> QED
          BY <2>2, <5>1
      <4> QED
        BY <2>2, <3>1, <4>1, InTabs
    <3> QED
      BY <1>1, <3>2, <3>3, <3>4
  <2> QED
    BY <1>6, <2>1, <2>3
<1>10. CASE IsWhole(tab.layout, p) /\ ~(Len(ws.tabs) > 1) /\ RemoveWorkspace(w)
  <2>1. /\ Len(workspaces') = n - 1
        /\ \A y \in 1..n - 1 :
               workspaces'[y] = IF y < w THEN workspaces[y] ELSE workspaces[y + 1]
    BY <1>1, <1>10, Shorter DEF RemoveWorkspace
  <2>2. v # w
    <3>1. ASSUME v = w
          PROVE  FALSE
      <4>1. PICK u \in 1..Len(ws.tabs) : q \in ws.tabs[u].panes
        BY <1>5, <3>1
      <4>2. u = t
        BY <1>1, <1>10
      <4> QED
        BY <1>2, <1>3, <1>10, <4>1, <4>2
    <3> QED
      BY <3>1
  <2>3. CASE v < w
    <3>1. v \in 1..Len(workspaces') /\ workspaces'[v] = workspaces[v]
      BY <1>1, <2>1, <2>3
    <3> QED
      BY <1>4, <3>1
  <2>4. CASE v > w
    <3>1. v - 1 \in 1..n - 1 /\ ~(v - 1 < w) /\ (v - 1) + 1 = v
      BY <1>1, <2>4
    <3> QED
      BY <1>4, <2>1, <3>1
  <2> QED
    BY <1>1, <2>2, <2>3, <2>4
<1>11. CASE workspaces' = [workspaces EXCEPT ![w].tabs[t].panes = @ \ {p}]
  <2> DEFINE new == [tab EXCEPT !.panes = tab.panes \ {p}]
  <2>1. workspaces' = [workspaces EXCEPT ![w].tabs[t] = new] /\ new.panes = tab.panes \ {p}
    BY <1>1, <1>11
  <2> HIDE DEF new
  <2> QED
    BY <1>7, <2>1
<1> QED
  BY <1>8, <1>9, <1>10, <1>11 DEF ClosePane

LEMMA HousedHere ==
    Inv => (Housed <=> AllAtHome)
BY HousedIsAllAtHome DEF Inv, Placed

LEMMA HousedThen ==
    Inv /\ Inv' => (Housed <=> AllAtHome) /\ (Housed' <=> AllAtHome')
BY HousedHere, PTL

LEMMA Acts ==
    ASSUME [Next]_vars, ~UNCHANGED vars
    PROVE  status = "running" /\ (Dispatch \/ Answer \/ Mouse \/ Outside)
BY DEF Next, Terminated

LEMMA InvStep ==
    Inv /\ [Next]_vars => Inv'
<1> SUFFICES ASSUME Inv, [Next]_vars PROVE Inv'
  OBVIOUS
<1>1. IInv'
  BY Step DEF Inv
<1>2. CASE UNCHANGED vars
  BY <1>1, <1>2
     DEF Inv, Placed, Trees, Pointing, Asking, vars, Tidy, IsTab, Separate, Pointed
<1>3. CASE ~UNCHANGED vars
  BY <1>1, <1>3, Acts, PlacedStep DEF Inv
<1> QED
  BY <1>2, <1>3

\* The answers to the two dialogs.
LEMMA AnswerLosesOne ==
    ASSUME Inv, Inv', status = "running", Housed, NEW p,
           IF focused_id = p THEN CloseFocusedPane
           ELSE UNCHANGED <<status, workspaces, active_workspace, routes, infos>>
    PROVE  HeldPanes \ HeldPanes' \subseteq {p}
<1>1. CASE CloseFocusedPane /\ focused_id = p
  <2>1. /\ active_workspace \in 1..Len(workspaces)
        /\ active_ws.active_tab \in 1..Len(workspaces[active_workspace].tabs)
    BY Here DEF Inv, Placed
  <2>2. AllAtHome
    BY HousedThen
  <2> QED
    BY <1>1, <2>1, <2>2, ClosingLosesOne DEF CloseFocusedPane, Inv, Placed
<1>2. CASE UNCHANGED workspaces
  BY <1>2 DEF HeldPanes, PanesOf
<1> QED
  BY <1>1, <1>2

-----------------------------------------------------------------------------
(* The theorems.                                                           *)

(* The inductive invariant holds in every reachable state: among the rest, *)
(* the active workspace exists, which most handlers take for granted.      *)
THEOREM Invariance == Spec => []IInv
BY Beginning, Step, PTL DEF Spec

(* The entries of the sidebar and of the agents, kept by position, are     *)
(* those of the workspaces, though the lists grow at different times.      *)
THEOREM InfosFollow == Spec => []InfosAligned
<1>1. IInv => InfosAligned
  BY DEF IInv
<1> QED
  BY <1>1, Invariance, PTL

(* Wherever a workspace is removed, a session's route leads to the         *)
(* workspace it was made for, or there is none.                            *)
THEOREM RoutesFollow == Spec => []RoutesHold
<1>1. IInv => RoutesHold
  BY DEF IInv
<1> QED
  BY <1>1, Invariance, PTL

(* The whole inductive invariant: with the positions, the trees and tabs   *)
(* in order, no pane in two of them, every active tab there, and what the  *)
(* gestures and dialogs remember of the right kind.                        *)
THEOREM PlacesInvariance == Spec => []Inv
<1>1. Init => Inv
  BY Beginning, StartsPlaced DEF Inv
<1> QED
  BY <1>1, InvStep, PTL DEF Spec

(* The types of the variables, and the bounds of every position the code   *)
(* indexes with: the active tab of every workspace exists until a click    *)
(* that ends on a tab which has gone stops the program (MouseInput).       *)
THEOREM Types == Spec => []TypeOK
<1>1. Inv => TypeOK
  BY TypesThen DEF Inv
<1> QED
  BY <1>1, PlacesInvariance, PTL

(* A pane is held by one tab and drawn in one place, whatever was split,   *)
(* extracted, merged and closed: its exit and its hooks find it by its id. *)
THEOREM OnePlaceForAPane == Spec => []OnePlace
<1>1. Inv => OnePlace
  BY OnePlaceThen DEF Inv, Placed
<1> QED
  BY <1>1, PlacesInvariance, PTL

(* No pane changes its workspace and no id is used again: a hook or an     *)
(* exit that arrives late does not reach a pane made since.                *)
THEOREM PanesStayHome == Spec => PanesStay
<1> DEFINE Act == \A w \in DOMAIN workspaces, v \in DOMAIN workspaces' :
                      LET old == PanesOf(workspaces[w]) new == PanesOf(workspaces'[v])
                      IN /\ (workspaces[w].id # workspaces'[v].id => old \cap new = {})
                         /\ (workspaces[w].id = workspaces'[v].id =>
                                \A p \in new \ old : p >= next_pane_id)
<1>1. Inv /\ Inv' /\ [Next]_vars => [Act]_workspaces
  <2> SUFFICES ASSUME Inv, Inv', [Next]_vars, workspaces' # workspaces
               PROVE  Act
    OBVIOUS
  <2>1. status = "running" /\ (Dispatch \/ Answer \/ Mouse \/ Outside)
    <3>1. ~UNCHANGED vars
      BY DEF vars
    <3> QED
      BY <3>1, Acts
  <2>2. Trees /\ Moves
    BY <2>1, PlacedStep DEF Inv, Placed
  <2>3. DOMAIN workspaces = 1..Len(workspaces) /\ DOMAIN workspaces' = 1..Len(workspaces')
    BY ListsAreSequences DEF Inv, IInv, Positions, AreWorkspaces
  <2> QED
    BY <2>2, <2>3, MovesKeepPanes
<1> QED
  BY <1>1, PlacesInvariance, PTL DEF Spec, PanesStay

(* A pane, or the focus, leaves its tab's tree in one way only: a tab that *)
(* execute_tab_to_pane puts next to a pane of another tab.                 *)
THEOREM OnlyMergesUnhouse == Spec => OnlyAMissedMergeUnhouses
<1>1. Inv /\ Inv' /\ [Next]_vars => [Housed => Housed' \/ MissedMerge]_workspaces
  <2> SUFFICES ASSUME Inv, Inv', [Next]_vars, workspaces' # workspaces, Housed
               PROVE  Housed' \/ MissedMerge
    OBVIOUS
  <2>1. status = "running" /\ (Dispatch \/ Answer \/ Mouse \/ Outside)
    <3>1. ~UNCHANGED vars
      BY DEF vars
    <3> QED
      BY <3>1, Acts
  <2>2. AllAtHome => MissedMerge \/ AllAtHome'
    BY <2>1, PlacedStep DEF Inv
  <2> QED
    BY <2>2, HousedThen
<1> QED
  BY <1>1, PlacesInvariance, PTL DEF Spec, OnlyAMissedMergeUnhouses

(* A yes closes no pane but the one the dialog was opened for, whatever    *)
(* the focus, the tabs and the workspaces did while it was open.           *)
THEOREM ConfirmedCloseIsExact == Spec => ConfirmedCloseHitsItsPane
<1> DEFINE Kills == AnswerKill /\ Housed => HeldPanes \ HeldPanes' \subseteq {confirm.kill}
           Closes == AnswerClose /\ Housed => HeldPanes \ HeldPanes' \subseteq {confirm.close}
<1>1. Inv /\ Inv' /\ [Next]_vars => [Kills /\ Closes]_workspaces
  <2> SUFFICES ASSUME Inv, Inv', [Next]_vars, workspaces' # workspaces
               PROVE  Kills /\ Closes
    OBVIOUS
  <2>1. status = "running"
    <3>1. ~UNCHANGED vars
      BY DEF vars
    <3> QED
      BY <3>1, Acts
  <2>2. Kills
    BY <2>1, AnswerLosesOne DEF AnswerKill
  <2>3. Closes
    BY <2>1, AnswerLosesOne DEF AnswerClose
  <2> QED
    BY <2>2, <2>3
<1> QED
  BY <1>1, PlacesInvariance, PTL DEF Spec, ConfirmedCloseHitsItsPane
=============================================================================
