-------------------------- MODULE SessionDirectory --------------------------
(***************************************************************************)
(* What the session daemon promises: a session is opened once, is live     *)
(* until it ends, and never comes back; a live session has a record on     *)
(* disk, one that is not live has none, and a record left behind does not  *)
(* outlast the daemon's next start.  All this as far as the disk obeys:    *)
(* the exceptions are the sessions it is stuck on.                         *)
(***************************************************************************)
CONSTANT Session

VARIABLES
    up,         \* the daemon is running
    live,       \* the sessions it lists
    ended,      \* the sessions that are over
    recorded,   \* the sessions with a readable record on disk
    stuck       \* those whose record the disk failed to write or remove

vars == <<up, live, ended, recorded, stuck>>

\* The records agree with the sessions as far as the disk obeyed.
Agreed ==
    /\ live' \ stuck' \subseteq recorded'
    /\ recorded' \ live' \subseteq stuck'

Init ==
    /\ up = FALSE
    /\ live = {} /\ ended = {} /\ recorded = {} /\ stuck = {}

Start ==
    /\ ~up /\ up' = TRUE
    /\ recorded' \in SUBSET recorded
    /\ stuck' = recorded'
    /\ UNCHANGED <<live, ended>>

Open(s) ==
    /\ up
    /\ s \notin live \cup ended
    /\ live' = live \cup {s}
    /\ recorded' = recorded \cup {s}
    /\ stuck' = stuck \ {s}
    /\ UNCHANGED <<up, ended>>

\* An attempt to open s that is given up.
Abandon(s) ==
    /\ up
    /\ s \notin live \cup ended
    /\ ended' = ended \cup {s}
    /\ stuck' = stuck \cup {s}
    /\ UNCHANGED <<up, live, recorded>>

\* Records of live sessions are written again, and may be spoilt in doing so.
Rewrite ==
    /\ up
    /\ recorded' \in SUBSET (recorded \cup live)
    /\ stuck' \in SUBSET (stuck \cup live)
    /\ recorded \ live \subseteq recorded'
    /\ stuck \ live \subseteq stuck'
    /\ Agreed
    /\ UNCHANGED <<up, live, ended>>

\* The sessions S end; no record appears, and none of a live one is lost.
End(S) ==
    /\ up
    /\ live' = live \ S
    /\ ended' = ended \cup S
    /\ recorded' \in SUBSET recorded
    /\ stuck' \in SUBSET Session
    /\ recorded \cap live' \subseteq recorded'
    /\ stuck' \cap live' = stuck \cap live'
    /\ Agreed
    /\ UNCHANGED up

\* The daemon stops; S is what it was writing at that moment.
Stop(S) ==
    /\ up /\ up' = FALSE
    /\ live' = {}
    /\ ended' = ended \cup live \cup S
    /\ recorded' = recorded \ S
    /\ stuck' = {}

Next ==
    \/ Start
    \/ \E s \in Session : Open(s) \/ Abandon(s)
    \/ Rewrite
    \/ \E S \in SUBSET live : End(S)
    \/ \E S \in SUBSET Session : S \cap ended = {} /\ Stop(S)

Spec == Init /\ [][Next]_vars

=============================================================================
