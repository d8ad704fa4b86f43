-------------------------- MODULE MCDaemonSessions --------------------------
(* Values for model checking DaemonSessions.                               *)
EXTENDS DaemonSessions, TLC

CONSTANTS w1

\* Every registration is for the same pane: the second replaces the first.
OnePane == [e \in Ext |-> w1]

Symmetry == Permutations(Session) \cup Permutations(Pid)

=============================================================================
