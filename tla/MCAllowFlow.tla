---------------------------- MODULE MCAllowFlow ----------------------------
(* Values for model checking AllowFlow: two hook processes in the second   *)
(* workspace and a pane in it that shows prompts.                          *)
EXTENDS AllowFlow

CONSTANTS c1, c2, p1, w1, w2, read, write

TwoWorkspaces == <<w1, w2>>

SecondOnly == <<w2>>

AllInSecond == [x \in Client \cup Pane |-> w2]

\* A rule made from the request of c1 or from a prompt does not cover c2.
Asks == [x \in Client \cup Pane |-> IF x = c2 THEN write ELSE read]

ExactRules == [k \in Kind |-> {k}]

\* A user may write any rules; the key a adds the ones that allow.
NoneOrDenyWrite == {<<>>, <<[kind |-> write, decision |-> "deny"]>>}

=============================================================================
