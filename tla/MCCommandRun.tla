---------------------------- MODULE MCCommandRun ----------------------------
(* CommandRun for TLC: every kind of message, two items, one typed letter. *)
EXTENDS CommandRun, TLC

CONSTANTS a, b, x, y

MCContains == (a :> {<<x>>}) @@ (b :> {<<x>>, <<y>>})

MCScript == {[kind |-> "fuzzy", items |-> <<a, b>>], [kind |-> "multi", items |-> <<b, a>>],
             [kind |-> "confirm", default |-> TRUE], [kind |-> "text", default |-> <<x>>],
             [kind |-> "info"], [kind |-> "done", notify |-> TRUE],
             [kind |-> "error"], [kind |-> "invalid"]}
=============================================================================
