------------------------------ MODULE MCFrames ------------------------------
(* Frames for TLC: two panes of two lines, a character two cells wide and    *)
(* one the fonts lack; an atlas so small that they fill its rows.            *)
EXTENDS Frames, TLC

CONSTANTS plain, wide, emoji, tofu, p1, p2, p, q

Symmetric == Permutations({p1, p2})

Trait(cells, e, m, k) == [cells |-> cells, emoji |-> e, empty |-> m, colour |-> k]

MCTraits == [c \in Char |-> CASE c = wide -> Trait(2, FALSE, FALSE, FALSE)
                             [] c = emoji -> Trait(2, TRUE, FALSE, TRUE)
                             [] c = tofu -> Trait(1, FALSE, TRUE, TRUE)
                             [] OTHER -> Trait(1, FALSE, FALSE, FALSE)]
=============================================================================
