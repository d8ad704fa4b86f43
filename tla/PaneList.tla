------------------------------ MODULE PaneList ------------------------------
(***************************************************************************)
(* What a tab's split-pane tree is to its users: the panes in tree order   *)
(* (left to right, top to bottom), the focused pane and the zoom flag.     *)
(* Every method of LayoutTree returns a new value; so do these operators.  *)
(* The shape of the tree, its directions and its ratios are left out: they *)
(* decide where a pane is drawn, never which panes there are.              *)
(***************************************************************************)
EXTENDS Integers, Sequences, SequencesExt

NewLayout(pane) == [panes |-> <<pane>>, focused |-> pane, zoomed |-> FALSE]

Leaves(layout) == {layout.panes[i] : i \in DOMAIN layout.panes}

PlaceOf(pane, layout) == CHOOSE i \in DOMAIN layout.panes : layout.panes[i] = pane

\* split_insert: the inserted pane becomes the focus even when `target` is
\* not in the tree, where the tree itself stays as it was.
InsertLeaf(layout, target, pane, first) ==
    [panes |-> IF target \in Leaves(layout)
               THEN InsertAt(layout.panes,
                             PlaceOf(target, layout) + (IF first THEN 0 ELSE 1),
                             pane)
               ELSE layout.panes,
     focused |-> pane, zoomed |-> FALSE]

SplitLeaf(layout, target, pane) == InsertLeaf(layout, target, pane, FALSE)

\* close returns None exactly when the pane is the whole tree.
IsWhole(layout, pane) == layout.panes = <<pane>>

\* The loop of execute_tab_to_pane: the first of `order` goes next to the
\* target, the others next to the first.
InsertLeaves(layout, target, order, first) ==
    LET after[n \in 0..Len(order)] ==
            IF n = 0 THEN layout
            ELSE InsertLeaf(after[n - 1], IF n = 1 THEN target ELSE Head(order),
                            order[n], first)
    IN after[Len(order)]

Without(layout, pane) ==
    IF pane \in Leaves(layout)
    THEN RemoveAt(layout.panes, PlaceOf(pane, layout)) ELSE layout.panes

\* Wrong: the focus stays on the closed pane.
CloseLeafKeepingFocus(layout, pane) ==
    [panes |-> Without(layout, pane), focused |-> layout.focused, zoomed |-> FALSE]

CloseLeaf(layout, pane) ==
    LET rest == Without(layout, pane)
    IN [panes |-> rest,
        focused |-> IF layout.focused = pane THEN Head(rest) ELSE layout.focused,
        zoomed |-> FALSE]

FocusLeaf(layout, pane) ==
    IF pane \in Leaves(layout) THEN [layout EXCEPT !.focused = pane] ELSE layout

\* navigate(Next) is a step of 1, navigate(Prev) of -1; a focus that is not
\* in the tree counts as the first pane.
StepFocus(layout, step) ==
    LET n == Len(layout.panes)
        at == IF layout.focused \in Leaves(layout)
              THEN PlaceOf(layout.focused, layout) ELSE 1
    IN IF n <= 1 THEN layout
       ELSE [layout EXCEPT !.focused = layout.panes[((at - 1 + step) % n) + 1]]

ToggleZoom(layout) ==
    IF Len(layout.panes) <= 1 THEN layout ELSE [layout EXCEPT !.zoomed = ~@]

\* extract_pane gives a result only for a pane that has company.
Extractable(layout, pane) == Len(layout.panes) > 1 /\ pane \in Leaves(layout)

\* The panes that have a rectangle on the screen.
Visible(layout) == IF layout.zoomed THEN {layout.focused} ELSE Leaves(layout)
=============================================================================
