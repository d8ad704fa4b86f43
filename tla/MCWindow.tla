------------------------------ MODULE MCWindow ------------------------------
(* Window for TLC: two panes, two overlays at a time.                        *)
EXTENDS Window

CONSTANTS p1, p2
=============================================================================
