-------------------------------- MODULE Panes --------------------------------
(* What the modules of the window share: its panes, and an Option that is None. *)
CONSTANTS Pane, None
=============================================================================
