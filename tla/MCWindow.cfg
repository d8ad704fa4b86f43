SPECIFICATION Spec
CONSTANTS
  p1 = p1
  p2 = p2
  Pane = {p1, p2}
  None = None
  Slides = TRUE
  HidesOnLoss = TRUE
  HidesOnEscape = TRUE
  Offered = {"confirm", "tree", "find", "palette", "exec", "timeline"}
  MaxOpen = 2
  Programs = {p2}
INVARIANTS
  DragsEndWithTheButton
  MotionHasAFrame
  KeysHaveOneTaker
