SPECIFICATION FramesSpec
CONSTANTS
  p1 = p1
  p2 = p2
  Pane = {p1, p2}
  None = None
  p = p
  q = q
  Blank = Blank
  plain = plain
  wide = wide
  emoji = emoji
  tofu = tofu
  Char = {Blank, wide, tofu}
  Traits <- MCTraits
  Rows = 2
  AtlasWidth = 6
  AtlasHeight = 3
  CellWidths = {2}
  Picture = {p}
  ImageIds = {1}
  MaxEdits = 3
  MaxHistory = 1
INVARIANTS
  FramesAreFresh
SYMMETRY Symmetric
