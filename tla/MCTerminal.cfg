SPECIFICATION Spec
CONSTANTS
  Scopes <- MCScopes
  Pictures = {p, q}
  Counts = {1, 2, 3}
  TabWidth = 2
  Nothing = Nothing
  IdMax = 2
  MaxScrolled = 2
  MaxImages = 2
  MaxCommands = 1
  MaxIds = 2
PROPERTIES
  ImagesTrackTheText
  WidePairsStayWhole
  CursorLeavesByRestoreOnly
  WrapWaitsAtTheEdge
