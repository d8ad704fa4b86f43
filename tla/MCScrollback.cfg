SPECIFICATION Spec
CONSTANTS
  Line = {a, b}
  Nil = Nil
  Hole = Hole
  Torn = Torn
  HotCapacity = 2
  MaxWarm = 3
INVARIANT TiersAgree
PROPERTY LinesReadBack
