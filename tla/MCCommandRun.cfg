SPECIFICATION Spec
CONSTANTS
  a = a
  b = b
  x = x
  y = y
  Item = {a, b}
  Letter = {x, y}
  Contains <- MCContains
  Script <- MCScript
  MaxLines = 3
  MaxInput = 1
INVARIANTS
  AnswersFollowQuestions
  ListIsTheQuestions
PROPERTIES
  EndIsShown
