SPECIFICATION Spec
CONSTANTS
  Word = {1, 2, 3, 4, 5, 6}
  Number = {1, 2, 3}
  MaxLines = 8
  QueueSize = 15
  Undefined = Undefined
CHECK_DEADLOCK FALSE
INVARIANTS
  Ordered
  Rotates
  Sorts
  Complete
PROPERTIES
  LosesOnly
