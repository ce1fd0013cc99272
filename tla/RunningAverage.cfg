SPECIFICATION Spec
CONSTANTS
  BUFFER_SIZE = 4
  Minute = 2
  MaxRead = 3
  MaxTime = 5
  MaxNumbers = 7
CHECK_DEADLOCK FALSE
INVARIANTS
  Exact
  InBounds
