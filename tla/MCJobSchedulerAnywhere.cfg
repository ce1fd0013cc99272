SPECIFICATION Spec
CONSTANTS
  Times = {0, 1}
  Low0 <- MCLow0
  Low1 <- MCLow1
  High = 3
  MaxTurns = 4
CHECK_DEADLOCK FALSE
INVARIANTS
  NothingFound
