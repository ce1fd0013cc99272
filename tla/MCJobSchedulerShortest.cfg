SPECIFICATION Spec
CONSTANTS
  Times = {0, 1, 2}
  Low0 <- MCLow0
  Low1 <- MCLow1
  High = 3
  MaxTurns = 6
CHECK_DEADLOCK FALSE
PROPERTIES
  ShortestFirst
