SPECIFICATION FairSpec
CONSTANTS
  Pid = {p0, p1, p2, p3}
  Main = p0
  NR = 1
  NW = 2
  Size = 2
  Shared = TRUE
  Quits = TRUE
  ExecFails = TRUE
INVARIANTS TypeOK MutualExclusion CopyUniform ReapsAll
CHECK_DEADLOCK FALSE
PROPERTIES NoStarvation
