SPECIFICATION FairSpec
CONSTANTS
  s = s
  a = a
  b = b
  c = c
  d = d
  e = e
  x = x
  bad = bad
  URL = {s, a, b, c, d, e, x}
  Scope = {s, a, b, c, d, e}
  Seed = s
  Malformed = bad
  NoWorker = none
  Links <- MCLinks
  Flaky = {a}
  Workers = {w1, w2, w3}
  MaxDepth = 3
  MaxLinks = 4
  JobsCap = 1
CHECK_DEADLOCK FALSE
INVARIANTS
  TypeOK
  VisitBound
  DepthBound
  NothingLeft
  CleanShutdown
  FetchedOnce
PROPERTIES
  Refines
  Terminates
