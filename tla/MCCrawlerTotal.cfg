SPECIFICATION Spec
CONSTANTS
  s = s
  a = a
  b = b
  c = c
  d = d
  e = e
  x = x
  bad = bad
  URL = {s, a, b, c, d, e, x}
  Scope = {s, a, b, c, d, e}
  Seed = s
  Malformed = bad
  NoWorker = none
  Links <- MCLinks
  Flaky = {a}
  Workers = {w1, w2}
  MaxDepth = 3
  MaxLinks = 2
  JobsCap = 6
CHECK_DEADLOCK FALSE
INVARIANTS
  SavedWithinTotal
