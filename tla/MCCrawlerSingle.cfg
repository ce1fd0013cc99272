SPECIFICATION Spec
CONSTANTS
  s = s
  a = a
  b = b
  c = c
  d = d
  e = e
  x = x
  bad = bad
  URL = {s, a, b, c, d, e, x}
  Scope = {s, a, b, c, d, e}
  Seed = s
  Malformed = bad
  NoWorker = none
  Links <- MCDeepLinks
  Flaky = {}
  Workers = {w1}
  MaxDepth = 4
  MaxLinks = 12
  JobsCap = 8
CHECK_DEADLOCK FALSE
INVARIANTS
  CompleteCrawl
