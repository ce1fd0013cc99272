SPECIFICATION FairSpec
CONSTANTS
  Reader = {r1, r2, r3}
  Size = 2
  Copies = 1
  Limit = 3
CHECK_DEADLOCK FALSE
INVARIANTS
  TypeOK
  FirstWhole
PROPERTIES
  FirstAlone
  Served
  Updates
