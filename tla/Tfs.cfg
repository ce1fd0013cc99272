SPECIFICATION Spec
CONSTANTS
  Name = {f, g, h}
  Garbled = junk
  NoName = none
  MaxInodes = 2
  MaxFiles = 2
  Blocks = 3
  Sectors = 2
  MaxNodes = 4
  MaxOpens = 4
CHECK_DEADLOCK FALSE
INVARIANTS
  TypeOK
  NamesUnique
  NothingLost
  OnlyFirstSector
PROPERTIES
  FreshDescriptor
  KeepsInode
