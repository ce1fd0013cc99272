SPECIFICATION Spec
CONSTANTS
  MaxCalls = 3
  MaxRounds = 1
CHECK_DEADLOCK FALSE
INVARIANTS
  SoundPays
  OnePerHangup
PROPERTIES
  Reopens
