SPECIFICATION Spec
CONSTANTS
  Cards = {a, b}
  HighCap = {b}
  NoCard = NoCard
  MaxEvents = 2
  MaxTries = 1
INVARIANTS VolumeUnchanged
CHECK_DEADLOCK FALSE
