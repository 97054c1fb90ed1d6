SPECIFICATION Spec
CONSTANTS
  MaxCmd = 2
  MaxCard = 1
  MaxDma = 0
INVARIANTS PhaseDone
CHECK_DEADLOCK FALSE
