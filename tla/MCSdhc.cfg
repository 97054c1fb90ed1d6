SPECIFICATION Spec
CONSTANTS
  MaxCmd = 2
  MaxCard = 2
  MaxDma = 1
INVARIANTS TypeOK SuccessIsOwn Armed CardNoticed
PROPERTIES FailureHasCause
CHECK_DEADLOCK FALSE
