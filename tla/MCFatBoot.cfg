SPECIFICATION Spec
CONSTANTS
  SS = 2
  CardSize = 30
  Fuel = 100
  MaxNest = 2
  ErrLine <- MCErr
  Layout <- MCLayout
  FatTypes = {32}
  FaultKinds <- OneFailure
  MaxFaults = 1
  MaxLines = 2
  MaxReads = 0
  MaxAccess = 60
  LineLens = {1, 3}
  ReadLens = {1, 3}
  SeekTo = {2}
INVARIANTS BootKept
CHECK_DEADLOCK FALSE
