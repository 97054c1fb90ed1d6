SPECIFICATION Spec
CONSTANTS
  SS = 2
  CardSize = 30
  Fuel = 100
  MaxNest = 2
  ErrLine <- MCErr
  Layout <- MCLayout
  FatTypes = {12, 16, 32}
  FaultKinds <- MCFaults
  MaxFaults = 1
  MaxLines = 2
  MaxReads = 3
  MaxAccess = 60
  LineLens = {1, 5}
  ReadLens = {1, 3}
  SeekTo = {2}
INVARIANTS TypeOK WindowCoherent ChainsSound LogKept ReadsRight BootKept 
PROPERTIES LinksKept
CHECK_DEADLOCK FALSE
