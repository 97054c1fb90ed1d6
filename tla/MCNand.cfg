SPECIFICATION FairSpec
CONSTANTS
  NPages = 6
  BlockPages = 2
  BootPages = 4
  MinPages = {0, 2, 6}
  WritePages = {0, 3, 6}
  ReadPages = {0, 4}
  MaxReq = 3
  None = None
INVARIANTS TypeOK AnsweredOnce
PROPERTIES Protected ReadFaithful OperationAnswered
CHECK_DEADLOCK FALSE
