SPECIFICATION Spec
CONSTANTS
  NLines = 2
  LineSize = 2
  FlushLimit = 1
  Buffer <- MCBuffer
INVARIANTS TypeOK SentCurrent ViewCurrent
