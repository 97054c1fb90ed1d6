SPECIFICATION GeckoSpec
CONSTANTS
  InSize = 2
  OutSize = 2
  SlowSize = 4
  MaxReq = 2
  MaxCard = 1
  Kinds = {"slowReply"}
  Script <- AnyKind
  NoReq = NoReq
  MaxUpload = 1
INVARIANTS QueueExact
CHECK_DEADLOCK FALSE
