SPECIFICATION FairSpec
CONSTANTS
  InSize = 2
  OutSize = 2
  SlowSize = 2
  MaxReq = 3
  MaxCard = 1
  Kinds = {"fastReply", "fastSilent", "slowReply", "slowSilent", "nand", "jump"}
  Script <- MCScript
  NoReq = NoReq
INVARIANTS TypeOK RegistersCurrent AnswerSlotFree NoSleepOverWork RequestAnnounced ServedRequestHeld
PROPERTIES Implements EveryRequestHandled
CHECK_DEADLOCK FALSE
