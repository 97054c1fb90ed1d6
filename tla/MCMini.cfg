SPECIFICATION FairSpec
CONSTANTS
  BOOT2_END = 5
  BLOCK_SIZE = 3
  Counts = 8
  Flashes <- MCFlashes
  Word = 15
  PPC_MEM1_END = 3
  PPC_MEM2_START = 8
  PPC_MEM2_END = 12
  PHDR_MAX = 3
  Elfs <- MCElfs
  Images <- MCImages
  UpBuf = 8
  Vec = 10
  BufferMax = 2
  Timers = 4
  Timeout = 1
  OutSize = 1
  Uploads <- MCUploads
  MaxEvents = 2
INVARIANTS TypeOK LoaderInStep VectorSound 
PROPERTIES StartsWhole UploadEnds
CHECK_DEADLOCK FALSE
