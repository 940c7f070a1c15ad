SPECIFICATION FairSpec
CONSTANTS
  Enqueues = {e1, e2, e3}
  Flushes = {f1}
  MaxEvents = 7
  MaxBurst = 3
  MaxBatchSize = 2
  MaxQueueSize = 2
  MaxConsecutiveFailures = 2
  ByteLimit = TRUE
  Unsendable <- SecondEvent
INVARIANTS
  MemoryBounded
  NothingLeftBehind
PROPERTIES
  IsOrderedStream
  FlushIsHonest
  WaitersReturn
CHECK_DEADLOCK FALSE
