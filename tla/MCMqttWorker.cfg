SPECIFICATION FairSpec
CONSTANTS
  Requests = {r1, r2}
  Bodies = {hold, next}
  CacheCapacity = 1
  QueueCapacity = 2
  InboxCapacity = 1
  MaxAttempts = 1
  ClientId = TRUE
  MaxChanges = 2
  MaxSends = 3
  MaxFaults = 1
  None = None
CHECK_DEADLOCK FALSE
INVARIANTS MirrorSound
PROPERTIES NoRepeatWhileCached Converges
