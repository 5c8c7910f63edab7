SPECIFICATION MCSpec
CONSTANTS
  Capacity = 3
  ChunkSizes = {1, 2, 5}
  MaxChunks = 4
  MaxAttempts = 2
  Titles = {t1, t2, t3}
  MaxTitles = 5
  None = None
  MaxPackets = 3
  MaxFaults = 1
CHECK_DEADLOCK FALSE
INVARIANT WorkersSound
PROPERTIES NewestShown WorkersEnd
