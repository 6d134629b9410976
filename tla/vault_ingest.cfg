SPECIFICATION AllSpec
CONSTANTS
  NItems = 1
  NWorkers = 2
  MaxSize = 2
  Chunk = 1
  MaxAttempts = 2
  MaxStarts = 2
  MaxFaults = 2
  MaxExtent = 3
  s1 = s1
  Sources <- MCSources
  Names <- MCNames
  MaxVersion = 2
  PageLoads <- MCPageLoads
  Surfaces <- MCSurfaces
  Passes = 2
  Calls = 2
INVARIANTS
  QueueIsSound
  PagesStay
PROPERTIES
  DecisionsStay
  RunnersEnd
CHECK_DEADLOCK FALSE
