SPECIFICATION FairSpec
CONSTANTS
  Products = {1, 2, 3, 4}
  Links <- MCLinks
  ChunkSize = 2
  MaxChunkSize = 3
  MaxEdits = 1
INVARIANTS
  TypeOK
  UpstreamsEarlier
  DegreesExact
  PlacedOnce
  NoIdleWave
  CyclicExact
  ChunksPartition
  GraphClosed
PROPERTIES
  PlanEnds
CHECK_DEADLOCK FALSE
