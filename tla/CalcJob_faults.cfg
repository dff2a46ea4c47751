SPECIFICATION Spec
CONSTANTS
  Chunks = {1, 2}
  NumWaves = 2
  Wave <- ChainWave
  Size <- PairSize
  Outcomes <- MixedOutcomes
  Workers = {w1, w2}
  MaxRetries = 1
  FaultKinds = {"db", "publish", "call", "slow", "workerCrash", "coordCrash", "chunkTTL", "lateTTL", "doneTTL"}
  MaxFaults = 1
SYMMETRY MCWorkers
INVARIANTS
  TypeOK
  WaveBarrier
  ReportedAfterAllChunks
  ProgressClaimed
  TalliesClaimed
  NoLostCompletion
  RestConsistent
PROPERTIES
  KeepsPromise
CHECK_DEADLOCK FALSE
