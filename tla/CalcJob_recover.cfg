SPECIFICATION FairSpec
CONSTANTS
  Chunks = {1, 2}
  NumWaves = 1
  Wave <- FlatWave
  Size <- PairSize
  Outcomes <- PlainOutcomes
  Workers = {w1}
  MaxRetries = 2
  FaultKinds = {"call", "workerCrash", "chunkTTL"}
  MaxFaults = 2
INVARIANTS
  NoLostCompletion
  RestConsistent
PROPERTIES
  JobTerminates
CHECK_DEADLOCK FALSE
