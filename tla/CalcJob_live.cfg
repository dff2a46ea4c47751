SPECIFICATION FairSpec
CONSTANTS
  Chunks = {1, 2}
  NumWaves = 2
  Wave <- ChainWave
  Size <- PairSize
  Outcomes <- MixedOutcomes
  Workers = {w1}
  MaxRetries = 2
  FaultKinds = {"call", "slow", "workerCrash", "chunkTTL"}
  MaxFaults = 1
PROPERTIES
  JobTerminates
CHECK_DEADLOCK FALSE
