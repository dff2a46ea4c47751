SPECIFICATION Spec
CONSTANTS
  Chunks = {1}
  NumWaves = 1
  Wave <- OneWave
  Size <- OneSize
  Outcomes <- OneOutcomes
  Workers = {w1}
  MaxRetries = 2
  FaultKinds = {"workerCrash"}
  MaxFaults = 1
INVARIANTS
  CountedMeansFolded
CHECK_DEADLOCK FALSE
