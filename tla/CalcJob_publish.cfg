SPECIFICATION Spec
CONSTANTS
  Chunks = {1}
  NumWaves = 1
  Wave <- OneWave
  Size <- OneSize
  Outcomes <- OneOutcomes
  Workers = {w1}
  MaxRetries = 2
  FaultKinds = {"publish"}
  MaxFaults = 1
INVARIANTS
  SweeperRecovers
CHECK_DEADLOCK FALSE
