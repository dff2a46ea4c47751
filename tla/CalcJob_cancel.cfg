SPECIFICATION Spec
CONSTANTS
  Chunks = {1}
  NumWaves = 1
  Wave <- OneWave
  Size <- OneSize
  Outcomes <- OneOutcomes
  Workers = {w1}
  MaxRetries = 2
  FaultKinds = {}
  MaxFaults = 0
PROPERTIES
  CancelStands
CHECK_DEADLOCK FALSE
