SPECIFICATION Spec
CONSTANTS
  h1 = h1
  NumBatches = 2
  Heads = {h1}
  MaxCalls = 4
  MaxFaults = 1
  MaxUnlocks = 1
  MaxEdits = 1
INVARIANTS
  LockRerunResolves
CHECK_DEADLOCK FALSE
