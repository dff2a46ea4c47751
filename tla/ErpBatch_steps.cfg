SPECIFICATION FairSpec
CONSTANTS
  h1 = h1
  NumBatches = 2
  Heads = {h1}
  MaxCalls = 4
  MaxFaults = 1
  MaxUnlocks = 1
  MaxEdits = 1
INVARIANTS
  TypeOK
  PushedOnce
  FailedNeverLanded
  UnlockedMeansRepush
  LockedIsCurrent
  OneActive
  DriftIsLogged
  OneLateCall
PROPERTIES
  RepushNeverAdvances
  LockedFrozen
  StepsEnd
CHECK_DEADLOCK FALSE
