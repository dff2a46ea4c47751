SPECIFICATION FairSpec
CONSTANTS
  c1 = c1
  c2 = c2
  y1 = y1
  m1 = m1
  m2 = m2
  Clients = {c1, c2}
  Yarns = {y1}
  BatchOrder <- Order
  MaxAttempts = 3
  MaxOps = 4
INVARIANTS
  TypeOK
  VersionLine
  TypesInStep
  HeadShowsApproved
  GaveUpToOthers
PROPERTIES
  FrozenWhileLocked
  RequestsEnd
CHECK_DEADLOCK FALSE
