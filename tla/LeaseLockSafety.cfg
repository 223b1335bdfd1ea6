SPECIFICATION FairSpec
CONSTANTS
  Clients = {c1, c2, c3}
  Nobody = nobody
  Lease = 3
INVARIANTS
  TypeOK
  MutualExclusion
PROPERTIES
  FreedByOwnerOrLapsed
  KeyIsFreed
CHECK_DEADLOCK FALSE
