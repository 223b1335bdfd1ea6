SPECIFICATION Spec
CONSTANTS
  Clients = {c1, c2}
  Nobody = nobody
  Lease = 2
PROPERTIES
  OnlyOwnerFrees
CHECK_DEADLOCK FALSE
