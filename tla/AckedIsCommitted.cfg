SPECIFICATION Spec
CONSTANTS
  Instances = {i1}
  Daemons = {d1}
  Recovery = fault_recovery_daemon
  Unread = unread
  Gone = gone
  None = none
  MaxEvents = 1
  MaxLength = 1
  NodeSize = 1
  ScanCount = 10
  IdleKeyKnown = FALSE
  TrimAccepted = FALSE
  StoreFaults = TRUE
INVARIANTS
  AckedIsCommitted
CHECK_DEADLOCK FALSE
