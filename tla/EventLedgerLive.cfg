SPECIFICATION Spec
CONSTANTS
  Instances = {i1, i2}
  Daemons = {d1}
  Recovery = fault_recovery_daemon
  Unread = unread
  Gone = gone
  None = none
  MaxEvents = 2
  MaxLength = 1
  NodeSize = 1
  ScanCount = 1
  IdleKeyKnown = TRUE
  TrimAccepted = TRUE
  StoreFaults = FALSE
PROPERTIES
  BacklogDrains
  EvictsUnreadOnlyOnBacklog
CHECK_DEADLOCK FALSE
