SPECIFICATION Spec
CONSTANTS
  Instances = {i1, i2}
  Daemons = {d1, d2}
  Recovery = fault_recovery_daemon
  Unread = unread
  Gone = gone
  None = none
  MaxEvents = 2
  MaxLength = 1
  NodeSize = 1
  ScanCount = 1
  IdleKeyKnown = TRUE
  TrimAccepted = TRUE
  StoreFaults = TRUE
SYMMETRY Symmetry
INVARIANTS
  TypeOK
  SoleHandler
  NoKeyConflict
  NoSilentLoss
  HandIsPendingOrHijacked
  CursorSkipsOnlyEvicted
PROPERTIES
  TrailSpec
CHECK_DEADLOCK FALSE
