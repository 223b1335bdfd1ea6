SPECIFICATION Spec
CONSTANTS
  Callers = {c1, c2}
  Max = 1
  Window = 3
  Grace = 1
  MaxTime = 6
SYMMETRY Symmetry
INVARIANTS
  TypeOK
  WindowBound
PROPERTIES
  RefusalIsJustified
CHECK_DEADLOCK FALSE
