SPECIFICATION Spec
CONSTANTS
  a1 = a1
  a2 = a2
  Archivers = {a1, a2}
  MaxBackups = 2
  MaxTime = 3
  MaxCommits = 1
  Failures = TRUE
  NoData = none
SYMMETRY Symmetry
INVARIANTS
  TypeOK
  UsableBackup
  Trimmed
PROPERTIES
  RotationKeepsEnough
