SPECIFICATION FairSpec
CONSTANTS
  Calls = {p1}
  Triggers = {t1}
  Listeners = {l1, l2}
  None = none
INVARIANTS
  TypeOK
  BroadcastIsStored
  HandledOnce
  NothingVanishes
PROPERTIES
  InboxDrains
  FlagEndsListeners
CHECK_DEADLOCK FALSE
