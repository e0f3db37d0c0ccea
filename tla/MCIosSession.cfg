SPECIFICATION FairSpec
CONSTANTS
  MaxSessions = 2
  MaxJsonEvents = 2
  MaxPending = 1
INVARIANTS
  TypeOK
  ReachesItsOwn
  StartIsAccepted
  SettledIsReleased
PROPERTIES
  RefinesLifecycle
  StopSettles
CHECK_DEADLOCK FALSE
