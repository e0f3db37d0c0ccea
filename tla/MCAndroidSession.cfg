SPECIFICATION FairSpec
CONSTANTS
  c1 = c1
  c2 = c2
  Callers <- TwoCallers
  MaxSessions = 2
  MaxJsonEvents = 2
INVARIANTS
  TypeOK
  SettledIsReleased
  PointersAreLive
  SessionIsOwn
  OutcomeIsRight
PROPERTIES
  StopPreventsRun
  RefinesLifecycle
  DeliveredStopEnds
  ClientSettles
CHECK_DEADLOCK FALSE
