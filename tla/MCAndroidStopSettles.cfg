SPECIFICATION FairSpec
CONSTANTS
  c1 = c1
  c2 = c2
  Callers <- OneCaller
  MaxSessions = 1
  MaxJsonEvents = 1
PROPERTY StopSettles
CHECK_DEADLOCK FALSE
