SPECIFICATION Spec
CONSTANTS
  c1 = c1
  c2 = c2
  Callers <- OneCaller
  MaxSessions = 1
  MaxJsonEvents = 1
INVARIANT FinalRelease
CHECK_DEADLOCK FALSE
