SPECIFICATION Spec
CONSTANTS
  MaxSessions = 2
  MaxJsonEvents = 1
  MaxPending = 0
INVARIANT FinishedMeansCompleted
CHECK_DEADLOCK FALSE
