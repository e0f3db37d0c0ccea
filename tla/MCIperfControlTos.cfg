SPECIFICATION Spec
CONSTANTS
  c1 = c1
  c2 = c2
  Clients <- MCClients
  NumStreams = 2
  MaxTests = 1
  SetsTos = TRUE
  Disturbances <- OneClient
INVARIANTS
  BystanderHarmless
CHECK_DEADLOCK FALSE
