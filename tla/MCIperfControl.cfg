SPECIFICATION Spec
CONSTANTS
  c1 = c1
  c2 = c2
  Clients <- MCClients
  NumStreams = 2
  MaxTests = 2
  SetsTos = FALSE
  Disturbances <- Everybody
SYMMETRY Symmetric
INVARIANTS
  TypeOK
  TestIsWhole
  CompletedMeansServed
CHECK_DEADLOCK FALSE
