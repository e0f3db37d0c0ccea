SPECIFICATION FairSpec
CONSTANTS
  c1 = c1
  c2 = c2
  Clients <- MCClients
  NumStreams = 2
  MaxTests = 1
  SetsTos = FALSE
  Disturbances <- AllButOne
PROPERTIES
  ClientEnds
  ServerIsFreed
  ClientIsEngine
  AdmittedIsServed
CHECK_DEADLOCK FALSE
