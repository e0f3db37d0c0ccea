\* Two streams, and one descriptor of another thread, which gets each number that is free.
CONSTANTS
  Tests <- MCTests
  NumStreams = 2
  MaxFd = 13
  MaxOthers = 1
SPECIFICATION Spec
CHECK_DEADLOCK FALSE
INVARIANTS
  LeaksAreKnown
  ClosesOwn
PROPERTIES
  FailureReleases
