\* Two streams in both directions; three packets are enough for a gap and its repair, one
\* duplicate for each kind of datagram.
CONSTANTS
  NumStreams = 2
  Tests <- MCTests
  Multisend = 2
  ReplyLimit = 2
  MaxPackets = 3
  MaxDups = 1
SPECIFICATION FairSpec
CHECK_DEADLOCK FALSE
INVARIANTS
  PairedStreams
  CountersAreExact
  ReportAddsUp
PROPERTIES
  TestEnds
