\* Setups that are accepted and refused on either side; every message can be read in
\* pieces.
CONSTANTS
  Setups <- MCSetups
  SizeValues = 268435456
  FileBytes = 7
  Mss = {0, 1448}
  LengthSize = 2
  BodySize = 2
  IntSize = 2
SPECIFICATION FairSpec
CHECK_DEADLOCK FALSE
INVARIANTS
  OptionsCommute
  SameTest
  HeardIsSent
  RefusalIsTold
PROPERTIES
  ExchangeEnds
