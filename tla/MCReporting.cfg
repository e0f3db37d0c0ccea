\* Tests of two ticks in which each kind of timer fires; see MCReporting for the tests.
CONSTANTS
  Tests <- MCTests
  Multisend = 3
  Grace = 1
  Second = 1
  DataUntil = 3
  MaxLag = 1
  Horizon = 10
SPECIFICATION FairSpec
CHECK_DEADLOCK FALSE
INVARIANTS
  TimersAreLive
  EveryIntervalIsReported
  IntervalsAddUp
  LimitIsAverage
  KeepsToLimits
PROPERTIES
  TestEnds
