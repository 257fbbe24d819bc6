SPECIFICATION FairSpec
CONSTANTS
  CharIsSigned = TRUE
  SEC_TO_US = 4
  TimeRange = 32
  Tests <- BothTests
  StartTimes = {0, 13}
  MaxTime = 9
  MaxWrite = 3
  MaxFaults = 2
INVARIANTS LossBracketed ResultsAddUp
PROPERTIES ConnectsUnlessLost RateKept EndsAsAsked
\* The test is done, or the clock has stopped.
CHECK_DEADLOCK FALSE
