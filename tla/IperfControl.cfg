SPECIFICATION FairSpec
CONSTANTS
  CharIsSigned = TRUE
  ArgLists <- Lines
  MaxLaunches = 2
  MaxBlocks = 1
  MaxFaults = 1
  MaxOthers = 1
INVARIANTS TypeOK InStep ResultsAreServers ServerKnowsTest ReportsHaveIntervals StreamsClosed SomeoneActs
PROPERTY EveryTestEnds
\* The launches are used up, or the process has crashed.
CHECK_DEADLOCK FALSE
