\* An effect is added between two requests: does addFrames return?
\* The clients may stop sending: the server then waits, which is no deadlock.
CHECK_DEADLOCK FALSE
SPECIFICATION FairServerSpec
CONSTANTS
  InitialEffects = 1
  StageCap = 2
  EndCap = 20
  MaxTasks = 2
  MaxThreads = 3
  MaxQueues = 2
  MaxFrames = 2
  MaxStops = 0
  MaxFaults = 0
  Connection = {c1}
  BatchSize = {1}
PROPERTIES
  CallsReturn
