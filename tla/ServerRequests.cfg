\* One client: batches, added effects and clears.
\* The clients may stop sending: the server then waits, which is no deadlock.
CHECK_DEADLOCK FALSE
SPECIFICATION FairServerSpec
CONSTANTS
  InitialEffects = 1
  StageCap = 2
  EndCap = 20
  MaxTasks = 3
  MaxThreads = 5
  MaxQueues = 3
  MaxFrames = 3
  MaxStops = 0
  MaxFaults = 1
  Connection = {c1}
  BatchSize = {1, 2}
INVARIANTS
  ServerTypeOK
  AnswersOwnFrames
  NoLeftovers
PROPERTIES
  CallsReturnUnlessLost
