\* stop() and then start(): is a frame still processed?
SPECIFICATION FairSpec
CONSTANTS
  InitialEffects = 1
  StageCap = 2
  EndCap = 2
  MaxTasks = 1
  MaxThreads = 1
  MaxQueues = 1
  MaxFrames = 1
  MaxStops = 1
  MaxFaults = 0
PROPERTIES
  StagesConsume
