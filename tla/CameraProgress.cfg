\* The camera takes pictures while the effects are edited; the view stops once.
\* After that nothing need happen any more, which is no deadlock.
CHECK_DEADLOCK FALSE
SPECIFICATION FairCameraSpec
CONSTANTS
  InitialEffects = 1
  StageCap = 2
  EndCap = 2
  MaxTasks = 2
  MaxThreads = 3
  MaxQueues = 2
  MaxFrames = 3
  MaxStops = 1
  MaxFaults = 0
INVARIANTS
  CameraNeverWaits
PROPERTIES
  ShownInOrder
  StagesConsume
  InterruptedThreadsEnd
