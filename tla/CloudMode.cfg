\* A phone that sends its frames to the server, two in a request.
\* The camera and the user may stop, which is no deadlock.
CHECK_DEADLOCK FALSE
SPECIFICATION FairOffloadSpec
CONSTANTS
  InitialEffects = 1
  StageCap = 2
  EndCap = 20
  MaxTasks = 2
  MaxThreads = 3
  MaxQueues = 2
  MaxFrames = 4
  MaxStops = 0
  MaxFaults = 0
  Connection = {phone}
  BatchSize = {2}
  Phone = phone
  K = 1
  PhoneCap = 2
  MaxEdits = 1
INVARIANTS
  OffloadTypeOK
  ListsAgree
  FramesAccounted
  ShownTreated
  ScreenInOrder
PROPERTIES
  EditsReturn
