\* Insertion, removal and moves by index: the chain stays wired, and every edit
\* but an insertion between two effects holds for the frames that follow.
SPECIFICATION EditingSpec
CONSTANTS
  InitialEffects = 2
  StageCap = 1
  EndCap = 1
  MaxTasks = 3
  MaxThreads = 6
  MaxQueues = 3
  MaxFrames = 1
  MaxStops = 0
  MaxFaults = 0
  Calls = {"insertFirst", "insertBetween", "remove", "move"}
INVARIANTS
  Wired
  EditsTakeEffect
