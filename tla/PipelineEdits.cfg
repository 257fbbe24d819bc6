\* Appends, clears, stop() and an effect that throws while frames flow.
SPECIFICATION Spec
CONSTANTS
  InitialEffects = 0
  StageCap = 1
  EndCap = 2
  MaxTasks = 3
  MaxThreads = 4
  MaxQueues = 2
  MaxFrames = 2
  MaxStops = 1
  MaxFaults = 1
INVARIANTS
  TypeOK
  Wired
  ReplacedThreadsInterrupted
  OneOwner
  InOrder
  AppliedOneList
PROPERTIES
  ImplementsService
