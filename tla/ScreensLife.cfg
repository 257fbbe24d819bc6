\* Visits of the editing screen, Home, Back and destroyed activities.
\* The bound on image processors ends a behaviour, which is no deadlock.
CHECK_DEADLOCK FALSE
SPECIFICATION Spec
CONSTANTS
  Effect = {blur, sepia}
  Identity = identity
  Null = null
  MaxLength = 2
  MaxProcessors = 4
INVARIANTS
  TypeOK
  ChosenShownUnlessLeft
  ServerAgrees
  NoneLeftRunning
