\* Is the list of effects still there when the user cancels?
\* The bound on image processors ends a behaviour, which is no deadlock.
CHECK_DEADLOCK FALSE
SPECIFICATION Spec
CONSTANTS
  Effect = {blur, sepia}
  Identity = identity
  Null = null
  MaxLength = 2
  MaxProcessors = 3
INVARIANTS
  ListKept
