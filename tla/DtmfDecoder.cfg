CONSTANTS
  Events = {5, 10, 16}
  EndCopies = 2
  Reorders = FALSE
  MaxPresses = 3
  MaxDuration = 3
  MaxCopies = 1
SPECIFICATION Spec
CHECK_DEADLOCK FALSE
INVARIANTS
  OncePerPress
  TypedInOrder
  PressesDetected
