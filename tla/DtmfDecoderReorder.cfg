CONSTANTS
  Events = {5, 10, 16}
  EndCopies = 2
  Reorders = TRUE
  MaxPresses = 1
  MaxDuration = 2
  MaxCopies = 0
SPECIFICATION Spec
CHECK_DEADLOCK FALSE
INVARIANTS
  OncePerPress
