CONSTANTS
  CallIds = {a, b}
  NoHeader = NoHeader
  ReInvites = TRUE
  Reorders = TRUE
  Interrupts = FALSE
  MaxInFlight = 2
SPECIFICATION Spec
CHECK_DEADLOCK FALSE
INVARIANTS
  UpHasMedia
  DriftOnlyByReInvite
