CONSTANTS
  CallIds = {a, b}
  NoHeader = NoHeader
  ReInvites = FALSE
  Reorders = FALSE
  Interrupts = TRUE
  MaxInFlight = 2
SPECIFICATION LiveSpec
CHECK_DEADLOCK FALSE
INVARIANTS
  MediaMatchesDialog
  MediaOnlyDuringCall
PROPERTIES
  MediaStartedOncePerInvite
  HangUpEndsMedia
