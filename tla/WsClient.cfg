CONSTANTS
  Senders = {output, rtprecv}
  User = User
  Reader = Reader
  Free = Free
  Posix = TRUE
  SendBuffer = 1
  MaxConnects = 2
  MaxFrames = 1
SPECIFICATION LiveSpec
CHECK_DEADLOCK FALSE
INVARIANTS
  FramesWhole
  ConnectionHasReader
  OldConnectionGone
PROPERTIES
  CloseReturns
  SendsReturn
