CONSTANTS
  Senders = {output, rtprecv}
  User = User
  Reader = Reader
  Free = Free
  Posix = TRUE
  SendBuffer = 1
  MaxConnects = 1
  MaxFrames = 1
SPECIFICATION LiveSpec
CHECK_DEADLOCK FALSE
PROPERTY
  CloseUnblocksReader
