CONSTANTS
  Sources = {src1}
  SdpPeer = sdp
  Capacity = 1
  JitterCapacity = 2
  Posix = FALSE
  SendBuffer = 1
  MaxPackets = 2
  MaxFrames = 0
SPECIFICATION LiveSpec
CHECK_DEADLOCK FALSE
INVARIANTS
  EchoInOrder
  EchoGoesToHeardPeer
  StoppedIsQuiet
PROPERTIES
  AcceptedIsEchoed
  StopReturns
