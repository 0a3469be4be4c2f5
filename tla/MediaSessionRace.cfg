CONSTANTS
  Sources = {src1}
  SdpPeer = sdp
  Capacity = 1
  JitterCapacity = 2
  Posix = FALSE
  SendBuffer = 1
  MaxPackets = 2
  MaxFrames = 0
SPECIFICATION Spec
CHECK_DEADLOCK FALSE
INVARIANT
  JitterBufferNotShared
