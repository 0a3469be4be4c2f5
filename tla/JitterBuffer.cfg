CONSTANTS
  Half = 3
  TargetDepth = 2
  Capacity = 3
  MaxPackets = 6
SPECIFICATION LiveSpec
INVARIANTS
  NothingStranded
  CountersAgree
PROPERTIES
  PlayedInOrder
  LossOnlyBehindGap
  QueuedPacketsLeave
