CONSTANTS
  Producers = {p1, p2}
  Consumers = {c1, c2}
  Closers = {main}
  Capacity = 2
  MaxItems = 4
SPECIFICATION LiveSpec
INVARIANTS
  EndIsFinal
  NoLostWakeup
PROPERTIES
  ImplementsHandoff
  WaitersReleased
