CONSTANTS
  Half = 4
  MaxUpdates = 6
  Tones = {31500}
  MaxTotal = 4
  MaxFaults = 2
SPECIFICATION StreamSpec
INVARIANTS
  UnwrapExact
  LossNeverOverstated
  SenderAccounts
  LossAccounted
  HeardAsSpoken
PROPERTIES
  ImplementsRtpStats
CHECK_DEADLOCK FALSE
