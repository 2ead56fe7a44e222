SPECIFICATION FairSpec
CONSTANTS
  NumRetransmissions = 2
  MaxNumFrames = 1
  MaxPackets = 2
  MaxConnects = 2
  MaxFaults <- EachOnce
  FaultySides = {"T", "R"}
  Misread = {3, 7, 129}
  Premature = FALSE
  Policies = {"retry_after_failure", "receiver_waits", "receiver_disconnects"}
PROPERTIES ExchangeReturns
CHECK_DEADLOCK FALSE
