SPECIFICATION Spec
CONSTANTS
  NumRetransmissions = 1
  MaxNumFrames = 1
  MaxPackets = 1
  MaxConnects = 1
  MaxFaults <- DamagedOnce
  FaultySides = {"T"}
  Misread = {129}
  Premature = FALSE
  Policies = {}
INVARIANTS ConfirmedDelivered
CHECK_DEADLOCK FALSE
