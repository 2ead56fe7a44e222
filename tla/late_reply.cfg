SPECIFICATION Spec
CONSTANTS
  NumRetransmissions = 2
  MaxNumFrames = 1
  MaxPackets = 2
  MaxConnects = 1
  MaxFaults <- NoFaults
  FaultySides = {}
  Misread = {}
  Premature = TRUE
  Policies = {"retry_after_failure"}
INVARIANTS ConfirmedDelivered
CHECK_DEADLOCK FALSE
