SPECIFICATION Spec
CONSTANTS
  NumRetransmissions = 3
  MaxNumFrames = 1
  MaxPackets = 1
  MaxConnects = 1
  MaxFaults <- LostOnce
  FaultySides = {"T"}
  Misread = {}
  Premature = FALSE
  Policies = {"receiver_first"}
INVARIANTS ToleratesReplyFaults
CHECK_DEADLOCK FALSE
