SPECIFICATION Spec
CONSTANTS
  NumRetransmissions = 3
  MaxNumFrames = 0
  MaxPackets = 3
  MaxConnects = 1
  MaxFaults <- LineTwice
  FaultySides = {"R"}
  Misread = {3, 11, 1, 129, 64}
  Premature = FALSE
  Policies = {"receiver_first"}
INVARIANTS ToleratesForwardFaults AttemptsInv
CHECK_DEADLOCK FALSE
