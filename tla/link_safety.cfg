SPECIFICATION Spec
CONSTANTS
  NumRetransmissions = 2
  MaxNumFrames = 1
  MaxPackets = 3
  MaxConnects = 2
  MaxFaults <- ButPort
  FaultySides = {"T", "R"}
  Misread = {3, 7}
  Premature = TRUE
  Policies = {"retry_after_failure", "receiver_waits", "receiver_disconnects"}
INVARIANTS TypeOK Window LinkInv PacketInv InOrder BothClosed
PROPERTIES NeverAfterConfirm ServiceSpec
CHECK_DEADLOCK FALSE
