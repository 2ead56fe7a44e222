SPECIFICATION Spec
CONSTANTS
  max_send_attempts = 2
  max_receive_attempts = 2
  packet_size = 6
  max_data_transfer = 0
  sequence_number_modulus = 4
  MAX_FD = 5
  FirstFd = 3
  Builds = {TRUE}
  FileSizes = {3}
  MaxRepeats = 1
  ControlPacketSizes = {6}
INVARIANTS SizesAgree
CHECK_DEADLOCK FALSE
