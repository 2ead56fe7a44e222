SPECIFICATION Spec
CONSTANTS
  Lines <- MCLines
  Dashed <- MCDashed
  Ports <- MCPorts
  Baudrates <- MCBaudrates
  Files <- MCFiles
  basename <- MCbasename
  atoi <- MCatoi
  INT_MAX = 7
  FRAME_SIZE = 5
INVARIANTS TypeOK AsUsed UsageAccepted ReadyToTransfer
CHECK_DEADLOCK FALSE
