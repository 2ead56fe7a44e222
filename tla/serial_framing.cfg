SPECIFICATION Spec
CONSTANTS
  LL_MAX_FRAME_SZ = 5
  Lengths = {1, 3}
  MaxFrames = 3
  MaxAlarms = 2
  MaxErrors = 1
INVARIANTS TypeOK WholeFrames OneFrameEach
PROPERTIES CallReturns
CHECK_DEADLOCK FALSE
