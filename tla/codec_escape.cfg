SPECIFICATION Spec
CONSTANTS
  LL_MAX_FRAME_SZ = 24
  max_data_size = 3
  Frames <- ShortAfterLong
  MaxFlips = 1
  Hits <- MCHits
INVARIANTS IntegrityVerified
CHECK_DEADLOCK FALSE
