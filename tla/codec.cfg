SPECIFICATION Spec
CONSTANTS
  LL_MAX_FRAME_SZ = 24
  max_data_size = 3
  Frames <- Pairs
  MaxFlips = 2
  Hits <- MCHits
INVARIANTS TypeOK RoundTrip DetectsDamage Resynchronizes OneByteOver EarlierAgrees DraftNeedsNoFlag
CHECK_DEADLOCK FALSE
