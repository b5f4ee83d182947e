SPECIFICATION ControlSpec
CONSTANTS
  BURST_LEN = 1
  FIFO_DEPTH = 5
  FRAME_SIZE_WORDS = 2
  Base = {0}
  Ptr = {0}
  DefaultPtr = 0
  LUT_SIZE = 1
  BITMAP_ROWS = 1
  Call <- Everything
INVARIANTS
  StartHonoured
  NoLostUpdate
PROPERTIES
  ClearedOnlyIfSeen
