SPECIFICATION PipelineSpec
CONSTANTS
  BURST_LEN = 1
  FIFO_DEPTH = 4
  FRAME_SIZE_WORDS = 4
  Base = {0, 100}
  Ptr = {0, 100}
  DefaultPtr = 0
  LUT_SIZE = 8
  BITMAP_ROWS = 1
  LEVELS = 8
  GRID = 2
  H_VISIBLE = 2
  H_FRONT = 0
  H_SYNC = 1
  H_TOTAL = 3
  V_VISIBLE = 2
  V_FRONT = 1
  V_SYNC = 1
  V_TOTAL = 5
  Access <- Player
CONSTRAINT SidesKeepUp
INVARIANTS
  OutputsTogether
  PictureIsOneFrame
  InStepAtVsync
  ShadowBeforeEdge
