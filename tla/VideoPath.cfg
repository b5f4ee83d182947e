SPECIFICATION PathFairSpec
CONSTANTS
  BURST_LEN = 2
  FIFO_DEPTH = 6
  FRAME_SIZE_WORDS = 4
  Base = {0, 100}
INVARIANTS
  CreditBound
  StreamInOrder
  PendingExact
  FrameInOrder
  DoneIsComplete
PROPERTIES
  NoWordLost
  OneBasePerFrame
  FrameEnds
