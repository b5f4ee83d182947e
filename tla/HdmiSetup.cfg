SPECIFICATION SetupFairSpec
CONSTANTS
  FIFO_DEPTH = 2
  POLLS = 2
  RETRIES = 3
  WRITES = 3
  PLL_POLLS = 2
INVARIANTS
  SuccessMeansWritten
  WrittenOnceInOrder
PROPERTY SetupEnds
