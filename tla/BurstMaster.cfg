SPECIFICATION CopyFairSpec
CONSTANTS
  BURST_COUNT = 2
  FIFO_DEPTH = 4
  AddrSpan = 256
  Job <- SmallJobs
INVARIANTS
  CreditHolds
  CopyExact
  StartTaken
PROPERTIES
  TransferEnds
