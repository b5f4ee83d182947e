SPECIFICATION ScaleFairSpec
CONSTANTS
  BURST_COUNT = 2
  FIFO_DEPTH = 4
  AddrSpan = 256
  PIPE_LATENCY = 3
  Job <- SmallJobs
INVARIANTS
  ScaledExact
  PipelineAtRest
PROPERTIES
  ScalingEnds
