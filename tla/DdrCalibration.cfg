SPECIFICATION CalSpec
CONSTANTS
  BITS = 2
  MAX = 3
  GROUPS = 2
  RESERVE = 1
  PTAP = 2
  START_LAT = 4
  FUZZ = 1
  Eye <- Eyes
INVARIANTS
  CentredWorks
  CentredFairly
  ReportTrue
  LatencySafe
PROPERTY ReadsKept
