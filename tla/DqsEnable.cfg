SPECIFICATION EnableSpec
CONSTANTS
  VFIFO_SIZE = 4
  PHASE_MAX = 7
  DELAY_MAX = 6
  OPA_TAP = 5
  DCHAIN_TAP = 2
  Length <- Lengths
CHECK_DEADLOCK FALSE
INVARIANTS
  NoWindowMissed
  RegistersLegal
  EnableCentred
