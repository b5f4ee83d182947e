SPECIFICATION Spec
CONSTANTS
  ADDR_WIDTH = 2
  Word = {w1, w2}
INVARIANTS
  PortsAgree
PROPERTIES
  NoSlotRace
  KeepsPromise
  WordsSurface
  FullSubsides
