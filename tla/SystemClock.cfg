SPECIFICATION ClockSpec
CONSTANTS
  LOAD = 3
  SPAN = 4
  HALF = 2
  LATENCY = 3
  PASS_CYCLES = 3
  Alarm = {a1, a2}
INVARIANT ReadingExact
PROPERTY AlarmsPunctual
