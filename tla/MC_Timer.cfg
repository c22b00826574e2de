CONSTANTS
  COUNT_BITS = 4
  SYSTEM_INTERRUPTS_PER_SECOND = 2
  SECONDS_IN_MIN = 2
  Durations = {0, 2}
SPECIFICATION Spec
INVARIANTS TypeOK ToneOnlyInCall
PROPERTIES WaitLongEnough WaitEnds
