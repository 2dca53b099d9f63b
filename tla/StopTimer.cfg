\* Three ticks in a millisecond.
CONSTANTS
  PerMs = 3
  Timeouts = {0, 1, 2}
  MaxTime = 18
SPECIFICATION Spec
INVARIANTS
  NeverEarly
  NeverLate
  LeftTimeAccurate
PROPERTY ElapsedStays
