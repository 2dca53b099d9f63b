\* Durations in the order of the code's, and a buffer that fills up.
CONSTANTS
  StressInterval = 1
  NormalInterval = 2
  SlowInterval = 3
  StressTime = 4
  PauseTime = 6
  ResumeTime = 2
  Room = 2
SPECIFICATION Spec
INVARIANTS
  CommandInTime
  EventInTime
  StressInTime
  StopInTime
