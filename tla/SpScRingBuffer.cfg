\* Capacities 1, 2 and 4; 0 and 3 are refused by init().
SPECIFICATION FairSpec
CONSTANTS
  Values = {v1, v2}
  Blank = Blank
  InitSizes = {0, 1, 2, 3, 4}
INVARIANTS
  TypeOK
  NoSlotRace
PROPERTY
  ImplementsBoundedQueue
