\* One command is enough: it is published between the test and the sleep.
SPECIFICATION FairSpec
CONSTANTS
  Values = {v1}
  Blank = Blank
  InitSizes = {2}
INVARIANT
  DocFiresImmediately
