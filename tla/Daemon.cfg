\* Any signal at any point.
CONSTANTS
  HandlersMayFail = TRUE
  SignalsAt = {"args", "boot", "child", "start", "poll", "reset", "handler", "result", "body", "close"}
  MaxSignals = 4
SPECIFICATION FairSpec
INVARIANTS
  NoHandlerWithoutSignal
  OnlyTerminateEnds
  SignalsKept
PROPERTIES
  StopEndsUnlessLost
  EverySignalPerformed
