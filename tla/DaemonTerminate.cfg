\* Two signals, anywhere.
CONSTANTS
  HandlersMayFail = FALSE
  SignalsAt = {"args", "boot", "child", "start", "poll", "reset", "handler", "result", "body"}
  MaxSignals = 2
SPECIFICATION FairSpec
PROPERTY TerminateEnds
