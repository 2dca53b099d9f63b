\* The keys in any order; thread creation may fail.  Two signals, anywhere in
\* the loop.
CONSTANTS
  oi = oi
  pt = pt
  rt = rt
  lam = lam
  manager = manager
  Chain <- MCChain
  Lambdas <- MCLambdas
  Manager = manager
  Targets <- MCTargets
  Commands = {"restart", "stop", "terminate"}
  SpawnMayFail = TRUE
  MaxSources = 2
  MaxTasks = 4
  SignalsAt = {"poll", "reset", "handler", "result", "body"}
  MaxSignals = 2
SPECIFICATION ProgramFairSpec
INVARIANT ThreadsWithinMain
PROPERTY TerminateEndsProgram
