\* A restart while tasks run, as the r key allows.
CONSTANTS
  oi = oi
  pt = pt
  rt = rt
  lam = lam
  manager = manager
  Chain <- MCChain
  Lambdas <- MCLambdas
  Manager = manager
  Targets <- MCTargets
  Commands = {"restart", "stop"}
  SpawnMayFail = FALSE
  MaxSources = 2
  MaxTasks = 4
SPECIFICATION FairSpec
PROPERTY StopReturns
CHECK_DEADLOCK FALSE
