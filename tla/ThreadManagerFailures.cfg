\* Every operation, restarts while tasks run included; thread creation may fail.
CONSTANTS
  oi = oi
  pt = pt
  rt = rt
  lam = lam
  manager = manager
  Chain <- MCChain
  Lambdas <- MCLambdas
  Manager = manager
  Targets <- MCTargets
  Commands = {"add", "restart", "stop", "terminate", "stopLast"}
  SpawnMayFail = TRUE
  MaxSources = 3
  MaxTasks = 4
SPECIFICATION FairSpec
INVARIANTS
  RunningFlagExact
  GlobalStopReachesAll
  NoThreadLeft
  JoinsOnlyStopping
  QueuesOutliveSenders
PROPERTIES
  RestartRevives
  StopReturnsWithoutOrphans
