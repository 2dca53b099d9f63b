\* Two producers and two consumers share one queue.
SPECIFICATION FairSpec
CONSTANTS
  Producers = {p1, p2}
  Consumers = {c1, c2}
  Messages = {m1, m2}
  NoMessage = NoMessage
  NoThread = NoThread
  MaxQueue = 2
INVARIANTS
  TypeOK
  NoLostWakeup
  WaitReturnsMessage
PROPERTIES
  ImplementsMailbox
  TimedWaitReturns
