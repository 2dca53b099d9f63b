\* Two clients and the task itself send.
CONSTANTS
  Self = self
  Clients = {c1, c2}
  MaxPosts = 3
SPECIFICATION FairSpec
INVARIANT NoLostWakeup
PROPERTIES
  MailTaken
  StopEnds
