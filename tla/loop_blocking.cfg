SPECIFICATION FairSpec
CONSTANTS
  Client = {c1, c2}
  Conn = {a1, a2}
  Fd = {5, 6}
  None = None
  Idle = Idle
  k_idle_timeout = 2
  EmptyWait = 4
  NonBlocking = FALSE
PROPERTIES
  EveryoneAccepted
