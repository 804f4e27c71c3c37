SPECIFICATION FairSpec
CONSTANTS
  Client = {c1, c2, c3}
  Conn = {a1, a2}
  Fd = {5, 6}
  None = None
  Idle = Idle
  k_idle_timeout = 1
  EmptyWait = 2
  NonBlocking = TRUE
INVARIANTS
  TypeOK
  Bookkeeping
  OwnEvents
  IdleInOrder
PROPERTIES
  DeadConnectionsGo
  EveryoneAccepted
