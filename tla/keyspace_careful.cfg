SPECIFICATION Spec
CONSTANTS
  Key = {k1, k2}
  Addr = {a1, a2, a3}
  Worker = {w1}
  None = None
  TTL <- Ttls
  MaxNow = 3
  MaxHeap = 3
  ClockMod = 5
  k_max_works = 0
  Rehashing = TRUE
  Polite = TRUE
  EmptyWait = 1
  NonBlocking = TRUE
  Prompt = TRUE
INVARIANTS
  NoFault
  TimersOwned
  LateByWaits
PROPERTIES
  ImplementsStore
  ExpiredKeysGo
