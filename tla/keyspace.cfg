SPECIFICATION Spec
CONSTANTS
  Key = {k1, k2}
  Addr = {a1, a2, a3}
  Worker = {w1, w2}
  None = None
  TTL <- Ttls
  MaxNow = 2
  MaxHeap = 3
  ClockMod = 16
  k_max_works = 1
  Rehashing = TRUE
  Polite = FALSE
  EmptyWait = 0
  NonBlocking = FALSE
  Prompt = FALSE
SYMMETRY Symmetry
CHECK_DEADLOCK FALSE
INVARIANTS
  TypeOK
  Ownership
  PoolGetsSortedSets
  EarliestOnTop
  IndexSound
