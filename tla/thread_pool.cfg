SPECIFICATION FairSpec
CONSTANTS
  Worker = {w1, w2, w3}
  Main = main
  Free = free
  NumJobs = 4
INVARIANTS
  TypeOK
  QueueGuarded
  NoLostSignal
PROPERTIES
  ImplementsJobPool
