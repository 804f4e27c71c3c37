SPECIFICATION FillSpec
CONSTANTS
  Node <- ManyNodes
  Key <- ManyNodes
  KeyOf <- Identity
  Hash <- Identity
  None = None
  InitialSize = 4
  k_max_load_factor = 8
  k_resizing_work = 128
INVARIANTS
  NoOverrun
CHECK_DEADLOCK FALSE
