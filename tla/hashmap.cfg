SPECIFICATION Spec
CONSTANTS
  Node <- SmallNodes
  Key <- SmallKeys
  KeyOf <- SmallKeyOf
  Hash <- SmallHash
  None = None
  InitialSize = 1
  k_max_load_factor = 1
  k_resizing_work = 1
INVARIANTS
  TypeOK
  Structure
  RehashKeepsUp
  KeysReplyExact
PROPERTIES
  OnlyDeleteMiscounts
  ImplementsNodeSet
CHECK_DEADLOCK FALSE
