SPECIFICATION Spec
CONSTANTS
  Member <- SixMembers
  Score <- TwoScores
  Nil = 0
INVARIANTS
  TypeOK
  TreeSound
  OffsetExact
CHECK_DEADLOCK FALSE
