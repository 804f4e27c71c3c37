SPECIFICATION Spec
CONSTANTS
  Member <- SixMembers
  Score <- TwoScores
  Nil = 0
INVARIANTS
  SuccessorIsNext
CHECK_DEADLOCK FALSE
