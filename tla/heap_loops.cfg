SPECIFICATION Spec
CONSTANTS
  Ref = {r1, r2, r3, r4, r5, r6}
  Deadline <- Deadlines
  NoDeadline = NoDeadline
  NoRef = NoRef
SYMMETRY RefSymmetry
INVARIANTS
  TypeOK
  SoundWhenIdle
  LoopsMeetDefinition
PROPERTIES
  ImplementsTimerQueue
