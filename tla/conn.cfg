SPECIFICATION FairSpec
CONSTANTS
  W = 2
  k_max_msg = 20
  k_max_args = 4
  Length <- WordLength
  Values <- Found1
  Listings <- Lists
  Found <- NoneFound
  TimeLeft <- Times
  Commands <- Requests
  Unchecked <- Others
  CutShort <- CutOnes
  SndCap = 2
  MaxRequests = 2
  Window = 2
  Cuts = {4}
INVARIANTS
  TypeOK
  ReadHasRoom
  RequestsInOrder
  RepliesInOrder
  RepliesUnderstood
  EndsForCause
PROPERTIES
  AnsweredInTurn
CHECK_DEADLOCK FALSE
