SPECIFICATION FairSpec
CONSTANTS
  N = 3
  HTTP3 = {TRUE, FALSE}
  PriorKnowledge = FALSE
  Protocols = {"", "h2"}
  Include = {TRUE, FALSE}
  MaxTime = TRUE
  StdoutFails = TRUE
  MaxInterim = 1
  MaxBody = 1
INVARIANTS
  TypeOK
  OutputInOrder
  ZeroMeansAll
  CodeTellsWhy
  ConnectionsClosed
  NoRequestAfterClose
PROPERTIES
  EndsInTime
CHECK_DEADLOCK FALSE
