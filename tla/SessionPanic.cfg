SPECIFICATION Spec
CONSTANTS
  N = 2
  HTTP3 = {FALSE}
  PriorKnowledge = FALSE
  Protocols = {""}
  Include = {FALSE}
  MaxTime = TRUE
  StdoutFails = FALSE
  MaxInterim = 1
  MaxBody = 2
INVARIANTS
  NoPanic
CHECK_DEADLOCK FALSE
