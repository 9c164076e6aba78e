SPECIFICATION Spec
CONSTANTS
  N = 2
  HTTP3 = {FALSE}
  PriorKnowledge = FALSE
  Protocols = {"", "h2"}
  Include = {FALSE}
  MaxTime = TRUE
  StdoutFails = FALSE
  MaxInterim = 1
  MaxBody = 2
INVARIANTS
  SelectedProtocol
CHECK_DEADLOCK FALSE
