SPECIFICATION Spec
CONSTANTS
  r1 = r1
  r2 = r2
  Slots = {r1, r2}
  Pids = {1, 2, 5}
  Subnets = 4
  CommandLines <- SomeLines
  MaxSignals = 2
  MaxStarts = 2
  MaxKills = 1
SYMMETRY SlotSymmetry
INVARIANTS
  TypeOK
  NoLeftovers
  RunsInOwnNamespace
PROPERTIES
  NoInterference
CHECK_DEADLOCK FALSE
