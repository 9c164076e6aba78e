SPECIFICATION FairSpec
CONSTANTS
  SeqSpace = 6
  NoMSS = NoMSS
  RespLen = 0
  ReqLen = 3
  ISS = 4
  IRS = 5
  MSSOptions = {0, 1}
  DefaultMSS = 2
  RawCap = 1
  PacketsCap = 1
  MaxTime = TRUE
  ConnectTimeout = TRUE
  Faults = {"rst", "read", "write"}
  Strays <- NoStrays
INVARIANTS
  TypeOK
  RequestInOrder
PROPERTIES
  ClosedIsNotAnError
  CloseReleases
  HandshakeEnds
CHECK_DEADLOCK FALSE
