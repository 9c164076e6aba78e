SPECIFICATION FairSpec
CONSTANTS
  SeqSpace = 8
  NoMSS = NoMSS
  RespLen = 1
  ReqLen = 0
  ISS = 6
  IRS = 7
  MSSOptions = {NoMSS}
  DefaultMSS = 2
  RawCap = 1
  PacketsCap = 1
  MaxTime = TRUE
  ConnectTimeout = FALSE
  Faults = {}
  Strays <- NoStrays
PROPERTIES
  DeadlineEndsRead
CHECK_DEADLOCK FALSE
