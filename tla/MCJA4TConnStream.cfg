SPECIFICATION DeliverySpec
CONSTANTS
  SeqSpace = 8
  NoMSS = NoMSS
  RespLen = 2
  ReqLen = 0
  ISS = 6
  IRS = 7
  MSSOptions = {NoMSS}
  DefaultMSS = 2
  RawCap = 1
  PacketsCap = 1
  MaxTime = TRUE
  ConnectTimeout = FALSE
  Faults = {"rst", "read"}
  Strays <- StrayPackets
INVARIANTS
  StreamIntegrity
  AckedIsReadable
  NoSleepOnReady
PROPERTIES
  EndsAfterAcked
  ImplementsByteStream
  ResponseDelivered
CHECK_DEADLOCK FALSE
