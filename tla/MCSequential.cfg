SPECIFICATION Spec
CONSTANTS
  CommandLines <- SomeLines
  Accepts <- SomeValues
  Codes = {0, 7, 28}
  Origins <- SomeOrigins
  Fold <- HostFold
  Ports <- SomePorts
  Inputs <- SomeInputs
  MaxGlobURLs = 6
  MaxUint = 99
  Digit <- SomeDigits
  Spellings <- SomeNames
  Lower <- NameFold
  Values = {"1", "2"}
  Targets <- SomeTargets
  Agent = "curlu"
  Everything = "any"
  MaxHeaders = 3
  Presets <- SomePresets
  OptCiphers <- SomeCiphers
  OptVersions <- SomeVersions
  OptExts <- SomeExts
  OptALPN = {"", "h2", "spdy"}
  NoBody = NoBody
  Windows = {0, 65535, 65536}
  KindLists <- SomeKindLists
  MSSs = {0, 255, 256, 1460, 65536}
  Scales = {0, 7, 256}
  MaxKinds = 5
INVARIANTS
  TypeOK
  ArgumentsAreUnderstood
  TransferIsPossible
  TargetsAsWritten
  RequestAsAsked
  HelloAsAsked
  FittingFingerprintIsSeen
CHECK_DEADLOCK FALSE
