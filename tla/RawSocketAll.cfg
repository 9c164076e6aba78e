SPECIFICATION FairSpec
CONSTANTS
  Attempts = 2
  Fds = {1, 2}
  PktsCap = 1
  MaxPackets = 2
INVARIANTS
  TypeOK
  NoDescriptorLeft
  LossyInOrder
PROPERTY
  LoopsEnd
CHECK_DEADLOCK FALSE
