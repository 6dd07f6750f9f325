CONSTANTS
  ByteBase = 256
  WordBytes = 2
  LenBytes = 2
  ClientMessages <- MCClientMessages
  ServerMessages <- MCServerMessages
  MaxMessages = 2
  ZeroTails = {0, 4, 9}
  Flips = {1}
SPECIFICATION FairSpec
INVARIANTS
  DeliveredIsPrefix
  WholeFramesRead
  TornTailTolerated
  DamageDetected
PROPERTIES
  FramesRead
CHECK_DEADLOCK FALSE
