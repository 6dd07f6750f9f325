SPECIFICATION FairSpec
CONSTANTS
  MinCapacity = 3
  IndexModulus = 8
  MaxItems = 17
INVARIANTS
  NoDataRace
  NoLeakNoDoubleDrop
PROPERTIES
  ImplementsQueue
  EventuallyDelivered
CHECK_DEADLOCK FALSE
