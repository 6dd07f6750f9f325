SPECIFICATION FairSpec
CONSTANTS
  o1 = o1
  o2 = o2
  OrderIds = {o1, o2}
  MinPrice = 1
  MaxPrice = 1
  MaxQty = 2
  Commands <- MCCommands
  CommandCapacity = 2
  EventCapacity = 2
  MaxCommands = 4
PROPERTY StopReturns
CHECK_DEADLOCK FALSE
