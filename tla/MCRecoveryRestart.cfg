SPECIFICATION Spec
CONSTANTS
  o1 = o1
  o2 = o2
  o3 = o3
  OrderIds = {o1, o2, o3}
  MinPrice = 1
  MaxPrice = 1
  MaxQty = 2
  Commands <- MCCommands
  MaxSegmentBytes = 96
  MaxAppends = 3
  MaxOpens = 3
INVARIANT LiveIsReplay
CHECK_DEADLOCK FALSE
