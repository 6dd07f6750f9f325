SPECIFICATION Spec
CONSTANTS
  o1 = o1
  o2 = o2
  o3 = o3
  OrderIds = {o1, o2, o3}
  MinPrice = 1
  MaxPrice = 1
  MaxQty = 2
  Commands <- MCCommands
  MaxSegmentBytes = 96
  MaxAppends = 4
  MaxOpens = 2
INVARIANTS
  AckedIsDurable
  LiveIsReplay
  SegmentsBounded
CHECK_DEADLOCK FALSE
