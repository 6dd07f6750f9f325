SPECIFICATION LedgerSpec
CONSTANTS
  OrderIds = {o1, o2, o3}
  MinPrice = 1
  MaxPrice = 2
  MaxQty = 2
  MaxSeq = 5
SYMMETRY Symmetry
INVARIANTS
  BookConsistent
  TimePriority
  NeverCrossed
  NoSelfTrade
  FokFillsWhole
  PostOnlyNeverTakes
  IInv
  LedgerAgrees
PROPERTIES
  GapFree
  ImplementsPriceTime
  LifecycleConsistent
  CallsAgree
CHECK_DEADLOCK FALSE
