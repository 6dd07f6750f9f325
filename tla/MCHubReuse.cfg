SPECIFICATION Spec
CONSTANTS
  c1 = c1
  c2 = c2
  o1 = o1
  o2 = o2
  Conns = {c1, c2}
  OrderIds = {o1, o2}
  MinPrice = 1
  MaxPrice = 1
  MaxQty = 1
  Commands <- MCCommands
  InboxCapacity = 2
  FreshIds = FALSE
  MaxSubmits = 4
PROPERTY RoutedHome
CHECK_DEADLOCK FALSE
