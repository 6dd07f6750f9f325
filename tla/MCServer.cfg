SPECIFICATION ClientSpec
CONSTANTS
  c1 = c1
  c2 = c2
  Conns = {c1, c2}
  OrderIds = {1, 2, 3, 4}
  MinPrice = 1
  MaxPrice = 1
  MaxQty = 1
  Commands <- MCCommands
  InboxCapacity = 1
  FreshIds = FALSE
  MaxSubmits = 100
  SocketRoom = 1
  RttConn = c1
  BurstConn = c2
  NRtt = 1
  WarmupCap = 100
  NThroughput = 2
  PeerFrames <- MCPeerFrames
  MaxFrames = 1
INVARIANTS
  ServerIInv
  DrainedIsClean
PROPERTIES
  ServeReturns
  SubmitReturns
  ConnectionReleased
  ClientFinishes
CHECK_DEADLOCK FALSE
