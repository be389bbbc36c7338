SPECIFICATION FairSpec
CONSTANTS
  Nodes <- MCThree
  Keys = {k1, k2}
  Neighbours <- MCChain
  Hops <- MCChainHops
  ForUs <- MCForB
  InitTTL = 2
  DedupCapacity = 1
  DedupTTL = 2
  JitterMax = 1
  StoreForward = TRUE
  StoreCapacity = 1
  Copies <- MCOnce
  SendMayFail = FALSE
  DeliverMayRaise = FALSE
  Idle = Idle
  NoTimer = NoTimer
  NoNode = NoNode
  MaxTime = 0
  MaxStops = 0
PROPERTY FloodReaches
CHECK_DEADLOCK FALSE
