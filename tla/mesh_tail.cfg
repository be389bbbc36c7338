SPECIFICATION FairSpec
CONSTANTS
  Nodes <- MCFour
  Keys = {k1}
  Neighbours <- MCTail
  Hops <- MCTailHops
  ForUs <- MCForB
  InitTTL = 3
  DedupCapacity = 1
  DedupTTL = 2
  JitterMax = 1
  StoreForward = TRUE
  StoreCapacity = 1
  Copies <- MCOnce
  SendMayFail = FALSE
  DeliverMayRaise = FALSE
  Idle = Idle
  NoTimer = NoTimer
  NoNode = NoNode
  MaxTime = 0
  MaxStops = 0
PROPERTY FloodReaches
CHECK_DEADLOCK FALSE
