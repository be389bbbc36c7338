SPECIFICATION Spec
CONSTANTS
  Nodes <- MCThree
  Keys = {k1}
  Neighbours <- MCChain
  Hops <- MCChainHops
  ForUs <- MCForB
  InitTTL = 2
  DedupCapacity = 1
  DedupTTL = 0
  JitterMax = 1
  StoreForward = TRUE
  StoreCapacity = 1
  Copies <- MCImpaired
  SendMayFail = TRUE
  DeliverMayRaise = TRUE
  Idle = Idle
  NoTimer = NoTimer
  NoNode = NoNode
  MaxTime = 2
  MaxStops = 1
INVARIANTS TypeOK WithinRadius CrossRate NoStorm Cancellable
CHECK_DEADLOCK FALSE
