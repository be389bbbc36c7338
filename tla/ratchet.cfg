SPECIFICATION Spec
CONSTANTS
  Initiator = Initiator
  Responder = Responder
  MaxSkip = 2
  MaxSkippedKeys = 2
  OddHeaders <- MCOddHeaders
  NoPub = NoPub
  NoChain = NoChain
  MaxSent <- MCMaxSent
INVARIANTS Lockstep OneKeyOneMessage KeysKept StillOpens
PROPERTY ImplementsChannel
CHECK_DEADLOCK FALSE
