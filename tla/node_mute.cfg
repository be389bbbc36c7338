SPECIFICATION Spec
CONSTANTS
  alice = alice
  bob = bob
  Peers = {alice, bob}
  Typists = {alice, bob}
  None = None
  Parts <- FinParts
  MaxConnects = 1
  MaxTexts = 1
  MaxNoise = 0
  MaxEpoch = 0
  MaxRefusals = 0
  MaxQuits = 0
INVARIANT ResponderMaySpeak
CHECK_DEADLOCK FALSE
