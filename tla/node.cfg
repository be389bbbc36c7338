SPECIFICATION MCSpec
CONSTANTS
  alice = alice
  bob = bob
  carol = carol
  Peers = {alice, bob}
  Typists = {alice, bob}
  None = None
  Parts <- LongParts
  MaxConnects = 1
  MaxTexts = 1
  MaxNoise = 0
  MaxEpoch = 3
  MaxRefusals = 0
  MaxQuits = 1
INVARIANTS  ShownTruly
PROPERTY KeepsChannel
SYMMETRY Symmetric
CHECK_DEADLOCK FALSE
