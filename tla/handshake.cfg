SPECIFICATION MCSpec
CONSTANTS
  Peers = {A, B}
  None = None
  Damaged = Damaged
  MaxPending = 2
  MaxHandshakes = 2
  MaxAnswers = 2
  MaxStatic = 2
  MaxTroubles = 2
  MaxDecisions = 2
INVARIANTS Agreement RefusedNeverOpens VerifiedWasCompared SessionOnPin NonceOnce 
PROPERTIES SessionsAreFresh Completes
CHECK_DEADLOCK FALSE
