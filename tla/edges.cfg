SPECIFICATION MCSpec
CONSTANTS
  End = End
  Esc = Esc
  EscEnd = EscEnd
  EscEsc = EscEsc
  Plain = Plain
  Payloads <- Short
  MaxFrames = 2
  MaxNoise = 1
INVARIANTS NoEcho SerialSound AtSound
PROPERTIES ReachesLoops NobodyWaits TakenWhileTyping
CHECK_DEADLOCK FALSE
