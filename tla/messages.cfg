SPECIFICATION MCSpec
CONSTANTS
  m1 = m1
  m2 = m2
  m3 = m3
  m4 = m4
  Fragments <- Messages4
  Idle = Idle
  MaxPending = 2
  MaxBytes = 4
  Timeout = 1
  MaxTime = 3
  MaxCopies = 1
INVARIANTS InTime OnceAndWhole FitsTheLink CrossesPath ArrivesAsCut StoreSound
SYMMETRY Symmetric
CHECK_DEADLOCK FALSE
