SPECIFICATION Spec
CONSTANTS
  Senders = {s1, s2}
  Airtimes = {1, 2, 4}
  Window = 5
  Budget = 3
  MaxDwell = 3
  MaxWait = 4
  NoSender = NoSender
  MaxTime = 8
  MaxRestarts = 1
INVARIANTS WindowBudget OneAtATime WaitIsEnough
CHECK_DEADLOCK FALSE
