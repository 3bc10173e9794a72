SPECIFICATION SCSpec
CONSTANTS
  Calls = {c1, c2}
  MaxAttempts = 2
  Lifetime = 4
  Buffer = 2
  MaxDelay = 1
  MaxTime = 4
INVARIANTS SCTypeOK
PROPERTIES SentInTime EveryCallEnds
CHECK_DEADLOCK FALSE
