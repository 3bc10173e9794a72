SPECIFICATION Spec
CONSTANTS
  Requests = {r1, r2, r3}
  Sessions = {s1, s2}
  NoSession = NoSession
  RefreshTokens = TRUE
  Reliable = {s1}
  MaxTokens = 3
SYMMETRY Symmetry
INVARIANTS CachedIsHonoured
PROPERTY NeverBack
CHECK_DEADLOCK FALSE
