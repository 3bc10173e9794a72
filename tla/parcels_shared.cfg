SPECIFICATION FairSpec
CONSTANTS
  Calls = {c1, c2, c3}
  Keys = {k1, k2}
  None = None
  SingleFlight = TRUE
  MaxEntries = 1
  Ttl = 1
  MaxLoad = 1
  MaxTime = 4
INVARIANTS CacheBounded OneLoadPerKey FreshEnough
PROPERTIES NeverOlder EveryCallEnds
