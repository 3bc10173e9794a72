SPECIFICATION FairSpec
CONSTANTS
  t1 = t1
  t2 = t2
  Tabs = {t1, t2}
  Session <- TwoSessions
  Grants <- MCGrants
  Entries <- MCEntries
INVARIANTS TypeOK StatusChangeArrives
PROPERTIES RestsUnlessIncomplete OnlyTheEntitled
