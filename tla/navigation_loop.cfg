SPECIFICATION FairSpec
CONSTANTS
  t1 = t1
  t2 = t2
  Tabs = {t1}
  Session <- TwoSessions
  Grants <- MCGrants
  Entries <- MCEntries
PROPERTY EveryNavigationRests
