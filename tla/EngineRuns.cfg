CONSTANTS
  m1 = m1
  m2 = m2
  Messages = {m1, m2}
  CustomFolders = {work}
  Flags = {}
  Absent = Absent
  Null = Null
  Tabs = {t1}
  Rank <- MCRank
  DeltaLimit = 2
  PageSize = 1
  MaxVersion = 3
SPECIFICATION Spec
INVARIANTS NeverStale
PROPERTIES SyncedTable
CONSTRAINT Unsettled
