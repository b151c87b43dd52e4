CONSTANTS
  Messages = {m1, m2}
  CustomFolders = {work}
  Flags = {}
  Absent = Absent
  Null = Null
  Requests = {r1}
  RetentionAge = 1
  SyncAge = 1
  RetentionChunk = 1
  FolderChunk = 2
  MaxVersion = 3
  MaxTime = 2
SPECIFICATION FairSpec
INVARIANTS TypeOK RetentionClock
PROPERTIES DestroyedOnlyAfterTrash ExpiredGoes
