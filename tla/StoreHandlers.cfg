CONSTANTS
  Messages = {m1, m2}
  CustomFolders = {work}
  Flags = {is_read}
  Absent = Absent
  Null = Null
  Requests = {r1, r2}
  RetentionAge = 1
  SyncAge = 1
  RetentionChunk = 2
  FolderChunk = 1
  MaxVersion = 3
  MaxTime = 0
SPECIFICATION Spec
SYMMETRY Symmetry
INVARIANTS RowHasRaw RowInExistingFolder NewestEventOfRow
PROPERTIES RedoLog
