CONSTANTS
  m1 = m1
  is_read = is_read
  Messages = {m1}
  CustomFolders = {work}
  Flags = {is_read}
  Absent = Absent
  Null = Null
  Tabs = {t1}
  Rank <- MCRank
  DeltaLimit = 2
  PageSize = 1
  MaxVersion = 2
  Mutations <- MCMoves
  FlushChunk = 1
  Posts = {p1}
  MaxMutations = 1
SPECIFICATION QFairSpec
PROPERTIES QueueDrains
