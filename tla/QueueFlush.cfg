CONSTANTS
  m1 = m1
  is_read = is_read
  Messages = {m1}
  CustomFolders = {}
  Flags = {is_read}
  Absent = Absent
  Null = Null
  Tabs = {t1}
  Rank <- MCRank
  DeltaLimit = 2
  PageSize = 1
  MaxVersion = 2
  Mutations <- MCMutations
  FlushChunk = 1
  Posts = {p1, p2}
  MaxMutations = 2
SPECIFICATION QSpec
INVARIANTS NoMutationForgotten 
SYMMETRY PostSymmetry
CONSTRAINT Unsettled
