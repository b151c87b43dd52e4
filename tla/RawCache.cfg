SPECIFICATION Spec
CONSTANTS
  m1 = m1
  m2 = m2
  m3 = m3
  Messages = {m1, m2, m3}
  Html = {m1, m2}
  Text = {m3}
  None = None
  MaxOpenings = 3
  MaxRuns = 2
  MaxDeleted = 1
SYMMETRY HtmlSymmetry
CHECK_DEADLOCK FALSE
INVARIANTS
  CachedRawIsOwn
