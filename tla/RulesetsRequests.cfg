CONSTANTS
  Null = Null
  Absent = Absent
  BadPatterns = {}
  RegexWindow = 2
  Ids = {1, 2}
  CustomFolders = {work}
  Inputs <- EngineInputs
  Contexts <- EngineContexts
  Requests = {r1, r2}
  Emails = {e1}
  MaxVersions <- Writes
SPECIFICATION Spec
SYMMETRY Symmetry
INVARIANTS StoredWhole DecisionAgrees ActsOnlyOnMatch
