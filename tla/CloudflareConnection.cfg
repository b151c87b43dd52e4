SPECIFICATION Spec
CONSTANTS
  Isolates = {i1, i2}
  Requests = {r1, r2, r3}
  MaxGrants = 2
  MaxSpent = 1
  None = None
SYMMETRY Symmetric
VIEW Undisturbed
INVARIANTS
  PresentsOnce
  ColumnAsAsked
  DisconnectForgets
