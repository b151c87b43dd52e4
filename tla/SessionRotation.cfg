CONSTANTS
  t1 = t1
  t2 = t2
  t3 = t3
  d1 = d1
  d2 = d2
  Devices = {d1, d2}
  Tabs = {t1, t2, t3}
  DeviceOf <- TwoDevices
  Tokens = {k1, k2, k3}
  Handlers = {h1, h2}
  Absent = Absent
  Null = Null
SPECIFICATION Spec
INVARIANTS OneTokenPerSession StoredTokenUsable
SYMMETRY Symmetry
