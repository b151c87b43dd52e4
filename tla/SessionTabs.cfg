CONSTANTS
  t1 = t1
  t2 = t2
  t3 = t3
  d1 = d1
  d2 = d2
  Devices = {d1}
  Tabs = {t1, t2, t3}
  DeviceOf <- OneProfile
  Tokens = {k1, k2, k3}
  Handlers = {h1, h2, h3}
  Absent = Absent
  Null = Null
SPECIFICATION Spec
PROPERTIES ClearsOnlyRejected
CONSTRAINT Quiet
SYMMETRY Symmetry
