SPECIFICATION ServedSpec
CONSTANTS
  c1 = c1
  c2 = c2
  k1 = k1
  k2 = k2
  sid1 = sid1
  sid2 = sid2
  m1 = m1
  m2 = m2
  Client = {c1}
  Sock = {s1, s2}
  Pres = {p1}
  Key = {k1, k2}
  Sid = {sid1, sid2}
  Member = {m1}
  None = None
  Ident <- OneDaemon
  Capacity = 1
  SyncClose = FALSE
  Fragile = {}
  Fallible = {}
  Operator = {"ban"}
PROPERTIES Served MeshEmpties LiveIsListed
CHECK_DEADLOCK FALSE
