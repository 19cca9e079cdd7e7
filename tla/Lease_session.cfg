SPECIFICATION Spec
CONSTANTS
  c1 = c1
  c2 = c2
  k1 = k1
  k2 = k2
  sid1 = sid1
  sid2 = sid2
  m1 = m1
  m2 = m2
  Client = {c1}
  Sock = {s1, s2}
  Pres = {p1, p2}
  Key = {k1, k2}
  Sid = {sid1, sid2}
  Member = {m1}
  None = None
  Ident <- OneSession
  Capacity = 2
  SyncClose = TRUE
  Fragile = {s1, s2}
  Fallible = {"disconnect"}
  Operator = {"kick", "ban", "disconnect"}
SYMMETRY Slots
INVARIANTS TypeOK CounterIsExact GraceOnlyWithoutSocket NoForgottenSocket
CHECK_DEADLOCK FALSE
