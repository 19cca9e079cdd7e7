SPECIFICATION Spec
CONSTANTS
  c1 = c1
  c2 = c2
  c3 = c3
  m = m
  s1 = s1
  s2 = s2
  Row = {r1}
  Cid = {c1}
  Peer = {s1}
  Session = {s1}
  Letter <- OneMulticast
  None = None
  Garbled = {}
  Repeated = {}
  Hooked = {}
  MaxDrains = 2
  MaxFlight = 2
  Moody = {}
  Expirable = {}
  Restarts = FALSE
  Deletable = {}
INVARIANT NeverTwice
CHECK_DEADLOCK FALSE
