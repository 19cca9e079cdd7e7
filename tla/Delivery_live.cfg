SPECIFICATION LiveSpec
CONSTANTS
  c1 = c1
  c2 = c2
  c3 = c3
  m = m
  s1 = s1
  s2 = s2
  Row = {r1}
  Cid = {c1, c2, c3}
  Peer = {m, s1}
  Session = {s1}
  Letter <- Medley
  None = None
  Garbled = {c2}
  Repeated = {}
  Hooked = {s1}
  MaxDrains = 2
  MaxFlight = 1
  Moody = {s1}
  Expirable = {r1}
  Restarts = FALSE
  Deletable = {c1}
PROPERTY EveryMessageHandled
CHECK_DEADLOCK FALSE
