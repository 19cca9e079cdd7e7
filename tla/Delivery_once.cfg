SPECIFICATION Spec
CONSTANTS
  c1 = c1
  c2 = c2
  c3 = c3
  m = m
  s1 = s1
  s2 = s2
  Row = {r1, r2}
  Cid = {c1}
  Peer = {m, s1}
  Session = {s1}
  Letter <- ToMember
  None = None
  Garbled = {}
  Repeated = {c1}
  Hooked = {}
  MaxDrains = 2
  MaxFlight = 2
  Moody = {}
  Expirable = {}
  Restarts = TRUE
  Deletable = {}
SYMMETRY Rows
INVARIANTS TypeOK OncePerSession DeliveredWasHandled
PROPERTY ImplementsMailbox
CHECK_DEADLOCK FALSE
