SPECIFICATION Spec
CONSTANTS
  Cid = {c1, c2}
  FPrint = {p1, p2}
  Mesh = {m1}
  Session = {}
  None = None
  MaxAttempts = 2
  BatchLimit = 2
  SessionGoneTTL = 0
  OutboxTTL = 1
  Usurpable = {m1}
  Ephemeral = {}
  MaxCrashes = 1
SYMMETRY Ids
INVARIANTS TypeOK DoneWasAccepted OneRequestPerId
PROPERTY SettledStays
CHECK_DEADLOCK FALSE
