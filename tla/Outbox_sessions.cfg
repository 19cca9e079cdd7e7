SPECIFICATION LiveSpec
CONSTANTS
  Cid = {c1}
  FPrint = {p1}
  Mesh = {m1}
  Session = {s1}
  None = None
  MaxAttempts = 3
  BatchLimit = 1
  SessionGoneTTL = 0
  OutboxTTL = 1
  Usurpable = {}
  Ephemeral = {s1}
  MaxCrashes = 1
INVARIANTS InflightIsOwned AttemptsCapped SessionKeepsItsLink
PROPERTY EveryRowSettles
CHECK_DEADLOCK FALSE
