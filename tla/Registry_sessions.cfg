SPECIFICATION LiveSpec
CONSTANTS
  t1 = t1
  t2 = t2
  s1 = s1
  s2 = s2
  Token = {t1, t2}
  Sid = {s1, s2}
  Pid = {p1, p2}
  Client = {x1, x2, x3}
  None = None
  MaxGen = 2
  MaxCrash = 2
  Scenes <- Plays
INVARIANTS TypeOK OneClientPerSession RegisteredSurvivesCrash
PROPERTIES ReaperDropsOnlyTheDead DeadAreReaped RestartReconnects
CHECK_DEADLOCK FALSE
