SPECIFICATION LiveSpec
CONSTANTS
  Service <- Catalog
  Load = {1, 2}
  Call = {c1}
  Unload = {u1}
  None = None
  MaxRestarts = 1
  MaxTries = 2
  MaxServices = 2
  Scene <- AnyEvent
INVARIANTS TypeOK OneChild
PROPERTIES  BuildingEnds OnlyDeployCreates
CHECK_DEADLOCK FALSE
