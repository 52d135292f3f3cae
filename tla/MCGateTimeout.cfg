\* The handlers as they are registered.
CONSTANTS
  c1 = c1
  c2 = c2
  Client = {c1, c2}
  Registry <- Deployed
  MaxAsks = 2
SPECIFICATION Spec
PROPERTIES
  GateTimesOut
CHECK_DEADLOCK FALSE
