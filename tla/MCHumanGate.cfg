\* The human gate, with timeouts.
CONSTANTS
  c1 = c1
  c2 = c2
  Client = {c1, c2}
  Registry <- GateOnly
  MaxAsks = 2
SPECIFICATION Spec
INVARIANTS
  GateTypeOK
  OneAnswer
PROPERTIES
  AnswerInTimeIsUsed
  GateTimesOut
CHECK_DEADLOCK FALSE
