\* One session.
CONSTANTS
  t1 = t1
  t2 = t2
  t3 = t3
  Tool = {t1, t2, t3}
  NoTool = NoTool
  WindowSize = 4
  MinRepetitions = 2
  MaxRetries = 1
  MaxTurns = 4
  MaxRound = 2
  MaxSaid = 2
SPECIFICATION FairSpec
INVARIANTS
  SessionTypeOK
  CallsAnswered
  ToolsWithinTurns
  LoopIsWarned
PROPERTIES
  CancelStops
  InputReturns
CHECK_DEADLOCK FALSE
