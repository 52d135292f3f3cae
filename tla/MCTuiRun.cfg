\* Up to three node executions and agent events, through a channel that retains
\* two events.
CONSTANTS
  Node <- MCNode
  Gate <- MCGate
  Resumed <- MCResumed
  Timeouts <- MCTimeouts
  Capacity = 2
  MaxSteps = 3
SPECIFICATION FairSpec
INVARIANTS
  TuiTypeOK
  AnswersBelong
PROPERTIES
  QuitEndsRun
  EndClosesDashboard
CHECK_DEADLOCK FALSE
