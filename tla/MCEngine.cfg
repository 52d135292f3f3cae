\* Every routing case, while a user cancels, the watchdog fires and checkpoint writes fail.
CONSTANTS
  NodeId <- MCNodeId
  Text <- MCText
  Key <- MCKey
  Val <- MCVal
  SystemKey <- MCSystemKey
  Graphs <- AllGraphs
  InitCtx <- Seeded
  MaxSteps = 6
  MaxIdentical = 2
  Checkpointing = TRUE
  StallTimeout = 1
  Cancellable = TRUE
SPECIFICATION FairSpec
INVARIANTS
  TypeOK
  OneLateStart
  CompletedMeansGoals
  LintPredicts
  EventProtocol
  FailureCycleCaught
  RetriesExhausted
  NoSilentFailure
  AnnouncedAsReturned
PROPERTIES
  Terminates
  ImplementsRun
CHECK_DEADLOCK FALSE
