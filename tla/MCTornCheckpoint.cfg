\* A crash while a checkpoint is overwritten; nothing else goes wrong.
CONSTANTS
  NodeId <- MCNodeId
  Text <- MCText
  Key <- MCKey
  Val <- MCVal
  SystemKey <- MCSystemKey
  Graphs <- MCGraphs
  RunGraphs <- MCRunGraphs
  FileGraphs <- MCFileGraphs
  InitCtx <- Seeded
  MaxSteps = 4
  MaxIdentical = 2
  Checkpointing = TRUE
  StallTimeout = 0
  Cancellable = FALSE
  MaxLaunches = 1
SPECIFICATION DurableSpec
INVARIANTS
  CheckpointSurvives
CHECK_DEADLOCK FALSE
