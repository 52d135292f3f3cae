\* Checkpoint writes, crashes and resumes; a cancellation is just another end.
CONSTANTS
  NodeId <- MCNodeId
  Text <- MCText
  Key <- MCKey
  Val <- MCVal
  SystemKey <- MCSystemKey
  Graphs <- MCGraphs
  RunGraphs <- MCRunGraphs
  FileGraphs <- MCFileGraphs
  InitCtx <- Seeded
  MaxSteps = 4
  MaxIdentical = 2
  Checkpointing = TRUE
  StallTimeout = 0
  Cancellable = FALSE
  MaxLaunches = 3
SPECIFICATION DurableSpec
INVARIANTS
  RunsAsAsked
  CheckpointOfThisRun
  AnnouncedCheckpointIsOnDisk
  AtMostOneNodeLost
CHECK_DEADLOCK FALSE
