\* The stall watchdog, and a handler that may never return.
CONSTANTS
  NodeId <- MCNodeId
  Text <- MCText
  Key <- MCKey
  Val <- MCVal
  SystemKey <- MCSystemKey
  Graphs <- OneLoop
  InitCtx <- Seeded
  MaxSteps = 3
  MaxIdentical = 2
  Checkpointing = FALSE
  StallTimeout = 1
  Cancellable = FALSE
SPECIFICATION FairLoopSpec
PROPERTIES
  StallCancels
CHECK_DEADLOCK FALSE
