\* The reference's own examples, from the file to the graphs that are run.
CONSTANTS
  NodeId <- MCNodeId
  Text <- MCText
  Key <- MCKey
  Val <- MCVal
  SystemKey <- MCSystemKey
SPECIFICATION Spec
INVARIANTS
  ReadAsDocumented
CHECK_DEADLOCK FALSE
