\* An error in the middle of a stream.
CONSTANTS
  Scripts <- MCScripts
  Capacity = 2
SPECIFICATION Spec
INVARIANT ProviderErrorReported
CHECK_DEADLOCK FALSE
