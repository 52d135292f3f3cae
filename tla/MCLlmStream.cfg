\* Streams of three providers.
CONSTANTS
  Scripts <- MCScripts
  Capacity = 2
SPECIFICATION FairSpec
INVARIANTS
  StreamTypeOK
  PiecesInPlace
  PartialsGrow
PROPERTIES
  StreamSettles
CHECK_DEADLOCK FALSE
