\* One watched run, or two that are not.
CONSTANTS
  r1 = r1
  r2 = r2
  r3 = r3
  c1 = c1
  NoRun = NoRun
  Run = {r1, r2, r3}
  Client = {c1}
  Capacity = 2
  MaxNodes = 2
  Watched = {r1}
  MaxTalk = 1
SPECIFICATION ApartSpec
INVARIANTS
  WebTypeOK
  StatusMatchesStream
  ResumedFromFinal
  LosesOnlyOverwritten
PROPERTIES
  EndedIsFinal
  StreamEnds
  LogCatchesUp
CHECK_DEADLOCK FALSE
