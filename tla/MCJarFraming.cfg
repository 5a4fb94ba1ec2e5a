CONSTANTS
  int = int
  list = list
  Parties = {0, 1, 2}
  Links <- MCLinks
  Values = {int, list}
  Size <- MCSize
  Quota = 2
  Nobody = Nobody

SPECIFICATION Spec

INVARIANTS
  TypeOK
  FramesAligned

PROPERTY ImplementsFifo

CHECK_DEADLOCK FALSE
