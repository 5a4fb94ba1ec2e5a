CONSTANTS
  b4 = b4
  b8 = b8
  Parties = {1, 2}
  Links <- MCLinks
  Bodies = {b4, b8}
  Size <- MCSize
  MaxSeq = 1
  MaxRuns = 2
  Quota <- MCQuota
  NoFile = NoFile
  Partial = Partial
  Nobody = Nobody

SPECIFICATION SpecRerun

INVARIANTS
  DeliveredInOrder

CHECK_DEADLOCK FALSE
