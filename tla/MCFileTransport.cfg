CONSTANTS
  b4 = b4
  b8 = b8
  Parties = {1, 2}
  Links <- MCLinks
  Bodies = {b4, b8}
  Size <- MCSize
  MaxSeq = 2
  Quota <- MCQuota
  NoFile = NoFile
  Partial = Partial
  Nobody = Nobody

SPECIFICATION FairSpec

INVARIANTS
  TypeOK
  DeliveredInOrder

PROPERTIES
  PublishedImmutable
  ReceiveCompletes
  ImplementsFifo

CHECK_DEADLOCK FALSE
