CONSTANTS
  N = 4
  Calls <- MCCalls
  Length = 2
  Buffers = {0, 2}

SPECIFICATION FairSpec

INVARIANTS
  TypeOK
  CallsAligned
  ResultsRight
  SyncIsBarrier
  OneAtATime
  NothingLeft

PROPERTY Terminates
