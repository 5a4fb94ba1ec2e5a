CONSTANTS
  N = 4
  COMMUNICATION_PORT = 9000
  RETRY_CONNECT = 2
  Programs <- MCPrograms
  Worlds <- MCWorlds
  Buffer = 2
  Lowest <- MCLowest
  NoOne = NoOne

SPECIFICATION FairSpec

INVARIANTS
  TypeOK
  ChannelsMatch
  NobodyRaises

PROPERTIES
  ProgramsEnd
  ReceiveNotices
  ImplementsFifo

CHECK_DEADLOCK FALSE
