CONSTANTS
  N = 2
  COMMUNICATION_PORT = 9000
  RETRY_CONNECT = 2
  Programs <- MCPrograms
  Worlds <- MCWorlds
  Buffer = 2
  Lowest <- MCLowest
  NoOne = NoOne

SPECIFICATION FairSpec

PROPERTY BrokenSendRaises

CHECK_DEADLOCK FALSE
