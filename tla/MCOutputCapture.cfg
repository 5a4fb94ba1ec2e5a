CONSTANTS
  N = 3
  Programs <- MCPrograms
  Worlds <- MCWorlds
  Stdio = 1

SPECIFICATION FairSpec

INVARIANTS
  TypeOK
  CallerRestored
  ProgramHeard
  DrainedOnReturn
  OutputOnce

PROPERTY Returns

CHECK_DEADLOCK FALSE
