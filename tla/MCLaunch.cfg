CONSTANTS
  stdlib = stdlib
  gmp = gmp
  plugin = plugin
  Processes = {p0, p1, p2}
  Archive <- MCArchive
  Gmp = gmp
  Worlds <- MCWorlds
  NoFile = NoFile
  Link = Link

SPECIFICATION Spec

INVARIANTS
  TypeOK
  ReadyWhole
  SettledWhole

PROPERTY WholeStays

CHECK_DEADLOCK FALSE
