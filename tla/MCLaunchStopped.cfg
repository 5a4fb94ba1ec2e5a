CONSTANTS
  stdlib = stdlib
  gmp = gmp
  Processes = {p0, p1}
  Archive <- MCArchive
  Gmp = gmp
  Worlds <- MCWorlds
  NoFile = NoFile
  Link = Link

SPECIFICATION Spec

INVARIANT UnpackedWhenReturned

CHECK_DEADLOCK FALSE
