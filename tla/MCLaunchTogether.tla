--------------------------- MODULE MCLaunchTogether ---------------------------
\* Two processes start together; the bundle has been unpacked long ago.
EXTENDS Launch

CONSTANTS stdlib, gmp

MCArchive == <<stdlib, gmp>>
MCWorlds ==
  {[together |-> 2, unpacked |-> TRUE, looked |-> TRUE, linkable |-> TRUE, stops |-> FALSE]}

=============================================================================
