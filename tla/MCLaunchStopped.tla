--------------------------- MODULE MCLaunchStopped ---------------------------
\* Processes start one after the other; the first may be killed while it unpacks.
EXTENDS Launch

CONSTANTS stdlib, gmp

MCArchive == <<stdlib, gmp>>
MCWorlds ==
  {[together |-> 1, unpacked |-> FALSE, looked |-> FALSE, linkable |-> TRUE, stops |-> TRUE]}

=============================================================================
