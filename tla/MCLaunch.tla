------------------------------- MODULE MCLaunch -------------------------------
\* Three processes and a bundle of three files, the library the second.  Processes
\* start one at a time and may be killed, or at the same time and are not.
EXTENDS Launch

CONSTANTS stdlib, gmp, plugin

MCArchive == <<stdlib, gmp, plugin>>
MCWorlds ==
  [together : {1}, unpacked : BOOLEAN, looked : BOOLEAN, linkable : BOOLEAN, stops : BOOLEAN]
    \cup [together : {3}, unpacked : {FALSE}, looked : {FALSE}, linkable : {TRUE},
          stops : {FALSE}]

=============================================================================
