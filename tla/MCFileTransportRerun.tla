------------------------- MODULE MCFileTransportRerun -------------------------
\* Two runs of the program over one link, in the same directories.
EXTENDS FileTransportRerun

CONSTANTS b4, b8

MCLinks == {<<1, 2>>}
MCQuota == [c \in MCLinks |-> 1]
MCSize == [b \in Bodies |-> IF b = b8 THEN 8 ELSE 4]

=============================================================================
