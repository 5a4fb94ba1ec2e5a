--------------------------- MODULE MCFileTransport ---------------------------
\* An instance of FileTransport for TLC: the hub, party 1, sends party 2 up to two
\* jars and party 2 sends one back; a jar holds 4 or 8 bytes.
EXTENDS FileTransport

CONSTANTS b4, b8

MCLinks == {<<1, 2>>, <<2, 1>>}
MCQuota == [c \in MCLinks |-> IF c[1] < c[2] THEN 2 ELSE 1]
MCSize == [b \in Bodies |-> IF b = b8 THEN 8 ELSE 4]

=============================================================================
