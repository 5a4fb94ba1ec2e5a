---------------------------- MODULE MCJarFraming ----------------------------
\* Three parties on a line: the dealer sends to the hub, the hub exchanges values
\* with party 2.  One value is as long as a size jar.
EXTENDS JarFraming

CONSTANTS int, list

MCLinks == {<<0, 1>>, <<1, 2>>, <<2, 1>>}
MCSize == [v \in Values |-> IF v = int THEN IntSize ELSE 40]

=============================================================================
