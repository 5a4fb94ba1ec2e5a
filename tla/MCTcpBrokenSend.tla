--------------------------- MODULE MCTcpBrokenSend ---------------------------
\* Party 0 sends three jars to party 1, which may be killed.
EXTENDS TcpTransport

Jar2(do, q) == [do |-> do, peer |-> q, msg_len |-> 2]
MCPrograms ==
  {[p \in Parties |-> [i \in 1 .. 3 |-> Jar2(IF p = 0 THEN "send" ELSE "receive", 1 - p)]]}
MCWorlds == {[busy |-> {}, patient |-> TRUE, stops |-> TRUE]}
MCLowest == -1

=============================================================================
