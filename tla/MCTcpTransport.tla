--------------------------- MODULE MCTcpTransport ---------------------------
\* Four parties: jars of one to three bytes over connections that hold two, with a
\* link that is used twice and one that is used both ways.  The set-up goes wrong, a
\* party dies, or nothing does.
EXTENDS TcpTransport

To(q, len) == [do |-> "send", peer |-> q, msg_len |-> len]
From(q, len) == [do |-> "receive", peer |-> q, msg_len |-> len]

MCPrograms ==
  {[p \in Parties |->
      CASE p = 0 -> <<To(1, 3), To(1, 1), From(1, 2), To(3, 2)>>
        [] p = 1 -> <<From(0, 3), To(0, 2), From(0, 1), To(2, 1)>>
        [] p = 2 -> <<From(1, 1)>>
        [] p = 3 -> <<From(0, 2)>>]}

MCLowest == -1

MCWorlds ==
  {[busy |-> {}, patient |-> TRUE, stops |-> s] : s \in BOOLEAN} \cup
  {[busy |-> {port(1, 2)}, patient |-> FALSE, stops |-> FALSE],
   [busy |-> {}, patient |-> FALSE, stops |-> FALSE]}

=============================================================================
