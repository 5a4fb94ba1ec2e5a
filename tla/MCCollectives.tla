---------------------------- MODULE MCCollectives ----------------------------
\* Every program of two collectives, each collective in the variants that differ.
EXTENDS Collectives

MCCalls ==
  {[name |-> n] : n \in {"reveal", "reveal_to_all", "is_broadcast", "sync_lite", "sync_full"}}
    \cup {[name |-> n, party |-> 2] : n \in {"broadcast_from", "collect_at"}}
    \cup {[name |-> "collect", dealer |-> d, excluded |-> {}] : d \in BOOLEAN}
    \cup {[name |-> "collect", dealer |-> FALSE, excluded |-> {1}],
          [name |-> "reveal_at", party |-> 0],
          [name |-> "sequential", skip_dealer |-> FALSE]}

=============================================================================
