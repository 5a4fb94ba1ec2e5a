--------------------------- MODULE MCSecretSharing ---------------------------
\* Two inputs, from the dealer or from computing parties, and calls that use the
\* partitions of earlier ones: kept, carried over, or dropped; powers; a truncation.
EXTENDS MCTapes

Inputs(s, t, v, w) ==
  <<[op |-> "share_from", source |-> s, data |-> v],
    [op |-> "share_from", source |-> t, data |-> w]>>
Mul(j, k) == [op |-> "mul", x |-> j, y |-> k]
PowerOf(j, n) == [op |-> "pow", x |-> j, power |-> n]
Linear(name, j, k) == [op |-> name, x |-> j, y |-> k]
Public(name, j, c) == [op |-> name, x |-> j, a |-> c]
Reveal(j) == [op |-> "reveal", x |-> j]

MCPrograms ==
  {Inputs(s, s + 1, 7, 12)
     \o <<Mul(1, 2), Linear(lin, 1, 2), Public(pub, 4, 5), Mul(5, 1), Reveal(6)>> :
     s \in 0 .. 1, lin \in {"add", "sub"}, pub \in {"add_public", "mul_public"}}
  \cup {Inputs(s, 3 - s, 9, 12)
     \o <<PowerOf(1, n), Linear(lin, 1, 2), Mul(4, 4), Reveal(5)>> :
     s \in {0, 2}, n \in {2, 4}, lin \in {"add", "sub"}}
  \cup {Inputs(s, 2, v, 1)
     \o <<Mul(1, 2), [op |-> "trunc", x |-> 3], Linear("add", 4, 1), Reveal(5)>> :
     s \in 0 .. 1, v \in 2 .. 3}

=============================================================================
