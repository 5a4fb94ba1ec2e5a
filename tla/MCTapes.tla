------------------------------- MODULE MCTapes -------------------------------
\* Tapes for TLC: for each pair of factors, the n-th number of seed <<p, q>> is that
\* combination of p, q and n; one tape draws the largest number always.
EXTENDS SecretSharing

MCTape(i, j) ==
  [d \in Seeds |-> [n \in 1 .. Period |-> (i * d[1] + j * d[2] + (i + d[2]) * n) % Draws]]
MCTapes == {MCTape(1, 3), MCTape(5, 2), [d \in Seeds |-> [n \in 1 .. Period |-> Draws - 1]]}

=============================================================================
