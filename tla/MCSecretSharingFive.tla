------------------------- MODULE MCSecretSharingFive -------------------------
\* Five parties: party 1 shares a small number and reveals it.
EXTENDS MCTapes

MCPrograms == {<<[op |-> "share_from", source |-> 1, data |-> 2], [op |-> "reveal", x |-> 1]>>}

=============================================================================
