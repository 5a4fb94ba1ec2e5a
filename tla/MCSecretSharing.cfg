CONSTANTS
  Word = 512
  Modulus = 13
  Draws = 8
  Period = 12
  K = 2
  V = 1
  F = 1
  N = 4
  Programs <- MCPrograms
  Tapes <- MCTapes

SPECIFICATION Spec

INVARIANTS
  TypeOK
  SharesAddUp
  RevealedRight
  StreamsPaired
  MasksFresh
  EndsInStep
  TruncatedRight
  PartitionsCoherent
