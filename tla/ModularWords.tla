---------------------------- MODULE ModularWords ----------------------------
(***************************************************************************)
(* Modular arithmetic as class UInt (types/builtin.codon) computes it, in  *)
(* machine words: a sum or a difference wraps around at the word before it *)
(* is reduced.  mpc_uint has 256 bits and the field modulus is 2^251 - 9,  *)
(* the ring modulus 2^251; rand draws 250 bits for either.                 *)
(***************************************************************************)
EXTENDS Integers

CONSTANTS
  Word,     \* 2^256: words are the numbers below
  Modulus,  \* MPC_FIELD_SIZE or MPC_RING_SIZE
  Draws     \* 2^250: rand gives a number below

ASSUME WordAssumption ==
  /\ Word \in Nat /\ Modulus \in Nat \ {0} /\ Draws \in Nat \ {0}
  /\ 4 * Modulus <= Word
  /\ Draws <= Modulus

Residues == 0 .. Modulus - 1

\* The machine's + and - of words.
Add(a, b) == (a + b) % Word
Subtract(a, b) == (a - b) % Word

\* Mutant: the sum is left to a later reduction.
add_mod_late(a, b) == Add(a, b)

add_mod(a, b) == Add(a, b) % Modulus
sub_mod(a, b) == Subtract(Add(a, Modulus), b) % Modulus
neg_mod(a) == Subtract(Modulus, a)

\* The product is computed at full length (gmp_mul_mod) before it is reduced.
mul_mod(a, b) == (a * b) % Modulus

=============================================================================
