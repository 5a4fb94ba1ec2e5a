------------------------- MODULE SecretSharingProofs -------------------------
(***************************************************************************)
(* Theorems about SecretSharing, for any number of parties, programs,      *)
(* tapes and sizes of the ring that its assumptions allow.                 *)
(*                                                                         *)
(* The parties of a program do not wait for each other at most calls, so   *)
(* no state relates two parties directly.  The invariant relates each of   *)
(* them to the program instead: Plan tells what the first n calls draw     *)
(* from every stream, which results they partition, how many numbers they  *)
(* make the dealer send and how often they call reveal; every party is     *)
(* behind the plan of its call by what it has not done of it yet, and a    *)
(* link holds the difference of what its two ends have done.               *)
(***************************************************************************)
EXTENDS SecretSharing, TLAPS, FiniteSetTheorems

-----------------------------------------------------------------------------
(***************************************************************************)
(* What the arithmetic of ModularWords computes, for every word and every  *)
(* modulus that leaves two bits of the word free.                          *)
(***************************************************************************)

LEMMA SmallMod ==
  ASSUME NEW n \in Nat \ {0}, NEW a \in 0 .. n - 1
  PROVE  a % n = a
  OBVIOUS

LEMMA ModType ==
  ASSUME NEW n \in Nat \ {0}, NEW a \in Int
  PROVE  a % n \in 0 .. n - 1
  OBVIOUS

LEMMA ModUnique ==
  ASSUME NEW n \in Nat \ {0}, NEW a \in Int, NEW q \in Int, NEW r \in 0 .. n - 1, a = q * n + r
  PROVE  a % n = r
  OBVIOUS

LEMMA ModQuotient ==
  ASSUME NEW n \in Nat \ {0}, NEW a \in Int
  PROVE  \E q \in Int : a = q * n + (a % n)
<1>1. a = (a \div n) * n + (a % n) /\ a \div n \in Int
  OBVIOUS
<1>2. QED BY <1>1

\* Multiples of the modulus do not count.
LEMMA ModShift ==
  ASSUME NEW n \in Nat \ {0}, NEW a \in Int, NEW k \in Int
  PROVE  (a + k * n) % n = a % n
<1>1. PICK q \in Int : a = q * n + (a % n)
  BY ModQuotient
<1>2. a % n \in 0 .. n - 1
  BY ModType
<1>3. PICK r \in 0 .. n - 1 : r = a % n
  BY <1>2
<1>4. a + k * n = (q + k) * n + r
  BY <1>1, <1>3
<1>5. q + k \in Int /\ a + k * n \in Int
  OBVIOUS
<1>6. (a + k * n) % n = r
  BY <1>4, <1>5, ModUnique
<1>7. QED BY <1>3, <1>6

LEMMA Sizes ==
  /\ Word \in Nat \ {0} /\ Modulus \in Nat \ {0}
  /\ 4 * Modulus <= Word
  /\ Residues = 0 .. Modulus - 1
  BY WordAssumption DEF Residues

\* A sum of words that are up to twice too large does not wrap around.
THEOREM AddRight ==
  ASSUME NEW a \in 0 .. 2 * Modulus - 1, NEW b \in 0 .. 2 * Modulus - 1
  PROVE  add_mod(a, b) = (a + b) % Modulus /\ add_mod(a, b) \in Residues
<1>1. a + b \in 0 .. Word - 1
  BY Sizes
<1>2. Add(a, b) = a + b
  BY <1>1, Sizes, SmallMod DEF Add
<1>3. (a + b) % Modulus \in Residues
  BY <1>1, Sizes, ModType
<1>4. QED BY <1>2, <1>3 DEF add_mod

\* A difference is that of the integers, reduced, as long as the Modulus that sub_mod
\* adds keeps the machine's from wrapping around below zero: the subtrahend may be a
\* whole Modulus, or a sum of draws that is not reduced, but no more than this.
THEOREM SubtractRight ==
  ASSUME NEW a \in 0 .. Modulus, NEW b \in 0 .. a + Modulus
  PROVE  sub_mod(a, b) = (a - b) % Modulus /\ sub_mod(a, b) \in Residues
<1>1. a + Modulus \in 0 .. Word - 1 /\ (a + Modulus) - b \in 0 .. Word - 1
  BY Sizes
<1>2. Add(a, Modulus) = a + Modulus
  BY <1>1, Sizes, SmallMod DEF Add
<1>3. Subtract(a + Modulus, b) = (a + Modulus) - b
  <2>1. PICK d \in 0 .. Word - 1 : d = (a + Modulus) - b
    BY <1>1
  <2>2. d % Word = d
    BY Sizes, SmallMod
  <2>3. QED BY <2>1, <2>2 DEF Subtract
<1>4. a - b \in Int /\ 1 \in Int /\ (a + Modulus) - b = (a - b) + 1 * Modulus
  BY Sizes
<1>5. ((a + Modulus) - b) % Modulus = (a - b) % Modulus
  BY <1>4, Sizes, ModShift
<1>6. (a - b) % Modulus \in Residues
  BY <1>4, Sizes, ModType
<1>7. QED BY <1>2, <1>3, <1>5, <1>6 DEF sub_mod

\* To add what neg_mod returns is to subtract, though it returns Modulus for zero.
THEOREM NegateRight ==
  ASSUME NEW a \in Residues, NEW b \in Residues
  PROVE  neg_mod(b) \in 1 .. Modulus /\ add_mod(a, neg_mod(b)) = sub_mod(a, b)
<1>1. Modulus - b \in 0 .. Word - 1 /\ Modulus - b \in 1 .. Modulus
  BY Sizes
<1>2. neg_mod(b) = Modulus - b
  BY <1>1, Sizes, SmallMod DEF neg_mod, Subtract
<1>3. add_mod(a, neg_mod(b)) = (a + (Modulus - b)) % Modulus
  <2>1. PICK d \in 0 .. 2 * Modulus - 1 : d = Modulus - b
    BY <1>1, Sizes
  <2>2. a \in 0 .. 2 * Modulus - 1
    BY Sizes
  <2>3. add_mod(a, d) = (a + d) % Modulus
    BY <2>2, AddRight
  <2>4. QED BY <1>2, <2>1, <2>3
<1>4. a - b \in Int /\ 1 \in Int /\ a + (Modulus - b) = (a - b) + 1 * Modulus
  BY Sizes
<1>5. (a + (Modulus - b)) % Modulus = (a - b) % Modulus
  BY <1>4, Sizes, ModShift
<1>6. sub_mod(a, b) = (a - b) % Modulus
  BY Sizes, SubtractRight
<1>7. QED BY <1>1, <1>2, <1>3, <1>5, <1>6

\* What share_from blinds with a sum of draws, the draws uncover when they are added
\* to it: the shares of a value add up to the value, as long as the sum, which is not
\* reduced, does not exceed the value and the Modulus.
THEOREM MasksCancel ==
  ASSUME NEW a \in Residues, NEW r \in 0 .. a + Modulus
  PROVE  (sub_mod(a, r) + r) % Modulus = a
<1>1. a \in 0 .. Modulus /\ a - r \in Int /\ r \in Int
  BY Sizes
<1>2. sub_mod(a, r) = (a - r) % Modulus
  BY <1>1, SubtractRight
<1>3. PICK q \in Int : a - r = q * Modulus + ((a - r) % Modulus)
  BY <1>1, Sizes, ModQuotient
<1>4. PICK s \in Residues : s = (a - r) % Modulus
  BY <1>1, Sizes, ModType
<1>5. s + r = a + (-q) * Modulus /\ -q \in Int /\ a \in Int
  BY <1>1, <1>3, <1>4, Sizes
<1>6. (s + r) % Modulus = a % Modulus
  BY <1>5, Sizes, ModShift
<1>7. a % Modulus = a
  BY Sizes, SmallMod
<1>8. QED BY <1>2, <1>4, <1>6, <1>7

\* A sum of draws beyond that wraps around at the word, and the shares add up to
\* another value, whatever the value and the draws are: Word is no multiple of the
\* field's modulus.  (Five parties can draw such a sum, see SecretSharing.)
THEOREM MasksWrap ==
  ASSUME NEW a \in Residues, NEW r \in a + Modulus + 1 .. Word - 1, Word % Modulus # 0
  PROVE  (sub_mod(a, r) + r) % Modulus # a
<1> DEFINE w == Word % Modulus
<1>1. a + Modulus \in 0 .. Word - 1 /\ r \in Int /\ a \in Int /\ Word \in Int
  BY Sizes
<1>2. Add(a, Modulus) = a + Modulus
  BY <1>1, Sizes, SmallMod DEF Add
<1>3. PICK d \in 0 .. Word - 1 : d = ((a + Modulus) - r) + Word
  BY <1>1, Sizes
<1>4. Subtract(a + Modulus, r) = d
  <2>1. (a + Modulus) - r = (-1) * Word + d /\ -1 \in Int /\ (a + Modulus) - r \in Int
    BY <1>1, <1>3
  <2>2. ((a + Modulus) - r) % Word = d
    BY <2>1, Sizes, ModUnique
  <2>3. QED BY <2>2 DEF Subtract
<1>5. sub_mod(a, r) = d % Modulus
  BY <1>2, <1>4 DEF sub_mod
<1>6. PICK q \in Int : d = q * Modulus + (d % Modulus)
  <2>1. d \in Int
    BY <1>3, Sizes
  <2>2. QED BY <2>1, Sizes, ModQuotient
<1>7. PICK s \in Residues : s = d % Modulus
  <2>1. d \in Int
    BY <1>3, Sizes
  <2>2. QED BY <2>1, Sizes, ModType
<1>8. s + r = (a + Word) + (1 - q) * Modulus /\ 1 - q \in Int /\ a + Word \in Int
  BY <1>1, <1>3, <1>6, <1>7, Sizes
<1>9. (s + r) % Modulus = (a + Word) % Modulus
  BY <1>8, Sizes, ModShift
<1>10. PICK k \in Int : Word = k * Modulus + w
  BY <1>1, Sizes, ModQuotient
<1>11. w \in 1 .. Modulus - 1
  BY <1>1, Sizes, ModType
<1>12. PICK v \in 1 .. Modulus - 1 : v = w
  BY <1>11
<1>13. (a + v) % Modulus # a
  <2>1. CASE a + v < Modulus
    <3>1. a + v \in 0 .. Modulus - 1
      BY <2>1, Sizes
    <3>2. (a + v) % Modulus = a + v
      BY <3>1, Sizes, SmallMod
    <3>3. QED BY <3>2, Sizes
  <2>2. CASE a + v >= Modulus
    <3>1. a + v = 1 * Modulus + ((a + v) - Modulus) /\ (a + v) - Modulus \in 0 .. Modulus - 1
      BY <2>2, Sizes
    <3>2. (a + v) % Modulus = (a + v) - Modulus
      BY <3>1, Sizes, ModUnique
    <3>3. QED BY <3>2, Sizes
  <2>3. a + v < Modulus \/ a + v >= Modulus
    BY Sizes
  <2>4. QED BY <2>1, <2>2, <2>3
<1>14. (a + Word) % Modulus = (a + v) % Modulus
  <2>1. a + Word = (a + v) + k * Modulus /\ a + v \in Int
    BY <1>10, <1>12, Sizes
  <2>2. QED BY <2>1, Sizes, ModShift
<1>15. QED BY <1>5, <1>7, <1>9, <1>13, <1>14

-----------------------------------------------------------------------------
(***************************************************************************)
(* Recursion.  An induction theorem that takes an operator is beyond the   *)
(* provers; induction over a set of numbers is not, and follows from the   *)
(* pigeonhole principle.                                                   *)
(***************************************************************************)

\* Induction over the numbers, for a set of them: if one were missing, taking one away
\* would map the n + 1 numbers up to the first missing one into n places without a
\* collision.  A set has no operator for a parameter, so the provers can use it.
LEMMA SetInduction ==
  ASSUME NEW S, 0 \in S, \A n \in Nat : n \in S => n + 1 \in S
  PROVE  Nat \subseteq S
<1>1. SUFFICES ASSUME NEW n \in Nat, n \notin S PROVE FALSE
  OBVIOUS
<1> DEFINE T == {m \in 0 .. n : m \notin S}
           f == [m \in T |-> m - 1]
<1>2. IsFiniteSet(T) /\ n \in T
  <2>1. IsFiniteSet(0 .. n)
    BY FS_Interval
  <2>2. T \in SUBSET (0 .. n)
    OBVIOUS
  <2>3. IsFiniteSet(T)
    BY <2>1, <2>2, FS_Subset
  <2>4. QED BY <1>1, <2>3
<1>3. IsFiniteSet(T \ {n}) /\ Cardinality(T \ {n}) = Cardinality(T) - 1 /\ Cardinality(T) \in Nat
  BY <1>2, FS_RemoveElement, FS_CardinalityType
<1>4. ASSUME NEW m \in T PROVE m - 1 \in T \ {n}
  <2>1. m \in Nat /\ m # 0 /\ m <= n /\ m \notin S
    OBVIOUS
  <2>2. m - 1 \in 0 .. n /\ m - 1 # n /\ m - 1 \in Nat /\ (m - 1) + 1 = m
    BY <2>1
  <2>3. m - 1 \notin S
    BY <2>1, <2>2
  <2>4. QED BY <2>2, <2>3
<1>5. f \in [T -> T \ {n}]
  BY <1>4
<1>6. \A x, y \in T : f[x] = f[y] => x = y
  OBVIOUS
<1> HIDE DEF T, f
<1>7. Cardinality(T \ {n}) < Cardinality(T)
  BY <1>3
<1>8. PICK D : D = T \ {n}
  OBVIOUS
<1>9. IsFiniteSet(D) /\ Cardinality(D) < Cardinality(T) /\ f \in [T -> D]
  BY <1>3, <1>5, <1>7, <1>8
<1>10. \E x, y \in T : x # y /\ f[x] = f[y]
  BY <1>2, <1>9, FS_PigeonHole
<1>11. QED BY <1>6, <1>10

LEMMA Below ==
  /\ \A k, n \in Nat : k + 1 <= n => k \in 0 .. n - 1 /\ k \in 0 .. (n + 1) - 1 /\ k <= n
  /\ \A n \in Nat : n \in 0 .. (n + 1) - 1 /\ n + 1 \in Nat
  OBVIOUS

\* A function by recursion over the natural numbers.
Recursion(S, a, G) ==
  \E f \in [Nat -> S] : f[0] = a /\ \A n \in Nat : f[n + 1] = G[<<n, f[n]>>]

\* A function that is defined by recursion exists.
LEMMA RecursionExists ==
  ASSUME NEW S, NEW a \in S, NEW G \in [Nat \X S -> S]
  PROVE  Recursion(S, a, G)
<1> DEFINE Right(f, n) == f[0] = a /\ \A k \in 0 .. n - 1 : f[k + 1] = G[<<k, f[k]>>]
           Good == {n \in Nat : \E f \in [0 .. n -> S] : Right(f, n)}
<1>1. 0 \in Good
  <2>1. [k \in 0 .. 0 |-> a] \in [0 .. 0 -> S] /\ Right([k \in 0 .. 0 |-> a], 0)
    OBVIOUS
  <2>2. QED BY <2>1
<1>2. ASSUME NEW n \in Nat, n \in Good PROVE n + 1 \in Good
  <2>1. PICK f \in [0 .. n -> S] : Right(f, n)
    BY <1>2
  <2>2. n \in 0 .. n /\ f[n] \in S /\ <<n, f[n]>> \in Nat \X S
    OBVIOUS
  <2>3. G[<<n, f[n]>>] \in S
    BY <2>2
  <2> DEFINE g == [k \in 0 .. n + 1 |-> IF k = n + 1 THEN G[<<n, f[n]>>] ELSE f[k]]
  <2>4. g \in [0 .. n + 1 -> S]
    BY <2>3
  <2>5. /\ g[n + 1] = G[<<n, f[n]>>]
        /\ \A k \in 0 .. n : g[k] = f[k]
    OBVIOUS
  <2> HIDE DEF g
  <2>6. g[0] = a
    BY <2>1, <2>5
  <2>7. ASSUME NEW k \in 0 .. (n + 1) - 1 PROVE g[k + 1] = G[<<k, g[k]>>]
    <3>1. CASE k = n
      BY <2>5, <3>1
    <3>2. CASE k # n
      <4>1. k \in 0 .. n - 1 /\ k \in 0 .. n /\ k + 1 \in 0 .. n
        BY <3>2
      <4>2. QED BY <2>1, <2>5, <4>1
    <3>3. QED BY <3>1, <3>2
  <2>8. Right(g, n + 1)
    BY <2>6, <2>7
  <2>9. QED BY <2>4, <2>8
<1>3. Nat \subseteq Good
  <2> HIDE DEF Good
  <2>1. QED BY <1>1, <1>2, SetInduction
<1>4. PICK parts \in [Nat -> UNION {[0 .. n -> S] : n \in Nat}] :
        \A n \in Nat : parts[n] \in [0 .. n -> S] /\ Right(parts[n], n)
  <2>1. \A n \in Nat : \E f \in [0 .. n -> S] : Right(f, n)
    BY <1>3
  <2> DEFINE H == [n \in Nat |-> CHOOSE f \in [0 .. n -> S] : Right(f, n)]
  <2>2. \A n \in Nat : H[n] \in [0 .. n -> S] /\ Right(H[n], n)
    <3> HIDE DEF Right
    <3>1. QED BY <2>1
  <2>3. H \in [Nat -> UNION {[0 .. n -> S] : n \in Nat}]
    <3> HIDE DEF Right, H
    <3>1. DOMAIN H = Nat /\ H = [n \in Nat |-> H[n]]
      BY DEF H
    <3>2. QED BY <2>2, <3>1
  <2>4. QED BY <2>2, <2>3
<1>5. ASSUME NEW n \in Nat PROVE parts[n + 1][n] = parts[n][n]
  <2> DEFINE Same == {k \in Nat : k <= n => parts[n + 1][k] = parts[n][k]}
  <2>1. 0 \in Same
    BY <1>4
  <2>2. ASSUME NEW k \in Nat, k \in Same PROVE k + 1 \in Same
    <3>1. SUFFICES ASSUME k + 1 <= n PROVE parts[n + 1][k + 1] = parts[n][k + 1]
      OBVIOUS
    <3>2. k \in 0 .. n - 1 /\ k \in 0 .. (n + 1) - 1 /\ k <= n
      <4> HIDE DEF Same
      <4>1. QED BY <3>1, Below
    <3>3. parts[n + 1][k + 1] = G[<<k, parts[n + 1][k]>>] /\ parts[n][k + 1] = G[<<k, parts[n][k]>>]
      <4>1. Right(parts[n], n) /\ Right(parts[n + 1], n + 1)
        <5> HIDE DEF Right, Same
        <5>1. n + 1 \in Nat
          BY Below
        <5>2. QED BY <1>4, <5>1
      <4> HIDE DEF Same
      <4>2. QED BY <3>2, <4>1
    <3>4. QED BY <2>2, <3>2, <3>3
  <2>3. Nat \subseteq Same
    <3> HIDE DEF Same
    <3>1. QED BY <2>1, <2>2, SetInduction
  <2>4. QED BY <2>3
<1> DEFINE f == [m \in Nat |-> parts[m][m]]
<1>6. f \in [Nat -> S]
  <2>1. ASSUME NEW n \in Nat PROVE parts[n][n] \in S
    <3>1. parts[n] \in [0 .. n -> S] /\ n \in 0 .. n
      BY <1>4
    <3>2. QED BY <3>1
  <2>2. QED BY <2>1
<1>7. f[0] = a
  BY <1>4
<1>8. ASSUME NEW n \in Nat PROVE f[n + 1] = G[<<n, f[n]>>]
  <2>1. n \in 0 .. (n + 1) - 1 /\ n + 1 \in Nat
    BY Below
  <2>2. parts[n + 1][n + 1] = G[<<n, parts[n + 1][n]>>]
    BY <1>4, <2>1
  <2>3. f[n + 1] = parts[n + 1][n + 1] /\ f[n] = parts[n][n]
    BY <2>1
  <2>4. parts[n + 1][n] = parts[n][n]
    BY <1>5
  <2>5. QED BY <2>2, <2>3, <2>4
<1>9. QED BY <1>6, <1>7, <1>8 DEF Recursion

\* The same for a function of finitely many numbers, as the model's recursions are.
RecursionUpTo(S, a, n, G) ==
  \E f \in [0 .. n -> S] : f = [i \in 0 .. n |-> IF i = 0 THEN a ELSE G[<<i, f[i - 1]>>]]

LEMMA RecursionTo ==
  ASSUME NEW S, NEW a \in S, NEW n \in Nat, NEW G \in [(1 .. n) \X S -> S]
  PROVE  RecursionUpTo(S, a, n, G)
<1> DEFINE H == [c \in Nat \X S |-> IF c[1] + 1 \in 1 .. n THEN G[<<c[1] + 1, c[2]>>] ELSE a]
<1>1. H \in [Nat \X S -> S]
  OBVIOUS
<1>2. \A i \in 0 .. n - 1, x \in S : H[<<i, x>>] = G[<<i + 1, x>>]
  OBVIOUS
<1> HIDE DEF H
<1>3. PICK h \in [Nat -> S] : h[0] = a /\ \A i \in Nat : h[i + 1] = H[<<i, h[i]>>]
  <2>1. Recursion(S, a, H)
    BY <1>1, RecursionExists
  <2>2. QED BY <2>1 DEF Recursion
<1> DEFINE f == [i \in 0 .. n |-> h[i]]
<1>4. f \in [0 .. n -> S]
  OBVIOUS
<1>5. f[0] = a
  BY <1>3
<1>6. ASSUME NEW i \in 0 .. n, i # 0 PROVE f[i] = G[<<i, f[i - 1]>>]
  <2>1. i - 1 \in Nat /\ i - 1 \in 0 .. n - 1 /\ i - 1 \in 0 .. n /\ (i - 1) + 1 = i
    BY <1>6
  <2>2. h[(i - 1) + 1] = H[<<i - 1, h[i - 1]>>] /\ h[i - 1] \in S
    BY <1>3, <2>1
  <2>3. h[i] = G[<<i, h[i - 1]>>]
    BY <1>2, <2>1, <2>2
  <2>4. QED BY <2>1, <2>3
<1> HIDE DEF f
<1>7. \A i \in 0 .. n : f[i] = IF i = 0 THEN a ELSE G[<<i, f[i - 1]>>]
  BY <1>5, <1>6
<1>8. f = [i \in 0 .. n |-> IF i = 0 THEN a ELSE G[<<i, f[i - 1]>>]]
  BY <1>4, <1>7
<1>9. QED BY <1>4, <1>8 DEF RecursionUpTo

-----------------------------------------------------------------------------
(***************************************************************************)
(* The arithmetic leaves reduced numbers.                                  *)
(***************************************************************************)

\* The ring operations return residues; neg_mod may return Modulus.
LEMMA ArithmeticTypes ==
  ASSUME NEW a \in Int, NEW b \in Int
  PROVE  /\ add_mod(a, b) \in Residues
         /\ sub_mod(a, b) \in Residues
         /\ mul_mod(a, b) \in Residues
         /\ neg_mod(a) \in Nat
<1> DEFINE word(c) == c % Word
<1>0. \A c \in Int : word(c) \in Nat
  BY Sizes, ModType
<1>m. Modulus \in Int
  BY Sizes
<1>1. Add(a, b) \in Int /\ Add(a, Modulus) \in Int
  <2>1. a + b \in Int /\ a + Modulus \in Int
    BY <1>m
  <2>2. Add(a, b) = word(a + b) /\ Add(a, Modulus) = word(a + Modulus)
    BY DEF Add
  <2> HIDE DEF word
  <2>3. QED BY <1>0, <2>1, <2>2
<1>2. Subtract(Add(a, Modulus), b) \in Int /\ Subtract(Modulus, a) \in Nat
  <2>1. Add(a, Modulus) - b \in Int /\ Modulus - a \in Int
    BY <1>m, <1>1
  <2>2. Subtract(Add(a, Modulus), b) = word(Add(a, Modulus) - b)
    BY DEF Subtract
  <2>3. Subtract(Modulus, a) = word(Modulus - a)
    BY DEF Subtract
  <2> HIDE DEF word
  <2>4. QED BY <1>0, <2>1, <2>2, <2>3
<1>3. a * b \in Int
  OBVIOUS
<1>4. \A c \in Int : c % Modulus \in Residues
  BY Sizes, ModType
<1>5. QED BY <1>1, <1>2, <1>3, <1>4 DEF add_mod, sub_mod, mul_mod, neg_mod

LEMMA ResidueFacts ==
  /\ Residues \subseteq Nat /\ Residues \subseteq Int /\ 0 \in Residues
  /\ 1 % Modulus \in Residues
  BY Sizes, ModType

\* Induction on the places of a sequence.
LEMMA InductionTo ==
  ASSUME NEW n \in Nat, NEW S, 0 \in S, \A i \in 1 .. n : i - 1 \in S => i \in S
  PROVE  0 .. n \subseteq S
<1> DEFINE T == {i \in Nat : i <= n => i \in S}
<1>1. 0 \in T
  OBVIOUS
<1>2. ASSUME NEW i \in Nat, i \in T PROVE i + 1 \in T
  <2>1. CASE i + 1 <= n
    <3>1. i + 1 \in 1 .. n /\ (i + 1) - 1 = i /\ i \in S
      BY <1>2, <2>1
    <3>2. QED BY <3>1
  <2>2. CASE ~ (i + 1 <= n)
    BY <2>2
  <2>3. QED BY <2>1, <2>2
<1>3. Nat \subseteq T
  <2> HIDE DEF T
  <2>1. QED BY <1>1, <1>2, SetInduction
<1>4. QED BY <1>3

\* The steps of a sum.
SumSteps(values, sum) ==
  /\ sum \in [0 .. Len(values) -> Residues]
  /\ sum[0] = 0
  /\ \A i \in 1 .. Len(values) : sum[i] = add_mod(sum[i - 1], values[i])
  /\ SumMod(values) = sum[Len(values)]

\* SumMod is computed term by term.
LEMMA SumModSteps ==
  ASSUME NEW values \in Seq(Int)
  PROVE  \E sum : SumSteps(values, sum)
<1> DEFINE n == Len(values)
           G == [c \in (1 .. n) \X Residues |-> add_mod(c[2], values[c[1]])]
           IsSum(s) == s = [i \in 0 .. n |-> IF i = 0 THEN 0 ELSE add_mod(s[i - 1], values[i])]
<1>1. n \in Nat /\ \A i \in 1 .. n : values[i] \in Int
  OBVIOUS
<1>2. G \in [(1 .. n) \X Residues -> Residues]
  <2>1. ASSUME NEW c \in (1 .. n) \X Residues PROVE add_mod(c[2], values[c[1]]) \in Residues
    <3>1. c[1] \in 1 .. n /\ c[2] \in Residues
      OBVIOUS
    <3>3. c[2] \in Int /\ values[c[1]] \in Int
      <4> HIDE DEF n
      <4>1. QED BY <1>1, <3>1, ResidueFacts
    <3>4. QED BY <3>3, ArithmeticTypes
  <2>2. QED BY <2>1
<1>3. RecursionUpTo(Residues, 0, n, G)
  <2> HIDE DEF G, n
  <2>1. QED BY <1>1, <1>2, ResidueFacts, RecursionTo
<1>4. PICK f \in [0 .. n -> Residues] : f = [i \in 0 .. n |-> IF i = 0 THEN 0 ELSE G[<<i, f[i - 1]>>]]
  BY <1>3 DEF RecursionUpTo
<1>5. IsSum(f)
  <2>1. ASSUME NEW i \in 0 .. n, i # 0 PROVE G[<<i, f[i - 1]>>] = add_mod(f[i - 1], values[i])
    <3>1. i \in 1 .. n /\ i - 1 \in 0 .. n
      BY <1>1, <2>1
    <3>2. <<i, f[i - 1]>> \in (1 .. n) \X Residues
      BY <3>1
    <3>3. QED BY <3>2
  <2> HIDE DEF G, n
  <2>2. QED BY <1>4, <2>1
<1> DEFINE sum == CHOOSE s : IsSum(s)
<1>6. IsSum(sum)
  <2> HIDE DEF IsSum
  <2>1. QED BY <1>5
<1>7. SumMod(values) = sum[n]
  BY DEF SumMod
<1> HIDE DEF sum
<1>8. sum[0] = 0 /\ DOMAIN sum = 0 .. n
  <2>1. 0 \in 0 .. n
    BY <1>1
  <2> HIDE DEF n
  <2>2. QED BY <1>6, <2>1
<1>9. ASSUME NEW i \in 1 .. n PROVE sum[i] = add_mod(sum[i - 1], values[i])
  <2>1. i \in 0 .. n /\ i # 0
    BY <1>1
  <2> HIDE DEF n
  <2>2. QED BY <1>6, <2>1
<1> DEFINE Good == {i \in 0 .. n : sum[i] \in Residues}
<1>10. 0 \in Good
  BY <1>1, <1>8, ResidueFacts
<1>11. ASSUME NEW i \in 1 .. n, i - 1 \in Good PROVE i \in Good
  <2>1. sum[i - 1] \in Int /\ values[i] \in Int
    BY <1>11, ResidueFacts
  <2>2. sum[i] = add_mod(sum[i - 1], values[i])
    BY <1>9
  <2>3. sum[i] \in Residues
    BY <2>1, <2>2, ArithmeticTypes
  <2>4. QED BY <1>1, <2>3
<1>12. 0 .. n \subseteq Good
  <2> HIDE DEF Good
  <2>1. QED BY <1>1, <1>10, <1>11, InductionTo
<1>13. sum \in [0 .. n -> Residues]
  <2>1. \A i \in 0 .. n : sum[i] \in Residues
    BY <1>1, <1>12
  <2>2. sum = [i \in 0 .. n |-> sum[i]]
    BY <1>6, <1>8
  <2>3. QED BY <2>1, <2>2
<1>14. QED BY <1>7, <1>8, <1>9, <1>13 DEF SumSteps

LEMMA AddType ==
  ASSUME NEW a \in Int, NEW b \in Int
  PROVE  Add(a, b) \in Nat
<1>1. a + b \in Int
  OBVIOUS
<1>2. QED BY <1>1, Sizes, ModType DEF Add

\* The steps of a sum that is not reduced.
WordSteps(values, sum) ==
  /\ sum \in [0 .. Len(values) -> Nat]
  /\ sum[0] = 0
  /\ \A i \in 1 .. Len(values) : sum[i] = Add(sum[i - 1], values[i])
  /\ SumWords(values) = sum[Len(values)]

LEMMA SumWordsSteps ==
  ASSUME NEW values \in Seq(Int)
  PROVE  \E sum : WordSteps(values, sum)
<1> DEFINE n == Len(values)
           G == [c \in (1 .. n) \X Nat |-> Add(c[2], values[c[1]])]
           IsSum(s) == s = [i \in 0 .. n |-> IF i = 0 THEN 0 ELSE Add(s[i - 1], values[i])]
<1>1. n \in Nat /\ \A i \in 1 .. n : values[i] \in Int
  OBVIOUS
<1>2. G \in [(1 .. n) \X Nat -> Nat]
  <2>1. ASSUME NEW c \in (1 .. n) \X Nat PROVE Add(c[2], values[c[1]]) \in Nat
    <3>1. c[1] \in 1 .. n /\ c[2] \in Nat
      OBVIOUS
    <3>3. c[2] \in Int /\ values[c[1]] \in Int
      <4> HIDE DEF n
      <4>1. QED BY <1>1, <3>1, Sizes
    <3>4. QED BY <3>3, AddType
  <2>2. QED BY <2>1
<1>3. RecursionUpTo(Nat, 0, n, G)
  <2> HIDE DEF G, n
  <2>1. QED BY <1>1, <1>2, Sizes, RecursionTo
<1>4. PICK f \in [0 .. n -> Nat] : f = [i \in 0 .. n |-> IF i = 0 THEN 0 ELSE G[<<i, f[i - 1]>>]]
  BY <1>3 DEF RecursionUpTo
<1>5. IsSum(f)
  <2>1. ASSUME NEW i \in 0 .. n, i # 0 PROVE G[<<i, f[i - 1]>>] = Add(f[i - 1], values[i])
    <3>1. i \in 1 .. n /\ i - 1 \in 0 .. n
      BY <1>1, <2>1
    <3>2. <<i, f[i - 1]>> \in (1 .. n) \X Nat
      BY <3>1
    <3>3. QED BY <3>2
  <2> HIDE DEF G, n
  <2>2. QED BY <1>4, <2>1
<1> DEFINE sum == CHOOSE s : IsSum(s)
<1>6. IsSum(sum)
  <2> HIDE DEF IsSum
  <2>1. QED BY <1>5
<1>7. SumWords(values) = sum[n]
  BY DEF SumWords
<1> HIDE DEF sum
<1>8. sum[0] = 0 /\ DOMAIN sum = 0 .. n
  <2>1. 0 \in 0 .. n
    BY <1>1
  <2> HIDE DEF n
  <2>2. QED BY <1>6, <2>1
<1>9. ASSUME NEW i \in 1 .. n PROVE sum[i] = Add(sum[i - 1], values[i])
  <2>1. i \in 0 .. n /\ i # 0
    BY <1>1
  <2> HIDE DEF n
  <2>2. QED BY <1>6, <2>1
<1> DEFINE Good == {i \in 0 .. n : sum[i] \in Nat}
<1>10. 0 \in Good
  BY <1>1, <1>8, Sizes
<1>11. ASSUME NEW i \in 1 .. n, i - 1 \in Good PROVE i \in Good
  <2>1. sum[i - 1] \in Int /\ values[i] \in Int
    BY <1>11, Sizes
  <2>2. sum[i] = Add(sum[i - 1], values[i])
    BY <1>9
  <2>3. sum[i] \in Nat
    BY <2>1, <2>2, AddType
  <2>4. QED BY <1>1, <2>3
<1>12. 0 .. n \subseteq Good
  <2> HIDE DEF Good
  <2>1. QED BY <1>1, <1>10, <1>11, InductionTo
<1>13. sum \in [0 .. n -> Nat]
  <2>1. \A i \in 0 .. n : sum[i] \in Nat
    BY <1>1, <1>12
  <2>2. sum = [i \in 0 .. n |-> sum[i]]
    BY <1>6, <1>8
  <2>3. QED BY <2>1, <2>2
<1>14. QED BY <1>7, <1>8, <1>9, <1>13 DEF WordSteps

\* The steps of a power.
PowSteps(a, n, pow) ==
  /\ pow \in [0 .. n -> Residues]
  /\ pow[0] = 1 % Modulus
  /\ \A i \in 1 .. n : pow[i] = mul_mod(pow[i - 1], a)
  /\ Pow(a, n) = pow[n]

\* Pow is computed factor by factor.
LEMMA PowHasSteps ==
  ASSUME NEW a \in Int, NEW n \in Nat
  PROVE  \E pow : PowSteps(a, n, pow)
<1> DEFINE one == 1 % Modulus
           G == [c \in (1 .. n) \X Residues |-> mul_mod(c[2], a)]
           IsPow(s) == s = [i \in 0 .. n |-> IF i = 0 THEN one ELSE mul_mod(s[i - 1], a)]
<1>1. one \in Residues
  BY ResidueFacts
<1>2. G \in [(1 .. n) \X Residues -> Residues]
  <2>1. ASSUME NEW c \in (1 .. n) \X Residues PROVE mul_mod(c[2], a) \in Residues
    <3>1. c[2] \in Int
      BY ResidueFacts
    <3>2. QED BY <3>1, ArithmeticTypes
  <2>2. QED BY <2>1
<1>3. RecursionUpTo(Residues, one, n, G)
  <2> HIDE DEF G, one
  <2>1. QED BY <1>1, <1>2, RecursionTo
<1>4. PICK f \in [0 .. n -> Residues] : f = [i \in 0 .. n |-> IF i = 0 THEN one ELSE G[<<i, f[i - 1]>>]]
  BY <1>3 DEF RecursionUpTo
<1>5. IsPow(f)
  <2>1. ASSUME NEW i \in 0 .. n, i # 0 PROVE G[<<i, f[i - 1]>>] = mul_mod(f[i - 1], a)
    <3>1. i \in 1 .. n /\ i - 1 \in 0 .. n
      BY <2>1
    <3>2. <<i, f[i - 1]>> \in (1 .. n) \X Residues
      BY <3>1
    <3>3. QED BY <3>2
  <2> HIDE DEF G, one
  <2>2. QED BY <1>4, <2>1
<1> DEFINE pow == CHOOSE s : IsPow(s)
<1>6. IsPow(pow)
  <2> HIDE DEF IsPow
  <2>1. QED BY <1>5
<1>7. Pow(a, n) = pow[n]
  BY DEF Pow
<1> HIDE DEF pow
<1>8. pow[0] = one /\ DOMAIN pow = 0 .. n
  <2>1. 0 \in 0 .. n
    OBVIOUS
  <2> HIDE DEF one
  <2>2. QED BY <1>6, <2>1
<1>9. ASSUME NEW i \in 1 .. n PROVE pow[i] = mul_mod(pow[i - 1], a)
  <2>1. i \in 0 .. n /\ i # 0
    OBVIOUS
  <2> HIDE DEF one
  <2>2. QED BY <1>6, <2>1
<1> DEFINE Good == {i \in 0 .. n : pow[i] \in Residues}
<1>10. 0 \in Good
  <2> HIDE DEF one
  <2>1. QED BY <1>1, <1>8
<1>11. ASSUME NEW i \in 1 .. n, i - 1 \in Good PROVE i \in Good
  <2>1. pow[i - 1] \in Int
    BY <1>11, ResidueFacts
  <2>2. pow[i] = mul_mod(pow[i - 1], a)
    BY <1>9
  <2>3. pow[i] \in Residues
    BY <2>1, <2>2, ArithmeticTypes
  <2>4. QED BY <2>3
<1>12. 0 .. n \subseteq Good
  <2> HIDE DEF Good
  <2>1. QED BY <1>10, <1>11, InductionTo
<1>13. pow \in [0 .. n -> Residues]
  <2>1. \A i \in 0 .. n : pow[i] \in Residues
    BY <1>12
  <2>2. pow = [i \in 0 .. n |-> pow[i]]
    BY <1>6, <1>8
  <2>3. QED BY <2>1, <2>2
<1>14. QED BY <1>7, <1>8, <1>9, <1>13 DEF PowSteps

LEMMA PowType ==
  ASSUME NEW a \in Int, NEW n \in Nat
  PROVE  Pow(a, n) \in Residues
<1>1. PICK pow : PowSteps(a, n, pow)
  BY PowHasSteps
<1>2. n \in 0 .. n
  OBVIOUS
<1>3. QED BY <1>1, <1>2 DEF PowSteps

LEMMA TwoToType ==
  /\ TwoTo \in [Nat -> Nat \ {0}]
  /\ TwoTo[0] = 1
  /\ \A n \in Nat : TwoTo[n + 1] = 2 * TwoTo[n]
<1> DEFINE S == Nat \ {0}
           G == [c \in Nat \X S |-> 2 * c[2]]
           IsTwo(s) == s = [n \in Nat |-> IF n = 0 THEN 1 ELSE 2 * s[n - 1]]
<1>1. G \in [Nat \X S -> S] /\ 1 \in S
  OBVIOUS
<1>2. Recursion(S, 1, G)
  <2> HIDE DEF G, S
  <2>1. QED BY <1>1, RecursionExists
<1>3. PICK f \in [Nat -> S] : f[0] = 1 /\ \A n \in Nat : f[n + 1] = G[<<n, f[n]>>]
  BY <1>2 DEF Recursion
<1>4. IsTwo(f)
  <2>1. ASSUME NEW n \in Nat, n # 0 PROVE f[n] = 2 * f[n - 1]
    <3>1. n - 1 \in Nat /\ (n - 1) + 1 = n
      BY <2>1
    <3>2. f[(n - 1) + 1] = G[<<n - 1, f[n - 1]>>] /\ f[n - 1] \in S
      BY <1>3, <3>1
    <3>3. QED BY <3>1, <3>2
  <2>2. QED BY <1>3, <2>1
<1>5. IsTwo(TwoTo)
  <2>1. TwoTo = CHOOSE s : IsTwo(s)
    BY DEF TwoTo
  <2> HIDE DEF IsTwo
  <2>2. QED BY <1>4, <2>1
<1>6. TwoTo[0] = 1
  BY <1>5
<1>7. ASSUME NEW n \in Nat PROVE TwoTo[n + 1] = 2 * TwoTo[n]
  <2>1. n + 1 \in Nat /\ n + 1 # 0 /\ (n + 1) - 1 = n
    OBVIOUS
  <2>2. QED BY <1>5, <2>1
<1> DEFINE Good == {n \in Nat : TwoTo[n] \in S}
<1>8. 0 \in Good
  BY <1>6
<1>9. ASSUME NEW n \in Nat, n \in Good PROVE n + 1 \in Good
  <2>1. TwoTo[n] \in Nat \ {0} /\ TwoTo[n + 1] = 2 * TwoTo[n]
    BY <1>7, <1>9
  <2>2. QED BY <2>1
<1>10. Nat \subseteq Good
  <2> HIDE DEF Good
  <2>1. QED BY <1>8, <1>9, SetInduction
<1>11. TwoTo = [n \in Nat |-> TwoTo[n]]
  BY <1>5
<1>12. QED BY <1>6, <1>7, <1>10, <1>11

PascalRow(n, prev) ==
  [k \in Nat |-> IF k > n THEN 0 ELSE IF k = 0 \/ k = n THEN 1 ELSE prev[k - 1] + prev[k]]

\* The matrix is computed row by row.
LEMMA PascalRight ==
  \A n \in Nat : /\ pascal_matrix[n] \in [Nat -> Nat]
                 /\ pascal_matrix[n] = PascalRow(n, pascal_matrix[n - 1])
<1> DEFINE S == [Nat -> Nat]
           first == [k \in Nat |-> IF k > 0 THEN 0 ELSE 1]
           row(n, prev) == [k \in Nat |->
                              IF k > n THEN 0
                              ELSE IF k = 0 \/ k = n THEN 1
                              ELSE prev[k - 1] + prev[k]]
           G == [c \in Nat \X S |-> row(c[1] + 1, c[2])]
           IsPascal(s) == s = [n \in Nat |-> row(n, s[n - 1])]
<1>1. ASSUME NEW n \in Nat, NEW prev \in S PROVE row(n, prev) \in S
  <2>1. ASSUME NEW k \in Nat, k # 0 PROVE prev[k - 1] + prev[k] \in Nat
    BY <2>1
  <2>2. QED BY <2>1
<1>2. G \in [Nat \X S -> S]
  <2>1. ASSUME NEW c \in Nat \X S PROVE row(c[1] + 1, c[2]) \in S
    <3>1. c[1] + 1 \in Nat /\ c[2] \in S
      OBVIOUS
    <3> HIDE DEF row, S
    <3>2. QED BY <1>1, <3>1
  <2> HIDE DEF row, S
  <2>2. QED BY <2>1
<1>3. first \in S
  OBVIOUS
<1>4. Recursion(S, first, G)
  <2> HIDE DEF G, S, first
  <2>1. QED BY <1>2, <1>3, RecursionExists
<1>5. PICK f \in [Nat -> S] : f[0] = first /\ \A n \in Nat : f[n + 1] = G[<<n, f[n]>>]
  <2> HIDE DEF G, S, first
  <2>1. QED BY <1>4 DEF Recursion
<1>6. IsPascal(f)
  <2>1. f[0] = row(0, f[0 - 1])
    BY <1>5
  <2>2. ASSUME NEW n \in Nat, n # 0 PROVE f[n] = row(n, f[n - 1])
    <3>1. n - 1 \in Nat /\ (n - 1) + 1 = n
      BY <2>2
    <3> HIDE DEF row, S, first
    <3>2. f[(n - 1) + 1] = G[<<n - 1, f[n - 1]>>] /\ f[n - 1] \in S
      <4> HIDE DEF G
      <4>1. QED BY <1>5, <3>1
    <3>3. G[<<n - 1, f[n - 1]>>] = row((n - 1) + 1, f[n - 1])
      BY <3>1, <3>2
    <3>4. QED BY <3>1, <3>2, <3>3
  <2> HIDE DEF row, first, G
  <2>3. QED BY <2>1, <2>2
<1>7. IsPascal(pascal_matrix)
  <2>1. pascal_matrix = CHOOSE s : IsPascal(s)
    BY DEF pascal_matrix
  <2> HIDE DEF IsPascal
  <2>2. QED BY <1>6, <2>1
<1>8. ASSUME NEW n \in Nat PROVE pascal_matrix[n] = row(n, pascal_matrix[n - 1])
  <2> HIDE DEF row
  <2>1. QED BY <1>7
<1> DEFINE Good == {n \in Nat : pascal_matrix[n] \in S}
<1>9. 0 \in Good
  <2>1. pascal_matrix[0] = row(0, pascal_matrix[0 - 1])
    <3> HIDE DEF row
    <3>1. QED BY <1>8
  <2>2. pascal_matrix[0] = first
    BY <2>1
  <2> HIDE DEF S, first
  <2>3. QED BY <1>3, <2>2
<1>10. ASSUME NEW n \in Nat, n \in Good PROVE n + 1 \in Good
  <2> HIDE DEF row, S
  <2>1. n + 1 \in Nat /\ (n + 1) - 1 = n /\ pascal_matrix[n] \in S
    BY <1>10
  <2>2. pascal_matrix[n + 1] = row(n + 1, pascal_matrix[n])
    BY <1>8, <2>1
  <2>3. QED BY <1>1, <2>1, <2>2
<1>11. Nat \subseteq Good
  <2> HIDE DEF Good
  <2>1. QED BY <1>9, <1>10, SetInduction
<1>12. ASSUME NEW n \in Nat PROVE pascal_matrix[n] = PascalRow(n, pascal_matrix[n - 1])
  BY <1>8 DEF PascalRow
<1>13. QED BY <1>11, <1>12

LEMMA PascalType ==
  \A n, k \in Nat : pascal_matrix[n][k] \in Nat
  BY PascalRight

-----------------------------------------------------------------------------
(***************************************************************************)
(* What the calls of a program come to, whoever is how far.                *)
(***************************************************************************)

Masking == {"mul", "pow"}

\* The operands that a call partitions, when those of parted have a partition.
Wanted(c, parted) ==
  ((IF c.op \in Masking THEN {c.x} ELSE {}) \cup (IF c.op = "mul" THEN {c.y} ELSE {}))
    \ parted

\* The draws for the masks of the operands in S, in the n-th call, c.
MaskDraws(n, c, S) ==
  (IF c.op \in Masking /\ c.x \in S THEN <<<<n, c.x>>>> ELSE <<>>)
    \o (IF c.op = "mul" /\ c.y # c.x /\ c.y \in S THEN <<<<n, c.y>>>> ELSE <<>>)

\* How many numbers the dealer gives each computing party.
Dealt(c) ==
  CASE c.op = "share_from" -> IF c.source = 0 THEN 1 ELSE 0
    [] c.op = "mul" -> 1
    [] c.op = "pow" -> c.power - 1
    [] c.op = "trunc" -> 2
    [] OTHER -> 0

Marked(n, what) == [i \in 1 .. n |-> what]

\* How many numbers are drawn from the stream with seed d at the end of a call.
LastDraws(c, d) ==
  IF d[1] = 0 THEN (IF d[2] >= 2 THEN Dealt(c) ELSE 0)
  ELSE IF c.op = "share_from" /\ c.source \in {d[1], d[2]} THEN 1 ELSE 0

CallDraws(n, c, parted, d) ==
  (IF d[1] = 0 THEN MaskDraws(n, c, Wanted(c, parted)) ELSE <<>>) \o Marked(LastDraws(c, d), <<n, 0>>)

\* The results that have a partition after the call, of which it is the n-th.
PartedAfter(n, c, parted) ==
  CASE c.op \in {"add", "sub"} -> IF {c.x, c.y} \subseteq parted THEN parted \cup {n} ELSE parted
    [] c.op \in {"add_public", "mul_public"} -> IF c.x \in parted THEN parted \cup {n} ELSE parted
    [] OTHER -> parted \cup Wanted(c, parted)

\* Of the first calls: which results have a partition, what is drawn from which
\* stream, how many numbers the dealer has sent, and how often reveal is called.
Nothing == [parted |-> {}, drawn |-> [d \in Seeds |-> <<>>], dealt |-> 0, reveals |-> 0]
After(n, c, w) ==
  [parted |-> PartedAfter(n, c, w.parted),
   drawn |-> [d \in Seeds |-> w.drawn[d] \o CallDraws(n, c, w.parted, d)],
   dealt |-> w.dealt + Dealt(c),
   reveals |-> w.reveals + Len(MaskDraws(n, c, Wanted(c, w.parted)))
                 + (IF c.op \in {"reveal", "trunc"} THEN 1 ELSE 0)]
Plan(pr) ==
  LET plan[n \in 0 .. Len(pr)] == IF n = 0 THEN Nothing ELSE After(n, pr[n], plan[n - 1])
  IN plan

-----------------------------------------------------------------------------
(***************************************************************************)
(* The invariant: how far the parties are, and the links between them.     *)
(***************************************************************************)

Before(p) == Plan(prog)[at[p] - 1]
Parted(p) == {k \in DOMAIN result[p] : is_partitioned(result[p][k])}

\* The operands that p has partitioned in its call, and those it has a mask for.
New(p) == Parted(p) \ Before(p).parted
Revealing(p, ops) == stage[p] = "reveal" /\ Call(p).op \in ops
Masked(p) == New(p) \cup (IF Revealing(p, Masking) THEN {Operand(p)} ELSE {})

DrawnSince(p, d) ==
  IF Finished(p) THEN <<>>
  ELSE (IF d[1] = 0 THEN MaskDraws(at[p], Call(p), Masked(p)) ELSE <<>>)
         \o Marked(IF Revealing(p, {"trunc"}) THEN LastDraws(Call(p), d) ELSE 0, <<at[p], 0>>)

\* What p has had of the dealer's numbers, how often it has had an answer of reveal,
\* and how often it has called reveal.
Had(p) == Before(p).dealt + (IF Revealing(p, {"trunc"}) THEN 2 ELSE 0)
Answers(p) == Before(p).reveals + (IF Finished(p) THEN 0 ELSE Len(MaskDraws(at[p], Call(p), New(p))))
Reveals(p) == Answers(p) + (IF stage[p] = "reveal" THEN 1 ELSE 0)

\* The stage of a party, and what it has partitioned.
PlaceOK(p) ==
  /\ Len(result[p]) = at[p] - 1
  /\ Before(p).parted \subseteq Parted(p)
  /\ Finished(p) => New(p) = {}
  /\ ~ Finished(p) =>
       /\ New(p) \subseteq Wanted(Call(p), Before(p).parted)
       /\ New(p) # {} => Call(p).x \in Parted(p)
  /\ stage[p] = "reveal" =>
       /\ p # 0 /\ ~ Finished(p)
       /\ Call(p).op \in {"reveal", "trunc"} \cup Masking
       /\ Call(p).op \in Masking => Bare(p)
       /\ Call(p).op # "reveal" => Len(held[p]) = 1

DrawnOK(p) ==
  \A s \in Parties \ {p} :
    drawn[p][s] = Before(p).drawn[seed_of(p, s)] \o DrawnSince(p, seed_of(p, s))

Generators == [seed : Seeds, next : Nat]
Marks == Nat \X Nat

\* The generators of p, when it has drawn these numbers: the one that runs is its own.
RngOK(p, g, d) ==
  /\ g \in [running : Generators, prg_states : [Parties -> Generators]]
  /\ d \in [Parties -> Seq(Marks)]
  /\ g.running = g.prg_states[p]
  /\ \A s \in Parties : g.prg_states[s] = [seed |-> seed_of(p, s), next |-> Len(d[s]) + 1]

\* The links that are used, and what is on them: numbers of the dealer for the hub,
\* values for it to add up, and its sums.
Helpers == 2 .. N - 1
Used(c) == c = <<0, 1>> \/ \E q \in Helpers : c \in {<<q, 1>>, <<1, q>>}
LinksOK ==
  /\ Len(wire[<<0, 1>>]) + Had(1) = Had(0)
  /\ \A q \in Helpers :
       /\ Len(wire[<<q, 1>>]) + Answers(1) = Reveals(q)
       /\ Len(wire[<<1, q>>]) + Answers(q) = Answers(1)
  /\ \A c \in Links : ~ Used(c) => wire[c] = <<>>

Types ==
  /\ TypeOK
  /\ prog \in Programs /\ tape \in Tapes
  /\ rng \in [Parties -> [running : Generators, prg_states : [Parties -> Generators]]]
  /\ drawn \in [Parties -> [Parties -> Seq(Marks)]]
  /\ out \in [Parties -> Seq([call : Nat, value : Residues])]

IInv ==
  /\ Types
  /\ \A p \in Parties : PlaceOK(p)
  /\ \A p \in Parties : DrawnOK(p)
  /\ \A p \in Parties : RngOK(p, rng[p], drawn[p])
  /\ LinksOK

-----------------------------------------------------------------------------
(***************************************************************************)
(* What a party draws.                                                     *)
(***************************************************************************)

\* A pair has one seed, whoever names it first.
LEMMA SeedFacts ==
  ASSUME NEW p \in Parties, NEW q \in Parties
  PROVE  /\ seed_of(p, q) \in Seeds
         /\ seed_of(p, q) = seed_of(q, p)
         /\ seed_of(p, q) = IF p < q THEN <<p, q>> ELSE <<q, p>>
<1>1. p \in Int /\ q \in Int
  BY NAssumption DEF Parties
<1>2. seed_of(p, q) \in Seeds
  <2>1. <<p, q>> \in Parties \X Parties
    OBVIOUS
  <2>2. <<p, q>>[1] = p /\ <<p, q>>[2] = q
    OBVIOUS
  <2> HIDE DEF seed_of
  <2>3. QED BY <2>1, <2>2 DEF Seeds
<1>3. QED BY <1>1, <1>2 DEF seed_of

\* The k-th number of a stream.
Number(seed, k) == tape[seed][1 + ((k - 1) % Period)]

Bits == 0 .. Draws - 1

\* A generator draws bits of its tape.
LEMMA NumberType ==
  ASSUME tape \in Tapes, NEW seed \in Seeds, NEW k \in Int
  PROVE  Number(seed, k) \in Bits
<1>1. Period \in Nat \ {0} /\ tape \in [Seeds -> [1 .. Period -> Bits]]
  BY TapesAssumption DEF Bits
<1>2. (k - 1) % Period \in 0 .. Period - 1
  <2>1. k - 1 \in Int
    OBVIOUS
  <2>2. QED BY <1>1, <2>1, ModType
<1>3. 1 + ((k - 1) % Period) \in 1 .. Period
  BY <1>1, <1>2
<1>4. QED BY <1>1, <1>3 DEF Number

\* The state of a party while it draws.
Asks == [from : Parties, n : Nat]
DrawState(p, d) ==
  /\ d \in [rng : [running : Generators, prg_states : [Parties -> Generators]],
            values : Seq(Seq(Bits)), drawn : [Parties -> Seq(Marks)]]
  /\ RngOK(p, d.rng, d.drawn)

\* The numbers that come next on a stream from which so many were drawn.
Coming(seed, n, drawnBefore) == [i \in 1 .. n |-> Number(seed, drawnBefore + i)]

LEMMA ComingType ==
  ASSUME tape \in Tapes, NEW seed \in Seeds, NEW n \in Nat, NEW k \in Nat
  PROVE  Coming(seed, n, k) \in Seq(Bits) /\ Len(Coming(seed, n, k)) = n
<1>1. \A i \in 1 .. n : Number(seed, k + i) \in Bits
  <2>1. ASSUME NEW i \in 1 .. n PROVE Number(seed, k + i) \in Bits
    <3>1. k + i \in Int
      OBVIOUS
    <3>2. QED BY <3>1, NumberType
  <2>2. QED BY <2>1
<1> HIDE DEF Number
<1>2. QED BY <1>1 DEF Coming

LEMMA MarkedType ==
  ASSUME NEW n \in Nat, NEW what \in Marks
  PROVE  Marked(n, what) \in Seq(Marks) /\ Len(Marked(n, what)) = n
  BY DEF Marked

LEMMA ConcatLen ==
  ASSUME NEW a \in Seq(Marks), NEW b \in Seq(Marks)
  PROVE  a \o b \in Seq(Marks) /\ Len(a \o b) = Len(a) + Len(b)
  OBVIOUS

\* e is the state after d, when the numbers of ask are drawn.
DrawnFrom(p, d, ask, what, e) ==
  /\ DrawState(p, e)
  /\ e.drawn = [d.drawn EXCEPT ![ask.from] = @ \o Marked(ask.n, what)]
  /\ e.values = Append(d.values, Coming(seed_of(p, ask.from), ask.n, Len(d.drawn[ask.from])))

\* A draw leaves the generator of the party itself running, moves the one it was from on
\* by as much as was drawn, and no other.
LEMMA DrawFromStep ==
  ASSUME tape \in Tapes, NEW p \in Parties, NEW d, DrawState(p, d),
         NEW ask \in Asks, NEW what \in Marks
  PROVE  DrawnFrom(p, d, ask, what, DrawFrom(d, p, ask, what))
<1> DEFINE s == ask.from
           n == ask.n
           k == Len(d.drawn[s])
           old == d.rng.prg_states
           moved == [seed |-> seed_of(p, s), next |-> k + 1 + n]
           new == [old EXCEPT ![s] = moved]
           marks == [d.drawn EXCEPT ![s] = @ \o Marked(n, what)]
           e == DrawFrom(d, p, ask, what)
<1>1. /\ s \in Parties /\ n \in Nat
      /\ d.rng \in [running : Generators, prg_states : [Parties -> Generators]]
      /\ d.values \in Seq(Seq(Bits)) /\ d.drawn \in [Parties -> Seq(Marks)]
      /\ d.rng.running = old[p]
      /\ \A t \in Parties : old[t] = [seed |-> seed_of(p, t), next |-> Len(d.drawn[t]) + 1]
      /\ old \in [Parties -> Generators]
  BY DEF DrawState, RngOK, Asks
<1>2. k \in Nat /\ old[s] = [seed |-> seed_of(p, s), next |-> k + 1]
  BY <1>1
<1>3. switch_seed(d.rng, p, s) = [running |-> old[s], prg_states |-> old]
  <2>1. [old EXCEPT ![p] = d.rng.running] = old
    BY <1>1
  <2>2. QED BY <2>1 DEF switch_seed
<1>4. rand(switch_seed(d.rng, p, s), n) = [running |-> moved, prg_states |-> old]
  <2>1. k + 1 + n = (k + 1) + n
    BY <1>1, <1>2
  <2>2. QED BY <1>2, <1>3, <2>1 DEF rand
<1>5. restore_seed(rand(switch_seed(d.rng, p, s), n), p, s) = [running |-> new[p], prg_states |-> new]
  BY <1>4 DEF restore_seed
<1>6. Top(switch_seed(d.rng, p, s), n) = Coming(seed_of(p, s), n, k)
  <2>1. ASSUME NEW i \in 1 .. n
        PROVE  (k + 1) + (i - 2) = (k + i) - 1
    BY <1>1, <1>2
  <2> DEFINE seed == seed_of(p, s)
  <2>2. ASSUME NEW i \in 1 .. n
        PROVE  tape[seed][1 + (((k + 1) + (i - 2)) % Period)] = Number(seed, k + i)
    <3> HIDE DEF seed, k, n
    <3>1. QED BY <2>1 DEF Number
  <2>3. Top(switch_seed(d.rng, p, s), n)
          = [i \in 1 .. n |-> tape[seed][1 + (((k + 1) + (i - 2)) % Period)]]
    <3> DEFINE g == switch_seed(d.rng, p, s)
    <3>1. g.running.seed = seed /\ g.running.next = k + 1
      BY <1>2, <1>3
    <3> HIDE DEF g, seed, k, n
    <3>2. Top(g, n) = [i \in 1 .. n |-> tape[seed][1 + (((k + 1) + (i - 2)) % Period)]]
      BY <3>1 DEF Top
    <3>3. QED BY <3>2 DEF g
  <2> HIDE DEF seed, k, n
  <2>4. Coming(seed, n, k) = [i \in 1 .. n |-> Number(seed, k + i)]
    BY DEF Coming
  <2>5. Top(switch_seed(d.rng, p, s), n) = Coming(seed, n, k)
    BY <2>2, <2>3, <2>4
  <2>6. QED BY <2>5 DEF seed
<1>7. e = [rng |-> [running |-> new[p], prg_states |-> new],
           values |-> Append(d.values, Coming(seed_of(p, s), n, k)),
           drawn |-> marks]
  BY <1>5, <1>6 DEF DrawFrom, Marked
<1>8. moved \in Generators
  <2>1. seed_of(p, s) \in Seeds /\ k + 1 + n \in Nat
    BY <1>1, <1>2, SeedFacts
  <2>2. QED BY <2>1 DEF Generators
<1>9. new \in [Parties -> Generators]
  <2> HIDE DEF moved
  <2>1. QED BY <1>1, <1>8
<1>10. marks \in [Parties -> Seq(Marks)] /\ Len(marks[s]) = k + n
       /\ \A t \in Parties \ {s} : marks[t] = d.drawn[t]
  <2>1. Marked(n, what) \in Seq(Marks) /\ Len(Marked(n, what)) = n
    BY <1>1, MarkedType
  <2>2. d.drawn[s] \in Seq(Marks)
    BY <1>1
  <2>3. d.drawn[s] \o Marked(n, what) \in Seq(Marks) /\ Len(d.drawn[s] \o Marked(n, what)) = k + n
    BY <2>1, <2>2, ConcatLen
  <2> HIDE DEF Marked
  <2>4. QED BY <1>1, <2>3
<1>11. Coming(seed_of(p, s), n, k) \in Seq(Bits)
  BY <1>1, <1>2, SeedFacts, ComingType
<1>12. ASSUME NEW t \in Parties
       PROVE  new[t] = [seed |-> seed_of(p, t), next |-> Len(marks[t]) + 1]
  <2> HIDE DEF marks
  <2>1. CASE t = s
    <3>1. new[s] = moved
      <4> HIDE DEF moved
      <4>1. QED BY <1>1
    <3>2. k + 1 + n = (k + n) + 1
      <4> HIDE DEF k, n
      <4>1. QED BY <1>1, <1>2
    <3>3. QED BY <1>10, <2>1, <3>1, <3>2
  <2>2. CASE t # s
    BY <1>1, <1>10, <2>2
  <2>3. QED BY <2>1, <2>2
<1>13. DrawState(p, e)
  <2> HIDE DEF marks, new
  <2>1. [running |-> new[p], prg_states |-> new] \in [running : Generators, prg_states : [Parties -> Generators]]
    BY <1>9
  <2>2. Append(d.values, Coming(seed_of(p, s), n, k)) \in Seq(Seq(Bits))
    BY <1>1, <1>11
  <2>3. QED BY <1>7, <1>10, <1>12, <2>1, <2>2 DEF DrawState, RngOK
<1>14. QED BY <1>7, <1>13 DEF DrawnFrom

Distinct(asks) == \A i, j \in 1 .. Len(asks) : asks[i].from = asks[j].from => i = j

\* d is the state of p after the first m of the asks.
Drew(p, asks, what, m, d) ==
  /\ DrawState(p, d)
  /\ Len(d.values) = m
  /\ \A j \in 1 .. m :
       /\ d.values[j] = Coming(seed_of(p, asks[j].from), asks[j].n, Len(drawn[p][asks[j].from]))
       /\ d.drawn[asks[j].from] = drawn[p][asks[j].from] \o Marked(asks[j].n, what)
  /\ \A s \in Parties : (\A j \in 1 .. m : asks[j].from # s) => d.drawn[s] = drawn[p][s]

\* One more of the asks.
LEMMA DrewNext ==
  ASSUME tape \in Tapes, NEW p \in Parties, NEW asks \in Seq(Asks), Distinct(asks),
         NEW what \in Marks, NEW m \in 1 .. Len(asks), NEW d, Drew(p, asks, what, m - 1, d)
  PROVE  Drew(p, asks, what, m, DrawFrom(d, p, asks[m], what))
<1> DEFINE ask == asks[m]
           s == ask.from
           e == DrawFrom(d, p, ask, what)
           next == Coming(seed_of(p, s), ask.n, Len(drawn[p][s]))
<1>1. m \in Nat /\ m # 0 /\ m - 1 \in Nat /\ Len(asks) \in Nat
  OBVIOUS
<1>0. \A j \in 1 .. Len(asks) : asks[j] \in Asks /\ asks[j].from \in Parties
  <2>1. \A j \in 1 .. Len(asks) : asks[j] \in Asks
    OBVIOUS
  <2>2. QED BY <2>1 DEF Asks
<1>2. ask \in Asks /\ s \in Parties
  BY <1>0
<1>3. DrawState(p, d)
  BY DEF Drew
<1>4. /\ DrawState(p, e)
      /\ e.drawn = [d.drawn EXCEPT ![s] = @ \o Marked(ask.n, what)]
      /\ e.values = Append(d.values, Coming(seed_of(p, s), ask.n, Len(d.drawn[s])))
  <2> HIDE DEF ask
  <2>1. DrawnFrom(p, d, ask, what, e)
    BY <1>2, <1>3, DrawFromStep
  <2>2. QED BY <2>1 DEF DrawnFrom
<1>5. ASSUME NEW j \in 1 .. m - 1 PROVE asks[j].from # s
  <2>1. j \in 1 .. Len(asks) /\ j # m
    BY <1>1
  <2>2. QED BY <2>1 DEF Distinct
<1>6. d.drawn[s] = drawn[p][s]
  BY <1>2, <1>5 DEF Drew
<1>7. d.drawn \in [Parties -> Seq(Marks)] /\ d.values \in Seq(Seq(Bits))
  BY <1>3 DEF DrawState
<1> HIDE DEF e, next, s, ask
<1>8. e.values = Append(d.values, next) /\ Len(d.values) = m - 1
  BY <1>4, <1>6 DEF next, Drew
<1>9. Len(e.values) = m /\ e.values[m] = next /\ \A j \in 1 .. m - 1 : e.values[j] = d.values[j]
  BY <1>1, <1>7, <1>8
<1>10. e.drawn[s] = drawn[p][s] \o Marked(ask.n, what)
       /\ \A t \in Parties \ {s} : e.drawn[t] = d.drawn[t]
  BY <1>2, <1>4, <1>6, <1>7
<1>11. ASSUME NEW j \in 1 .. m
       PROVE  /\ e.values[j] = Coming(seed_of(p, asks[j].from), asks[j].n, Len(drawn[p][asks[j].from]))
              /\ e.drawn[asks[j].from] = drawn[p][asks[j].from] \o Marked(asks[j].n, what)
  <2>1. CASE j = m
    BY <1>9, <1>10, <2>1 DEF next, s, ask
  <2>2. CASE j # m
    <3>1. j \in 1 .. m - 1 /\ j \in 1 .. Len(asks)
      BY <1>1, <2>2
    <3>2. asks[j].from \in Parties \ {s}
      BY <1>0, <1>5, <3>1
    <3>3. QED BY <1>9, <1>10, <3>1, <3>2 DEF Drew
  <2>3. QED BY <2>1, <2>2
<1>12. ASSUME NEW t \in Parties, \A j \in 1 .. m : asks[j].from # t
       PROVE  e.drawn[t] = drawn[p][t]
  <2>1. t # s /\ \A j \in 1 .. m - 1 : asks[j].from # t
    BY <1>1, <1>12 DEF s, ask
  <2>2. QED BY <1>10, <2>1 DEF Drew
<1>13. DrawState(p, e)
  BY <1>4
<1>14. Drew(p, asks, what, m, e)
  BY <1>9, <1>11, <1>12, <1>13 DEF Drew
<1>15. QED BY <1>14 DEF e, ask

\* Draws from distinct streams: each has the numbers that come next in its stream.
LEMMA DrawAll ==
  ASSUME tape \in Tapes, NEW p \in Parties, RngOK(p, rng[p], drawn[p]),
         NEW asks \in Seq(Asks), Distinct(asks), NEW what \in Marks
  PROVE  Drew(p, asks, what, Len(asks), Draw(p, asks, what))
<1> DEFINE n == Len(asks)
           first == [rng |-> rng[p], values |-> <<>>, drawn |-> drawn[p]]
           S == {d \in [rng : [running : Generators, prg_states : [Parties -> Generators]],
                        values : Seq(Seq(Bits)), drawn : [Parties -> Seq(Marks)]] :
                   DrawState(p, d)}
           G == [c \in (1 .. n) \X S |-> DrawFrom(c[2], p, asks[c[1]], what)]
           IsAfter(f) == f = [i \in 0 .. n |-> IF i = 0 THEN first ELSE DrawFrom(f[i - 1], p, asks[i], what)]
<1>1. n \in Nat /\ \A i \in 1 .. n : asks[i] \in Asks
  OBVIOUS
<1>2. \A d : d \in S <=> DrawState(p, d)
  BY DEF DrawState
<1>3. Drew(p, asks, what, 0, first)
  <2>1. rng[p] \in [running : Generators, prg_states : [Parties -> Generators]]
        /\ drawn[p] \in [Parties -> Seq(Marks)]
    BY DEF RngOK
  <2>2. <<>> \in Seq(Seq(Bits)) /\ Len(<<>>) = 0
    OBVIOUS
  <2>3. DrawState(p, first)
    BY <2>1, <2>2 DEF DrawState
  <2>4. QED BY <2>2, <2>3 DEF Drew
<1>4. first \in S
  <2> HIDE DEF S, first
  <2>1. QED BY <1>2, <1>3 DEF Drew
<1>5. G \in [(1 .. n) \X S -> S]
  <2>1. ASSUME NEW c \in (1 .. n) \X S PROVE DrawFrom(c[2], p, asks[c[1]], what) \in S
    <3> HIDE DEF n, S
    <3>1. c[1] \in 1 .. n /\ c[2] \in S
      OBVIOUS
    <3>2. asks[c[1]] \in Asks /\ DrawState(p, c[2])
      BY <1>1, <1>2, <3>1
    <3>3. DrawState(p, DrawFrom(c[2], p, asks[c[1]], what))
      <4> DEFINE ask == asks[c[1]]
                 e == c[2]
      <4>1. ask \in Asks /\ DrawState(p, e)
        BY <3>2
      <4> HIDE DEF ask, e
      <4>2. DrawnFrom(p, e, ask, what, DrawFrom(e, p, ask, what))
        BY <4>1, DrawFromStep
      <4>3. DrawState(p, DrawFrom(e, p, ask, what))
        BY <4>2 DEF DrawnFrom
      <4>4. QED BY <4>3 DEF ask, e
    <3>4. QED BY <1>2, <3>3
  <2> HIDE DEF S, n
  <2>2. QED BY <2>1
<1> HIDE DEF S, first, n
<1>6. RecursionUpTo(S, first, n, G)
  <2> HIDE DEF G
  <2>1. QED BY <1>1, <1>4, <1>5, RecursionTo
<1>7. PICK f \in [0 .. n -> S] : f = [i \in 0 .. n |-> IF i = 0 THEN first ELSE G[<<i, f[i - 1]>>]]
  BY <1>6 DEF RecursionUpTo
<1>8. IsAfter(f)
  <2>1. ASSUME NEW i \in 0 .. n, i # 0
        PROVE  G[<<i, f[i - 1]>>] = DrawFrom(f[i - 1], p, asks[i], what)
    <3>1. i \in 1 .. n /\ i - 1 \in 0 .. n
      BY <1>1, <2>1
    <3>2. <<i, f[i - 1]>> \in (1 .. n) \X S
      BY <3>1
    <3>3. QED BY <3>2
  <2> HIDE DEF G
  <2>2. QED BY <1>7, <2>1
<1> DEFINE after == CHOOSE u : IsAfter(u)
<1>9. IsAfter(after)
  <2> HIDE DEF IsAfter
  <2>1. QED BY <1>8
<1>10. Draw(p, asks, what) = after[n]
  BY DEF Draw, first, n
<1> HIDE DEF after
<1>11. after[0] = first
  <2>1. 0 \in 0 .. n
    BY <1>1
  <2>2. QED BY <1>9, <2>1
<1>12. ASSUME NEW i \in 1 .. n PROVE after[i] = DrawFrom(after[i - 1], p, asks[i], what)
  <2>1. i \in 0 .. n /\ i # 0
    BY <1>1
  <2>2. QED BY <1>9, <2>1
<1> DEFINE Good == {i \in 0 .. n : Drew(p, asks, what, i, after[i])}
<1>13. 0 \in Good
  BY <1>1, <1>3, <1>11
<1>14. ASSUME NEW i \in 1 .. n, i - 1 \in Good PROVE i \in Good
  <2>1. Drew(p, asks, what, i - 1, after[i - 1]) /\ i \in 0 .. n
    BY <1>1, <1>14
  <2>2. Drew(p, asks, what, i, DrawFrom(after[i - 1], p, asks[i], what))
    BY <2>1, DrewNext DEF n
  <2>3. QED BY <1>12, <2>1, <2>2
<1>15. 0 .. n \subseteq Good
  <2> HIDE DEF Good
  <2>1. QED BY <1>1, <1>13, <1>14, InductionTo
<1>16. Drew(p, asks, what, n, after[n])
  BY <1>1, <1>15
<1>17. QED BY <1>10, <1>16 DEF n

-----------------------------------------------------------------------------
(***************************************************************************)
(* The plan of a program.                                                  *)
(***************************************************************************)

Ops == {"share_from", "add", "sub", "add_public", "mul_public", "reveal", "trunc", "mul", "pow"}

\* What the n-th call of a program is like.
CallFacts(c, n) ==
  /\ c.op \in Ops
  /\ c.op = "share_from" => c.source \in Parties /\ c.data \in Residues
  /\ c.op # "share_from" => c.x \in 1 .. n - 1
  /\ c.op \in {"add", "sub", "mul"} => c.y \in 1 .. n - 1
  /\ c.op \in {"add_public", "mul_public"} => c.a \in Residues
  /\ c.op = "pow" => c.power \in Nat /\ c.power >= 2

LEMMA ProgramFacts ==
  ASSUME NEW pr \in Programs
  PROVE  Len(pr) \in Nat /\ \A i \in 1 .. Len(pr) : CallFacts(pr[i], i)
<1>1. Len(pr) \in Nat /\ \A i \in 1 .. Len(pr) : CallOK(pr, i)
  BY ProgramsAssumption
<1>2. ASSUME NEW i \in 1 .. Len(pr) PROVE CallFacts(pr[i], i)
  <2>1. CallOK(pr, i)
    BY <1>1
  <2>2. QED BY <2>1 DEF CallOK, CallFacts, Ops
<1>3. QED BY <1>1, <1>2

LEMMA DealtType ==
  ASSUME NEW c, NEW n, CallFacts(c, n)
  PROVE  /\ Dealt(c) \in Nat
         /\ c.op = "share_from" => Dealt(c) = IF c.source = 0 THEN 1 ELSE 0
         /\ c.op = "mul" => Dealt(c) = 1
         /\ c.op = "pow" => Dealt(c) = c.power - 1 /\ c.power - 1 \in Nat
         /\ c.op = "trunc" => Dealt(c) = 2
         /\ c.op \in {"add", "sub", "add_public", "mul_public", "reveal"} => Dealt(c) = 0
<1>1. CASE c.op = "share_from"
  BY <1>1 DEF Dealt
<1>2. CASE c.op = "mul"
  BY <1>2 DEF Dealt
<1>3. CASE c.op = "pow"
  BY <1>3 DEF Dealt, CallFacts
<1>4. CASE c.op = "trunc"
  BY <1>4 DEF Dealt
<1>5. CASE c.op \in {"add", "sub", "add_public", "mul_public", "reveal"}
  BY <1>5 DEF Dealt
<1>6. QED BY <1>1, <1>2, <1>3, <1>4, <1>5 DEF CallFacts, Ops

LEMMA MaskDrawsType ==
  ASSUME NEW n \in Nat, NEW c, CallFacts(c, n), NEW S
  PROVE  MaskDraws(n, c, S) \in Seq(Marks) /\ Len(MaskDraws(n, c, S)) \in Nat
<1> DEFINE first == IF c.op \in Masking /\ c.x \in S THEN <<<<n, c.x>>>> ELSE <<>>
           second == IF c.op = "mul" /\ c.y # c.x /\ c.y \in S THEN <<<<n, c.y>>>> ELSE <<>>
<1>1. first \in Seq(Marks)
  <2>1. c.op \in Masking => <<n, c.x>> \in Marks
    BY DEF CallFacts, Marks, Masking
  <2>2. QED BY <2>1
<1>2. second \in Seq(Marks)
  <2>1. c.op = "mul" => <<n, c.y>> \in Marks
    BY DEF CallFacts, Marks
  <2>2. QED BY <2>1
<1>3. QED BY <1>1, <1>2, ConcatLen DEF MaskDraws

LEMMA LastDrawsType ==
  ASSUME NEW c, NEW n, CallFacts(c, n), NEW d
  PROVE  LastDraws(c, d) \in Nat
  BY DealtType DEF LastDraws

Works == [parted : SUBSET Nat, drawn : [Seeds -> Seq(Marks)], dealt : Nat, reveals : Nat]

LEMMA CallDrawsType ==
  ASSUME NEW n \in Nat, NEW c, CallFacts(c, n), NEW S, NEW d
  PROVE  CallDraws(n, c, S, d) \in Seq(Marks)
<1>1. MaskDraws(n, c, Wanted(c, S)) \in Seq(Marks)
  BY MaskDrawsType
<1>2. <<n, 0>> \in Marks
  BY DEF Marks
<1>3. Marked(LastDraws(c, d), <<n, 0>>) \in Seq(Marks)
  BY <1>2, LastDrawsType, MarkedType
<1>4. (IF d[1] = 0 THEN MaskDraws(n, c, Wanted(c, S)) ELSE <<>>) \in Seq(Marks)
  BY <1>1
<1>5. QED BY <1>3, <1>4, ConcatLen DEF CallDraws

LEMMA AfterType ==
  ASSUME NEW n \in Nat, NEW c, CallFacts(c, n), NEW w \in Works
  PROVE  After(n, c, w) \in Works
<1>1. w.parted \in SUBSET Nat /\ w.dealt \in Nat /\ w.reveals \in Nat
      /\ w.drawn \in [Seeds -> Seq(Marks)]
  BY DEF Works
<1>2. PartedAfter(n, c, w.parted) \in SUBSET Nat
  <2>1. Wanted(c, w.parted) \in SUBSET Nat
    BY DEF Wanted, CallFacts, Masking
  <2>2. QED BY <1>1, <2>1 DEF PartedAfter
<1>3. [d \in Seeds |-> w.drawn[d] \o CallDraws(n, c, w.parted, d)] \in [Seeds -> Seq(Marks)]
  <2>1. ASSUME NEW d \in Seeds PROVE w.drawn[d] \o CallDraws(n, c, w.parted, d) \in Seq(Marks)
    BY <1>1, CallDrawsType, ConcatLen
  <2>2. QED BY <2>1
<1>4. w.dealt + Dealt(c) \in Nat
  BY <1>1, DealtType
<1>5. w.reveals + Len(MaskDraws(n, c, Wanted(c, w.parted)))
        + (IF c.op \in {"reveal", "trunc"} THEN 1 ELSE 0) \in Nat
  BY <1>1, MaskDrawsType
<1>6. QED BY <1>2, <1>3, <1>4, <1>5 DEF After, Works

LEMMA NothingType == Nothing \in Works
<1>1. [d \in Seeds |-> <<>>] \in [Seeds -> Seq(Marks)]
  OBVIOUS
<1>2. QED BY <1>1 DEF Nothing, Works

PlanFacts(pr) ==
  /\ Plan(pr) \in [0 .. Len(pr) -> Works]
  /\ Plan(pr)[0] = Nothing
  /\ \A i \in 1 .. Len(pr) : Plan(pr)[i] = After(i, pr[i], Plan(pr)[i - 1])

\* The plan of a program is what its calls, one after another, come to.
LEMMA PlanRight ==
  ASSUME NEW pr \in Programs
  PROVE  PlanFacts(pr)
<1> DEFINE n == Len(pr)
           G == [c \in (1 .. n) \X Works |-> After(c[1], pr[c[1]], c[2])]
           IsPlan(f) == f = [i \in 0 .. n |-> IF i = 0 THEN Nothing ELSE After(i, pr[i], f[i - 1])]
<1>1. n \in Nat /\ \A i \in 1 .. n : CallFacts(pr[i], i)
  BY ProgramFacts
<1>2. ASSUME NEW i \in 1 .. n, NEW w \in Works PROVE After(i, pr[i], w) \in Works
  <2>1. i \in Nat /\ CallFacts(pr[i], i)
    BY <1>1
  <2>2. QED BY <2>1, AfterType
<1> HIDE DEF n
<1>3. G \in [(1 .. n) \X Works -> Works]
  <2>1. ASSUME NEW c \in (1 .. n) \X Works PROVE After(c[1], pr[c[1]], c[2]) \in Works
    <3>1. c[1] \in 1 .. n /\ c[2] \in Works
      OBVIOUS
    <3>2. QED BY <1>2, <3>1
  <2>2. QED BY <2>1
<1>4. RecursionUpTo(Works, Nothing, n, G)
  <2> HIDE DEF G
  <2>1. QED BY <1>1, <1>3, NothingType, RecursionTo
<1>5. PICK f \in [0 .. n -> Works] : f = [i \in 0 .. n |-> IF i = 0 THEN Nothing ELSE G[<<i, f[i - 1]>>]]
  BY <1>4 DEF RecursionUpTo
<1>6. IsPlan(f)
  <2>1. ASSUME NEW i \in 0 .. n, i # 0
        PROVE  G[<<i, f[i - 1]>>] = After(i, pr[i], f[i - 1])
    <3>1. i \in 1 .. n /\ i - 1 \in 0 .. n
      BY <1>1, <2>1
    <3>2. <<i, f[i - 1]>> \in (1 .. n) \X Works
      BY <3>1
    <3>3. QED BY <3>2
  <2> HIDE DEF G
  <2>2. QED BY <1>5, <2>1
<1> DEFINE plan == CHOOSE u : IsPlan(u)
<1>7. IsPlan(plan)
  <2> HIDE DEF IsPlan
  <2>1. QED BY <1>6
<1>8. Plan(pr) = plan
  BY DEF Plan, n
<1> HIDE DEF plan
<1>9. plan[0] = Nothing /\ DOMAIN plan = 0 .. n
  <2>1. 0 \in 0 .. n
    BY <1>1
  <2>2. QED BY <1>7, <2>1
<1>10. ASSUME NEW i \in 1 .. n PROVE plan[i] = After(i, pr[i], plan[i - 1])
  <2>1. i \in 0 .. n /\ i # 0
    BY <1>1
  <2>2. QED BY <1>7, <2>1
<1> DEFINE Good == {i \in 0 .. n : plan[i] \in Works}
<1>11. 0 \in Good
  BY <1>1, <1>9, NothingType
<1>12. ASSUME NEW i \in 1 .. n, i - 1 \in Good PROVE i \in Good
  <2>1. plan[i - 1] \in Works /\ i \in 0 .. n
    BY <1>1, <1>12
  <2>2. QED BY <1>2, <1>10, <2>1
<1>13. 0 .. n \subseteq Good
  <2> HIDE DEF Good
  <2>1. QED BY <1>1, <1>11, <1>12, InductionTo
<1>14. plan \in [0 .. n -> Works]
  <2>1. plan = [i \in 0 .. n |-> plan[i]]
    BY <1>7, <1>9
  <2>2. QED BY <1>13, <2>1
<1>15. QED BY <1>8, <1>9, <1>10, <1>14 DEF PlanFacts, n

-----------------------------------------------------------------------------
(***************************************************************************)
(* The streams that the calls draw from, each once.                        *)
(***************************************************************************)

LEMMA PartyFacts ==
  /\ N \in Nat /\ N >= 3 /\ N - 2 \in Nat /\ N - 1 \in Nat
  /\ Parties = 0 .. N - 1 /\ 0 \in Parties /\ 1 \in Parties
  /\ \A p \in Parties : p \in Nat
  BY NAssumption DEF Parties

\* asks is for n numbers from each of the streams in S.
AsksFor(asks, S, n) ==
  /\ asks \in Seq(Asks) /\ Distinct(asks)
  /\ \A j \in 1 .. Len(asks) : asks[j].from \in S /\ asks[j].n = n
  /\ \A s \in S : \E j \in 1 .. Len(asks) : asks[j].from = s

LEMMA AskOne ==
  ASSUME NEW s \in Parties, NEW n \in Nat
  PROVE  AsksFor(Ask(<<s>>, n), {s}, n) /\ Len(Ask(<<s>>, n)) = 1
<1>1. Ask(<<s>>, n) = <<[from |-> s, n |-> n]>>
  BY DEF Ask
<1>2. [from |-> s, n |-> n] \in Asks
  BY DEF Asks
<1> DEFINE asks == Ask(<<s>>, n)
<1>3. asks \in Seq(Asks) /\ Len(asks) = 1 /\ asks[1].from = s /\ asks[1].n = n
  <2>1. PICK x \in Asks : x = [from |-> s, n |-> n]
    BY <1>2
  <2>2. asks = <<x>> /\ x.from = s /\ x.n = n
    BY <1>1, <2>1
  <2> HIDE DEF asks
  <2>3. QED BY <2>2
<1> HIDE DEF asks
<1>4. \A j \in 1 .. Len(asks) : j = 1
  BY <1>3
<1>5. Distinct(asks)
  BY <1>4 DEF Distinct
<1>6. 1 \in 1 .. Len(asks)
  BY <1>3
<1>7. QED BY <1>3, <1>4, <1>5, <1>6 DEF AsksFor, asks

LEMMA AskNotHub ==
  ASSUME NEW n \in Nat
  PROVE  AsksFor(Ask(NotHub, n), 2 .. N - 1, n) /\ Len(Ask(NotHub, n)) = N - 2
         /\ Len(NotHub) = N - 2
<1> DEFINE asks == Ask(NotHub, n)
<1>1. asks = [i \in 1 .. N - 2 |-> [from |-> i + 1, n |-> n]]
  BY PartyFacts DEF Ask, NotHub
<1>2. ASSUME NEW i \in 1 .. N - 2 PROVE [from |-> i + 1, n |-> n] \in Asks /\ i + 1 \in 2 .. N - 1
  <2>1. i + 1 \in Parties /\ i + 1 \in 2 .. N - 1
    BY PartyFacts
  <2>2. QED BY <2>1 DEF Asks
<1> HIDE DEF asks
<1>3. asks \in Seq(Asks) /\ Len(asks) = N - 2
  BY <1>1, <1>2, PartyFacts
<1>4. \A i \in 1 .. N - 2 : asks[i].from = i + 1 /\ asks[i].n = n
  BY <1>1
<1>5. ASSUME NEW s \in 2 .. N - 1 PROVE \E j \in 1 .. Len(asks) : asks[j].from = s
  <2>1. s - 1 \in 1 .. N - 2 /\ (s - 1) + 1 = s
    BY PartyFacts
  <2>2. asks[s - 1].from = s
    BY <1>4, <2>1
  <2>3. QED BY <1>3, <2>1, <2>2
<1>6. Distinct(asks)
  BY <1>3, <1>4 DEF Distinct
<1>7. \A j \in 1 .. Len(asks) : asks[j].from \in 2 .. N - 1 /\ asks[j].n = n
  BY <1>2, <1>3, <1>4
<1>8. AsksFor(asks, 2 .. N - 1, n)
  BY <1>3, <1>5, <1>6, <1>7 DEF AsksFor
<1>9. Len(NotHub) = N - 2
  BY PartyFacts DEF NotHub
<1>10. QED BY <1>3, <1>8, <1>9 DEF asks

LEMMA AskOthers ==
  ASSUME NEW p \in Parties, NEW n \in Nat
  PROVE  AsksFor(Ask(Others(p), n), Computing \ {p}, n)
<1> DEFINE asks == Ask(Others(p), n)
           m == IF p = 0 THEN N - 1 ELSE N - 2
           at_(i) == IF p = 0 \/ i < p THEN i ELSE i + 1
<1>1. asks = [i \in 1 .. m |-> [from |-> at_(i), n |-> n]]
  <2>1. Others(p) = [i \in 1 .. m |-> at_(i)]
    BY DEF Others
  <2>2. DOMAIN Others(p) = 1 .. m /\ \A i \in 1 .. m : Others(p)[i] = at_(i)
    BY <2>1
  <2> HIDE DEF at_, m
  <2>3. QED BY <2>2 DEF Ask
<1>2. ASSUME NEW i \in 1 .. m PROVE at_(i) \in Computing \ {p} /\ at_(i) \in Parties
  BY PartyFacts DEF Computing
<1>3. ASSUME NEW i \in 1 .. m, NEW j \in 1 .. m, at_(i) = at_(j) PROVE i = j
  BY <1>3, PartyFacts
<1>4. ASSUME NEW s \in Computing \ {p} PROVE \E j \in 1 .. m : at_(j) = s
  <2>1. CASE p = 0 \/ s < p
    <3>1. s \in 1 .. m
      BY <2>1, PartyFacts DEF Computing
    <3>2. at_(s) = s
      BY <2>1
    <3>3. QED BY <3>1, <3>2
  <2>2. CASE ~ (p = 0 \/ s < p)
    <3>1. s - 1 \in 1 .. m /\ ~ (s - 1 < p)
      BY <2>2, PartyFacts DEF Computing
    <3>2. at_(s - 1) = s
      BY <2>2, <3>1, PartyFacts DEF Computing
    <3>3. QED BY <3>1, <3>2
  <2>3. QED BY <2>1, <2>2
<1>5. m \in Nat
  BY PartyFacts
<1> HIDE DEF at_, m, asks
<1>6. \A i \in 1 .. m : [from |-> at_(i), n |-> n] \in Asks
  BY <1>2 DEF Asks
<1>7. asks \in Seq(Asks) /\ Len(asks) = m
  BY <1>1, <1>5, <1>6
<1>8. \A i \in 1 .. m : asks[i].from = at_(i) /\ asks[i].n = n
  BY <1>1
<1>9. Distinct(asks)
  BY <1>3, <1>7, <1>8 DEF Distinct
<1>10. \A j \in 1 .. Len(asks) : asks[j].from \in Computing \ {p} /\ asks[j].n = n
  BY <1>2, <1>7, <1>8
<1>11. \A s \in Computing \ {p} : \E j \in 1 .. Len(asks) : asks[j].from = s
  BY <1>4, <1>7, <1>8
<1>12. QED BY <1>7, <1>9, <1>10, <1>11 DEF AsksFor, asks

-----------------------------------------------------------------------------
\* Party p has drawn n numbers from each of the streams in S that it shares.
NextDrawn(p, S, n, what) ==
  /\ rng' \in [Parties -> [running : Generators, prg_states : [Parties -> Generators]]]
  /\ drawn' \in [Parties -> [Parties -> Seq(Marks)]]
  /\ RngOK(p, rng'[p], drawn'[p])
  /\ \A q \in Parties \ {p} : rng'[q] = rng[q] /\ drawn'[q] = drawn[q]
  /\ \A s \in Parties \ {p} :
       drawn'[p][s] = drawn[p][s] \o Marked(IF s \in S THEN n ELSE 0, what)

LEMMA MarkedNothing ==
  ASSUME NEW what, NEW a \in Seq(Marks)
  PROVE  Marked(0, what) = <<>> /\ a \o Marked(0, what) = a
<1>1. Marked(0, what) = <<>>
  BY DEF Marked
<1>2. a \o <<>> = a
  OBVIOUS
<1>3. QED BY <1>1, <1>2

LEMMA NoDrawStep ==
  ASSUME Types, NEW p \in Parties, RngOK(p, rng[p], drawn[p]), NoDraw, NEW n, NEW what
  PROVE  NextDrawn(p, {}, n, what)
<1>1. rng' = rng /\ drawn' = drawn
  BY DEF NoDraw
<1>2. \A s \in Parties \ {p} : drawn[p][s] \in Seq(Marks)
  BY DEF Types
<1>3. \A s \in Parties \ {p} : drawn[p][s] = drawn[p][s] \o Marked(0, what)
  BY <1>2, MarkedNothing
<1>4. QED BY <1>1, <1>3 DEF NextDrawn, Types

\* asks is for n numbers from each of the streams in S, and may be for some of the
\* party's own.
AsksAmong(p, asks, S, n) ==
  /\ asks \in Seq(Asks) /\ Distinct(asks)
  /\ \A j \in 1 .. Len(asks) : asks[j].from \in S \cup {p}
  /\ \A j \in 1 .. Len(asks) : asks[j].from \in S => asks[j].n = n
  /\ \A s \in S : \E j \in 1 .. Len(asks) : asks[j].from = s

\* The generators and the history after the draws of a call.
LEMMA DrawingStep ==
  ASSUME Types, NEW p \in Parties, RngOK(p, rng[p], drawn[p]),
         NEW asks, NEW what \in Marks, NEW S, NEW n, AsksAmong(p, asks, S, n),
         Drawing(p, asks, what)
  PROVE  NextDrawn(p, S, n, what)
<1> DEFINE d == Draw(p, asks, what)
           m == Len(asks)
<1>1. tape \in Tapes /\ drawn \in [Parties -> [Parties -> Seq(Marks)]]
      /\ rng \in [Parties -> [running : Generators, prg_states : [Parties -> Generators]]]
  BY DEF Types
<1>2. Drew(p, asks, what, m, d)
  <2> HIDE DEF Drew
  <2>1. asks \in Seq(Asks) /\ Distinct(asks)
    BY DEF AsksAmong
  <2>2. QED BY <1>1, <2>1, DrawAll
<1>3. rng' = [rng EXCEPT ![p] = d.rng] /\ drawn' = [drawn EXCEPT ![p] = d.drawn]
  BY DEF Drawing
<1> HIDE DEF d
<1>4. DrawState(p, d)
  BY <1>2 DEF Drew
<1>5. d.rng \in [running : Generators, prg_states : [Parties -> Generators]]
      /\ d.drawn \in [Parties -> Seq(Marks)] /\ RngOK(p, d.rng, d.drawn)
  BY <1>4 DEF DrawState
<1>6. rng'[p] = d.rng /\ drawn'[p] = d.drawn
  BY <1>1, <1>3
<1>7. ASSUME NEW s \in Parties \ {p}
      PROVE  d.drawn[s] = drawn[p][s] \o Marked(IF s \in S THEN n ELSE 0, what)
  <2>1. CASE s \in S
    <3>1. PICK j \in 1 .. m : asks[j].from = s
      BY <2>1 DEF AsksAmong
    <3>2. asks[j].n = n
      BY <2>1, <3>1 DEF AsksAmong
    <3>3. d.drawn[s] = drawn[p][s] \o Marked(n, what)
      <4>1. \A i \in 1 .. m : d.drawn[asks[i].from] = drawn[p][asks[i].from] \o Marked(asks[i].n, what)
        BY <1>2 DEF Drew
      <4> HIDE DEF m
      <4>2. d.drawn[asks[j].from] = drawn[p][asks[j].from] \o Marked(asks[j].n, what)
        BY <4>1
      <4>3. QED BY <3>1, <3>2, <4>2
    <3>4. QED BY <2>1, <3>3
  <2>2. CASE s \notin S
    <3>1. \A j \in 1 .. m : asks[j].from # s
      BY <2>2 DEF AsksAmong
    <3>2. d.drawn[s] = drawn[p][s]
      BY <1>2, <3>1 DEF Drew
    <3>3. drawn[p][s] \in Seq(Marks)
      BY <1>1
    <3>4. QED BY <2>2, <3>2, <3>3, MarkedNothing
  <2>3. QED BY <2>1, <2>2
<1>8. rng' \in [Parties -> [running : Generators, prg_states : [Parties -> Generators]]]
      /\ drawn' \in [Parties -> [Parties -> Seq(Marks)]]
  BY <1>1, <1>3, <1>5
<1>9. \A q \in Parties \ {p} : rng'[q] = rng[q] /\ drawn'[q] = drawn[q]
  BY <1>1, <1>3
<1>10. QED BY <1>5, <1>6, <1>7, <1>8, <1>9 DEF NextDrawn

LEMMA DrawingFrom ==
  ASSUME Types, NEW p \in Parties, RngOK(p, rng[p], drawn[p]),
         NEW what \in Marks, NEW S, NEW n, NEW asks, AsksFor(asks, S, n), Drawing(p, asks, what)
  PROVE  NextDrawn(p, S, n, what)
<1>1. AsksAmong(p, asks, S, n)
  BY DEF AsksFor, AsksAmong
<1>2. QED BY <1>1, DrawingStep

-----------------------------------------------------------------------------
(***************************************************************************)
(* The numbers that the actions compute are reduced.                       *)
(***************************************************************************)

LEMMA BitsReduced ==
  Bits \subseteq Residues /\ Bits \subseteq Int
  BY WordAssumption DEF Bits, Residues

LEMMA BitsSeq ==
  ASSUME NEW v \in Seq(Bits)
  PROVE  v \in Seq(Residues) /\ \A j \in 1 .. Len(v) : v[j] \in Residues
<1>1. \A j \in 1 .. Len(v) : v[j] \in Residues
  <2>1. \A j \in 1 .. Len(v) : v[j] \in Bits
    OBVIOUS
  <2>2. QED BY <2>1, BitsReduced
<1>2. Len(v) \in Nat /\ DOMAIN v = 1 .. Len(v) /\ v = [j \in 1 .. Len(v) |-> v[j]]
  OBVIOUS
<1>3. QED BY <1>1, <1>2

LEMMA PlaceType ==
  ASSUME Types, NEW p \in Parties
  PROVE  /\ prog \in Programs /\ Len(prog) \in Nat
         /\ at[p] \in 1 .. Len(prog) + 1 /\ at[p] \in Nat
         /\ \A k \in Nat : <<at[p], k>> \in Marks
         /\ ~ Finished(p) => at[p] \in 1 .. Len(prog) /\ CallFacts(Call(p), at[p])
<1>1. prog \in Programs /\ at \in [Parties -> 1 .. Len(prog) + 1]
  BY DEF Types, TypeOK
<1>2. Len(prog) \in Nat /\ \A i \in 1 .. Len(prog) : CallFacts(prog[i], i)
  BY <1>1, ProgramFacts
<1>3. at[p] \in 1 .. Len(prog) + 1 /\ at[p] \in Nat
  BY <1>1, <1>2
<1>4. ~ Finished(p) => at[p] \in 1 .. Len(prog)
  BY <1>2, <1>3 DEF Finished
<1>5. QED BY <1>1, <1>2, <1>3, <1>4 DEF Call, Marks

\* The draws for the asks.
DrawsOf(p, asks, v) ==
  /\ v \in Seq(Seq(Bits)) /\ Len(v) = Len(asks)
  /\ \A j \in 1 .. Len(asks) :
       /\ v[j] = Coming(seed_of(p, asks[j].from), asks[j].n, Len(drawn[p][asks[j].from]))
       /\ v[j] \in Seq(Bits) /\ Len(v[j]) = asks[j].n

LEMMA DrawnValues ==
  ASSUME Types, NEW p \in Parties, RngOK(p, rng[p], drawn[p]),
         NEW asks \in Seq(Asks), Distinct(asks)
  PROVE  DrawsOf(p, asks, Drawn(p, asks))
<1> DEFINE what == <<at[p], 0>>
           d == Draw(p, asks, what)
<1>1. tape \in Tapes /\ what \in Marks
  BY PlaceType DEF Types
<1>2. Drew(p, asks, what, Len(asks), d)
  <2> HIDE DEF Drew, what
  <2>1. QED BY <1>1, DrawAll
<1> HIDE DEF d
<1>3. d.values \in Seq(Seq(Bits)) /\ Len(d.values) = Len(asks)
  BY <1>2 DEF Drew, DrawState
<1>4. ASSUME NEW j \in 1 .. Len(asks)
      PROVE  /\ d.values[j] = Coming(seed_of(p, asks[j].from), asks[j].n, Len(drawn[p][asks[j].from]))
             /\ d.values[j] \in Seq(Bits) /\ Len(d.values[j]) = asks[j].n
  <2>1. d.values[j] = Coming(seed_of(p, asks[j].from), asks[j].n, Len(drawn[p][asks[j].from]))
    BY <1>2 DEF Drew
  <2>2. asks[j] \in Asks
    OBVIOUS
  <2>3. asks[j].from \in Parties /\ asks[j].n \in Nat
    BY <2>2 DEF Asks
  <2>4. Len(drawn[p][asks[j].from]) \in Nat /\ seed_of(p, asks[j].from) \in Seeds
    BY <2>3, SeedFacts DEF Types
  <2> DEFINE seed == seed_of(p, asks[j].from)
             n == asks[j].n
             k == Len(drawn[p][asks[j].from])
  <2> HIDE DEF seed, n, k
  <2>5. seed \in Seeds /\ n \in Nat /\ k \in Nat /\ d.values[j] = Coming(seed, n, k)
    BY <2>1, <2>3, <2>4 DEF seed, n, k
  <2>6. Coming(seed, n, k) \in Seq(Bits) /\ Len(Coming(seed, n, k)) = n
    BY <1>1, <2>5, ComingType
  <2>7. QED BY <2>5, <2>6 DEF seed, n, k
<1>5. Drawn(p, asks) = d.values
  BY DEF Drawn, d
<1>6. QED BY <1>3, <1>4, <1>5 DEF DrawsOf

LEMMA FirstsType ==
  ASSUME NEW v \in Seq(Seq(Bits)), \A j \in 1 .. Len(v) : Len(v[j]) >= 1
  PROVE  Firsts(v) \in Seq(Int) /\ Len(Firsts(v)) = Len(v)
<1>1. \A j \in 1 .. Len(v) : v[j][1] \in Int
  <2>1. ASSUME NEW j \in 1 .. Len(v) PROVE v[j][1] \in Int
    <3>1. v[j] \in Seq(Bits) /\ 1 \in 1 .. Len(v[j])
      OBVIOUS
    <3>2. v[j][1] \in Bits
      BY <3>1
    <3>3. QED BY <3>2, BitsReduced
  <2>2. QED BY <2>1
<1>2. DOMAIN v = 1 .. Len(v) /\ Len(v) \in Nat
  OBVIOUS
<1>3. QED BY <1>1, <1>2 DEF Firsts

LEMMA SumTypes ==
  ASSUME NEW values \in Seq(Int)
  PROVE  SumMod(values) \in Residues /\ SumWords(values) \in Nat
<1>1. PICK sum : SumSteps(values, sum)
  BY SumModSteps
<1>2. PICK word : WordSteps(values, word)
  BY SumWordsSteps
<1>3. Len(values) \in 0 .. Len(values)
  OBVIOUS
<1>4. SumMod(values) \in Residues
  BY <1>1, <1>3 DEF SumSteps
<1>5. SumWords(values) \in Nat
  BY <1>2, <1>3 DEF WordSteps
<1>6. QED BY <1>4, <1>5

LEMMA FirstsOf ==
  ASSUME Types, NEW p \in Parties, RngOK(p, rng[p], drawn[p]),
         NEW asks, NEW S, AsksFor(asks, S, 1)
  PROVE  Firsts(Drawn(p, asks)) \in Seq(Int)
<1>1. asks \in Seq(Asks) /\ Distinct(asks) /\ \A j \in 1 .. Len(asks) : asks[j].n = 1
  BY DEF AsksFor
<1>2. DrawsOf(p, asks, Drawn(p, asks))
  BY <1>1, DrawnValues
<1> DEFINE v == Drawn(p, asks)
<1> HIDE DEF v
<1>3. v \in Seq(Seq(Bits)) /\ \A j \in 1 .. Len(v) : Len(v[j]) >= 1
  <2>1. DrawsOf(p, asks, v)
    BY <1>2 DEF v
  <2>2. v \in Seq(Seq(Bits)) /\ Len(v) = Len(asks) /\ \A j \in 1 .. Len(asks) : Len(v[j]) = asks[j].n
    BY <2>1 DEF DrawsOf
  <2>3. ASSUME NEW j \in 1 .. Len(v) PROVE Len(v[j]) >= 1
    <3>1. j \in 1 .. Len(asks)
      BY <2>2
    <3>2. Len(v[j]) = 1
      BY <1>1, <2>2, <3>1
    <3>3. QED BY <3>2
  <2>4. QED BY <2>2, <2>3
<1>4. Firsts(v) \in Seq(Int)
  BY <1>3, FirstsType
<1>5. QED BY <1>4 DEF v

LEMMA BlindedType ==
  ASSUME Types, NEW p \in Parties, RngOK(p, rng[p], drawn[p]), Call(p).data \in Residues,
         NEW streams, NEW S, AsksFor(Ask(streams, 1), S, 1)
  PROVE  Blinded(p, streams) \in Residues
<1>1. SumWords(Firsts(Drawn(p, Ask(streams, 1)))) \in Nat
  BY FirstsOf, SumTypes
<1> DEFINE masks == SumWords(Firsts(Drawn(p, Ask(streams, 1))))
<1> HIDE DEF masks
<1>2. Call(p).data \in Int /\ masks \in Int
  BY <1>1, ResidueFacts DEF masks
<1>3. sub_mod(Call(p).data, masks) \in Residues
  BY <1>2, ArithmeticTypes
<1>4. QED BY <1>3 DEF Blinded, masks

\* There are as many draws in v as there are streams, of n numbers each.
Full(v, n) == v \in Seq(Seq(Bits)) /\ Len(v) = N - 2 /\ \A i \in 1 .. N - 2 : Len(v[i]) = n

\* What the dealer sends the hub, a residue for each value.
LEMMA MissingType ==
  ASSUME NEW n \in Nat, NEW values \in Seq(Int), Len(values) = n, NEW v, Full(v, n)
  PROVE  Missing(values, v) \in Seq(Residues) /\ Len(Missing(values, v)) = n
<1>1. Len(NotHub) = N - 2
  BY AskNotHub
<1>2. ASSUME NEW j \in 1 .. n
      PROVE  sub_mod(values[j], SumMod([i \in 1 .. Len(NotHub) |-> v[i][j]])) \in Residues
  <2> DEFINE row == [i \in 1 .. Len(NotHub) |-> v[i][j]]
  <2>1. ASSUME NEW i \in 1 .. N - 2 PROVE v[i][j] \in Int
    <3>1. v[i] \in Seq(Bits) /\ Len(v[i]) = n
      BY DEF Full
    <3>2. v[i][j] \in Bits
      BY <3>1
    <3>3. QED BY <3>2, BitsReduced
  <2>2. row \in Seq(Int)
    BY <1>1, <2>1, PartyFacts
  <2> HIDE DEF row
  <2>3. SumMod(row) \in Int
    BY <2>2, SumTypes, ResidueFacts
  <2>4. values[j] \in Int
    OBVIOUS
  <2>5. sub_mod(values[j], SumMod(row)) \in Residues
    BY <2>3, <2>4, ArithmeticTypes
  <2>6. QED BY <2>5 DEF row
<1>3. DOMAIN values = 1 .. n
  OBVIOUS
<1>4. QED BY <1>2, <1>3 DEF Missing

LEMMA NotHubDraws ==
  ASSUME Types, NEW p \in Parties, RngOK(p, rng[p], drawn[p]), NEW n \in Nat
  PROVE  Full(Drawn(p, Ask(NotHub, n)), n)
<1> DEFINE asks == Ask(NotHub, n)
<1>1. AsksFor(asks, 2 .. N - 1, n) /\ Len(asks) = N - 2
  BY AskNotHub
<1> HIDE DEF asks
<1>2. asks \in Seq(Asks) /\ Distinct(asks) /\ \A j \in 1 .. N - 2 : asks[j].n = n
  BY <1>1 DEF AsksFor
<1>3. DrawsOf(p, asks, Drawn(p, asks))
  BY <1>2, DrawnValues
<1>4. Full(Drawn(p, asks), n)
  BY <1>1, <1>2, <1>3 DEF DrawsOf, Full
<1>5. QED BY <1>4 DEF asks

LEMMA OneDraw ==
  ASSUME Types, NEW p \in Parties, RngOK(p, rng[p], drawn[p]), NEW s \in Parties, NEW n \in Nat
  PROVE  /\ Drawn(p, Ask(<<s>>, n))[1] \in Seq(Residues)
         /\ Len(Drawn(p, Ask(<<s>>, n))[1]) = n
         /\ \A j \in 1 .. n : Drawn(p, Ask(<<s>>, n))[1][j] \in Residues
<1> DEFINE asks == Ask(<<s>>, n)
           v == Drawn(p, asks)[1]
<1>1. AsksFor(asks, {s}, n) /\ Len(asks) = 1
  BY AskOne
<1> HIDE DEF asks
<1>2. asks \in Seq(Asks) /\ Distinct(asks) /\ asks[1].n = n
  BY <1>1 DEF AsksFor
<1>3. DrawsOf(p, asks, Drawn(p, asks))
  BY <1>2, DrawnValues
<1>4. v \in Seq(Bits) /\ Len(v) = n
  BY <1>1, <1>2, <1>3 DEF DrawsOf
<1> HIDE DEF v
<1>5. v \in Seq(Residues) /\ Len(v) = n /\ \A j \in 1 .. n : v[j] \in Residues
  BY <1>4, BitsSeq
<1>6. QED BY <1>5 DEF v, asks

LEMMA LinkType ==
  ASSUME Types, NEW p \in Parties, NEW q \in Parties, p # q
  PROVE  /\ <<p, q>> \in Links /\ wire \in [Links -> Seq(Residues)]
         /\ wire[<<p, q>>] \in Seq(Residues) /\ Len(wire[<<p, q>>]) \in Nat
<1>1. <<p, q>> \in Links
  BY DEF Links
<1>2. wire \in [Links -> Seq(Residues)]
  BY DEF Types, TypeOK
<1>3. QED BY <1>1, <1>2

LEMMA FirstOfLink ==
  ASSUME Types, NEW p \in Parties, NEW q \in Parties, p # q, NEW n \in Nat, Arrived(p, q, n)
  PROVE  /\ First(p, q, n) \in Seq(Residues) /\ Len(First(p, q, n)) = n
         /\ \A j \in 1 .. n : First(p, q, n)[j] \in Residues
<1>1. PICK w \in Seq(Residues) : w = wire[<<p, q>>]
  BY LinkType
<1>2. Len(w) >= n /\ First(p, q, n) = SubSeq(w, 1, n)
  BY <1>1 DEF Arrived, First
<1>3. QED BY <1>2

\* What a party has of the dealer.
LEMMA DealtToType ==
  ASSUME Types, NEW p \in Computing, RngOK(p, rng[p], drawn[p]), NEW n \in Nat,
         p = 1 => Arrived(0, 1, n)
  PROVE  /\ DealtTo(p, n) \in Seq(Residues) /\ Len(DealtTo(p, n)) = n
         /\ \A j \in 1 .. n : DealtTo(p, n)[j] \in Residues
<1>1. p \in Parties /\ 0 \in Parties /\ 1 \in Parties
  BY PartyFacts DEF Computing
<1>2. CASE p = 1
  <2>1. DealtTo(p, n) = First(0, 1, n)
    BY <1>2 DEF DealtTo
  <2>2. QED BY <1>1, <1>2, <2>1, FirstOfLink
<1>3. CASE p # 1
  <2>1. DealtTo(p, n) = Drawn(p, Ask(<<0>>, n))[1]
    BY <1>3 DEF DealtTo
  <2>2. QED BY <1>1, <2>1, OneDraw
<1>4. QED BY <1>2, <1>3

-----------------------------------------------------------------------------
(***************************************************************************)
(* What a step of one party leaves alone.                                  *)
(***************************************************************************)

Elsewhere(p) ==
  /\ prog' = prog /\ tape' = tape
  /\ \A q \in Parties \ {p} :
       /\ at'[q] = at[q] /\ stage'[q] = stage[q] /\ result'[q] = result[q]
       /\ held'[q] = held[q] /\ rng'[q] = rng[q] /\ drawn'[q] = drawn[q]

\* A step of another party leaves what the invariant says of this one.
LEMMA ElsewhereSame ==
  ASSUME NEW p, NEW q \in Parties \ {p}, Elsewhere(p),
         PlaceOK(q), DrawnOK(q), RngOK(q, rng[q], drawn[q])
  PROVE  /\ PlaceOK(q)' /\ DrawnOK(q)' /\ RngOK(q, rng[q], drawn[q])'
         /\ Had(q)' = Had(q) /\ Answers(q)' = Answers(q) /\ Reveals(q)' = Reveals(q)
<1>1. /\ prog' = prog /\ at'[q] = at[q] /\ stage'[q] = stage[q] /\ result'[q] = result[q]
      /\ held'[q] = held[q] /\ rng'[q] = rng[q] /\ drawn'[q] = drawn[q]
  BY DEF Elsewhere
<1>2. Before(q)' = Before(q)
  BY <1>1 DEF Before
<1>3. Parted(q)' = Parted(q)
  BY <1>1 DEF Parted
<1>4. Finished(q)' = Finished(q) /\ Call(q)' = Call(q)
  BY <1>1 DEF Finished, Call
<1>5. X(q)' = X(q) /\ Y(q)' = Y(q)
  BY <1>1, <1>4 DEF X, Y
<1>6. Bare(q)' = Bare(q) /\ Operand(q)' = Operand(q)
  BY <1>4, <1>5 DEF Bare, Operand
<1>7. New(q)' = New(q)
  BY <1>2, <1>3 DEF New
<1>8. \A ops : Revealing(q, ops)' = Revealing(q, ops)
  BY <1>1, <1>4 DEF Revealing
<1>9. Masked(q)' = Masked(q)
  BY <1>6, <1>7, <1>8 DEF Masked
<1>10. \A d : DrawnSince(q, d)' = DrawnSince(q, d)
  BY <1>1, <1>4, <1>8, <1>9 DEF DrawnSince
<1>11. Had(q)' = Had(q)
  BY <1>2, <1>8 DEF Had
<1>12. Answers(q)' = Answers(q)
  BY <1>1, <1>2, <1>4, <1>7 DEF Answers
<1>13. Reveals(q)' = Reveals(q)
  BY <1>1, <1>12 DEF Reveals
<1>14. PlaceOK(q)'
  BY <1>1, <1>2, <1>3, <1>4, <1>6, <1>7 DEF PlaceOK
<1>15. DrawnOK(q)'
  BY <1>1, <1>2, <1>10 DEF DrawnOK
<1>16. RngOK(q, rng[q], drawn[q])'
  BY <1>1 DEF RngOK
<1>17. QED BY <1>11, <1>12, <1>13, <1>14, <1>15, <1>16

-----------------------------------------------------------------------------
\* Lists of draws.

LEMMA NoMaskDraws ==
  ASSUME NEW n, NEW c
  PROVE  MaskDraws(n, c, {}) = <<>>
  BY DEF MaskDraws

LEMMA ConcatFacts ==
  ASSUME NEW a \in Seq(Marks), NEW b \in Seq(Marks), NEW c \in Seq(Marks)
  PROVE  (a \o b) \o c = a \o (b \o c) /\ a \o <<>> = a /\ <<>> \o a = a
  OBVIOUS

LEMMA ConcatAssoc ==
  \A a, b, c \in Seq(Marks) : (a \o b) \o c = a \o (b \o c)
  BY ConcatFacts

LEMMA BeforeType ==
  ASSUME Types, NEW p \in Parties
  PROVE  /\ Before(p) \in Works
         /\ Before(p).dealt \in Nat /\ Before(p).reveals \in Nat
         /\ Before(p).parted \in SUBSET Nat /\ Before(p).drawn \in [Seeds -> Seq(Marks)]
<1>1. PlanFacts(prog) /\ at[p] - 1 \in 0 .. Len(prog)
  BY PlaceType, PlanRight
<1>2. Before(p) \in Works
  BY <1>1 DEF PlanFacts, Before
<1>3. QED BY <1>2 DEF Works

LEMMA CountTypes ==
  ASSUME Types, NEW p \in Parties
  PROVE  Had(p) \in Nat /\ Answers(p) \in Nat /\ Reveals(p) \in Nat
<1>1. Before(p).dealt \in Nat /\ Before(p).reveals \in Nat
  BY BeforeType
<1>2. ~ Finished(p) => Len(MaskDraws(at[p], Call(p), New(p))) \in Nat
  BY PlaceType, MaskDrawsType
<1>3. Answers(p) \in Nat
  BY <1>1, <1>2 DEF Answers
<1>4. QED BY <1>1, <1>3 DEF Had, Reveals

\* The next call begins where the plan says.
LEMMA PlanNext ==
  ASSUME Types, NEW p \in Parties, ~ Finished(p), prog' = prog, at'[p] = at[p] + 1
  PROVE  Before(p)' = After(at[p], Call(p), Before(p))
<1>1. at[p] \in 1 .. Len(prog) /\ at[p] \in Nat /\ PlanFacts(prog)
  BY PlaceType, PlanRight
<1>2. Plan(prog)[at[p]] = After(at[p], prog[at[p]], Plan(prog)[at[p] - 1])
  BY <1>1 DEF PlanFacts
<1>3. (at[p] + 1) - 1 = at[p]
  BY <1>1
<1>4. QED BY <1>2, <1>3 DEF Before, Call

-----------------------------------------------------------------------------
(***************************************************************************)
(* A party ends its call with the result t.                                *)
(***************************************************************************)

Moves(p, t) ==
  /\ prog' = prog /\ at'[p] = at[p] + 1 /\ stage'[p] = "run"
  /\ result'[p] = Append(result[p], t)
  /\ is_partitioned(t) <=> at[p] \in PartedAfter(at[p], Call(p), Before(p).parted)

MovedOn(p) ==
  /\ PlaceOK(p)'
  /\ Before(p)' = After(at[p], Call(p), Before(p))
  /\ Had(p)' = Before(p).dealt + Dealt(Call(p))
  /\ Answers(p)' = Before(p).reveals + Len(MaskDraws(at[p], Call(p), New(p)))
                     + (IF Call(p).op \in {"reveal", "trunc"} THEN 1 ELSE 0)
  /\ Reveals(p)' = Answers(p)'
  /\ \A d : DrawnSince(p, d)' = <<>>

LEMMA PlaceFacts ==
  ASSUME Types, NEW p \in Parties, PlaceOK(p)
  PROVE  /\ result[p] \in Seq(Sharetensors) /\ Len(result[p]) = at[p] - 1
         /\ DOMAIN result[p] = 1 .. at[p] - 1
         /\ Parted(p) \subseteq 1 .. at[p] - 1
         /\ Before(p).parted \subseteq Parted(p)
         /\ Parted(p) = Before(p).parted \cup New(p)
<1>1. result[p] \in Seq(Sharetensors)
  BY DEF Types, TypeOK
<1>2. Len(result[p]) = at[p] - 1 /\ Before(p).parted \subseteq Parted(p)
  BY DEF PlaceOK
<1>3. DOMAIN result[p] = 1 .. at[p] - 1
  BY <1>1, <1>2
<1>4. QED BY <1>1, <1>2, <1>3 DEF Parted, New

\* A party that returns has done what the plan says of the call.
LEMMA MovesOn ==
  ASSUME Types, NEW p \in Parties, PlaceOK(p), ~ Finished(p),
         New(p) = Wanted(Call(p), Before(p).parted), NEW t \in Sharetensors, Moves(p, t)
  PROVE  MovedOn(p)
<1> DEFINE n == at[p]
           c == Call(p)
           w == Before(p)
           u == After(n, c, w)
<1>1. /\ n \in Nat /\ n >= 1 /\ n \in 1 .. Len(prog) /\ Len(prog) \in Nat
      /\ CallFacts(c, n) /\ w \in Works
      /\ w.dealt \in Nat /\ w.reveals \in Nat /\ w.parted \in SUBSET Nat
  BY PlaceType, BeforeType
<1>2. /\ result[p] \in Seq(Sharetensors) /\ Len(result[p]) = n - 1 /\ DOMAIN result[p] = 1 .. n - 1
      /\ Parted(p) \subseteq 1 .. n - 1 /\ w.parted \subseteq Parted(p)
      /\ Parted(p) = w.parted \cup Wanted(c, w.parted)
  BY PlaceFacts
<1>3. Before(p)' = u
  BY PlanNext DEF Moves
<1>4. /\ u.parted = PartedAfter(n, c, w.parted) /\ u.dealt = w.dealt + Dealt(c)
      /\ u.reveals = w.reveals + Len(MaskDraws(n, c, Wanted(c, w.parted)))
                       + (IF c.op \in {"reveal", "trunc"} THEN 1 ELSE 0)
  BY DEF After
<1>5. Len(result'[p]) = n /\ result'[p] \in Seq(Sharetensors)
      /\ result'[p][n] = t /\ \A k \in 1 .. n - 1 : result'[p][k] = result[p][k]
  <2>1. result'[p] = Append(result[p], t)
    BY DEF Moves
  <2>2. QED BY <1>1, <1>2, <2>1
<1>6. Parted(p)' = Parted(p) \cup (IF is_partitioned(t) THEN {n} ELSE {})
  <2>1. DOMAIN result'[p] = 1 .. n
    BY <1>1, <1>5
  <2>2. Parted(p)' = {k \in 1 .. n : is_partitioned(result'[p][k])}
    BY <2>1 DEF Parted
  <2>3. Parted(p) = {k \in 1 .. n - 1 : is_partitioned(result[p][k])}
    BY <1>2 DEF Parted
  <2> HIDE DEF n
  <2>4. 1 .. n = (1 .. n - 1) \cup {n} /\ n \notin 1 .. n - 1
    BY <1>1
  <2>5. QED BY <1>5, <2>2, <2>3, <2>4
<1>7. PartedAfter(n, c, w.parted)
        = (w.parted \cup Wanted(c, w.parted))
            \cup (IF n \in PartedAfter(n, c, w.parted) THEN {n} ELSE {})
  <2>1. c.op \notin Masking => Wanted(c, w.parted) = {}
    BY DEF Wanted, Masking
  <2>2. QED BY <2>1 DEF PartedAfter, Masking
<1>8. Parted(p)' = u.parted
  BY <1>2, <1>4, <1>6, <1>7 DEF Moves
<1>9. New(p)' = {}
  BY <1>3, <1>8 DEF New
<1>10. stage'[p] = "run" /\ at'[p] = n + 1 /\ prog' = prog
  BY DEF Moves
<1>11. \A ops : ~ Revealing(p, ops)'
  BY <1>10 DEF Revealing
<1>12. Masked(p)' = {}
  BY <1>9, <1>11 DEF Masked
<1>13. \A d : DrawnSince(p, d)' = <<>>
  <2>1. ASSUME NEW d PROVE DrawnSince(p, d)' = <<>>
    <3>1. MaskDraws(at'[p], Call(p)', {}) = <<>>
      BY NoMaskDraws
    <3>2. Marked(0, <<at'[p], 0>>) = <<>>
      BY DEF Marked
    <3>3. <<>> \o <<>> = <<>>
      OBVIOUS
    <3>4. QED BY <1>11, <1>12, <3>1, <3>2, <3>3 DEF DrawnSince
  <2>2. QED BY <2>1
<1>14. Had(p)' = w.dealt + Dealt(c)
  <2>1. w.dealt + Dealt(c) \in Nat
    BY <1>1, DealtType
  <2>2. QED BY <1>3, <1>4, <1>11, <2>1 DEF Had
<1>15. Answers(p)' = u.reveals
  <2>1. MaskDraws(at'[p], Call(p)', {}) = <<>> /\ Len(<<>>) = 0
    BY NoMaskDraws
  <2>2. u.reveals \in Nat
    BY <1>1, AfterType DEF Works
  <2>3. QED BY <1>3, <1>9, <2>1, <2>2 DEF Answers
<1>16. Reveals(p)' = Answers(p)'
  <2>1. u.reveals \in Nat
    BY <1>1, AfterType DEF Works
  <2>2. QED BY <1>10, <1>15, <2>1 DEF Reveals
<1>17. PlaceOK(p)'
  <2>1. Len(result'[p]) = at'[p] - 1
    BY <1>1, <1>5, <1>10
  <2>2. Before(p)'.parted \subseteq Parted(p)'
    BY <1>3, <1>8
  <2>3. QED BY <1>9, <1>10, <2>1, <2>2 DEF PlaceOK
<1>18. QED BY <1>3, <1>4, <1>13, <1>14, <1>15, <1>16, <1>17 DEF MovedOn

\* What p has drawn from the streams it shares is what the plan has after the call.
DrawnCall(p) ==
  \A s \in Parties \ {p} :
    drawn'[p][s] = Before(p).drawn[seed_of(p, s)]
                     \o CallDraws(at[p], Call(p), Before(p).parted, seed_of(p, s))

LEMMA DrawnMoved ==
  ASSUME Types, NEW p \in Parties, ~ Finished(p), MovedOn(p), DrawnCall(p)
  PROVE  DrawnOK(p)'
<1> DEFINE u == After(at[p], Call(p), Before(p))
<1>1. Before(p)' = u /\ \A d : DrawnSince(p, d)' = <<>>
  BY DEF MovedOn
<1>2. u \in Works
  <2>1. at[p] \in Nat /\ CallFacts(Call(p), at[p]) /\ Before(p) \in Works
    BY PlaceType, BeforeType
  <2>2. QED BY <2>1, AfterType
<1>3. ASSUME NEW s \in Parties \ {p}
      PROVE  drawn'[p][s] = u.drawn[seed_of(p, s)] \o <<>>
  <2>1. seed_of(p, s) \in Seeds
    BY SeedFacts
  <2>2. u.drawn[seed_of(p, s)] = Before(p).drawn[seed_of(p, s)]
          \o CallDraws(at[p], Call(p), Before(p).parted, seed_of(p, s))
    BY <2>1 DEF After
  <2>3. u.drawn[seed_of(p, s)] \in Seq(Marks)
    BY <1>2, <2>1 DEF Works
  <2> HIDE DEF u
  <2>4. QED BY <2>2, <2>3, ConcatFacts DEF DrawnCall
<1> HIDE DEF u
<1>4. QED BY <1>1, <1>3 DEF DrawnOK

\* As many numbers as a call draws in its end are drawn from each stream.
Amounts(p, S, n) ==
  \A s \in Parties \ {p} : (IF s \in S THEN n ELSE 0) = LastDraws(Call(p), seed_of(p, s))

\* The draws of p in its call, those for masks and those at the end of it.
ForMasks(p, d) == IF d[1] = 0 THEN MaskDraws(at[p], Call(p), Masked(p)) ELSE <<>>
ForEnd(p, d) == IF Revealing(p, {"trunc"}) THEN LastDraws(Call(p), d) ELSE 0

LEMMA DrawnParts ==
  ASSUME Types, NEW p \in Parties, DrawnOK(p), ~ Finished(p), NEW s \in Parties \ {p}
  PROVE  /\ Before(p).drawn[seed_of(p, s)] \in Seq(Marks)
         /\ ForMasks(p, seed_of(p, s)) \in Seq(Marks)
         /\ \A m \in Nat : Marked(m, <<at[p], 0>>) \in Seq(Marks)
         /\ drawn[p][s] = Before(p).drawn[seed_of(p, s)]
               \o (ForMasks(p, seed_of(p, s)) \o Marked(ForEnd(p, seed_of(p, s)), <<at[p], 0>>))
<1> DEFINE d == seed_of(p, s)
           masks == ForMasks(p, d)
           k == ForEnd(p, d)
<1>1. d \in Seeds /\ at[p] \in Nat /\ CallFacts(Call(p), at[p]) /\ <<at[p], 0>> \in Marks
  <2>1. \A i \in Nat : <<at[p], i>> \in Marks
    BY PlaceType
  <2>2. QED BY <2>1, SeedFacts, PlaceType
<1>2. Before(p).drawn[d] \in Seq(Marks)
  BY <1>1, BeforeType
<1>3. masks \in Seq(Marks)
  <2>1. MaskDraws(at[p], Call(p), Masked(p)) \in Seq(Marks)
    BY <1>1, MaskDrawsType
  <2>2. QED BY <2>1 DEF ForMasks
<1>4. \A m \in Nat : Marked(m, <<at[p], 0>>) \in Seq(Marks)
  BY <1>1, MarkedType
<1>5. drawn[p][s] = Before(p).drawn[d] \o DrawnSince(p, d)
  BY DEF DrawnOK
<1>6. DrawnSince(p, d) = masks \o Marked(k, <<at[p], 0>>)
  BY DEF DrawnSince, ForMasks, ForEnd
<1>7. QED BY <1>2, <1>3, <1>4, <1>5, <1>6

\* A party that returns without a reveal.
LEMMA ReturnsDrawn ==
  ASSUME Types, NEW p \in Parties, DrawnOK(p), ~ Finished(p), stage[p] = "run",
         New(p) = Wanted(Call(p), Before(p).parted),
         NEW S, NEW n, NextDrawn(p, S, n, <<at[p], 0>>), Amounts(p, S, n)
  PROVE  DrawnCall(p)
<1>1. Masked(p) = Wanted(Call(p), Before(p).parted) /\ ~ Revealing(p, {"trunc"})
  BY DEF Masked, Revealing
<1>2. ASSUME NEW s \in Parties \ {p}
      PROVE  drawn'[p][s] = Before(p).drawn[seed_of(p, s)]
                \o CallDraws(at[p], Call(p), Before(p).parted, seed_of(p, s))
  <2> DEFINE d == seed_of(p, s)
             a == Before(p).drawn[d]
             masks == IF d[1] = 0 THEN MaskDraws(at[p], Call(p), Wanted(Call(p), Before(p).parted)) ELSE <<>>
             last == Marked(LastDraws(Call(p), d), <<at[p], 0>>)
             none == Marked(0, <<at[p], 0>>)
  <2>1. a \in Seq(Marks) /\ masks \in Seq(Marks)
        /\ (\A m \in Nat : Marked(m, <<at[p], 0>>) \in Seq(Marks))
        /\ drawn[p][s] = a \o (masks \o none)
    <3>1. masks = ForMasks(p, d) /\ ForEnd(p, d) = 0
      BY <1>1 DEF ForMasks, ForEnd
    <3>2. QED BY <3>1, DrawnParts
  <2>2. last \in Seq(Marks)
    <3>1. LastDraws(Call(p), d) \in Nat
      BY PlaceType, LastDrawsType
    <3>2. QED BY <2>1, <3>1
  <2>3. drawn'[p][s] = drawn[p][s] \o last
    BY DEF NextDrawn, Amounts
  <2>4. masks \o none = masks
    BY <2>1, MarkedNothing
  <2>5. CallDraws(at[p], Call(p), Before(p).parted, d) = masks \o last
    BY DEF CallDraws
  <2> HIDE DEF d, a, masks, last, none
  <2>6. drawn'[p][s] = a \o (masks \o last)
    <3>1. drawn'[p][s] = (a \o masks) \o last
      BY <2>1, <2>3, <2>4
    <3>2. a \in Seq(Marks) /\ masks \in Seq(Marks)
      BY <2>1
    <3>3. (a \o masks) \o last = a \o (masks \o last)
      BY <2>2, <3>2, ConcatFacts
    <3>4. QED BY <3>1, <3>3
  <2>7. QED BY <2>5, <2>6 DEF a, d
<1>3. QED BY <1>2 DEF DrawnCall

\* A party that returns from reveal.
LEMMA RevealedDrawn ==
  ASSUME Types, NEW p \in Parties, DrawnOK(p), ~ Finished(p),
         stage[p] = "reveal", Call(p).op \in {"reveal", "trunc"},
         New(p) = Wanted(Call(p), Before(p).parted), drawn' = drawn
  PROVE  DrawnCall(p)
<1>1. Masked(p) = Wanted(Call(p), Before(p).parted)
  BY DEF Masked, Revealing, Masking
<1>2. CallFacts(Call(p), at[p])
  BY PlaceType
<1>3. ASSUME NEW s \in Parties \ {p}
      PROVE  drawn'[p][s] = Before(p).drawn[seed_of(p, s)]
                \o CallDraws(at[p], Call(p), Before(p).parted, seed_of(p, s))
  <2> DEFINE d == seed_of(p, s)
             masks == IF d[1] = 0 THEN MaskDraws(at[p], Call(p), Wanted(Call(p), Before(p).parted)) ELSE <<>>
             k == ForEnd(p, d)
  <2>1. drawn[p][s] = Before(p).drawn[d] \o (masks \o Marked(k, <<at[p], 0>>))
    <3>1. masks = ForMasks(p, d)
      BY <1>1 DEF ForMasks
    <3>2. QED BY <3>1, DrawnParts
  <2>2. k = LastDraws(Call(p), d)
    <3>1. CASE Call(p).op = "trunc"
      BY <3>1 DEF Revealing, ForEnd
    <3>2. CASE Call(p).op = "reveal"
      BY <1>2, <3>2, DealtType DEF Revealing, LastDraws, ForEnd
    <3>3. QED BY <3>1, <3>2
  <2>3. CallDraws(at[p], Call(p), Before(p).parted, d) = masks \o Marked(k, <<at[p], 0>>)
    BY <2>2 DEF CallDraws
  <2>4. QED BY <2>1, <2>3
<1>4. QED BY <1>3 DEF DrawnCall

-----------------------------------------------------------------------------
(***************************************************************************)
(* The operand that is partitioned next.                                   *)
(***************************************************************************)

NextOperand(p) ==
  /\ Operand(p) \in 1 .. at[p] - 1
  /\ Operand(p) \notin Parted(p)
  /\ Operand(p) \in Wanted(Call(p), Before(p).parted)
  /\ Operand(p) = Call(p).x \/ Call(p).x \in Parted(p)
  /\ MaskDraws(at[p], Call(p), New(p) \cup {Operand(p)})
       = MaskDraws(at[p], Call(p), New(p)) \o Marked(1, <<at[p], Operand(p)>>)

LEMMA BareOperand ==
  ASSUME Types, NEW p \in Parties, PlaceOK(p), ~ Finished(p), Call(p).op \in Masking, Bare(p)
  PROVE  NextOperand(p)
<1> DEFINE n == at[p]
           c == Call(p)
           k == Operand(p)
           S == New(p)
<1>1. n \in Nat /\ CallFacts(c, n) /\ DOMAIN result[p] = 1 .. n - 1
      /\ Before(p).parted \subseteq Parted(p) /\ Parted(p) \subseteq 1 .. n - 1
  BY PlaceType, PlaceFacts
<1>2. c.x \in 1 .. n - 1 /\ (c.op = "mul" => c.y \in 1 .. n - 1)
  BY <1>1 DEF CallFacts, Masking
<1>3. /\ c.x \in Parted(p) <=> is_partitioned(X(p))
      /\ c.op = "mul" => (c.y \in Parted(p) <=> is_partitioned(Y(p)))
  BY <1>1, <1>2 DEF Parted, X, Y
<1>4. \/ c.x \notin Parted(p) /\ k = c.x
      \/ c.x \in Parted(p) /\ c.op = "mul" /\ c.y \notin Parted(p) /\ k = c.y
  BY <1>3 DEF Bare, Operand
<1>5. S # {} => c.x \in Parted(p)
  BY DEF PlaceOK
<1>6. S \subseteq Parted(p)
  BY DEF New
<1>7. <<<<n, k>>>> = Marked(1, <<n, k>>)
  BY DEF Marked
<1> HIDE DEF n, c, k, S
<1>8. k \in 1 .. n - 1 /\ k \notin Parted(p) /\ (k = c.x \/ c.x \in Parted(p))
  BY <1>2, <1>4
<1>9. k \in Wanted(c, Before(p).parted)
  <2>1. k \notin Before(p).parted
    BY <1>1, <1>8
  <2>2. c.op \in Masking
    BY DEF c
  <2>3. k = c.x \/ (k = c.y /\ c.op = "mul")
    BY <1>4
  <2>4. QED BY <2>1, <2>2, <2>3 DEF Wanted
<1>10. MaskDraws(n, c, S \cup {k}) = MaskDraws(n, c, S) \o <<<<n, k>>>>
  <2>0. c.op \in Masking
    BY DEF c
  <2>1. CASE c.x \notin Parted(p) /\ k = c.x
    <3>1. S = {}
      BY <1>5, <2>1
    <3>2. MaskDraws(n, c, {k}) = <<<<n, k>>>> \o <<>>
      BY <2>0, <2>1 DEF MaskDraws
    <3>3. MaskDraws(n, c, {}) = <<>>
      BY NoMaskDraws
    <3>4. <<<<n, k>>>> \o <<>> = <<>> \o <<<<n, k>>>>
      OBVIOUS
    <3>5. S \cup {k} = {k}
      BY <3>1
    <3>6. QED BY <3>1, <3>2, <3>3, <3>4, <3>5
  <2>2. CASE c.x \in Parted(p) /\ c.op = "mul" /\ c.y \notin Parted(p) /\ k = c.y
    <3>1. k # c.x /\ k \notin S
      BY <1>6, <2>2
    <3> DEFINE a == IF c.op \in Masking /\ c.x \in S THEN <<<<n, c.x>>>> ELSE <<>>
    <3>2. c.x \in S \cup {k} <=> c.x \in S
      BY <3>1
    <3>3. MaskDraws(n, c, S \cup {k}) = a \o <<<<n, k>>>>
      BY <2>2, <3>1, <3>2 DEF MaskDraws
    <3>4. MaskDraws(n, c, S) = a \o <<>>
      BY <2>2, <3>1 DEF MaskDraws
    <3>5. a \o <<>> = a
      OBVIOUS
    <3> HIDE DEF a
    <3>6. QED BY <3>3, <3>4, <3>5
  <2>3. QED BY <1>4, <2>1, <2>2
<1>11. QED BY <1>7, <1>8, <1>9, <1>10 DEF NextOperand, n, c, k, S

-----------------------------------------------------------------------------
(***************************************************************************)
(* A party calls reveal, for the mask mask.                                *)
(***************************************************************************)

Enters(p, mask) ==
  /\ prog' = prog /\ at'[p] = at[p] /\ stage'[p] = "reveal"
  /\ result'[p] = result[p] /\ held'[p] = mask

MayEnter(p, mask) ==
  /\ p # 0 /\ ~ Finished(p) /\ stage[p] = "run"
  /\ Call(p).op \in {"reveal", "trunc"} \cup Masking
  /\ Call(p).op \in Masking => Bare(p)
  /\ Call(p).op # "reveal" => Len(mask) = 1

\* What stays when a party goes on within its call.
SameCall(p) ==
  /\ Before(p)' = Before(p) /\ Finished(p)' = Finished(p) /\ Call(p)' = Call(p)
  /\ at'[p] = at[p]

LEMMA SameCallStep ==
  ASSUME NEW p, prog' = prog, at'[p] = at[p]
  PROVE  SameCall(p)
  BY DEF SameCall, Before, Finished, Call

Entered(p) ==
  /\ PlaceOK(p)'
  /\ Had(p)' = Had(p) + (IF Call(p).op = "trunc" THEN 2 ELSE 0)
  /\ Answers(p)' = Answers(p)
  /\ Reveals(p)' = Reveals(p) + 1
  /\ New(p)' = New(p) /\ Masked(p) = New(p)
  /\ Masked(p)' = New(p) \cup (IF Call(p).op \in Masking THEN {Operand(p)} ELSE {})
  /\ \A ops : Revealing(p, ops)' <=> Call(p).op \in ops

\* A party in reveal is in its call still, and has called reveal once more.
LEMMA EntersStep ==
  ASSUME Types, NEW p \in Parties, PlaceOK(p), NEW mask, MayEnter(p, mask), Enters(p, mask)
  PROVE  Entered(p)
<1>1. SameCall(p) /\ stage'[p] = "reveal" /\ result'[p] = result[p] /\ held'[p] = mask
  BY SameCallStep DEF Enters
<1>2. Parted(p)' = Parted(p)
  BY <1>1 DEF Parted
<1>3. New(p)' = New(p)
  BY <1>1, <1>2 DEF New, SameCall
<1>4. X(p)' = X(p) /\ Y(p)' = Y(p)
  BY <1>1 DEF X, Y, SameCall
<1>5. Bare(p)' = Bare(p) /\ Operand(p)' = Operand(p)
  BY <1>1, <1>4 DEF Bare, Operand, SameCall
<1>6. ASSUME NEW ops PROVE Revealing(p, ops)' <=> Call(p).op \in ops
  BY <1>1 DEF Revealing, SameCall
<1>7. \A ops : ~ Revealing(p, ops)
  BY DEF Revealing, MayEnter
<1>8. Masked(p) = New(p)
  BY <1>7 DEF Masked
<1>9. Masked(p)' = New(p) \cup (IF Call(p).op \in Masking THEN {Operand(p)} ELSE {})
  BY <1>3, <1>5, <1>6 DEF Masked
<1>10. Had(p)' = Had(p) + (IF Call(p).op = "trunc" THEN 2 ELSE 0)
  <2>1. Had(p) = Before(p).dealt /\ Before(p).dealt \in Nat
    BY <1>7, BeforeType DEF Had
  <2>2. Had(p)' = Before(p).dealt + (IF Call(p).op = "trunc" THEN 2 ELSE 0)
    BY <1>1, <1>6 DEF Had, SameCall
  <2>3. QED BY <2>1, <2>2
<1>11. Answers(p)' = Answers(p)
  BY <1>1, <1>3 DEF Answers, SameCall
<1>12. Reveals(p)' = Reveals(p) + 1
  <2>1. Answers(p) \in Nat /\ Reveals(p) = Answers(p)
    BY CountTypes DEF Reveals, MayEnter
  <2>2. Reveals(p)' = Answers(p)' + 1
    BY <1>1 DEF Reveals
  <2>3. QED BY <1>11, <2>1, <2>2
<1>13. PlaceOK(p)'
  BY <1>1, <1>2, <1>3, <1>5 DEF PlaceOK, SameCall, MayEnter
<1>14. QED BY <1>3, <1>6, <1>8, <1>9, <1>10, <1>11, <1>12, <1>13 DEF Entered

LEMMA SeedOfDealer ==
  ASSUME NEW p \in Parties, NEW s \in Parties \ {p}
  PROVE  seed_of(p, s)[1] = 0 <=> p = 0 \/ s = 0
<1>1. seed_of(p, s) = IF p < s THEN <<p, s>> ELSE <<s, p>>
  BY SeedFacts
<1>2. p \in Nat /\ s \in Nat /\ p # s
  BY PartyFacts
<1>3. CASE p < s
  BY <1>1, <1>2, <1>3
<1>4. CASE ~ (p < s)
  BY <1>1, <1>2, <1>4
<1>5. QED BY <1>3, <1>4

\* The draws are those for the masks and those at the end, if the call is in them.
LEMMA DrawnNow ==
  ASSUME NEW p \in Parties, SameCall(p), ~ Finished(p),
         \A s \in Parties \ {p} :
           drawn'[p][s] = Before(p).drawn[seed_of(p, s)]
                            \o (ForMasks(p, seed_of(p, s))'
                                  \o Marked(ForEnd(p, seed_of(p, s))', <<at[p], 0>>))
  PROVE  DrawnOK(p)'
<1>1. ASSUME NEW d
      PROVE  DrawnSince(p, d)' = ForMasks(p, d)' \o Marked(ForEnd(p, d)', <<at[p], 0>>)
  BY DEF DrawnSince, ForMasks, ForEnd, SameCall
<1>2. QED BY <1>1 DEF DrawnOK, SameCall

\* The draws of a party that enters reveal for a result or for trunc.
LEMMA EntersDrawn ==
  ASSUME Types, NEW p \in Parties, PlaceOK(p), DrawnOK(p), NEW mask, MayEnter(p, mask),
         Enters(p, mask), Entered(p), Call(p).op \in {"reveal", "trunc"},
         NEW S, NEW n, NextDrawn(p, S, n, <<at[p], 0>>), Amounts(p, S, n)
  PROVE  DrawnOK(p)'
<1>1. SameCall(p) /\ ~ Finished(p) /\ CallFacts(Call(p), at[p])
  BY SameCallStep, PlaceType DEF Enters, MayEnter
<1>2. ASSUME NEW s \in Parties \ {p}
      PROVE  drawn'[p][s] = Before(p).drawn[seed_of(p, s)]
                              \o (ForMasks(p, seed_of(p, s))'
                                    \o Marked(ForEnd(p, seed_of(p, s))', <<at[p], 0>>))
  <2> DEFINE d == seed_of(p, s)
             a == Before(p).drawn[d]
             masks == ForMasks(p, d)
             last == Marked(LastDraws(Call(p), d), <<at[p], 0>>)
             none == Marked(0, <<at[p], 0>>)
  <2>1. a \in Seq(Marks) /\ masks \in Seq(Marks)
        /\ (\A m \in Nat : Marked(m, <<at[p], 0>>) \in Seq(Marks))
        /\ drawn[p][s] = a \o (masks \o none)
    <3>1. ForEnd(p, d) = 0
      BY DEF ForEnd, Revealing, MayEnter
    <3>2. QED BY <1>1, <3>1, DrawnParts
  <2>2. last \in Seq(Marks)
    <3>1. LastDraws(Call(p), d) \in Nat
      BY <1>1, LastDrawsType
    <3>2. QED BY <2>1, <3>1
  <2>3. drawn'[p][s] = drawn[p][s] \o last
    BY DEF NextDrawn, Amounts
  <2>4. masks \o none = masks
    BY <2>1, MarkedNothing
  <2>5. ForMasks(p, d)' = masks
    BY <1>1 DEF ForMasks, Entered, SameCall, Masking
  <2>6. ForEnd(p, d)' = LastDraws(Call(p), d)
    <3>1. CASE Call(p).op = "trunc"
      BY <1>1, <3>1 DEF ForEnd, Entered, SameCall
    <3>2. CASE Call(p).op = "reveal"
      <4>1. LastDraws(Call(p), d) = 0
        BY <1>1, <3>2, DealtType DEF LastDraws
      <4>2. QED BY <1>1, <3>2, <4>1 DEF ForEnd, Entered, SameCall
    <3>3. QED BY <3>1, <3>2
  <2> HIDE DEF d, a, masks, last, none
  <2>7. drawn'[p][s] = a \o (masks \o last)
    <3>1. drawn'[p][s] = (a \o masks) \o last
      BY <2>1, <2>3, <2>4
    <3>2. a \in Seq(Marks) /\ masks \in Seq(Marks)
      BY <2>1
    <3>3. (a \o masks) \o last = a \o (masks \o last)
      BY <2>2, <3>2, ConcatAssoc
    <3>4. QED BY <3>1, <3>3
  <2>8. QED BY <2>5, <2>6, <2>7 DEF a, d, last
<1>3. QED BY <1>1, <1>2, DrawnNow

\* Masks that a party draws for the operand that it partitions next.
MaskDrawn(p, S) == NextDrawn(p, S, 1, <<at[p], Operand(p)>>)

LEMMA MaskedDrawn ==
  ASSUME Types, NEW p \in Parties, DrawnOK(p), ~ Finished(p), SameCall(p), NextOperand(p),
         stage[p] = "run", ~ Revealing(p, {"trunc"})',
         Masked(p)' = New(p) \cup {Operand(p)},
         NEW S, \A s \in Parties \ {p} : s \in S <=> seed_of(p, s)[1] = 0, MaskDrawn(p, S)
  PROVE  DrawnOK(p)'
<1>1. Masked(p) = New(p) /\ ~ Revealing(p, {"trunc"})
  BY DEF Masked, Revealing
<1>2. <<at[p], Operand(p)>> \in Marks
  BY PlaceType DEF NextOperand, Marks
<1>3. ASSUME NEW s \in Parties \ {p}
      PROVE  drawn'[p][s] = Before(p).drawn[seed_of(p, s)]
                              \o (ForMasks(p, seed_of(p, s))'
                                    \o Marked(ForEnd(p, seed_of(p, s))', <<at[p], 0>>))
  <2> DEFINE d == seed_of(p, s)
             a == Before(p).drawn[d]
             masks == ForMasks(p, d)
             more == Marked(IF s \in S THEN 1 ELSE 0, <<at[p], Operand(p)>>)
             none == Marked(0, <<at[p], 0>>)
  <2>1. a \in Seq(Marks) /\ masks \in Seq(Marks)
        /\ (\A m \in Nat : Marked(m, <<at[p], 0>>) \in Seq(Marks))
        /\ drawn[p][s] = a \o (masks \o none)
    <3>1. ForEnd(p, d) = 0
      BY <1>1 DEF ForEnd
    <3>2. QED BY <3>1, DrawnParts
  <2>2. more \in Seq(Marks)
    BY <1>2, MarkedType
  <2>3. drawn'[p][s] = drawn[p][s] \o more
    BY DEF MaskDrawn, NextDrawn
  <2>4. masks \o none = masks
    BY <2>1, MarkedNothing
  <2>5. ForMasks(p, d)' = masks \o more
    <3>1. CASE d[1] = 0
      <4>1. ForMasks(p, d)' = MaskDraws(at[p], Call(p), New(p) \cup {Operand(p)})
        BY <3>1 DEF ForMasks, SameCall
      <4>2. masks = MaskDraws(at[p], Call(p), New(p))
        BY <1>1, <3>1 DEF ForMasks
      <4>3. more = Marked(1, <<at[p], Operand(p)>>)
        BY <3>1
      <4>4. QED BY <4>1, <4>2, <4>3 DEF NextOperand
    <3>2. CASE d[1] # 0
      <4>1. ForMasks(p, d)' = <<>> /\ masks = <<>>
        BY <3>2 DEF ForMasks, SameCall
      <4>2. more = <<>>
        BY <3>2, MarkedNothing DEF Marked
      <4>3. <<>> \o <<>> = <<>>
        OBVIOUS
      <4>4. QED BY <4>1, <4>2, <4>3
    <3>3. QED BY <3>1, <3>2
  <2>6. ForEnd(p, d)' = 0
    BY DEF ForEnd
  <2> HIDE DEF d, a, masks, more, none
  <2>7. drawn'[p][s] = a \o (masks \o more)
    <3>1. drawn'[p][s] = (a \o masks) \o more
      BY <2>1, <2>3, <2>4
    <3>2. a \in Seq(Marks) /\ masks \in Seq(Marks)
      BY <2>1
    <3>3. (a \o masks) \o more = a \o (masks \o more)
      BY <2>2, <3>2, ConcatAssoc
    <3>4. QED BY <3>1, <3>3
  <2>8. (masks \o more) \o none = masks \o more
    <3>1. masks \o more \in Seq(Marks)
      BY <2>1, <2>2, ConcatLen
    <3>2. QED BY <3>1, MarkedNothing DEF none
  <2>9. QED BY <2>5, <2>6, <2>7, <2>8 DEF a, d, none
<1>4. QED BY <1>3, DrawnNow

-----------------------------------------------------------------------------
(***************************************************************************)
(* A party that has all the partitions of its call, or gets the next one.  *)
(***************************************************************************)

\* A party partitions all the operands of its call before it ends it.
LEMMA ReadyToEnd ==
  ASSUME Types, NEW p \in Parties, PlaceOK(p), ~ Finished(p),
         Call(p).op \in Masking => ~ Bare(p)
  PROVE  New(p) = Wanted(Call(p), Before(p).parted)
<1> DEFINE c == Call(p)
<1>1. New(p) \subseteq Wanted(c, Before(p).parted)
  BY DEF PlaceOK
<1>2. CASE c.op \notin Masking
  <2>1. Wanted(c, Before(p).parted) = {}
    BY <1>2 DEF Wanted, Masking
  <2>2. QED BY <1>1, <2>1
<1>3. CASE c.op \in Masking
  <2>1. CallFacts(c, at[p]) /\ DOMAIN result[p] = 1 .. at[p] - 1
    BY PlaceType, PlaceFacts
  <2>2. c.x \in 1 .. at[p] - 1 /\ (c.op = "mul" => c.y \in 1 .. at[p] - 1)
    BY <1>3, <2>1 DEF CallFacts, Masking
  <2>3. is_partitioned(X(p)) /\ (c.op = "mul" => is_partitioned(Y(p)))
    BY <1>3 DEF Bare
  <2>4. c.x \in Parted(p) /\ (c.op = "mul" => c.y \in Parted(p))
    BY <2>1, <2>2, <2>3 DEF Parted, X, Y
  <2>5. Wanted(c, Before(p).parted) \subseteq New(p)
    BY <2>4 DEF Wanted, New
  <2>6. QED BY <1>1, <2>5
<1>4. QED BY <1>2, <1>3

LEMMA NotEmpty ==
  ASSUME NEW v, Len(v) = 1
  PROVE  v # <<>>
<1>1. Len(<<>>) = 0
  OBVIOUS
<1>2. QED BY <1>1

LEMMA NewPartition ==
  ASSUME NEW t \in Sharetensors, NEW part \in Seq(Residues), NEW mask \in Seq(Residues),
         Len(part) = 1, Len(mask) = 1
  PROVE  /\ [share |-> t.share, x_r |-> part, r |-> mask] \in Sharetensors
         /\ [t EXCEPT !.x_r = part, !.r = mask] = [share |-> t.share, x_r |-> part, r |-> mask]
<1>1. t \in [share : Residues, x_r : Seq(Residues), r : Seq(Residues)]
  BY DEF Sharetensors
<1>2. t.share \in Residues
  BY <1>1
<1> DEFINE new == [share |-> t.share, x_r |-> part, r |-> mask]
<1>3. new \in [share : Residues, x_r : Seq(Residues), r : Seq(Residues)]
  BY <1>2
<1>4. new.x_r = part /\ new.r = mask
  OBVIOUS
<1>5. Len(new.x_r) = Len(new.r) /\ Len(new.r) <= 1
  <2> HIDE DEF new
  <2>1. Len(new.x_r) = 1 /\ Len(new.r) = 1
    BY <1>4
  <2>2. QED BY <2>1
<1>6. [t EXCEPT !.x_r = part, !.r = mask] = new
  <2>1. PICK s \in Residues, a \in Seq(Residues), b \in Seq(Residues) :
          t = [share |-> s, x_r |-> a, r |-> b]
    BY <1>1
  <2>2. t.share = s
    BY <2>1
  <2> DEFINE u == [t EXCEPT !.x_r = part]
  <2>3. [t EXCEPT !.x_r = part, !.r = mask] = [share |-> s, x_r |-> part, r |-> mask]
    <3>1. u = [share |-> s, x_r |-> part, r |-> b]
      BY <2>1
    <3> HIDE DEF u
    <3>2. [u EXCEPT !.r = mask] = [share |-> s, x_r |-> part, r |-> mask]
      BY <3>1
    <3>3. QED BY <3>2 DEF u
  <2>4. QED BY <2>2, <2>3
<1> HIDE DEF new
<1>7. new \in Sharetensors
  BY <1>3, <1>5 DEF Sharetensors
<1>8. QED BY <1>6, <1>7 DEF new

\* Party p gets the partition part, mask of the operand that is next.
Keeps(p, part, mask) ==
  /\ prog' = prog /\ at'[p] = at[p] /\ stage'[p] = "run"
  /\ result'[p] = [result[p] EXCEPT ![Operand(p)].x_r = part, ![Operand(p)].r = mask]

Kept(p) ==
  /\ PlaceOK(p)'
  /\ New(p)' = New(p) \cup {Operand(p)} /\ Masked(p)' = New(p) \cup {Operand(p)}
  /\ Had(p)' = Had(p) /\ Answers(p)' = Answers(p) + 1 /\ Reveals(p)' = Answers(p) + 1
  /\ \A ops : ~ Revealing(p, ops)'

\* A party keeps the partition of an operand.
LEMMA KeepsStep ==
  ASSUME Types, NEW p \in Parties, PlaceOK(p), ~ Finished(p), Call(p).op \in Masking, Bare(p),
         NEW part \in Seq(Residues), NEW mask \in Seq(Residues), Len(part) = 1, Len(mask) = 1,
         Keeps(p, part, mask)
  PROVE  Kept(p) /\ result'[p] \in Seq(Sharetensors)
<1> DEFINE k == Operand(p)
<1>1. SameCall(p) /\ stage'[p] = "run"
  BY SameCallStep DEF Keeps
<1>2. NextOperand(p)
  BY BareOperand
<1>3. /\ result[p] \in Seq(Sharetensors) /\ Len(result[p]) = at[p] - 1
      /\ DOMAIN result[p] = 1 .. at[p] - 1 /\ k \in 1 .. at[p] - 1
      /\ Before(p).parted \subseteq Parted(p)
      /\ at[p] \in Nat /\ CallFacts(Call(p), at[p]) /\ k \notin Parted(p)
  BY <1>2, PlaceFacts, PlaceType DEF NextOperand
<1>4. /\ result'[p] \in Seq(Sharetensors) /\ Len(result'[p]) = at[p] - 1
      /\ DOMAIN result'[p] = 1 .. at[p] - 1
      /\ result'[p][k].r = mask
      /\ \A i \in 1 .. at[p] - 1 : i # k => result'[p][i] = result[p][i]
  <2> DEFINE new == [share |-> result[p][k].share, x_r |-> part, r |-> mask]
  <2>1. result[p][k] \in Sharetensors
    BY <1>3
  <2>2. new \in Sharetensors
    BY <2>1, NewPartition
  <2>3. result'[p] = [result[p] EXCEPT ![k] = new]
    <3>1. [result[p][k] EXCEPT !.x_r = part, !.r = mask] = new
      BY <2>1, NewPartition
    <3>2. result'[p] = [result[p] EXCEPT ![k] = [[@ EXCEPT !.x_r = part] EXCEPT !.r = mask]]
      BY <1>3 DEF Keeps
    <3> HIDE DEF k
    <3>3. QED BY <1>3, <3>1, <3>2
  <2> HIDE DEF k, new
  <2>4. result'[p] \in Seq(Sharetensors) /\ Len(result'[p]) = at[p] - 1
    BY <1>3, <2>2, <2>3
  <2>5. result'[p][k] = new /\ \A i \in 1 .. at[p] - 1 : i # k => result'[p][i] = result[p][i]
    BY <1>3, <2>3
  <2>6. new.r = mask
    BY DEF new
  <2>7. DOMAIN result'[p] = 1 .. at[p] - 1
    BY <1>3, <2>3
  <2>8. QED BY <2>4, <2>5, <2>6, <2>7
<1>5. mask # <<>>
  BY NotEmpty
<1>6. Parted(p)' = Parted(p) \cup {k}
  <2>1. Parted(p)' = {i \in 1 .. at[p] - 1 : is_partitioned(result'[p][i])}
    BY <1>4 DEF Parted
  <2>2. Parted(p) = {i \in 1 .. at[p] - 1 : is_partitioned(result[p][i])}
    BY <1>3 DEF Parted
  <2>3. is_partitioned(result'[p][k])
    BY <1>4, <1>5 DEF is_partitioned
  <2> HIDE DEF k
  <2>4. QED BY <1>3, <1>4, <2>1, <2>2, <2>3
<1>7. New(p)' = New(p) \cup {k}
  BY <1>1, <1>3, <1>6 DEF New, SameCall
<1>8. \A ops : ~ Revealing(p, ops)'
  BY <1>1 DEF Revealing
<1>9. Masked(p)' = New(p) \cup {k}
  BY <1>7, <1>8 DEF Masked
<1>10. Had(p)' = Had(p)
  <2>1. ~ Revealing(p, {"trunc"})
    BY DEF Revealing, Masking
  <2>2. QED BY <1>1, <1>8, <2>1 DEF Had, SameCall
<1>11. Answers(p)' = Answers(p) + 1
  <2> DEFINE old == MaskDraws(at[p], Call(p), New(p))
             b == Before(p).reveals
  <2>1. old \in Seq(Marks) /\ Len(old) \in Nat /\ b \in Nat
    BY <1>3, MaskDrawsType, BeforeType
  <2>2. MaskDraws(at[p], Call(p), New(p) \cup {k}) = old \o Marked(1, <<at[p], k>>)
    BY <1>2 DEF NextOperand
  <2>3. Marked(1, <<at[p], k>>) \in Seq(Marks) /\ Len(Marked(1, <<at[p], k>>)) = 1
    <3>1. <<at[p], k>> \in Marks
      BY <1>3 DEF Marks
    <3>2. QED BY <3>1, MarkedType
  <2>4. Answers(p)' = b + Len(MaskDraws(at[p], Call(p), New(p) \cup {k}))
    BY <1>1, <1>7 DEF Answers, SameCall
  <2>5. Answers(p) = b + Len(old)
    BY DEF Answers
  <2> HIDE DEF old, k
  <2>6. Len(old \o Marked(1, <<at[p], k>>)) = Len(old) + 1
    BY <2>1, <2>3, ConcatLen
  <2> DEFINE new == MaskDraws(at[p], Call(p), New(p) \cup {k})
             m == Len(old)
  <2>7. Len(new) = m + 1 /\ m \in Nat
    BY <2>1, <2>2, <2>6
  <2> HIDE DEF b, new, m
  <2>8. QED BY <2>1, <2>4, <2>5, <2>7 DEF m, new
<1>12. Reveals(p)' = Answers(p) + 1
  <2>1. Answers(p) \in Nat
    BY CountTypes
  <2>2. QED BY <1>1, <1>11, <2>1 DEF Reveals
<1>13. PlaceOK(p)'
  <2>1. Len(result'[p]) = at'[p] - 1
    BY <1>1, <1>4 DEF SameCall
  <2>2. Before(p)'.parted \subseteq Parted(p)'
    BY <1>1, <1>3, <1>6 DEF SameCall
  <2>3. New(p)' \subseteq Wanted(Call(p)', Before(p)'.parted)
    <3>1. New(p) \subseteq Wanted(Call(p), Before(p).parted)
      BY DEF PlaceOK
    <3>2. QED BY <1>1, <1>2, <1>7, <3>1 DEF NextOperand, SameCall
  <2>4. Call(p)'.x \in Parted(p)'
    BY <1>1, <1>2, <1>6 DEF NextOperand, SameCall
  <2>5. QED BY <1>1, <2>1, <2>2, <2>3, <2>4 DEF PlaceOK, SameCall
<1>14. QED BY <1>4, <1>7, <1>8, <1>9, <1>10, <1>11, <1>12, <1>13 DEF Kept

\* A party that takes the revealed part has drawn what it has drawn.
LEMMA KeepsDrawn ==
  ASSUME Types, NEW p \in Parties, DrawnOK(p), ~ Finished(p), SameCall(p), Kept(p),
         stage[p] = "reveal", Call(p).op \in Masking, drawn' = drawn
  PROVE  DrawnOK(p)'
<1>1. Masked(p)' = Masked(p)
  BY DEF Masked, Revealing, Kept
<1>2. ~ Revealing(p, {"trunc"}) /\ ~ Revealing(p, {"trunc"})'
  BY DEF Revealing, Kept, Masking
<1>3. ASSUME NEW d PROVE DrawnSince(p, d)' = DrawnSince(p, d)
  BY <1>1, <1>2 DEF DrawnSince, SameCall
<1>4. QED BY <1>3 DEF DrawnOK, SameCall

-----------------------------------------------------------------------------
(***************************************************************************)
(* The links, when one party has gone on.                                  *)
(***************************************************************************)

\* Nothing has changed at the other parties.
Still(p) ==
  \A q \in Parties \ {p} :
    Had(q)' = Had(q) /\ Answers(q)' = Answers(q) /\ Reveals(q)' = Reveals(q)

LEMMA HelperFacts ==
  /\ \A q \in Helpers : q \in Parties /\ q # 0 /\ q # 1 /\ q \in Nat /\ q >= 2
  /\ \A q \in Parties : q = 0 \/ q = 1 \/ q \in Helpers
  /\ 0 \in Parties /\ 1 \in Parties /\ 0 # 1
<1>1. Parties = 0 .. N - 1 /\ N \in Nat /\ N >= 3
  BY PartyFacts
<1>2. \A q \in Helpers : q \in Parties /\ q # 0 /\ q # 1 /\ q \in Nat /\ q >= 2
  BY <1>1 DEF Helpers
<1>3. \A q \in Parties : q = 0 \/ q = 1 \/ q \in Helpers
  BY <1>1 DEF Helpers
<1>4. 0 \in Parties /\ 1 \in Parties
  BY <1>1
<1>5. QED BY <1>2, <1>3, <1>4

\* The values on a link are reduced, and there is a number of them.
Wires(w) ==
  /\ w \in [Links -> Seq(Residues)]
  /\ <<0, 1>> \in Links
  /\ \A q \in Helpers : <<q, 1>> \in Links /\ <<1, q>> \in Links
  /\ \A c \in Links : w[c] \in Seq(Residues) /\ Len(w[c]) \in Nat

LEMMA WiresType ==
  ASSUME Types
  PROVE  Wires(wire)
<1>1. wire \in [Links -> Seq(Residues)]
  BY DEF Types, TypeOK
<1>2. <<0, 1>> \in Links
  BY HelperFacts, LinkType
<1>3. \A q \in Helpers : <<q, 1>> \in Links /\ <<1, q>> \in Links
  BY HelperFacts, LinkType
<1>4. \A c \in Links : wire[c] \in Seq(Residues) /\ Len(wire[c]) \in Nat
  BY <1>1
<1>5. QED BY <1>1, <1>2, <1>3, <1>4 DEF Wires

\* Other links than c are as they were.
Beside(c) == \A d \in Links : d # c => wire'[d] = wire[d]

LEMMA SendStep ==
  ASSUME Types, NEW p \in Parties, NEW q \in Parties, p # q, NEW values \in Seq(Residues),
         SendTo(p, q, values)
  PROVE  /\ wire' \in [Links -> Seq(Residues)] /\ Beside(<<p, q>>)
         /\ Len(wire'[<<p, q>>]) = Len(wire[<<p, q>>]) + Len(values)
<1>1. <<p, q>> \in Links /\ wire \in [Links -> Seq(Residues)]
      /\ wire[<<p, q>>] \in Seq(Residues)
  BY LinkType
<1>2. wire' = [wire EXCEPT ![<<p, q>>] = wire[<<p, q>>] \o values]
  BY <1>1 DEF SendTo
<1> DEFINE c == <<p, q>>
<1> HIDE DEF c
<1>3. wire' = [wire EXCEPT ![c] = wire[c] \o values] /\ c \in Links /\ wire[c] \in Seq(Residues)
  BY <1>1, <1>2 DEF c
<1>4. wire[c] \o values \in Seq(Residues) /\ Len(wire[c] \o values) = Len(wire[c]) + Len(values)
  BY <1>3
<1>5. wire' \in [Links -> Seq(Residues)] /\ wire'[c] = wire[c] \o values
      /\ \A d \in Links : d # c => wire'[d] = wire[d]
  BY <1>1, <1>3, <1>4
<1>6. QED BY <1>4, <1>5 DEF Beside, c

LEMMA TakeStep ==
  ASSUME Types, NEW p \in Parties, NEW q \in Parties, p # q, NEW n \in Nat,
         Arrived(p, q, n), TakenFrom(p, q, n)
  PROVE  /\ wire' \in [Links -> Seq(Residues)] /\ Beside(<<p, q>>)
         /\ Len(wire'[<<p, q>>]) + n = Len(wire[<<p, q>>])
<1>1. <<p, q>> \in Links /\ wire \in [Links -> Seq(Residues)]
      /\ wire[<<p, q>>] \in Seq(Residues)
  BY LinkType
<1> DEFINE c == <<p, q>>
           rest == SubSeq(wire[c], n + 1, Len(wire[c]))
<1>2. wire' = [wire EXCEPT ![c] = rest] /\ Len(wire[c]) >= n
  BY <1>1 DEF TakenFrom, Arrived
<1>3. rest \in Seq(Residues) /\ Len(rest) + n = Len(wire[c])
  <2> HIDE DEF c
  <2>1. wire[c] \in Seq(Residues) /\ Len(wire[c]) >= n
    BY <1>1, <1>2 DEF c
  <2>2. QED BY <2>1
<1> HIDE DEF c, rest
<1>4. c \in Links
  BY <1>1 DEF c
<1>5. wire' \in [Links -> Seq(Residues)] /\ wire'[c] = rest
      /\ \A d \in Links : d # c => wire'[d] = wire[d]
  BY <1>1, <1>2, <1>3, <1>4
<1>6. QED BY <1>3, <1>5 DEF Beside, c

-----------------------------------------------------------------------------

LEMMA LinkNames ==
  ASSUME NEW a, NEW b, NEW c, NEW d
  PROVE  <<a, b>> = <<c, d>> <=> a = c /\ b = d
  OBVIOUS

\* A step that does not use the links.
LEMMA LinksStay ==
  ASSUME Types, LinksOK, NEW p \in Parties, Still(p), wire' = wire,
         p \in {0, 1} => Had(p)' = Had(p),
         p # 0 => Answers(p)' = Answers(p),
         p \in Helpers => Reveals(p)' = Reveals(p)
  PROVE  LinksOK'
<1>1. Had(0)' = Had(0) /\ Had(1)' = Had(1)
  BY HelperFacts DEF Still
<1>2. Answers(1)' = Answers(1)
      /\ \A q \in Helpers : Answers(q)' = Answers(q) /\ Reveals(q)' = Reveals(q)
  BY HelperFacts DEF Still
<1>3. QED BY <1>1, <1>2 DEF LinksOK

\* The dealer sends to the hub.
LEMMA LinksDealt ==
  ASSUME Types, LinksOK, Still(0), NEW values \in Seq(Residues), SendTo(0, 1, values),
         Had(0)' = Had(0) + Len(values)
  PROVE  LinksOK' /\ wire' \in [Links -> Seq(Residues)]
<1>1. wire' \in [Links -> Seq(Residues)] /\ Beside(<<0, 1>>)
      /\ Len(wire'[<<0, 1>>]) = Len(wire[<<0, 1>>]) + Len(values)
  BY HelperFacts, SendStep
<1>2. Had(1)' = Had(1) /\ Answers(1)' = Answers(1)
      /\ \A q \in Helpers : Answers(q)' = Answers(q) /\ Reveals(q)' = Reveals(q)
  BY HelperFacts DEF Still
<1>3. Wires(wire) /\ Had(0) \in Nat /\ Had(1) \in Nat
  BY WiresType, CountTypes, HelperFacts
<1>4. Len(wire'[<<0, 1>>]) + Had(1)' = Had(0)'
  <2> DEFINE a == Len(wire[<<0, 1>>])
             b == Len(wire'[<<0, 1>>])
             m == Len(values)
  <2>1. a \in Nat /\ m \in Nat /\ a + Had(1) = Had(0) /\ b = a + m
    BY <1>1, <1>3 DEF Wires, LinksOK
  <2> HIDE DEF a, b
  <2>2. QED BY <1>2, <1>3, <2>1 DEF b
<1>5. ASSUME NEW q \in Helpers
      PROVE  wire'[<<q, 1>>] = wire[<<q, 1>>] /\ wire'[<<1, q>>] = wire[<<1, q>>]
  BY <1>1, <1>3, HelperFacts, LinkNames DEF Beside, Wires
<1>6. ASSUME NEW c \in Links, ~ Used(c)
      PROVE  wire'[c] = <<>>
  BY <1>1, <1>6 DEF Beside, LinksOK, Used
<1>7. ASSUME NEW q \in Helpers
      PROVE  /\ Len(wire'[<<q, 1>>]) + Answers(1)' = Reveals(q)'
             /\ Len(wire'[<<1, q>>]) + Answers(q)' = Answers(1)'
  BY <1>2, <1>5 DEF LinksOK
<1>8. QED BY <1>1, <1>4, <1>6, <1>7 DEF LinksOK

\* The hub takes what the dealer has sent.
LEMMA LinksHad ==
  ASSUME Types, LinksOK, Still(1), NEW n \in Nat, Arrived(0, 1, n), TakenFrom(0, 1, n),
         Had(1)' = Had(1) + n, Answers(1)' = Answers(1)
  PROVE  LinksOK' /\ wire' \in [Links -> Seq(Residues)]
<1>1. wire' \in [Links -> Seq(Residues)] /\ Beside(<<0, 1>>)
      /\ Len(wire'[<<0, 1>>]) + n = Len(wire[<<0, 1>>])
  BY HelperFacts, TakeStep
<1>2. Had(0)' = Had(0)
      /\ \A q \in Helpers : Answers(q)' = Answers(q) /\ Reveals(q)' = Reveals(q)
  BY HelperFacts DEF Still
<1>3. Wires(wire) /\ Had(0) \in Nat /\ Had(1) \in Nat
  BY WiresType, CountTypes, HelperFacts
<1>4. Len(wire'[<<0, 1>>]) + Had(1)' = Had(0)'
  <2> DEFINE a == Len(wire[<<0, 1>>])
             b == Len(wire'[<<0, 1>>])
  <2>1. a \in Nat /\ b \in Nat /\ a + Had(1) = Had(0) /\ b + n = a
    <3>1. wire'[<<0, 1>>] \in Seq(Residues)
      BY <1>1, <1>3 DEF Wires
    <3>2. QED BY <1>1, <1>3, <3>1 DEF Wires, LinksOK
  <2> HIDE DEF a, b
  <2>2. b + (Had(1) + n) = Had(0)
    BY <1>3, <2>1
  <2>3. QED BY <1>2, <2>2 DEF b
<1>5. ASSUME NEW q \in Helpers
      PROVE  wire'[<<q, 1>>] = wire[<<q, 1>>] /\ wire'[<<1, q>>] = wire[<<1, q>>]
  BY <1>1, <1>3, HelperFacts, LinkNames DEF Beside, Wires
<1>6. ASSUME NEW c \in Links, ~ Used(c)
      PROVE  wire'[c] = <<>>
  BY <1>1, <1>6 DEF Beside, LinksOK, Used
<1>7. ASSUME NEW q \in Helpers
      PROVE  /\ Len(wire'[<<q, 1>>]) + Answers(1)' = Reveals(q)'
             /\ Len(wire'[<<1, q>>]) + Answers(q)' = Answers(1)'
  BY <1>2, <1>5 DEF LinksOK
<1>8. QED BY <1>1, <1>4, <1>6, <1>7 DEF LinksOK

\* A helper sends its value to the hub.
LEMMA LinksCalled ==
  ASSUME Types, LinksOK, NEW p \in Helpers, Still(p), NEW v \in Residues, SendTo(p, 1, <<v>>),
         Reveals(p)' = Reveals(p) + 1, Answers(p)' = Answers(p)
  PROVE  LinksOK' /\ wire' \in [Links -> Seq(Residues)]
<1>0. p \in Parties /\ p # 0 /\ p # 1 /\ 0 \in Parties /\ 1 \in Parties
  BY HelperFacts
<1>1. wire' \in [Links -> Seq(Residues)] /\ Beside(<<p, 1>>)
      /\ Len(wire'[<<p, 1>>]) = Len(wire[<<p, 1>>]) + 1
  <2>1. <<v>> \in Seq(Residues) /\ Len(<<v>>) = 1
    OBVIOUS
  <2>2. QED BY <1>0, <2>1, SendStep
<1>2. Had(0)' = Had(0) /\ Had(1)' = Had(1) /\ Answers(1)' = Answers(1)
      /\ \A q \in Helpers : Answers(q)' = Answers(q)
  BY <1>0, HelperFacts DEF Still
<1>3. Wires(wire) /\ \A q \in Parties : Answers(q) \in Nat /\ Reveals(q) \in Nat
  BY WiresType, CountTypes
<1>4. Len(wire'[<<0, 1>>]) + Had(1)' = Had(0)'
  BY <1>0, <1>1, <1>2, <1>3, LinkNames DEF Beside, Wires, LinksOK
<1>5. ASSUME NEW q \in Helpers
      PROVE  Len(wire'[<<q, 1>>]) + Answers(1)' = Reveals(q)'
  <2>1. CASE q = p
    <3> DEFINE a == Len(wire[<<p, 1>>])
               b == Len(wire'[<<p, 1>>])
    <3>1. a \in Nat /\ a + Answers(1) = Reveals(p) /\ b = a + 1
      BY <1>1, <1>3 DEF Wires, LinksOK
    <3> HIDE DEF a, b
    <3>2. b + Answers(1) = Reveals(p) + 1
      BY <1>0, <1>3, <3>1
    <3>3. QED BY <1>2, <2>1, <3>2 DEF b
  <2>2. CASE q # p
    <3>1. wire'[<<q, 1>>] = wire[<<q, 1>>]
      BY <1>1, <1>3, <2>2, LinkNames DEF Beside, Wires
    <3>2. Reveals(q)' = Reveals(q)
      BY <2>2, HelperFacts DEF Still
    <3>3. QED BY <1>2, <3>1, <3>2 DEF LinksOK
  <2>3. QED BY <2>1, <2>2
<1>6. ASSUME NEW q \in Helpers
      PROVE  Len(wire'[<<1, q>>]) + Answers(q)' = Answers(1)'
  <2>1. wire'[<<1, q>>] = wire[<<1, q>>]
    BY <1>0, <1>1, <1>3, LinkNames DEF Beside, Wires
  <2>2. QED BY <1>2, <2>1 DEF LinksOK
<1>7. ASSUME NEW c \in Links, ~ Used(c)
      PROVE  wire'[c] = <<>>
  BY <1>1, <1>7 DEF Beside, LinksOK, Used
<1>8. QED BY <1>1, <1>4, <1>5, <1>6, <1>7 DEF LinksOK

\* A helper takes the hub's sum.
LEMMA LinksAnswered ==
  ASSUME Types, LinksOK, NEW p \in Helpers, Still(p), Arrived(1, p, 1), TakenFrom(1, p, 1),
         Answers(p)' = Answers(p) + 1, Reveals(p)' = Reveals(p)
  PROVE  LinksOK' /\ wire' \in [Links -> Seq(Residues)]
<1>0. p \in Parties /\ p # 0 /\ p # 1 /\ 0 \in Parties /\ 1 \in Parties
  BY HelperFacts
<1>1. wire' \in [Links -> Seq(Residues)] /\ Beside(<<1, p>>)
      /\ Len(wire'[<<1, p>>]) + 1 = Len(wire[<<1, p>>])
  BY <1>0, TakeStep
<1>2. Had(0)' = Had(0) /\ Had(1)' = Had(1) /\ Answers(1)' = Answers(1)
      /\ \A q \in Helpers : Reveals(q)' = Reveals(q)
  BY <1>0, HelperFacts DEF Still
<1>3. Wires(wire) /\ \A q \in Parties : Answers(q) \in Nat /\ Reveals(q) \in Nat
  BY WiresType, CountTypes
<1>4. Len(wire'[<<0, 1>>]) + Had(1)' = Had(0)'
  BY <1>0, <1>1, <1>2, <1>3, LinkNames DEF Beside, Wires, LinksOK
<1>5. ASSUME NEW q \in Helpers
      PROVE  Len(wire'[<<1, q>>]) + Answers(q)' = Answers(1)'
  <2>1. CASE q = p
    <3> DEFINE a == Len(wire[<<1, p>>])
               b == Len(wire'[<<1, p>>])
    <3>1. a \in Nat /\ b \in Nat /\ a + Answers(p) = Answers(1) /\ b + 1 = a
      <4>1. wire'[<<1, p>>] \in Seq(Residues) /\ wire[<<1, p>>] \in Seq(Residues)
        BY <1>1, <1>3 DEF Wires
      <4>2. a + Answers(p) = Answers(1)
        BY DEF LinksOK
      <4>3. a \in Nat /\ b \in Nat
        BY <4>1
      <4>4. QED BY <1>1, <4>2, <4>3
    <3> HIDE DEF a, b
    <3>2. b + (Answers(p) + 1) = Answers(1)
      BY <1>0, <1>3, <3>1
    <3>3. QED BY <1>2, <2>1, <3>2 DEF b
  <2>2. CASE q # p
    <3>1. wire'[<<1, q>>] = wire[<<1, q>>]
      BY <1>1, <1>3, <2>2, LinkNames DEF Beside, Wires
    <3>2. Answers(q)' = Answers(q)
      BY <2>2, HelperFacts DEF Still
    <3>3. QED BY <1>2, <3>1, <3>2 DEF LinksOK
  <2>3. QED BY <2>1, <2>2
<1>6. ASSUME NEW q \in Helpers
      PROVE  Len(wire'[<<q, 1>>]) + Answers(1)' = Reveals(q)'
  <2>1. wire'[<<q, 1>>] = wire[<<q, 1>>]
    BY <1>0, <1>1, <1>3, HelperFacts, LinkNames DEF Beside, Wires
  <2>2. QED BY <1>2, <2>1 DEF LinksOK
<1>7. ASSUME NEW c \in Links, ~ Used(c)
      PROVE  wire'[c] = <<>>
  BY <1>1, <1>7 DEF Beside, LinksOK, Used
<1>8. QED BY <1>1, <1>4, <1>5, <1>6, <1>7 DEF LinksOK

LEMMA TailLen ==
  ASSUME NEW a \in Seq(Residues), Len(a) >= 1
  PROVE  Tail(a) \in Seq(Residues) /\ Len(Tail(a)) + 1 = Len(a)
  OBVIOUS

LEMMA AppendLen ==
  ASSUME NEW a \in Seq(Residues), NEW v \in Residues
  PROVE  Append(a, v) \in Seq(Residues) /\ Len(Append(a, v)) = Len(a) + 1
  OBVIOUS

\* The hub takes a value of every helper and sends each its sum.
HubWires(w, total) ==
  [c \in Links |->
     IF c[1] \in 2 .. N - 1 /\ c[2] = 1 THEN Tail(w[c])
     ELSE IF c[1] = 1 /\ c[2] \in 2 .. N - 1 THEN Append(w[c], total)
     ELSE w[c]]

\* The hub takes a value from every helper and gives each the sum.
LEMMA LinksSummed ==
  ASSUME Types, LinksOK, Still(1), NEW total \in Residues,
         \A q \in 2 .. N - 1 : Arrived(q, 1, 1), wire' = HubWires(wire, total),
         Had(1)' = Had(1), Answers(1)' = Answers(1) + 1
  PROVE  LinksOK' /\ wire' \in [Links -> Seq(Residues)]
<1>1. Wires(wire) /\ \A q \in Parties : Answers(q) \in Nat /\ Reveals(q) \in Nat
  BY WiresType, CountTypes
<1>2. Had(0)' = Had(0) /\ Had(1)' = Had(1) /\ Answers(1)' = Answers(1) + 1
      /\ \A q \in Helpers : Answers(q)' = Answers(q) /\ Reveals(q)' = Reveals(q)
  BY HelperFacts DEF Still
<1>3. ASSUME NEW q \in Helpers
      PROVE  wire'[<<q, 1>>] = Tail(wire[<<q, 1>>]) /\ Len(wire[<<q, 1>>]) >= 1
  BY <1>1, HelperFacts DEF Wires, HubWires, Arrived, Helpers
<1>4. ASSUME NEW q \in Helpers
      PROVE  wire'[<<1, q>>] = Append(wire[<<1, q>>], total)
  BY <1>1, HelperFacts DEF Wires, HubWires, Helpers
<1>5. wire'[<<0, 1>>] = wire[<<0, 1>>]
  <2>1. 0 \notin 2 .. N - 1 /\ <<0, 1>>[1] = 0
    OBVIOUS
  <2>2. QED BY <1>1, <2>1 DEF Wires, HubWires
<1>6. ASSUME NEW c \in Links, ~ Used(c)
      PROVE  wire'[c] = wire[c]
  <2>1. PICK a \in Parties, b \in Parties : c = <<a, b>>
    BY DEF Links
  <2>2. ~ (a \in 2 .. N - 1 /\ b = 1) /\ ~ (a = 1 /\ b \in 2 .. N - 1)
    BY <1>6, <2>1 DEF Used, Helpers
  <2>3. QED BY <2>1, <2>2 DEF HubWires
<1>7. \A c \in Links : wire'[c] \in Seq(Residues)
  <2>1. ASSUME NEW c \in Links PROVE wire'[c] \in Seq(Residues)
    <3>1. CASE \E q \in Helpers : c = <<q, 1>>
      BY <1>1, <1>3, <3>1, TailLen DEF Wires
    <3>2. CASE \E q \in Helpers : c = <<1, q>>
      BY <1>1, <1>4, <3>2, AppendLen DEF Wires
    <3>3. CASE c = <<0, 1>>
      BY <1>1, <1>5, <3>3 DEF Wires
    <3>4. CASE ~ Used(c)
      BY <1>1, <1>6, <3>4 DEF Wires
    <3>5. QED BY <3>1, <3>2, <3>3, <3>4 DEF Used
  <2>2. QED BY <2>1
<1>8. wire' \in [Links -> Seq(Residues)]
  BY <1>7 DEF HubWires
<1>9. ASSUME NEW q \in Helpers
      PROVE  Len(wire'[<<q, 1>>]) + Answers(1)' = Reveals(q)'
  <2> DEFINE a == Len(wire[<<q, 1>>])
             b == Len(wire'[<<q, 1>>])
  <2>1. wire[<<q, 1>>] \in Seq(Residues) /\ a \in Nat
    BY <1>1 DEF Wires
  <2>2. b + 1 = a
    BY <1>3, <2>1, TailLen
  <2>3. a + Answers(1) = Reveals(q) /\ Answers(1) \in Nat
    BY <1>1, HelperFacts DEF LinksOK
  <2>4. b \in Nat
    BY <1>7, <1>1 DEF Wires
  <2> HIDE DEF a, b
  <2>5. b + (Answers(1) + 1) = Reveals(q)
    BY <2>1, <2>2, <2>3, <2>4
  <2>6. QED BY <1>2, <2>5 DEF b
<1>10. ASSUME NEW q \in Helpers
       PROVE  Len(wire'[<<1, q>>]) + Answers(q)' = Answers(1)'
  <2> DEFINE a == Len(wire[<<1, q>>])
             b == Len(wire'[<<1, q>>])
  <2>1. wire[<<1, q>>] \in Seq(Residues) /\ a \in Nat
    BY <1>1 DEF Wires
  <2>2. b = a + 1
    BY <1>4, <2>1, AppendLen
  <2>3. a + Answers(q) = Answers(1) /\ Answers(1) \in Nat /\ Answers(q) \in Nat
    BY <1>1, HelperFacts DEF LinksOK
  <2> HIDE DEF a, b
  <2>4. b + Answers(q) = Answers(1) + 1
    BY <2>1, <2>2, <2>3
  <2>5. QED BY <1>2, <2>4 DEF b
<1>11. Len(wire'[<<0, 1>>]) + Had(1)' = Had(0)'
  BY <1>2, <1>5 DEF LinksOK
<1>12. \A c \in Links : ~ Used(c) => wire'[c] = <<>>
  BY <1>6 DEF LinksOK
<1>13. QED BY <1>8, <1>9, <1>10, <1>11, <1>12 DEF LinksOK

-----------------------------------------------------------------------------
(***************************************************************************)
(* The kinds of step.                                                      *)
(***************************************************************************)

\* The types of everything but the links.
PartTypes ==
  /\ prog \in Programs /\ tape \in Tapes
  /\ at \in [Parties -> 1 .. Len(prog) + 1]
  /\ stage \in [Parties -> {"run", "reveal"}]
  /\ result \in [Parties -> Seq(Sharetensors)]
  /\ held \in [Parties -> Seq(Residues)]
  /\ value \in [Parties -> Residues]
  /\ rng \in [Parties -> [running : Generators, prg_states : [Parties -> Generators]]]
  /\ drawn \in [Parties -> [Parties -> Seq(Marks)]]
  /\ out \in [Parties -> Seq([call : Nat, value : Residues])]

LEMMA TypesInParts == Types <=> PartTypes /\ wire \in [Links -> Seq(Residues)]
  BY DEF Types, TypeOK, PartTypes

\* A step of p alone that keeps what the invariant says of it.
Went(p) ==
  PartTypes' /\ Elsewhere(p) /\ PlaceOK(p)' /\ DrawnOK(p)' /\ RngOK(p, rng[p], drawn[p])'

LEMMA WentStill ==
  ASSUME IInv, NEW p \in Parties, Went(p)
  PROVE  Still(p)
<1>1. ASSUME NEW q \in Parties \ {p}
      PROVE  Had(q)' = Had(q) /\ Answers(q)' = Answers(q) /\ Reveals(q)' = Reveals(q)
  <2>1. PlaceOK(q) /\ DrawnOK(q) /\ RngOK(q, rng[q], drawn[q])
    BY DEF IInv
  <2>2. QED BY <2>1, ElsewhereSame DEF Went
<1>2. QED BY <1>1 DEF Still

\* A step of one party keeps the invariant, when it does for the party and the links.
LEMMA WentRight ==
  ASSUME IInv, NEW p \in Parties, Went(p), wire' \in [Links -> Seq(Residues)], LinksOK'
  PROVE  IInv'
<1>1. Types'
  BY DEF Went, Types, TypeOK, PartTypes
<1>2. ASSUME NEW q \in Parties
      PROVE  PlaceOK(q)' /\ DrawnOK(q)' /\ RngOK(q, rng[q], drawn[q])'
  <2>1. CASE q = p
    BY <2>1 DEF Went
  <2>2. CASE q # p
    <3>1. PlaceOK(q) /\ DrawnOK(q) /\ RngOK(q, rng[q], drawn[q])
      BY DEF IInv
    <3>2. QED BY <2>2, <3>1, ElsewhereSame DEF Went
  <2>3. QED BY <2>1, <2>2
<1>3. QED BY <1>1, <1>2 DEF IInv

LEMMA NextAt ==
  ASSUME Types, NEW p \in Parties, ~ Finished(p)
  PROVE  at[p] + 1 \in 1 .. Len(prog) + 1
  BY PlaceType

\* One party's part of a function.
LEMMA OneChanged ==
  ASSUME NEW S, NEW f \in [Parties -> S], NEW p \in Parties, NEW v \in S, NEW g,
         g = [f EXCEPT ![p] = v]
  PROVE  g \in [Parties -> S] /\ g[p] = v /\ \A q \in Parties \ {p} : g[q] = f[q]
  OBVIOUS

LEMMA AppendTensor ==
  ASSUME NEW a \in Seq(Sharetensors), NEW t \in Sharetensors
  PROVE  Append(a, t) \in Seq(Sharetensors)
  OBVIOUS

\* A party returns from a call that it has all partitions for.
LEMMA ReturnsWent ==
  ASSUME IInv, NEW p \in Parties, ~ Finished(p), stage[p] = "run",
         Call(p).op \in Masking => ~ Bare(p),
         NEW t \in Sharetensors, Returns(p, t),
         is_partitioned(t) <=> at[p] \in PartedAfter(at[p], Call(p), Before(p).parted),
         NEW S, NEW n, NextDrawn(p, S, n, <<at[p], 0>>), Amounts(p, S, n)
  PROVE  Went(p) /\ MovedOn(p)
<1>1. Types /\ PlaceOK(p) /\ DrawnOK(p) /\ PartTypes
  BY TypesInParts DEF IInv
<1>2. New(p) = Wanted(Call(p), Before(p).parted)
  BY <1>1, ReadyToEnd
<1>3. /\ prog' = prog /\ tape' = tape /\ stage' = stage /\ held' = held /\ value' = value /\ out' = out
      /\ at' = [at EXCEPT ![p] = at[p] + 1]
      /\ result' = [result EXCEPT ![p] = Append(result[p], t)]
  BY DEF Returns
<1>4. at' \in [Parties -> 1 .. Len(prog) + 1] /\ at'[p] = at[p] + 1
      /\ \A q \in Parties \ {p} : at'[q] = at[q]
  <2>1. at[p] + 1 \in 1 .. Len(prog) + 1 /\ at \in [Parties -> 1 .. Len(prog) + 1]
    BY <1>1, NextAt DEF PartTypes
  <2>2. QED BY <1>3, <2>1, OneChanged
<1>5. result' \in [Parties -> Seq(Sharetensors)] /\ result'[p] = Append(result[p], t)
      /\ \A q \in Parties \ {p} : result'[q] = result[q]
  <2>1. result \in [Parties -> Seq(Sharetensors)]
    BY <1>1 DEF PartTypes
  <2>2. Append(result[p], t) \in Seq(Sharetensors)
    BY <2>1, AppendTensor
  <2>3. QED BY <1>3, <2>1, <2>2, OneChanged
<1>6. Moves(p, t)
  BY <1>3, <1>4, <1>5 DEF Moves
<1>7. MovedOn(p)
  BY <1>1, <1>2, <1>6, MovesOn
<1>8. DrawnCall(p)
  BY <1>1, <1>2, ReturnsDrawn
<1>9. DrawnOK(p)'
  BY <1>1, <1>7, <1>8, DrawnMoved
<1>10. PartTypes'
  BY <1>1, <1>3, <1>4, <1>5 DEF PartTypes, NextDrawn
<1>11. Elsewhere(p)
  BY <1>3, <1>4, <1>5 DEF Elsewhere, NextDrawn
<1>12. RngOK(p, rng[p], drawn[p])'
  BY DEF NextDrawn
<1>13. PlaceOK(p)'
  BY <1>7 DEF MovedOn
<1>14. QED BY <1>7, <1>9, <1>10, <1>11, <1>12, <1>13 DEF Went

\* A party that enters reveal.
EntersParts(p, mask) ==
  /\ Enters(p, mask) /\ PartTypes' /\ Elsewhere(p) /\ RngOK(p, rng[p], drawn[p])'

LEMMA EnterParts ==
  ASSUME Types, NEW p \in Parties, NEW v \in Residues, NEW mask \in Seq(Residues),
         EnterReveal(p, v, mask), NEW S, NEW n, NEW what, NextDrawn(p, S, n, what)
  PROVE  EntersParts(p, mask)
<1>1. PartTypes
  BY TypesInParts
<1>2. /\ prog' = prog /\ tape' = tape /\ at' = at /\ result' = result /\ out' = out
      /\ value' = [value EXCEPT ![p] = v]
      /\ stage' = [stage EXCEPT ![p] = "reveal"]
      /\ held' = [held EXCEPT ![p] = mask]
  BY DEF EnterReveal
<1>3. value' \in [Parties -> Residues]
  BY <1>1, <1>2, OneChanged DEF PartTypes
<1>4. stage' \in [Parties -> {"run", "reveal"}] /\ stage'[p] = "reveal"
      /\ \A q \in Parties \ {p} : stage'[q] = stage[q]
  <2>1. "reveal" \in {"run", "reveal"} /\ stage \in [Parties -> {"run", "reveal"}]
    BY <1>1 DEF PartTypes
  <2>2. QED BY <1>2, <2>1, OneChanged
<1>5. held' \in [Parties -> Seq(Residues)] /\ held'[p] = mask
      /\ \A q \in Parties \ {p} : held'[q] = held[q]
  BY <1>1, <1>2, OneChanged DEF PartTypes
<1>6. PartTypes'
  BY <1>1, <1>2, <1>3, <1>4, <1>5 DEF PartTypes, NextDrawn
<1>7. Elsewhere(p)
  BY <1>2, <1>4, <1>5 DEF Elsewhere, NextDrawn
<1>8. Enters(p, mask)
  BY <1>2, <1>4, <1>5 DEF Enters
<1>9. QED BY <1>6, <1>7, <1>8 DEF EntersParts, NextDrawn

\* A party enters reveal for a result or for trunc.
LEMMA EntersWent ==
  ASSUME IInv, NEW p \in Parties, NEW v \in Residues, NEW mask \in Seq(Residues),
         EnterReveal(p, v, mask), MayEnter(p, mask), Call(p).op \in {"reveal", "trunc"},
         NEW S, NEW n, NextDrawn(p, S, n, <<at[p], 0>>), Amounts(p, S, n)
  PROVE  Went(p) /\ Entered(p)
<1>1. Types /\ PlaceOK(p) /\ DrawnOK(p)
  BY DEF IInv
<1>2. EntersParts(p, mask)
  BY <1>1, EnterParts
<1>3. Enters(p, mask)
  BY <1>2 DEF EntersParts
<1>4. Entered(p)
  BY <1>1, <1>3, EntersStep
<1>5. DrawnOK(p)'
  BY <1>1, <1>3, <1>4, EntersDrawn
<1>6. PlaceOK(p)'
  BY <1>4 DEF Entered
<1>7. QED BY <1>2, <1>4, <1>5, <1>6 DEF Went, EntersParts

\* A party enters reveal for the partition of an operand.
LEMMA EntersMasked ==
  ASSUME IInv, NEW p \in Parties, NEW v \in Residues, NEW mask \in Seq(Residues),
         EnterReveal(p, v, mask), MayEnter(p, mask), Call(p).op \in Masking,
         NEW S, \A s \in Parties \ {p} : s \in S <=> seed_of(p, s)[1] = 0, MaskDrawn(p, S)
  PROVE  Went(p) /\ Entered(p)
<1>1. Types /\ PlaceOK(p) /\ DrawnOK(p) /\ ~ Finished(p) /\ stage[p] = "run" /\ Bare(p)
  BY DEF IInv, MayEnter
<1>2. EntersParts(p, mask)
  <2>1. NextDrawn(p, S, 1, <<at[p], Operand(p)>>)
    BY DEF MaskDrawn
  <2>2. QED BY <1>1, <2>1, EnterParts
<1>3. Enters(p, mask) /\ SameCall(p)
  BY <1>2, SameCallStep DEF EntersParts, Enters
<1>4. Entered(p) /\ NextOperand(p)
  BY <1>1, <1>3, EntersStep, BareOperand
<1>5. ~ Revealing(p, {"trunc"})' /\ Masked(p)' = New(p) \cup {Operand(p)}
  BY <1>4 DEF Entered, Masking
<1>6. DrawnOK(p)'
  BY <1>1, <1>3, <1>4, <1>5, MaskedDrawn
<1>7. PlaceOK(p)'
  BY <1>4 DEF Entered
<1>8. QED BY <1>2, <1>4, <1>6, <1>7 DEF Went, EntersParts

\* The operands of a call.
LEMMA OperandTypes ==
  ASSUME Types, NEW p \in Parties, PlaceOK(p), ~ Finished(p)
  PROVE  /\ Call(p).op # "share_from" => X(p) \in Sharetensors
         /\ Call(p).op \in {"add", "sub", "mul"} => Y(p) \in Sharetensors
<1>1. CallFacts(Call(p), at[p]) /\ result[p] \in Seq(Sharetensors)
      /\ Len(result[p]) = at[p] - 1
  BY PlaceType, PlaceFacts
<1>2. \A k \in 1 .. Len(result[p]) : result[p][k] \in Sharetensors
  BY <1>1
<1>3. QED BY <1>1, <1>2 DEF CallFacts, X, Y

LEMMA AtMostOne ==
  ASSUME NEW v \in Seq(Residues), Len(v) <= 1, v # <<>>
  PROVE  Len(v) = 1
<1> DEFINE m == Len(v)
<1>1. m # 0 /\ m \in Nat /\ m <= 1
  OBVIOUS
<1> HIDE DEF m
<1>2. m = 1
  BY <1>1
<1>3. QED BY <1>2 DEF m

LEMMA TensorFacts ==
  ASSUME NEW t \in Sharetensors
  PROVE  /\ t.share \in Residues /\ t.x_r \in Seq(Residues) /\ t.r \in Seq(Residues)
         /\ t.share \in Int
         /\ t.x_r = <<>> <=> t.r = <<>>
         /\ is_partitioned(t) => /\ Len(t.x_r) = 1 /\ Len(t.r) = 1
                                /\ t.x_r[1] \in Residues /\ t.r[1] \in Residues
                                /\ t.x_r[1] \in Int /\ t.r[1] \in Int
<1>1. t \in [share : Residues, x_r : Seq(Residues), r : Seq(Residues)]
      /\ Len(t.x_r) = Len(t.r) /\ Len(t.r) <= 1
  BY DEF Sharetensors
<1>2. t.share \in Residues /\ t.x_r \in Seq(Residues) /\ t.r \in Seq(Residues)
  BY <1>1
<1>3. t.share \in Int
  BY <1>2, ResidueFacts
<1>4. t.x_r = <<>> <=> t.r = <<>>
  BY <1>1, <1>2
<1>5. ASSUME t.r # <<>>
      PROVE  Len(t.x_r) = 1 /\ Len(t.r) = 1
  <2>1. Len(t.r) = 1
    BY <1>1, <1>2, <1>5, AtMostOne
  <2>2. QED BY <1>1, <2>1
<1>6. ASSUME t.r # <<>>
      PROVE  t.x_r[1] \in Residues /\ t.r[1] \in Residues
  BY <1>2, <1>5, <1>6
<1>7. QED BY <1>2, <1>3, <1>4, <1>5, <1>6, ResidueFacts DEF is_partitioned

LEMMA PlainTensor ==
  ASSUME NEW v \in Residues
  PROVE  Sharetensor(v) \in Sharetensors /\ Sharetensor(v).r = <<>>
         /\ ~ is_partitioned(Sharetensor(v))
<1> DEFINE t == [share |-> v, x_r |-> <<>>, r |-> <<>>]
<1>1. t \in [share : Residues, x_r : Seq(Residues), r : Seq(Residues)]
  OBVIOUS
<1>2. Len(t.x_r) = 0 /\ Len(t.r) = 0 /\ t.r = <<>>
  OBVIOUS
<1> HIDE DEF t
<1>3. Len(t.x_r) = Len(t.r) /\ Len(t.r) <= 1
  BY <1>2
<1>4. t \in Sharetensors
  BY <1>1, <1>3 DEF Sharetensors
<1>5. QED BY <1>2, <1>4 DEF t, Sharetensor, is_partitioned

LEMMA LowType ==
  ASSUME NEW c \in Int
  PROVE  low(c) \in Nat
<1>1. TwoTo[F] \in Nat \ {0}
  <2>1. F \in Nat
    BY BitsAssumption
  <2>2. QED BY <2>1, TwoToType
<1>2. QED BY <1>1, ModType DEF low

\* What trunc leaves is a residue.
LEMMA TruncatedType ==
  ASSUME Types, NEW p \in Parties, PlaceOK(p), ~ Finished(p), Call(p).op = "trunc",
         held[p] \in Seq(Residues), Len(held[p]) = 1, NEW v \in Residues
  PROVE  Truncated(p, v) \in Residues
<1>1. X(p).share \in Int
  BY OperandTypes, TensorFacts
<1>2. held[p][1] \in Int
  BY ResidueFacts
<1> DEFINE a == add_mod(X(p).share, held[p][1])
           b == IF p = 1 THEN sub_mod(a, low(v)) ELSE a
<1>3. a \in Int
  BY <1>1, <1>2, ArithmeticTypes, ResidueFacts
<1>4. low(v) \in Int
  BY LowType, ResidueFacts
<1>5. b \in Int
  BY <1>3, <1>4, ArithmeticTypes, ResidueFacts
<1>6. InversePower \in Int
  <2>1. (Modulus + 1) \div 2 \in Int
    BY Sizes
  <2>2. F \in Nat
    BY BitsAssumption
  <2>3. QED BY <2>1, <2>2, PowType, ResidueFacts DEF InversePower
<1>7. Truncated(p, v) = mul_mod(b, InversePower)
  BY DEF Truncated
<1> HIDE DEF b
<1>8. QED BY <1>5, <1>6, <1>7, ArithmeticTypes

\* A party comes out of reveal, or the dealer gets its partition.
LEMMA LeavesWent ==
  ASSUME IInv, NEW p \in Parties, stage[p] = "reveal", NEW v \in Residues, LeaveReveal(p, v), NoDraw
  PROVE  /\ Went(p) /\ Had(p)' = Had(p) /\ Answers(p)' = Answers(p) + 1
         /\ Reveals(p)' = Reveals(p)
<1>1. Types /\ PlaceOK(p) /\ DrawnOK(p) /\ PartTypes /\ RngOK(p, rng[p], drawn[p])
  BY TypesInParts DEF IInv
<1>2. /\ ~ Finished(p) /\ Call(p).op \in {"reveal", "trunc"} \cup Masking
      /\ Call(p).op \in Masking => Bare(p)
      /\ Call(p).op # "reveal" => Len(held[p]) = 1
  BY <1>1 DEF PlaceOK
<1> DEFINE op == Call(p).op
           end == op \in {"reveal", "trunc"}
           t == Sharetensor(IF op = "reveal" THEN v ELSE Truncated(p, v))
           k == Operand(p)
           kept == [result[p] EXCEPT ![k].x_r = <<v>>, ![k].r = held[p]]
<1>3. /\ prog' = prog /\ tape' = tape /\ rng' = rng /\ drawn' = drawn
      /\ value' = [value EXCEPT ![p] = 0]
      /\ stage' = [stage EXCEPT ![p] = "run"]
      /\ held' = [held EXCEPT ![p] = <<>>]
      /\ out' = IF op = "reveal" THEN [out EXCEPT ![p] = Append(out[p], [call |-> at[p], value |-> v])]
                ELSE out
  BY DEF LeaveReveal, NoDraw
<1>4. /\ at' = IF end THEN [at EXCEPT ![p] = at[p] + 1] ELSE at
      /\ end => result' = [result EXCEPT ![p] = Append(result[p], t)]
      /\ ~ end => result' = [result EXCEPT ![p] = kept]
  <2>1. at' = IF end THEN [at EXCEPT ![p] = at[p] + 1] ELSE at
    BY DEF LeaveReveal
  <2>2. CASE op = "reveal"
    BY <2>1, <2>2 DEF LeaveReveal
  <2>3. CASE op = "trunc"
    BY <2>1, <2>3 DEF LeaveReveal
  <2>4. CASE op \notin {"reveal", "trunc"}
    BY <2>1, <2>4 DEF LeaveReveal
  <2>5. QED BY <2>2, <2>3, <2>4
<1>5. value' \in [Parties -> Residues]
  BY <1>1, <1>3, OneChanged, ResidueFacts DEF PartTypes
<1>6. stage' \in [Parties -> {"run", "reveal"}] /\ stage'[p] = "run"
      /\ \A q \in Parties \ {p} : stage'[q] = stage[q]
  <2>1. "run" \in {"run", "reveal"} /\ stage \in [Parties -> {"run", "reveal"}]
    BY <1>1 DEF PartTypes
  <2>2. QED BY <1>3, <2>1, OneChanged
<1>7. held' \in [Parties -> Seq(Residues)] /\ \A q \in Parties \ {p} : held'[q] = held[q]
  <2>1. <<>> \in Seq(Residues) /\ held \in [Parties -> Seq(Residues)]
    BY <1>1 DEF PartTypes
  <2>2. QED BY <1>3, <2>1, OneChanged
<1>8. out' \in [Parties -> Seq([call : Nat, value : Residues])]
  <2> DEFINE e == [call |-> at[p], value |-> v]
             Outs == [call : Nat, value : Residues]
  <2>1. e \in Outs /\ out \in [Parties -> Seq(Outs)]
    BY <1>1, PlaceType DEF PartTypes
  <2> HIDE DEF e, Outs
  <2>2. Append(out[p], e) \in Seq(Outs)
    BY <2>1
  <2>3. [out EXCEPT ![p] = Append(out[p], e)] \in [Parties -> Seq(Outs)]
    BY <2>1, <2>2
  <2>4. QED BY <1>3, <2>1, <2>3 DEF e, Outs
<1>9. at \in [Parties -> 1 .. Len(prog) + 1] /\ result \in [Parties -> Seq(Sharetensors)]
      /\ held[p] \in Seq(Residues)
  BY <1>1 DEF PartTypes
<1>10. ASSUME at' \in [Parties -> 1 .. Len(prog) + 1], result' \in [Parties -> Seq(Sharetensors)]
       PROVE  PartTypes'
  BY <1>1, <1>3, <1>5, <1>6, <1>7, <1>8, <1>10 DEF PartTypes
<1>11. ASSUME \A q \in Parties \ {p} : at'[q] = at[q] /\ result'[q] = result[q]
       PROVE  Elsewhere(p)
  BY <1>3, <1>6, <1>7, <1>11 DEF Elsewhere
<1>12. RngOK(p, rng[p], drawn[p])'
  BY <1>1, <1>3 DEF RngOK
<1>13. Answers(p) \in Nat /\ Reveals(p) = Answers(p) + 1
  BY <1>1, CountTypes DEF Reveals
<1>14. CASE end
  <2>1. New(p) = Wanted(Call(p), Before(p).parted)
    <3>1. op \notin Masking
      BY <1>14 DEF Masking
    <3>2. QED BY <1>1, <1>2, <3>1, ReadyToEnd
  <2>2. t \in Sharetensors /\ ~ is_partitioned(t)
    <3>1. CASE op = "reveal"
      BY <3>1, PlainTensor
    <3>2. CASE op = "trunc"
      <4>1. Truncated(p, v) \in Residues
        BY <1>1, <1>2, <1>9, <3>2, TruncatedType
      <4>2. QED BY <3>2, <4>1, PlainTensor
    <3>3. QED BY <1>14, <3>1, <3>2
  <2>3. at[p] \notin PartedAfter(at[p], Call(p), Before(p).parted)
    <3>1. Parted(p) \subseteq 1 .. at[p] - 1 /\ Parted(p) = Before(p).parted \cup New(p) /\ at[p] \in Nat
      BY <1>1, PlaceFacts, PlaceType
    <3>2. PartedAfter(at[p], Call(p), Before(p).parted) = Parted(p)
      BY <1>14, <2>1, <3>1 DEF PartedAfter
    <3>3. QED BY <3>1, <3>2
  <2>4. at' \in [Parties -> 1 .. Len(prog) + 1] /\ at'[p] = at[p] + 1
        /\ \A q \in Parties \ {p} : at'[q] = at[q]
    <3>1. at[p] + 1 \in 1 .. Len(prog) + 1
      BY <1>1, <1>2, NextAt
    <3>2. QED BY <1>4, <1>9, <1>14, <3>1, OneChanged
  <2>5. result' \in [Parties -> Seq(Sharetensors)] /\ result'[p] = Append(result[p], t)
        /\ \A q \in Parties \ {p} : result'[q] = result[q]
    <3>1. Append(result[p], t) \in Seq(Sharetensors)
      BY <1>9, <2>2, AppendTensor
    <3>2. result' = [result EXCEPT ![p] = Append(result[p], t)]
      BY <1>4, <1>14
    <3> HIDE DEF t
    <3>3. QED BY <1>9, <3>1, <3>2, OneChanged
  <2>6. Moves(p, t)
    BY <1>3, <1>6, <2>2, <2>3, <2>4, <2>5 DEF Moves
  <2>7. MovedOn(p)
    BY <1>1, <1>2, <2>1, <2>2, <2>6, MovesOn
  <2>8. DrawnCall(p)
    BY <1>1, <1>2, <1>3, <1>14, <2>1, RevealedDrawn
  <2>9. DrawnOK(p)' /\ PlaceOK(p)'
    BY <1>1, <1>2, <2>7, <2>8, DrawnMoved DEF MovedOn
  <2>10. Went(p)
    BY <1>10, <1>11, <1>12, <2>4, <2>5, <2>9 DEF Went
  <2>11. Answers(p)' = Answers(p) + 1
    BY <1>2, <1>14, <2>7 DEF MovedOn, Answers
  <2>12. Had(p)' = Had(p)
    <3>1. Before(p).dealt \in Nat /\ CallFacts(Call(p), at[p])
      BY <1>1, <1>2, BeforeType, PlaceType
    <3>2. Had(p)' = Before(p).dealt + Dealt(Call(p))
      BY <2>7 DEF MovedOn
    <3>3. CASE op = "trunc"
      BY <3>1, <3>2, <3>3, DealtType DEF Had, Revealing
    <3>4. CASE op = "reveal"
      BY <3>1, <3>2, <3>4, DealtType DEF Had, Revealing
    <3>5. QED BY <1>14, <3>3, <3>4
  <2>13. QED BY <1>13, <2>7, <2>10, <2>11, <2>12 DEF MovedOn
<1>15. CASE ~ end
  <2>1. op \in Masking /\ Bare(p) /\ Len(held[p]) = 1
    <3>1. op \notin {"reveal", "trunc"}
      BY <1>15
    <3>2. op \in Masking
      BY <1>2, <3>1
    <3>3. op # "reveal"
      BY <3>1
    <3>4. QED BY <1>2, <3>2, <3>3
  <2>2. <<v>> \in Seq(Residues) /\ Len(<<v>>) = 1
    OBVIOUS
  <2>3. at' = at /\ result'[p] = kept /\ \A q \in Parties \ {p} : result'[q] = result[q]
    BY <1>4, <1>9, <1>15
  <2>4. Keeps(p, <<v>>, held[p])
    BY <1>3, <1>6, <2>3 DEF Keeps
  <2>5. Kept(p) /\ result'[p] \in Seq(Sharetensors)
    BY <1>1, <1>2, <1>9, <2>1, <2>2, <2>4, KeepsStep
  <2>6. SameCall(p)
    BY <1>3, <2>3, SameCallStep
  <2>7. DrawnOK(p)'
    BY <1>1, <1>2, <1>3, <2>1, <2>5, <2>6, KeepsDrawn
  <2>8. result' \in [Parties -> Seq(Sharetensors)]
    <3> HIDE DEF kept
    <3>1. result' = [result EXCEPT ![p] = kept] /\ kept \in Seq(Sharetensors)
      BY <1>4, <1>15, <2>3, <2>5
    <3>2. QED BY <1>9, <3>1, OneChanged
  <2>9. Went(p)
    BY <1>9, <1>10, <1>11, <1>12, <1>3, <2>3, <2>5, <2>7, <2>8 DEF Went, Kept
  <2>10. QED BY <1>13, <2>5, <2>9 DEF Kept
<1>16. QED BY <1>14, <1>15

-----------------------------------------------------------------------------
(***************************************************************************)
(* How much is drawn at the end of a call.                                 *)
(***************************************************************************)

\* How much a call draws last from the stream of a pair.
LEMMA LastBetween ==
  ASSUME NEW p \in Parties, NEW s \in Parties \ {p}, NEW c
  PROVE  LastDraws(c, seed_of(p, s)) =
           IF p = 0 \/ s = 0 THEN (IF p \in Helpers \/ s \in Helpers THEN Dealt(c) ELSE 0)
           ELSE IF c.op = "share_from" /\ c.source \in {p, s} THEN 1 ELSE 0
<1> DEFINE d == seed_of(p, s)
<1>1. d = IF p < s THEN <<p, s>> ELSE <<s, p>>
  BY SeedFacts
<1>2. p \in Nat /\ s \in Nat /\ p # s
  BY PartyFacts
<1>3. {d[1], d[2]} = {p, s}
  BY <1>1
<1>4. d[1] = 0 <=> p = 0 \/ s = 0
  BY SeedOfDealer
<1>5. p = 0 => d[2] = s
  BY <1>1, <1>2
<1>6. s = 0 => d[2] = p
  BY <1>1, <1>2
<1> HIDE DEF d
<1>7. \A q \in Parties : q \in Helpers <=> q >= 2
  BY PartyFacts DEF Helpers
<1>8. p = 0 => ~ (p >= 2) /\ (s = 0 => ~ (s >= 2))
  BY <1>2
<1>9. CASE p = 0
  <2>1. LastDraws(c, d) = IF s >= 2 THEN Dealt(c) ELSE 0
    BY <1>4, <1>5, <1>9 DEF LastDraws
  <2>2. p \notin Helpers
    BY <1>9, HelperFacts
  <2>3. QED BY <1>7, <1>9, <2>1, <2>2 DEF d
<1>10. CASE s = 0
  <2>1. LastDraws(c, d) = IF p >= 2 THEN Dealt(c) ELSE 0
    BY <1>4, <1>6, <1>10 DEF LastDraws
  <2>2. s \notin Helpers
    BY <1>10, HelperFacts
  <2>3. QED BY <1>7, <1>10, <2>1, <2>2 DEF d
<1>11. CASE p # 0 /\ s # 0
  BY <1>3, <1>4, <1>11 DEF LastDraws, d
<1>12. QED BY <1>9, <1>10, <1>11

\* From whom a party draws what the dealer gives.
DealersStreams(p) == IF p = 0 THEN Helpers ELSE IF p = 1 THEN {} ELSE {0}

\* Numbers from the dealer: every helper draws them from its stream with the dealer.
LEMMA DealtAmounts ==
  ASSUME NEW p \in Parties, NEW n, Dealt(Call(p)) = n,
         Call(p).op = "share_from" => Call(p).source = 0
  PROVE  Amounts(p, DealersStreams(p), n)
<1>1. ASSUME NEW s \in Parties \ {p}
      PROVE  (IF s \in DealersStreams(p) THEN n ELSE 0) = LastDraws(Call(p), seed_of(p, s))
  <2>1. CASE p = 0
    BY <2>1, LastBetween, HelperFacts DEF DealersStreams
  <2>2. CASE p = 1
    BY <2>2, LastBetween, HelperFacts DEF DealersStreams
  <2>3. CASE p \in Helpers
    BY <2>3, LastBetween, HelperFacts DEF DealersStreams
  <2>4. QED BY <2>1, <2>2, <2>3, HelperFacts
<1>2. QED BY <1>1 DEF Amounts

LEMMA NoAmounts ==
  ASSUME Types, NEW p \in Parties, NEW n, ~ Finished(p),
         \/ Call(p).op \in {"add", "sub", "add_public", "mul_public", "reveal"}
         \/ p = 0 /\ Call(p).op = "share_from" /\ Call(p).source # 0
  PROVE  Amounts(p, {}, n)
<1>1. Dealt(Call(p)) = 0
  BY PlaceType, DealtType
<1>2. ASSUME NEW s \in Parties \ {p}
      PROVE  LastDraws(Call(p), seed_of(p, s)) = 0
  <2>1. p = 0 \/ Call(p).op # "share_from"
    OBVIOUS
  <2>2. QED BY <1>1, <2>1, LastBetween
<1>3. QED BY <1>2 DEF Amounts

\* A computing party shares: all others draw from their stream with it.
LEMMA SharedAmounts ==
  ASSUME Types, NEW p \in Computing, ~ Finished(p),
         Call(p).op = "share_from", Call(p).source # 0
  PROVE  /\ p = Call(p).source => Amounts(p, Computing \ {p}, 1)
         /\ p # Call(p).source => Amounts(p, {Call(p).source}, 1)
<1>0. p \in Parties /\ p # 0 /\ \A s \in Parties : s \in Computing <=> s # 0
  BY PartyFacts DEF Computing
<1>1. Dealt(Call(p)) = 0
  BY <1>0, PlaceType, DealtType
<1>2. ASSUME NEW s \in Parties \ {p}
      PROVE  LastDraws(Call(p), seed_of(p, s)) =
               IF s # 0 /\ Call(p).source \in {p, s} THEN 1 ELSE 0
  BY <1>0, <1>1, LastBetween
<1>3. QED BY <1>0, <1>2 DEF Amounts

-----------------------------------------------------------------------------
(***************************************************************************)
(* What the calls return.                                                  *)
(***************************************************************************)

\* A result has a partition if the plan says so.
Right(p, t) ==
  t \in Sharetensors /\ (is_partitioned(t) <=> at[p] \in PartedAfter(at[p], Call(p), Before(p).parted))

LEMMA PlainRight ==
  ASSUME Types, NEW p \in Parties, PlaceOK(p), ~ Finished(p),
         Call(p).op \notin {"add", "sub", "add_public", "mul_public"}, NEW v \in Residues
  PROVE  Right(p, Sharetensor(v))
<1>1. Parted(p) \subseteq 1 .. at[p] - 1 /\ Before(p).parted \subseteq Parted(p)
      /\ at[p] \in Nat /\ CallFacts(Call(p), at[p])
  BY PlaceFacts, PlaceType
<1>2. at[p] \notin 1 .. at[p] - 1
  BY <1>1
<1>3. Wanted(Call(p), Before(p).parted) \subseteq 1 .. at[p] - 1
  BY <1>1 DEF Wanted, CallFacts, Masking
<1>4. PartedAfter(at[p], Call(p), Before(p).parted)
        = Before(p).parted \cup Wanted(Call(p), Before(p).parted)
  BY DEF PartedAfter
<1>5. at[p] \notin PartedAfter(at[p], Call(p), Before(p).parted)
  BY <1>1, <1>2, <1>3, <1>4
<1>6. QED BY <1>5, PlainTensor DEF Right

\* The operands of a linear operation have a partition if the plan says so.
LEMMA LinearOperands ==
  ASSUME Types, NEW p \in Parties, PlaceOK(p), ~ Finished(p),
         Call(p).op \in {"add", "sub", "add_public", "mul_public"}
  PROVE  /\ at[p] \notin Before(p).parted
         /\ is_partitioned(X(p)) <=> Call(p).x \in Before(p).parted
         /\ Call(p).op \in {"add", "sub"} =>
              (is_partitioned(Y(p)) <=> Call(p).y \in Before(p).parted)
<1>1. /\ Parted(p) \subseteq 1 .. at[p] - 1 /\ Parted(p) = Before(p).parted \cup New(p)
      /\ at[p] \in Nat /\ CallFacts(Call(p), at[p]) /\ DOMAIN result[p] = 1 .. at[p] - 1
  BY PlaceFacts, PlaceType
<1>2. New(p) = {}
  <2>1. Call(p).op \notin Masking
    BY DEF Masking
  <2>2. New(p) = Wanted(Call(p), Before(p).parted)
    BY <2>1, ReadyToEnd
  <2>3. QED BY <2>1, <2>2 DEF Wanted, Masking
<1>3. at[p] \notin Before(p).parted
  BY <1>1
<1>4. \A k \in 1 .. at[p] - 1 : is_partitioned(result[p][k]) <=> k \in Before(p).parted
  BY <1>1, <1>2 DEF Parted
<1>5. QED BY <1>1, <1>3, <1>4 DEF CallFacts, X, Y

\* A tensor of numbers that need not be reduced.
Numbers(t) ==
  /\ t.share \in Int /\ t.x_r \in Seq(Int) /\ t.r \in Seq(Int)
  /\ Len(t.x_r) = Len(t.r) /\ Len(t.r) <= 1

LEMMA AddPartsType ==
  ASSUME NEW a \in Seq(Int), NEW b \in Seq(Int)
  PROVE  /\ AddParts(a, b) \in Seq(Residues)
         /\ Len(AddParts(a, b)) = IF a # <<>> /\ b # <<>> THEN 1 ELSE 0
         /\ AddParts(a, b) = <<>> <=> ~ (a # <<>> /\ b # <<>>)
<1>1. CASE a # <<>> /\ b # <<>>
  <2>1. a[1] \in Int /\ b[1] \in Int
    BY <1>1
  <2>2. add_mod(a[1], b[1]) \in Residues
    BY <2>1, ArithmeticTypes
  <2>3. AddParts(a, b) = <<add_mod(a[1], b[1])>>
    BY <1>1 DEF AddParts
  <2> DEFINE v == add_mod(a[1], b[1])
  <2> HIDE DEF v
  <2>4. <<v>> \in Seq(Residues) /\ Len(<<v>>) = 1 /\ <<v>> # <<>>
    BY <2>2 DEF v
  <2>5. QED BY <1>1, <2>3, <2>4 DEF v
<1>2. CASE ~ (a # <<>> /\ b # <<>>)
  <2>1. AddParts(a, b) = <<>>
    BY <1>2 DEF AddParts
  <2>2. <<>> \in Seq(Residues) /\ Len(<<>>) = 0
    OBVIOUS
  <2>3. QED BY <1>2, <2>1, <2>2
<1>3. QED BY <1>1, <1>2

LEMMA EmptyTogether ==
  ASSUME NEW a \in Seq(Int), NEW b \in Seq(Int), Len(a) = Len(b)
  PROVE  a = <<>> <=> b = <<>>
  OBVIOUS

LEMMA ThreeParts ==
  ASSUME NEW share \in Residues, NEW x_r \in Seq(Residues), NEW r \in Seq(Residues),
         Len(x_r) = Len(r), Len(r) <= 1
  PROVE  [share |-> share, x_r |-> x_r, r |-> r] \in Sharetensors
         /\ (is_partitioned([share |-> share, x_r |-> x_r, r |-> r]) <=> r # <<>>)
<1> DEFINE t == [share |-> share, x_r |-> x_r, r |-> r]
<1>1. t \in [share : Residues, x_r : Seq(Residues), r : Seq(Residues)]
      /\ t.x_r = x_r /\ t.r = r
  OBVIOUS
<1> HIDE DEF t
<1>2. Len(t.x_r) = Len(t.r) /\ Len(t.r) <= 1
  BY <1>1
<1>3. t \in Sharetensors
  BY <1>1, <1>2 DEF Sharetensors
<1>4. QED BY <1>1, <1>3 DEF t, is_partitioned

\* A sum has a partition if both its terms have one.
LEMMA SumType ==
  ASSUME NEW s, NEW t, Numbers(s), Numbers(t)
  PROVE  Sum(s, t) \in Sharetensors
         /\ (is_partitioned(Sum(s, t)) <=> is_partitioned(s) /\ is_partitioned(t))
<1>1. add_mod(s.share, t.share) \in Residues
  BY ArithmeticTypes DEF Numbers
<1>2. /\ s.x_r = <<>> <=> s.r = <<>>
      /\ t.x_r = <<>> <=> t.r = <<>>
  BY EmptyTogether DEF Numbers
<1>3. /\ AddParts(s.x_r, t.x_r) \in Seq(Residues) /\ AddParts(s.r, t.r) \in Seq(Residues)
      /\ Len(AddParts(s.x_r, t.x_r)) = IF s.x_r # <<>> /\ t.x_r # <<>> THEN 1 ELSE 0
      /\ Len(AddParts(s.r, t.r)) = IF s.r # <<>> /\ t.r # <<>> THEN 1 ELSE 0
      /\ AddParts(s.r, t.r) = <<>> <=> ~ (s.r # <<>> /\ t.r # <<>>)
  BY AddPartsType DEF Numbers
<1>4. Len(AddParts(s.x_r, t.x_r)) = Len(AddParts(s.r, t.r)) /\ Len(AddParts(s.r, t.r)) <= 1
  BY <1>2, <1>3
<1>5. QED BY <1>1, <1>3, <1>4, ThreeParts DEF Sum, is_partitioned

LEMMA TensorNumbers ==
  ASSUME NEW t \in Sharetensors
  PROVE  /\ Numbers(t) /\ Numbers(Negated(t))
         /\ is_partitioned(Negated(t)) <=> is_partitioned(t)
<1>1. /\ t.share \in Int /\ t.x_r \in Seq(Residues) /\ t.r \in Seq(Residues)
      /\ t.x_r = <<>> <=> t.r = <<>>
      /\ t.r # <<>> => Len(t.x_r) = 1 /\ Len(t.r) = 1 /\ t.x_r[1] \in Int /\ t.r[1] \in Int
  BY TensorFacts DEF is_partitioned
<1>2. \A v \in Seq(Residues) : v \in Seq(Int)
  <2>1. ASSUME NEW v \in Seq(Residues) PROVE v \in Seq(Int)
    <3>1. \A i \in 1 .. Len(v) : v[i] \in Residues
      OBVIOUS
    <3>2. \A i \in 1 .. Len(v) : v[i] \in Int
      BY <3>1, ResidueFacts
    <3>3. QED BY <3>2
  <2>2. QED BY <2>1
<1>3. Numbers(t)
  <2>1. Len(t.x_r) = Len(t.r) /\ Len(t.r) <= 1
    BY DEF Sharetensors
  <2>2. QED BY <1>1, <1>2, <2>1 DEF Numbers
<1> DEFINE n == Negated(t)
<1>4. n.share \in Int
  BY <1>1, ArithmeticTypes DEF Negated
<1>5. /\ n.x_r = IF t.r # <<>> THEN <<neg_mod(t.x_r[1])>> ELSE <<>>
      /\ n.r = IF t.r # <<>> THEN <<neg_mod(t.r[1])>> ELSE <<>>
  BY <1>1 DEF Negated
<1>6. t.r # <<>> => neg_mod(t.x_r[1]) \in Int /\ neg_mod(t.r[1]) \in Int
  <2>1. \A v \in Int : neg_mod(v) \in Nat
    BY ArithmeticTypes
  <2>2. \A v \in Int : neg_mod(v) \in Int
    BY <2>1
  <2>3. QED BY <1>1, <2>2
<1> HIDE DEF n
<1>7. \A v \in Int : <<v>> \in Seq(Int) /\ Len(<<v>>) = 1 /\ <<v>> # <<>>
  OBVIOUS
<1>8. <<>> \in Seq(Int) /\ Len(<<>>) = 0
  OBVIOUS
<1>9. n.x_r \in Seq(Int) /\ n.r \in Seq(Int) /\ Len(n.x_r) = Len(n.r) /\ Len(n.r) <= 1
      /\ (n.r # <<>> <=> t.r # <<>>)
  BY <1>5, <1>6, <1>7, <1>8
<1>10. QED BY <1>3, <1>4, <1>9 DEF Numbers, n, is_partitioned

-----------------------------------------------------------------------------
(***************************************************************************)
(* The actions keep the invariant.                                         *)
(***************************************************************************)

LEMMA MovedCounts ==
  ASSUME Types, NEW p \in Parties, MovedOn(p), ~ Finished(p), stage[p] = "run"
  PROVE  /\ Had(p)' = Had(p) + Dealt(Call(p))
         /\ Call(p).op \notin {"reveal", "trunc"} => Answers(p)' = Answers(p) /\ Reveals(p)' = Reveals(p)
<1>1. Before(p).dealt \in Nat /\ Dealt(Call(p)) \in Nat /\ Answers(p) \in Nat
  BY PlaceType, BeforeType, DealtType, CountTypes
<1>2. Had(p) = Before(p).dealt
  BY <1>1 DEF Had, Revealing
<1>3. Had(p)' = Had(p) + Dealt(Call(p))
  BY <1>2 DEF MovedOn
<1>4. Reveals(p) = Answers(p)
  BY <1>1 DEF Reveals
<1>5. ASSUME Call(p).op \notin {"reveal", "trunc"}
      PROVE  Answers(p)' = Answers(p)
  <2> DEFINE a == Before(p).reveals + Len(MaskDraws(at[p], Call(p), New(p)))
  <2>1. Answers(p) = a
    BY DEF Answers
  <2>2. Answers(p)' = a + 0
    BY <1>5 DEF MovedOn
  <2> HIDE DEF a
  <2>3. a \in Nat
    BY <1>1, <2>1
  <2>4. QED BY <2>1, <2>2, <2>3
<1>6. QED BY <1>3, <1>4, <1>5 DEF MovedOn

\* A party that returns without a message.
LEMMA QuietReturn ==
  ASSUME IInv, NEW p \in Parties, ~ Finished(p), stage[p] = "run",
         Call(p).op \in Masking => ~ Bare(p),
         p # 0 => Call(p).op \notin {"reveal", "trunc"},
         p \in {0, 1} => Dealt(Call(p)) = 0,
         NEW t, Right(p, t), Returns(p, t), wire' = wire,
         NEW S, NEW n, NextDrawn(p, S, n, <<at[p], 0>>), Amounts(p, S, n)
  PROVE  IInv'
<1>1. Types /\ LinksOK /\ wire \in [Links -> Seq(Residues)]
  BY TypesInParts DEF IInv
<1>2. Went(p) /\ MovedOn(p)
  BY ReturnsWent DEF Right
<1>3. /\ Had(p)' = Had(p) + Dealt(Call(p)) /\ Had(p) \in Nat
      /\ Call(p).op \notin {"reveal", "trunc"} => Answers(p)' = Answers(p) /\ Reveals(p)' = Reveals(p)
  BY <1>1, <1>2, MovedCounts, CountTypes
<1>4. Still(p)
  BY <1>2, WentStill
<1>5. LinksOK'
  <2>1. p \in {0, 1} => Had(p)' = Had(p)
    BY <1>3
  <2>2. p # 0 => Answers(p)' = Answers(p) /\ Reveals(p)' = Reveals(p)
    BY <1>3
  <2>3. p \in Helpers => Reveals(p)' = Reveals(p)
    BY <2>2, HelperFacts
  <2>4. QED BY <1>1, <1>4, <2>1, <2>2, <2>3, LinksStay
<1>6. QED BY <1>1, <1>2, <1>5, WentRight

\* share_from at the source.
LEMMA SharingOwn ==
  ASSUME IInv, NEW p \in Parties, ShareOwn(p)
  PROVE  IInv'
<1>1. Types /\ PlaceOK(p) /\ RngOK(p, rng[p], drawn[p])
  BY DEF IInv
<1>2. ~ Finished(p) /\ stage[p] = "run" /\ Call(p).op = "share_from"
      /\ Call(p).source = p /\ p # 0 /\ p \in Computing
  BY HelperFacts, PartyFacts DEF ShareOwn, Calls, Computing
<1>3. Call(p).data \in Residues /\ <<at[p], 0>> \in Marks
      /\ Dealt(Call(p)) = 0
  BY <1>1, <1>2, PlaceType, DealtType DEF CallFacts
<1>4. AsksFor(Ask(Others(p), 1), Computing \ {p}, 1)
  BY AskOthers
<1>5. NextDrawn(p, Computing \ {p}, 1, <<at[p], 0>>)
  BY <1>1, <1>3, <1>4, DrawingFrom DEF ShareOwn
<1>6. Amounts(p, Computing \ {p}, 1)
  BY <1>1, <1>2, SharedAmounts
<1>7. Right(p, Sharetensor(Blinded(p, Others(p))))
  BY <1>1, <1>2, <1>3, <1>4, BlindedType, PlainRight
<1>8. Returns(p, Sharetensor(Blinded(p, Others(p)))) /\ wire' = wire
  BY DEF ShareOwn
<1>9. Call(p).op \notin Masking
  BY <1>2 DEF Masking
<1>10. QED BY <1>2, <1>3, <1>5, <1>6, <1>7, <1>8, <1>9, QuietReturn

\* The dealer deals and returns.
LEMMA DealersReturn ==
  ASSUME IInv, ~ Finished(0), stage[0] = "run",
         Call(0).op \in Masking => ~ Bare(0),
         NEW values \in Seq(Residues), Len(values) = Dealt(Call(0)), SendTo(0, 1, values),
         NEW t, Right(0, t), Returns(0, t),
         Call(0).op = "share_from" => Call(0).source = 0,
         NextDrawn(0, Helpers, Dealt(Call(0)), <<at[0], 0>>)
  PROVE  IInv'
<1>1. Types /\ LinksOK /\ 0 \in Parties
  BY HelperFacts DEF IInv
<1>2. Amounts(0, Helpers, Dealt(Call(0)))
  BY <1>1, DealtAmounts DEF DealersStreams
<1>3. Went(0) /\ MovedOn(0)
  BY <1>1, <1>2, ReturnsWent DEF Right
<1>4. Had(0)' = Had(0) + Len(values)
  BY <1>1, <1>3, MovedCounts
<1>5. Still(0)
  BY <1>1, <1>3, WentStill
<1>6. LinksOK' /\ wire' \in [Links -> Seq(Residues)]
  BY <1>1, <1>4, <1>5, LinksDealt
<1>7. QED BY <1>1, <1>3, <1>6, WentRight

\* share_from at the dealer, the source.
LEMMA SharingDealers ==
  ASSUME IInv, NEW p \in Parties, ShareDealers(p)
  PROVE  IInv'
<1>1. Types /\ PlaceOK(p) /\ RngOK(p, rng[p], drawn[p])
  BY DEF IInv
<1>2. ~ Finished(p) /\ stage[p] = "run" /\ Call(p).op = "share_from"
      /\ Call(p).source = 0 /\ p = 0
  BY DEF ShareDealers, Calls
<1>3. Call(p).data \in Residues /\ <<at[p], 0>> \in Marks /\ Dealt(Call(p)) = 1
  BY <1>1, <1>2, PlaceType, DealtType DEF CallFacts
<1>4. AsksFor(Ask(NotHub, 1), Helpers, 1)
  BY AskNotHub DEF Helpers
<1>5. NextDrawn(p, Helpers, 1, <<at[p], 0>>)
  BY <1>1, <1>3, <1>4, DrawingFrom DEF ShareDealers
<1>6. Right(p, Sharetensor(0))
  BY <1>1, <1>2, PlainRight, ResidueFacts
<1>7. Blinded(p, NotHub) \in Residues
  BY <1>1, <1>3, <1>4, BlindedType
<1> DEFINE b == Blinded(p, NotHub)
<1>8. SendTo(0, 1, <<b>>) /\ Returns(p, Sharetensor(0))
  BY DEF ShareDealers
<1> HIDE DEF b
<1>9. <<b>> \in Seq(Residues) /\ Len(<<b>>) = 1
  BY <1>7 DEF b
<1>10. Call(p).op \notin Masking
  BY <1>2 DEF Masking
<1>11. QED BY <1>2, <1>3, <1>5, <1>6, <1>8, <1>9, <1>10, DealersReturn

\* The hub returns with what the dealer has sent.
LEMMA HubsReturn ==
  ASSUME IInv, ~ Finished(1), stage[1] = "run", Call(1).op \notin {"reveal", "trunc"},
         Call(1).op \in Masking => ~ Bare(1),
         Arrived(0, 1, Dealt(Call(1))), TakenFrom(0, 1, Dealt(Call(1))), NoDraw,
         NEW t, Right(1, t), Returns(1, t),
         Call(1).op = "share_from" => Call(1).source = 0
  PROVE  IInv'
<1>1. Types /\ LinksOK /\ 1 \in Parties /\ RngOK(1, rng[1], drawn[1])
  BY HelperFacts DEF IInv
<1>2. Amounts(1, {}, Dealt(Call(1)))
  BY <1>1, DealtAmounts DEF DealersStreams
<1>3. NextDrawn(1, {}, Dealt(Call(1)), <<at[1], 0>>)
  BY <1>1, NoDrawStep
<1>4. Went(1) /\ MovedOn(1)
  BY <1>1, <1>2, <1>3, ReturnsWent DEF Right
<1>5. Had(1)' = Had(1) + Dealt(Call(1)) /\ Answers(1)' = Answers(1) /\ Dealt(Call(1)) \in Nat
  BY <1>1, <1>4, MovedCounts, PlaceType, DealtType
<1>6. Still(1)
  BY <1>1, <1>4, WentStill
<1>7. LinksOK' /\ wire' \in [Links -> Seq(Residues)]
  BY <1>1, <1>5, <1>6, LinksHad
<1>8. QED BY <1>1, <1>4, <1>7, WentRight

\* share_from elsewhere.
LEMMA SharingOfOther ==
  ASSUME IInv, NEW p \in Parties, ShareOfOther(p)
  PROVE  IInv'
<1> DEFINE source == Call(p).source
<1>1. Types /\ PlaceOK(p) /\ RngOK(p, rng[p], drawn[p])
  BY DEF IInv
<1>2. ~ Finished(p) /\ stage[p] = "run" /\ Call(p).op = "share_from" /\ source # p
  BY DEF ShareOfOther, Calls
<1>3. source \in Parties /\ <<at[p], 0>> \in Marks
      /\ Dealt(Call(p)) = IF source = 0 THEN 1 ELSE 0
  BY <1>1, <1>2, PlaceType, DealtType DEF CallFacts
<1>4. Call(p).op \notin Masking /\ Call(p).op \notin {"reveal", "trunc"}
  BY <1>2 DEF Masking
<1>5. ASSUME NEW v \in Residues PROVE Right(p, Sharetensor(v))
  BY <1>1, <1>2, PlainRight
<1>6. CASE /\ p = 1 /\ source = 0
           /\ Arrived(0, 1, 1)
           /\ TakenFrom(0, 1, 1)
           /\ Returns(p, Sharetensor(First(0, 1, 1)[1]))
           /\ NoDraw
  <2>1. First(0, 1, 1)[1] \in Residues
    BY <1>1, <1>6, HelperFacts, FirstOfLink
  <2>2. Right(1, Sharetensor(First(0, 1, 1)[1]))
    BY <1>5, <1>6, <2>1
  <2>3. Dealt(Call(1)) = 1
    BY <1>3, <1>6
  <2>4. QED BY <1>2, <1>4, <1>6, <2>2, <2>3, HubsReturn
<1>7. CASE /\ p = 0
           /\ Returns(p, Sharetensor(0))
           /\ NoDraw /\ UNCHANGED wire
  <2>1. Right(p, Sharetensor(0))
    BY <1>5, ResidueFacts
  <2>2. Amounts(p, {}, 1) /\ NextDrawn(p, {}, 1, <<at[p], 0>>)
    BY <1>1, <1>2, <1>7, NoAmounts, NoDrawStep
  <2>3. Dealt(Call(p)) = 0
    BY <1>2, <1>3, <1>7
  <2>4. QED BY <1>2, <1>4, <1>7, <2>1, <2>2, <2>3, QuietReturn
<1>8. CASE /\ p # 0 /\ ~ (p = 1 /\ source = 0)
           /\ Drawing(p, Ask(<<source>>, 1), <<at[p], 0>>)
           /\ Returns(p, Sharetensor(Drawn(p, Ask(<<source>>, 1))[1][1]))
           /\ UNCHANGED wire
  <2>1. AsksFor(Ask(<<source>>, 1), {source}, 1)
    BY <1>3, AskOne
  <2>2. NextDrawn(p, {source}, 1, <<at[p], 0>>)
    BY <1>1, <1>3, <1>8, <2>1, DrawingFrom
  <2>3. Drawn(p, Ask(<<source>>, 1))[1][1] \in Residues
    BY <1>1, <1>3, OneDraw
  <2>4. Right(p, Sharetensor(Drawn(p, Ask(<<source>>, 1))[1][1]))
    BY <1>5, <2>3
  <2>5. Amounts(p, {source}, 1)
    <3>1. CASE source = 0
      BY <1>2, <1>3, <1>8, <3>1, DealtAmounts, HelperFacts DEF DealersStreams
    <3>2. CASE source # 0
      <4>1. p \in Computing
        BY <1>8, PartyFacts DEF Computing
      <4>2. QED BY <1>1, <1>2, <3>2, <4>1, SharedAmounts
    <3>3. QED BY <3>1, <3>2
  <2>6. p \in {0, 1} => Dealt(Call(p)) = 0
    BY <1>3, <1>8
  <2>7. QED BY <1>2, <1>4, <1>8, <2>2, <2>4, <2>5, <2>6, QuietReturn
<1>9. QED BY <1>6, <1>7, <1>8 DEF ShareOfOther

\* The linear operations.
LEMMA LinearReturn ==
  ASSUME IInv, NEW p \in Parties, ~ Finished(p), stage[p] = "run",
         Call(p).op \in {"add", "sub", "add_public", "mul_public"},
         NEW t, Right(p, t), Returns(p, t), wire' = wire, NoDraw
  PROVE  IInv'
<1>1. Types /\ RngOK(p, rng[p], drawn[p])
  BY DEF IInv
<1>2. NextDrawn(p, {}, 1, <<at[p], 0>>) /\ Amounts(p, {}, 1)
  BY <1>1, NoDrawStep, NoAmounts
<1>3. Dealt(Call(p)) = 0
  BY <1>1, PlaceType, DealtType
<1>4. Call(p).op \notin Masking /\ Call(p).op \notin {"reveal", "trunc"}
  BY DEF Masking
<1>5. QED BY <1>2, <1>3, <1>4, QuietReturn

LEMMA Adding ==
  ASSUME IInv, NEW p \in Parties, AddShares(p)
  PROVE  IInv'
<1>1. Types /\ PlaceOK(p) /\ ~ Finished(p) /\ stage[p] = "run" /\ Call(p).op = "add"
  BY DEF IInv, AddShares, Calls
<1>2. X(p) \in Sharetensors /\ Y(p) \in Sharetensors
  BY <1>1, OperandTypes
<1>3. Numbers(X(p)) /\ Numbers(Y(p))
  BY <1>2, TensorNumbers
<1>4. Sum(X(p), Y(p)) \in Sharetensors
      /\ (is_partitioned(Sum(X(p), Y(p))) <=> is_partitioned(X(p)) /\ is_partitioned(Y(p)))
  BY <1>3, SumType
<1>5. Right(p, Sum(X(p), Y(p)))
  <2>1. at[p] \in PartedAfter(at[p], Call(p), Before(p).parted)
          <=> {Call(p).x, Call(p).y} \subseteq Before(p).parted
    BY <1>1, LinearOperands DEF PartedAfter
  <2>2. QED BY <1>1, <1>4, <2>1, LinearOperands DEF Right
<1>6. QED BY <1>1, <1>5, LinearReturn DEF AddShares

LEMMA Subtracting ==
  ASSUME IInv, NEW p \in Parties, SubtractShares(p)
  PROVE  IInv'
<1>1. Types /\ PlaceOK(p) /\ ~ Finished(p) /\ stage[p] = "run" /\ Call(p).op = "sub"
  BY DEF IInv, SubtractShares, Calls
<1>2. X(p) \in Sharetensors /\ Y(p) \in Sharetensors
  BY <1>1, OperandTypes
<1> DEFINE n == Negated(Y(p))
<1>3. Numbers(X(p)) /\ Numbers(n) /\ (is_partitioned(n) <=> is_partitioned(Y(p)))
  BY <1>2, TensorNumbers
<1>4. Returns(p, Sum(X(p), n)) /\ wire' = wire /\ NoDraw
  BY DEF SubtractShares
<1> HIDE DEF n
<1>5. Sum(X(p), n) \in Sharetensors
      /\ (is_partitioned(Sum(X(p), n)) <=> is_partitioned(X(p)) /\ is_partitioned(Y(p)))
  BY <1>3, SumType
<1>6. Right(p, Sum(X(p), n))
  <2>1. at[p] \in PartedAfter(at[p], Call(p), Before(p).parted)
          <=> {Call(p).x, Call(p).y} \subseteq Before(p).parted
    BY <1>1, LinearOperands DEF PartedAfter
  <2>2. QED BY <1>1, <1>5, <2>1, LinearOperands DEF Right
<1>7. QED BY <1>1, <1>4, <1>6, LinearReturn

LEMMA AddingPublic ==
  ASSUME IInv, NEW p \in Parties, AddPublic(p)
  PROVE  IInv'
<1>1. Types /\ PlaceOK(p) /\ ~ Finished(p) /\ stage[p] = "run" /\ Call(p).op = "add_public"
  BY DEF IInv, AddPublic, Calls
<1> DEFINE x == X(p)
           a == Call(p).a
           x_r == IF is_partitioned(x) THEN <<add_mod(x.x_r[1], a)>> ELSE <<>>
           t == [share |-> add_public(p, x.share, a), x_r |-> x_r, r |-> x.r]
<1>2. x \in Sharetensors /\ a \in Residues /\ a \in Int
  BY <1>1, OperandTypes, PlaceType, ResidueFacts DEF CallFacts
<1>3. Returns(p, t) /\ wire' = wire /\ NoDraw
  BY DEF AddPublic
<1> HIDE DEF x, a
<1>4. /\ x.share \in Residues /\ x.share \in Int /\ x.r \in Seq(Residues)
      /\ is_partitioned(x) => x.x_r[1] \in Int /\ Len(x.r) = 1
      /\ is_partitioned(x) <=> x.r # <<>>
  BY <1>2, TensorFacts DEF is_partitioned
<1>5. add_public(p, x.share, a) \in Residues
  BY <1>2, <1>4, ArithmeticTypes DEF add_public
<1>6. x_r \in Seq(Residues) /\ Len(x_r) = Len(x.r) /\ Len(x.r) <= 1
  <2>1. CASE is_partitioned(x)
    <3> DEFINE v == add_mod(x.x_r[1], a)
    <3>1. v \in Residues
      BY <1>2, <1>4, <2>1, ArithmeticTypes
    <3> HIDE DEF v
    <3>2. <<v>> \in Seq(Residues) /\ Len(<<v>>) = 1
      BY <3>1
    <3>3. x_r = <<v>>
      BY <2>1 DEF v
    <3> HIDE DEF x_r
    <3>4. x_r \in Seq(Residues) /\ Len(x_r) = 1
      BY <3>2, <3>3
    <3>5. Len(x.r) = 1
      BY <1>4, <2>1
    <3>6. QED BY <3>4, <3>5
  <2>2. CASE ~ is_partitioned(x)
    <3>1. x_r = <<>> /\ x.r = <<>>
      BY <1>4, <2>2
    <3>2. <<>> \in Seq(Residues) /\ Len(<<>>) = 0
      OBVIOUS
    <3> HIDE DEF x_r
    <3>3. QED BY <3>1, <3>2
  <2>3. QED BY <2>1, <2>2
<1> HIDE DEF x_r
<1>7. t \in Sharetensors /\ (is_partitioned(t) <=> is_partitioned(x))
  BY <1>4, <1>5, <1>6, ThreeParts
<1> HIDE DEF t
<1>8. Right(p, t)
  <2>1. at[p] \in PartedAfter(at[p], Call(p), Before(p).parted) <=> Call(p).x \in Before(p).parted
    BY <1>1, LinearOperands DEF PartedAfter
  <2>2. QED BY <1>1, <1>7, <2>1, LinearOperands DEF Right, x
<1>9. QED BY <1>1, <1>3, <1>8, LinearReturn

LEMMA MultiplyingPublic ==
  ASSUME IInv, NEW p \in Parties, MultiplyPublic(p)
  PROVE  IInv'
<1>1. Types /\ PlaceOK(p) /\ ~ Finished(p) /\ stage[p] = "run" /\ Call(p).op = "mul_public"
  BY DEF IInv, MultiplyPublic, Calls
<1> DEFINE x == X(p)
           a == Call(p).a
           times(part) == IF is_partitioned(x) THEN <<mul_mod(part[1], a)>> ELSE part
           t == [share |-> mul_mod(x.share, a), x_r |-> times(x.x_r), r |-> times(x.r)]
<1>2. x \in Sharetensors /\ a \in Residues /\ a \in Int
  BY <1>1, OperandTypes, PlaceType, ResidueFacts DEF CallFacts
<1>3. Returns(p, t) /\ wire' = wire /\ NoDraw
  BY DEF MultiplyPublic
<1> HIDE DEF x, a
<1>4. /\ x.share \in Int /\ x.r \in Seq(Residues) /\ x.x_r \in Seq(Residues)
      /\ is_partitioned(x) => x.x_r[1] \in Int /\ x.r[1] \in Int
      /\ is_partitioned(x) <=> x.r # <<>>
      /\ x.x_r = <<>> <=> x.r = <<>>
  BY <1>2, TensorFacts DEF is_partitioned
<1>5. mul_mod(x.share, a) \in Residues
  BY <1>2, <1>4, ArithmeticTypes
<1>6. /\ times(x.x_r) \in Seq(Residues) /\ times(x.r) \in Seq(Residues)
      /\ Len(times(x.x_r)) = Len(times(x.r)) /\ Len(times(x.r)) <= 1
      /\ times(x.r) # <<>> <=> is_partitioned(x)
  <2>1. CASE is_partitioned(x)
    <3> DEFINE v == mul_mod(x.x_r[1], a)
               w == mul_mod(x.r[1], a)
    <3>1. v \in Residues /\ w \in Residues
      BY <1>2, <1>4, <2>1, ArithmeticTypes
    <3>2. times(x.x_r) = <<v>> /\ times(x.r) = <<w>>
      BY <2>1
    <3> HIDE DEF v, w, times
    <3>3. \A b \in Residues : <<b>> \in Seq(Residues) /\ Len(<<b>>) = 1 /\ <<b>> # <<>>
      OBVIOUS
    <3>4. QED BY <2>1, <3>1, <3>2, <3>3
  <2>2. CASE ~ is_partitioned(x)
    <3>1. times(x.x_r) = <<>> /\ times(x.r) = <<>>
      BY <1>4, <2>2
    <3>2. <<>> \in Seq(Residues) /\ Len(<<>>) = 0
      OBVIOUS
    <3> HIDE DEF times
    <3>3. QED BY <2>2, <3>1, <3>2
  <2>3. QED BY <2>1, <2>2
<1> HIDE DEF times
<1>7. t \in Sharetensors /\ (is_partitioned(t) <=> is_partitioned(x))
  BY <1>5, <1>6, ThreeParts
<1> HIDE DEF t
<1>8. Right(p, t)
  <2>1. at[p] \in PartedAfter(at[p], Call(p), Before(p).parted) <=> Call(p).x \in Before(p).parted
    BY <1>1, LinearOperands DEF PartedAfter
  <2>2. QED BY <1>1, <1>7, <2>1, LinearOperands DEF Right, x
<1>9. QED BY <1>1, <1>3, <1>8, LinearReturn

-----------------------------------------------------------------------------

\* A party sends its value, or is the hub.
LEMMA EnteredLinks ==
  ASSUME IInv, NEW p \in Computing, Went(p), Entered(p), Call(p).op # "trunc" \/ p # 1,
         NEW v \in Residues, RevealSends(p, v)
  PROVE  IInv'
<1>1. Types /\ LinksOK /\ p \in Parties /\ p # 0 /\ (p = 1 \/ p \in Helpers)
      /\ wire \in [Links -> Seq(Residues)]
  BY TypesInParts, PartyFacts, HelperFacts DEF IInv, Computing
<1>2. Still(p)
  BY <1>1, WentStill
<1>3. Answers(p)' = Answers(p) /\ Reveals(p)' = Reveals(p) + 1
      /\ Had(p)' = Had(p) + (IF Call(p).op = "trunc" THEN 2 ELSE 0) /\ Had(p) \in Nat
  BY <1>1, CountTypes DEF Entered
<1>4. CASE p = 1
  <2>1. wire' = wire /\ Had(p)' = Had(p) /\ p \notin Helpers
    BY <1>3, <1>4, HelperFacts DEF RevealSends
  <2>2. LinksOK'
    BY <1>1, <1>2, <1>3, <2>1, LinksStay
  <2>3. QED BY <1>1, <2>1, <2>2, WentRight
<1>5. CASE p # 1
  <2>1. SendTo(p, 1, <<v>>) /\ p \in Helpers
    BY <1>1, <1>5 DEF RevealSends
  <2>2. LinksOK' /\ wire' \in [Links -> Seq(Residues)]
    BY <1>1, <1>2, <1>3, <2>1, LinksCalled
  <2>3. QED BY <1>1, <2>2, WentRight
<1>6. QED BY <1>4, <1>5

\* reveal is called by the program.
LEMMA RevealingCall ==
  ASSUME IInv, NEW p \in Parties, RevealCall(p)
  PROVE  IInv'
<1>1. Types /\ PlaceOK(p) /\ RngOK(p, rng[p], drawn[p])
      /\ ~ Finished(p) /\ stage[p] = "run" /\ Call(p).op = "reveal"
  BY DEF IInv, RevealCall, Calls
<1> DEFINE v == X(p).share
<1>2. v \in Residues /\ Dealt(Call(p)) = 0
  BY <1>1, OperandTypes, TensorFacts, PlaceType, DealtType
<1>3. NextDrawn(p, {}, 1, <<at[p], 0>>) /\ Amounts(p, {}, 1)
  BY <1>1, NoDrawStep, NoAmounts DEF RevealCall
<1>4. Call(p).op \notin Masking
  BY <1>1 DEF Masking
<1>5. CASE p = 0
  <2>1. Returns(p, Sharetensor(v)) /\ wire' = wire
    BY <1>5 DEF RevealCall
  <2>2. Right(p, Sharetensor(v))
    BY <1>1, <1>2, PlainRight
  <2>3. QED BY <1>1, <1>2, <1>3, <1>4, <1>5, <2>1, <2>2, QuietReturn
<1>6. CASE p # 0
  <2>1. EnterReveal(p, v, <<>>) /\ RevealSends(p, v)
    BY <1>6 DEF RevealCall
  <2>2. MayEnter(p, <<>>)
    BY <1>1, <1>4, <1>6 DEF MayEnter
  <2>3. <<>> \in Seq(Residues)
    OBVIOUS
  <2> HIDE DEF v
  <2>4. Went(p) /\ Entered(p)
    BY <1>1, <1>2, <1>3, <2>1, <2>2, <2>3, EntersWent
  <2>5. p \in Computing
    BY <1>6, PartyFacts DEF Computing
  <2>6. QED BY <1>1, <1>2, <2>1, <2>4, <2>5, EnteredLinks
<1>7. QED BY <1>5, <1>6

LEMMA Concat ==
  ASSUME NEW a \in Seq(Int), NEW b \in Seq(Int)
  PROVE  a \o b \in Seq(Int) /\ Len(a \o b) = Len(a) + Len(b)
  OBVIOUS

\* The hub has all values of a reveal.
LEMMA Summing ==
  ASSUME IInv, NEW p \in Parties, HubSums(p)
  PROVE  IInv'
<1>1. Types /\ LinksOK /\ p = 1 /\ stage[1] = "reveal" /\ 1 \in Parties
      /\ \A q \in 2 .. N - 1 : Arrived(q, 1, 1)
  BY DEF IInv, HubSums
<1>2. HubTotal \in Residues
  <2> DEFINE firsts == [i \in 1 .. N - 2 |-> First(i + 1, 1, 1)[1]]
  <2>1. ASSUME NEW i \in 1 .. N - 2 PROVE First(i + 1, 1, 1)[1] \in Int
    <3>1. i + 1 \in 2 .. N - 1 /\ i + 1 \in Parties /\ i + 1 # 1
      BY PartyFacts
    <3>2. First(i + 1, 1, 1)[1] \in Residues
      BY <1>1, <3>1, FirstOfLink
    <3>3. QED BY <3>2, ResidueFacts
  <2>2. firsts \in Seq(Int)
    BY <2>1, PartyFacts
  <2>3. <<value[1]>> \in Seq(Int)
    <3>1. value[1] \in Int
      BY <1>1, ResidueFacts DEF Types, TypeOK
    <3>2. QED BY <3>1
  <2>4. HubTotal = SumMod(<<value[1]>> \o firsts)
    BY DEF HubTotal
  <2> HIDE DEF firsts
  <2>5. <<value[1]>> \o firsts \in Seq(Int)
    BY <2>2, <2>3, Concat
  <2>6. QED BY <2>4, <2>5, SumTypes
<1>3. wire' = HubWires(wire, HubTotal) /\ LeaveReveal(1, HubTotal) /\ NoDraw
  BY DEF HubSums, HubWires
<1>4. Went(1) /\ Had(1)' = Had(1) /\ Answers(1)' = Answers(1) + 1
  BY <1>1, <1>2, <1>3, LeavesWent
<1>5. Still(1)
  BY <1>1, <1>4, WentStill
<1>6. LinksOK' /\ wire' \in [Links -> Seq(Residues)]
  BY <1>1, <1>2, <1>3, <1>4, <1>5, LinksSummed
<1>7. QED BY <1>1, <1>4, <1>6, WentRight

\* A helper has its answer.
LEMMA TakingSum ==
  ASSUME IInv, NEW p \in Parties, TakeSum(p)
  PROVE  IInv'
<1>1. Types /\ LinksOK /\ stage[p] = "reveal" /\ Arrived(1, p, 1) /\ TakenFrom(1, p, 1)
      /\ LeaveReveal(p, First(1, p, 1)[1]) /\ NoDraw
  BY DEF IInv, TakeSum
<1>2. p \in Helpers /\ p # 1 /\ 1 \in Parties
  BY PartyFacts DEF TakeSum, Helpers
<1>3. First(1, p, 1)[1] \in Residues
  BY <1>1, <1>2, FirstOfLink
<1>4. Went(p) /\ Answers(p)' = Answers(p) + 1 /\ Reveals(p)' = Reveals(p)
  BY <1>1, <1>3, LeavesWent
<1>5. Still(p)
  BY <1>4, WentStill
<1>6. LinksOK' /\ wire' \in [Links -> Seq(Residues)]
  BY <1>1, <1>2, <1>4, <1>5, LinksAnswered
<1>7. QED BY <1>4, <1>6, WentRight

\* The dealer sums the masks of an operand.
LEMMA PartitioningDealer ==
  ASSUME IInv, NEW p \in Parties, PartitionDealer(p)
  PROVE  IInv'
<1> DEFINE k == Operand(p)
           r == <<SumMod(Firsts(Drawn(p, Ask(Others(p), 1))))>>
<1>1. Types /\ LinksOK /\ PlaceOK(p) /\ DrawnOK(p) /\ RngOK(p, rng[p], drawn[p]) /\ PartTypes
  BY TypesInParts DEF IInv
<1>2. p = 0 /\ ~ Finished(p) /\ stage[p] = "run" /\ Call(p).op \in Masking /\ Bare(p)
  BY DEF PartitionDealer, Partitions, Masking
<1>3. NextOperand(p) /\ k \in 1 .. at[p] - 1 /\ <<at[p], k>> \in Marks
  <2>1. NextOperand(p)
    BY <1>1, <1>2, BareOperand
  <2>2. k \in 1 .. at[p] - 1 /\ at[p] \in Nat
    BY <1>1, <2>1, PlaceType DEF NextOperand
  <2>3. QED BY <2>1, <2>2 DEF Marks
<1>4. AsksFor(Ask(Others(p), 1), Computing \ {p}, 1)
  BY AskOthers
<1>5. MaskDrawn(p, Computing \ {p})
  <2>1. Drawing(p, Ask(Others(p), 1), <<at[p], k>>)
    BY DEF PartitionDealer
  <2> HIDE DEF k
  <2>2. NextDrawn(p, Computing \ {p}, 1, <<at[p], k>>)
    BY <1>1, <1>3, <1>4, <2>1, DrawingFrom
  <2>3. QED BY <2>2 DEF MaskDrawn, k
<1>6. <<0>> \in Seq(Residues) /\ r \in Seq(Residues) /\ Len(<<0>>) = 1 /\ Len(r) = 1
  <2> DEFINE v == SumMod(Firsts(Drawn(p, Ask(Others(p), 1))))
  <2>1. v \in Residues
    BY <1>1, <1>4, FirstsOf, SumTypes
  <2> HIDE DEF v
  <2>2. <<v>> \in Seq(Residues) /\ Len(<<v>>) = 1 /\ <<0>> \in Seq(Residues) /\ Len(<<0>>) = 1
    BY <2>1, ResidueFacts
  <2>3. QED BY <2>2 DEF v
<1>7. /\ prog' = prog /\ tape' = tape /\ at' = at /\ stage' = stage /\ held' = held
      /\ value' = value /\ out' = out /\ wire' = wire
      /\ result' = [result EXCEPT ![p][k].x_r = <<0>>, ![p][k].r = r]
  BY DEF PartitionDealer
<1> HIDE DEF k, r
<1>8. result \in [Parties -> Seq(Sharetensors)]
  BY <1>1 DEF PartTypes
<1> DEFINE u == [result EXCEPT ![p][k].x_r = <<0>>]
<1>9. u[p] = [result[p] EXCEPT ![k].x_r = <<0>>] /\ (\A q \in Parties \ {p} : u[q] = result[q])
      /\ DOMAIN u = Parties
  BY <1>8
<1>10. result' = [u EXCEPT ![p][k].r = r]
  BY <1>7
<1> HIDE DEF u
<1>11. result'[p] = [u[p] EXCEPT ![k].r = r] /\ (\A q \in Parties \ {p} : result'[q] = u[q])
       /\ DOMAIN result' = Parties /\ result' = [q \in Parties |-> result'[q]]
  BY <1>9, <1>10
<1>12. Keeps(p, <<0>>, r)
  BY <1>2, <1>7, <1>9, <1>11 DEF Keeps, k
<1>13. Kept(p) /\ result'[p] \in Seq(Sharetensors)
  BY <1>1, <1>2, <1>6, <1>12, KeepsStep
<1>14. result' \in [Parties -> Seq(Sharetensors)] /\ \A q \in Parties \ {p} : result'[q] = result[q]
  <2>1. \A q \in Parties \ {p} : result'[q] = result[q]
    BY <1>9, <1>11
  <2>2. \A q \in Parties : result'[q] \in Seq(Sharetensors)
    BY <1>8, <1>13, <2>1
  <2>3. QED BY <1>11, <2>1, <2>2
<1>15. DrawnOK(p)'
  <2>1. SameCall(p)
    BY <1>7, SameCallStep
  <2>2. \A s \in Parties \ {p} : s \in Computing \ {p} <=> seed_of(p, s)[1] = 0
    BY <1>2, SeedOfDealer, PartyFacts DEF Computing
  <2>3. ~ Revealing(p, {"trunc"})' /\ Masked(p)' = New(p) \cup {Operand(p)}
    BY <1>13 DEF Kept
  <2>4. QED BY <1>1, <1>2, <1>3, <1>5, <2>1, <2>2, <2>3, MaskedDrawn
<1>16. PartTypes'
  BY <1>1, <1>5, <1>7, <1>14 DEF PartTypes, MaskDrawn, NextDrawn
<1>17. Elsewhere(p) /\ RngOK(p, rng[p], drawn[p])'
  BY <1>5, <1>7, <1>14 DEF Elsewhere, MaskDrawn, NextDrawn
<1>18. Went(p)
  BY <1>13, <1>15, <1>16, <1>17 DEF Went, Kept
<1>19. Still(p)
  BY <1>18, WentStill
<1>20. LinksOK'
  BY <1>1, <1>2, <1>7, <1>13, <1>19, LinksStay, HelperFacts DEF Kept
<1>21. wire' \in [Links -> Seq(Residues)]
  BY <1>1, <1>7, TypesInParts
<1>22. QED BY <1>18, <1>20, <1>21, WentRight

\* A computing party masks an operand and reveals it.
LEMMA Partitioning ==
  ASSUME IInv, NEW p \in Parties, Partition(p)
  PROVE  IInv'
<1> DEFINE k == Operand(p)
           mask == Drawn(p, Ask(<<0>>, 1))[1][1]
           v == sub_mod(result[p][k].share, mask)
<1>1. Types /\ LinksOK /\ PlaceOK(p) /\ RngOK(p, rng[p], drawn[p])
  BY DEF IInv
<1>2. p # 0 /\ ~ Finished(p) /\ stage[p] = "run" /\ Call(p).op \in Masking /\ Bare(p)
  BY DEF Partition, Partitions, Masking
<1>3. k \in 1 .. at[p] - 1 /\ <<at[p], k>> \in Marks
  <2>1. NextOperand(p)
    BY <1>1, <1>2, BareOperand
  <2>2. k \in 1 .. at[p] - 1 /\ at[p] \in Nat
    BY <1>1, <2>1, PlaceType DEF NextOperand
  <2>3. QED BY <2>2 DEF Marks
<1>4. mask \in Residues
  BY <1>1, PartyFacts, OneDraw
<1>5. v \in Residues
  <2>1. result[p] \in Seq(Sharetensors) /\ Len(result[p]) = at[p] - 1
    BY <1>1, PlaceFacts
  <2> HIDE DEF k
  <2>2. result[p][k] \in Sharetensors
    BY <1>3, <2>1
  <2>3. result[p][k].share \in Int /\ mask \in Int
    BY <1>4, <2>2, TensorFacts, ResidueFacts
  <2>4. QED BY <2>3, ArithmeticTypes
<1>6. /\ Drawing(p, Ask(<<0>>, 1), <<at[p], k>>)
      /\ EnterReveal(p, v, <<mask>>) /\ RevealSends(p, v)
  BY DEF Partition
<1>7. MaskDrawn(p, {0})
  <2>1. AsksFor(Ask(<<0>>, 1), {0}, 1)
    BY AskOne, PartyFacts
  <2> HIDE DEF k
  <2>2. NextDrawn(p, {0}, 1, <<at[p], k>>)
    BY <1>1, <1>3, <1>6, <2>1, DrawingFrom
  <2>3. QED BY <2>2 DEF MaskDrawn, k
<1> HIDE DEF mask, v
<1>8. <<mask>> \in Seq(Residues) /\ Len(<<mask>>) = 1
  BY <1>4
<1>9. MayEnter(p, <<mask>>)
  BY <1>2, <1>8 DEF MayEnter
<1>10. \A s \in Parties \ {p} : s \in {0} <=> seed_of(p, s)[1] = 0
  BY <1>2, SeedOfDealer
<1>11. Went(p) /\ Entered(p)
  BY <1>2, <1>5, <1>6, <1>7, <1>8, <1>9, <1>10, EntersMasked
<1>12. p \in Computing
  BY <1>2, PartyFacts DEF Computing
<1>13. Call(p).op # "trunc"
  BY <1>2 DEF Masking
<1>14. QED BY <1>5, <1>6, <1>11, <1>12, <1>13, EnteredLinks

-----------------------------------------------------------------------------

\* A computing party returns with what the dealer gives it.
LEMMA DealtReturn ==
  ASSUME IInv, NEW p \in Computing, ~ Finished(p), stage[p] = "run", Call(p).op \in Masking,
         ~ Bare(p), TakeDealt(p, Dealt(Call(p))), NEW t, Right(p, t), Returns(p, t)
  PROVE  IInv'
<1>1. Types /\ RngOK(p, rng[p], drawn[p]) /\ p \in Parties /\ p # 0 /\ (p = 1 \/ p \in Helpers)
  BY PartyFacts, HelperFacts DEF IInv, Computing
<1>2. Call(p).op \notin {"reveal", "trunc", "share_from"}
  BY DEF Masking
<1>3. Dealt(Call(p)) \in Nat /\ <<at[p], 0>> \in Marks
  BY <1>1, PlaceType, DealtType
<1>4. CASE p = 1
  BY <1>1, <1>2, <1>4, HubsReturn DEF TakeDealt
<1>5. CASE p # 1
  <2> DEFINE n == Dealt(Call(p))
  <2>1. Drawing(p, Ask(<<0>>, n), <<at[p], 0>>) /\ wire' = wire
    BY <1>5 DEF TakeDealt
  <2> HIDE DEF n
  <2>2. AsksFor(Ask(<<0>>, n), {0}, n)
    BY <1>3, AskOne, PartyFacts DEF n
  <2>3. NextDrawn(p, {0}, n, <<at[p], 0>>)
    BY <1>1, <1>3, <2>1, <2>2, DrawingFrom
  <2>4. Amounts(p, {0}, n)
    BY <1>1, <1>2, <1>5, DealtAmounts DEF DealersStreams, n
  <2>5. p \notin {0, 1}
    BY <1>1, <1>5
  <2>6. QED BY <1>1, <1>2, <2>1, <2>3, <2>4, <2>5, QuietReturn
<1>6. QED BY <1>4, <1>5

\* The operands of a multiplication that may go on.
LEMMA ReadyOperands ==
  ASSUME Types, NEW p \in Parties, PlaceOK(p), ~ Finished(p), Call(p).op \in Masking, ~ Bare(p)
  PROVE  /\ X(p) \in Sharetensors /\ is_partitioned(X(p))
         /\ X(p).x_r[1] \in Int /\ X(p).r[1] \in Int /\ Len(X(p).r) = 1
         /\ X(p).r \in Seq(Residues)
         /\ Call(p).op = "mul" => Y(p).x_r[1] \in Int /\ Y(p).r[1] \in Int
<1>1. X(p) \in Sharetensors /\ (Call(p).op = "mul" => Y(p) \in Sharetensors)
  BY OperandTypes DEF Masking
<1>2. is_partitioned(X(p)) /\ (Call(p).op = "mul" => is_partitioned(Y(p)))
  BY DEF Bare
<1>3. QED BY <1>1, <1>2, TensorFacts

LEMMA BeaverType ==
  ASSUME NEW p, NEW x, NEW y, x.x_r[1] \in Int, x.r[1] \in Int, y.x_r[1] \in Int, y.r[1] \in Int
  PROVE  beaver_mul(p, x, y) \in Int
<1> DEFINE cross == add_mod(mul_mod(x.r[1], y.x_r[1]), mul_mod(x.x_r[1], y.r[1]))
<1>1. \A a, b \in Int : mul_mod(a, b) \in Int /\ add_mod(a, b) \in Int
  BY ArithmeticTypes, ResidueFacts
<1>2. mul_mod(x.r[1], y.r[1]) \in Int /\ mul_mod(x.x_r[1], y.x_r[1]) \in Int
      /\ mul_mod(x.r[1], y.x_r[1]) \in Int /\ mul_mod(x.x_r[1], y.r[1]) \in Int
  BY <1>1
<1>3. cross \in Int
  BY <1>1, <1>2
<1>4. beaver_mul(p, x, y) = IF p = 0 THEN mul_mod(x.r[1], y.r[1])
                            ELSE IF p = 1 THEN add_mod(mul_mod(x.x_r[1], y.x_r[1]), cross) ELSE cross
  BY DEF beaver_mul
<1> HIDE DEF cross
<1>5. add_mod(mul_mod(x.x_r[1], y.x_r[1]), cross) \in Int
  BY <1>1, <1>2, <1>3
<1>6. QED BY <1>2, <1>3, <1>4, <1>5

\* Both operands have partitions: they are multiplied.
LEMMA Reconstructing ==
  ASSUME IInv, NEW p \in Parties, BeaverReconstruct(p)
  PROVE  IInv'
<1> DEFINE xy == beaver_mul(p, X(p), Y(p))
<1>1. Types /\ PlaceOK(p) /\ RngOK(p, rng[p], drawn[p])
  BY DEF IInv
<1>2. ~ Finished(p) /\ stage[p] = "run" /\ Call(p).op = "mul" /\ Call(p).op \in Masking /\ ~ Bare(p)
  BY DEF BeaverReconstruct, Calls, Masking
<1>3. Dealt(Call(p)) = 1 /\ <<at[p], 0>> \in Marks
  BY <1>1, <1>2, PlaceType, DealtType
<1>4. xy \in Int
  BY <1>1, <1>2, ReadyOperands, BeaverType
<1>5. ASSUME NEW v \in Residues PROVE Right(p, Sharetensor(v))
  BY <1>1, <1>2, PlainRight
<1>6. CASE p = 0
  <2> DEFINE rest == Missing(<<xy>>, Drawn(p, Ask(NotHub, 1)))
  <2>1. /\ Drawing(p, Ask(NotHub, 1), <<at[p], 0>>)
        /\ SendTo(0, 1, rest) /\ Returns(p, Sharetensor(rest[1]))
    BY <1>6 DEF BeaverReconstruct
  <2>2. rest \in Seq(Residues) /\ Len(rest) = 1
    <3>1. Full(Drawn(p, Ask(NotHub, 1)), 1)
      BY <1>1, NotHubDraws
    <3> HIDE DEF xy
    <3>2. <<xy>> \in Seq(Int) /\ Len(<<xy>>) = 1
      BY <1>4
    <3>3. QED BY <3>1, <3>2, MissingType
  <2>3. AsksFor(Ask(NotHub, 1), Helpers, 1)
    BY AskNotHub DEF Helpers
  <2>4. NextDrawn(p, Helpers, 1, <<at[p], 0>>)
    BY <1>1, <1>3, <2>1, <2>3, DrawingFrom
  <2> HIDE DEF rest
  <2>5. rest[1] \in Residues
    BY <2>2
  <2>6. QED BY <1>2, <1>3, <1>5, <1>6, <2>1, <2>2, <2>4, <2>5, DealersReturn
<1>7. CASE p # 0
  <2> DEFINE v == add_mod(xy, DealtTo(p, 1)[1])
  <2>1. TakeDealt(p, 1) /\ Returns(p, Sharetensor(v))
    BY <1>7 DEF BeaverReconstruct
  <2>2. p \in Computing
    BY <1>7, PartyFacts DEF Computing
  <2>3. v \in Residues
    <3>1. p = 1 => Arrived(0, 1, 1)
      BY <2>1 DEF TakeDealt
    <3>2. DealtTo(p, 1)[1] \in Int
      <4>1. \A j \in 1 .. 1 : DealtTo(p, 1)[j] \in Residues
        BY <1>1, <2>2, <3>1, DealtToType
      <4> DEFINE d == DealtTo(p, 1)
      <4> HIDE DEF d
      <4>2. \A j \in 1 .. 1 : d[j] \in Residues
        BY <4>1 DEF d
      <4>3. d[1] \in Residues
        BY <4>2
      <4>4. d[1] \in Int
        BY <4>3, ResidueFacts
      <4>5. QED BY <4>4 DEF d
    <3>3. QED BY <1>4, <3>2, ArithmeticTypes
  <2>4. Right(p, Sharetensor(v))
    BY <1>5, <2>3
  <2> HIDE DEF v
  <2>5. QED BY <1>2, <1>3, <2>1, <2>2, <2>4, DealtReturn
<1>8. QED BY <1>6, <1>7

LEMMA PowersSeq ==
  ASSUME NEW a \in Int, NEW n \in Nat
  PROVE  [j \in 1 .. n |-> Pow(a, j + 1)] \in Seq(Int) /\ Len([j \in 1 .. n |-> Pow(a, j + 1)]) = n
<1>1. ASSUME NEW j \in 1 .. n PROVE Pow(a, j + 1) \in Int
  <2>1. j + 1 \in Nat
    OBVIOUS
  <2>2. QED BY <2>1, PowType, ResidueFacts
<1>2. QED BY <1>1

LEMMA RTermsType ==
  ASSUME NEW x, x.x_r[1] \in Int, NEW n \in Nat, NEW powers \in Seq(Int), Len(powers) = n
  PROVE  RTerms(x, n, powers) \in Seq(Int)
<1> DEFINE term(j) == IF j = n THEN powers[n]
                      ELSE mul_mod(mul_mod(Pow(x.x_r[1], n - j), powers[j]), pascal_matrix[n][j])
<1>1. ASSUME NEW j \in 1 .. n PROVE term(j) \in Int
  <2>1. powers[j] \in Int /\ powers[n] \in Int
    BY DEF term
  <2>2. Pow(x.x_r[1], n - j) \in Int
    <3>1. n - j \in Nat
      OBVIOUS
    <3>2. QED BY <3>1, PowType, ResidueFacts
  <2>3. pascal_matrix[n][j] \in Int
    BY PascalType
  <2>4. mul_mod(Pow(x.x_r[1], n - j), powers[j]) \in Int
    BY <2>1, <2>2, ArithmeticTypes, ResidueFacts
  <2>5. mul_mod(mul_mod(Pow(x.x_r[1], n - j), powers[j]), pascal_matrix[n][j]) \in Int
    BY <2>3, <2>4, ArithmeticTypes, ResidueFacts
  <2>6. QED BY <2>1, <2>5
<1>2. RTerms(x, n, powers) = [j \in 1 .. n |-> term(j)]
  BY DEF RTerms
<1> HIDE DEF term
<1>3. QED BY <1>1, <1>2

LEMMA PowersCachedType ==
  ASSUME NEW p, NEW x, x.x_r[1] \in Int, x.r \in Seq(Int), Len(x.r) = 1,
         NEW n \in Nat, n >= 2, NEW r_pow \in Seq(Int), Len(r_pow) = n - 1
  PROVE  powers_cached(p, x, n, r_pow) \in Residues
<1> DEFINE powers == x.r \o r_pow
           first == IF p = 1 THEN <<Pow(x.x_r[1], n)>> ELSE <<>>
<1>1. powers \in Seq(Int) /\ Len(powers) = n
  <2>1. powers \in Seq(Int) /\ Len(powers) = Len(x.r) + Len(r_pow)
    BY Concat
  <2> HIDE DEF powers
  <2>2. QED BY <2>1
<1> HIDE DEF powers
<1>2. RTerms(x, n, powers) \in Seq(Int)
  BY <1>1, RTermsType
<1>3. first \in Seq(Int)
  <2> DEFINE v == Pow(x.x_r[1], n)
  <2>1. v \in Int
    BY PowType, ResidueFacts
  <2> HIDE DEF v
  <2>2. <<v>> \in Seq(Int)
    BY <2>1
  <2>3. QED BY <2>2 DEF v
<1>4. powers_cached(p, x, n, r_pow) = SumMod(first \o RTerms(x, n, powers))
  BY DEF powers_cached, powers
<1> HIDE DEF first
<1>5. first \o RTerms(x, n, powers) \in Seq(Int)
  BY <1>2, <1>3, Concat
<1>6. QED BY <1>4, <1>5, SumTypes

LEMMA ReducedNumbers ==
  ASSUME NEW v \in Seq(Residues)
  PROVE  v \in Seq(Int)
<1>1. \A i \in 1 .. Len(v) : v[i] \in Residues
  OBVIOUS
<1>2. \A i \in 1 .. Len(v) : v[i] \in Int
  BY <1>1, ResidueFacts
<1>3. QED BY <1>2

\* The operand has its partition: its power is taken.
LEMMA TakingPower ==
  ASSUME IInv, NEW p \in Parties, Power(p)
  PROVE  IInv'
<1> DEFINE m == Call(p).power - 1
<1>1. Types /\ PlaceOK(p) /\ RngOK(p, rng[p], drawn[p])
  BY DEF IInv
<1>2. ~ Finished(p) /\ stage[p] = "run" /\ Call(p).op = "pow" /\ Call(p).op \in Masking /\ ~ Bare(p)
  BY DEF Power, Calls, Masking
<1>3. Dealt(Call(p)) = m /\ <<at[p], 0>> \in Marks /\ m \in Nat
      /\ Call(p).power \in Nat /\ Call(p).power >= 2
  BY <1>1, <1>2, PlaceType, DealtType DEF CallFacts
<1>4. X(p).x_r[1] \in Int /\ X(p).r[1] \in Int /\ Len(X(p).r) = 1 /\ X(p).r \in Seq(Int)
  BY <1>1, <1>2, ReadyOperands, ReducedNumbers
<1>5. ASSUME NEW v \in Residues PROVE Right(p, Sharetensor(v))
  BY <1>1, <1>2, PlainRight
<1>6. CASE p = 0
  <2> DEFINE r_pow == [j \in 1 .. m |-> Pow(X(p).r[1], j + 1)]
             draws == Drawn(p, Ask(NotHub, m))
  <2>1. /\ Drawing(p, Ask(NotHub, m), <<at[p], 0>>)
        /\ SendTo(0, 1, Missing(r_pow, draws)) /\ Returns(p, Sharetensor(0))
    BY <1>6 DEF Power
  <2> HIDE DEF m
  <2>2. r_pow \in Seq(Int) /\ Len(r_pow) = m
    BY <1>3, <1>4, PowersSeq
  <2>3. Full(draws, m)
    BY <1>1, <1>3, NotHubDraws
  <2> HIDE DEF r_pow, draws
  <2>4. Missing(r_pow, draws) \in Seq(Residues) /\ Len(Missing(r_pow, draws)) = m
    BY <1>3, <2>2, <2>3, MissingType
  <2>5. AsksFor(Ask(NotHub, m), Helpers, m)
    BY <1>3, AskNotHub DEF Helpers
  <2>6. NextDrawn(p, Helpers, m, <<at[p], 0>>)
    BY <1>1, <1>3, <2>1, <2>5, DrawingFrom
  <2>7. Right(p, Sharetensor(0))
    BY <1>5, ResidueFacts
  <2>8. QED BY <1>2, <1>3, <1>6, <2>1, <2>4, <2>6, <2>7, DealersReturn
<1>7. CASE p # 0
  <2> DEFINE v == powers_cached(p, X(p), Call(p).power, DealtTo(p, m))
  <2>1. TakeDealt(p, m) /\ Returns(p, Sharetensor(v))
    BY <1>7 DEF Power
  <2>2. p \in Computing
    BY <1>7, PartyFacts DEF Computing
  <2>3. v \in Residues
    <3>1. p = 1 => Arrived(0, 1, m)
      BY <2>1 DEF TakeDealt
    <3>2. DealtTo(p, m) \in Seq(Residues) /\ Len(DealtTo(p, m)) = m
      BY <1>1, <1>3, <2>2, <3>1, DealtToType
    <3>3. DealtTo(p, m) \in Seq(Int)
      BY <3>2, ReducedNumbers
    <3>4. QED BY <1>3, <1>4, <3>2, <3>3, PowersCachedType
  <2> HIDE DEF v, m
  <2>4. Right(p, Sharetensor(v))
    BY <1>5, <2>3
  <2>5. QED BY <1>2, <1>3, <2>1, <2>2, <2>4, DealtReturn
<1>8. QED BY <1>6, <1>7

-----------------------------------------------------------------------------

LEMMA HeadFirst ==
  ASSUME NEW a \in Asks, NEW rest \in Seq(Asks), Distinct(rest), NEW S, NEW n, AsksFor(rest, S, n),
         a.from \notin S
  PROVE  /\ <<a>> \o rest \in Seq(Asks) /\ Distinct(<<a>> \o rest)
         /\ Len(<<a>> \o rest) = Len(rest) + 1
         /\ (<<a>> \o rest)[1] = a
         /\ \A j \in 1 .. Len(rest) : (<<a>> \o rest)[j + 1] = rest[j]
<1> DEFINE asks == <<a>> \o rest
<1>1. asks \in Seq(Asks) /\ Len(asks) = Len(rest) + 1 /\ asks[1] = a
      /\ (\A j \in 1 .. Len(rest) : asks[j + 1] = rest[j]) /\ Len(rest) \in Nat
  OBVIOUS
<1>2. \A j \in 1 .. Len(rest) : rest[j].from \in S
  BY DEF AsksFor
<1> HIDE DEF asks
<1>3. ASSUME NEW i \in 1 .. Len(asks), NEW j \in 1 .. Len(asks), asks[i].from = asks[j].from
      PROVE  i = j
  <2>1. \A l \in 1 .. Len(asks) : l = 1 \/ (l - 1 \in 1 .. Len(rest) /\ asks[l] = rest[l - 1])
    <3>1. ASSUME NEW l \in 1 .. Len(asks), l # 1
          PROVE  l - 1 \in 1 .. Len(rest) /\ asks[l] = rest[l - 1]
      <4>1. l - 1 \in 1 .. Len(rest) /\ (l - 1) + 1 = l
        BY <1>1, <3>1
      <4>2. QED BY <1>1, <4>1
    <3>2. QED BY <3>1
  <2>2. CASE i = 1 /\ j # 1
    BY <1>1, <1>2, <1>3, <2>1, <2>2
  <2>3. CASE i # 1 /\ j = 1
    BY <1>1, <1>2, <1>3, <2>1, <2>3
  <2>4. CASE i # 1 /\ j # 1
    <3>1. i - 1 \in 1 .. Len(rest) /\ asks[i] = rest[i - 1]
          /\ j - 1 \in 1 .. Len(rest) /\ asks[j] = rest[j - 1]
      BY <2>1, <2>4
    <3>2. rest[i - 1].from = rest[j - 1].from
      BY <1>3, <3>1
    <3>3. i - 1 = j - 1
      BY <3>1, <3>2 DEF Distinct
    <3>4. QED BY <3>3
  <2>5. QED BY <2>2, <2>3, <2>4
<1>4. QED BY <1>1, <1>3 DEF Distinct, asks

LEMMA TailFull ==
  ASSUME NEW v \in Seq(Seq(Bits)), Len(v) = N - 1, NEW n \in Nat,
         \A j \in 2 .. N - 1 : Len(v[j]) = n
  PROVE  Full(Tail(v), n) /\ Head(v) = v[1]
<1>1. N - 1 \in Nat /\ N - 1 >= 2 /\ N \in Nat
  BY PartyFacts
<1>2. Tail(v) \in Seq(Seq(Bits)) /\ Len(Tail(v)) = Len(v) - 1
      /\ (\A i \in 1 .. Len(v) - 1 : Tail(v)[i] = v[i + 1]) /\ Head(v) = v[1]
  BY <1>1
<1>3. Len(Tail(v)) = N - 2
  BY <1>1, <1>2
<1>4. ASSUME NEW i \in 1 .. N - 2 PROVE Len(Tail(v)[i]) = n
  <2>1. i \in 1 .. Len(v) - 1 /\ i + 1 \in 2 .. N - 1
    BY <1>1
  <2>2. QED BY <1>2, <2>1
<1>5. QED BY <1>2, <1>3, <1>4 DEF Full

LEMMA PairSeq ==
  ASSUME NEW a \in Int, NEW b \in Int
  PROVE  <<a, b>> \in Seq(Int) /\ Len(<<a, b>>) = 2
  OBVIOUS

\* What the dealer of trunc asks for.
TruncAsks(p) == <<[from |-> p, n |-> 1]>> \o Ask(NotHub, 2)

LEMMA TruncAsksRight ==
  /\ AsksAmong(0, TruncAsks(0), Helpers, 2)
  /\ Len(TruncAsks(0)) = N - 1
  /\ TruncAsks(0)[1].n = 1
  /\ \A j \in 2 .. N - 1 : TruncAsks(0)[j].n = 2
<1> DEFINE a == [from |-> 0, n |-> 1]
           rest == Ask(NotHub, 2)
           asks == <<a>> \o rest
<1>1. a \in Asks /\ a.from = 0 /\ a.n = 1
  BY PartyFacts DEF Asks
<1>2. AsksFor(rest, Helpers, 2) /\ Len(rest) = N - 2
  BY AskNotHub DEF Helpers
<1>3. TruncAsks(0) = asks
  BY DEF TruncAsks
<1> HIDE DEF a, rest
<1>4. rest \in Seq(Asks) /\ Distinct(rest)
      /\ (\A j \in 1 .. Len(rest) : rest[j].from \in Helpers /\ rest[j].n = 2)
      /\ (\A s \in Helpers : \E j \in 1 .. Len(rest) : rest[j].from = s)
  BY <1>2 DEF AsksFor
<1>5. a.from \notin Helpers
  BY <1>1, HelperFacts
<1>6. asks \in Seq(Asks) /\ Distinct(asks) /\ Len(asks) = Len(rest) + 1 /\ asks[1] = a
      /\ \A j \in 1 .. Len(rest) : asks[j + 1] = rest[j]
  BY <1>1, <1>2, <1>4, <1>5, HeadFirst
<1> HIDE DEF asks
<1>7. Len(asks) = N - 1 /\ N - 1 \in Nat
  BY <1>2, <1>6, PartyFacts
<1>8. ASSUME NEW j \in 2 .. N - 1
      PROVE  asks[j].from \in Helpers /\ asks[j].n = 2
  <2>1. j - 1 \in 1 .. Len(rest) /\ (j - 1) + 1 = j
    BY <1>2, PartyFacts
  <2>2. asks[j] = rest[j - 1]
    BY <1>6, <2>1
  <2>3. QED BY <1>4, <2>1, <2>2
<1>9. \A j \in 1 .. Len(asks) : j = 1 \/ j \in 2 .. N - 1
  BY <1>7, PartyFacts
<1>10. \A j \in 1 .. Len(asks) : asks[j].from \in Helpers \cup {0}
  BY <1>1, <1>6, <1>8, <1>9
<1>11. \A j \in 1 .. Len(asks) : asks[j].from \in Helpers => asks[j].n = 2
  BY <1>1, <1>5, <1>6, <1>8, <1>9
<1>12. ASSUME NEW s \in Helpers PROVE \E j \in 1 .. Len(asks) : asks[j].from = s
  <2>1. PICK j \in 1 .. Len(rest) : rest[j].from = s
    BY <1>4
  <2>2. j + 1 \in 1 .. Len(asks)
    BY <1>2, <1>7, PartyFacts
  <2>3. QED BY <1>6, <2>1, <2>2
<1>13. AsksAmong(0, asks, Helpers, 2)
  BY <1>6, <1>10, <1>11, <1>12 DEF AsksAmong
<1>14. QED BY <1>1, <1>3, <1>6, <1>7, <1>8, <1>13

\* The dealer masks the value to truncate.
LEMMA TruncatingDealer ==
  ASSUME IInv, NEW p \in Parties, TruncateDealer(p)
  PROVE  IInv'
<1> DEFINE asks == TruncAsks(p)
           draws == Drawn(p, asks)
           mask == Head(draws)[1] % TwoTo[K + V]
           values == <<mask, low(mask)>>
<1>1. Types /\ PlaceOK(p) /\ RngOK(p, rng[p], drawn[p])
  BY DEF IInv
<1>2. ~ Finished(p) /\ stage[p] = "run" /\ Call(p).op = "trunc" /\ p = 0
  BY DEF TruncateDealer, Calls
<1>3. Dealt(Call(p)) = 2 /\ <<at[p], 0>> \in Marks /\ Call(p).op \notin Masking
  BY <1>1, <1>2, PlaceType, DealtType DEF Masking
<1>4. Drawing(p, asks, <<at[p], 0>>) /\ SendTo(0, 1, Missing(values, Tail(draws)))
      /\ Returns(p, Sharetensor(X(p).share))
  BY DEF TruncateDealer, TruncAsks
<1> HIDE DEF asks
<1>5. AsksAmong(p, asks, Helpers, 2) /\ Len(asks) = N - 1 /\ asks[1].n = 1
      /\ \A j \in 2 .. N - 1 : asks[j].n = 2
  BY <1>2, TruncAsksRight DEF asks
<1>6. NextDrawn(p, Helpers, 2, <<at[p], 0>>)
  BY <1>1, <1>3, <1>4, <1>5, DrawingStep
<1>7. DrawsOf(p, asks, draws)
  <2>1. asks \in Seq(Asks) /\ Distinct(asks)
    BY <1>5 DEF AsksAmong
  <2>2. QED BY <1>1, <2>1, DrawnValues
<1> HIDE DEF draws
<1>8. draws \in Seq(Seq(Bits)) /\ Len(draws) = N - 1 /\ draws[1] \in Seq(Bits) /\ Len(draws[1]) = 1
      /\ \A j \in 2 .. N - 1 : Len(draws[j]) = 2
  <2>1. 1 \in 1 .. N - 1 /\ \A j \in 2 .. N - 1 : j \in 1 .. N - 1
    BY PartyFacts
  <2>2. QED BY <1>5, <1>7, <2>1 DEF DrawsOf
<1>9. Full(Tail(draws), 2) /\ Head(draws) = draws[1]
  BY <1>8, TailFull
<1>10. mask \in Int
  <2>1. draws[1][1] \in Int
    <3> DEFINE d == draws[1]
    <3> HIDE DEF d
    <3>1. d \in Seq(Bits) /\ Len(d) = 1
      BY <1>8 DEF d
    <3>2. \A j \in 1 .. 1 : d[j] \in Residues
      BY <3>1, BitsSeq
    <3>3. d[1] \in Residues
      BY <3>2
    <3>4. d[1] \in Int
      BY <3>3, ResidueFacts
    <3>5. QED BY <3>4 DEF d
  <2>2. TwoTo[K + V] \in Nat \ {0}
    <3>1. K + V \in Nat
      BY BitsAssumption
    <3>2. QED BY <3>1, TwoToType
  <2>3. mask = draws[1][1] % TwoTo[K + V]
    BY <1>9
  <2> HIDE DEF mask
  <2>4. QED BY <2>1, <2>2, <2>3, ModType
<1> HIDE DEF mask
<1>11. low(mask) \in Int
  BY <1>10, LowType
<1>12. values \in Seq(Int) /\ Len(values) = 2
  BY <1>10, <1>11, PairSeq
<1> HIDE DEF values
<1>13. Missing(values, Tail(draws)) \in Seq(Residues) /\ Len(Missing(values, Tail(draws))) = 2
  BY <1>9, <1>12, MissingType
<1>14. Right(p, Sharetensor(X(p).share))
  BY <1>1, <1>2, OperandTypes, TensorFacts, PlainRight
<1>15. QED BY <1>2, <1>3, <1>4, <1>6, <1>13, <1>14, DealersReturn

\* A computing party masks the value to truncate and reveals it.
LEMMA Truncating ==
  ASSUME IInv, NEW p \in Parties, Truncate(p)
  PROVE  IInv'
<1> DEFINE masks == trunc_masks(DealtTo(p, 2))
           v == add_mod(X(p).share, masks.r)
           mask == <<masks.r_part>>
<1>1. Types /\ LinksOK /\ PlaceOK(p) /\ RngOK(p, rng[p], drawn[p])
  BY DEF IInv
<1>2. ~ Finished(p) /\ stage[p] = "run" /\ Call(p).op = "trunc" /\ p # 0
  BY DEF Truncate, Calls
<1>3. Dealt(Call(p)) = 2 /\ <<at[p], 0>> \in Marks /\ Call(p).op \notin Masking
  BY <1>1, <1>2, PlaceType, DealtType DEF Masking
<1>4. p \in Computing /\ (p = 1 \/ p \in Helpers)
  BY <1>2, PartyFacts, HelperFacts DEF Computing
<1>5. EnterReveal(p, v, mask)
      /\ IF p = 1 THEN Arrived(0, 1, 2) /\ TakenFrom(0, 1, 2) /\ NoDraw
         ELSE Drawing(p, Ask(<<0>>, 2), <<at[p], 0>>) /\ SendTo(p, 1, <<v>>)
  BY DEF Truncate
<1>6. masks.r \in Residues /\ masks.r_part \in Residues
  <2>1. \A j \in 1 .. 2 : DealtTo(p, 2)[j] \in Residues
    BY <1>1, <1>4, <1>5, DealtToType
  <2> DEFINE d == DealtTo(p, 2)
  <2> HIDE DEF d
  <2>2. d[1] \in Residues /\ d[2] \in Residues
    BY <2>1 DEF d
  <2>3. masks.r = d[1] /\ masks.r_part = d[2]
    BY DEF trunc_masks, d
  <2>4. QED BY <2>2, <2>3
<1> HIDE DEF masks
<1>7. v \in Residues
  <2>1. X(p).share \in Int
    BY <1>1, <1>2, OperandTypes, TensorFacts
  <2>2. QED BY <1>6, <2>1, ArithmeticTypes, ResidueFacts
<1>8. mask \in Seq(Residues) /\ Len(mask) = 1
  <2> DEFINE r == masks.r_part
  <2> HIDE DEF r
  <2>1. <<r>> \in Seq(Residues) /\ Len(<<r>>) = 1
    BY <1>6 DEF r
  <2>2. QED BY <2>1 DEF r
<1> HIDE DEF v, mask
<1>9. MayEnter(p, mask)
  BY <1>2, <1>3, <1>8 DEF MayEnter
<1>10. Amounts(p, DealersStreams(p), 2)
  BY <1>2, <1>3, DealtAmounts
<1>11. CASE p = 1
  <2>1. NextDrawn(p, {}, 2, <<at[p], 0>>)
    BY <1>1, <1>5, <1>11, NoDrawStep
  <2>2. Amounts(p, {}, 2)
    BY <1>10, <1>11 DEF DealersStreams
  <2>3. Went(p) /\ Entered(p)
    BY <1>2, <1>5, <1>7, <1>8, <1>9, <2>1, <2>2, EntersWent
  <2>4. Had(1)' = Had(1) + 2 /\ Answers(1)' = Answers(1)
    BY <1>2, <1>11, <2>3 DEF Entered
  <2>5. Still(1)
    BY <1>11, <2>3, WentStill
  <2>6. LinksOK' /\ wire' \in [Links -> Seq(Residues)]
    BY <1>1, <1>5, <1>11, <2>4, <2>5, LinksHad
  <2>7. QED BY <2>3, <2>6, WentRight
<1>12. CASE p # 1
  <2>1. Drawing(p, Ask(<<0>>, 2), <<at[p], 0>>) /\ SendTo(p, 1, <<v>>)
    BY <1>5, <1>12
  <2>2. AsksFor(Ask(<<0>>, 2), {0}, 2)
    BY AskOne, PartyFacts
  <2>3. NextDrawn(p, {0}, 2, <<at[p], 0>>)
    BY <1>1, <1>3, <2>1, <2>2, DrawingFrom
  <2>4. Amounts(p, {0}, 2)
    BY <1>2, <1>10, <1>12 DEF DealersStreams
  <2>5. Went(p) /\ Entered(p)
    BY <1>2, <1>5, <1>7, <1>8, <1>9, <2>3, <2>4, EntersWent
  <2>6. RevealSends(p, v)
    BY <1>12, <2>1 DEF RevealSends
  <2>7. QED BY <1>4, <1>7, <1>12, <2>5, <2>6, EnteredLinks
<1>13. QED BY <1>11, <1>12

-----------------------------------------------------------------------------
(***************************************************************************)
(* The beginning, every step, and all of a behaviour.                      *)
(***************************************************************************)

LEMMA InitTypes ==
  ASSUME Init
  PROVE  Types
<1>1. prog \in Programs /\ tape \in Tapes
  BY DEF Init
<1>2. at \in [Parties -> 1 .. Len(prog) + 1]
  <2>1. Len(prog) \in Nat
    BY <1>1, ProgramFacts
  <2>2. QED BY <2>1 DEF Init
<1>3. stage \in [Parties -> {"run", "reveal"}] /\ result \in [Parties -> Seq(Sharetensors)]
      /\ held \in [Parties -> Seq(Residues)] /\ wire \in [Links -> Seq(Residues)]
  BY DEF Init
<1>4. value \in [Parties -> Residues]
  BY ResidueFacts DEF Init
<1>5. out \in [Parties -> Seq([call : Nat, value : Residues])]
  BY DEF Init
<1>6. drawn \in [Parties -> [Parties -> Seq(Marks)]]
  BY DEF Init
<1>7. rng \in [Parties -> [running : Generators, prg_states : [Parties -> Generators]]]
  <2>1. ASSUME NEW p \in Parties
        PROVE  reset_streams(p) \in [running : Generators, prg_states : [Parties -> Generators]]
    <3>1. \A s \in Parties : [seed |-> seed_of(p, s), next |-> 1] \in Generators
      BY SeedFacts DEF Generators
    <3>2. QED BY <3>1 DEF reset_streams
  <2>2. QED BY <2>1 DEF Init
<1>8. QED BY <1>1, <1>2, <1>3, <1>4, <1>5, <1>6, <1>7 DEF Types, TypeOK

\* The invariant holds when the parties begin.
LEMMA InitRight ==
  ASSUME Init
  PROVE  IInv
<1>1. Types
  BY InitTypes
<1>2. ASSUME NEW p \in Parties
      PROVE  /\ at[p] = 1 /\ stage[p] = "run" /\ result[p] = <<>>
             /\ rng[p] = reset_streams(p) /\ drawn[p] = [s \in Parties |-> <<>>]
  BY DEF Init
<1>3. ASSUME NEW p \in Parties
      PROVE  Before(p) = Nothing /\ Parted(p) = {} /\ New(p) = {} /\ Masked(p) = {}
             /\ \A ops : ~ Revealing(p, ops)
  <2>1. PlanFacts(prog)
    BY <1>1, PlanRight DEF Types
  <2>2. 1 - 1 = 0
    OBVIOUS
  <2>3. Before(p) = Nothing
    BY <1>2, <2>1, <2>2 DEF Before, PlanFacts
  <2>4. Parted(p) = {}
    BY <1>2 DEF Parted
  <2>5. \A ops : ~ Revealing(p, ops)
    BY <1>2 DEF Revealing
  <2>6. New(p) = {}
    BY <2>4 DEF New
  <2>7. Masked(p) = {}
    BY <2>5, <2>6 DEF Masked
  <2>8. QED BY <2>3, <2>4, <2>5, <2>6, <2>7
<1>4. Nothing.parted = {} /\ Nothing.dealt = 0 /\ Nothing.reveals = 0
      /\ \A d \in Seeds : Nothing.drawn[d] = <<>>
  BY DEF Nothing
<1>5. ASSUME NEW p \in Parties PROVE PlaceOK(p)
  <2>1. Len(result[p]) = at[p] - 1
    <3>1. Len(<<>>) = 0 /\ 1 - 1 = 0
      OBVIOUS
    <3>2. QED BY <1>2, <3>1
  <2>2. Before(p).parted \subseteq Parted(p)
    BY <1>3, <1>4
  <2>3. stage[p] # "reveal"
    BY <1>2
  <2>4. QED BY <1>3, <2>1, <2>2, <2>3 DEF PlaceOK
<1>6. ASSUME NEW p \in Parties, NEW d PROVE DrawnSince(p, d) = <<>>
  <2>1. MaskDraws(at[p], Call(p), {}) = <<>> /\ Marked(0, <<at[p], 0>>) = <<>> /\ <<>> \o <<>> = <<>>
    BY NoMaskDraws DEF Marked
  <2>2. QED BY <1>3, <2>1 DEF DrawnSince
<1>7. ASSUME NEW p \in Parties PROVE DrawnOK(p)
  <2>1. ASSUME NEW s \in Parties \ {p}
        PROVE  drawn[p][s] = Before(p).drawn[seed_of(p, s)] \o DrawnSince(p, seed_of(p, s))
    <3>1. drawn[p][s] = <<>> /\ Before(p).drawn[seed_of(p, s)] = <<>> /\ <<>> \o <<>> = <<>>
      BY <1>2, <1>3, <1>4, SeedFacts
    <3>2. QED BY <1>6, <3>1
  <2>2. QED BY <2>1 DEF DrawnOK
<1>8. ASSUME NEW p \in Parties PROVE RngOK(p, rng[p], drawn[p])
  <2>1. rng[p] \in [running : Generators, prg_states : [Parties -> Generators]]
        /\ drawn[p] \in [Parties -> Seq(Marks)]
    BY <1>1 DEF Types
  <2>2. \A s \in Parties : Len(drawn[p][s]) + 1 = 1
    BY <1>2
  <2>3. \A s \in Parties : rng[p].prg_states[s] = [seed |-> seed_of(p, s), next |-> 1]
    <3>1. reset_streams(p).prg_states = [s \in Parties |-> [seed |-> seed_of(p, s), next |-> 1]]
      BY DEF reset_streams
    <3>2. rng[p] = reset_streams(p)
      BY <1>2
    <3>3. QED BY <3>1, <3>2
  <2>4. rng[p].running = [seed |-> seed_of(p, p), next |-> 1]
    <3>1. reset_streams(p).running = [seed |-> seed_of(p, p), next |-> 1]
      BY DEF reset_streams
    <3>2. rng[p] = reset_streams(p)
      BY <1>2
    <3>3. QED BY <3>1, <3>2
  <2>5. QED BY <2>1, <2>2, <2>3, <2>4 DEF RngOK
<1>9. LinksOK
  <2>1. ASSUME NEW p \in Parties PROVE Had(p) = 0 /\ Answers(p) = 0 /\ Reveals(p) = 0
    <3>1. Had(p) = 0
      BY <1>3, <1>4 DEF Had
    <3>2. (IF Finished(p) THEN 0 ELSE Len(MaskDraws(at[p], Call(p), New(p)))) = 0
      <4>1. MaskDraws(at[p], Call(p), New(p)) = <<>>
        BY <1>3, NoMaskDraws
      <4>2. Len(<<>>) = 0
        OBVIOUS
      <4>3. QED BY <4>1, <4>2
    <3>3. Answers(p) = 0
      <4>1. Before(p).reveals = 0 /\ 0 + 0 = 0
        BY <1>3, <1>4
      <4>2. QED BY <3>2, <4>1 DEF Answers
    <3>4. QED BY <1>2, <3>1, <3>3 DEF Reveals
  <2>2. \A c \in Links : wire[c] = <<>> /\ Len(wire[c]) = 0
    BY DEF Init
  <2>3. Wires(wire)
    BY <1>1, WiresType
  <2>4. QED BY <2>1, <2>2, <2>3, HelperFacts DEF LinksOK, Wires
<1>10. QED BY <1>1, <1>5, <1>7, <1>8, <1>9 DEF IInv

\* It does not depend on anything but the variables.
LEMMA StutterRight ==
  ASSUME IInv, UNCHANGED vars
  PROVE  IInv'
<1>1. Types'
  BY DEF vars, IInv, Types, TypeOK
<1> USE DEF vars
<1>2. ASSUME NEW p \in Parties
      PROVE  PlaceOK(p)' /\ DrawnOK(p)' /\ RngOK(p, rng[p], drawn[p])'
             /\ Had(p)' = Had(p) /\ Answers(p)' = Answers(p) /\ Reveals(p)' = Reveals(p)
  <2>1. PICK q \in Parties : q # p
    BY PartyFacts
  <2>2. PlaceOK(p) /\ DrawnOK(p) /\ RngOK(p, rng[p], drawn[p])
    BY DEF IInv
  <2>3. Elsewhere(q)
    BY DEF Elsewhere
  <2>4. QED BY <2>1, <2>2, <2>3, ElsewhereSame
<1>3. wire' = wire
  BY DEF vars
<1>4. LinksOK'
  <2>1. LinksOK
    BY DEF IInv
  <2>2. \A p \in Parties : Had(p)' = Had(p) /\ Answers(p)' = Answers(p) /\ Reveals(p)' = Reveals(p)
    BY <1>2
  <2>3. QED BY <1>3, <2>1, <2>2, HelperFacts DEF LinksOK
<1>5. QED BY <1>1, <1>2, <1>4 DEF IInv

\* Every step keeps it.
LEMMA StepRight ==
  ASSUME IInv, NEW p \in Parties, Step(p)
  PROVE  IInv'
<1>1. CASE ShareOwn(p)
  BY <1>1, SharingOwn
<1>2. CASE ShareDealers(p)
  BY <1>2, SharingDealers
<1>3. CASE ShareOfOther(p)
  BY <1>3, SharingOfOther
<1>4. CASE AddShares(p)
  BY <1>4, Adding
<1>5. CASE SubtractShares(p)
  BY <1>5, Subtracting
<1>6. CASE AddPublic(p)
  BY <1>6, AddingPublic
<1>7. CASE MultiplyPublic(p)
  BY <1>7, MultiplyingPublic
<1>8. CASE RevealCall(p)
  BY <1>8, RevealingCall
<1>9. CASE HubSums(p)
  BY <1>9, Summing
<1>10. CASE TakeSum(p)
  BY <1>10, TakingSum
<1>11. CASE PartitionDealer(p)
  BY <1>11, PartitioningDealer
<1>12. CASE Partition(p)
  BY <1>12, Partitioning
<1>13. CASE BeaverReconstruct(p)
  BY <1>13, Reconstructing
<1>14. CASE Power(p)
  BY <1>14, TakingPower
<1>15. CASE TruncateDealer(p)
  BY <1>15, TruncatingDealer
<1>16. CASE Truncate(p)
  BY <1>16, Truncating
<1>17. QED
  BY <1>1, <1>2, <1>3, <1>4, <1>5, <1>6, <1>7, <1>8, <1>9, <1>10, <1>11, <1>12, <1>13,
     <1>14, <1>15, <1>16 DEF Step

\* So it holds always.
LEMMA AlwaysRight == Spec => []IInv
<1>1. Init => IInv
  BY InitRight
<1>2. IInv /\ [Next]_vars => IInv'
  <2>1. ASSUME IInv, Next PROVE IInv'
    <3>1. CASE Done
      BY <2>1, <3>1, StutterRight DEF Done
    <3>2. CASE \E p \in Parties : Step(p)
      BY <2>1, <3>2, StepRight
    <3>3. QED BY <2>1, <3>1, <3>2 DEF Next
  <2>2. QED BY <2>1, StutterRight
<1>3. QED BY <1>1, <1>2, PTL DEF Spec

-----------------------------------------------------------------------------
(***************************************************************************)
(* What the invariant says of the streams and of the end.                  *)
(***************************************************************************)

Begins(a, z) == Len(a) <= Len(z) /\ \A i \in 1 .. Len(a) : a[i] = z[i]

LEMMA BeginsTypes ==
  ASSUME NEW a \in Seq(Marks), NEW b \in Seq(Marks)
  PROVE  Begins(a, a) /\ Begins(<<>>, a) /\ Begins(a, a \o b)
<1>1. a \o b \in Seq(Marks) /\ Len(a \o b) = Len(a) + Len(b)
      /\ \A i \in 1 .. Len(a) : (a \o b)[i] = a[i]
  OBVIOUS
<1>2. Len(a) \in Nat /\ Len(b) \in Nat /\ Len(<<>>) = 0
  OBVIOUS
<1>3. QED BY <1>1, <1>2 DEF Begins

\* Beginnings of sequences that have a common part before them.
LEMMA BeginsAfter ==
  ASSUME NEW a \in Seq(Marks), NEW b \in Seq(Marks), NEW z \in Seq(Marks), Begins(a, b)
  PROVE  Begins(z \o a, z \o b)
<1>1. Len(z \o a) = Len(z) + Len(a) /\ Len(z \o b) = Len(z) + Len(b)
      /\ Len(z) \in Nat /\ Len(a) \in Nat /\ Len(b) \in Nat
  OBVIOUS
<1>2. Len(a) <= Len(b) /\ \A i \in 1 .. Len(a) : a[i] = b[i]
  BY DEF Begins
<1>3. ASSUME NEW i \in 1 .. Len(z \o a) PROVE (z \o a)[i] = (z \o b)[i]
  <2>1. CASE i <= Len(z)
    <3>1. (z \o a)[i] = z[i] /\ (z \o b)[i] = z[i]
      BY <1>1, <2>1
    <3>2. QED BY <3>1
  <2>2. CASE i > Len(z)
    <3>1. i - Len(z) \in 1 .. Len(a) /\ i - Len(z) \in 1 .. Len(b)
      BY <1>1, <1>2, <2>2
    <3>2. (z \o a)[i] = a[i - Len(z)] /\ (z \o b)[i] = b[i - Len(z)]
      BY <1>1, <2>2, <3>1
    <3>3. QED BY <1>2, <3>1, <3>2
  <2>3. i \in Nat /\ (i <= Len(z) \/ i > Len(z))
    BY <1>1
  <2>4. QED BY <2>1, <2>2, <2>3
<1>4. Len(z \o a) <= Len(z \o b)
  BY <1>1, <1>2
<1>5. QED BY <1>3, <1>4 DEF Begins

LEMMA BeginsThrough ==
  ASSUME NEW a \in Seq(Marks), NEW b \in Seq(Marks), NEW z \in Seq(Marks),
         Begins(a, b), Begins(b, z)
  PROVE  Begins(a, z)
<1>1. Len(a) \in Nat /\ Len(b) \in Nat /\ Len(z) \in Nat
  OBVIOUS
<1>2. Len(a) <= Len(b) /\ \A i \in 1 .. Len(a) : a[i] = b[i]
  BY DEF Begins
<1>3. Len(b) <= Len(z) /\ \A i \in 1 .. Len(b) : b[i] = z[i]
  BY DEF Begins
<1>4. \A i \in 1 .. Len(a) : i \in 1 .. Len(b)
  BY <1>1, <1>2
<1>5. QED BY <1>1, <1>2, <1>3, <1>4 DEF Begins

\* Of two beginnings of one sequence, the shorter begins the longer.
LEMMA Comparable ==
  ASSUME NEW a \in Seq(Marks), NEW b \in Seq(Marks), NEW z \in Seq(Marks),
         Begins(a, z), Begins(b, z), Len(a) <= Len(b)
  PROVE  IsPrefix(a, b)
<1>1. Len(a) \in Nat /\ Len(b) \in Nat
  OBVIOUS
<1>2. \A i \in 1 .. Len(a) : a[i] = z[i] /\ i \in 1 .. Len(b)
  BY <1>1 DEF Begins
<1>3. \A i \in 1 .. Len(b) : b[i] = z[i]
  BY DEF Begins
<1>4. \A i \in 1 .. Len(a) : a[i] = b[i]
  BY <1>2, <1>3
<1>5. SubSeq(a, 1, Len(a)) = SubSeq(b, 1, Len(a))
  BY <1>1, <1>4
<1>6. QED BY <1>5 DEF IsPrefix

\* What the first calls draw from a stream begins what the program draws from it.
LEMMA PlanBegins ==
  ASSUME NEW pr \in Programs, NEW d \in Seeds, NEW n \in 0 .. Len(pr)
  PROVE  Begins(Plan(pr)[n].drawn[d], Plan(pr)[Len(pr)].drawn[d])
<1> DEFINE D(m) == Plan(pr)[m].drawn[d]
           S == {m \in 0 .. Len(pr) : \A k \in 0 .. m : Begins(D(k), D(m))}
<1>1. PlanFacts(pr) /\ Len(pr) \in Nat /\ \A i \in 1 .. Len(pr) : CallFacts(pr[i], i)
  BY PlanRight, ProgramFacts
<1>2. \A m \in 0 .. Len(pr) : D(m) \in Seq(Marks)
  <2>1. ASSUME NEW m \in 0 .. Len(pr) PROVE D(m) \in Seq(Marks)
    <3>1. Plan(pr)[m] \in Works
      BY <1>1 DEF PlanFacts
    <3>2. QED BY <3>1 DEF Works
  <2>2. QED BY <2>1
<1>3. \A i \in 1 .. Len(pr) : i \in 0 .. Len(pr) /\ i - 1 \in 0 .. Len(pr)
  BY <1>1
<1>4. ASSUME NEW i \in 1 .. Len(pr) PROVE Begins(D(i - 1), D(i))
  <2> DEFINE w == Plan(pr)[i - 1]
             more == CallDraws(i, pr[i], w.parted, d)
  <2>1. D(i) = D(i - 1) \o more
    <3>1. Plan(pr)[i] = After(i, pr[i], w)
      BY <1>1 DEF PlanFacts
    <3>2. Plan(pr)[i].drawn = [e \in Seeds |-> w.drawn[e] \o CallDraws(i, pr[i], w.parted, e)]
      BY <3>1 DEF After
    <3>3. QED BY <3>2
  <2>2. more \in Seq(Marks)
    <3>1. i \in Nat /\ CallFacts(pr[i], i)
      BY <1>1
    <3>2. QED BY <3>1, CallDrawsType
  <2> HIDE DEF more, D
  <2>3. QED BY <1>2, <1>3, <2>1, <2>2, BeginsTypes
<1> HIDE DEF D
<1>5. 0 \in S
  <2>1. 0 \in 0 .. Len(pr) /\ \A k \in 0 .. 0 : k = 0
    BY <1>1
  <2>2. Begins(D(0), D(0))
    BY <1>2, <2>1, BeginsTypes
  <2>3. QED BY <2>1, <2>2
<1>6. ASSUME NEW i \in 1 .. Len(pr), i - 1 \in S PROVE i \in S
  <2>1. ASSUME NEW k \in 0 .. i PROVE Begins(D(k), D(i))
    <3>1. CASE k = i
      BY <1>2, <1>3, <3>1, BeginsTypes
    <3>2. CASE k # i
      <4>1. k \in 0 .. i - 1 /\ k \in 0 .. Len(pr)
        BY <3>2
      <4>2. Begins(D(k), D(i - 1))
        BY <1>6, <4>1
      <4>3. QED BY <1>2, <1>3, <1>4, <4>1, <4>2, BeginsThrough
    <3>3. QED BY <3>1, <3>2
  <2>2. QED BY <1>3, <2>1
<1>7. 0 .. Len(pr) \subseteq S
  <2> HIDE DEF S
  <2>1. QED BY <1>1, <1>5, <1>6, InductionTo
<1>8. Len(pr) \in S
  BY <1>1, <1>7
<1>9. Begins(D(n), D(Len(pr)))
  BY <1>8
<1>10. QED BY <1>9 DEF D

\* The operands that a party has masks for are the first of those its call partitions.
LEMMA MasksInOrder ==
  ASSUME Types, NEW p \in Parties, PlaceOK(p), ~ Finished(p)
  PROVE  /\ Masked(p) \subseteq Wanted(Call(p), Before(p).parted)
         /\ Masked(p) # {} /\ Call(p).x \in Wanted(Call(p), Before(p).parted)
              => Call(p).x \in Masked(p)
<1> DEFINE c == Call(p)
           W == Wanted(c, Before(p).parted)
<1>1. New(p) \subseteq W /\ (New(p) # {} => c.x \in Parted(p))
  BY DEF PlaceOK
<1>2. ASSUME c.x \in W, c.x \in Parted(p) PROVE c.x \in New(p)
  BY <1>2 DEF Wanted, New
<1>3. ASSUME Revealing(p, Masking)
      PROVE  Operand(p) \in W /\ (Operand(p) = c.x \/ c.x \in Parted(p))
  <2>1. c.op \in Masking /\ Bare(p)
    BY <1>3 DEF Revealing, PlaceOK
  <2>2. CallFacts(c, at[p]) /\ at[p] \in Nat
    BY PlaceType
  <2>3. DOMAIN result[p] = 1 .. at[p] - 1 /\ Before(p).parted \subseteq Parted(p)
    BY PlaceFacts
  <2>4. c.x \in 1 .. at[p] - 1
    BY <2>1, <2>2 DEF CallFacts, Masking
  <2>5. CASE ~ is_partitioned(X(p))
    <3>1. c.x \notin Parted(p)
      BY <2>5 DEF Parted, X
    <3>2. Operand(p) = c.x
      BY <2>5 DEF Operand
    <3>3. QED BY <2>1, <2>3, <3>1, <3>2 DEF Wanted
  <2>6. CASE is_partitioned(X(p))
    <3>1. c.x \in Parted(p)
      BY <2>3, <2>4, <2>6 DEF Parted, X
    <3>2. c.op = "mul" /\ ~ is_partitioned(Y(p))
      BY <2>1, <2>6 DEF Bare
    <3>3. c.y \notin Parted(p)
      BY <3>2 DEF Parted, Y
    <3>4. Operand(p) = c.y
      BY <2>6 DEF Operand
    <3>5. QED BY <2>3, <3>1, <3>2, <3>3, <3>4 DEF Wanted
  <2>7. QED BY <2>5, <2>6
<1> HIDE DEF c, W
<1>4. Masked(p) \subseteq W
  BY <1>1, <1>3 DEF Masked
<1>5. Masked(p) # {} /\ c.x \in W => c.x \in Masked(p)
  BY <1>1, <1>2, <1>3 DEF Masked
<1>6. QED BY <1>4, <1>5 DEF c, W

\* The draws for the masks of the first operands begin those for all.
LEMMA MasksBegin ==
  ASSUME NEW n \in Nat, NEW c, CallFacts(c, n), NEW S, NEW W,
         S \subseteq W, S # {} /\ c.x \in W => c.x \in S
  PROVE  Begins(MaskDraws(n, c, S), MaskDraws(n, c, W))
<1> DEFINE first(A) == IF c.op \in Masking /\ c.x \in A THEN <<<<n, c.x>>>> ELSE <<>>
           second(A) == IF c.op = "mul" /\ c.y # c.x /\ c.y \in A THEN <<<<n, c.y>>>> ELSE <<>>
<1>1. ASSUME NEW A PROVE /\ MaskDraws(n, c, A) = first(A) \o second(A)
                         /\ first(A) \in Seq(Marks) /\ second(A) \in Seq(Marks)
  <2>1. MaskDraws(n, c, A) = first(A) \o second(A)
    BY DEF MaskDraws
  <2>2. c.op \in Masking => <<n, c.x>> \in Marks
    BY DEF CallFacts, Masking, Marks
  <2>3. c.op = "mul" => <<n, c.y>> \in Marks
    BY DEF CallFacts, Marks
  <2>4. \A m \in Marks : <<m>> \in Seq(Marks)
    OBVIOUS
  <2>5. <<>> \in Seq(Marks)
    OBVIOUS
  <2>6. first(A) \in Seq(Marks)
    BY <2>2, <2>4, <2>5
  <2>7. second(A) \in Seq(Marks)
    BY <2>3, <2>4, <2>5
  <2>8. QED BY <2>1, <2>6, <2>7
<1>2. CASE S = {}
  <2>1. MaskDraws(n, c, S) = <<>>
    BY <1>2, NoMaskDraws
  <2>2. MaskDraws(n, c, W) \in Seq(Marks)
    BY MaskDrawsType
  <2>3. QED BY <2>1, <2>2, BeginsTypes
<1>3. CASE S # {}
  <2>1. first(S) = first(W)
    BY <1>3
  <2>2. second(S) = second(W) \/ second(S) = <<>>
    OBVIOUS
  <2> HIDE DEF first, second
  <2>3. Begins(second(S), second(W))
    BY <1>1, <2>2, BeginsTypes
  <2>4. Begins(first(W) \o second(S), first(W) \o second(W))
    BY <1>1, <2>3, BeginsAfter
  <2>5. MaskDraws(n, c, S) = first(W) \o second(S)
    BY <1>1, <2>1
  <2>6. MaskDraws(n, c, W) = first(W) \o second(W)
    BY <1>1
  <2>7. QED BY <2>4, <2>5, <2>6
<1>4. QED BY <1>2, <1>3

\* What a party has drawn in its call begins what the call draws.
LEMMA CallBegins ==
  ASSUME Types, NEW p \in Parties, PlaceOK(p), ~ Finished(p), NEW d
  PROVE  /\ DrawnSince(p, d) \in Seq(Marks)
         /\ Begins(DrawnSince(p, d), CallDraws(at[p], Call(p), Before(p).parted, d))
<1> DEFINE c == Call(p)
           W == Wanted(c, Before(p).parted)
           last == LastDraws(c, d)
           masks(A) == IF d[1] = 0 THEN MaskDraws(at[p], c, A) ELSE <<>>
           end == IF Revealing(p, {"trunc"}) THEN last ELSE 0
           what == <<at[p], 0>>
<1>1. CallFacts(c, at[p]) /\ at[p] \in Nat /\ what \in Marks
  <2>1. 0 \in Nat
    OBVIOUS
  <2>2. QED BY <2>1, PlaceType
<1>2. DrawnSince(p, d) = masks(Masked(p)) \o Marked(end, what)
  BY DEF DrawnSince
<1>3. CallDraws(at[p], c, Before(p).parted, d) = masks(W) \o Marked(last, what)
  BY DEF CallDraws
<1>4. last \in Nat
  BY <1>1, LastDrawsType
<1>5. ASSUME NEW A PROVE masks(A) \in Seq(Marks)
  BY <1>1, MaskDrawsType
<1>6. Begins(masks(Masked(p)), masks(W))
  <2>1. Masked(p) \subseteq W /\ (Masked(p) # {} /\ c.x \in W => c.x \in Masked(p))
    BY MasksInOrder
  <2>2. Begins(MaskDraws(at[p], c, Masked(p)), MaskDraws(at[p], c, W))
    <3> HIDE DEF c, W
    <3>1. QED BY <1>1, <2>1, MasksBegin
  <2>3. Begins(<<>>, <<>>)
    <3>1. <<>> \in Seq(Marks)
      OBVIOUS
    <3>2. QED BY <3>1, BeginsTypes
  <2> HIDE DEF c, W
  <2>4. QED BY <2>2, <2>3
<1>7. ASSUME Revealing(p, {"trunc"}) PROVE masks(Masked(p)) = masks(W)
  <2>1. c.op = "trunc"
    BY <1>7 DEF Revealing
  <2>2. \A A : MaskDraws(at[p], c, A) = <<>> \o <<>>
    BY <2>1 DEF MaskDraws, Masking
  <2> HIDE DEF c, W
  <2>3. QED BY <2>2
<1>8. Marked(end, what) \in Seq(Marks) /\ Marked(last, what) \in Seq(Marks)
  BY <1>1, <1>4, MarkedType
<1>9. ~ Revealing(p, {"trunc"}) => Marked(end, what) = <<>>
  BY DEF Marked
<1>10. Revealing(p, {"trunc"}) => end = last
  OBVIOUS
<1>11. \A a, b \in Seq(Marks) : a \o b \in Seq(Marks) /\ a \o <<>> = a
  OBVIOUS
<1> HIDE DEF c, W, last, masks, end, what
<1>12. DrawnSince(p, d) \in Seq(Marks)
  BY <1>2, <1>5, <1>8, <1>11
<1>13. Begins(DrawnSince(p, d), masks(W) \o Marked(last, what))
  <2>1. CASE Revealing(p, {"trunc"})
    <3>1. DrawnSince(p, d) = masks(W) \o Marked(last, what)
      BY <1>2, <1>7, <1>10, <2>1
    <3>2. QED BY <1>12, <3>1, BeginsTypes
  <2>2. CASE ~ Revealing(p, {"trunc"})
    <3>1. DrawnSince(p, d) = masks(Masked(p))
      BY <1>2, <1>5, <1>9, <1>11, <2>2
    <3>2. Begins(masks(W), masks(W) \o Marked(last, what))
      BY <1>5, <1>8, BeginsTypes
    <3>3. masks(W) \o Marked(last, what) \in Seq(Marks)
      BY <1>5, <1>8, <1>11
    <3>4. QED BY <1>5, <1>6, <3>1, <3>2, <3>3, BeginsThrough
  <2>3. QED BY <2>1, <2>2
<1>14. QED BY <1>3, <1>12, <1>13 DEF c

-----------------------------------------------------------------------------

\* What a party has drawn from a stream begins what the whole program draws from it.
LEMMA ProgramBegins ==
  ASSUME IInv, NEW p \in Parties, NEW s \in Parties \ {p}
  PROVE  /\ drawn[p][s] \in Seq(Marks)
         /\ Plan(prog)[Len(prog)].drawn[seed_of(p, s)] \in Seq(Marks)
         /\ Begins(drawn[p][s], Plan(prog)[Len(prog)].drawn[seed_of(p, s)])
<1> DEFINE d == seed_of(p, s)
           all == Plan(prog)[Len(prog)].drawn[d]
           before == Before(p).drawn[d]
           since == DrawnSince(p, d)
<1>1. Types /\ PlaceOK(p) /\ DrawnOK(p)
  BY DEF IInv
<1>2. d \in Seeds /\ prog \in Programs /\ PlanFacts(prog)
  BY <1>1, SeedFacts, PlaceType, PlanRight
<1>3. at[p] \in 1 .. Len(prog) + 1 /\ Len(prog) \in Nat
  BY <1>1, PlaceType
<1>4. Len(prog) \in 0 .. Len(prog) /\ at[p] - 1 \in 0 .. Len(prog)
  BY <1>3
<1>5. \A n \in 0 .. Len(prog) : Plan(prog)[n].drawn[d] \in Seq(Marks)
  <2>1. ASSUME NEW n \in 0 .. Len(prog) PROVE Plan(prog)[n].drawn[d] \in Seq(Marks)
    <3>1. Plan(prog)[n] \in Works
      BY <1>2 DEF PlanFacts
    <3>2. Plan(prog)[n].drawn \in [Seeds -> Seq(Marks)]
      BY <3>1 DEF Works
    <3>3. QED BY <1>2, <3>2
  <2>2. QED BY <2>1
<1>6. before \in Seq(Marks) /\ all \in Seq(Marks)
  BY <1>4, <1>5 DEF Before
<1>7. drawn[p][s] \in Seq(Marks)
  BY <1>1 DEF Types
<1>8. drawn[p][s] = before \o since
  BY <1>1 DEF DrawnOK
<1>9. CASE Finished(p)
  <2>1. since = <<>>
    BY <1>9 DEF DrawnSince
  <2>2. at[p] - 1 = Len(prog)
    BY <1>3, <1>9 DEF Finished
  <2>3. before = all
    BY <2>2 DEF Before
  <2> HIDE DEF before, since, all
  <2>4. before \o <<>> = before
    BY <1>6
  <2>5. drawn[p][s] = all
    BY <1>8, <2>1, <2>3, <2>4
  <2>6. Begins(drawn[p][s], all)
    BY <1>6, <2>5, BeginsTypes
  <2>7. QED BY <1>6, <1>7, <2>6 DEF all
<1>10. CASE ~ Finished(p)
  <2> DEFINE draws == CallDraws(at[p], Call(p), Before(p).parted, d)
             next == Plan(prog)[at[p]].drawn[d]
  <2>1. at[p] \in 1 .. Len(prog) /\ at[p] \in Nat /\ CallFacts(Call(p), at[p])
    BY <1>1, <1>10, PlaceType
  <2>2. draws \in Seq(Marks)
    BY <2>1, CallDrawsType
  <2>3. since \in Seq(Marks) /\ Begins(since, draws)
    BY <1>1, <1>10, CallBegins
  <2>4. next = before \o draws
    <3>1. Plan(prog)[at[p]] = After(at[p], Call(p), Before(p))
      BY <1>2, <2>1 DEF PlanFacts, Before, Call
    <3>2. Plan(prog)[at[p]].drawn
            = [e \in Seeds |-> Before(p).drawn[e] \o CallDraws(at[p], Call(p), Before(p).parted, e)]
      BY <3>1 DEF After
    <3>3. QED BY <1>2, <3>2
  <2>5. at[p] \in 0 .. Len(prog)
    BY <2>1
  <2>6. next \in Seq(Marks)
    BY <1>5, <2>5
  <2>7. Begins(next, all)
    BY <1>2, <2>5, PlanBegins
  <2> HIDE DEF before, since, all, draws, next
  <2>8. Begins(before \o since, next)
    BY <1>6, <2>2, <2>3, <2>4, BeginsAfter
  <2>9. Begins(drawn[p][s], all)
    BY <1>6, <1>7, <1>8, <2>6, <2>7, <2>8, BeginsThrough
  <2>10. QED BY <1>6, <1>7, <2>9 DEF all
<1>11. QED BY <1>9, <1>10

\* Two beginnings of one sequence: one of them begins the other.
LEMMA PairsInStep ==
  ASSUME IInv
  PROVE  StreamsPaired
<1>1. ASSUME NEW p \in Parties, NEW q \in Parties, p # q
      PROVE  IsPrefix(drawn[p][q], drawn[q][p]) \/ IsPrefix(drawn[q][p], drawn[p][q])
  <2> DEFINE a == drawn[p][q]
             b == drawn[q][p]
             all == Plan(prog)[Len(prog)].drawn[seed_of(p, q)]
  <2>1. a \in Seq(Marks) /\ all \in Seq(Marks) /\ Begins(a, all)
    BY <1>1, ProgramBegins
  <2>2. b \in Seq(Marks) /\ Begins(b, all)
    <3>1. seed_of(q, p) = seed_of(p, q)
      BY SeedFacts
    <3>2. p \in Parties \ {q}
      BY <1>1
    <3>3. /\ b \in Seq(Marks)
          /\ Begins(b, Plan(prog)[Len(prog)].drawn[seed_of(q, p)])
      BY <3>2, ProgramBegins
    <3>4. QED BY <3>1, <3>3
  <2> HIDE DEF a, b, all
  <2>3. Len(a) <= Len(b) \/ Len(b) <= Len(a)
    <3>1. Len(a) \in Nat /\ Len(b) \in Nat
      BY <2>1, <2>2
    <3>2. QED BY <3>1
  <2>4. IsPrefix(a, b) \/ IsPrefix(b, a)
    BY <2>1, <2>2, <2>3, Comparable
  <2>5. QED BY <2>4 DEF a, b
<1>2. QED BY <1>1 DEF StreamsPaired

\* The places of the generators, from the invariant.
LEMMA FreshAlways ==
  ASSUME IInv
  PROVE  MasksFresh
<1>1. \A p \in Parties : RngOK(p, rng[p], drawn[p])
  BY DEF IInv
<1>2. QED BY <1>1 DEF RngOK, MasksFresh

\* The end, from the invariant: every party has the plan of the whole program behind it.
LEMMA EndsRight ==
  ASSUME IInv
  PROVE  EndsInStep
<1> DEFINE all == Plan(prog)[Len(prog)]
<1> SUFFICES ASSUME \A p \in Parties : Finished(p)
             PROVE  /\ \A p, q \in Parties : p # q => rng[p].prg_states[q] = rng[q].prg_states[p]
                    /\ \A c \in Links : wire[c] = <<>>
  BY DEF EndsInStep
<1>1. Types /\ LinksOK
  BY DEF IInv
<1>2. ASSUME NEW p \in Parties
      PROVE  /\ Before(p) = all /\ stage[p] # "reveal"
             /\ Had(p) = all.dealt /\ Answers(p) = all.reveals /\ Reveals(p) = all.reveals
             /\ all.dealt \in Nat /\ all.reveals \in Nat
  <2>1. at[p] - 1 = Len(prog)
    <3>1. at[p] \in 1 .. Len(prog) + 1 /\ Len(prog) \in Nat
      BY <1>1, PlaceType
    <3>2. QED BY <3>1 DEF Finished
  <2>2. Before(p) = all
    BY <2>1 DEF Before
  <2>3. stage[p] # "reveal"
    BY DEF IInv, PlaceOK
  <2>4. all.dealt \in Nat /\ all.reveals \in Nat
    BY <1>1, <2>2, BeforeType
  <2> HIDE DEF all
  <2>5. Had(p) = all.dealt
    <3>1. Had(p) = all.dealt + 0
      BY <2>2, <2>3 DEF Had, Revealing
    <3>2. QED BY <2>4, <3>1
  <2>6. Answers(p) = all.reveals
    <3>1. Answers(p) = all.reveals + 0
      BY <2>2 DEF Answers
    <3>2. QED BY <2>4, <3>1
  <2>7. Reveals(p) = all.reveals
    <3>1. Reveals(p) = all.reveals + 0
      BY <2>3, <2>6 DEF Reveals
    <3>2. QED BY <2>4, <3>1
  <2>8. QED BY <2>2, <2>3, <2>4, <2>5, <2>6, <2>7
<1>3. ASSUME NEW p \in Parties, NEW q \in Parties, p # q
      PROVE  rng[p].prg_states[q] = rng[q].prg_states[p]
  <2>1. seed_of(p, q) = seed_of(q, p)
    BY SeedFacts
  <2>2. \A u, w \in Parties : u # w => drawn[u][w] = all.drawn[seed_of(u, w)] \o <<>>
    <3>1. ASSUME NEW u \in Parties, NEW w \in Parties, u # w
          PROVE  drawn[u][w] = all.drawn[seed_of(u, w)] \o <<>>
      <4>1. DrawnOK(u) /\ w \in Parties \ {u}
        BY <3>1 DEF IInv
      <4>2. drawn[u][w] = Before(u).drawn[seed_of(u, w)] \o DrawnSince(u, seed_of(u, w))
        BY <4>1 DEF DrawnOK
      <4>3. DrawnSince(u, seed_of(u, w)) = <<>>
        BY DEF DrawnSince
      <4> HIDE DEF all
      <4>4. QED BY <1>2, <4>2, <4>3
    <3>2. QED BY <3>1
  <2> HIDE DEF all
  <2>3. drawn[p][q] = drawn[q][p]
    <3>1. drawn[p][q] = all.drawn[seed_of(p, q)] \o <<>>
      BY <1>3, <2>2
    <3>2. drawn[q][p] = all.drawn[seed_of(q, p)] \o <<>>
      BY <1>3, <2>2
    <3>3. QED BY <2>1, <3>1, <3>2
  <2>4. MasksFresh
    BY FreshAlways
  <2>5. rng[p].prg_states[q] = [seed |-> seed_of(p, q), next |-> Len(drawn[p][q]) + 1]
    BY <2>4 DEF MasksFresh
  <2>6. rng[q].prg_states[p] = [seed |-> seed_of(q, p), next |-> Len(drawn[q][p]) + 1]
    BY <2>4 DEF MasksFresh
  <2>7. QED BY <2>1, <2>3, <2>5, <2>6
<1> HIDE DEF all
<1>4. ASSUME NEW c \in Links PROVE wire[c] = <<>>
  <2>1. wire[c] \in Seq(Residues) /\ Len(wire[c]) \in Nat
    BY <1>1 DEF Types, TypeOK
  <2>2. 0 \in Parties /\ 1 \in Parties
    BY HelperFacts
  <2>3. CASE c = <<0, 1>>
    <3>1. Len(wire[c]) + all.dealt = all.dealt
      BY <1>1, <1>2, <2>2, <2>3 DEF LinksOK
    <3>2. Len(wire[c]) = 0
      BY <1>2, <2>1, <2>2, <3>1
    <3>3. QED BY <2>1, <3>2
  <2>4. ASSUME NEW q \in Helpers, c = <<q, 1>> PROVE wire[c] = <<>>
    <3>1. Len(wire[c]) + all.reveals = all.reveals
      BY <1>1, <1>2, <2>2, <2>4, HelperFacts DEF LinksOK
    <3>2. Len(wire[c]) = 0
      BY <1>2, <2>1, <2>2, <3>1
    <3>3. QED BY <2>1, <3>2
  <2>5. ASSUME NEW q \in Helpers, c = <<1, q>> PROVE wire[c] = <<>>
    <3>1. Len(wire[c]) + all.reveals = all.reveals
      BY <1>1, <1>2, <2>2, <2>5, HelperFacts DEF LinksOK
    <3>2. Len(wire[c]) = 0
      BY <1>2, <2>1, <2>2, <3>1
    <3>3. QED BY <2>1, <3>2
  <2>6. CASE ~ Used(c)
    BY <1>1, <2>6 DEF LinksOK
  <2>7. QED BY <2>3, <2>4, <2>5, <2>6 DEF Used
<1>5. QED BY <1>3, <1>4

-----------------------------------------------------------------------------

\* Every share, partition, mask and message is a residue, and a tensor has both parts
\* of a partition or neither: whatever the program, the tape and the interleaving.
THEOREM TypeCorrect == Spec => []TypeOK
<1>1. IInv => TypeOK
  BY DEF IInv, Types
<1>2. QED BY <1>1, AlwaysRight, PTL

\* No party draws a number of a stream twice or skips one: switching streams keeps the
\* state of the one that is left (switch_seed, restore_seed of MPCRandomness).
THEOREM NoMaskTwice == Spec => []MasksFresh
<1>1. QED BY FreshAlways, AlwaysRight, PTL

\* Two parties use the numbers of their stream for the same things in the same order,
\* however far one is ahead of the other.
THEOREM StreamsStayPaired == Spec => []StreamsPaired
<1>1. QED BY PairsInStep, AlwaysRight, PTL

\* Parties that have all ended are at one place in every stream, and no link has a
\* value left on it.
THEOREM ProgramsEndInStep == Spec => []EndsInStep
<1>1. QED BY EndsRight, AlwaysRight, PTL

-----------------------------------------------------------------------------
(***************************************************************************)
(* What the program and the tape determine.  Nothing below names a state:  *)
(* it is the arithmetic of the sharing, and the ideal execution of a       *)
(* program, one call after another for all parties together, which         *)
(* SharesProofs shows that every behaviour follows.                        *)
(***************************************************************************)

-----------------------------------------------------------------------------
(***************************************************************************)
(* Numbers of the same remainder.                                          *)
(***************************************************************************)

Rem(a) == a % Modulus

LEMMA RemType ==
  ASSUME NEW a \in Int
  PROVE  Rem(a) \in Residues /\ Rem(a) \in Int
<1>1. a % Modulus \in 0 .. Modulus - 1
  BY Sizes, ModType
<1>2. QED BY <1>1, Sizes DEF Rem

LEMMA RemReduced ==
  ASSUME NEW a \in Residues
  PROVE  Rem(a) = a
<1>1. a % Modulus = a
  BY Sizes, SmallMod
<1>2. QED BY <1>1 DEF Rem

\* Numbers of one remainder differ by a multiple of the modulus.
LEMMA RemApart ==
  ASSUME NEW a \in Int, NEW b \in Int, Rem(a) = Rem(b)
  PROVE  \E q \in Int : a = b + q * Modulus
<1>1. PICK q1 \in Int : a = q1 * Modulus + (a % Modulus)
  BY Sizes, ModQuotient
<1>2. PICK q2 \in Int : b = q2 * Modulus + (b % Modulus)
  BY Sizes, ModQuotient
<1>3. a % Modulus = b % Modulus /\ a % Modulus \in Int
  BY Sizes, ModType DEF Rem
<1> DEFINE m == a % Modulus
<1>4. a = q1 * Modulus + m /\ b = q2 * Modulus + m
  BY <1>1, <1>2, <1>3
<1>5. m \in Int /\ Modulus \in Int
  BY <1>3, Sizes
<1> HIDE DEF m
<1>6. a = b + (q1 - q2) * Modulus
  BY <1>4, <1>5
<1>7. q1 - q2 \in Int
  OBVIOUS
<1>8. QED BY <1>6, <1>7

LEMMA RemShift ==
  ASSUME NEW a \in Int, NEW q \in Int
  PROVE  Rem(a + q * Modulus) = Rem(a)
  BY Sizes, ModShift DEF Rem

LEMMA RemPlus ==
  ASSUME NEW a \in Int, NEW b \in Int, NEW c \in Int, NEW d \in Int,
         Rem(a) = Rem(c), Rem(b) = Rem(d)
  PROVE  Rem(a + b) = Rem(c + d)
<1>1. PICK q1 \in Int : a = c + q1 * Modulus
  BY RemApart
<1>2. PICK q2 \in Int : b = d + q2 * Modulus
  BY RemApart
<1>3. a + b = (c + d) + (q1 + q2) * Modulus
  BY <1>1, <1>2, Sizes
<1>4. c + d \in Int /\ q1 + q2 \in Int
  OBVIOUS
<1>5. QED BY <1>3, <1>4, RemShift

LEMMA RemMore ==
  ASSUME NEW a \in Int, NEW b \in Int, NEW c \in Int, Rem(a) = Rem(c)
  PROVE  Rem(a + b) = Rem(c + b)
<1>1. Rem(b) = Rem(b)
  OBVIOUS
<1>2. QED BY <1>1, RemPlus

LEMMA RemPlusOne ==
  ASSUME NEW a \in Int, NEW b \in Int, NEW c \in Int, Rem(a) = Rem(c)
  PROVE  Rem(b + a) = Rem(b + c)
<1>1. Rem(b) = Rem(b)
  OBVIOUS
<1>2. QED BY <1>1, RemPlus

LEMMA RemMinus ==
  ASSUME NEW a \in Int, NEW b \in Int, NEW c \in Int, NEW d \in Int,
         Rem(a) = Rem(c), Rem(b) = Rem(d)
  PROVE  Rem(a - b) = Rem(c - d)
<1>1. PICK q1 \in Int : a = c + q1 * Modulus
  BY RemApart
<1>2. PICK q2 \in Int : b = d + q2 * Modulus
  BY RemApart
<1>3. a - b = (c - d) + (q1 - q2) * Modulus
  BY <1>1, <1>2, Sizes
<1>4. c - d \in Int /\ q1 - q2 \in Int
  OBVIOUS
<1>5. QED BY <1>3, <1>4, RemShift

LEMMA TimesApart ==
  ASSUME NEW c \in Int, NEW d \in Int, NEW q1 \in Int, NEW q2 \in Int, NEW m \in Int
  PROVE  (c + q1 * m) * (d + q2 * m) = (c * d) + ((c * q2) + (q1 * d) + (q1 * (q2 * m))) * m
  OBVIOUS

LEMMA RemTimes ==
  ASSUME NEW a \in Int, NEW b \in Int, NEW c \in Int, NEW d \in Int,
         Rem(a) = Rem(c), Rem(b) = Rem(d)
  PROVE  Rem(a * b) = Rem(c * d)
<1>1. PICK q1 \in Int : a = c + q1 * Modulus
  BY RemApart
<1>2. PICK q2 \in Int : b = d + q2 * Modulus
  BY RemApart
<1> DEFINE q == (c * q2) + (q1 * d) + (q1 * (q2 * Modulus))
<1>3. Modulus \in Int
  BY Sizes
<1>4. a * b = (c * d) + q * Modulus
  BY <1>1, <1>2, <1>3, TimesApart
<1>5. c * d \in Int /\ q \in Int
  BY <1>3
<1> HIDE DEF q
<1>6. QED BY <1>4, <1>5, RemShift

LEMMA RemMultiple ==
  ASSUME NEW a \in Int, NEW b \in Int, NEW c \in Int, Rem(a) = Rem(c)
  PROVE  Rem(a * b) = Rem(c * b)
<1>1. Rem(b) = Rem(b)
  OBVIOUS
<1>2. QED BY <1>1, RemTimes

LEMMA RemTimesOne ==
  ASSUME NEW a \in Int, NEW b \in Int, NEW c \in Int, Rem(a) = Rem(c)
  PROVE  Rem(b * a) = Rem(b * c)
<1>1. Rem(b) = Rem(b)
  OBVIOUS
<1>2. QED BY <1>1, RemTimes

LEMMA RemRem ==
  ASSUME NEW a \in Int
  PROVE  Rem(Rem(a)) = Rem(a)
  BY RemType, RemReduced

\* The operations of the modulus, up to multiples of it.
LEMMA RemAdd ==
  ASSUME NEW a \in 0 .. 2 * Modulus - 1, NEW b \in 0 .. 2 * Modulus - 1
  PROVE  Rem(add_mod(a, b)) = Rem(a + b)
<1>1. add_mod(a, b) = Rem(a + b)
  BY AddRight DEF Rem
<1>2. a + b \in Int
  BY Sizes
<1>3. QED BY <1>1, <1>2, RemRem

LEMMA RemSub ==
  ASSUME NEW a \in Residues, NEW b \in 0 .. a + Modulus
  PROVE  Rem(sub_mod(a, b)) = Rem(a - b)
<1>1. a \in 0 .. Modulus /\ a \in Int /\ b \in Int
  BY Sizes
<1>2. sub_mod(a, b) = Rem(a - b)
  BY <1>1, SubtractRight DEF Rem
<1>3. a - b \in Int
  BY <1>1
<1>4. QED BY <1>2, <1>3, RemRem

LEMMA RemMul ==
  ASSUME NEW a \in Int, NEW b \in Int
  PROVE  Rem(mul_mod(a, b)) = Rem(a * b)
<1>1. mul_mod(a, b) = Rem(a * b)
  BY DEF mul_mod, Rem
<1>2. a * b \in Int
  OBVIOUS
<1>3. QED BY <1>1, <1>2, RemRem

\* The same for residues.
LEMMA RemResidues ==
  ASSUME NEW a \in Residues, NEW b \in Residues
  PROVE  /\ Rem(add_mod(a, b)) = Rem(a + b)
         /\ Rem(sub_mod(a, b)) = Rem(a - b)
         /\ Rem(mul_mod(a, b)) = Rem(a * b)
         /\ Rem(add_mod(a, neg_mod(b))) = Rem(a - b)
         /\ a \in Int /\ b \in Int
<1>1. /\ a \in Int /\ b \in Int /\ a \in 0 .. 2 * Modulus - 1 /\ b \in 0 .. 2 * Modulus - 1
      /\ b \in 0 .. a + Modulus
  BY Sizes
<1>2. add_mod(a, neg_mod(b)) = sub_mod(a, b)
  BY NegateRight
<1>3. QED BY <1>1, <1>2, RemAdd, RemSub, RemMul

-----------------------------------------------------------------------------
(***************************************************************************)
(* Sums over the parties.                                                  *)
(***************************************************************************)

\* The partial sums.
Sums(values) == CHOOSE sum : SumSteps(values, sum)

LEMMA SumsRight ==
  ASSUME NEW v \in Seq(Residues)
  PROVE  /\ v \in Seq(Int) /\ Len(v) \in Nat
         /\ Sums(v) \in [0 .. Len(v) -> Residues]
         /\ Sums(v)[0] = 0
         /\ SumMod(v) = Sums(v)[Len(v)]
         /\ \A i \in 1 .. Len(v) : Sums(v)[i] = add_mod(Sums(v)[i - 1], v[i])
         /\ SumMod(v) \in Residues /\ SumMod(v) \in Int
<1>1. v \in Seq(Int) /\ Len(v) \in Nat
  BY ReducedNumbers
<1>2. SumSteps(v, Sums(v))
  BY <1>1, SumModSteps DEF Sums
<1>3. Len(v) \in 0 .. Len(v)
  BY <1>1
<1>4. SumMod(v) \in Residues
  BY <1>2, <1>3 DEF SumSteps
<1>5. SumMod(v) \in Int
  BY <1>4, ResidueFacts
<1>6. QED BY <1>1, <1>2, <1>4, <1>5 DEF SumSteps

\* One more term of a sum.
LEMMA SumNext ==
  ASSUME NEW v \in Seq(Residues), NEW i \in 1 .. Len(v)
  PROVE  /\ Rem(Sums(v)[i]) = Rem(Sums(v)[i - 1] + v[i])
         /\ Sums(v)[i] \in Int /\ Sums(v)[i - 1] \in Int /\ v[i] \in Int /\ v[i] \in Residues
         /\ Sums(v)[i] \in Residues /\ Sums(v)[i - 1] \in Residues
<1>1. i \in 0 .. Len(v) /\ i - 1 \in 0 .. Len(v)
  BY SumsRight
<1>2. Sums(v)[i] \in Residues /\ Sums(v)[i - 1] \in Residues
  BY <1>1, SumsRight
<1>3. v[i] \in Residues
  OBVIOUS
<1>4. Rem(add_mod(Sums(v)[i - 1], v[i])) = Rem(Sums(v)[i - 1] + v[i])
  BY <1>2, <1>3, RemResidues
<1>5. Sums(v)[i] = add_mod(Sums(v)[i - 1], v[i])
  BY SumsRight
<1>6. QED BY <1>2, <1>3, <1>4, <1>5, ResidueFacts

\* h is a times f and b times g.
Mixed(h, a, f, b, g) == Rem(h) = Rem(a * f + b * g)

LEMMA MixedNext ==
  ASSUME NEW a \in Int, NEW b \in Int, NEW h \in Int, NEW f \in Int, NEW g \in Int,
         NEW h1 \in Int, NEW f1 \in Int, NEW g1 \in Int, NEW h2 \in Int, NEW f2 \in Int, NEW g2 \in Int,
         Mixed(h, a, f, b, g), Mixed(h1, a, f1, b, g1),
         Rem(h2) = Rem(h + h1), Rem(f2) = Rem(f + f1), Rem(g2) = Rem(g + g1)
  PROVE  Mixed(h2, a, f2, b, g2)
<1>1. /\ a * f + b * g \in Int /\ a * f1 + b * g1 \in Int /\ f + f1 \in Int /\ g + g1 \in Int
      /\ a * (f + f1) \in Int /\ b * (g + g1) \in Int /\ a * f2 \in Int /\ b * g2 \in Int
  OBVIOUS
<1>2. Rem(h + h1) = Rem((a * f + b * g) + (a * f1 + b * g1))
  BY <1>1, RemPlus DEF Mixed
<1>3. (a * f + b * g) + (a * f1 + b * g1) = a * (f + f1) + b * (g + g1)
  OBVIOUS
<1>4. Rem(a * f2) = Rem(a * (f + f1)) /\ Rem(b * g2) = Rem(b * (g + g1))
  BY <1>1, RemTimes
<1>5. Rem(a * f2 + b * g2) = Rem(a * (f + f1) + b * (g + g1))
  BY <1>1, <1>4, RemPlus
<1>6. QED BY <1>2, <1>3, <1>5 DEF Mixed

\* A sum is linear.
LEMMA SumLinear ==
  ASSUME NEW a \in Int, NEW b \in Int,
         NEW h \in Seq(Residues), NEW f \in Seq(Residues), NEW g \in Seq(Residues),
         Len(f) = Len(h), Len(g) = Len(h),
         \A i \in 1 .. Len(h) : Mixed(h[i], a, f[i], b, g[i])
  PROVE  Mixed(SumMod(h), a, SumMod(f), b, SumMod(g))
<1> DEFINE n == Len(h)
           S == {i \in 0 .. n : Mixed(Sums(h)[i], a, Sums(f)[i], b, Sums(g)[i])}
<1>1. n \in Nat /\ 0 \in 0 .. n /\ n \in 0 .. n
  BY SumsRight
<1>2. 0 \in S
  <2>1. Sums(h)[0] = 0 /\ Sums(f)[0] = 0 /\ Sums(g)[0] = 0
    BY SumsRight
  <2>2. a * 0 + b * 0 = 0
    OBVIOUS
  <2>3. Mixed(0, a, 0, b, 0)
    BY <2>2 DEF Mixed
  <2>4. QED BY <1>1, <2>1, <2>3
<1>3. ASSUME NEW i \in 1 .. n, i - 1 \in S PROVE i \in S
  <2>1. i \in 1 .. Len(h) /\ i \in 1 .. Len(f) /\ i \in 1 .. Len(g)
    OBVIOUS
  <2>2. Mixed(Sums(h)[i - 1], a, Sums(f)[i - 1], b, Sums(g)[i - 1]) /\ Mixed(h[i], a, f[i], b, g[i])
    BY <1>3, <2>1
  <2>3. /\ Rem(Sums(h)[i]) = Rem(Sums(h)[i - 1] + h[i])
        /\ Sums(h)[i] \in Int /\ Sums(h)[i - 1] \in Int /\ h[i] \in Int
    BY <2>1, SumNext
  <2>4. /\ Rem(Sums(f)[i]) = Rem(Sums(f)[i - 1] + f[i])
        /\ Sums(f)[i] \in Int /\ Sums(f)[i - 1] \in Int /\ f[i] \in Int
    BY <2>1, SumNext
  <2>5. /\ Rem(Sums(g)[i]) = Rem(Sums(g)[i - 1] + g[i])
        /\ Sums(g)[i] \in Int /\ Sums(g)[i - 1] \in Int /\ g[i] \in Int
    BY <2>1, SumNext
  <2>6. Mixed(Sums(h)[i], a, Sums(f)[i], b, Sums(g)[i])
    <3> DEFINE h0 == Sums(h)[i - 1]  h1 == h[i]  h2 == Sums(h)[i]
               f0 == Sums(f)[i - 1]  f1 == f[i]  f2 == Sums(f)[i]
               g0 == Sums(g)[i - 1]  g1 == g[i]  g2 == Sums(g)[i]
    <3>1. /\ h0 \in Int /\ h1 \in Int /\ h2 \in Int /\ f0 \in Int /\ f1 \in Int /\ f2 \in Int
          /\ g0 \in Int /\ g1 \in Int /\ g2 \in Int
          /\ Mixed(h0, a, f0, b, g0) /\ Mixed(h1, a, f1, b, g1)
          /\ Rem(h2) = Rem(h0 + h1) /\ Rem(f2) = Rem(f0 + f1) /\ Rem(g2) = Rem(g0 + g1)
      BY <2>2, <2>3, <2>4, <2>5
    <3> HIDE DEF h0, h1, h2, f0, f1, f2, g0, g1, g2
    <3>2. Mixed(h2, a, f2, b, g2)
      BY <3>1, MixedNext
    <3>3. QED BY <3>2 DEF h2, f2, g2
  <2>7. i \in 0 .. n
    BY <1>1
  <2>8. QED BY <2>6, <2>7
<1>4. n \in S
  <2> HIDE DEF S, n
  <2>1. 0 .. n \subseteq S
    BY <1>1, <1>2, <1>3, InductionTo
  <2>2. QED BY <1>1, <2>1
<1>5. QED BY <1>4, SumsRight

\* Terms of the same remainder.
LEMMA SumSame ==
  ASSUME NEW h \in Seq(Residues), NEW f \in Seq(Residues), Len(f) = Len(h),
         \A i \in 1 .. Len(h) : Rem(h[i]) = Rem(f[i])
  PROVE  Rem(SumMod(h)) = Rem(SumMod(f))
<1>1. ASSUME NEW a \in Int PROVE 1 * a + 0 * a = a
  OBVIOUS
<1>2. ASSUME NEW i \in 1 .. Len(h) PROVE Mixed(h[i], 1, f[i], 0, f[i])
  <2>1. f[i] \in Int
    BY SumNext
  <2>2. QED BY <1>1, <2>1 DEF Mixed
<1>3. 1 \in Int /\ 0 \in Int
  OBVIOUS
<1>5. Mixed(SumMod(h), 1, SumMod(f), 0, SumMod(f))
  <2> HIDE DEF Mixed
  <2>1. QED BY <1>2, <1>3, SumLinear
<1>4. QED BY <1>1, <1>5, SumsRight DEF Mixed

\* Sums of sums.
LEMMA SumPlus ==
  ASSUME NEW h \in Seq(Residues), NEW f \in Seq(Residues), NEW g \in Seq(Residues),
         Len(f) = Len(h), Len(g) = Len(h),
         \A i \in 1 .. Len(h) : Rem(h[i]) = Rem(f[i] + g[i])
  PROVE  Rem(SumMod(h)) = Rem(SumMod(f) + SumMod(g))
<1>1. ASSUME NEW a \in Int, NEW b \in Int PROVE 1 * a + 1 * b = a + b
  OBVIOUS
<1>2. ASSUME NEW i \in 1 .. Len(h) PROVE Mixed(h[i], 1, f[i], 1, g[i])
  <2>1. f[i] \in Int /\ g[i] \in Int
    BY SumNext
  <2>2. QED BY <1>1, <2>1 DEF Mixed
<1>3. 1 \in Int
  OBVIOUS
<1>5. Mixed(SumMod(h), 1, SumMod(f), 1, SumMod(g))
  <2> HIDE DEF Mixed
  <2>1. QED BY <1>2, <1>3, SumLinear
<1>4. QED BY <1>1, <1>5, SumsRight DEF Mixed

LEMMA SumMinus ==
  ASSUME NEW h \in Seq(Residues), NEW f \in Seq(Residues), NEW g \in Seq(Residues),
         Len(f) = Len(h), Len(g) = Len(h),
         \A i \in 1 .. Len(h) : Rem(h[i]) = Rem(f[i] - g[i])
  PROVE  Rem(SumMod(h)) = Rem(SumMod(f) - SumMod(g))
<1>1. ASSUME NEW a \in Int, NEW b \in Int PROVE 1 * a + (-1) * b = a - b
  OBVIOUS
<1>2. ASSUME NEW i \in 1 .. Len(h) PROVE Mixed(h[i], 1, f[i], -1, g[i])
  <2>1. f[i] \in Int /\ g[i] \in Int
    BY SumNext
  <2>2. QED BY <1>1, <2>1 DEF Mixed
<1>3. -1 \in Int /\ 1 \in Int
  OBVIOUS
<1>4. Mixed(SumMod(h), 1, SumMod(f), -1, SumMod(g))
  BY <1>2, <1>3, SumLinear
<1>5. QED BY <1>1, <1>4, SumsRight DEF Mixed

LEMMA SumTimes ==
  ASSUME NEW a \in Int, NEW h \in Seq(Residues), NEW f \in Seq(Residues), Len(f) = Len(h),
         \A i \in 1 .. Len(h) : Rem(h[i]) = Rem(a * f[i])
  PROVE  Rem(SumMod(h)) = Rem(a * SumMod(f))
<1>1. ASSUME NEW b \in Int PROVE a * b + 0 * b = a * b
  OBVIOUS
<1>2. ASSUME NEW i \in 1 .. Len(h) PROVE Mixed(h[i], a, f[i], 0, f[i])
  <2>1. f[i] \in Int
    BY SumNext
  <2>2. QED BY <1>1, <2>1 DEF Mixed
<1>3. 0 \in Int
  OBVIOUS
<1>5. Mixed(SumMod(h), a, SumMod(f), 0, SumMod(f))
  <2> HIDE DEF Mixed
  <2>1. QED BY <1>2, <1>3, SumLinear
<1>4. QED BY <1>1, <1>5, SumsRight DEF Mixed

\* v is added by the first party only.
LEMMA SumHub ==
  ASSUME NEW h \in Seq(Residues), NEW f \in Seq(Residues), NEW v \in Int,
         Len(f) = Len(h), Len(h) >= 1, Rem(h[1]) = Rem(f[1] + v),
         \A i \in 2 .. Len(h) : Rem(h[i]) = Rem(f[i])
  PROVE  Rem(SumMod(h)) = Rem(SumMod(f) + v)
<1> DEFINE n == Len(h)
           S == {i \in 0 .. n : i >= 1 => Rem(Sums(h)[i]) = Rem(Sums(f)[i] + v)}
<1>1. n \in Nat /\ 0 \in 0 .. n /\ n \in 0 .. n /\ n >= 1
  BY SumsRight
<1>2. 0 \in S
  BY <1>1
<1>3. ASSUME NEW i \in 1 .. n, i - 1 \in S PROVE i \in S
  <2>1. i \in 1 .. Len(h) /\ i \in 1 .. Len(f) /\ i \in 0 .. n
    BY <1>1
  <2> DEFINE h0 == Sums(h)[i - 1]  h1 == h[i]  h2 == Sums(h)[i]
             f0 == Sums(f)[i - 1]  f1 == f[i]  f2 == Sums(f)[i]
  <2>2. Rem(h2) = Rem(h0 + h1) /\ h0 \in Int /\ h1 \in Int /\ h2 \in Int
    BY <2>1, SumNext
  <2>3. Rem(f2) = Rem(f0 + f1) /\ f0 \in Int /\ f1 \in Int /\ f2 \in Int
    BY <2>1, SumNext
  <2>4. Rem(h2) = Rem(f2 + v)
    <3>1. CASE i = 1
      <4>1. h0 = 0 /\ f0 = 0
        BY <3>1, SumsRight
      <4>2. Rem(h1) = Rem(f1 + v)
        BY <3>1
      <4> HIDE DEF h0, h1, h2, f0, f1, f2
      <4>3. Rem(h2) = Rem(h1) /\ Rem(f2) = Rem(f1)
        BY <2>2, <2>3, <4>1
      <4>4. Rem(f2 + v) = Rem(f1 + v)
        BY <2>3, <4>3, RemMore
      <4>5. QED BY <4>2, <4>3, <4>4
    <3>2. CASE i # 1
      <4>1. i - 1 >= 1 /\ i \in 2 .. Len(h)
        BY <3>2
      <4>2. Rem(h0) = Rem(f0 + v) /\ Rem(h1) = Rem(f1)
        BY <1>3, <4>1
      <4> HIDE DEF h0, h1, h2, f0, f1, f2
      <4>3. f0 + v \in Int /\ f0 + f1 \in Int
        BY <2>3
      <4>4. Rem(h0 + h1) = Rem((f0 + v) + f1)
        BY <2>2, <2>3, <4>2, <4>3, RemPlus
      <4>5. (f0 + v) + f1 = (f0 + f1) + v
        BY <2>3
      <4>6. Rem(f2 + v) = Rem((f0 + f1) + v)
        BY <2>3, <4>3, RemMore
      <4>7. QED BY <2>2, <4>4, <4>5, <4>6
    <3>3. QED BY <3>1, <3>2
  <2>5. QED BY <2>1, <2>4
<1>4. n \in S
  <2> HIDE DEF S, n
  <2>1. 0 .. n \subseteq S
    BY <1>1, <1>2, <1>3, InductionTo
  <2>2. QED BY <1>1, <2>1
<1>5. QED BY <1>1, <1>4, SumsRight

\* A sum without its s-th term.
Without(f, s, g) ==
  /\ s \in 1 .. Len(f) /\ Len(f) = Len(g) + 1
  /\ \A i \in 1 .. Len(g) : g[i] = f[IF i < s THEN i ELSE i + 1]

LEMMA SumSkip ==
  ASSUME NEW f \in Seq(Residues), NEW g \in Seq(Residues), NEW s, Without(f, s, g)
  PROVE  Rem(SumMod(f)) = Rem(SumMod(g) + f[s])
<1> DEFINE n == Len(f)
           v == f[s]
           S == {i \in 0 .. n : /\ i < s => Rem(Sums(f)[i]) = Rem(Sums(g)[i])
                                /\ i >= s => Rem(Sums(f)[i]) = Rem(Sums(g)[i - 1] + v)}
<1>1. n \in Nat /\ 0 \in 0 .. n /\ n \in 0 .. n /\ s \in 1 .. n /\ n = Len(g) + 1 /\ Len(g) \in Nat
  BY SumsRight DEF Without
<1>2. 0 \in S
  <2>1. Sums(f)[0] = 0 /\ Sums(g)[0] = 0
    BY SumsRight
  <2>2. ~ (0 >= s)
    BY <1>1
  <2>3. QED BY <1>1, <2>1, <2>2
<1>3. ASSUME NEW i \in 1 .. n, i - 1 \in S PROVE i \in S
  <2>1. i \in 1 .. Len(f) /\ i \in 0 .. n /\ i \in Int /\ s \in Int
    BY <1>1
  <2> DEFINE f0 == Sums(f)[i - 1]  f1 == f[i]  f2 == Sums(f)[i]
  <2>2. Rem(f2) = Rem(f0 + f1) /\ f0 \in Int /\ f1 \in Int /\ f2 \in Int
    BY <2>1, SumNext
  <2>3. CASE i < s
    <3> DEFINE g0 == Sums(g)[i - 1]  g1 == g[i]  g2 == Sums(g)[i]
    <3>1. i \in 1 .. Len(g) /\ i - 1 < s
      BY <1>1, <2>3
    <3>2. Rem(g2) = Rem(g0 + g1) /\ g0 \in Int /\ g1 \in Int /\ g2 \in Int
      BY <3>1, SumNext
    <3>3. g1 = f1
      BY <2>3, <3>1 DEF Without
    <3>4. Rem(f0) = Rem(g0)
      BY <1>3, <3>1
    <3>5. Rem(f2) = Rem(g2)
      <4> HIDE DEF f0, f1, f2, g0, g1, g2
      <4>1. Rem(f0 + f1) = Rem(g0 + g1)
        BY <2>2, <3>2, <3>3, <3>4, RemMore
      <4>2. QED BY <2>2, <3>2, <4>1
    <3>6. ~ (i >= s)
      BY <2>1, <2>3
    <3>7. QED BY <2>1, <3>5, <3>6
  <2>4. CASE i = s
    <3> DEFINE g0 == Sums(g)[i - 1]
    <3>1. i - 1 < s /\ i - 1 \in 0 .. Len(g)
      BY <1>1, <2>4
    <3>2. g0 \in Int
      BY <3>1, SumsRight, ResidueFacts
    <3>3. Rem(f0) = Rem(g0)
      BY <1>3, <3>1
    <3>4. v = f1
      BY <2>4
    <3>5. Rem(f2) = Rem(g0 + v)
      <4> HIDE DEF f0, f1, f2, g0, v
      <4>1. Rem(f0 + f1) = Rem(g0 + f1)
        BY <2>2, <3>2, <3>3, RemPlus
      <4>2. QED BY <2>2, <3>4, <4>1
    <3>6. ~ (i < s)
      BY <2>1, <2>4
    <3>7. QED BY <2>1, <3>5, <3>6
  <2>5. CASE i > s
    <3> DEFINE g0 == Sums(g)[(i - 1) - 1]  g1 == g[i - 1]  g2 == Sums(g)[i - 1]
    <3>1. i - 1 \in 1 .. Len(g) /\ i - 1 >= s /\ ~ (i - 1 < s) /\ (i - 1) + 1 = i
      BY <1>1, <2>5
    <3>2. Rem(g2) = Rem(g0 + g1) /\ g0 \in Int /\ g1 \in Int /\ g2 \in Int
      BY <3>1, SumNext
    <3>3. g1 = f1
      BY <3>1 DEF Without
    <3>4. Rem(f0) = Rem(g0 + v)
      BY <1>3, <3>1
    <3>5. v \in Int
      BY <1>1, SumNext
    <3>6. Rem(f2) = Rem(g2 + v)
      <4> HIDE DEF f0, f1, f2, g0, g1, g2, v
      <4>1. g0 + v \in Int /\ g0 + g1 \in Int
        BY <3>2, <3>5
      <4>2. Rem(f0 + f1) = Rem((g0 + v) + g1)
        BY <2>2, <3>2, <3>3, <3>4, <4>1, RemMore
      <4>3. (g0 + v) + g1 = (g0 + g1) + v
        BY <3>2, <3>5
      <4>4. Rem(g2 + v) = Rem((g0 + g1) + v)
        BY <3>2, <3>5, <4>1, RemMore
      <4>5. QED BY <2>2, <4>2, <4>3, <4>4
    <3>7. ~ (i < s)
      BY <2>1, <2>5
    <3>8. QED BY <2>1, <3>6, <3>7
  <2>6. QED BY <1>1, <2>1, <2>3, <2>4, <2>5
<1>4. n \in S
  <2> HIDE DEF S, n
  <2>1. 0 .. n \subseteq S
    BY <1>1, <1>2, <1>3, InductionTo
  <2>2. QED BY <1>1, <2>1
<1>5. n >= s /\ n - 1 = Len(g)
  BY <1>1
<1>6. QED BY <1>4, <1>5, SumsRight

\* One more term in front.
LEMMA SumFirst ==
  ASSUME NEW a \in Residues, NEW v \in Seq(Residues)
  PROVE  <<a>> \o v \in Seq(Residues) /\ Rem(SumMod(<<a>> \o v)) = Rem(SumMod(v) + a)
<1> DEFINE f == <<a>> \o v
<1>1. f \in Seq(Residues) /\ Len(f) = Len(v) + 1 /\ f[1] = a /\ Len(v) \in Nat
  OBVIOUS
<1>2. \A i \in 1 .. Len(v) : v[i] = f[i + 1]
  OBVIOUS
<1> HIDE DEF f
<1>3. ASSUME NEW i \in 1 .. Len(v) PROVE v[i] = f[IF i < 1 THEN i ELSE i + 1]
  BY <1>1, <1>2
<1>4. Without(f, 1, v)
  BY <1>1, <1>3 DEF Without
<1>5. Rem(SumMod(f)) = Rem(SumMod(v) + a)
  BY <1>1, <1>4, SumSkip
<1>6. QED BY <1>1, <1>5 DEF f

LEMMA WordNext ==
  ASSUME NEW d \in Nat, NEW n \in Nat, NEW i \in 1 .. n, n * d < Word,
         NEW a \in 0 .. (i - 1) * d, NEW b \in 0 .. d
  PROVE  Add(a, b) = a + b /\ a + b \in 0 .. i * d
<1>1. (i - 1) * d + d = i * d /\ (i - 1) * d \in Int /\ i * d \in Int /\ n * d \in Int
  OBVIOUS
<1>2. n * d = i * d + (n - i) * d /\ (n - i) * d \in Nat
  OBVIOUS
<1>3. a + b \in 0 .. i * d
  BY <1>1
<1>4. a + b \in 0 .. Word - 1
  BY <1>1, <1>2, <1>3, Sizes
<1>5. Add(a, b) = a + b
  BY <1>4, Sizes, SmallMod DEF Add
<1>6. QED BY <1>3, <1>5

\* A sum without a modulus, when it does not wrap around.
LEMMA WordsFit ==
  ASSUME NEW v \in Seq(Bits), Len(v) * (Draws - 1) < Word
  PROVE  /\ SumWords(v) \in 0 .. Len(v) * (Draws - 1)
         /\ Rem(SumWords(v)) = Rem(SumMod(v)) /\ v \in Seq(Residues)
<1> DEFINE n == Len(v)
           d == Draws - 1
<1>1. v \in Seq(Residues) /\ v \in Seq(Int) /\ n \in Nat /\ d \in Nat /\ Bits = 0 .. d
  BY BitsSeq, BitsReduced, ReducedNumbers, WordAssumption DEF Bits
<1>2. PICK sum : WordSteps(v, sum)
  BY <1>1, SumWordsSteps
<1>3. \A i \in 1 .. n : v[i] \in 0 .. d /\ sum[i] = Add(sum[i - 1], v[i])
  BY <1>1, <1>2 DEF WordSteps
<1> DEFINE S == {i \in 0 .. n : sum[i] \in 0 .. i * d /\ Rem(sum[i]) = Rem(Sums(v)[i])}
<1>4. 0 \in S
  <2>1. sum[0] = 0 /\ Sums(v)[0] = 0 /\ 0 \in 0 .. n
    BY <1>1, <1>2, SumsRight DEF WordSteps
  <2>2. 0 \in 0 .. 0 * d
    BY <1>1
  <2>3. QED BY <2>1, <2>2
<1>5. ASSUME NEW i \in 1 .. n, i - 1 \in S PROVE i \in S
  <2> DEFINE a == sum[i - 1]  b == v[i]  s == Sums(v)[i - 1]
  <2>1. a \in 0 .. (i - 1) * d /\ b \in 0 .. d /\ sum[i] = Add(a, b) /\ Rem(a) = Rem(s)
    BY <1>3, <1>5
  <2>2. Rem(Sums(v)[i]) = Rem(s + b) /\ s \in Int /\ b \in Int
    BY <1>1, SumNext
  <2>3. n * d < Word
    OBVIOUS
  <2>4. i \in 0 .. n
    BY <1>1
  <2> HIDE DEF a, b, s, n, d
  <2>5. Add(a, b) = a + b /\ a + b \in 0 .. i * d
    BY <1>1, <2>1, <2>3, WordNext
  <2>6. a \in Int
    BY <1>1, <2>1
  <2>7. Rem(a + b) = Rem(s + b)
    BY <2>1, <2>2, <2>6, RemPlus
  <2>8. QED BY <2>1, <2>2, <2>4, <2>5, <2>7
<1>6. n \in S
  <2> HIDE DEF S, n, d
  <2>1. 0 .. n \subseteq S
    BY <1>1, <1>4, <1>5, InductionTo
  <2>2. n \in 0 .. n
    BY <1>1
  <2>3. QED BY <2>1, <2>2
<1>7. SumWords(v) = sum[n] /\ SumMod(v) = Sums(v)[n]
  BY <1>1, <1>2, SumsRight DEF WordSteps
<1>8. QED BY <1>1, <1>6, <1>7

-----------------------------------------------------------------------------
(***************************************************************************)
(* Powers, and the binomial theorem.                                       *)
(***************************************************************************)

\* One more factor.
LEMMA PowNext ==
  ASSUME NEW a \in Int, NEW n \in Nat
  PROVE  /\ Rem(Pow(a, n + 1)) = Rem(Pow(a, n) * a) /\ Rem(Pow(a, 0)) = Rem(1)
         /\ Pow(a, n) \in Residues /\ Pow(a, n) \in Int
         /\ Pow(a, n + 1) \in Residues /\ Pow(a, n + 1) \in Int
<1>1. PICK f : PowSteps(a, n, f)
  BY PowHasSteps
<1>2. PICK g : PowSteps(a, n + 1, g)
  BY PowHasSteps
<1> DEFINE S == {i \in 0 .. n : f[i] = g[i]}
<1>3. 0 \in S
  BY <1>1, <1>2 DEF PowSteps
<1>4. ASSUME NEW i \in 1 .. n, i - 1 \in S PROVE i \in S
  <2>1. i \in 1 .. n + 1 /\ f[i - 1] = g[i - 1]
    BY <1>4
  <2>2. f[i] = mul_mod(f[i - 1], a) /\ g[i] = mul_mod(g[i - 1], a)
    BY <1>1, <1>2, <2>1 DEF PowSteps
  <2>3. QED BY <2>1, <2>2
<1>5. f[n] = g[n]
  <2> HIDE DEF S
  <2>1. 0 .. n \subseteq S
    BY <1>3, <1>4, InductionTo
  <2>2. n \in S
    BY <2>1
  <2>3. QED BY <2>2 DEF S
<1>6. g[n + 1] = mul_mod(g[n], a)
  <2>1. n + 1 \in 1 .. n + 1 /\ (n + 1) - 1 = n
    OBVIOUS
  <2>2. QED BY <1>2, <2>1 DEF PowSteps
<1>7. Pow(a, n + 1) = mul_mod(Pow(a, n), a)
  BY <1>1, <1>2, <1>5, <1>6 DEF PowSteps
<1>8. Pow(a, n) \in Residues /\ Pow(a, n + 1) \in Residues
  BY PowType
<1>9. Pow(a, n) \in Int /\ Pow(a, n + 1) \in Int
  BY <1>8, ResidueFacts
<1>10. Rem(Pow(a, 0)) = Rem(1)
  <2>1. PICK h : PowSteps(a, 0, h)
    BY PowHasSteps
  <2>2. Pow(a, 0) = Rem(1)
    BY <2>1 DEF PowSteps, Rem
  <2>3. QED BY <2>2, RemRem
<1>11. QED BY <1>7, <1>8, <1>9, <1>10, RemMul

\* The power of the integers.
LEMMA RaisedHasSteps ==
  ASSUME NEW a \in Int, NEW n \in Nat
  PROVE  \E f \in [0 .. n -> Int] :
           f[0] = 1 /\ Raised(a, n) = f[n] /\ \A i \in 1 .. n : f[i] = f[i - 1] * a
<1> DEFINE G == [c \in (1 .. n) \X Int |-> c[2] * a]
           IsPow(s) == s = [i \in 0 .. n |-> IF i = 0 THEN 1 ELSE s[i - 1] * a]
<1>1. G \in [(1 .. n) \X Int -> Int] /\ 1 \in Int
  OBVIOUS
<1>2. RecursionUpTo(Int, 1, n, G)
  <2> HIDE DEF G
  <2>1. QED BY <1>1, RecursionTo
<1>3. PICK f \in [0 .. n -> Int] : f = [i \in 0 .. n |-> IF i = 0 THEN 1 ELSE G[<<i, f[i - 1]>>]]
  BY <1>2 DEF RecursionUpTo
<1>4. IsPow(f)
  <2>1. ASSUME NEW i \in 0 .. n, i # 0 PROVE G[<<i, f[i - 1]>>] = f[i - 1] * a
    <3>1. i \in 1 .. n /\ i - 1 \in 0 .. n
      BY <2>1
    <3>2. <<i, f[i - 1]>> \in (1 .. n) \X Int
      BY <3>1
    <3>3. QED BY <3>2
  <2> HIDE DEF G
  <2>2. QED BY <1>3, <2>1
<1> DEFINE g == CHOOSE s : IsPow(s)
<1>5. IsPow(g)
  <2> HIDE DEF IsPow
  <2>1. QED BY <1>4
<1>6. Raised(a, n) = g[n]
  BY DEF Raised
<1> HIDE DEF g
<1>7. g[0] = 1 /\ DOMAIN g = 0 .. n /\ \A i \in 1 .. n : g[i] = g[i - 1] * a
  <2>1. 0 \in 0 .. n /\ \A i \in 1 .. n : i \in 0 .. n /\ i # 0
    OBVIOUS
  <2>2. QED BY <1>5, <2>1
<1> DEFINE Good == {i \in 0 .. n : g[i] \in Int}
<1>8. 0 \in Good
  BY <1>7
<1>9. ASSUME NEW i \in 1 .. n, i - 1 \in Good PROVE i \in Good
  BY <1>7, <1>9
<1>10. 0 .. n \subseteq Good
  <2> HIDE DEF Good
  <2>1. QED BY <1>8, <1>9, InductionTo
<1>11. g \in [0 .. n -> Int]
  <2>1. g = [i \in 0 .. n |-> g[i]]
    BY <1>5, <1>7
  <2>2. QED BY <1>10, <2>1
<1>12. QED BY <1>6, <1>7, <1>11

\* A power of the modulus is the integers' power of any number of the same remainder.
LEMMA PowRaised ==
  ASSUME NEW a \in Int, NEW b \in Int, Rem(a) = Rem(b), NEW n \in Nat
  PROVE  Rem(Pow(a, n)) = Rem(Raised(b, n)) /\ Raised(b, n) \in Int
<1>1. PICK f : PowSteps(a, n, f)
  BY PowHasSteps
<1>2. PICK g \in [0 .. n -> Int] :
        g[0] = 1 /\ Raised(b, n) = g[n] /\ \A i \in 1 .. n : g[i] = g[i - 1] * b
  BY RaisedHasSteps
<1> DEFINE S == {i \in 0 .. n : Rem(f[i]) = Rem(g[i])}
<1>3. 0 \in S
  <2>1. f[0] = Rem(1)
    BY <1>1 DEF PowSteps, Rem
  <2>2. Rem(f[0]) = Rem(1)
    BY <2>1, RemRem
  <2>3. QED BY <1>2, <2>2
<1>4. ASSUME NEW i \in 1 .. n, i - 1 \in S PROVE i \in S
  <2>1. f[i] = mul_mod(f[i - 1], a) /\ g[i] = g[i - 1] * b /\ Rem(f[i - 1]) = Rem(g[i - 1])
    BY <1>1, <1>2, <1>4 DEF PowSteps
  <2>2. f[i - 1] \in Residues /\ g[i - 1] \in Int
    BY <1>1, <1>2 DEF PowSteps
  <2>3. f[i - 1] \in Int
    BY <2>2, ResidueFacts
  <2>4. Rem(f[i - 1] * a) = Rem(g[i - 1] * b)
    BY <2>1, <2>2, <2>3, RemTimes
  <2>5. Rem(f[i]) = Rem(f[i - 1] * a)
    BY <2>1, <2>3, RemMul
  <2>6. QED BY <2>1, <2>4, <2>5
<1>5. n \in S
  <2> HIDE DEF S
  <2>1. 0 .. n \subseteq S
    BY <1>3, <1>4, InductionTo
  <2>2. QED BY <2>1
<1>6. QED BY <1>1, <1>2, <1>5 DEF PowSteps

\* The coefficients.
LEMMA PascalNext ==
  ASSUME NEW n \in Nat
  PROVE  /\ pascal_matrix[n][0] = 1 /\ pascal_matrix[n][n] = 1
         /\ \A j \in 1 .. n :
              pascal_matrix[n + 1][j] = pascal_matrix[n][j - 1] + pascal_matrix[n][j]
<1>1. pascal_matrix[n] = PascalRow(n, pascal_matrix[n - 1])
  BY PascalRight
<1>2. pascal_matrix[n][0] = 1 /\ pascal_matrix[n][n] = 1
  BY <1>1 DEF PascalRow
<1>3. n + 1 \in Nat /\ (n + 1) - 1 = n
  OBVIOUS
<1>4. pascal_matrix[n + 1] = PascalRow(n + 1, pascal_matrix[n])
  BY <1>3, PascalRight
<1>5. QED BY <1>2, <1>4 DEF PascalRow

Term(x, r, n, j) == (Pow(x, n - j) * Pow(r, j)) * pascal_matrix[n][j]
Terms(x, r, n) == [j \in 1 .. n |-> Rem(Term(x, r, n, j))]

LEMMA TermType ==
  ASSUME NEW x \in Int, NEW r \in Int, NEW n \in Nat, NEW j \in 0 .. n
  PROVE  Term(x, r, n, j) \in Int
<1>1. n - j \in Nat /\ j \in Nat
  OBVIOUS
<1>2. Pow(x, n - j) \in Int /\ Pow(r, j) \in Int
  BY <1>1, PowType, ResidueFacts
<1>3. pascal_matrix[n][j] \in Int
  BY PascalType
<1>4. QED BY <1>2, <1>3 DEF Term

LEMMA TermsType ==
  ASSUME NEW x \in Int, NEW r \in Int, NEW n \in Nat
  PROVE  Terms(x, r, n) \in Seq(Residues) /\ Len(Terms(x, r, n)) = n
<1>1. \A j \in 1 .. n : j \in 0 .. n
  OBVIOUS
<1>3. \A j \in 1 .. n : Rem(Term(x, r, n, j)) \in Residues
  BY <1>1, TermType, RemType
<1>2. QED BY <1>3 DEF Terms

LEMMA FactorsApart ==
  ASSUME NEW a1 \in Int, NEW b \in Int, NEW a \in Int, NEW b1 \in Int, NEW c \in Int, NEW c1 \in Int,
         NEW x \in Int, NEW r \in Int
  PROVE  /\ (a1 * b) * (c1 + c) = (a1 * b) * c1 + (a1 * b) * c
         /\ (a1 * (b1 * r)) * c1 + ((a * x) * b) * c = x * ((a * b) * c) + r * ((a1 * b1) * c1)
  OBVIOUS

\* A term from two of the row before.
LEMMA TermMixed ==
  ASSUME NEW a \in Int, NEW a1 \in Int, NEW b \in Int, NEW b1 \in Int, NEW c \in Int, NEW c1 \in Int,
         NEW x \in Int, NEW r \in Int, Rem(a1) = Rem(a * x), Rem(b) = Rem(b1 * r)
  PROVE  Mixed((a1 * b) * (c1 + c), x, (a * b) * c, r, (a1 * b1) * c1)
<1>1. a * x \in Int /\ b1 * r \in Int /\ a1 * b \in Int /\ a1 * (b1 * r) \in Int /\ (a * x) * b \in Int
  OBVIOUS
<1> DEFINE u == b1 * r  v == a * x  w == a1 * b
<1>7. u \in Int /\ v \in Int /\ Rem(b) = Rem(u) /\ Rem(a1) = Rem(v) /\ w \in Int
  BY <1>1
<1>2. Rem(w) = Rem(a1 * u) /\ Rem(w) = Rem(v * b) /\ a1 * u \in Int /\ v * b \in Int
  <2> HIDE DEF u, v, w
  <2>5. Rem(b) = Rem(u) /\ u \in Int
    BY <1>7
  <2>1. Rem(a1 * b) = Rem(a1 * u)
    BY <2>5, RemTimesOne
  <2>6. Rem(a1) = Rem(v) /\ v \in Int
    BY <1>7
  <2>2. Rem(a1 * b) = Rem(v * b)
    BY <2>6, RemMultiple
  <2>3. a1 * u \in Int /\ v * b \in Int
    BY <1>7
  <2>4. QED BY <2>1, <2>2, <2>3 DEF w
<1>3. Rem(w * c1) = Rem((a1 * u) * c1) /\ Rem(w * c) = Rem((v * b) * c)
  <2> DEFINE y == a1 * u  z == v * b
  <2>1. y \in Int /\ Rem(w) = Rem(y) /\ w \in Int
    BY <1>2, <1>7
  <2>5. z \in Int /\ Rem(w) = Rem(z) /\ w \in Int
    BY <1>2, <1>7
  <2> HIDE DEF u, v, w, y, z
  <2>2. Rem(w * c1) = Rem(y * c1)
    BY <2>1, RemMultiple
  <2>3. Rem(w * c) = Rem(z * c)
    BY <2>5, RemMultiple
  <2>4. QED BY <2>2, <2>3 DEF y, z
<1>4. /\ (a1 * b) * c1 \in Int /\ (a1 * (b1 * r)) * c1 \in Int
      /\ (a1 * b) * c \in Int /\ ((a * x) * b) * c \in Int
  BY <1>1
<1>5. Rem((a1 * b) * c1 + (a1 * b) * c) = Rem((a1 * (b1 * r)) * c1 + ((a * x) * b) * c)
  BY <1>3, <1>4, RemPlus
<1>6. QED BY <1>5, FactorsApart DEF Mixed

LEMMA TermNext ==
  ASSUME NEW x \in Int, NEW r \in Int, NEW n \in Nat, NEW j \in 1 .. n
  PROVE  Mixed(Term(x, r, n + 1, j), x, Term(x, r, n, j), r, Term(x, r, n, j - 1))
<1> DEFINE a == Pow(x, n - j)  a1 == Pow(x, (n - j) + 1)  b == Pow(r, j)  b1 == Pow(r, j - 1)
           c == pascal_matrix[n][j]  c1 == pascal_matrix[n][j - 1]
<1>1. /\ n - j \in Nat /\ j \in Nat /\ j - 1 \in Nat /\ (j - 1) + 1 = j
      /\ (n + 1) - j = (n - j) + 1 /\ n - (j - 1) = (n - j) + 1
  OBVIOUS
<1>2. a \in Int /\ a1 \in Int /\ Rem(a1) = Rem(a * x)
  BY <1>1, PowNext
<1>3. b \in Int /\ b1 \in Int /\ Rem(b) = Rem(b1 * r)
  <2>1. /\ Rem(Pow(r, (j - 1) + 1)) = Rem(Pow(r, j - 1) * r)
        /\ Pow(r, j - 1) \in Int /\ Pow(r, (j - 1) + 1) \in Int
    BY <1>1, PowNext
  <2>2. QED BY <1>1, <2>1
<1>4. c \in Int /\ c1 \in Int /\ pascal_matrix[n + 1][j] = c1 + c
  BY <1>1, PascalType, PascalNext
<1>5. /\ Term(x, r, n + 1, j) = (a1 * b) * (c1 + c)
      /\ Term(x, r, n, j) = (a * b) * c
      /\ Term(x, r, n, j - 1) = (a1 * b1) * c1
  BY <1>1, <1>4 DEF Term
<1> HIDE DEF a, a1, b, b1, c, c1
<1>6. Mixed((a1 * b) * (c1 + c), x, (a * b) * c, r, (a1 * b1) * c1)
  BY <1>2, <1>3, <1>4, TermMixed
<1>7. QED BY <1>5, <1>6

\* The terms of a row come from those of the row before.
Shifted(x, r, n, m) ==
  IF m = 0 THEN 0 ELSE Term(x, r, n, 0) + Sums(Terms(x, r, n))[m - 1]

LEMMA ShiftedNext ==
  ASSUME NEW x \in Int, NEW r \in Int, NEW n \in Nat, NEW m \in 1 .. n + 1
  PROVE  /\ Rem(Shifted(x, r, n, m)) = Rem(Shifted(x, r, n, m - 1) + Term(x, r, n, m - 1))
         /\ Shifted(x, r, n, m) \in Int /\ Shifted(x, r, n, m - 1) \in Int
         /\ Term(x, r, n, m - 1) \in Int
<1> DEFINE T == Terms(x, r, n)
           t == Term(x, r, n, m - 1)
           t0 == Term(x, r, n, 0)
<1>1. T \in Seq(Residues) /\ Len(T) = n
  BY TermsType
<1>2. m - 1 \in 0 .. n /\ 0 \in 0 .. n
  OBVIOUS
<1>3. t \in Int /\ t0 \in Int
  BY <1>2, TermType
<1>4. Sums(T)[m - 1] \in Int
  BY <1>1, <1>2, SumsRight, ResidueFacts
<1>5. Shifted(x, r, n, m) = t0 + Sums(T)[m - 1]
  BY DEF Shifted
<1>6. CASE m = 1
  <2>1. Sums(T)[0] = 0
    BY <1>1, SumsRight
  <2>2. Shifted(x, r, n, m - 1) = 0 /\ Shifted(x, r, n, m) = t0 + 0 /\ t = t0
    BY <1>5, <1>6, <2>1 DEF Shifted
  <2> HIDE DEF t, t0, T
  <2>3. t0 + 0 = 0 + t /\ 0 + t \in Int
    BY <1>3, <2>2
  <2>4. QED BY <1>3, <2>2, <2>3 DEF t
<1>7. CASE m # 1
  <2>1. m - 1 \in 1 .. Len(T) /\ m - 1 # 0
    BY <1>1, <1>7
  <2> DEFINE s1 == Sums(T)[m - 1]  s0 == Sums(T)[(m - 1) - 1]
  <2>2. Rem(s1) = Rem(s0 + T[m - 1]) /\ s1 \in Int /\ s0 \in Int /\ T[m - 1] \in Int
    BY <1>1, <2>1, SumNext
  <2>3. T[m - 1] = Rem(t)
    BY <1>1, <2>1 DEF Terms
  <2>4. Shifted(x, r, n, m - 1) = t0 + s0
    BY <2>1 DEF Shifted
  <2> HIDE DEF t, t0, s0, s1, T
  <2>5. Rem(T[m - 1]) = Rem(t)
    BY <1>3, <2>3, RemRem
  <2>6. Rem(s0 + T[m - 1]) = Rem(s0 + t)
    BY <1>3, <2>2, <2>5, RemPlus
  <2>7. s0 + t \in Int /\ Rem(s1) = Rem(s0 + t)
    BY <1>3, <2>2, <2>6
  <2>8. Rem(t0 + s1) = Rem(t0 + (s0 + t))
    <3> DEFINE y == s0 + t
    <3>1. y \in Int /\ Rem(s1) = Rem(y)
      BY <2>7
    <3> HIDE DEF y
    <3>2. Rem(t0 + s1) = Rem(t0 + y)
      BY <1>3, <2>2, <3>1, RemPlusOne
    <3>3. QED BY <3>2 DEF y
  <2>9. t0 + (s0 + t) = (t0 + s0) + t /\ t0 + s1 \in Int /\ t0 + s0 \in Int
    BY <1>3, <2>2
  <2>10. Shifted(x, r, n, m) = t0 + s1
    BY <1>5 DEF s1
  <2>11. QED BY <1>3, <2>4, <2>8, <2>9, <2>10 DEF t
<1>8. QED BY <1>6, <1>7

LEMMA RowsMixed ==
  ASSUME NEW x \in Int, NEW r \in Int, NEW n \in Nat, NEW m \in 0 .. n
  PROVE  Mixed(Sums(Terms(x, r, n + 1))[m], x, Sums(Terms(x, r, n))[m], r, Shifted(x, r, n, m))
<1> DEFINE T == Terms(x, r, n)
           U == Terms(x, r, n + 1)
           S == {i \in 0 .. n : Mixed(Sums(U)[i], x, Sums(T)[i], r, Shifted(x, r, n, i))}
<1>1. T \in Seq(Residues) /\ Len(T) = n
  BY TermsType
<1>2. U \in Seq(Residues) /\ Len(U) = n + 1
  BY TermsType
<1>3. 0 \in S
  <2>1. Sums(T)[0] = 0 /\ Sums(U)[0] = 0 /\ Shifted(x, r, n, 0) = 0
    BY <1>1, <1>2, SumsRight DEF Shifted
  <2>2. x * 0 + r * 0 = 0
    OBVIOUS
  <2>3. Mixed(0, x, 0, r, 0)
    BY <2>2 DEF Mixed
  <2>4. QED BY <2>1, <2>3
<1>4. ASSUME NEW i \in 1 .. n, i - 1 \in S PROVE i \in S
  <2> DEFINE h0 == Sums(U)[i - 1]  h1 == U[i]  h2 == Sums(U)[i]
             f0 == Sums(T)[i - 1]  f1 == T[i]  f2 == Sums(T)[i]
             g0 == Shifted(x, r, n, i - 1)  g1 == Term(x, r, n, i - 1)  g2 == Shifted(x, r, n, i)
  <2>1. i \in 1 .. Len(T) /\ i \in 1 .. Len(U) /\ i \in 1 .. n + 1 /\ i \in 0 .. n /\ i \in 0 .. n + 1
    BY <1>1, <1>2
  <2>2. Rem(h2) = Rem(h0 + h1) /\ h0 \in Int /\ h1 \in Int /\ h2 \in Int
    BY <1>2, <2>1, SumNext
  <2>3. Rem(f2) = Rem(f0 + f1) /\ f0 \in Int /\ f1 \in Int /\ f2 \in Int
    BY <1>1, <2>1, SumNext
  <2>4. Rem(g2) = Rem(g0 + g1) /\ g0 \in Int /\ g1 \in Int /\ g2 \in Int
    BY <2>1, ShiftedNext
  <2>5. Mixed(h0, x, f0, r, g0)
    BY <1>4
  <2>6. Mixed(h1, x, f1, r, g1)
    <3> DEFINE h == Term(x, r, n + 1, i)  f == Term(x, r, n, i)
    <3>1. Mixed(h, x, f, r, g1)
      BY TermNext
    <3>2. h1 = Rem(h) /\ f1 = Rem(f)
      BY <2>1 DEF Terms
    <3>3. h \in Int /\ f \in Int
      BY <2>1, TermType
    <3> HIDE DEF h, f, h1, f1, g1
    <3>4. Rem(h1) = Rem(h) /\ Rem(f1) = Rem(f)
      BY <3>2, <3>3, RemRem
    <3>5. Rem(x * f1) = Rem(x * f)
      BY <2>3, <3>3, <3>4, RemTimesOne
    <3>6. x * f1 \in Int /\ x * f \in Int /\ r * g1 \in Int
      BY <2>3, <2>4, <3>3
    <3>7. Rem(x * f1 + r * g1) = Rem(x * f + r * g1)
      <4> DEFINE a == x * f1  b == x * f  c == r * g1
      <4>1. a \in Int /\ b \in Int /\ c \in Int /\ Rem(a) = Rem(b)
        BY <3>5, <3>6
      <4> HIDE DEF a, b, c
      <4>2. Rem(a + c) = Rem(b + c)
        BY <4>1, RemMore
      <4>3. QED BY <4>2 DEF a, b, c
    <3>8. QED BY <3>1, <3>4, <3>7 DEF Mixed
  <2> HIDE DEF h0, h1, h2, f0, f1, f2, g0, g1, g2
  <2>7. Mixed(h2, x, f2, r, g2)
    BY <2>2, <2>3, <2>4, <2>5, <2>6, MixedNext
  <2>8. QED BY <2>1, <2>7 DEF h2, f2, g2
<1>5. m \in S
  <2> HIDE DEF S
  <2>1. 0 .. n \subseteq S
    BY <1>3, <1>4, InductionTo
  <2>2. QED BY <2>1
<1>6. QED BY <1>5

\* The first and the last term of a row.
LEMMA TermEnds ==
  ASSUME NEW x \in Int, NEW r \in Int, NEW n \in Nat
  PROVE  /\ Rem(Term(x, r, n, 0)) = Rem(Pow(x, n))
         /\ Rem(Term(x, r, n, n)) = Rem(Pow(r, n))
<1> DEFINE p == Pow(x, n)  q == Pow(r, n)  i == Pow(x, 0)  j == Pow(r, 0)
<1>1. p \in Int /\ q \in Int /\ i \in Int /\ j \in Int /\ Rem(i) = Rem(1) /\ Rem(j) = Rem(1)
  BY PowNext
<1>2. n - 0 = n /\ n - n = 0
  OBVIOUS
<1>3. Term(x, r, n, 0) = (p * j) * 1 /\ Term(x, r, n, n) = (i * q) * 1
  BY <1>2, PascalNext DEF Term
<1> HIDE DEF p, q, i, j
<1>4. Rem(p * j) = Rem(p * 1)
  BY <1>1, RemTimesOne
<1>5. Rem(i * q) = Rem(1 * q)
  <2>1. 1 \in Int /\ Rem(i) = Rem(1)
    BY <1>1
  <2>2. QED BY <1>1, <2>1, RemMultiple
<1>6. (p * j) * 1 = p * j /\ (i * q) * 1 = i * q /\ p * 1 = p /\ 1 * q = q
  BY <1>1
<1>7. QED BY <1>3, <1>4, <1>5, <1>6 DEF p, q

LEMMA FactorOut ==
  ASSUME NEW x \in Int, NEW r \in Int, NEW p \in Int, NEW s \in Int
  PROVE  p * x + (x * s + r * (p + s)) = (p + s) * (x + r)
  OBVIOUS

\* The binomial theorem.
Binomial(x, r, n) == Pow(x, n) + SumMod(Terms(x, r, n))

LEMMA BinomialNext ==
  ASSUME NEW x \in Int, NEW r \in Int, NEW n \in Nat
  PROVE  /\ Rem(Binomial(x, r, n + 1)) = Rem(Binomial(x, r, n) * (x + r))
         /\ Binomial(x, r, n) \in Int /\ Binomial(x, r, n + 1) \in Int
<1> DEFINE T == Terms(x, r, n)
           U == Terms(x, r, n + 1)
           h0 == Sums(U)[n]  h1 == U[n + 1]  h2 == Sums(U)[n + 1]
           s == Sums(T)[n]
           g0 == Shifted(x, r, n, n)  g1 == Term(x, r, n, n)  g2 == Shifted(x, r, n, n + 1)
           p == Pow(x, n)  p1 == Pow(x, n + 1)
<1>1. T \in Seq(Residues) /\ Len(T) = n
  BY TermsType
<1>2. U \in Seq(Residues) /\ Len(U) = n + 1
  BY TermsType
<1>3. /\ n + 1 \in 1 .. Len(U) /\ (n + 1) - 1 = n /\ n + 1 \in 1 .. n + 1 /\ n + 1 \in 0 .. n + 1
      /\ n \in 0 .. n
  BY <1>2
<1>4. Rem(h2) = Rem(h0 + h1) /\ h0 \in Int /\ h1 \in Int /\ h2 \in Int
  BY <1>2, <1>3, SumNext
<1>5. Rem(g2) = Rem(g0 + g1) /\ g0 \in Int /\ g1 \in Int /\ g2 \in Int
  <2> DEFINE k == n + 1
  <2>1. k \in 1 .. n + 1 /\ k - 1 = n
    OBVIOUS
  <2>2. /\ Rem(Shifted(x, r, n, k)) = Rem(Shifted(x, r, n, k - 1) + Term(x, r, n, k - 1))
        /\ Shifted(x, r, n, k) \in Int /\ Shifted(x, r, n, k - 1) \in Int
        /\ Term(x, r, n, k - 1) \in Int
    <3> HIDE DEF k
    <3>1. QED BY <2>1, ShiftedNext
  <2>3. QED BY <2>1, <2>2
<1>6. s \in Int
  BY <1>1, <1>3, SumsRight, ResidueFacts
<1>7. Mixed(h0, x, s, r, g0)
  BY <1>3, RowsMixed
<1>8. p \in Int /\ p1 \in Int /\ Rem(p1) = Rem(p * x)
  BY PowNext
<1>9. Rem(h1) = Rem(r * g1)
  <2> DEFINE t == Term(x, r, n + 1, n + 1)  q == Pow(r, n)  q1 == Pow(r, n + 1)
  <2>1. h1 = Rem(t) /\ t \in Int
    BY <1>3, TermType DEF Terms
  <2>2. Rem(t) = Rem(q1) /\ Rem(g1) = Rem(q)
    BY TermEnds
  <2>3. Rem(q1) = Rem(q * r) /\ q \in Int
    BY PowNext
  <2> HIDE DEF t, q, q1, h1, g1
  <2>4. Rem(h1) = Rem(q * r)
    BY <2>1, <2>2, <2>3, RemRem
  <2>5. Rem(r * g1) = Rem(r * q)
    BY <1>5, <2>2, <2>3, RemTimesOne
  <2>6. r * q = q * r
    BY <2>3
  <2>7. QED BY <2>4, <2>5, <2>6
<1>10. Mixed(h1, x, 0, r, g1)
  <2>1. x * 0 + r * g1 = r * g1
    BY <1>5
  <2>2. QED BY <1>9, <2>1 DEF Mixed
<1>11. Rem(s) = Rem(s + 0)
  BY <1>6
<1>12. Mixed(h2, x, s, r, g2)
  <2> HIDE DEF h0, h1, h2, s, g0, g1, g2
  <2>1. 0 \in Int
    OBVIOUS
  <2>2. QED BY <1>4, <1>5, <1>6, <1>7, <1>10, <1>11, <2>1, MixedNext
<1>13. g2 = Term(x, r, n, 0) + s
  BY <1>3 DEF Shifted
<1>14. Rem(g2) = Rem(p + s)
  <2> DEFINE t0 == Term(x, r, n, 0)
  <2>1. Rem(t0) = Rem(p) /\ t0 \in Int
    BY TermEnds, TermType
  <2> HIDE DEF t0, p, s, g2
  <2>2. Rem(t0 + s) = Rem(p + s)
    BY <1>6, <1>8, <2>1, RemMore
  <2>3. QED BY <1>13, <2>2 DEF t0
<1>15. Binomial(x, r, n) = p + s /\ Binomial(x, r, n + 1) = p1 + h2
  BY <1>1, <1>2, SumsRight DEF Binomial
<1> HIDE DEF h0, h1, h2, s, g0, g1, g2, p, p1
<1>16. p + s \in Int /\ p1 + h2 \in Int /\ x * s \in Int /\ r * g2 \in Int /\ r * (p + s) \in Int /\ p * x \in Int
  BY <1>4, <1>5, <1>6, <1>8
<1>17. Rem(r * g2) = Rem(r * (p + s))
  <2> DEFINE y == p + s
  <2>1. y \in Int /\ Rem(g2) = Rem(y)
    BY <1>14, <1>16
  <2> HIDE DEF y
  <2>2. Rem(r * g2) = Rem(r * y)
    BY <1>5, <2>1, RemTimesOne
  <2>3. QED BY <2>2 DEF y
<1>18. Rem(p1 + h2) = Rem(p * x + (x * s + r * (p + s)))
  <2> DEFINE a == x * s  b == r * g2  c == r * (p + s)  d == p * x
  <2>1. /\ a \in Int /\ b \in Int /\ c \in Int /\ d \in Int /\ Rem(b) = Rem(c)
        /\ Rem(h2) = Rem(a + b) /\ Rem(p1) = Rem(d)
    BY <1>8, <1>12, <1>16, <1>17 DEF Mixed
  <2> HIDE DEF a, b, c, d
  <2>2. Rem(a) = Rem(a) /\ a + c \in Int /\ a + b \in Int
    BY <2>1
  <2>3. Rem(a + b) = Rem(a + c)
    BY <2>1, RemPlusOne
  <2>4. Rem(p1 + h2) = Rem(d + (a + c))
    BY <1>4, <1>8, <2>1, <2>2, <2>3, RemPlus
  <2>5. QED BY <2>4 DEF a, b, c, d
<1>19. p * x + (x * s + r * (p + s)) = (p + s) * (x + r)
  BY <1>6, <1>8, FactorOut
<1>20. QED BY <1>15, <1>16, <1>18, <1>19

LEMMA BinomialTheorem ==
  ASSUME NEW x \in Int, NEW r \in Int, NEW n \in Nat
  PROVE  Rem(Binomial(x, r, n)) = Rem(Pow(x + r, n))
<1> DEFINE y == x + r
           S == {i \in Nat : Rem(Binomial(x, r, i)) = Rem(Pow(y, i))}
<1>1. y \in Int
  OBVIOUS
<1>2. 0 \in S
  <2>1. Terms(x, r, 0) \in Seq(Residues) /\ Len(Terms(x, r, 0)) = 0
    BY TermsType
  <2>2. SumMod(Terms(x, r, 0)) = 0
    BY <2>1, SumsRight
  <2>3. Pow(x, 0) \in Int /\ Rem(Pow(x, 0)) = Rem(1)
    BY PowNext
  <2>4. Rem(Pow(y, 0)) = Rem(1)
    <3> HIDE DEF y
    <3>1. QED BY <1>1, PowNext
  <2>5. Binomial(x, r, 0) = Pow(x, 0)
    BY <2>2, <2>3 DEF Binomial
  <2>6. QED BY <2>3, <2>4, <2>5
<1>3. ASSUME NEW i \in Nat, i \in S PROVE i + 1 \in S
  <2> DEFINE b == Binomial(x, r, i)  b1 == Binomial(x, r, i + 1)  p == Pow(y, i)  p1 == Pow(y, i + 1)
  <2>1. Rem(b1) = Rem(b * y) /\ b \in Int
    BY BinomialNext
  <2>2. Rem(b) = Rem(p)
    BY <1>3
  <2>3. Rem(p1) = Rem(p * y) /\ p \in Int
    <3> HIDE DEF y
    <3>1. QED BY <1>1, PowNext
  <2>4. i + 1 \in Nat
    OBVIOUS
  <2>5. Rem(b1) = Rem(p1)
    <3> HIDE DEF b, b1, p, p1, y
    <3>1. Rem(b * y) = Rem(p * y)
      BY <1>1, <2>1, <2>2, <2>3, RemMultiple
    <3>2. QED BY <2>1, <2>3, <3>1
  <2>6. QED BY <2>4, <2>5
<1>4. QED
  <2> HIDE DEF S
  <2>1. Nat \subseteq S
    BY <1>2, <1>3, SetInduction
  <2>2. n \in S
    BY <2>1
  <2>3. QED BY <2>2 DEF S

-----------------------------------------------------------------------------
(***************************************************************************)
(* What every party has after n calls, whoever waits for whom: program and *)
(* tape determine it.                                                      *)
(***************************************************************************)

\* The k-th number that the generators with seed d give, with the tape t.
At(t, d, k) == t[d][1 + ((k - 1) % Period)]

\* How many numbers of a stream come before those of the n-th call of pr, and before
\* those that it draws last.
CallPlace(pr, n, d) == Len(Plan(pr)[n - 1].drawn[d])
LastPlace(pr, n, d) ==
  CallPlace(pr, n, d)
    + (IF d[1] = 0 THEN Len(MaskDraws(n, pr[n], Wanted(pr[n], Plan(pr)[n - 1].parted))) ELSE 0)

\* The numbers of the m-th partition of the call, and those at its end.
MasksAt(pr, t, n, m) == [p \in Computing |-> At(t, <<0, p>>, CallPlace(pr, n, <<0, p>>) + m)]
LastAt(pr, t, n, d, j) == At(t, d, LastPlace(pr, n, d) + j)

\* A world has the results of each party, what the dealer has sent the hub, the values
\* with which a party entered reveal, their sums, and how many numbers the dealer had from
\* its own stream.
Start == [results |-> [p \in Parties |-> <<>>], deals |-> <<>>,
          values |-> [p \in Computing |-> <<>>], totals |-> <<>>, own |-> 0]

\* The k-th result gets a partition, with these masks.
Blind(w, k, mask) == [p \in Computing |-> sub_mod(w.results[p][k].share, mask[p])]
Partitioned(w, k, mask, p) ==
  [share |-> w.results[p][k].share,
   x_r |-> <<IF p = 0 THEN 0 ELSE SumMod(Blind(w, k, mask))>>,
   r |-> <<IF p = 0 THEN SumMod(mask) ELSE mask[p]>>]
Part(w, k, mask) ==
  [results |-> [p \in Parties |-> [w.results[p] EXCEPT ![k] = Partitioned(w, k, mask, p)]],
   deals |-> w.deals,
   values |-> [p \in Computing |-> Append(w.values[p], Blind(w, k, mask)[p])],
   totals |-> Append(w.totals, SumMod(Blind(w, k, mask))),
   own |-> w.own]

\* Those operands of the call that are in S get one.
FirstPart(pr, t, n, w, S) ==
  IF pr[n].op \in Masking /\ pr[n].x \in S THEN Part(w, pr[n].x, MasksAt(pr, t, n, 1)) ELSE w
Parts(pr, t, n, w, S) ==
  LET one == FirstPart(pr, t, n, w, S) IN
  IF pr[n].op = "mul" /\ pr[n].y # pr[n].x /\ pr[n].y \in S
  THEN Part(one, pr[n].y, MasksAt(pr, t, n, Len(MaskDraws(n, pr[n], S)))) ELSE one

\* What the dealer gives the others at the end of the call, and what it sends the hub.
DealersMask(t, w) == At(t, <<0, 0>>, w.own + 1) % TwoTo[K + V]
Given(c, t, w) ==
  LET x == w.results[0][c.x] IN
  CASE c.op = "mul" -> <<beaver_mul(0, x, w.results[0][c.y])>>
    [] c.op = "pow" -> [j \in 1 .. c.power - 1 |-> Pow(x.r[1], j + 1)]
    [] c.op = "trunc" -> <<DealersMask(t, w), low(DealersMask(t, w))>>
HelpersDraws(pr, t, n) ==
  [i \in 1 .. N - 2 |-> [j \in 1 .. Dealt(pr[n]) |-> LastAt(pr, t, n, <<0, i + 1>>, j)]]
Deals(pr, t, n, w) ==
  LET c == pr[n] IN
  CASE c.op = "share_from" ->
         IF c.source = 0 THEN <<sub_mod(c.data, SumWords(Firsts(HelpersDraws(pr, t, n))))>> ELSE <<>>
    [] c.op \in {"mul", "pow", "trunc"} -> Missing(Given(c, t, w), HelpersDraws(pr, t, n))
    [] OTHER -> <<>>
DealtIn(pr, t, n, w, p) == IF p = 1 THEN Deals(pr, t, n, w) ELSE HelpersDraws(pr, t, n)[p - 1]

\* What the parties reveal at the end.
EndValues(pr, t, n, w) ==
  [p \in Computing |->
     IF pr[n].op = "trunc"
     THEN add_mod(w.results[p][pr[n].x].share, DealtIn(pr, t, n, w, p)[1])
     ELSE w.results[p][pr[n].x].share]
Shows(c) == c.op \in {"reveal", "trunc"}

\* The share of a number that the call shares.
ShareOf(pr, t, n, w, p) ==
  LET s == pr[n].source  streams == Others(p) IN
  IF p = 0 THEN 0
  ELSE IF s = 0 THEN DealtIn(pr, t, n, w, p)[1]
  ELSE IF p = s
  THEN sub_mod(pr[n].data,
               SumWords([i \in DOMAIN streams |-> LastAt(pr, t, n, seed_of(p, streams[i]), 1)]))
  ELSE LastAt(pr, t, n, seed_of(p, s), 1)

Cut(pr, t, n, w, p) ==
  LET c == SumMod(EndValues(pr, t, n, w))
      a == add_mod(w.results[p][pr[n].x].share, DealtIn(pr, t, n, w, p)[2])
  IN mul_mod(IF p = 1 THEN sub_mod(a, low(c)) ELSE a, InversePower)

\* The number of the call's result at p, where it is a plain share.
NewShare(pr, t, n, w, p) ==
  LET c == pr[n]  x == w.results[p][c.x]  dealt == DealtIn(pr, t, n, w, p) IN
  CASE c.op = "share_from" -> ShareOf(pr, t, n, w, p)
    [] c.op = "reveal" -> IF p = 0 THEN x.share ELSE SumMod(EndValues(pr, t, n, w))
    [] c.op = "trunc" -> IF p = 0 THEN x.share ELSE Cut(pr, t, n, w, p)
    [] c.op = "mul" ->
         IF p = 0 THEN Deals(pr, t, n, w)[1]
         ELSE add_mod(beaver_mul(p, x, w.results[p][c.y]), dealt[1])
    [] c.op = "pow" -> IF p = 0 THEN 0 ELSE powers_cached(p, x, c.power, dealt)

WithPublic(x, a, p) ==
  [share |-> add_public(p, x.share, a),
   x_r |-> IF is_partitioned(x) THEN <<add_mod(x.x_r[1], a)>> ELSE <<>>,
   r |-> x.r]
TimesPublic(x, a) ==
  LET times(part) == IF is_partitioned(x) THEN <<mul_mod(part[1], a)>> ELSE part
  IN [share |-> mul_mod(x.share, a), x_r |-> times(x.x_r), r |-> times(x.r)]

NewTensor(pr, t, n, w, p) ==
  LET c == pr[n]  x == w.results[p][c.x] IN
  CASE c.op = "add" -> Sum(x, w.results[p][c.y])
    [] c.op = "sub" -> Sum(x, Negated(w.results[p][c.y]))
    [] c.op = "add_public" -> WithPublic(x, c.a, p)
    [] c.op = "mul_public" -> TimesPublic(x, c.a)
    [] OTHER -> Sharetensor(NewShare(pr, t, n, w, p))

End(pr, t, n, w) ==
  [results |-> [p \in Parties |-> Append(w.results[p], NewTensor(pr, t, n, w, p))],
   deals |-> w.deals \o Deals(pr, t, n, w),
   values |-> [p \in Computing |->
                 IF Shows(pr[n]) THEN Append(w.values[p], EndValues(pr, t, n, w)[p]) ELSE w.values[p]],
   totals |-> IF Shows(pr[n]) THEN Append(w.totals, SumMod(EndValues(pr, t, n, w))) ELSE w.totals,
   own |-> IF pr[n].op = "trunc" THEN w.own + 1 ELSE w.own]

AllParts(pr, t, n, w) == Parts(pr, t, n, w, Wanted(pr[n], Plan(pr)[n - 1].parted))
Ideal(pr, t) ==
  LET ideal[n \in 0 .. Len(pr)] ==
        IF n = 0 THEN Start ELSE End(pr, t, n, AllParts(pr, t, n, ideal[n - 1]))
  IN ideal
All(pr, t) == Ideal(pr, t)[Len(pr)]

\* The ideal execution is computed call by call.
Follows(pr, t, n, w) == End(pr, t, n, AllParts(pr, t, n, w))

LEMMA IdealRight ==
  ASSUME NEW pr, Len(pr) \in Nat, NEW t
  PROVE  /\ Ideal(pr, t)[0] = Start
         /\ \A n \in 1 .. Len(pr) : Ideal(pr, t)[n] = Follows(pr, t, n, Ideal(pr, t)[n - 1])
<1> DEFINE IsTo(f, m) == f = [n \in 0 .. m |-> IF n = 0 THEN Start ELSE Follows(pr, t, n, f[n - 1])]
           L == Len(pr)
           S == {m \in 0 .. L : \E f : IsTo(f, m)}
<1> HIDE DEF L
<1>1. L \in Nat
  BY DEF L
<1>2. 0 \in S
  <2> DEFINE f == [n \in 0 .. 0 |-> Start]
  <2>1. IsTo(f, 0)
    OBVIOUS
  <2>2. 0 \in 0 .. L
    BY <1>1
  <2> HIDE DEF f, IsTo
  <2>3. QED BY <2>1, <2>2
<1>3. ASSUME NEW m \in 1 .. L, m - 1 \in S PROVE m \in S
  <2>1. PICK f : IsTo(f, m - 1)
    BY <1>3
  <2> DEFINE g == [n \in 0 .. m |-> IF n = m THEN Follows(pr, t, m, f[m - 1]) ELSE f[n]]
             h == [n \in 0 .. m |-> IF n = 0 THEN Start ELSE Follows(pr, t, n, g[n - 1])]
  <2>2. m \in Nat /\ m # 0 /\ m - 1 \in 0 .. m - 1
    OBVIOUS
  <2>3. ASSUME NEW n \in 0 .. m PROVE g[n] = h[n]
    <3>1. CASE n = 0
      <4>1. 0 \in 0 .. m - 1 /\ n # m
        BY <2>2, <3>1
      <4>2. f[0] = Start
        BY <2>1, <4>1
      <4>3. QED BY <3>1, <4>1, <4>2
    <3>2. CASE n # 0 /\ n # m
      <4>1. n \in 0 .. m - 1 /\ n - 1 \in 0 .. m /\ n - 1 # m
        BY <2>2, <3>2
      <4>2. f[n] = Follows(pr, t, n, f[n - 1])
        BY <2>1, <3>2, <4>1
      <4>3. g[n - 1] = f[n - 1] /\ g[n] = f[n]
        BY <3>2, <4>1
      <4>4. QED BY <3>2, <4>2, <4>3
    <3>3. CASE n = m
      <4>1. m - 1 \in 0 .. m /\ m - 1 # m
        BY <2>2
      <4>2. g[m - 1] = f[m - 1]
        BY <4>1
      <4>3. QED BY <2>2, <3>3, <4>2
    <3>4. QED BY <3>1, <3>2, <3>3
  <2>4. g = h
    <3>1. DOMAIN g = 0 .. m /\ DOMAIN h = 0 .. m
      OBVIOUS
    <3>2. g = [n \in 0 .. m |-> g[n]] /\ h = [n \in 0 .. m |-> h[n]]
      OBVIOUS
    <3> HIDE DEF g, h
    <3>3. QED BY <2>3, <3>2
  <2>5. IsTo(g, m)
    <3> HIDE DEF g
    <3>1. QED BY <2>4
  <2>6. m \in 0 .. L
    BY <1>1
  <2> HIDE DEF g, h, IsTo
  <2>7. QED BY <2>5, <2>6
<1>4. L \in S
  <2> HIDE DEF S
  <2>1. 0 .. L \subseteq S
    BY <1>1, <1>2, <1>3, InductionTo
  <2>2. QED BY <1>1, <2>1
<1>5. PICK f : IsTo(f, L)
  BY <1>4
<1> DEFINE g == CHOOSE f1 : IsTo(f1, L)
<1>6. IsTo(g, L)
  <2> HIDE DEF IsTo
  <2>1. QED BY <1>5
<1>7. Ideal(pr, t) = g
  BY DEF Ideal, L, Follows
<1> HIDE DEF g
<1>8. g[0] = Start
  BY <1>1, <1>6
<1>9. ASSUME NEW n \in 1 .. L PROVE g[n] = Follows(pr, t, n, g[n - 1])
  <2>1. n \in 0 .. L /\ n # 0
    BY <1>1
  <2>2. QED BY <1>6, <2>1
<1>10. QED BY <1>7, <1>8, <1>9 DEF L

-----------------------------------------------------------------------------
(***************************************************************************)
(* The shape of what is ideal, and how it grows.                           *)
(***************************************************************************)

\* w has n results, those in S with a partition; it has shown r values and dealt d.
WorldOK(w, n, S, r, d) ==
  /\ S \subseteq 1 .. n
  /\ w.results \in [Parties -> Seq(Sharetensors)]
  /\ \A p \in Parties :
       /\ Len(w.results[p]) = n
       /\ \A k \in 1 .. n : is_partitioned(w.results[p][k]) <=> k \in S
  /\ w.deals \in Seq(Residues) /\ Len(w.deals) = d
  /\ w.values \in [Computing -> Seq(Residues)] /\ \A p \in Computing : Len(w.values[p]) = r
  /\ w.totals \in Seq(Residues) /\ Len(w.totals) = r
  /\ w.own \in Nat

\* A result gets a partition at most; what was shown or dealt stays.
GrowsAt(a, z, k) == a[k].share = z[k].share /\ (is_partitioned(a[k]) => z[k] = a[k])
Grows(w, z) ==
  /\ \A p \in Parties : /\ Len(w.results[p]) <= Len(z.results[p])
                        /\ \A k \in 1 .. Len(w.results[p]) : GrowsAt(w.results[p], z.results[p], k)
  /\ Begins(w.deals, z.deals)
  /\ \A p \in Computing : Begins(w.values[p], z.values[p])
  /\ Begins(w.totals, z.totals)

Sized(w) ==
  /\ \A p \in Parties : Len(w.results[p]) \in Nat
  /\ Len(w.deals) \in Nat /\ Len(w.totals) \in Nat
  /\ \A p \in Computing : Len(w.values[p]) \in Nat

LEMMA WorldSized ==
  ASSUME NEW w, NEW n, NEW S, NEW r, NEW d, WorldOK(w, n, S, r, d)
  PROVE  Sized(w)
<1>1. \A v \in Seq(Residues) : Len(v) \in Nat
  OBVIOUS
<1>2. \A v \in Seq(Sharetensors) : Len(v) \in Nat
  OBVIOUS
<1>3. QED BY <1>1, <1>2 DEF WorldOK, Sized

LEMMA BeginsSelf ==
  ASSUME NEW a, Len(a) \in Nat
  PROVE  Begins(a, a)
  BY DEF Begins

LEMMA BeginsOn ==
  ASSUME NEW a, NEW b, NEW c, Len(a) \in Nat, Len(b) \in Nat, Len(c) \in Nat, Begins(a, b), Begins(b, c)
  PROVE  Begins(a, c)
<1>1. \A i \in 1 .. Len(a) : i \in 1 .. Len(b)
  BY DEF Begins
<1>2. QED BY <1>1 DEF Begins

LEMMA GrowsSelf ==
  ASSUME NEW w, Sized(w)
  PROVE  Grows(w, w)
<1>1. \A p \in Parties : Len(w.results[p]) <= Len(w.results[p])
  BY DEF Sized
<1>2. QED BY <1>1, BeginsSelf DEF Sized, Grows, GrowsAt

LEMMA GrowsOn ==
  ASSUME NEW u, NEW w, NEW z, Sized(u), Sized(w), Sized(z), Grows(u, w), Grows(w, z)
  PROVE  Grows(u, z)
<1>1. ASSUME NEW p \in Parties
      PROVE  /\ Len(u.results[p]) <= Len(z.results[p])
             /\ \A k \in 1 .. Len(u.results[p]) : GrowsAt(u.results[p], z.results[p], k)
  <2> DEFINE a == u.results[p]  b == w.results[p]  c == z.results[p]
  <2>1. /\ Len(a) \in Nat /\ Len(b) \in Nat /\ Len(c) \in Nat /\ Len(a) <= Len(b) /\ Len(b) <= Len(c)
        /\ \A k \in 1 .. Len(a) : GrowsAt(a, b, k)
        /\ \A k \in 1 .. Len(b) : GrowsAt(b, c, k)
    BY DEF Sized, Grows
  <2> HIDE DEF a, b, c
  <2>2. Len(a) <= Len(c)
    BY <2>1
  <2>3. ASSUME NEW k \in 1 .. Len(a) PROVE GrowsAt(a, c, k)
    <3>1. k \in 1 .. Len(b)
      BY <2>1
    <3>2. GrowsAt(a, b, k) /\ GrowsAt(b, c, k)
      BY <2>1, <3>1
    <3>3. QED BY <3>2 DEF GrowsAt
  <2>4. QED BY <2>2, <2>3 DEF a, b, c
<1>2. Begins(u.deals, z.deals) /\ Begins(u.totals, z.totals)
  BY BeginsOn DEF Sized, Grows
<1>3. \A p \in Computing : Begins(u.values[p], z.values[p])
  BY BeginsOn DEF Sized, Grows
<1>4. QED BY <1>1, <1>2, <1>3 DEF Grows

\* The computing parties' numbers, as a sequence.
LEMMA ComputingSeq ==
  ASSUME NEW f \in [Computing -> Residues]
  PROVE  /\ f \in Seq(Residues) /\ Len(f) = N - 1
         /\ SumMod(f) \in Residues /\ SumMod(f) \in Int
         /\ \A p \in Computing : f[p] \in Residues /\ f[p] \in Int
<1>1. N - 1 \in Nat /\ Computing = 1 .. N - 1
  BY NAssumption DEF Computing
<1>2. f \in Seq(Residues) /\ Len(f) = N - 1
  BY <1>1
<1>3. f \in Seq(Int)
  BY <1>2, ReducedNumbers
<1>4. SumMod(f) \in Residues
  BY <1>3, SumTypes
<1>5. SumMod(f) \in Int
  BY <1>4, ResidueFacts
<1>6. \A p \in Computing : f[p] \in Residues
  OBVIOUS
<1>7. QED BY <1>2, <1>4, <1>5, <1>6, ResidueFacts

LEMMA TensorParts ==
  ASSUME NEW t \in Sharetensors
  PROVE  /\ t.share \in Residues /\ t.share \in Int
         /\ t.x_r \in Seq(Residues) /\ t.r \in Seq(Residues)
         /\ Len(t.x_r) = Len(t.r) /\ Len(t.r) <= 1 /\ Len(t.r) \in Nat
         /\ is_partitioned(t) <=> Len(t.r) = 1
         /\ is_partitioned(t) => /\ t.x_r[1] \in Residues /\ t.r[1] \in Residues
                                 /\ t.x_r[1] \in Int /\ t.r[1] \in Int
<1>1. /\ t.share \in Residues /\ t.x_r \in Seq(Residues) /\ t.r \in Seq(Residues)
      /\ Len(t.x_r) = Len(t.r) /\ Len(t.r) <= 1
  BY DEF Sharetensors
<1>2. Len(t.r) \in Nat
  BY <1>1
<1>3. is_partitioned(t) <=> Len(t.r) = 1
  <2>1. t.r = <<>> <=> Len(t.r) = 0
    BY <1>1
  <2> DEFINE m == Len(t.r)
  <2>0. m \in Nat /\ m <= 1
    BY <1>1, <1>2
  <2> HIDE DEF m
  <2>2. m # 0 <=> m = 1
    BY <2>0
  <2>3. is_partitioned(t) <=> ~ (t.r = <<>>)
    BY DEF is_partitioned
  <2>4. QED BY <2>1, <2>2, <2>3 DEF m
<1>4. is_partitioned(t) => t.x_r[1] \in Residues /\ t.r[1] \in Residues
  BY <1>1, <1>3
<1>5. QED BY <1>1, <1>2, <1>3, <1>4, ResidueFacts

LEMMA OneResidue ==
  ASSUME NEW a \in Residues
  PROVE  <<a>> \in Seq(Residues) /\ Len(<<a>>) = 1 /\ <<a>> # <<>> /\ <<a>>[1] = a
  OBVIOUS

\* The tensors of a world.
LEMMA ResultsType ==
  ASSUME NEW w, NEW n, NEW S, NEW r, NEW d, WorldOK(w, n, S, r, d), NEW p \in Parties, NEW k \in 1 .. n
  PROVE  w.results[p][k] \in Sharetensors /\ (is_partitioned(w.results[p][k]) <=> k \in S)
<1>1. w.results[p] \in Seq(Sharetensors) /\ Len(w.results[p]) = n
  BY DEF WorldOK
<1>2. w.results[p][k] \in Sharetensors
  BY <1>1
<1>3. QED BY <1>2 DEF WorldOK

LEMMA ComputingParties ==
  /\ Computing \subseteq Parties /\ 0 \notin Computing /\ Computing = Parties \ {0}
  /\ 1 \in Computing /\ 0 \in Parties /\ Computing = 1 .. N - 1 /\ N - 1 \in Nat /\ N - 1 >= 2
  BY NAssumption DEF Computing, Parties

LEMMA BlindType ==
  ASSUME NEW w, NEW n, NEW S, NEW r, NEW d, WorldOK(w, n, S, r, d), NEW k \in 1 .. n,
         NEW mask \in [Computing -> Residues]
  PROVE  Blind(w, k, mask) \in [Computing -> Residues]
<1>1. ASSUME NEW p \in Computing PROVE sub_mod(w.results[p][k].share, mask[p]) \in Residues
  <2>1. w.results[p][k] \in Sharetensors
    BY ResultsType, ComputingParties
  <2>2. w.results[p][k].share \in Int
    BY <2>1, TensorParts
  <2>3. mask[p] \in Int
    BY ComputingSeq
  <2>4. QED BY <2>2, <2>3, ArithmeticTypes
<1>2. QED BY <1>1 DEF Blind

LEMMA PartitionedType ==
  ASSUME NEW w, NEW n, NEW S, NEW r, NEW d, WorldOK(w, n, S, r, d), NEW k \in 1 .. n,
         NEW mask \in [Computing -> Residues], NEW p \in Parties
  PROVE  /\ Partitioned(w, k, mask, p) \in Sharetensors
         /\ is_partitioned(Partitioned(w, k, mask, p))
         /\ Partitioned(w, k, mask, p).share = w.results[p][k].share
<1> DEFINE x == IF p = 0 THEN 0 ELSE SumMod(Blind(w, k, mask))
           m == IF p = 0 THEN SumMod(mask) ELSE mask[p]
           s == w.results[p][k].share
<1>1. x \in Residues
  BY BlindType, ComputingSeq, ResidueFacts
<1>2. m \in Residues
  BY ComputingSeq, ComputingParties
<1>3. s \in Residues
  BY ResultsType, TensorParts
<1>4. Partitioned(w, k, mask, p) = [share |-> s, x_r |-> <<x>>, r |-> <<m>>]
  BY DEF Partitioned
<1> HIDE DEF x, m, s
<1>5. <<x>> \in Seq(Residues) /\ <<m>> \in Seq(Residues) /\ Len(<<x>>) = 1 /\ Len(<<m>>) = 1 /\ <<m>> # <<>>
  BY <1>1, <1>2, OneResidue
<1>6. Len(<<x>>) = Len(<<m>>) /\ Len(<<m>>) <= 1
  BY <1>5
<1>7. /\ [share |-> s, x_r |-> <<x>>, r |-> <<m>>] \in Sharetensors
      /\ is_partitioned([share |-> s, x_r |-> <<x>>, r |-> <<m>>])
  BY <1>3, <1>5, <1>6, ThreeParts
<1>8. QED BY <1>4, <1>7 DEF s

LEMMA AppendBegins ==
  ASSUME NEW v \in Seq(Residues), NEW a \in Residues
  PROVE  /\ Append(v, a) \in Seq(Residues) /\ Len(Append(v, a)) = Len(v) + 1 /\ Len(v) \in Nat
         /\ Begins(v, Append(v, a)) /\ Append(v, a)[Len(v) + 1] = a
<1>1. Len(v) \in Nat /\ Append(v, a) \in Seq(Residues) /\ Len(Append(v, a)) = Len(v) + 1
  OBVIOUS
<1>2. \A i \in 1 .. Len(v) : Append(v, a)[i] = v[i]
  OBVIOUS
<1>3. Append(v, a)[Len(v) + 1] = a
  OBVIOUS
<1>4. QED BY <1>1, <1>2, <1>3 DEF Begins

\* One of n tensors is changed.
LEMMA ChangedType ==
  ASSUME NEW v \in Seq(Sharetensors), NEW k \in 1 .. Len(v), NEW t \in Sharetensors
  PROVE  /\ [v EXCEPT ![k] = t] \in Seq(Sharetensors) /\ Len([v EXCEPT ![k] = t]) = Len(v)
         /\ [v EXCEPT ![k] = t][k] = t
         /\ \A i \in 1 .. Len(v) : i # k => [v EXCEPT ![k] = t][i] = v[i]
  OBVIOUS

\* A result that has no partition gets one.
LEMMA PartRight ==
  ASSUME NEW w, NEW n \in Nat, NEW S, NEW r, NEW d, WorldOK(w, n, S, r, d), NEW k \in 1 .. n,
         k \notin S, NEW mask \in [Computing -> Residues]
  PROVE  WorldOK(Part(w, k, mask), n, S \cup {k}, r + 1, d) /\ Grows(w, Part(w, k, mask))
<1> DEFINE z == Part(w, k, mask)
           T(p) == Partitioned(w, k, mask, p)
           b == Blind(w, k, mask)
<1>1. /\ z.results = [p \in Parties |-> [w.results[p] EXCEPT ![k] = T(p)]]
      /\ z.deals = w.deals /\ z.own = w.own
      /\ z.values = [p \in Computing |-> Append(w.values[p], b[p])]
      /\ z.totals = Append(w.totals, SumMod(b))
  BY DEF Part
<1>2. b \in [Computing -> Residues] /\ SumMod(b) \in Residues
  BY BlindType, ComputingSeq
<1>3. /\ w.deals \in Seq(Residues) /\ Len(w.deals) = d /\ w.own \in Nat
      /\ w.values \in [Computing -> Seq(Residues)]
      /\ \A p \in Computing : Len(w.values[p]) = r
      /\ w.totals \in Seq(Residues) /\ Len(w.totals) = r
  BY DEF WorldOK
<1>4. \A p \in Parties : /\ T(p) \in Sharetensors /\ is_partitioned(T(p))
                         /\ T(p).share = w.results[p][k].share
  BY PartitionedType
<1> HIDE DEF z, T, b
<1>5. ASSUME NEW p \in Parties
      PROVE  /\ z.results[p] \in Seq(Sharetensors) /\ Len(z.results[p]) = n /\ Len(w.results[p]) = n
             /\ \A i \in 1 .. n : is_partitioned(z.results[p][i]) <=> i \in S \cup {k}
             /\ \A i \in 1 .. n : GrowsAt(w.results[p], z.results[p], i)
  <2>1. w.results[p] \in Seq(Sharetensors) /\ Len(w.results[p]) = n
    BY DEF WorldOK
  <2>2. z.results[p] = [w.results[p] EXCEPT ![k] = T(p)]
    BY <1>1
  <2>3. /\ z.results[p] \in Seq(Sharetensors) /\ Len(z.results[p]) = n
        /\ z.results[p][k] = T(p)
        /\ \A i \in 1 .. n : i # k => z.results[p][i] = w.results[p][i]
    BY <1>4, <2>1, <2>2, ChangedType
  <2>4. \A i \in 1 .. n : is_partitioned(w.results[p][i]) <=> i \in S
    BY DEF WorldOK
  <2>5. ASSUME NEW i \in 1 .. n PROVE is_partitioned(z.results[p][i]) <=> i \in S \cup {k}
    BY <1>4, <2>3, <2>4
  <2>6. ASSUME NEW i \in 1 .. n PROVE GrowsAt(w.results[p], z.results[p], i)
    BY <1>4, <2>3, <2>4 DEF GrowsAt
  <2>7. QED BY <2>1, <2>3, <2>5, <2>6
<1>6. z.results \in [Parties -> Seq(Sharetensors)]
  BY <1>1, <1>5
<1>7. ASSUME NEW p \in Computing
      PROVE  /\ z.values[p] \in Seq(Residues) /\ Len(z.values[p]) = r + 1
             /\ Begins(w.values[p], z.values[p])
  <2>1. z.values[p] = Append(w.values[p], b[p]) /\ b[p] \in Residues /\ w.values[p] \in Seq(Residues)
    BY <1>1, <1>2, <1>3
  <2>2. QED BY <1>3, <2>1, AppendBegins
<1>8. z.values \in [Computing -> Seq(Residues)]
  BY <1>1, <1>7
<1>9. z.totals \in Seq(Residues) /\ Len(z.totals) = r + 1 /\ Begins(w.totals, z.totals)
  BY <1>1, <1>2, <1>3, AppendBegins
<1>10. Len(w.deals) \in Nat
  BY <1>3
<1>11. Begins(w.deals, z.deals)
  BY <1>1, <1>10, BeginsSelf
<1>15. S \cup {k} \subseteq 1 .. n
  BY DEF WorldOK
<1>12. WorldOK(z, n, S \cup {k}, r + 1, d)
  BY <1>1, <1>3, <1>5, <1>6, <1>7, <1>8, <1>9, <1>15 DEF WorldOK
<1>13. Grows(w, z)
  BY <1>5, <1>7, <1>9, <1>11 DEF Grows
<1>14. QED BY <1>12, <1>13 DEF z

\* Numbers of a tape, at the places that the plan gives.
LEMMA AtType ==
  ASSUME NEW t \in Tapes, NEW d \in Seeds, NEW k \in Int
  PROVE  At(t, d, k) \in Bits /\ At(t, d, k) \in Residues /\ At(t, d, k) \in Int
<1>1. Period \in Nat \ {0} /\ t \in [Seeds -> [1 .. Period -> Bits]]
  BY TapesAssumption DEF Bits
<1>2. (k - 1) % Period \in 0 .. Period - 1
  <2>1. k - 1 \in Int
    OBVIOUS
  <2>2. QED BY <1>1, <2>1, ModType
<1>3. 1 + ((k - 1) % Period) \in 1 .. Period
  BY <1>1, <1>2
<1>4. At(t, d, k) \in Bits
  BY <1>1, <1>3 DEF At
<1>5. QED BY <1>4, BitsReduced, ResidueFacts

LEMMA PlaceInt ==
  ASSUME NEW pr \in Programs, NEW n \in 1 .. Len(pr), NEW d \in Seeds
  PROVE  /\ CallPlace(pr, n, d) \in Nat /\ LastPlace(pr, n, d) \in Nat
         /\ Plan(pr)[n - 1] \in Works /\ Plan(pr)[n] = After(n, pr[n], Plan(pr)[n - 1])
         /\ CallFacts(pr[n], n) /\ n \in Nat
<1>1. Len(pr) \in Nat /\ CallFacts(pr[n], n)
  BY ProgramFacts
<1>2. PlanFacts(pr)
  BY PlanRight
<1>3. n \in Nat /\ n - 1 \in 0 .. Len(pr)
  BY <1>1
<1>4. Plan(pr)[n - 1] \in Works /\ Plan(pr)[n] = After(n, pr[n], Plan(pr)[n - 1])
  BY <1>2, <1>3 DEF PlanFacts
<1>5. Plan(pr)[n - 1].drawn[d] \in Seq(Marks)
  BY <1>4 DEF Works
<1>6. CallPlace(pr, n, d) \in Nat
  BY <1>5 DEF CallPlace
<1>7. Len(MaskDraws(n, pr[n], Wanted(pr[n], Plan(pr)[n - 1].parted))) \in Nat
  BY <1>1, <1>3, MaskDrawsType
<1>8. LastPlace(pr, n, d) \in Nat
  <2> DEFINE a == CallPlace(pr, n, d)
             b == Len(MaskDraws(n, pr[n], Wanted(pr[n], Plan(pr)[n - 1].parted)))
  <2>1. LastPlace(pr, n, d) = a + (IF d[1] = 0 THEN b ELSE 0)
    BY DEF LastPlace
  <2>2. a \in Nat /\ b \in Nat
    BY <1>6, <1>7
  <2> HIDE DEF a, b
  <2>3. QED BY <2>1, <2>2
<1>9. QED BY <1>1, <1>3, <1>4, <1>6, <1>8

LEMMA DealersSeeds ==
  /\ \A p \in Computing : <<0, p>> \in Seeds /\ seed_of(0, p) = <<0, p>> /\ seed_of(p, 0) = <<0, p>>
  /\ <<0, 0>> \in Seeds /\ seed_of(0, 0) = <<0, 0>>
<1>1. \A p \in Parties : p \in Nat
  BY PartyFacts
<1>2. ASSUME NEW p \in Computing
      PROVE  <<0, p>> \in Seeds /\ seed_of(0, p) = <<0, p>> /\ seed_of(p, 0) = <<0, p>>
  <2>1. p \in Parties /\ 0 \in Parties /\ 0 < p /\ ~ (p < 0)
    BY <1>1, ComputingParties
  <2>2. seed_of(0, p) = <<0, p>> /\ seed_of(p, 0) = <<0, p>>
    BY <2>1 DEF seed_of
  <2>3. QED BY <2>1, <2>2, SeedFacts
<1>3. <<0, 0>> \in Seeds /\ seed_of(0, 0) = <<0, 0>>
  <2>1. seed_of(0, 0) = <<0, 0>>
    BY DEF seed_of
  <2>2. QED BY <2>1, SeedFacts, PartyFacts
<1>4. QED BY <1>2, <1>3

LEMMA MasksType ==
  ASSUME NEW pr \in Programs, NEW t \in Tapes, NEW n \in 1 .. Len(pr), NEW m \in Nat
  PROVE  MasksAt(pr, t, n, m) \in [Computing -> Residues]
<1>1. ASSUME NEW p \in Computing
      PROVE  At(t, <<0, p>>, CallPlace(pr, n, <<0, p>>) + m) \in Residues
  <2>1. <<0, p>> \in Seeds
    BY DealersSeeds
  <2>2. CallPlace(pr, n, <<0, p>>) \in Nat
    BY <2>1, PlaceInt
  <2>3. CallPlace(pr, n, <<0, p>>) + m \in Int
    BY <2>2
  <2>4. QED BY <2>1, <2>3, AtType
<1>2. QED BY <1>1 DEF MasksAt

-----------------------------------------------------------------------------
\* The operand k is the next to get a partition, when those in S have theirs.
NextIn(c, S, k) ==
  /\ c.op \in Masking
  /\ \/ k = c.x /\ S = {}
     \/ c.op = "mul" /\ k = c.y /\ c.y # c.x /\ S \subseteq {c.x}

LEMMA ListFacts ==
  ASSUME NEW a, NEW b
  PROVE  /\ <<>> \o <<>> = <<>> /\ <<a>> \o <<>> = <<a>> /\ <<>> \o <<b>> = <<b>>
         /\ Len(<<>>) = 0 /\ Len(<<a>>) = 1 /\ Len(<<b>>) = 1 /\ Len(<<a>> \o <<b>>) = 2
<1>1. <<>> \in Seq({a, b}) /\ <<a>> \in Seq({a, b}) /\ <<b>> \in Seq({a, b})
  OBVIOUS
<1>2. \A u, v \in Seq({a, b}) : Len(u \o v) = Len(u) + Len(v) /\ u \o <<>> = u /\ <<>> \o u = u
  OBVIOUS
<1>3. Len(<<>>) = 0 /\ Len(<<a>>) = 1 /\ Len(<<b>>) = 1
  OBVIOUS
<1>4. QED BY <1>1, <1>2, <1>3

PartsStep(pr, t, n, w, S, k) ==
  /\ Parts(pr, t, n, w, S \cup {k})
       = Part(Parts(pr, t, n, w, S), k, MasksAt(pr, t, n, Len(MaskDraws(n, pr[n], S)) + 1))
  /\ Len(MaskDraws(n, pr[n], S \cup {k})) = Len(MaskDraws(n, pr[n], S)) + 1
  /\ Len(MaskDraws(n, pr[n], S)) \in Nat

\* One more partition of a call.
LEMMA PartsNext ==
  ASSUME NEW pr, NEW t, NEW n \in Nat, CallFacts(pr[n], n), NEW w, NEW S, NEW k, NextIn(pr[n], S, k)
  PROVE  PartsStep(pr, t, n, w, S, k)
<1> DEFINE c == pr[n]
           U == S \cup {k}
           first(A) == IF c.op \in Masking /\ c.x \in A THEN <<<<n, c.x>>>> ELSE <<>>
           second(A) == IF c.op = "mul" /\ c.y # c.x /\ c.y \in A THEN <<<<n, c.y>>>> ELSE <<>>
           mx == <<<<n, c.x>>>>
           my == <<<<n, c.y>>>>
<1>1. \A A : MaskDraws(n, c, A) = first(A) \o second(A)
  BY DEF MaskDraws
<1>2. c.op \in Masking
  BY DEF NextIn
<1>3. /\ Len(<<>>) = 0 /\ <<>> \o <<>> = <<>> /\ mx \o <<>> = mx /\ Len(mx) = 1
      /\ <<>> \o my = my /\ Len(my) = 1 /\ Len(mx \o my) = 2
  BY ListFacts
<1>4. CASE k = c.x /\ S = {}
  <2>1. first(S) = <<>> /\ second(S) = <<>> /\ first(U) = mx /\ second(U) = <<>>
    BY <1>2, <1>4
  <2> HIDE DEF first, second, mx, my
  <2>2. Len(MaskDraws(n, c, S)) = 0 /\ Len(MaskDraws(n, c, U)) = 1
    BY <1>1, <1>3, <2>1
  <2>3. FirstPart(pr, t, n, w, S) = w /\ FirstPart(pr, t, n, w, U) = Part(w, c.x, MasksAt(pr, t, n, 1))
    BY <1>2, <1>4 DEF FirstPart
  <2>4. Parts(pr, t, n, w, S) = w
    BY <1>4, <2>3 DEF Parts
  <2>5. ~ (c.op = "mul" /\ c.y # c.x /\ c.y \in U)
    BY <1>4
  <2>6. Parts(pr, t, n, w, U) = Part(w, c.x, MasksAt(pr, t, n, 1))
    BY <2>3, <2>5 DEF Parts
  <2>7. 0 + 1 = 1 /\ 0 \in Nat
    OBVIOUS
  <2>8. QED BY <1>4, <2>2, <2>4, <2>6, <2>7 DEF PartsStep
<1>5. CASE c.op = "mul" /\ k = c.y /\ c.y # c.x /\ S \subseteq {c.x}
  <2>1. c.y \notin S /\ c.y \in U
    BY <1>5
  <2>2. c.x \in S <=> c.x \in U
    BY <1>5
  <2>3. first(S) = first(U) /\ second(S) = <<>> /\ second(U) = my
    BY <1>5, <2>1, <2>2
  <2>4. first(S) = <<>> \/ first(S) = mx
    OBVIOUS
  <2> HIDE DEF first, second, mx, my
  <2>5. /\ Len(MaskDraws(n, c, U)) = Len(MaskDraws(n, c, S)) + 1
        /\ Len(MaskDraws(n, c, S)) \in Nat
    <3>0. MaskDraws(n, c, U) = first(S) \o my /\ MaskDraws(n, c, S) = first(S) \o <<>>
      <4> HIDE DEF c, U
      <4>1. QED BY <1>1, <2>3
    <3>1. CASE first(S) = <<>>
      <4>1. Len(MaskDraws(n, c, U)) = 1 /\ Len(MaskDraws(n, c, S)) = 0
        BY <1>3, <3>0, <3>1
      <4>2. QED BY <4>1
    <3>2. CASE first(S) = mx
      <4>1. Len(MaskDraws(n, c, U)) = 2 /\ Len(MaskDraws(n, c, S)) = 1
        BY <1>3, <3>0, <3>2
      <4>2. QED BY <4>1
    <3>3. QED BY <2>4, <3>1, <3>2
  <2>6. FirstPart(pr, t, n, w, S) = FirstPart(pr, t, n, w, U)
    BY <2>2 DEF FirstPart
  <2>7. Parts(pr, t, n, w, S) = FirstPart(pr, t, n, w, S)
    BY <2>1 DEF Parts
  <2>8. Parts(pr, t, n, w, U)
          = Part(FirstPart(pr, t, n, w, U), c.y, MasksAt(pr, t, n, Len(MaskDraws(n, c, U))))
    BY <1>5, <2>1 DEF Parts
  <2>9. QED BY <1>5, <2>5, <2>6, <2>7, <2>8 DEF PartsStep
<1>6. QED BY <1>4, <1>5 DEF NextIn

\* What the call finds, when the operands in S have got their partition.
PartsOK(pr, t, n, w, P, r, d, S) ==
  /\ WorldOK(Parts(pr, t, n, w, S), n - 1, P \cup S, r + Len(MaskDraws(n, pr[n], S)), d)
  /\ Grows(w, Parts(pr, t, n, w, S))

LEMMA PartsNone ==
  ASSUME NEW pr, NEW t, NEW n, NEW w, NEW P, NEW r \in Nat, NEW d, WorldOK(w, n - 1, P, r, d)
  PROVE  PartsOK(pr, t, n, w, P, r, d, {}) /\ Parts(pr, t, n, w, {}) = w
<1>1. Parts(pr, t, n, w, {}) = w
  BY DEF Parts, FirstPart
<1>2. MaskDraws(n, pr[n], {}) = <<>>
  BY NoMaskDraws
<1>3. r + Len(MaskDraws(n, pr[n], {})) = r
  BY <1>2
<1>4. P \cup {} = P
  OBVIOUS
<1>5. Grows(w, w)
  BY WorldSized, GrowsSelf
<1>6. QED BY <1>1, <1>3, <1>4, <1>5 DEF PartsOK

LEMMA PartsMore ==
  ASSUME NEW pr \in Programs, NEW t \in Tapes, NEW n \in 1 .. Len(pr),
         NEW w, NEW P, NEW r \in Nat, NEW d, WorldOK(w, n - 1, P, r, d),
         NEW S, PartsOK(pr, t, n, w, P, r, d, S),
         NEW k \in 1 .. n - 1, k \notin P, k \notin S, NextIn(pr[n], S, k)
  PROVE  /\ PartsOK(pr, t, n, w, P, r, d, S \cup {k})
         /\ Grows(Parts(pr, t, n, w, S), Parts(pr, t, n, w, S \cup {k}))
<1> DEFINE one == Parts(pr, t, n, w, S)
           two == Parts(pr, t, n, w, S \cup {k})
           a == Len(MaskDraws(n, pr[n], S))
           mask == MasksAt(pr, t, n, a + 1)
<1>1. CallFacts(pr[n], n) /\ n \in Nat /\ n - 1 \in Nat
  BY ProgramFacts
<1>2. two = Part(one, k, mask) /\ Len(MaskDraws(n, pr[n], S \cup {k})) = a + 1 /\ a \in Nat
  <2> HIDE DEF a, mask
  <2>1. PartsStep(pr, t, n, w, S, k)
    BY <1>1, PartsNext
  <2>2. QED BY <2>1 DEF PartsStep, a, mask
<1>3. mask \in [Computing -> Residues]
  <2>1. a + 1 \in Nat
    BY <1>2
  <2>2. QED BY <2>1, MasksType
<1>4. WorldOK(one, n - 1, P \cup S, r + a, d) /\ Grows(w, one)
  BY DEF PartsOK
<1> HIDE DEF one, two, mask, a
<1>5. k \notin P \cup S
  OBVIOUS
<1>6. WorldOK(two, n - 1, (P \cup S) \cup {k}, (r + a) + 1, d) /\ Grows(one, two)
  BY <1>1, <1>2, <1>3, <1>4, <1>5, PartRight
<1>7. (P \cup S) \cup {k} = P \cup (S \cup {k}) /\ (r + a) + 1 = r + (a + 1)
  BY <1>2
<1>8. Sized(w) /\ Sized(one) /\ Sized(two)
  BY <1>4, <1>6, WorldSized
<1>9. Grows(w, two)
  BY <1>4, <1>6, <1>8, GrowsOn
<1>10. WorldOK(two, n - 1, P \cup (S \cup {k}), r + Len(MaskDraws(n, pr[n], S \cup {k})), d)
  BY <1>2, <1>6, <1>7
<1>11. QED BY <1>6, <1>9, <1>10 DEF PartsOK, one, two

\* The operands that have their partition are the first of those that want one.
FirstOf(c, S, W) == S \subseteq W /\ (S # {} /\ c.x \in W => c.x \in S)

\* They have them, and get the others.
LEMMA PartsAll ==
  ASSUME NEW pr \in Programs, NEW t \in Tapes, NEW n \in 1 .. Len(pr),
         NEW w, NEW P, NEW r \in Nat, NEW d, WorldOK(w, n - 1, P, r, d),
         NEW S, FirstOf(pr[n], S, Wanted(pr[n], P))
  PROVE  /\ PartsOK(pr, t, n, w, P, r, d, S)
         /\ PartsOK(pr, t, n, w, P, r, d, Wanted(pr[n], P))
         /\ Grows(Parts(pr, t, n, w, S), Parts(pr, t, n, w, Wanted(pr[n], P)))
<1> DEFINE c == pr[n]
           W == Wanted(c, P)
           OK(A) == PartsOK(pr, t, n, w, P, r, d, A)
           B(A) == Parts(pr, t, n, w, A)
<1>1. CallFacts(c, n) /\ n \in Nat /\ n - 1 \in Nat
  BY ProgramFacts
<1>2. /\ \A k \in W : k \in 1 .. n - 1 /\ k \notin P /\ c.op \in Masking /\ (k = c.x \/ (c.op = "mul" /\ k = c.y))
  BY <1>1 DEF Wanted, CallFacts, Masking
<1>3. OK({}) /\ B({}) = w
  BY PartsNone
<1>4. \A A : OK(A) => Sized(B(A)) /\ Grows(w, B(A))
  BY WorldSized DEF PartsOK
<1>5. S \subseteq W /\ (S # {} /\ c.x \in W => c.x \in S)
  BY DEF FirstOf
<1>6. ASSUME NEW A \in SUBSET W, NEW k \in W, k \notin A, OK(A), NextIn(c, A, k)
      PROVE  OK(A \cup {k}) /\ Grows(B(A), B(A \cup {k}))
  BY <1>2, <1>6, PartsMore
<1> HIDE DEF OK, B, W, c
<1>7. CASE c.x \in W
  <2>1. NextIn(c, {}, c.x)
    BY <1>2, <1>7 DEF NextIn
  <2>2. OK({} \cup {c.x})
    BY <1>3, <1>6, <1>7, <2>1
  <2>3. {} \cup {c.x} = {c.x}
    OBVIOUS
  <2>4. OK({c.x})
    BY <2>2, <2>3
  <2>5. CASE W = {c.x}
    <3>1. S = {} \/ S = W
      BY <1>5, <1>7, <2>5
    <3>2. OK(W)
      BY <2>4, <2>5
    <3>3. CASE S = W
      BY <3>2, <3>3, <1>4, GrowsSelf DEF OK, B, W, c
    <3>4. CASE S = {}
      BY <3>2, <3>4, <1>3, <1>4 DEF OK, B, W, c
    <3>5. QED BY <3>1, <3>3, <3>4
  <2>6. CASE W # {c.x}
    <3>1. c.op = "mul" /\ c.y # c.x /\ W = {c.x, c.y} /\ c.y \in W
      BY <1>2, <1>7, <2>6
    <3>2. NextIn(c, {c.x}, c.y)
      BY <1>2, <1>7, <3>1 DEF NextIn
    <3>3. {c.x} \in SUBSET W /\ c.y \notin {c.x}
      BY <1>7, <3>1
    <3>4. OK({c.x} \cup {c.y}) /\ Grows(B({c.x}), B({c.x} \cup {c.y}))
      BY <1>6, <2>4, <3>1, <3>2, <3>3
    <3>5. {c.x} \cup {c.y} = W
      BY <3>1
    <3>6. OK(W) /\ Grows(B({c.x}), B(W))
      BY <3>4, <3>5
    <3>7. S = {} \/ S = {c.x} \/ S = W
      BY <1>5, <1>7, <3>1
    <3>8. CASE S = W
      BY <3>6, <3>8, <1>4, GrowsSelf DEF OK, B, W, c
    <3>9. CASE S = {}
      BY <3>6, <3>9, <1>3, <1>4 DEF OK, B, W, c
    <3>10. CASE S = {c.x}
      BY <2>4, <3>6, <3>10 DEF OK, B, W, c
    <3>11. QED BY <3>7, <3>8, <3>9, <3>10
  <2>7. QED BY <2>5, <2>6
<1>8. CASE c.x \notin W
  <2>1. CASE W = {}
    <3>1. S = {} /\ S = W
      BY <1>5, <2>1
    <3>2. QED BY <1>3, <1>4, <3>1 DEF OK, B, W, c
  <2>2. CASE W # {}
    <3>1. W = {c.y} /\ c.op = "mul" /\ c.y # c.x /\ c.y \in W
      BY <1>2, <1>8, <2>2
    <3>2. NextIn(c, {}, c.y)
      BY <1>2, <3>1 DEF NextIn
    <3>3. OK({} \cup {c.y})
      BY <1>3, <1>6, <3>1, <3>2
    <3>4. {} \cup {c.y} = W
      BY <3>1
    <3>5. OK(W)
      BY <3>3, <3>4
    <3>6. S = {} \/ S = W
      BY <1>5, <3>1
    <3>7. CASE S = W
      BY <3>5, <3>7, <1>4, GrowsSelf DEF OK, B, W, c
    <3>8. CASE S = {}
      BY <3>5, <3>8, <1>3, <1>4 DEF OK, B, W, c
    <3>9. QED BY <3>6, <3>7, <3>8
  <2>3. QED BY <2>1, <2>2
<1>9. QED BY <1>7, <1>8

\* What a call finds when its operands have their partitions.
AtEnd(pr, t, n, w, S, r, d) ==
  /\ pr \in Programs /\ t \in Tapes /\ n \in 1 .. Len(pr)
  /\ WorldOK(w, n - 1, S, r, d) /\ Wanted(pr[n], S) = {}

EndCalls(pr, n, w, S) ==
  /\ CallFacts(pr[n], n) /\ n \in Nat /\ n - 1 \in Nat
  /\ pr[n].op # "share_from" =>
       \A p \in Parties : /\ w.results[p][pr[n].x] \in Sharetensors
                          /\ is_partitioned(w.results[p][pr[n].x]) <=> pr[n].x \in S
  /\ pr[n].op \in {"add", "sub", "mul"} =>
       \A p \in Parties : /\ w.results[p][pr[n].y] \in Sharetensors
                          /\ is_partitioned(w.results[p][pr[n].y]) <=> pr[n].y \in S
  /\ pr[n].op \in Masking => pr[n].x \in S
  /\ pr[n].op = "mul" => pr[n].y \in S

LEMMA EndOperands ==
  ASSUME NEW pr, NEW t, NEW n, NEW w, NEW S, NEW r, NEW d, AtEnd(pr, t, n, w, S, r, d)
  PROVE  EndCalls(pr, n, w, S)
<1>1. CallFacts(pr[n], n) /\ n \in Nat /\ n - 1 \in Nat
  BY ProgramFacts DEF AtEnd
<1>2. pr[n].op # "share_from" => pr[n].x \in 1 .. n - 1
  BY <1>1 DEF CallFacts
<1>3. pr[n].op \in {"add", "sub", "mul"} => pr[n].y \in 1 .. n - 1
  BY <1>1 DEF CallFacts
<1>4. \A k \in 1 .. n - 1 : \A p \in Parties :
        /\ w.results[p][k] \in Sharetensors
        /\ is_partitioned(w.results[p][k]) <=> k \in S
  BY ResultsType DEF AtEnd
<1>5. pr[n].op \in Masking => pr[n].x \in S
  BY DEF AtEnd, Wanted
<1>6. pr[n].op = "mul" => pr[n].y \in S
  BY DEF AtEnd, Wanted
<1>7. QED BY <1>1, <1>2, <1>3, <1>4, <1>5, <1>6 DEF EndCalls

LEMMA LastAtType ==
  ASSUME NEW pr \in Programs, NEW t \in Tapes, NEW n \in 1 .. Len(pr), NEW d \in Seeds, NEW j \in Nat
  PROVE  LastAt(pr, t, n, d, j) \in Bits
<1>1. LastPlace(pr, n, d) \in Nat
  BY PlaceInt
<1>2. LastPlace(pr, n, d) + j \in Int
  BY <1>1
<1>3. QED BY <1>2, AtType DEF LastAt

LEMMA HelpersFull ==
  ASSUME NEW pr \in Programs, NEW t \in Tapes, NEW n \in 1 .. Len(pr)
  PROVE  /\ Full(HelpersDraws(pr, t, n), Dealt(pr[n])) /\ Dealt(pr[n]) \in Nat
         /\ \A i \in 1 .. N - 2 : \A j \in 1 .. Dealt(pr[n]) :
              HelpersDraws(pr, t, n)[i][j] = LastAt(pr, t, n, <<0, i + 1>>, j)
<1> DEFINE m == Dealt(pr[n])
           v == HelpersDraws(pr, t, n)
<1>1. CallFacts(pr[n], n) /\ m \in Nat
  BY ProgramFacts, DealtType
<1>2. N - 2 \in Nat
  BY PartyFacts
<1>3. v = [i \in 1 .. N - 2 |-> [j \in 1 .. m |-> LastAt(pr, t, n, <<0, i + 1>>, j)]]
  BY DEF HelpersDraws
<1>4. ASSUME NEW i \in 1 .. N - 2, NEW j \in 1 .. m PROVE LastAt(pr, t, n, <<0, i + 1>>, j) \in Bits
  <2>1. i + 1 \in Computing /\ j \in Nat
    <3>1. j \in Nat
      BY <1>1
    <3>2. N \in Nat /\ i + 1 \in 1 .. N - 1
      BY PartyFacts
    <3>3. QED BY <3>1, <3>2 DEF Computing
  <2>2. <<0, i + 1>> \in Seeds
    BY <2>1, DealersSeeds
  <2>3. QED BY <2>1, <2>2, LastAtType
<1> HIDE DEF m, v
<1>5. ASSUME NEW i \in 1 .. N - 2
      PROVE  /\ v[i] = [j \in 1 .. m |-> LastAt(pr, t, n, <<0, i + 1>>, j)]
             /\ v[i] \in Seq(Bits) /\ Len(v[i]) = m
  <2>1. v[i] = [j \in 1 .. m |-> LastAt(pr, t, n, <<0, i + 1>>, j)]
    BY <1>3
  <2>2. v[i] \in [1 .. m -> Bits]
    BY <1>4, <2>1
  <2>3. QED BY <1>1, <2>1, <2>2
<1>6. v \in Seq(Seq(Bits)) /\ Len(v) = N - 2
  <2>1. v = [i \in 1 .. N - 2 |-> v[i]]
    BY <1>3
  <2>2. v \in [1 .. N - 2 -> Seq(Bits)]
    BY <1>5, <2>1
  <2>3. QED BY <1>2, <2>2
<1>7. Full(v, m)
  BY <1>5, <1>6 DEF Full
<1>8. \A i \in 1 .. N - 2 : \A j \in 1 .. m : v[i][j] = LastAt(pr, t, n, <<0, i + 1>>, j)
  BY <1>5
<1>9. QED BY <1>1, <1>7, <1>8 DEF m, v

\* What the dealer's mask and what it gives are.
LEMMA DealersMaskType ==
  ASSUME NEW t \in Tapes, NEW w, w.own \in Nat
  PROVE  /\ DealersMask(t, w) \in 0 .. TwoTo[K + V] - 1 /\ DealersMask(t, w) \in Int
         /\ \A a \in Int : low(a) \in Int /\ low(a) \in 0 .. TwoTo[F] - 1
         /\ TwoTo[K + V] \in Nat \ {0} /\ TwoTo[F] \in Nat \ {0} /\ TwoTo[K] \in Nat \ {0}
<1>1. K + V \in Nat /\ F \in Nat /\ K \in Nat
  BY BitsAssumption
<1>2. TwoTo[K + V] \in Nat \ {0} /\ TwoTo[F] \in Nat \ {0} /\ TwoTo[K] \in Nat \ {0}
  BY <1>1, TwoToType
<1>3. At(t, <<0, 0>>, w.own + 1) \in Int
  <2>1. w.own + 1 \in Int
    OBVIOUS
  <2>2. QED BY <2>1, AtType, DealersSeeds
<1>4. DealersMask(t, w) \in 0 .. TwoTo[K + V] - 1
  BY <1>2, <1>3, ModType DEF DealersMask
<1>5. DealersMask(t, w) \in Int
  BY <1>2, <1>4
<1>6. \A a \in Int : low(a) \in 0 .. TwoTo[F] - 1
  BY <1>2, ModType DEF low
<1>7. QED BY <1>2, <1>4, <1>5, <1>6

LEMMA GivenType ==
  ASSUME NEW pr, NEW t, NEW n, NEW w, NEW S, NEW r, NEW d, AtEnd(pr, t, n, w, S, r, d),
         pr[n].op \in {"mul", "pow", "trunc"}
  PROVE  Given(pr[n], t, w) \in Seq(Int) /\ Len(Given(pr[n], t, w)) = Dealt(pr[n])
<1> DEFINE c == pr[n]
<1>1. EndCalls(pr, n, w, S)
  BY EndOperands
<1>2. CASE c.op = "mul"
  <2> DEFINE x == w.results[0][c.x]  y == w.results[0][c.y]
  <2>1. x \in Sharetensors /\ is_partitioned(x) /\ y \in Sharetensors /\ is_partitioned(y)
    BY <1>1, <1>2, ComputingParties DEF EndCalls, Masking
  <2>2. x.x_r[1] \in Int /\ x.r[1] \in Int /\ y.x_r[1] \in Int /\ y.r[1] \in Int
    BY <2>1, TensorParts
  <2>3. beaver_mul(0, x, y) \in Int
    BY <2>2, BeaverType
  <2>4. Given(c, t, w) = <<beaver_mul(0, x, y)>>
    BY <1>2 DEF Given
  <2>5. Dealt(c) = 1
    BY <1>2 DEF Dealt
  <2> HIDE DEF x, y
  <2>6. <<beaver_mul(0, x, y)>> \in Seq(Int) /\ Len(<<beaver_mul(0, x, y)>>) = 1
    BY <2>3
  <2>7. QED BY <2>4, <2>5, <2>6
<1>3. CASE c.op = "pow"
  <2> DEFINE x == w.results[0][c.x]
  <2>1. x \in Sharetensors /\ is_partitioned(x)
    BY <1>1, <1>3, ComputingParties DEF EndCalls, Masking
  <2>2. x.r[1] \in Int
    BY <2>1, TensorParts
  <2>3. c.power - 1 \in Nat /\ Dealt(c) = c.power - 1
    BY <1>1, <1>3, DealtType DEF EndCalls
  <2>4. Given(c, t, w) = [j \in 1 .. c.power - 1 |-> Pow(x.r[1], j + 1)]
    BY <1>3 DEF Given
  <2> HIDE DEF x
  <2>5. QED BY <2>2, <2>3, <2>4, PowersSeq
<1>4. CASE c.op = "trunc"
  <2> DEFINE a == DealersMask(t, w)
  <2>0. w.own \in Nat /\ t \in Tapes
    BY DEF AtEnd, WorldOK
  <2>1. a \in Int /\ low(a) \in Int
    BY <2>0, DealersMaskType
  <2>2. Given(c, t, w) = <<a, low(a)>> /\ Dealt(c) = 2
    BY <1>4 DEF Given, Dealt
  <2> HIDE DEF a
  <2>3. QED BY <2>1, <2>2, PairSeq
<1>5. QED BY <1>2, <1>3, <1>4

\* What the dealer sends the hub, and what the computing parties have of it.
LEMMA DealsType ==
  ASSUME NEW pr, NEW t, NEW n, NEW w, NEW S, NEW r, NEW d, AtEnd(pr, t, n, w, S, r, d)
  PROVE  Deals(pr, t, n, w) \in Seq(Residues) /\ Len(Deals(pr, t, n, w)) = Dealt(pr[n])
<1> DEFINE c == pr[n]
           v == HelpersDraws(pr, t, n)
<1>1. EndCalls(pr, n, w, S) /\ pr \in Programs /\ t \in Tapes /\ n \in 1 .. Len(pr)
  BY EndOperands DEF AtEnd
<1>2. Full(v, Dealt(c)) /\ Dealt(c) \in Nat
  BY <1>1, HelpersFull
<1>3. CASE c.op = "share_from" /\ c.source = 0
  <2>1. Dealt(c) = 1
    BY <1>3 DEF Dealt
  <2>2. v \in Seq(Seq(Bits)) /\ Len(v) = N - 2 /\ \A j \in 1 .. Len(v) : Len(v[j]) >= 1
    <3> HIDE DEF v, c
    <3>1. Full(v, 1)
      BY <1>2, <2>1
    <3>2. v \in Seq(Seq(Bits)) /\ Len(v) = N - 2 /\ \A i \in 1 .. N - 2 : Len(v[i]) = 1
      BY <3>1 DEF Full
    <3>3. \A i \in 1 .. Len(v) : Len(v[i]) = 1
      BY <3>2
    <3>4. 1 >= 1
      OBVIOUS
    <3>5. \A i \in 1 .. Len(v) : Len(v[i]) >= 1
      BY <3>3, <3>4
    <3>6. QED BY <3>2, <3>5
  <2> HIDE DEF v
  <2>3. Firsts(v) \in Seq(Int)
    BY <2>2, FirstsType
  <2>4. SumWords(Firsts(v)) \in Int
    BY <2>3, SumTypes
  <2>5. c.data \in Int
    BY <1>1, <1>3, ResidueFacts DEF EndCalls, CallFacts
  <2>6. sub_mod(c.data, SumWords(Firsts(v))) \in Residues
    BY <2>4, <2>5, ArithmeticTypes
  <2>7. Deals(pr, t, n, w) = <<sub_mod(c.data, SumWords(Firsts(v)))>>
    BY <1>3 DEF Deals, v
  <2>8. QED BY <2>1, <2>6, <2>7, OneResidue
<1>4. CASE c.op = "share_from" /\ c.source # 0
  <2>1. Deals(pr, t, n, w) = <<>> /\ Dealt(c) = 0
    BY <1>4 DEF Deals, Dealt
  <2>2. QED BY <2>1
<1>5. CASE c.op \in {"mul", "pow", "trunc"}
  <2>1. Given(c, t, w) \in Seq(Int) /\ Len(Given(c, t, w)) = Dealt(c)
    BY <1>5, GivenType
  <2>2. Deals(pr, t, n, w) = Missing(Given(c, t, w), v)
    BY <1>5 DEF Deals
  <2> HIDE DEF v, c
  <2>3. Missing(Given(c, t, w), v) \in Seq(Residues) /\ Len(Missing(Given(c, t, w), v)) = Dealt(c)
    BY <1>2, <2>1, MissingType
  <2>4. QED BY <2>2, <2>3 DEF c
<1>6. CASE c.op \in {"add", "sub", "add_public", "mul_public", "reveal"}
  <2>1. Deals(pr, t, n, w) = <<>> /\ Dealt(c) = 0
    BY <1>6 DEF Deals, Dealt
  <2>2. QED BY <2>1
<1>7. c.op \in Ops
  BY <1>1 DEF EndCalls, CallFacts
<1>8. QED BY <1>3, <1>4, <1>5, <1>6, <1>7 DEF Ops

LEMMA DealtInType ==
  ASSUME NEW pr, NEW t, NEW n, NEW w, NEW S, NEW r, NEW d, AtEnd(pr, t, n, w, S, r, d),
         NEW p \in Computing
  PROVE  /\ DealtIn(pr, t, n, w, p) \in Seq(Residues) /\ Len(DealtIn(pr, t, n, w, p)) = Dealt(pr[n])
         /\ DealtIn(pr, t, n, w, p) \in Seq(Int)
         /\ \A j \in 1 .. Dealt(pr[n]) : /\ DealtIn(pr, t, n, w, p)[j] \in Residues
                                         /\ DealtIn(pr, t, n, w, p)[j] \in Int
<1> DEFINE u == DealtIn(pr, t, n, w, p)
           v == HelpersDraws(pr, t, n)
           m == Dealt(pr[n])
<1>1. u \in Seq(Residues) /\ Len(u) = m
  <2>1. CASE p = 1
    BY <2>1, DealsType DEF DealtIn
  <2>2. CASE p # 1
    <3>1. u = v[p - 1]
      BY <2>2 DEF DealtIn
    <3>2. Full(v, m)
      BY HelpersFull DEF AtEnd
    <3>3. p - 1 \in 1 .. N - 2
      BY <2>2, ComputingParties, PartyFacts
    <3> HIDE DEF v, u, m
    <3>4. v[p - 1] \in Seq(Bits) /\ Len(v[p - 1]) = m
      BY <3>2, <3>3 DEF Full
    <3>5. v[p - 1] \in Seq(Residues)
      BY <3>4, BitsSeq
    <3>6. QED BY <3>1, <3>4, <3>5
  <2>3. QED BY <2>1, <2>2
<1> HIDE DEF u, m
<1>2. \A j \in 1 .. m : u[j] \in Residues
  BY <1>1
<1>3. \A j \in 1 .. m : u[j] \in Int
  BY <1>2, ResidueFacts
<1>4. u \in Seq(Int)
  BY <1>1, ReducedNumbers
<1>5. QED BY <1>1, <1>2, <1>3, <1>4 DEF u, m

\* A tensor with a public number added, or multiplied by one.
LEMMA WithPublicType ==
  ASSUME NEW x \in Sharetensors, NEW a \in Residues, NEW p
  PROVE  /\ WithPublic(x, a, p) \in Sharetensors
         /\ is_partitioned(WithPublic(x, a, p)) <=> is_partitioned(x)
         /\ WithPublic(x, a, p).share = add_public(p, x.share, a)
         /\ is_partitioned(x) => /\ WithPublic(x, a, p).x_r = <<add_mod(x.x_r[1], a)>>
                                 /\ WithPublic(x, a, p).r = x.r
<1> DEFINE v == add_mod(x.x_r[1], a)
           x_r == IF is_partitioned(x) THEN <<v>> ELSE <<>>
           s == add_public(p, x.share, a)
           t == [share |-> s, x_r |-> x_r, r |-> x.r]
<1>1. /\ x.share \in Residues /\ x.share \in Int /\ x.r \in Seq(Residues) /\ Len(x.r) <= 1
      /\ Len(x.r) \in Nat
      /\ is_partitioned(x) <=> Len(x.r) = 1
      /\ is_partitioned(x) => x.x_r[1] \in Int
      /\ a \in Int
  BY TensorParts, ResidueFacts
<1>2. s \in Residues
  BY <1>1, ArithmeticTypes DEF add_public
<1>3. is_partitioned(x) => v \in Residues
  BY <1>1, ArithmeticTypes
<1>4. WithPublic(x, a, p) = t
  BY DEF WithPublic
<1>5. t.share = s /\ t.x_r = x_r /\ t.r = x.r
  OBVIOUS
<1>6. is_partitioned(x) <=> x.r # <<>>
  BY DEF is_partitioned
<1> HIDE DEF v, s
<1>7. x_r \in Seq(Residues) /\ Len(x_r) = Len(x.r)
  <2>1. CASE is_partitioned(x)
    BY <1>1, <1>3, <2>1, OneResidue
  <2>2. CASE ~ is_partitioned(x)
    <3>1. x_r = <<>> /\ x.r = <<>>
      BY <1>6, <2>2
    <3>2. <<>> \in Seq(Residues) /\ Len(<<>>) = 0
      OBVIOUS
    <3> HIDE DEF x_r
    <3>3. QED BY <3>1, <3>2
  <2>3. QED BY <2>1, <2>2
<1>8. is_partitioned(x) => x_r = <<v>>
  OBVIOUS
<1> HIDE DEF x_r
<1>9. t \in Sharetensors /\ (is_partitioned(t) <=> is_partitioned(x))
  BY <1>1, <1>2, <1>6, <1>7, ThreeParts
<1> HIDE DEF t
<1>10. QED BY <1>4, <1>5, <1>8, <1>9 DEF v, s

LEMMA TimesPublicType ==
  ASSUME NEW x \in Sharetensors, NEW a \in Residues
  PROVE  /\ TimesPublic(x, a) \in Sharetensors
         /\ is_partitioned(TimesPublic(x, a)) <=> is_partitioned(x)
         /\ TimesPublic(x, a).share = mul_mod(x.share, a)
         /\ is_partitioned(x) => /\ TimesPublic(x, a).x_r = <<mul_mod(x.x_r[1], a)>>
                                 /\ TimesPublic(x, a).r = <<mul_mod(x.r[1], a)>>
<1> DEFINE v == mul_mod(x.x_r[1], a)
           u == mul_mod(x.r[1], a)
           x_r == IF is_partitioned(x) THEN <<v>> ELSE x.x_r
           r == IF is_partitioned(x) THEN <<u>> ELSE x.r
           s == mul_mod(x.share, a)
           t == [share |-> s, x_r |-> x_r, r |-> r]
<1>1. /\ x.share \in Int /\ x.r \in Seq(Residues) /\ Len(x.r) <= 1
      /\ x.x_r \in Seq(Residues) /\ Len(x.x_r) = Len(x.r)
      /\ is_partitioned(x) => x.x_r[1] \in Int /\ x.r[1] \in Int
      /\ a \in Int
  BY TensorParts, ResidueFacts
<1>2. s \in Residues /\ (is_partitioned(x) => v \in Residues /\ u \in Residues)
  BY <1>1, ArithmeticTypes
<1>4. TimesPublic(x, a) = t
  BY DEF TimesPublic
<1>5. t.share = s /\ t.x_r = x_r /\ t.r = r
  OBVIOUS
<1>6. is_partitioned(x) <=> x.r # <<>>
  BY DEF is_partitioned
<1> HIDE DEF v, u, s
<1>7. /\ x_r \in Seq(Residues) /\ r \in Seq(Residues) /\ Len(x_r) = Len(r) /\ Len(r) <= 1
      /\ r # <<>> <=> is_partitioned(x)
  <2>1. CASE is_partitioned(x)
    <3>1. x_r = <<v>> /\ r = <<u>>
      BY <2>1
    <3>2. 1 <= 1
      OBVIOUS
    <3> HIDE DEF x_r, r
    <3>3. QED BY <1>2, <2>1, <3>1, <3>2, OneResidue
  <2>2. CASE ~ is_partitioned(x)
    <3>1. x_r = x.x_r /\ r = x.r
      BY <2>2
    <3> HIDE DEF x_r, r
    <3>2. QED BY <1>1, <1>6, <2>2, <3>1
  <2>3. QED BY <2>1, <2>2
<1>8. is_partitioned(x) => x_r = <<v>> /\ r = <<u>>
  OBVIOUS
<1> HIDE DEF x_r, r
<1>9. t \in Sharetensors /\ (is_partitioned(t) <=> is_partitioned(x))
  BY <1>2, <1>7, ThreeParts
<1> HIDE DEF t
<1>10. QED BY <1>4, <1>5, <1>8, <1>9 DEF v, u, s

-----------------------------------------------------------------------------
\* The other parties, as one names them.
LEMMA OthersFacts ==
  ASSUME NEW p \in Computing
  PROVE  /\ Others(p) \in [1 .. N - 2 -> Computing \ {p}] /\ DOMAIN Others(p) = 1 .. N - 2
         /\ \A i \in 1 .. N - 2 : Others(p)[i] = IF i < p THEN i ELSE i + 1
<1>1. p # 0 /\ p \in 1 .. N - 1 /\ N \in Nat /\ N - 2 \in Nat
  BY PartyFacts DEF Computing
<1>2. Others(p) = [i \in 1 .. N - 2 |-> IF i < p THEN i ELSE i + 1]
  BY <1>1 DEF Others
<1>3. ASSUME NEW i \in 1 .. N - 2 PROVE (IF i < p THEN i ELSE i + 1) \in Computing \ {p}
  BY <1>1 DEF Computing
<1>4. QED BY <1>2, <1>3

\* What the source of a number draws from the streams of the others.
OwnDraws(pr, t, n, p) ==
  [i \in DOMAIN Others(p) |-> LastAt(pr, t, n, seed_of(p, Others(p)[i]), 1)]

LEMMA OwnDrawsType ==
  ASSUME NEW pr \in Programs, NEW t \in Tapes, NEW n \in 1 .. Len(pr), NEW p \in Computing
  PROVE  /\ OwnDraws(pr, t, n, p) \in Seq(Bits) /\ OwnDraws(pr, t, n, p) \in Seq(Int)
         /\ Len(OwnDraws(pr, t, n, p)) = N - 2
         /\ \A i \in 1 .. N - 2 : OwnDraws(pr, t, n, p)[i] = LastAt(pr, t, n, seed_of(p, Others(p)[i]), 1)
<1>1. DOMAIN Others(p) = 1 .. N - 2 /\ N - 2 \in Nat
  BY OthersFacts, PartyFacts
<1>2. ASSUME NEW i \in 1 .. N - 2 PROVE LastAt(pr, t, n, seed_of(p, Others(p)[i]), 1) \in Bits
  <2>1. Others(p)[i] \in Parties /\ p \in Parties /\ 1 \in Nat
    BY OthersFacts, ComputingParties
  <2>2. seed_of(p, Others(p)[i]) \in Seeds
    BY <2>1, SeedFacts
  <2>3. QED BY <2>1, <2>2, LastAtType
<1>3. OwnDraws(pr, t, n, p) = [i \in 1 .. N - 2 |-> LastAt(pr, t, n, seed_of(p, Others(p)[i]), 1)]
  BY <1>1 DEF OwnDraws
<1>4. OwnDraws(pr, t, n, p) \in [1 .. N - 2 -> Bits]
  BY <1>2, <1>3
<1>5. OwnDraws(pr, t, n, p) \in Seq(Bits) /\ Len(OwnDraws(pr, t, n, p)) = N - 2
  BY <1>1, <1>4
<1>6. OwnDraws(pr, t, n, p) \in Seq(Int)
  BY <1>5, BitsSeq, ReducedNumbers
<1>7. QED BY <1>3, <1>5, <1>6

LEMMA ShareOfType ==
  ASSUME NEW pr, NEW t, NEW n, NEW w, NEW S, NEW r, NEW d, AtEnd(pr, t, n, w, S, r, d),
         pr[n].op = "share_from", NEW p \in Parties
  PROVE  ShareOf(pr, t, n, w, p) \in Residues
<1> DEFINE c == pr[n]
<1>1. pr \in Programs /\ t \in Tapes /\ n \in 1 .. Len(pr) /\ c.source \in Parties /\ c.data \in Int
  <2>1. pr \in Programs /\ t \in Tapes /\ n \in 1 .. Len(pr)
    BY DEF AtEnd
  <2>2. CallFacts(c, n)
    BY EndOperands DEF EndCalls
  <2>3. c.source \in Parties /\ c.data \in Residues
    BY <2>2 DEF CallFacts
  <2>4. QED BY <2>1, <2>3, ResidueFacts
<1>2. CASE p = 0
  BY <1>2, ResidueFacts DEF ShareOf
<1>3. CASE p # 0 /\ c.source = 0
  <2>1. p \in Computing /\ Dealt(c) = 1 /\ 1 \in 1 .. 1
    BY <1>3, ComputingParties DEF Dealt
  <2>2. DealtIn(pr, t, n, w, p)[1] \in Residues
    BY <2>1, DealtInType
  <2>3. QED BY <1>3, <2>2 DEF ShareOf
<1>4. CASE p # 0 /\ c.source # 0 /\ p = c.source
  <2>1. p \in Computing
    BY <1>4, ComputingParties
  <2>2. OwnDraws(pr, t, n, p) \in Seq(Int)
    BY <1>1, <2>1, OwnDrawsType
  <2>3. SumWords(OwnDraws(pr, t, n, p)) \in Int
    BY <2>2, SumTypes
  <2>4. sub_mod(c.data, SumWords(OwnDraws(pr, t, n, p))) \in Residues
    BY <1>1, <2>3, ArithmeticTypes
  <2>5. ShareOf(pr, t, n, w, p) = sub_mod(c.data, SumWords(OwnDraws(pr, t, n, p)))
    BY <1>4 DEF ShareOf, OwnDraws
  <2>6. QED BY <2>4, <2>5
<1>5. CASE p # 0 /\ c.source # 0 /\ p # c.source
  <2>1. seed_of(p, c.source) \in Seeds /\ 1 \in Nat
    BY <1>1, SeedFacts
  <2>2. LastAt(pr, t, n, seed_of(p, c.source), 1) \in Residues
    BY <1>1, <2>1, LastAtType, BitsReduced
  <2>3. QED BY <1>5, <2>2 DEF ShareOf
<1>6. QED BY <1>2, <1>3, <1>4, <1>5

LEMMA EndValuesType ==
  ASSUME NEW pr, NEW t, NEW n, NEW w, NEW S, NEW r, NEW d, AtEnd(pr, t, n, w, S, r, d),
         Shows(pr[n])
  PROVE  /\ EndValues(pr, t, n, w) \in [Computing -> Residues]
         /\ SumMod(EndValues(pr, t, n, w)) \in Residues /\ SumMod(EndValues(pr, t, n, w)) \in Int
         /\ \A p \in Computing : EndValues(pr, t, n, w)[p] \in Residues
<1> DEFINE c == pr[n]
           s(p) == w.results[p][c.x].share
           dealt(p) == DealtIn(pr, t, n, w, p)[1]
<1>1. c.op = "reveal" \/ c.op = "trunc"
  BY DEF Shows
<1>2. \A p \in Computing : s(p) \in Residues /\ s(p) \in Int
  BY <1>1, EndOperands, TensorParts, ComputingParties DEF EndCalls
<1>3. ASSUME NEW p \in Computing, c.op = "trunc" PROVE add_mod(s(p), dealt(p)) \in Residues
  <2>1. Dealt(c) = 2 /\ 1 \in 1 .. 2
    BY <1>3 DEF Dealt
  <2>2. dealt(p) \in Int
    BY <2>1, DealtInType
  <2> HIDE DEF s, dealt
  <2>3. QED BY <1>2, <2>2, ArithmeticTypes
<1>4. EndValues(pr, t, n, w)
        = [p \in Computing |-> IF c.op = "trunc" THEN add_mod(s(p), dealt(p)) ELSE s(p)]
  BY DEF EndValues
<1> HIDE DEF s, dealt
<1>5. EndValues(pr, t, n, w) \in [Computing -> Residues]
  BY <1>2, <1>3, <1>4
<1>6. QED BY <1>5, ComputingSeq

LEMMA CutType ==
  ASSUME NEW pr, NEW t, NEW n, NEW w, NEW S, NEW r, NEW d, AtEnd(pr, t, n, w, S, r, d),
         pr[n].op = "trunc", NEW p \in Computing
  PROVE  Cut(pr, t, n, w, p) \in Residues
<1> DEFINE c == SumMod(EndValues(pr, t, n, w))
           s == w.results[p][pr[n].x].share
           m == DealtIn(pr, t, n, w, p)[2]
           a == add_mod(s, m)
           b == IF p = 1 THEN sub_mod(a, low(c)) ELSE a
<1>1. s \in Int
  BY EndOperands, TensorParts, ComputingParties DEF EndCalls
<1>2. m \in Int
  <2>1. Dealt(pr[n]) = 2 /\ 2 \in 1 .. 2
    BY DEF Dealt
  <2>2. QED BY <2>1, DealtInType
<1>3. Shows(pr[n])
  BY DEF Shows
<1>4. c \in Int
  BY <1>3, EndValuesType
<1>5. low(c) \in Int
  <2>1. F \in Nat
    BY BitsAssumption
  <2>2. TwoTo[F] \in Nat \ {0}
    BY <2>1, TwoToType
  <2> HIDE DEF c
  <2>3. c % TwoTo[F] \in 0 .. TwoTo[F] - 1
    BY <1>4, <2>2, ModType
  <2>4. QED BY <2>2, <2>3 DEF low
<1>6. Cut(pr, t, n, w, p) = mul_mod(b, InversePower)
  BY DEF Cut
<1> HIDE DEF c, s, m
<1>7. a \in Residues /\ a \in Int
  BY <1>1, <1>2, ArithmeticTypes, ResidueFacts
<1> HIDE DEF a
<1>8. b \in Int
  BY <1>5, <1>7, ArithmeticTypes, ResidueFacts
<1>9. InversePower \in Int
  <2>1. F \in Nat /\ (Modulus + 1) \div 2 \in Int
    BY BitsAssumption, WordAssumption
  <2>2. QED BY <2>1, PowType, ResidueFacts DEF InversePower
<1> HIDE DEF b
<1>10. QED BY <1>6, <1>8, <1>9, ArithmeticTypes

LEMMA NewShareType ==
  ASSUME NEW pr, NEW t, NEW n, NEW w, NEW S, NEW r, NEW d, AtEnd(pr, t, n, w, S, r, d),
         pr[n].op \notin {"add", "sub", "add_public", "mul_public"}, NEW p \in Parties
  PROVE  NewShare(pr, t, n, w, p) \in Residues
<1> DEFINE c == pr[n]
           x == w.results[p][c.x]
           y == w.results[p][c.y]
           dealt == DealtIn(pr, t, n, w, p)
<1>1. EndCalls(pr, n, w, S)
  BY EndOperands
<1>2. p # 0 => p \in Computing
  BY ComputingParties
<1>3. CASE c.op = "share_from"
  BY <1>3, ShareOfType DEF NewShare
<1>4. CASE c.op \in {"reveal", "trunc"} /\ p = 0
  <2>1. x.share \in Residues
    BY <1>1, <1>4, TensorParts DEF EndCalls
  <2>2. NewShare(pr, t, n, w, p) = x.share
    BY <1>4 DEF NewShare
  <2>3. QED BY <2>1, <2>2
<1>5. CASE c.op = "reveal" /\ p # 0
  <2>1. Shows(c)
    BY <1>5 DEF Shows
  <2>2. NewShare(pr, t, n, w, p) = SumMod(EndValues(pr, t, n, w))
    BY <1>5 DEF NewShare
  <2>3. QED BY <2>1, <2>2, EndValuesType
<1>6. CASE c.op = "trunc" /\ p # 0
  <2>1. NewShare(pr, t, n, w, p) = Cut(pr, t, n, w, p)
    BY <1>6 DEF NewShare
  <2>2. QED BY <1>2, <1>6, <2>1, CutType
<1>7. CASE c.op = "mul"
  <2>1. x \in Sharetensors /\ is_partitioned(x) /\ y \in Sharetensors /\ is_partitioned(y)
    BY <1>1, <1>7 DEF EndCalls, Masking
  <2>2. x.x_r[1] \in Int /\ x.r[1] \in Int /\ y.x_r[1] \in Int /\ y.r[1] \in Int
    BY <2>1, TensorParts
  <2>3. Dealt(c) = 1 /\ 1 \in 1 .. 1
    BY <1>7 DEF Dealt
  <2>4. CASE p = 0
    <3>1. Deals(pr, t, n, w)[1] \in Residues
      BY <2>3, DealsType
    <3>2. NewShare(pr, t, n, w, p) = Deals(pr, t, n, w)[1]
      BY <1>7, <2>4 DEF NewShare
    <3>3. QED BY <3>1, <3>2
  <2>5. CASE p # 0
    <3>1. beaver_mul(p, x, y) \in Int
      BY <2>2, BeaverType
    <3>2. dealt[1] \in Int
      BY <1>2, <2>3, <2>5, DealtInType
    <3>3. NewShare(pr, t, n, w, p) = add_mod(beaver_mul(p, x, y), dealt[1])
      BY <1>7, <2>5 DEF NewShare
    <3> HIDE DEF x, y, dealt
    <3>4. QED BY <3>1, <3>2, <3>3, ArithmeticTypes
  <2>6. QED BY <2>4, <2>5
<1>8. CASE c.op = "pow" /\ p = 0
  BY <1>8, ResidueFacts DEF NewShare
<1>9. CASE c.op = "pow" /\ p # 0
  <2>1. x \in Sharetensors /\ is_partitioned(x)
    BY <1>1, <1>9 DEF EndCalls, Masking
  <2>2. x.x_r[1] \in Int /\ x.r \in Seq(Residues) /\ Len(x.r) = 1
    BY <2>1, TensorParts
  <2>3. x.r \in Seq(Int)
    BY <2>2, ReducedNumbers
  <2>4. c.power \in Nat /\ c.power >= 2 /\ Dealt(c) = c.power - 1
    BY <1>1, <1>9 DEF EndCalls, CallFacts, Dealt
  <2>5. dealt \in Seq(Int) /\ Len(dealt) = c.power - 1
    BY <1>2, <1>9, <2>4, DealtInType
  <2>6. NewShare(pr, t, n, w, p) = powers_cached(p, x, c.power, dealt)
    BY <1>9 DEF NewShare
  <2> HIDE DEF x, dealt
  <2>7. QED BY <2>2, <2>3, <2>4, <2>5, <2>6, PowersCachedType
<1>10. c.op \in Ops
  BY <1>1 DEF EndCalls, CallFacts
<1>11. QED BY <1>3, <1>4, <1>5, <1>6, <1>7, <1>8, <1>9, <1>10 DEF Ops

LEMMA NewTensorType ==
  ASSUME NEW pr, NEW t, NEW n, NEW w, NEW S, NEW r, NEW d, AtEnd(pr, t, n, w, S, r, d),
         NEW p \in Parties
  PROVE  /\ NewTensor(pr, t, n, w, p) \in Sharetensors
         /\ is_partitioned(NewTensor(pr, t, n, w, p)) <=> n \in PartedAfter(n, pr[n], S)
<1> DEFINE c == pr[n]
           x == w.results[p][c.x]
           y == w.results[p][c.y]
           T == NewTensor(pr, t, n, w, p)
<1>1. EndCalls(pr, n, w, S)
  BY EndOperands
<1>2. n \notin S /\ Wanted(c, S) = {}
  <2>1. S \subseteq 1 .. n - 1 /\ n \in Nat /\ Wanted(c, S) = {}
    BY <1>1 DEF AtEnd, WorldOK, EndCalls
  <2>2. QED BY <2>1
<1>3. CASE c.op \in {"add", "sub"}
  <2>1. /\ x \in Sharetensors /\ y \in Sharetensors
        /\ is_partitioned(x) <=> c.x \in S
        /\ is_partitioned(y) <=> c.y \in S
    BY <1>1, <1>3 DEF EndCalls
  <2>2. n \in PartedAfter(n, c, S) <=> c.x \in S /\ c.y \in S
    BY <1>2, <1>3 DEF PartedAfter
  <2> DEFINE z == IF c.op = "add" THEN y ELSE Negated(y)
  <2>3. Numbers(x) /\ Numbers(z) /\ (is_partitioned(z) <=> is_partitioned(y))
    BY <2>1, TensorNumbers
  <2>4. T = Sum(x, z)
    BY <1>3 DEF NewTensor
  <2> HIDE DEF x, y, z, T
  <2>5. T \in Sharetensors /\ (is_partitioned(T) <=> is_partitioned(x) /\ is_partitioned(z))
    BY <2>3, <2>4, SumType
  <2>6. QED BY <2>1, <2>2, <2>3, <2>5 DEF T
<1>4. CASE c.op \in {"add_public", "mul_public"}
  <2>1. x \in Sharetensors /\ (is_partitioned(x) <=> c.x \in S) /\ c.a \in Residues
    BY <1>1, <1>4 DEF EndCalls, CallFacts
  <2>2. n \in PartedAfter(n, c, S) <=> c.x \in S
    BY <1>2, <1>4 DEF PartedAfter
  <2>3. T = IF c.op = "add_public" THEN WithPublic(x, c.a, p) ELSE TimesPublic(x, c.a)
    BY <1>4 DEF NewTensor
  <2> HIDE DEF x, T
  <2>4. T \in Sharetensors /\ (is_partitioned(T) <=> is_partitioned(x))
    <3>1. CASE c.op = "add_public"
      BY <2>1, <2>3, <3>1, WithPublicType
    <3>2. CASE c.op # "add_public"
      BY <2>1, <2>3, <3>2, TimesPublicType
    <3>3. QED BY <3>1, <3>2
  <2>5. QED BY <2>1, <2>2, <2>4 DEF T
<1>5. CASE c.op \notin {"add", "sub", "add_public", "mul_public"}
  <2>1. PartedAfter(n, c, S) = S
    BY <1>2, <1>5 DEF PartedAfter
  <2>2. T = Sharetensor(NewShare(pr, t, n, w, p))
    BY <1>5 DEF NewTensor
  <2>3. NewShare(pr, t, n, w, p) \in Residues
    BY <1>5, NewShareType
  <2>4. T \in Sharetensors /\ ~ is_partitioned(T)
    BY <2>2, <2>3, PlainTensor
  <2>5. QED BY <1>2, <2>1, <2>4
<1>6. QED BY <1>3, <1>4, <1>5

LEMMA ConcatBegins ==
  ASSUME NEW u \in Seq(Residues), NEW v \in Seq(Residues)
  PROVE  /\ u \o v \in Seq(Residues) /\ Len(u \o v) = Len(u) + Len(v)
         /\ Begins(u, u \o v)
         /\ \A j \in 1 .. Len(v) : (u \o v)[Len(u) + j] = v[j]
<1>1. /\ u \o v \in Seq(Residues) /\ Len(u \o v) = Len(u) + Len(v)
      /\ Len(u) \in Nat /\ Len(v) \in Nat
  OBVIOUS
<1>2. \A i \in 1 .. Len(u) : (u \o v)[i] = u[i]
  OBVIOUS
<1>3. \A j \in 1 .. Len(v) : (u \o v)[Len(u) + j] = v[j]
  OBVIOUS
<1>4. QED BY <1>1, <1>2, <1>3 DEF Begins

LEMMA AddedType ==
  ASSUME NEW v \in Seq(Sharetensors), NEW a \in Sharetensors
  PROVE  /\ Append(v, a) \in Seq(Sharetensors) /\ Len(Append(v, a)) = Len(v) + 1 /\ Len(v) \in Nat
         /\ Append(v, a)[Len(v) + 1] = a
         /\ \A i \in 1 .. Len(v) : Append(v, a)[i] = v[i]
  OBVIOUS

\* The end of a call leaves one more result.
LEMMA EndRight ==
  ASSUME NEW pr, NEW t, NEW n, NEW w, NEW S, NEW r \in Nat, NEW d \in Nat,
         AtEnd(pr, t, n, w, S, r, d)
  PROVE  /\ WorldOK(End(pr, t, n, w), n, PartedAfter(n, pr[n], S),
                    r + (IF Shows(pr[n]) THEN 1 ELSE 0), d + Dealt(pr[n]))
         /\ Grows(w, End(pr, t, n, w))
<1> DEFINE c == pr[n]
           z == End(pr, t, n, w)
           T(p) == NewTensor(pr, t, n, w, p)
           e == EndValues(pr, t, n, w)
           A == PartedAfter(n, c, S)
           m == r + (IF Shows(c) THEN 1 ELSE 0)
           g == Deals(pr, t, n, w)
<1>1. EndCalls(pr, n, w, S)
  BY EndOperands
<1>2. /\ w.results \in [Parties -> Seq(Sharetensors)]
      /\ \A p \in Parties :
           /\ Len(w.results[p]) = n - 1
           /\ \A k \in 1 .. n - 1 : is_partitioned(w.results[p][k]) <=> k \in S
      /\ w.deals \in Seq(Residues) /\ Len(w.deals) = d
      /\ w.values \in [Computing -> Seq(Residues)] /\ \A p \in Computing : Len(w.values[p]) = r
      /\ w.totals \in Seq(Residues) /\ Len(w.totals) = r
      /\ w.own \in Nat /\ S \subseteq 1 .. n - 1 /\ Wanted(c, S) = {}
  BY DEF AtEnd, WorldOK
<1>3. n \in Nat /\ n - 1 \in Nat /\ (n - 1) + 1 = n /\ CallFacts(c, n)
  BY <1>1 DEF EndCalls
<1>4. A \subseteq 1 .. n /\ \A k \in 1 .. n - 1 : k \in A <=> k \in S
  <2>1. A \subseteq S \cup {n} /\ S \subseteq A
    BY <1>2 DEF PartedAfter
  <2>2. \A k \in 1 .. n - 1 : k # n
    BY <1>3
  <2>3. S \cup {n} \subseteq 1 .. n
    BY <1>2, <1>3
  <2> HIDE DEF A
  <2>4. QED BY <2>1, <2>2, <2>3
<1>5. \A p \in Parties : T(p) \in Sharetensors /\ (is_partitioned(T(p)) <=> n \in A)
  BY NewTensorType
<1>6. g \in Seq(Residues) /\ Len(g) = Dealt(c)
  BY DealsType
<1>7. Shows(c) => e \in [Computing -> Residues] /\ SumMod(e) \in Residues /\ \A p \in Computing : e[p] \in Residues
  BY EndValuesType
<1>8. /\ z.results = [p \in Parties |-> Append(w.results[p], T(p))]
      /\ z.deals = w.deals \o g
      /\ z.values = [p \in Computing |-> IF Shows(c) THEN Append(w.values[p], e[p]) ELSE w.values[p]]
      /\ z.totals = IF Shows(c) THEN Append(w.totals, SumMod(e)) ELSE w.totals
      /\ z.own = IF c.op = "trunc" THEN w.own + 1 ELSE w.own
  BY DEF End
<1> HIDE DEF z, T, e, A, g, c
<1>9. ASSUME NEW p \in Parties
      PROVE  /\ z.results[p] \in Seq(Sharetensors) /\ Len(z.results[p]) = n
             /\ \A k \in 1 .. n : is_partitioned(z.results[p][k]) <=> k \in A
             /\ Len(w.results[p]) <= Len(z.results[p])
             /\ \A k \in 1 .. Len(w.results[p]) : GrowsAt(w.results[p], z.results[p], k)
  <2>1. w.results[p] \in Seq(Sharetensors) /\ Len(w.results[p]) = n - 1
    BY <1>2
  <2>2. z.results[p] = Append(w.results[p], T(p)) /\ T(p) \in Sharetensors
    BY <1>5, <1>8
  <2>3. /\ z.results[p] \in Seq(Sharetensors) /\ Len(z.results[p]) = n
        /\ z.results[p][n] = T(p)
        /\ \A k \in 1 .. n - 1 : z.results[p][k] = w.results[p][k]
    BY <1>3, <2>1, <2>2, AddedType
  <2>4. ASSUME NEW k \in 1 .. n PROVE is_partitioned(z.results[p][k]) <=> k \in A
    <3>1. CASE k = n
      BY <1>5, <2>3, <3>1
    <3>2. CASE k # n
      <4>1. k \in 1 .. n - 1
        BY <1>3, <3>2
      <4>2. QED BY <1>2, <1>4, <2>3, <4>1
    <3>3. QED BY <3>1, <3>2
  <2>5. \A k \in 1 .. Len(w.results[p]) : GrowsAt(w.results[p], z.results[p], k)
    BY <2>1, <2>3 DEF GrowsAt
  <2>6. n - 1 <= n
    BY <1>3
  <2>7. QED BY <2>1, <2>3, <2>4, <2>5, <2>6
<1>10. z.results \in [Parties -> Seq(Sharetensors)]
  BY <1>8, <1>9
<1>11. z.deals \in Seq(Residues) /\ Len(z.deals) = d + Dealt(c) /\ Begins(w.deals, z.deals)
  <2>1. z.deals = w.deals \o g /\ w.deals \in Seq(Residues) /\ g \in Seq(Residues)
    BY <1>2, <1>6, <1>8
  <2>2. z.deals \in Seq(Residues) /\ Len(z.deals) = Len(w.deals) + Len(g) /\ Begins(w.deals, z.deals)
    BY <2>1, ConcatBegins
  <2>3. QED BY <1>2, <1>6, <2>2
<1>12. ASSUME NEW p \in Computing
       PROVE  z.values[p] \in Seq(Residues) /\ Len(z.values[p]) = m /\ Begins(w.values[p], z.values[p])
  <2>1. w.values[p] \in Seq(Residues) /\ Len(w.values[p]) = r
    BY <1>2
  <2>2. CASE Shows(c)
    <3>1. z.values[p] = Append(w.values[p], e[p]) /\ e[p] \in Residues
      BY <1>7, <1>8, <2>2
    <3>2. QED BY <2>1, <2>2, <3>1, AppendBegins
  <2>3. CASE ~ Shows(c)
    <3>1. z.values[p] = w.values[p] /\ m = r
      BY <1>8, <2>3
    <3> HIDE DEF m
    <3>2. QED BY <2>1, <3>1, BeginsSelf
  <2>4. QED BY <2>2, <2>3
<1>13. z.values \in [Computing -> Seq(Residues)]
  BY <1>8, <1>12
<1>14. z.totals \in Seq(Residues) /\ Len(z.totals) = m /\ Begins(w.totals, z.totals)
  <2>1. CASE Shows(c)
    <3>1. z.totals = Append(w.totals, SumMod(e)) /\ SumMod(e) \in Residues
      BY <1>7, <1>8, <2>1
    <3>2. QED BY <1>2, <2>1, <3>1, AppendBegins
  <2>2. CASE ~ Shows(c)
    <3>1. z.totals = w.totals /\ m = r
      BY <1>8, <2>2
    <3> HIDE DEF m
    <3>2. QED BY <1>2, <3>1, BeginsSelf
  <2>3. QED BY <2>1, <2>2
<1>15. z.own \in Nat
  BY <1>2, <1>8
<1> HIDE DEF m
<1>16. WorldOK(z, n, A, m, d + Dealt(c))
  BY <1>4, <1>9, <1>10, <1>11, <1>12, <1>13, <1>14, <1>15 DEF WorldOK
<1>17. Grows(w, z)
  BY <1>9, <1>11, <1>12, <1>14 DEF Grows
<1>18. QED BY <1>16, <1>17 DEF z, A, m, c

-----------------------------------------------------------------------------
(***************************************************************************)
(* All calls of a program.                                                 *)
(***************************************************************************)
Upto(pr, t, n) ==
  WorldOK(Ideal(pr, t)[n], n, Plan(pr)[n].parted, Plan(pr)[n].reveals, Plan(pr)[n].dealt)

\* The world when a call ends, and after it.
Ended(pr, t, n, w) ==
  LET plan == Plan(pr)[n - 1]
      W == Wanted(pr[n], plan.parted)
  IN
  /\ AtEnd(pr, t, n, AllParts(pr, t, n, w), plan.parted \cup W,
           plan.reveals + Len(MaskDraws(n, pr[n], W)), plan.dealt)
  /\ WorldOK(End(pr, t, n, AllParts(pr, t, n, w)), n, Plan(pr)[n].parted, Plan(pr)[n].reveals,
             Plan(pr)[n].dealt)
  /\ Grows(w, AllParts(pr, t, n, w))
  /\ Grows(AllParts(pr, t, n, w), End(pr, t, n, AllParts(pr, t, n, w)))
  /\ plan.reveals + Len(MaskDraws(n, pr[n], W)) \in Nat /\ plan.dealt \in Nat

LEMMA EndedRight ==
  ASSUME NEW pr \in Programs, NEW t \in Tapes, NEW n \in 1 .. Len(pr), NEW w,
         WorldOK(w, n - 1, Plan(pr)[n - 1].parted, Plan(pr)[n - 1].reveals, Plan(pr)[n - 1].dealt)
  PROVE  Ended(pr, t, n, w)
<1> DEFINE c == pr[n]
           plan == Plan(pr)[n - 1]
           P == plan.parted
           W == Wanted(c, P)
           r == plan.reveals
           d == plan.dealt
           a == Len(MaskDraws(n, c, W))
           one == AllParts(pr, t, n, w)
<1>1. /\ CallFacts(c, n) /\ n \in Nat /\ r \in Nat /\ d \in Nat /\ P \in SUBSET Nat
      /\ Plan(pr)[n] = After(n, c, plan)
  <2>1. Plan(pr)[n - 1] \in Works /\ Plan(pr)[n] = After(n, pr[n], Plan(pr)[n - 1])
        /\ CallFacts(pr[n], n) /\ n \in Nat
    BY PlaceInt, DealersSeeds
  <2>2. QED BY <2>1 DEF Works
<1>2. a \in Nat
  BY <1>1, MaskDrawsType
<1>3. one = Parts(pr, t, n, w, W)
  BY DEF AllParts
<1>4. FirstOf(c, W, W)
  BY DEF FirstOf
<1>5. PartsOK(pr, t, n, w, P, r, d, W)
  BY <1>1, <1>4, PartsAll
<1> HIDE DEF one
<1>6. WorldOK(one, n - 1, P \cup W, r + a, d) /\ Grows(w, one)
  BY <1>3, <1>5 DEF PartsOK
<1>7. Wanted(c, P \cup W) = {}
  BY DEF Wanted
<1>8. AtEnd(pr, t, n, one, P \cup W, r + a, d)
  BY <1>6, <1>7 DEF AtEnd
<1>9. r + a \in Nat
  BY <1>1, <1>2
<1>10. /\ WorldOK(End(pr, t, n, one), n, PartedAfter(n, c, P \cup W),
                  (r + a) + (IF Shows(c) THEN 1 ELSE 0), d + Dealt(c))
       /\ Grows(one, End(pr, t, n, one))
  BY <1>1, <1>8, <1>9, EndRight
<1>11. PartedAfter(n, c, P \cup W) = PartedAfter(n, c, P)
  <2>1. CASE c.op \in {"add", "sub", "add_public", "mul_public"}
    <3>1. W = {}
      BY <2>1 DEF Wanted, Masking
    <3>2. P \cup W = P
      BY <3>1
    <3>3. QED BY <3>2
  <2>2. CASE c.op \notin {"add", "sub", "add_public", "mul_public"}
    <3>1. PartedAfter(n, c, P \cup W) = (P \cup W) \cup Wanted(c, P \cup W)
      BY <2>2 DEF PartedAfter
    <3>2. PartedAfter(n, c, P) = P \cup W
      BY <2>2 DEF PartedAfter
    <3>3. QED BY <1>7, <3>1, <3>2
  <2>3. QED BY <2>1, <2>2
<1>12. /\ Plan(pr)[n].parted = PartedAfter(n, c, P)
       /\ Plan(pr)[n].reveals = (r + a) + (IF Shows(c) THEN 1 ELSE 0)
       /\ Plan(pr)[n].dealt = d + Dealt(c)
  <2>1. Shows(c) <=> c.op \in {"reveal", "trunc"}
    BY DEF Shows
  <2>2. QED BY <1>1, <2>1 DEF After
<1>13. WorldOK(End(pr, t, n, one), n, Plan(pr)[n].parted, Plan(pr)[n].reveals, Plan(pr)[n].dealt)
  BY <1>10, <1>11, <1>12
<1>14. QED BY <1>1, <1>6, <1>8, <1>9, <1>10, <1>13 DEF Ended, one

LEMMA StartRight ==
  ASSUME NEW pr \in Programs, NEW t
  PROVE  Upto(pr, t, 0)
<1>1. Ideal(pr, t)[0] = Start
  BY IdealRight, ProgramFacts
<1>2. Plan(pr)[0] = Nothing
  BY PlanRight DEF PlanFacts
<1>3. WorldOK(Start, 0, {}, 0, 0)
  <2>1. /\ Start.results = [p \in Parties |-> <<>>] /\ Start.deals = <<>>
        /\ Start.values = [p \in Computing |-> <<>>] /\ Start.totals = <<>> /\ Start.own = 0
    BY DEF Start
  <2>2. <<>> \in Seq(Sharetensors) /\ <<>> \in Seq(Residues) /\ Len(<<>>) = 0
    OBVIOUS
  <2>3. {} \subseteq 1 .. 0 /\ \A k \in 1 .. 0 : FALSE
    OBVIOUS
  <2>4. \A p \in Parties : Len(Start.results[p]) = 0
    BY <2>1, <2>2
  <2>5. \A p \in Computing : Len(Start.values[p]) = 0
    BY <2>1, <2>2
  <2>6. /\ Start.results \in [Parties -> Seq(Sharetensors)]
        /\ Start.values \in [Computing -> Seq(Residues)]
    BY <2>1, <2>2
  <2>7. QED BY <2>1, <2>2, <2>3, <2>4, <2>5, <2>6 DEF WorldOK
<1>4. QED BY <1>1, <1>2, <1>3 DEF Upto, Nothing

\* All of it is of the right shape.
LEMMA UptoRight ==
  ASSUME NEW pr \in Programs, NEW t \in Tapes
  PROVE  \A n \in 0 .. Len(pr) : Upto(pr, t, n)
<1> DEFINE S == {n \in 0 .. Len(pr) : Upto(pr, t, n)}
<1>1. Len(pr) \in Nat
  BY ProgramFacts
<1>2. 0 \in S
  BY <1>1, StartRight
<1>3. ASSUME NEW n \in 1 .. Len(pr), n - 1 \in S PROVE n \in S
  <2>1. Upto(pr, t, n - 1) /\ n \in 0 .. Len(pr)
    BY <1>1, <1>3
  <2>2. Ended(pr, t, n, Ideal(pr, t)[n - 1])
    BY <2>1, EndedRight DEF Upto
  <2>3. Ideal(pr, t)[n] = Follows(pr, t, n, Ideal(pr, t)[n - 1])
    BY <1>1, IdealRight
  <2>4. Upto(pr, t, n)
    BY <2>2, <2>3 DEF Ended, Follows, Upto
  <2>5. QED BY <2>1, <2>4
<1> HIDE DEF S
<1>4. 0 .. Len(pr) \subseteq S
  BY <1>1, <1>2, <1>3, InductionTo
<1>5. QED BY <1>4 DEF S

\* Each call, where it begins and where it ends.
LEMMA CallRight ==
  ASSUME NEW pr \in Programs, NEW t \in Tapes, NEW n \in 1 .. Len(pr)
  PROVE  /\ Upto(pr, t, n - 1) /\ Upto(pr, t, n)
         /\ Ended(pr, t, n, Ideal(pr, t)[n - 1])
         /\ Ideal(pr, t)[n] = End(pr, t, n, AllParts(pr, t, n, Ideal(pr, t)[n - 1]))
         /\ Grows(Ideal(pr, t)[n - 1], Ideal(pr, t)[n])
<1>1. Len(pr) \in Nat /\ n - 1 \in 0 .. Len(pr) /\ n \in 0 .. Len(pr)
  BY ProgramFacts
<1>2. Upto(pr, t, n - 1) /\ Upto(pr, t, n)
  BY <1>1, UptoRight
<1>3. Ended(pr, t, n, Ideal(pr, t)[n - 1])
  BY <1>2, EndedRight DEF Upto
<1>4. Ideal(pr, t)[n] = End(pr, t, n, AllParts(pr, t, n, Ideal(pr, t)[n - 1]))
  BY <1>1, IdealRight DEF Follows
<1> DEFINE a == Ideal(pr, t)[n - 1]
           b == AllParts(pr, t, n, a)
           z == Ideal(pr, t)[n]
<1>5. Sized(a) /\ Sized(z)
  BY <1>2, WorldSized DEF Upto
<1>6. Sized(b) /\ Grows(a, b) /\ Grows(b, z)
  BY <1>3, <1>4, WorldSized DEF Ended, AtEnd
<1> HIDE DEF a, b, z
<1>7. Grows(a, z)
  BY <1>5, <1>6, GrowsOn
<1>8. QED BY <1>2, <1>3, <1>4, <1>7 DEF a, z

\* What was there stays.
LEMMA IdealGrows ==
  ASSUME NEW pr \in Programs, NEW t \in Tapes, NEW n \in 0 .. Len(pr)
  PROVE  Grows(Ideal(pr, t)[n], All(pr, t))
<1> DEFINE L == Len(pr)
           S == {m \in 0 .. L : m <= L - n => Grows(Ideal(pr, t)[L - m], All(pr, t))}
<1>1. L \in Nat /\ n \in 0 .. L
  BY ProgramFacts
<1>2. \A m \in 0 .. L : Sized(Ideal(pr, t)[m])
  BY UptoRight, WorldSized DEF Upto
<1>3. All(pr, t) = Ideal(pr, t)[L]
  BY DEF All
<1>4. 0 \in S
  <2>1. L - 0 = L /\ 0 \in 0 .. L /\ L \in 0 .. L
    BY <1>1
  <2>2. Grows(Ideal(pr, t)[L], Ideal(pr, t)[L])
    BY <1>2, <2>1, GrowsSelf
  <2>3. QED BY <1>3, <2>1, <2>2
<1>5. ASSUME NEW m \in 1 .. L, m - 1 \in S PROVE m \in S
  <2>1. m \in 0 .. L
    BY <1>1
  <2>2. CASE m <= L - n
    <3> DEFINE k == L - (m - 1)
    <3>1. m - 1 <= L - n /\ k \in 1 .. L /\ k \in 0 .. L /\ k - 1 = L - m /\ k - 1 \in 0 .. L
          /\ L \in 0 .. L
      BY <1>1, <2>2
    <3>2. Grows(Ideal(pr, t)[k], All(pr, t))
      BY <1>5, <3>1
    <3> HIDE DEF k
    <3>3. Grows(Ideal(pr, t)[k - 1], Ideal(pr, t)[k])
      BY <3>1, CallRight
    <3>4. Sized(Ideal(pr, t)[k - 1]) /\ Sized(Ideal(pr, t)[k]) /\ Sized(All(pr, t))
      BY <1>2, <1>3, <3>1
    <3>5. Grows(Ideal(pr, t)[k - 1], All(pr, t))
      BY <3>2, <3>3, <3>4, GrowsOn
    <3>6. QED BY <2>1, <3>1, <3>5
  <2>3. QED BY <2>1, <2>2
<1>6. 0 .. L \subseteq S
  <2> HIDE DEF S, L
  <2>1. QED BY <1>1, <1>4, <1>5, InductionTo
<1>7. L - n \in 0 .. L /\ L - (L - n) = n /\ L - n <= L - n
  BY <1>1
<1> HIDE DEF L
<1>8. QED BY <1>6, <1>7

-----------------------------------------------------------------------------
(***************************************************************************)
(* The parties' tensors of one result.                                     *)
(***************************************************************************)
Family == [Parties -> Sharetensors]
SharesOf(x) == [p \in Computing |-> x[p].share]
MasksOf(x) == [p \in Computing |-> x[p].r[1]]
Whole(x) == SumMod(SharesOf(x))
Mask(x) == SumMod(MasksOf(x))
Parted_(x) == \A p \in Parties : is_partitioned(x[p])

\* The parties agree on the revealed part, the dealer has the sum of the masks, and what
\* they add up to is what the shares add up to.
Coherent(x) ==
  /\ Parted_(x)
  /\ \A p \in Computing : x[p].x_r = x[1].x_r
  /\ x[0].r[1] = Mask(x)
  /\ Rem(x[1].x_r[1] + Mask(x)) = Rem(Whole(x))

LEMMA FamilyType ==
  ASSUME NEW x \in Family
  PROVE  /\ SharesOf(x) \in Seq(Residues) /\ Len(SharesOf(x)) = N - 1
         /\ \A p \in Computing : SharesOf(x)[p] = x[p].share /\ x[p].share \in Residues
         /\ Whole(x) \in Residues /\ Whole(x) \in Int
         /\ Computing = 1 .. N - 1 /\ N - 1 >= 1
<1>1. \A p \in Computing : x[p] \in Sharetensors
  BY ComputingParties DEF Family
<1>2. \A p \in Computing : x[p].share \in Residues
  BY <1>1, TensorParts
<1>3. SharesOf(x) \in [Computing -> Residues] /\ \A p \in Computing : SharesOf(x)[p] = x[p].share
  BY <1>2 DEF SharesOf
<1>4. N - 1 >= 1
  BY NAssumption
<1>5. QED BY <1>2, <1>3, <1>4, ComputingSeq, ComputingParties DEF Whole

LEMMA PartsType ==
  ASSUME NEW x \in Family, Parted_(x)
  PROVE  /\ MasksOf(x) \in Seq(Residues) /\ Len(MasksOf(x)) = N - 1
         /\ \A p \in Computing : MasksOf(x)[p] = x[p].r[1]
         /\ \A p \in Parties : /\ x[p].r[1] \in Residues /\ x[p].x_r[1] \in Residues
                               /\ x[p].r[1] \in Int /\ x[p].x_r[1] \in Int
         /\ Mask(x) \in Residues /\ Mask(x) \in Int
<1>1. \A p \in Parties : /\ x[p].r[1] \in Residues /\ x[p].x_r[1] \in Residues
                         /\ x[p].r[1] \in Int /\ x[p].x_r[1] \in Int
  BY TensorParts DEF Family, Parted_
<1>2. MasksOf(x) \in [Computing -> Residues] /\ \A p \in Computing : MasksOf(x)[p] = x[p].r[1]
  BY <1>1, ComputingParties DEF MasksOf
<1>3. QED BY <1>1, <1>2, ComputingSeq DEF Mask

-----------------------------------------------------------------------------
\* The sum of two tensors, or their difference.
Added(x, y, z) == \A p \in Parties : z[p] = Sum(x[p], y[p])
Taken(x, y, z) == \A p \in Parties : z[p] = Sum(x[p], Negated(y[p]))

LEMMA AddPartsOne ==
  ASSUME NEW a, NEW b, a # <<>>, b # <<>>
  PROVE  AddParts(a, b) = <<add_mod(a[1], b[1])>>
  BY DEF AddParts

LEMMA SumFields ==
  ASSUME NEW s \in Sharetensors, NEW t \in Sharetensors
  PROVE  /\ Sum(s, t).share = add_mod(s.share, t.share)
         /\ Sum(s, Negated(t)).share = add_mod(s.share, neg_mod(t.share))
         /\ is_partitioned(s) /\ is_partitioned(t) =>
              /\ Sum(s, t).x_r = <<add_mod(s.x_r[1], t.x_r[1])>>
              /\ Sum(s, t).r = <<add_mod(s.r[1], t.r[1])>>
              /\ Sum(s, Negated(t)).x_r = <<add_mod(s.x_r[1], neg_mod(t.x_r[1]))>>
              /\ Sum(s, Negated(t)).r = <<add_mod(s.r[1], neg_mod(t.r[1]))>>
<1> DEFINE u == Negated(t)
           ux == IF t.x_r # <<>> THEN <<neg_mod(t.x_r[1])>> ELSE <<>>
           ur == IF t.r # <<>> THEN <<neg_mod(t.r[1])>> ELSE <<>>
<1>1. \A a, b : /\ Sum(a, b).share = add_mod(a.share, b.share)
                /\ Sum(a, b).x_r = AddParts(a.x_r, b.x_r)
                /\ Sum(a, b).r = AddParts(a.r, b.r)
  BY DEF Sum
<1>2. u.share = neg_mod(t.share) /\ u.x_r = ux /\ u.r = ur
  BY DEF Negated
<1>3. ASSUME is_partitioned(s), is_partitioned(t)
      PROVE  s.x_r # <<>> /\ s.r # <<>> /\ t.x_r # <<>> /\ t.r # <<>>
  <2>1. /\ Len(s.x_r) = Len(s.r) /\ Len(t.x_r) = Len(t.r) /\ Len(s.r) = 1 /\ Len(t.r) = 1
    BY <1>3, TensorParts
  <2>2. QED BY <2>1, NotEmpty
<1>4. ASSUME is_partitioned(s), is_partitioned(t)
      PROVE  ux = <<neg_mod(t.x_r[1])>> /\ ur = <<neg_mod(t.r[1])>>
  BY <1>3, <1>4
<1> HIDE DEF u, ux, ur
<1>5. ASSUME is_partitioned(s), is_partitioned(t)
      PROVE  /\ Sum(s, t).x_r = <<add_mod(s.x_r[1], t.x_r[1])>>
             /\ Sum(s, t).r = <<add_mod(s.r[1], t.r[1])>>
  BY <1>1, <1>3, <1>5, AddPartsOne
<1>6. ASSUME is_partitioned(s), is_partitioned(t)
      PROVE  /\ Sum(s, u).x_r = <<add_mod(s.x_r[1], neg_mod(t.x_r[1]))>>
             /\ Sum(s, u).r = <<add_mod(s.r[1], neg_mod(t.r[1]))>>
  <2>1. s.x_r # <<>> /\ s.r # <<>> /\ ux = <<neg_mod(t.x_r[1])>> /\ ur = <<neg_mod(t.r[1])>>
    BY <1>3, <1>4, <1>6
  <2>2. ux # <<>> /\ ur # <<>> /\ ux[1] = neg_mod(t.x_r[1]) /\ ur[1] = neg_mod(t.r[1])
    BY <2>1
  <2>3. Sum(s, u).x_r = AddParts(s.x_r, ux) /\ Sum(s, u).r = AddParts(s.r, ur)
    BY <1>1, <1>2
  <2>4. QED BY <2>1, <2>2, <2>3, AddPartsOne
<1>7. Sum(s, u).share = add_mod(s.share, neg_mod(t.share))
  BY <1>1, <1>2
<1>8. QED BY <1>1, <1>5, <1>6, <1>7 DEF u

LEMMA AddedWhole ==
  ASSUME NEW x \in Family, NEW y \in Family, NEW z \in Family, Added(x, y, z)
  PROVE  Rem(Whole(z)) = Rem(Whole(x) + Whole(y))
<1> DEFINE h == SharesOf(z)  f == SharesOf(x)  g == SharesOf(y)
<1>1. /\ h \in Seq(Residues) /\ f \in Seq(Residues) /\ g \in Seq(Residues)
      /\ Len(h) = N - 1 /\ Len(f) = N - 1 /\ Len(g) = N - 1
  BY FamilyType
<1>2. ASSUME NEW i \in Computing PROVE Rem(h[i]) = Rem(f[i] + g[i])
  <2>1. /\ h[i] = z[i].share /\ f[i] = x[i].share /\ g[i] = y[i].share
        /\ x[i].share \in Residues /\ y[i].share \in Residues
    BY FamilyType
  <2>2. i \in Parties
    BY ComputingParties
  <2>3. z[i].share = add_mod(x[i].share, y[i].share)
    BY <2>2, SumFields DEF Added, Family
  <2> HIDE DEF h, f, g
  <2>4. QED BY <2>1, <2>3, RemResidues
<1>3. Computing = 1 .. N - 1
  BY ComputingParties
<1> HIDE DEF h, f, g
<1>4. Rem(SumMod(h)) = Rem(SumMod(f) + SumMod(g))
  BY <1>1, <1>2, <1>3, SumPlus
<1>5. QED BY <1>4 DEF Whole, h, f, g

LEMMA TakenWhole ==
  ASSUME NEW x \in Family, NEW y \in Family, NEW z \in Family, Taken(x, y, z)
  PROVE  Rem(Whole(z)) = Rem(Whole(x) - Whole(y))
<1> DEFINE h == SharesOf(z)  f == SharesOf(x)  g == SharesOf(y)
<1>1. /\ h \in Seq(Residues) /\ f \in Seq(Residues) /\ g \in Seq(Residues)
      /\ Len(h) = N - 1 /\ Len(f) = N - 1 /\ Len(g) = N - 1
  BY FamilyType
<1>2. ASSUME NEW i \in Computing PROVE Rem(h[i]) = Rem(f[i] - g[i])
  <2>1. /\ h[i] = z[i].share /\ f[i] = x[i].share /\ g[i] = y[i].share
        /\ x[i].share \in Residues /\ y[i].share \in Residues
    BY FamilyType
  <2>2. i \in Parties
    BY ComputingParties
  <2>3. z[i].share = add_mod(x[i].share, neg_mod(y[i].share))
    BY <2>2, SumFields DEF Taken, Family
  <2> HIDE DEF h, f, g
  <2>4. QED BY <2>1, <2>3, RemResidues
<1>3. Computing = 1 .. N - 1
  BY ComputingParties
<1> HIDE DEF h, f, g
<1>4. Rem(SumMod(h)) = Rem(SumMod(f) - SumMod(g))
  BY <1>1, <1>2, <1>3, SumMinus
<1>5. QED BY <1>4 DEF Whole, h, f, g

\* Regrouping.
Grouped(a, b, c, d, u, v, e, f) ==
  /\ a \in Int /\ b \in Int /\ c \in Int /\ d \in Int /\ u \in Int /\ v \in Int /\ e \in Int /\ f \in Int
  /\ Rem(a + c) = Rem(u) /\ Rem(b + d) = Rem(v)

LEMMA RegroupedPlus ==
  ASSUME NEW a, NEW b, NEW c, NEW d, NEW u, NEW v, NEW e, NEW f, Grouped(a, b, c, d, u, v, e, f),
         Rem(e) = Rem(a + b), Rem(f) = Rem(c + d)
  PROVE  Rem(e + f) = Rem(u + v)
<1> USE DEF Grouped
<1>1. a + b \in Int /\ c + d \in Int /\ a + c \in Int /\ b + d \in Int
  OBVIOUS
<1>2. Rem(e + f) = Rem((a + b) + (c + d))
  BY <1>1, RemPlus
<1>3. (a + b) + (c + d) = (a + c) + (b + d)
  OBVIOUS
<1>4. Rem((a + c) + (b + d)) = Rem(u + v)
  BY <1>1, RemPlus
<1>5. QED BY <1>2, <1>3, <1>4

LEMMA RegroupedMinus ==
  ASSUME NEW a, NEW b, NEW c, NEW d, NEW u, NEW v, NEW e, NEW f, Grouped(a, b, c, d, u, v, e, f),
         Rem(e) = Rem(a - b), Rem(f) = Rem(c - d)
  PROVE  Rem(e + f) = Rem(u - v)
<1> USE DEF Grouped
<1>1. a - b \in Int /\ c - d \in Int /\ a + c \in Int /\ b + d \in Int
  OBVIOUS
<1>2. Rem(e + f) = Rem((a - b) + (c - d))
  BY <1>1, RemPlus
<1>3. (a - b) + (c - d) = (a + c) - (b + d)
  OBVIOUS
<1>4. Rem((a + c) - (b + d)) = Rem(u - v)
  BY <1>1, RemMinus
<1>5. QED BY <1>2, <1>3, <1>4

LEMMA SameResidue ==
  ASSUME NEW a \in Residues, NEW b \in Residues, Rem(a) = Rem(b)
  PROVE  a = b
  BY RemReduced

LEMMA AddedCoherent ==
  ASSUME NEW x \in Family, NEW y \in Family, NEW z \in Family, Added(x, y, z) \/ Taken(x, y, z),
         Coherent(x), Coherent(y), Parted_(z)
  PROVE  Coherent(z)
<1> DEFINE h == MasksOf(z)  f == MasksOf(x)  g == MasksOf(y)
           Way(a, b, c) == IF Added(x, y, z) THEN Rem(c) = Rem(a + b) ELSE Rem(c) = Rem(a - b)
<1>1. /\ h \in Seq(Residues) /\ f \in Seq(Residues) /\ g \in Seq(Residues)
      /\ Len(h) = N - 1 /\ Len(f) = N - 1 /\ Len(g) = N - 1
  BY PartsType DEF Coherent
<1>2. ASSUME NEW i \in Parties
      PROVE  /\ \/ z[i].r[1] = add_mod(x[i].r[1], y[i].r[1]) /\ Added(x, y, z)
                \/ z[i].r[1] = add_mod(x[i].r[1], neg_mod(y[i].r[1])) /\ ~ Added(x, y, z)
             /\ \/ z[i].x_r = <<add_mod(x[i].x_r[1], y[i].x_r[1])>> /\ Added(x, y, z)
                \/ z[i].x_r = <<add_mod(x[i].x_r[1], neg_mod(y[i].x_r[1]))>> /\ ~ Added(x, y, z)
             /\ x[i].r[1] \in Residues /\ y[i].r[1] \in Residues /\ z[i].r[1] \in Residues
             /\ x[i].x_r[1] \in Residues /\ y[i].x_r[1] \in Residues /\ z[i].x_r[1] \in Residues
  <2>1. x[i] \in Sharetensors /\ y[i] \in Sharetensors /\ is_partitioned(x[i]) /\ is_partitioned(y[i])
    BY DEF Family, Coherent, Parted_
  <2>2. CASE Added(x, y, z)
    <3>1. z[i] = Sum(x[i], y[i])
      BY <2>2 DEF Added
    <3>2. z[i].x_r = <<add_mod(x[i].x_r[1], y[i].x_r[1])>> /\ z[i].r = <<add_mod(x[i].r[1], y[i].r[1])>>
      BY <2>1, <3>1, SumFields
    <3>3. z[i].r[1] = add_mod(x[i].r[1], y[i].r[1])
      BY <3>2
    <3>4. QED BY <2>2, <3>2, <3>3, PartsType DEF Coherent
  <2>3. CASE ~ Added(x, y, z)
    <3>1. z[i] = Sum(x[i], Negated(y[i]))
      BY <2>3 DEF Taken
    <3>2. /\ z[i].x_r = <<add_mod(x[i].x_r[1], neg_mod(y[i].x_r[1]))>>
          /\ z[i].r = <<add_mod(x[i].r[1], neg_mod(y[i].r[1]))>>
      BY <2>1, <3>1, SumFields
    <3>3. z[i].r[1] = add_mod(x[i].r[1], neg_mod(y[i].r[1]))
      BY <3>2
    <3>4. QED BY <2>3, <3>2, <3>3, PartsType DEF Coherent
  <2>4. QED BY <2>2, <2>3
<1>3. ASSUME NEW i \in Parties PROVE Way(x[i].r[1], y[i].r[1], z[i].r[1])
  BY <1>2, RemResidues
<1>4. ASSUME NEW i \in Parties PROVE Way(x[i].x_r[1], y[i].x_r[1], z[i].x_r[1])
  BY <1>2, RemResidues
<1>5. \A i \in Computing : /\ h[i] = z[i].r[1] /\ f[i] = x[i].r[1] /\ g[i] = y[i].r[1]
                           /\ i \in Parties
  BY PartsType, ComputingParties DEF Coherent
<1>6. Computing = 1 .. N - 1 /\ 1 \in Parties /\ 1 \in Computing /\ 0 \in Parties
  BY ComputingParties
<1>7. Way(Mask(x), Mask(y), Mask(z))
  <2> HIDE DEF h, f, g
  <2>1. CASE Added(x, y, z)
    <3>1. \A i \in 1 .. Len(h) : Rem(h[i]) = Rem(f[i] + g[i])
      BY <1>1, <1>3, <1>5, <1>6, <2>1
    <3>2. Rem(SumMod(h)) = Rem(SumMod(f) + SumMod(g))
      BY <1>1, <3>1, SumPlus
    <3>3. QED BY <2>1, <3>2 DEF Mask, h, f, g
  <2>2. CASE ~ Added(x, y, z)
    <3>1. \A i \in 1 .. Len(h) : Rem(h[i]) = Rem(f[i] - g[i])
      BY <1>1, <1>3, <1>5, <1>6, <2>2
    <3>2. Rem(SumMod(h)) = Rem(SumMod(f) - SumMod(g))
      BY <1>1, <3>1, SumMinus
    <3>3. QED BY <2>2, <3>2 DEF Mask, h, f, g
  <2>3. QED BY <2>1, <2>2
<1>8. Way(Whole(x), Whole(y), Whole(z))
  BY AddedWhole, TakenWhole
<1>9. \A p \in Computing : z[p].x_r = z[1].x_r
  <2>1. ASSUME NEW p \in Computing PROVE z[p].x_r = z[1].x_r
    <3>1. p \in Parties /\ x[p].x_r = x[1].x_r /\ y[p].x_r = y[1].x_r
      BY <1>5 DEF Coherent
    <3>2. QED BY <1>2, <1>6, <3>1
  <2>2. QED BY <2>1
<1>10. /\ Mask(x) \in Int /\ Mask(y) \in Int /\ Mask(z) \in Int /\ Mask(z) \in Residues
       /\ Whole(x) \in Int /\ Whole(y) \in Int /\ Whole(z) \in Int
       /\ x[1].x_r[1] \in Int /\ y[1].x_r[1] \in Int /\ z[1].x_r[1] \in Int
  BY <1>6, PartsType, FamilyType DEF Coherent
<1>11. z[0].r[1] = Mask(z)
  <2>1. Way(Mask(x), Mask(y), z[0].r[1])
    BY <1>3, <1>6 DEF Coherent
  <2>2. Rem(z[0].r[1]) = Rem(Mask(z))
    BY <1>7, <2>1
  <2>3. z[0].r[1] \in Residues
    BY <1>2, <1>6
  <2>4. QED BY <1>10, <2>2, <2>3, SameResidue
<1>12. Rem(z[1].x_r[1] + Mask(z)) = Rem(Whole(z))
  <2> DEFINE a == x[1].x_r[1]  b == y[1].x_r[1]  e == z[1].x_r[1]
             c == Mask(x)  d == Mask(y)  i == Mask(z)  u == Whole(x)  v == Whole(y)  j == Whole(z)
  <2>1. Way(a, b, e) /\ Way(c, d, i) /\ Way(u, v, j)
    BY <1>4, <1>6, <1>7, <1>8
  <2>2. Rem(a + c) = Rem(u) /\ Rem(b + d) = Rem(v)
    BY DEF Coherent
  <2>3. a \in Int /\ b \in Int /\ c \in Int /\ d \in Int /\ e \in Int /\ i \in Int /\ u \in Int /\ v \in Int
    BY <1>10
  <2> HIDE DEF a, b, c, d, e, i, u, v, j
  <2>7. Grouped(a, b, c, d, u, v, e, i)
    BY <2>2, <2>3 DEF Grouped
  <2>4. CASE Added(x, y, z)
    <3>1. Rem(e) = Rem(a + b) /\ Rem(i) = Rem(c + d) /\ Rem(j) = Rem(u + v)
      BY <2>1, <2>4
    <3>2. Rem(e + i) = Rem(u + v)
      BY <2>7, <3>1, RegroupedPlus
    <3>3. QED BY <3>1, <3>2 DEF e, i, j
  <2>5. CASE ~ Added(x, y, z)
    <3>1. Rem(e) = Rem(a - b) /\ Rem(i) = Rem(c - d) /\ Rem(j) = Rem(u - v)
      BY <2>1, <2>5
    <3>2. Rem(e + i) = Rem(u - v)
      BY <2>7, <3>1, RegroupedMinus
    <3>3. QED BY <3>1, <3>2 DEF e, i, j
  <2>6. QED BY <2>4, <2>5
<1>13. QED BY <1>9, <1>11, <1>12 DEF Coherent

\* A public number is added, or is a factor.
Topped(x, a, z) == \A p \in Parties : z[p] = WithPublic(x[p], a, p)
Scaled(x, a, z) == \A p \in Parties : z[p] = TimesPublic(x[p], a)

LEMMA ToppedWhole ==
  ASSUME NEW x \in Family, NEW a \in Residues, NEW z \in Family, Topped(x, a, z)
  PROVE  Rem(Whole(z)) = Rem(Whole(x) + a)
<1> DEFINE h == SharesOf(z)  f == SharesOf(x)
<1>1. /\ h \in Seq(Residues) /\ f \in Seq(Residues) /\ Len(h) = N - 1 /\ Len(f) = N - 1
      /\ N - 1 >= 1 /\ Computing = 1 .. N - 1 /\ N - 1 \in Nat /\ 1 \in Computing
  BY FamilyType, ComputingParties
<1>2. a \in Int
  BY ResidueFacts
<1>3. ASSUME NEW i \in Computing PROVE Rem(h[i]) = Rem(f[i] + (IF i = 1 THEN a ELSE 0))
  <2>1. /\ h[i] = z[i].share /\ f[i] = x[i].share /\ x[i].share \in Residues /\ i \in Parties
        /\ x[i] \in Sharetensors
    BY FamilyType, ComputingParties DEF Family
  <2>2. z[i].share = add_public(i, x[i].share, a)
    BY <2>1, WithPublicType DEF Topped
  <2> HIDE DEF h, f
  <2>3. CASE i = 1
    <3>1. z[i].share = add_mod(x[i].share, a)
      BY <2>2, <2>3 DEF add_public
    <3>2. QED BY <2>1, <2>3, <3>1, RemResidues
  <2>4. CASE i # 1
    <3>1. z[i].share = x[i].share /\ x[i].share \in Int
      BY <2>1, <2>2, <2>4, ResidueFacts DEF add_public
    <3>2. x[i].share + 0 = x[i].share
      BY <3>1
    <3>3. QED BY <2>1, <2>4, <3>1, <3>2
  <2>5. QED BY <2>3, <2>4
<1>4. Rem(h[1]) = Rem(f[1] + a)
  BY <1>1, <1>3
<1>5. ASSUME NEW i \in 2 .. Len(h) PROVE Rem(h[i]) = Rem(f[i])
  <2>1. i \in Computing /\ i # 1 /\ f[i] \in Residues
    BY <1>1
  <2>2. Rem(h[i]) = Rem(f[i] + 0)
    BY <1>3, <2>1
  <2>3. f[i] \in Int
    BY <2>1, ResidueFacts
  <2>4. f[i] + 0 = f[i]
    BY <2>3
  <2>5. QED BY <2>2, <2>4
<1> HIDE DEF h, f
<1>6. Rem(SumMod(h)) = Rem(SumMod(f) + a)
  BY <1>1, <1>2, <1>4, <1>5, SumHub
<1>7. QED BY <1>6 DEF Whole, h, f

LEMMA TimesTurned ==
  ASSUME NEW a \in Int, NEW b \in Int
  PROVE  a * b = b * a
  OBVIOUS

LEMMA ScaledSum ==
  ASSUME NEW h \in Seq(Residues), NEW f \in Seq(Residues), NEW a \in Residues, Len(f) = Len(h),
         \A i \in 1 .. Len(h) : h[i] = mul_mod(f[i], a)
  PROVE  Rem(SumMod(h)) = Rem(SumMod(f) * a)
<1>1. ASSUME NEW i \in 1 .. Len(h) PROVE Rem(h[i]) = Rem(a * f[i])
  <2>1. f[i] \in Residues
    OBVIOUS
  <2>2. f[i] \in Int /\ a \in Int
    BY <2>1, ResidueFacts
  <2>3. Rem(mul_mod(f[i], a)) = Rem(f[i] * a)
    BY <2>2, RemMul
  <2>4. f[i] * a = a * f[i]
    BY <2>2, TimesTurned
  <2>5. QED BY <2>3, <2>4
<1>2. a \in Int /\ SumMod(f) \in Int
  BY ResidueFacts, SumsRight
<1>3. Rem(SumMod(h)) = Rem(a * SumMod(f))
  BY <1>1, <1>2, SumTimes
<1>4. a * SumMod(f) = SumMod(f) * a
  BY <1>2, TimesTurned
<1>5. QED BY <1>3, <1>4

LEMMA ScaledWhole ==
  ASSUME NEW x \in Family, NEW a \in Residues, NEW z \in Family, Scaled(x, a, z)
  PROVE  Rem(Whole(z)) = Rem(Whole(x) * a)
<1> DEFINE h == SharesOf(z)  f == SharesOf(x)
<1>1. /\ h \in Seq(Residues) /\ f \in Seq(Residues) /\ Len(h) = N - 1 /\ Len(f) = N - 1
      /\ Computing = 1 .. N - 1
  BY FamilyType
<1>2. ASSUME NEW i \in Computing PROVE h[i] = mul_mod(f[i], a)
  <2>1. h[i] = z[i].share /\ f[i] = x[i].share /\ i \in Parties /\ x[i] \in Sharetensors
    BY FamilyType, ComputingParties DEF Family
  <2>2. z[i].share = mul_mod(x[i].share, a)
    BY <2>1, TimesPublicType DEF Scaled
  <2>3. QED BY <2>1, <2>2
<1> HIDE DEF h, f
<1>3. Rem(SumMod(h)) = Rem(SumMod(f) * a)
  BY <1>1, <1>2, ScaledSum
<1>4. QED BY <1>3 DEF Whole, h, f

LEMMA ToppedCoherent ==
  ASSUME NEW x \in Family, NEW a \in Residues, NEW z \in Family, Topped(x, a, z),
         Coherent(x), Parted_(z)
  PROVE  Coherent(z)
<1>1. ASSUME NEW p \in Parties
      PROVE  z[p].x_r = <<add_mod(x[p].x_r[1], a)>> /\ z[p].r = x[p].r
  <2>1. x[p] \in Sharetensors /\ is_partitioned(x[p])
    BY DEF Family, Coherent, Parted_
  <2>2. QED BY <2>1, WithPublicType DEF Topped
<1>2. \A p \in Computing : p \in Parties /\ x[p].x_r = x[1].x_r
  BY ComputingParties DEF Coherent
<1>3. 1 \in Parties /\ 0 \in Parties /\ 1 \in Computing
  BY ComputingParties
<1>4. \A p \in Computing : z[p].x_r = z[1].x_r
  BY <1>1, <1>2, <1>3
<1>5. MasksOf(z) = MasksOf(x)
  BY <1>1, <1>2 DEF MasksOf
<1>6. Mask(z) = Mask(x) /\ z[0].r[1] = x[0].r[1]
  BY <1>1, <1>3, <1>5 DEF Mask
<1>7. z[0].r[1] = Mask(z)
  BY <1>6 DEF Coherent
<1>8. Rem(z[1].x_r[1] + Mask(z)) = Rem(Whole(z))
  <2> DEFINE u == x[1].x_r[1]  v == z[1].x_r[1]  m == Mask(x)  s == Whole(x)
  <2>1. u \in Residues /\ u \in Int /\ m \in Int /\ s \in Int /\ v \in Int /\ a \in Int /\ Whole(z) \in Int
    BY <1>3, PartsType, FamilyType, ResidueFacts DEF Coherent
  <2>2. v = add_mod(u, a)
    BY <1>1, <1>3
  <2>3. Rem(u + m) = Rem(s) /\ Rem(Whole(z)) = Rem(s + a)
    BY ToppedWhole DEF Coherent
  <2> HIDE DEF u, v, m, s
  <2>4. Rem(v) = Rem(u + a)
    BY <2>1, <2>2, RemResidues
  <2>5. u + a \in Int /\ u + m \in Int
    BY <2>1
  <2>6. Rem(v + m) = Rem((u + a) + m)
    BY <2>1, <2>4, <2>5, RemMore
  <2>7. (u + a) + m = (u + m) + a
    BY <2>1
  <2>8. Rem((u + m) + a) = Rem(s + a)
    BY <2>1, <2>3, <2>5, RemMore
  <2>9. QED BY <1>6, <2>3, <2>6, <2>7, <2>8 DEF v, m
<1>9. QED BY <1>4, <1>7, <1>8 DEF Coherent

LEMMA ScaledCoherent ==
  ASSUME NEW x \in Family, NEW a \in Residues, NEW z \in Family, Scaled(x, a, z),
         Coherent(x), Parted_(z)
  PROVE  Coherent(z)
<1>1. ASSUME NEW p \in Parties
      PROVE  /\ z[p].x_r = <<mul_mod(x[p].x_r[1], a)>>
             /\ z[p].r[1] = mul_mod(x[p].r[1], a)
  <2>1. x[p] \in Sharetensors /\ is_partitioned(x[p])
    BY DEF Family, Coherent, Parted_
  <2>2. z[p].x_r = <<mul_mod(x[p].x_r[1], a)>> /\ z[p].r = <<mul_mod(x[p].r[1], a)>>
    BY <2>1, TimesPublicType DEF Scaled
  <2>3. QED BY <2>2
<1>2. \A p \in Computing : p \in Parties /\ x[p].x_r = x[1].x_r
  BY ComputingParties DEF Coherent
<1>3. 1 \in Parties /\ 0 \in Parties /\ 1 \in Computing
  BY ComputingParties
<1>4. \A p \in Computing : z[p].x_r = z[1].x_r
  BY <1>1, <1>2, <1>3
<1>5. Rem(Mask(z)) = Rem(Mask(x) * a)
  <2> DEFINE h == MasksOf(z)  f == MasksOf(x)
  <2>1. /\ h \in Seq(Residues) /\ f \in Seq(Residues) /\ Len(h) = N - 1 /\ Len(f) = N - 1
        /\ \A i \in Computing : h[i] = z[i].r[1] /\ f[i] = x[i].r[1]
    BY PartsType DEF Coherent
  <2>2. Computing = 1 .. N - 1
    BY ComputingParties
  <2>3. \A i \in 1 .. N - 1 : h[i] = mul_mod(f[i], a)
    BY <1>1, <1>2, <2>1, <2>2
  <2> HIDE DEF h, f
  <2>4. Rem(SumMod(h)) = Rem(SumMod(f) * a)
    BY <2>1, <2>3, ScaledSum
  <2>5. QED BY <2>4 DEF Mask, h, f
<1>6. /\ Mask(x) \in Int /\ Mask(z) \in Int /\ Mask(z) \in Residues /\ Whole(x) \in Int
      /\ x[1].x_r[1] \in Int /\ z[1].x_r[1] \in Int /\ x[0].r[1] \in Int /\ z[0].r[1] \in Residues
      /\ a \in Int
  BY <1>3, PartsType, FamilyType, ResidueFacts DEF Coherent
<1>7. z[0].r[1] = Mask(z)
  <2>1. Rem(z[0].r[1]) = Rem(x[0].r[1] * a)
    BY <1>1, <1>3, <1>6, RemMul
  <2>2. x[0].r[1] = Mask(x)
    BY DEF Coherent
  <2>3. QED BY <1>5, <1>6, <2>1, <2>2, SameResidue
<1>8. Rem(z[1].x_r[1] + Mask(z)) = Rem(Whole(z))
  <2> DEFINE u == x[1].x_r[1]  v == z[1].x_r[1]  m == Mask(x)  k == Mask(z)  s == Whole(x)
             ua == u * a  ma == m * a
  <2>1. u \in Int /\ m \in Int /\ s \in Int /\ v \in Int /\ a \in Int /\ k \in Int
    BY <1>6
  <2>2. v = mul_mod(u, a)
    BY <1>1, <1>3
  <2>3. Rem(u + m) = Rem(s) /\ Rem(Whole(z)) = Rem(s * a) /\ Rem(k) = Rem(ma)
    BY <1>5, ScaledWhole DEF Coherent
  <2> HIDE DEF u, v, m, s, k
  <2>4. Rem(v) = Rem(ua)
    BY <2>1, <2>2, RemMul
  <2>5. ua \in Int /\ ma \in Int /\ u + m \in Int
    BY <2>1
  <2>6. Rem(v + k) = Rem(ua + ma)
    <3> HIDE DEF ua, ma
    <3>1. QED BY <2>1, <2>3, <2>4, <2>5, RemPlus
  <2>7. ua + ma = (u + m) * a
    BY <2>1
  <2>8. Rem((u + m) * a) = Rem(s * a)
    <3> DEFINE um == u + m
    <3>1. um \in Int /\ s \in Int /\ a \in Int /\ Rem(um) = Rem(s)
      BY <2>1, <2>3
    <3> HIDE DEF um
    <3>2. Rem(um * a) = Rem(s * a)
      BY <3>1, RemMultiple
    <3>3. QED BY <3>2 DEF um
  <2> HIDE DEF ua, ma
  <2>9. QED BY <2>3, <2>6, <2>7, <2>8 DEF v, k
<1>9. QED BY <1>4, <1>7, <1>8 DEF Coherent

-----------------------------------------------------------------------------
\* The k-th result of a world.
Column(w, k) == [p \in Parties |-> w.results[p][k]]

LEMMA ColumnType ==
  ASSUME NEW w, NEW n, NEW S, NEW r, NEW d, WorldOK(w, n, S, r, d), NEW k \in 1 .. n
  PROVE  /\ Column(w, k) \in Family /\ (k \in S => Parted_(Column(w, k)))
         /\ \A p \in Parties : Column(w, k)[p] = w.results[p][k]
<1>1. \A p \in Parties : /\ w.results[p][k] \in Sharetensors
                         /\ is_partitioned(w.results[p][k]) <=> k \in S
  BY ResultsType
<1>2. \A p \in Parties : Column(w, k)[p] = w.results[p][k]
  BY DEF Column
<1>3. Column(w, k) \in Family
  BY <1>1 DEF Column, Family
<1>4. QED BY <1>1, <1>2, <1>3 DEF Parted_

\* Partitions and shares stay when a world grows.
LEMMA ColumnGrows ==
  ASSUME NEW w, NEW n, NEW S, NEW r, NEW d, WorldOK(w, n, S, r, d), NEW z, Grows(w, z),
         NEW k \in 1 .. n
  PROVE  /\ k \in S => Column(z, k) = Column(w, k)
         /\ SharesOf(Column(z, k)) = SharesOf(Column(w, k))
         /\ Whole(Column(z, k)) = Whole(Column(w, k))
<1>1. \A p \in Parties : Len(w.results[p]) = n /\ (is_partitioned(w.results[p][k]) <=> k \in S)
  BY DEF WorldOK
<1>2. \A p \in Parties : GrowsAt(w.results[p], z.results[p], k)
  BY <1>1 DEF Grows
<1>3. ASSUME NEW p \in Parties
      PROVE  /\ w.results[p][k].share = z.results[p][k].share
             /\ k \in S => z.results[p][k] = w.results[p][k]
  BY <1>1, <1>2 DEF GrowsAt
<1>4. k \in S => Column(z, k) = Column(w, k)
  BY <1>3 DEF Column
<1>5. \A u : \A p \in Computing : Column(u, k)[p] = u.results[p][k] /\ p \in Parties
  BY ComputingParties DEF Column
<1>6. SharesOf(Column(z, k)) = SharesOf(Column(w, k))
  BY <1>3, <1>5 DEF SharesOf
<1>7. QED BY <1>4, <1>6 DEF Whole

\* The partitions are coherent.
AllCoherent(w, S) == \A k \in S : Coherent(Column(w, k))

LEMMA CoherentGrows ==
  ASSUME NEW w, NEW n, NEW S, NEW r, NEW d, WorldOK(w, n, S, r, d), NEW z, Grows(w, z),
         AllCoherent(w, S)
  PROVE  AllCoherent(z, S)
<1>1. S \subseteq 1 .. n
  BY DEF WorldOK
<1>2. ASSUME NEW k \in S PROVE Coherent(Column(z, k))
  <2>1. k \in 1 .. n
    BY <1>1
  <2>2. Column(z, k) = Column(w, k)
    BY <2>1, ColumnGrows
  <2>3. QED BY <2>2 DEF AllCoherent
<1>3. QED BY <1>2 DEF AllCoherent

\* A new partition.
LEMMA PartCoherent ==
  ASSUME NEW w, NEW n \in Nat, NEW S, NEW r, NEW d, WorldOK(w, n, S, r, d), NEW k \in 1 .. n,
         k \notin S, NEW mask \in [Computing -> Residues]
  PROVE  Coherent(Column(Part(w, k, mask), k))
<1> DEFINE z == Column(Part(w, k, mask), k)
           b == Blind(w, k, mask)
           s == SharesOf(Column(w, k))
           T(p) == Partitioned(w, k, mask, p)
<1>1. WorldOK(Part(w, k, mask), n, S \cup {k}, r + 1, d) /\ k \in S \cup {k}
      /\ Grows(w, Part(w, k, mask))
  BY PartRight
<1>2. z \in Family /\ Parted_(z)
  BY <1>1, ColumnType
<1>3. ASSUME NEW p \in Parties PROVE z[p] = T(p)
  <2>1. Part(w, k, mask).results[p] = [w.results[p] EXCEPT ![k] = T(p)]
    BY DEF Part
  <2>2. w.results[p] \in Seq(Sharetensors) /\ Len(w.results[p]) = n
    BY DEF WorldOK
  <2>3. k \in DOMAIN w.results[p]
    BY <2>2
  <2>4. Part(w, k, mask).results[p][k] = T(p)
    BY <2>1, <2>3
  <2>5. QED BY <2>4 DEF Column
<1>4. /\ b \in [Computing -> Residues] /\ b \in Seq(Residues) /\ Len(b) = N - 1
      /\ SumMod(b) \in Residues /\ SumMod(b) \in Int
      /\ mask \in Seq(Residues) /\ Len(mask) = N - 1 /\ SumMod(mask) \in Int
  BY BlindType, ComputingSeq
<1>5. /\ s \in Seq(Residues) /\ Len(s) = N - 1 /\ SumMod(s) \in Int
      /\ \A p \in Computing : s[p] = w.results[p][k].share /\ p \in Parties
  <2>1. Column(w, k) \in Family /\ \A p \in Parties : Column(w, k)[p] = w.results[p][k]
    BY ColumnType
  <2>2. QED BY <2>1, FamilyType, ComputingParties DEF Whole
<1>6. ASSUME NEW p \in Computing PROVE T(p).x_r = <<SumMod(b)>> /\ T(p).r = <<mask[p]>>
  <2>1. p # 0
    BY ComputingParties
  <2>2. QED BY <2>1 DEF Partitioned
<1>7. T(0).r = <<SumMod(mask)>>
  BY DEF Partitioned
<1>8. 0 \in Parties /\ 1 \in Computing /\ Computing = 1 .. N - 1
  BY ComputingParties
<1>9. MasksOf(z) = mask
  <2>1. \A p \in Computing : z[p].r[1] = mask[p]
    BY <1>3, <1>5, <1>6
  <2>2. mask = [p \in Computing |-> mask[p]]
    OBVIOUS
  <2> HIDE DEF z
  <2>3. QED BY <2>1, <2>2 DEF MasksOf
<1>10. z[0].r[1] = Mask(z)
  BY <1>3, <1>7, <1>8, <1>9 DEF Mask
<1>11. \A p \in Computing : z[p].x_r = <<SumMod(b)>>
  BY <1>3, <1>5, <1>6
<1>12. Rem(SumMod(b)) = Rem(SumMod(s) - SumMod(mask))
  <2>1. ASSUME NEW i \in 1 .. N - 1 PROVE Rem(b[i]) = Rem(s[i] - mask[i])
    <3>1. i \in Computing
      BY <1>8
    <3>2. b[i] = sub_mod(s[i], mask[i])
      BY <1>5, <3>1 DEF Blind
    <3>3. s[i] \in Residues /\ mask[i] \in Residues
      BY <1>5, <3>1
    <3> HIDE DEF b, s
    <3>4. QED BY <3>2, <3>3, RemResidues
  <2> HIDE DEF b, s
  <2>2. /\ b \in Seq(Residues) /\ s \in Seq(Residues) /\ mask \in Seq(Residues)
        /\ Len(s) = Len(b) /\ Len(mask) = Len(b) /\ Len(b) = N - 1
    BY <1>4, <1>5
  <2>3. \A i \in 1 .. Len(b) : Rem(b[i]) = Rem(s[i] - mask[i])
    BY <2>1, <2>2
  <2>4. QED BY <2>2, <2>3, SumMinus
<1>13. Whole(z) = SumMod(s)
  <2>1. SharesOf(z) = s
    BY <1>1, ColumnGrows
  <2>2. QED BY <2>1 DEF Whole
<1>14. Rem(z[1].x_r[1] + Mask(z)) = Rem(Whole(z))
  <2> DEFINE u == SumMod(b)  m == SumMod(mask)  v == SumMod(s)
  <2>1. u \in Int /\ m \in Int /\ v \in Int /\ Rem(u) = Rem(v - m)
    BY <1>4, <1>5, <1>12
  <2>2. z[1].x_r[1] = u /\ Mask(z) = m /\ Whole(z) = v
    BY <1>8, <1>9, <1>11, <1>13 DEF Mask
  <2> HIDE DEF u, m, v, z
  <2>3. v - m \in Int /\ (v - m) + m = v
    BY <2>1
  <2>4. Rem(u + m) = Rem((v - m) + m)
    BY <2>1, <2>3, RemMore
  <2>5. QED BY <2>2, <2>3, <2>4
<1> HIDE DEF z
<1>15. QED BY <1>2, <1>8, <1>10, <1>11, <1>14 DEF Coherent, z

\* The partitions of a call are coherent.
LEMMA PartsCoherentMore ==
  ASSUME NEW pr \in Programs, NEW t \in Tapes, NEW n \in 1 .. Len(pr),
         NEW w, NEW P, NEW r \in Nat, NEW d, WorldOK(w, n - 1, P, r, d),
         NEW S, PartsOK(pr, t, n, w, P, r, d, S), AllCoherent(Parts(pr, t, n, w, S), P \cup S),
         NEW k \in 1 .. n - 1, k \notin P, k \notin S, NextIn(pr[n], S, k)
  PROVE  AllCoherent(Parts(pr, t, n, w, S \cup {k}), P \cup (S \cup {k}))
<1> DEFINE one == Parts(pr, t, n, w, S)
           two == Parts(pr, t, n, w, S \cup {k})
           a == Len(MaskDraws(n, pr[n], S))
           mask == MasksAt(pr, t, n, a + 1)
<1>1. CallFacts(pr[n], n) /\ n \in Nat /\ n - 1 \in Nat
  BY ProgramFacts
<1>2. PartsStep(pr, t, n, w, S, k)
  BY <1>1, PartsNext
<1>3. two = Part(one, k, mask) /\ a \in Nat
  BY <1>2 DEF PartsStep
<1>4. mask \in [Computing -> Residues]
  <2>1. a + 1 \in Nat
    BY <1>3
  <2>2. QED BY <2>1, MasksType
<1>5. WorldOK(one, n - 1, P \cup S, r + a, d)
  BY DEF PartsOK
<1>6. Grows(one, two)
  BY PartsMore
<1> HIDE DEF one, two, mask, a
<1>7. Coherent(Column(two, k))
  <2>1. k \notin P \cup S
    OBVIOUS
  <2>2. QED BY <1>1, <1>3, <1>4, <1>5, <2>1, PartCoherent
<1>8. AllCoherent(two, P \cup S)
  BY <1>5, <1>6, CoherentGrows DEF one
<1>9. QED BY <1>7, <1>8 DEF AllCoherent, two

LEMMA PartsAllCoherent ==
  ASSUME NEW pr \in Programs, NEW t \in Tapes, NEW n \in 1 .. Len(pr),
         NEW w, NEW P, NEW r \in Nat, NEW d, WorldOK(w, n - 1, P, r, d), AllCoherent(w, P),
         P = Plan(pr)[n - 1].parted
  PROVE  AllCoherent(AllParts(pr, t, n, w), P \cup Wanted(pr[n], P))
<1> DEFINE c == pr[n]
           W == Wanted(c, P)
           OK(A) == /\ PartsOK(pr, t, n, w, P, r, d, A)
                    /\ AllCoherent(Parts(pr, t, n, w, A), P \cup A)
<1>1. CallFacts(c, n) /\ n \in Nat
  BY ProgramFacts
<1>2. /\ \A k \in W : k \in 1 .. n - 1 /\ k \notin P /\ c.op \in Masking /\ (k = c.x \/ (c.op = "mul" /\ k = c.y))
  BY <1>1 DEF Wanted, CallFacts, Masking
<1>3. OK({})
  <2>1. P \cup {} = P
    OBVIOUS
  <2>2. QED BY <2>1, PartsNone
<1>4. ASSUME NEW A \in SUBSET W, NEW k \in W, k \notin A, OK(A), NextIn(c, A, k)
      PROVE  OK(A \cup {k})
  BY <1>2, <1>4, PartsMore, PartsCoherentMore
<1> HIDE DEF OK, W, c
<1>5. OK(W)
  <2>1. CASE W = {}
    BY <1>3, <2>1
  <2>2. CASE c.x \in W
    <3>1. NextIn(c, {}, c.x)
      BY <1>2, <2>2 DEF NextIn
    <3>2. OK({} \cup {c.x}) /\ {} \cup {c.x} = {c.x}
      BY <1>3, <1>4, <2>2, <3>1
    <3>3. OK({c.x})
      BY <3>2
    <3>4. CASE W = {c.x}
      BY <3>3, <3>4
    <3>5. CASE W # {c.x}
      <4>1. c.op = "mul" /\ c.y # c.x /\ W = {c.x, c.y} /\ c.y \in W
        BY <1>2, <2>2, <3>5
      <4>2. NextIn(c, {c.x}, c.y)
        BY <1>2, <2>2, <4>1 DEF NextIn
      <4>3. {c.x} \in SUBSET W /\ c.y \notin {c.x} /\ {c.x} \cup {c.y} = W
        BY <2>2, <4>1
      <4>4. OK({c.x} \cup {c.y})
        BY <1>4, <3>3, <4>1, <4>2, <4>3
      <4>5. QED BY <4>3, <4>4
    <3>6. QED BY <3>4, <3>5
  <2>3. CASE W # {} /\ c.x \notin W
    <3>1. W = {c.y} /\ c.op = "mul" /\ c.y # c.x /\ c.y \in W /\ {} \cup {c.y} = W
      BY <1>2, <2>3
    <3>2. NextIn(c, {}, c.y)
      BY <1>2, <3>1 DEF NextIn
    <3>3. OK({} \cup {c.y})
      BY <1>3, <1>4, <3>1, <3>2
    <3>4. QED BY <3>1, <3>3
  <2>4. QED BY <2>1, <2>2, <2>3
<1>6. QED BY <1>5 DEF OK, W, c, AllParts

-----------------------------------------------------------------------------
\* The new result of a call.
NewColumn(pr, t, n, w) == Column(End(pr, t, n, w), n)

LEMMA NewColumnType ==
  ASSUME NEW pr, NEW t, NEW n, NEW w, NEW S, NEW r \in Nat, NEW d \in Nat,
         AtEnd(pr, t, n, w, S, r, d)
  PROVE  /\ NewColumn(pr, t, n, w) \in Family
         /\ \A p \in Parties : NewColumn(pr, t, n, w)[p] = NewTensor(pr, t, n, w, p)
         /\ n \in PartedAfter(n, pr[n], S) => Parted_(NewColumn(pr, t, n, w))
<1> DEFINE z == End(pr, t, n, w)
<1>1. WorldOK(z, n, PartedAfter(n, pr[n], S), r + (IF Shows(pr[n]) THEN 1 ELSE 0), d + Dealt(pr[n]))
  BY EndRight
<1>2. n \in Nat /\ n - 1 \in Nat /\ (n - 1) + 1 = n /\ n \in 1 .. n
  BY EndOperands DEF EndCalls
<1>3. ASSUME NEW p \in Parties PROVE z.results[p][n] = NewTensor(pr, t, n, w, p)
  <2>1. z.results[p] = Append(w.results[p], NewTensor(pr, t, n, w, p))
    BY DEF End
  <2>2. w.results[p] \in Seq(Sharetensors) /\ Len(w.results[p]) = n - 1
    BY DEF AtEnd, WorldOK
  <2>3. NewTensor(pr, t, n, w, p) \in Sharetensors
    BY NewTensorType
  <2>4. Append(w.results[p], NewTensor(pr, t, n, w, p))[Len(w.results[p]) + 1] = NewTensor(pr, t, n, w, p)
    BY <2>2, <2>3, AddedType
  <2>5. QED BY <1>2, <2>1, <2>2, <2>4
<1> HIDE DEF z
<1>4. /\ Column(z, n) \in Family
      /\ n \in PartedAfter(n, pr[n], S) => Parted_(Column(z, n))
      /\ \A p \in Parties : Column(z, n)[p] = z.results[p][n]
  BY <1>1, <1>2, ColumnType
<1>5. QED BY <1>3, <1>4 DEF NewColumn, z

\* The operands of a call.
LEMMA OperandColumns ==
  ASSUME NEW pr, NEW t, NEW n, NEW w, NEW S, NEW r, NEW d, AtEnd(pr, t, n, w, S, r, d),
         pr[n].op # "share_from"
  PROVE  /\ Column(w, pr[n].x) \in Family
         /\ \A p \in Parties : Column(w, pr[n].x)[p] = w.results[p][pr[n].x]
         /\ pr[n].op \in {"add", "sub", "mul"} =>
              /\ Column(w, pr[n].y) \in Family
              /\ \A p \in Parties : Column(w, pr[n].y)[p] = w.results[p][pr[n].y]
<1>1. CallFacts(pr[n], n)
  BY EndOperands DEF EndCalls
<1>2. pr[n].x \in 1 .. n - 1 /\ (pr[n].op \in {"add", "sub", "mul"} => pr[n].y \in 1 .. n - 1)
  BY <1>1 DEF CallFacts
<1>3. QED BY <1>2, ColumnType DEF AtEnd

\* A linear operation.
LinearIs(c, x, y, z) ==
  /\ c.op = "add" => Added(x, y, z)
  /\ c.op = "sub" => Taken(x, y, z)
  /\ c.op = "add_public" => Topped(x, c.a, z)
  /\ c.op = "mul_public" => Scaled(x, c.a, z)

LEMMA LinearColumns ==
  ASSUME NEW pr, NEW t, NEW n, NEW w, NEW S, NEW r \in Nat, NEW d \in Nat,
         AtEnd(pr, t, n, w, S, r, d),
         pr[n].op \in {"add", "sub", "add_public", "mul_public"}
  PROVE  LinearIs(pr[n], Column(w, pr[n].x), Column(w, pr[n].y), NewColumn(pr, t, n, w))
<1> DEFINE c == pr[n]
           x == Column(w, c.x)  y == Column(w, c.y)  z == NewColumn(pr, t, n, w)
<1>1. \A p \in Parties : z[p] = NewTensor(pr, t, n, w, p)
  BY NewColumnType
<1>2. \A p \in Parties : x[p] = w.results[p][c.x] /\ y[p] = w.results[p][c.y]
  BY DEF Column
<1> HIDE DEF x, y, z
<1>3. c.op = "add" => Added(x, y, z)
  BY <1>1, <1>2 DEF Added, NewTensor
<1>4. c.op = "sub" => Taken(x, y, z)
  BY <1>1, <1>2 DEF Taken, NewTensor
<1>5. c.op = "add_public" => Topped(x, c.a, z)
  BY <1>1, <1>2 DEF Topped, NewTensor
<1>6. c.op = "mul_public" => Scaled(x, c.a, z)
  BY <1>1, <1>2 DEF Scaled, NewTensor
<1>7. QED BY <1>3, <1>4, <1>5, <1>6 DEF LinearIs, x, y, z

LEMMA EndCoherent ==
  ASSUME NEW pr, NEW t, NEW n, NEW w, NEW S, NEW r \in Nat, NEW d \in Nat,
         AtEnd(pr, t, n, w, S, r, d), AllCoherent(w, S)
  PROVE  AllCoherent(End(pr, t, n, w), PartedAfter(n, pr[n], S))
<1> DEFINE c == pr[n]
           x == Column(w, c.x)  y == Column(w, c.y)  z == NewColumn(pr, t, n, w)
           A == PartedAfter(n, c, S)
<1>1. Grows(w, End(pr, t, n, w)) /\ WorldOK(w, n - 1, S, r, d)
  BY EndRight DEF AtEnd
<1>2. AllCoherent(End(pr, t, n, w), S)
  BY <1>1, CoherentGrows
<1>3. Wanted(c, S) = {} /\ EndCalls(pr, n, w, S)
  BY EndOperands DEF AtEnd
<1>4. ASSUME n \in A, n \notin S PROVE Coherent(z)
  <2>1. c.op \in {"add", "sub", "add_public", "mul_public"}
    BY <1>3, <1>4 DEF PartedAfter
  <2>2. c.x \in S /\ (c.op \in {"add", "sub"} => c.y \in S)
    BY <1>4, <2>1 DEF PartedAfter
  <2>3. LinearIs(c, x, y, z)
    BY <2>1, LinearColumns
  <2>4. z \in Family /\ Parted_(z)
    BY <1>4, NewColumnType
  <2>5. x \in Family /\ (c.op \in {"add", "sub"} => y \in Family)
    BY <2>1, OperandColumns
  <2>6. Coherent(x) /\ (c.op \in {"add", "sub"} => Coherent(y))
    BY <2>2 DEF AllCoherent
  <2>7. c.op \in {"add_public", "mul_public"} => c.a \in Residues
    BY <1>3 DEF EndCalls, CallFacts
  <2> HIDE DEF x, y, z
  <2>8. CASE c.op \in {"add", "sub"}
    BY <2>3, <2>4, <2>5, <2>6, <2>8, AddedCoherent DEF LinearIs
  <2>9. CASE c.op = "add_public"
    BY <2>3, <2>4, <2>5, <2>6, <2>7, <2>9, ToppedCoherent DEF LinearIs
  <2>10. CASE c.op = "mul_public"
    BY <2>3, <2>4, <2>5, <2>6, <2>7, <2>10, ScaledCoherent DEF LinearIs
  <2>11. QED BY <2>1, <2>8, <2>9, <2>10
<1>5. A \subseteq S \cup {n}
  BY <1>3 DEF PartedAfter
<1>6. ASSUME NEW k \in A PROVE Coherent(Column(End(pr, t, n, w), k))
  <2>1. CASE k \in S
    BY <1>2, <2>1 DEF AllCoherent
  <2>2. CASE k \notin S
    <3>1. k = n /\ n \in A /\ n \notin S
      BY <1>5, <1>6, <2>2
    <3>2. QED BY <1>4, <3>1 DEF NewColumn
  <2>3. QED BY <2>1, <2>2
<1>7. QED BY <1>6 DEF AllCoherent

\* All partitions of a program.
LEMMA IdealCoherent ==
  ASSUME NEW pr \in Programs, NEW t \in Tapes
  PROVE  \A n \in 0 .. Len(pr) : AllCoherent(Ideal(pr, t)[n], Plan(pr)[n].parted)
<1> DEFINE G(n) == AllCoherent(Ideal(pr, t)[n], Plan(pr)[n].parted)
           S == {n \in 0 .. Len(pr) : G(n)}
<1>1. Len(pr) \in Nat
  BY ProgramFacts
<1>2. 0 \in S
  <2>1. Plan(pr)[0].parted = {}
    BY PlanRight DEF PlanFacts, Nothing
  <2>2. QED BY <1>1, <2>1 DEF AllCoherent
<1>3. ASSUME NEW n \in 1 .. Len(pr), n - 1 \in S PROVE n \in S
  <2> DEFINE w == Ideal(pr, t)[n - 1]
             plan == Plan(pr)[n - 1]
             P == plan.parted
             W == Wanted(pr[n], P)
             one == AllParts(pr, t, n, w)
             m == plan.reveals + Len(MaskDraws(n, pr[n], W))
  <2>1. AllCoherent(w, P)
    BY <1>3
  <2>2. Upto(pr, t, n - 1) /\ Ended(pr, t, n, w) /\ Ideal(pr, t)[n] = End(pr, t, n, one)
    BY CallRight
  <2>3. plan \in Works /\ Plan(pr)[n] = After(n, pr[n], plan)
    BY PlaceInt, DealersSeeds
  <2>4. plan.reveals \in Nat /\ plan.dealt \in Nat
    BY <2>3 DEF Works
  <2>5. WorldOK(w, n - 1, P, plan.reveals, plan.dealt)
    BY <2>2 DEF Upto
  <2>6. AllCoherent(one, P \cup W)
    BY <2>1, <2>4, <2>5, PartsAllCoherent
  <2>7. AtEnd(pr, t, n, one, P \cup W, m, plan.dealt) /\ m \in Nat
    BY <2>2 DEF Ended
  <2> HIDE DEF m, one, w
  <2>8. AllCoherent(End(pr, t, n, one), PartedAfter(n, pr[n], P \cup W))
    BY <2>4, <2>6, <2>7, EndCoherent
  <2>9. Plan(pr)[n].parted \subseteq PartedAfter(n, pr[n], P \cup W)
    BY <2>3 DEF After, PartedAfter, Wanted
  <2>10. G(n)
    BY <2>2, <2>8, <2>9 DEF AllCoherent
  <2>11. n \in 0 .. Len(pr)
    BY <1>1
  <2>12. QED BY <2>10, <2>11
<1> HIDE DEF S, G
<1>4. 0 .. Len(pr) \subseteq S
  BY <1>1, <1>2, <1>3, InductionTo
<1>5. \A n \in 0 .. Len(pr) : G(n)
  BY <1>4 DEF S
<1>6. QED BY <1>5 DEF G

==============================================================================
