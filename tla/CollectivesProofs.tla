-------------------------- MODULE CollectivesProofs --------------------------
(***************************************************************************)
(* That the collectives stay in step and compute what they are for, for    *)
(* any number of parties, any sequence of complete calls and links of any  *)
(* size.                                                                   *)
(***************************************************************************)
EXTENDS Collectives, FiniteSetTheorems, WellFoundedInduction, TLAPS

-----------------------------------------------------------------------------
\* The invariant.

LocalDo == {"clear", "keep", "reduce", "func"}
Instructions == [do : {"send", "flush"} \cup Receiving \cup LocalDo, peer : Parties]

\* Two instructions for the same message: no script has both.
Same(x, y) == x.peer = y.peer /\ (x.do = y.do \/ {x.do, y.do} \subseteq Receiving)

\* The instructions of call k that party p has carried out.
Through(k, p) ==
  LET s == Scripts[prog[k]][p] IN
  {s[i] : i \in {j \in DOMAIN s : k < at[p] \/ (k = at[p] /\ j < pc[p])}}

Sends(x, q) == x.do = "send" /\ x.peer = q
Receives(x, q) == x.do \in Receiving /\ x.peer = q

\* The calls in which p has sent to q, and those whose message q has taken.
SentIn(p, q) == {k \in 1 .. Length : \E x \in Through(k, p) : Sends(x, q)}
TakenIn(p, q) == {k \in 1 .. Length : \E x \in Through(k, q) : Receives(x, p)}

\* What a party sends in a call, and what it takes in it.
Carried(c, p) ==
  CASE c.name \in {"reveal", "reveal_to_all", "is_broadcast"} /\ p = 1 -> SumOf(Computing)
    [] c.name \in {"sync_lite", "sync_full"} -> Zero
    [] c.name = "sequential" -> Own(0)
    [] OTHER -> Own(p)

Given(c) ==
  CASE c.name \in {"reveal", "reveal_to_all", "is_broadcast"} -> SumOf(Computing)
    [] c.name = "broadcast_from" -> Own(c.party)
    [] OTHER -> Own(0)

\* The value and the list that a party has in a call once it is through the
\* instructions E.
ValueAfter(c, p, E) ==
  IF \E x \in E : x.do = "take" THEN Given(c)
  ELSE IF \E x \in E : x.do = "clear" THEN Zero
  ELSE IF \E x \in E : x.do = "reduce" THEN (IF p = 1 THEN SumOf(Computing) ELSE Zero)
  ELSE SumOf({p} \cup {q \in Parties : \E x \in E : x.do = "add" /\ x.peer = q})

Members(p, E) ==
  {q \in Parties : (\E x \in E : x.do = "append" /\ x.peer = q) \/ (q = p /\ \E x \in E : x.do = "keep")}

\* A link holds, in the order of the calls, a message of each call in which its sender
\* has sent; those of the calls in which its receiver has received are taken.
LinkOK(p, q) ==
  LET s == sent[<<p, q>>]
      n == Len(got[<<p, q>>])
  IN
  /\ n <= Len(s)
  /\ \A i, j \in 1 .. Len(s) : i < j => s[i].call < s[j].call
  /\ {s[i].call : i \in 1 .. Len(s)} = SentIn(p, q)
  /\ {s[i].call : i \in 1 .. n} = TakenIn(p, q)
  /\ \A i \in 1 .. Len(s) : s[i].value = Carried(prog[s[i].call], p)

LinkInv == \A p, q \in Parties : p # q => LinkOK(p, q)

\* Where a party is in its program, and what it has there.
PlaceOK(p) ==
  /\ failed[p] = FALSE
  /\ \A k \in 1 .. Length : k = at[p] =>
       /\ value[p] = ValueAfter(prog[k], p, Through(k, p))
       /\ coll[p] = InOrder(Members(p, Through(k, p)))

PlaceInv == \A p \in Parties : PlaceOK(p)

ResultInv ==
  \A p \in Parties :
    /\ Len(result[p]) = at[p] - 1
    /\ \A k \in 1 .. at[p] - 1 : result[p][k] = Expected(prog[k], p)

IInv ==
  /\ prog \in [1 .. Length -> Calls]
  /\ Types
  /\ LinkInv
  /\ PlaceInv
  /\ ResultInv

-----------------------------------------------------------------------------
\* Induction over the natural numbers, on sets.

LEMMA Least ==
  ASSUME NEW S, S \subseteq Nat, S # {}
  PROVE  \E n \in S : \A m \in S : n <= m
<1> DEFINE R == OpToRel(<, Nat)
<1>1. IsWellFoundedOn(R, Nat)
  BY NatLessThanWellFounded
<1>2. \A x, y \in Nat : x < y => <<x, y>> \in R
  BY DEF OpToRel
<1> HIDE DEF R
<1>3. PICK x \in S : \A y \in S : ~ (<<y, x>> \in R)
  BY <1>1, WFMin
<1>4. \A y \in S : ~ (y < x) /\ y \in Nat /\ x \in Nat
  BY <1>2, <1>3
<1>5. \A y \in S : x <= y
  BY <1>4
<1>6. QED BY <1>5

LEMMA SetInduction ==
  ASSUME NEW S, 0 \in S, \A n \in Nat : n \in S => n + 1 \in S
  PROVE  \A n \in Nat : n \in S
<1>1. SUFFICES ASSUME Nat \ S # {} PROVE FALSE
  OBVIOUS
<1>2. PICK n \in Nat \ S : \A m \in Nat \ S : n <= m
  BY <1>1, Least
<1>3. n - 1 \in Nat /\ n - 1 \in S
  BY <1>2
<1>4. QED BY <1>2, <1>3

-----------------------------------------------------------------------------
\* Scripts: what is in them, each message once, and in which order.

Ordered(X, Y, L) == \A x \in X, y \in Y : ~ Same(x, y) /\ L[x] <= L[y]

\* s consists of the instructions X, by the order L.
Made(s, X, L) ==
  /\ s \in Seq(Instructions)
  /\ \A i \in 1 .. Len(s) : s[i] \in X
  /\ \A x \in X : \E i \in 1 .. Len(s) : s[i] = x
  /\ \A i, j \in 1 .. Len(s) : i < j => ~ Same(s[i], s[j]) /\ L[s[i]] <= L[s[j]]

LEMMA MadeEmpty == \A L : Made(<<>>, {}, L)
  BY DEF Made

LEMMA MadeOne ==
  ASSUME NEW L, NEW x \in Instructions
  PROVE  Made(<<x>>, {x}, L)
  BY DEF Made

LEMMA MadeJoin ==
  ASSUME NEW L, NEW s, NEW t, NEW X, NEW Y,
         Made(s, X, L), Made(t, Y, L), Ordered(X, Y, L)
  PROVE  Made(s \o t, X \cup Y, L)
<1> DEFINE u == s \o t
<1>1. /\ u \in Seq(Instructions) /\ Len(u) = Len(s) + Len(t) /\ Len(s) \in Nat /\ Len(t) \in Nat
      /\ \A i \in 1 .. Len(s) : u[i] = s[i]
      /\ \A i \in 1 .. Len(t) : u[Len(s) + i] = t[i]
  BY DEF Made
<1>2. \A i \in 1 .. Len(u) : i \in 1 .. Len(s) \/ (i - Len(s) \in 1 .. Len(t) /\ u[i] = t[i - Len(s)])
  BY <1>1
<1> HIDE DEF u
<1>3. \A i \in 1 .. Len(u) : u[i] \in X \cup Y
  BY <1>1, <1>2 DEF Made
<1>4. \A x \in X \cup Y : \E i \in 1 .. Len(u) : u[i] = x
  <2>1. ASSUME NEW x \in X PROVE \E i \in 1 .. Len(u) : u[i] = x
    BY <1>1 DEF Made
  <2>2. ASSUME NEW x \in Y PROVE \E i \in 1 .. Len(u) : u[i] = x
    <3>1. PICK i \in 1 .. Len(t) : t[i] = x
      BY <2>2 DEF Made
    <3>2. Len(s) + i \in 1 .. Len(u) /\ u[Len(s) + i] = x
      BY <1>1, <3>1
    <3>3. QED BY <3>2
  <2>3. QED BY <2>1, <2>2
<1>5. ASSUME NEW i \in 1 .. Len(u), NEW j \in 1 .. Len(u), i < j
      PROVE  ~ Same(u[i], u[j]) /\ L[u[i]] <= L[u[j]]
  <2>1. CASE j \in 1 .. Len(s)
    <3>1. i \in 1 .. Len(s) /\ u[i] = s[i] /\ u[j] = s[j]
      BY <1>1, <1>5, <2>1
    <3>2. QED BY <1>5, <2>1, <3>1 DEF Made
  <2>2. CASE i \in 1 .. Len(s) /\ j \notin 1 .. Len(s)
    BY <1>1, <1>2, <2>2 DEF Made, Ordered
  <2>3. CASE i \notin 1 .. Len(s) /\ j \notin 1 .. Len(s)
    <3>1. /\ i - Len(s) \in 1 .. Len(t) /\ u[i] = t[i - Len(s)]
          /\ j - Len(s) \in 1 .. Len(t) /\ u[j] = t[j - Len(s)]
          /\ i - Len(s) < j - Len(s)
      BY <1>1, <1>2, <1>5, <2>3
    <3>2. QED BY <3>1 DEF Made
  <2>4. QED BY <1>1, <1>5, <2>1, <2>2, <2>3
<1>6. QED BY <1>1, <1>3, <1>4, <1>5 DEF Made, u

\* FlattenSeq, by its recursion.
FlatUpTo(ss, f, k) ==
  \A i \in 1 .. k : f[i] = IF i = 1 THEN ss[i] ELSE f[i - 1] \o ss[i]

LEMMA FlattenIs ==
  ASSUME NEW ss, NEW n \in Nat \ {0}, Len(ss) = n
  PROVE  \E f : DOMAIN f = 1 .. n /\ FlatUpTo(ss, f, n) /\ FlattenSeq(ss) = f[n]
<1> DEFINE S == {k \in Nat : \E f : DOMAIN f = 1 .. k /\ FlatUpTo(ss, f, k)}
           Flat(f) == f = [i \in 1 .. Len(ss) |-> IF i = 1 THEN ss[i] ELSE f[i - 1] \o ss[i]]
<1>1. 0 \in S
  <2> DEFINE f == [i \in 1 .. 0 |-> <<>>]
  <2>1. DOMAIN f = 1 .. 0 /\ FlatUpTo(ss, f, 0)
    BY DEF FlatUpTo
  <2>2. QED BY <2>1
<1>2. ASSUME NEW k \in Nat, k \in S PROVE k + 1 \in S
  <2>1. PICK f : DOMAIN f = 1 .. k /\ FlatUpTo(ss, f, k)
    BY <1>2
  <2> DEFINE g == [i \in 1 .. k + 1 |->
                     IF i = k + 1 THEN (IF i = 1 THEN ss[i] ELSE f[i - 1] \o ss[i]) ELSE f[i]]
  <2>2. \A i \in 1 .. k + 1 : g[i] = IF i = 1 THEN ss[i] ELSE g[i - 1] \o ss[i]
    <3>1. TAKE i \in 1 .. k + 1
    <3>2. CASE i = k + 1
      BY <3>2
    <3>3. CASE i # k + 1
      <4>1. i \in 1 .. k /\ g[i] = f[i] /\ (i # 1 => g[i - 1] = f[i - 1])
        BY <3>3
      <4> HIDE DEF g
      <4>2. QED BY <2>1, <4>1 DEF FlatUpTo
    <3>4. QED BY <3>2, <3>3
  <2>3. DOMAIN g = 1 .. k + 1
    OBVIOUS
  <2> HIDE DEF g
  <2>4. FlatUpTo(ss, g, k + 1)
    BY <2>2 DEF FlatUpTo
  <2>5. QED BY <2>3, <2>4
<1>3. n \in S
  <2> HIDE DEF S
  <2>1. QED BY <1>1, <1>2, SetInduction
<1>4. \E f : Flat(f)
  <2>1. PICK f : DOMAIN f = 1 .. n /\ FlatUpTo(ss, f, n)
    BY <1>3
  <2> DEFINE g == [i \in 1 .. n |-> IF i = 1 THEN ss[i] ELSE f[i - 1] \o ss[i]]
             h == [i \in 1 .. n |-> f[i]]
  <2>2. \A i \in 1 .. n : g[i] = h[i]
    BY <2>1 DEF FlatUpTo
  <2>3. g = h
    BY <2>2
  <2>4. h = [i \in 1 .. n |-> IF i = 1 THEN ss[i] ELSE h[i - 1] \o ss[i]]
    <3>1. \A i \in 1 .. n : i # 1 => h[i - 1] = f[i - 1]
      OBVIOUS
    <3> DEFINE e == [i \in 1 .. n |-> IF i = 1 THEN ss[i] ELSE h[i - 1] \o ss[i]]
    <3>2. \A i \in 1 .. n : e[i] = g[i]
      BY <3>1
    <3>3. e = g
      BY <3>2
    <3>4. QED BY <2>3, <3>3
  <2> HIDE DEF g, h
  <2>5. Flat(h)
    BY <2>4
  <2>6. QED BY <2>5
<1>5. FlattenSeq(ss) = (CHOOSE f : Flat(f))[n]
  BY DEF FlattenSeq
<1> DEFINE f == CHOOSE f : Flat(f)
<1>6. Flat(f)
  <2> HIDE DEF Flat
  <2>1. QED BY <1>4
<1> HIDE DEF f
<1>7. DOMAIN f = 1 .. n /\ FlatUpTo(ss, f, n)
  BY <1>6 DEF FlatUpTo
<1>8. FlattenSeq(ss) = f[n]
  BY <1>5 DEF f
<1>9. QED BY <1>7, <1>8

\* The scripts of a sequence ss, one after the other, consist of Y.
MadeParts(ss, X, n, Y, L) ==
  /\ DOMAIN ss = 1 .. n /\ Len(ss) = n /\ (n = 0 => ss = <<>>)
  /\ \A i \in 1 .. n : Made(ss[i], X[i], L)
  /\ \A i, j \in 1 .. n : i < j => Ordered(X[i], X[j], L)
  /\ Y = UNION {X[i] : i \in 1 .. n}

LEMMA MadeLoop ==
  ASSUME NEW L, NEW n \in Nat, NEW ss, NEW X, NEW Y, MadeParts(ss, X, n, Y, L)
  PROVE  Made(FlattenSeq(ss), Y, L)
<1> USE DEF MadeParts
<1>1. CASE n = 0
  <2>1. FlattenSeq(ss) = <<>>
    BY <1>1 DEF FlattenSeq
  <2>2. Y = {}
    BY <1>1
  <2>3. Made(<<>>, {}, L)
    BY MadeEmpty
  <2>4. QED BY <2>1, <2>2, <2>3
<1>2. CASE n # 0
  <2>1. PICK f : FlatUpTo(ss, f, n) /\ FlattenSeq(ss) = f[n]
    BY <1>2, FlattenIs
  <2> DEFINE U(k) == UNION {X[i] : i \in 1 .. k}
             S == {k \in Nat : k + 1 \in 1 .. n => Made(f[k + 1], U(k + 1), L)}
  <2>2. 0 \in S
    <3>1. f[1] = ss[1] /\ U(1) = X[1] /\ 1 \in 1 .. n
      BY <1>2, <2>1 DEF FlatUpTo
    <3> HIDE DEF U
    <3>2. QED BY <3>1
  <2>3. ASSUME NEW k \in Nat, k \in S PROVE k + 1 \in S
    <3>1. CASE k + 2 \in 1 .. n
      <4>1. Made(f[k + 1], U(k + 1), L) /\ Made(ss[k + 2], X[k + 2], L)
        <5>1. k + 1 \in 1 .. n
          BY <3>1
        <5> HIDE DEF U
        <5>2. QED BY <2>3, <3>1, <5>1
      <4>2. Ordered(U(k + 1), X[k + 2], L)
        <5>1. \A i \in 1 .. k + 1 : Ordered(X[i], X[k + 2], L)
          BY <3>1
        <5>2. QED BY <5>1 DEF Ordered
      <4>3. U(k + 2) = U(k + 1) \cup X[k + 2]
        OBVIOUS
      <4>4. f[k + 2] = f[k + 1] \o ss[k + 2]
        <5>1. k + 2 # 1 /\ (k + 2) - 1 = k + 1
          OBVIOUS
        <5>2. f[k + 2] = f[(k + 2) - 1] \o ss[k + 2]
          BY <2>1, <3>1, <5>1 DEF FlatUpTo
        <5>3. QED BY <5>1, <5>2
      <4> HIDE DEF U
      <4>5. Made(f[k + 2], U(k + 2), L)
        BY <4>1, <4>2, <4>3, <4>4, MadeJoin
      <4>6. QED BY <4>5
    <3>2. CASE k + 2 \notin 1 .. n
      BY <3>2
    <3>3. QED BY <3>1, <3>2
  <2>4. n - 1 \in S
    <3> HIDE DEF S
    <3>1. QED BY <1>2, <2>2, <2>3, SetInduction
  <2>5. (n - 1) + 1 = n /\ n \in 1 .. n
    BY <1>2
  <2>6. Made(f[n], U(n), L)
    <3> HIDE DEF U
    <3>1. QED BY <2>4, <2>5
  <2>7. U(n) = Y
    OBVIOUS
  <2>8. QED BY <2>1, <2>6, <2>7
<1>3. QED BY <1>1, <1>2

\* A loop over the peers from lo to hi, no two iterations of which have the same instruction.
LoopParts(lo, hi, b, X, L) ==
  /\ lo \in Nat /\ hi \in Int /\ lo <= hi + 1
  /\ \A q \in lo .. hi : Made(b[q], X[q], L)
  /\ \A q, r \in lo .. hi : q # r => \A x \in X[q], y \in X[r] : ~ Same(x, y)

LEMMA UpMade ==
  ASSUME NEW L, NEW lo, NEW hi, NEW b, NEW X, LoopParts(lo, hi, b, X, L),
         \A q, r \in lo .. hi : q < r => \A x \in X[q], y \in X[r] : L[x] <= L[y]
  PROVE  Made(Up(lo, hi, b), UNION {X[q] : q \in lo .. hi}, L)
<1> USE DEF LoopParts
<1> DEFINE n == hi + 1 - lo
           ss == [i \in 1 .. n |-> b[lo + i - 1]]
           Y == [i \in 1 .. n |-> X[lo + i - 1]]
<1>1. n \in Nat /\ (\A i \in 1 .. n : lo + i - 1 \in lo .. hi)
  OBVIOUS
<1>2. DOMAIN ss = 1 .. n /\ Len(ss) = n /\ (n = 0 => ss = <<>>)
  BY <1>1
<1>3. \A i \in 1 .. n : Made(ss[i], Y[i], L)
  BY <1>1
<1>4. \A i, j \in 1 .. n : i < j => Ordered(Y[i], Y[j], L)
  <2>1. SUFFICES ASSUME NEW i \in 1 .. n, NEW j \in 1 .. n, i < j PROVE Ordered(Y[i], Y[j], L)
    OBVIOUS
  <2> DEFINE q == lo + i - 1
             r == lo + j - 1
  <2>2. q \in lo .. hi /\ r \in lo .. hi /\ q < r /\ Y[i] = X[q] /\ Y[j] = X[r] /\ q # r
    BY <1>1, <2>1
  <2> HIDE DEF q, r, Y
  <2>3. QED BY <2>2 DEF Ordered
<1> DEFINE U == UNION {Y[i] : i \in 1 .. n}
<1>5. U = UNION {X[q] : q \in lo .. hi}
  <2>1. ASSUME NEW q \in lo .. hi PROVE \E i \in 1 .. n : Y[i] = X[q]
    <3>1. q - lo + 1 \in 1 .. n /\ lo + (q - lo + 1) - 1 = q
      OBVIOUS
    <3>2. Y[q - lo + 1] = X[q]
      BY <3>1
    <3> HIDE DEF n, Y
    <3>3. QED BY <3>1, <3>2
  <2>2. ASSUME NEW i \in 1 .. n PROVE \E q \in lo .. hi : Y[i] = X[q]
    <3>1. Y[i] = X[lo + i - 1] /\ lo + i - 1 \in lo .. hi
      BY <1>1
    <3>2. QED BY <3>1
  <2> HIDE DEF n, Y
  <2>3. QED BY <2>1, <2>2
<1>6. Made(FlattenSeq(ss), U, L)
  <2>1. n \in Nat
    BY <1>1
  <2>2. U = UNION {Y[i] : i \in 1 .. n}
    OBVIOUS
  <2> HIDE DEF n, ss, Y, U
  <2>3. MadeParts(ss, Y, n, U, L)
    BY <2>2, <1>2, <1>3, <1>4 DEF MadeParts
  <2>4. QED BY <2>1, <2>3, MadeLoop
<1>7. QED BY <1>5, <1>6 DEF Up

LEMMA DownMade ==
  ASSUME NEW L, NEW hi, NEW lo, NEW b, NEW X, LoopParts(lo, hi, b, X, L),
         \A q, r \in lo .. hi : q > r => \A x \in X[q], y \in X[r] : L[x] <= L[y]
  PROVE  Made(Down(hi, lo, b), UNION {X[q] : q \in lo .. hi}, L)
<1> USE DEF LoopParts
<1> DEFINE n == hi + 1 - lo
           ss == [i \in 1 .. n |-> b[hi - i + 1]]
           Y == [i \in 1 .. n |-> X[hi - i + 1]]
<1>1. n \in Nat /\ (\A i \in 1 .. n : hi - i + 1 \in lo .. hi)
  OBVIOUS
<1>2. DOMAIN ss = 1 .. n /\ Len(ss) = n /\ (n = 0 => ss = <<>>)
  BY <1>1
<1>3. \A i \in 1 .. n : Made(ss[i], Y[i], L)
  BY <1>1
<1>4. \A i, j \in 1 .. n : i < j => Ordered(Y[i], Y[j], L)
  <2>1. SUFFICES ASSUME NEW i \in 1 .. n, NEW j \in 1 .. n, i < j PROVE Ordered(Y[i], Y[j], L)
    OBVIOUS
  <2> DEFINE q == hi - i + 1
             r == hi - j + 1
  <2>2. q \in lo .. hi /\ r \in lo .. hi /\ q > r /\ Y[i] = X[q] /\ Y[j] = X[r] /\ q # r
    BY <1>1, <2>1
  <2> HIDE DEF q, r, Y
  <2>3. QED BY <2>2 DEF Ordered
<1> DEFINE U == UNION {Y[i] : i \in 1 .. n}
<1>5. U = UNION {X[q] : q \in lo .. hi}
  <2>1. \A q \in lo .. hi : hi - q + 1 \in 1 .. n /\ Y[hi - q + 1] = X[q]
    <3>1. TAKE q \in lo .. hi
    <3>2. hi - q + 1 \in 1 .. n /\ hi - (hi - q + 1) + 1 = q
      OBVIOUS
    <3>3. QED BY <3>2
  <2>2. \A i \in 1 .. n : Y[i] = X[hi - i + 1]
    OBVIOUS
  <2> HIDE DEF n, Y
  <2>3. QED BY <1>1, <2>1, <2>2
<1>6. Made(FlattenSeq(ss), U, L)
  <2>1. n \in Nat
    BY <1>1
  <2>2. U = UNION {Y[i] : i \in 1 .. n}
    OBVIOUS
  <2> HIDE DEF n, ss, Y, U
  <2>3. MadeParts(ss, Y, n, U, L)
    BY <2>2, <1>2, <1>3, <1>4 DEF MadeParts
  <2>4. QED BY <2>1, <2>3, MadeLoop
<1>7. QED BY <1>5, <1>6 DEF Down

-----------------------------------------------------------------------------
\* What the scripts consist of, and by which order.

Ins(d, q) == [do |-> d, peer |-> q]
SendingTo(Q) == {Ins(d, q) : d \in {"send", "flush"}, q \in Q}
Taking(d, Q) == {Ins(d, q) : q \in Q}
Alone(d) == {Ins(d, 0)}

LEMMA InsType ==
  /\ 0 \in Parties /\ 1 \in Parties
  /\ \A q \in Parties, d \in {"send", "flush"} \cup Receiving \cup LocalDo :
       Ins(d, q) \in Instructions /\ Ins(d, q).do = d /\ Ins(d, q).peer = q
  /\ \A x \in Instructions : x = Ins(x.do, x.peer)
  BY NAssumption DEF Ins, Instructions, Parties

LEMMA MadeSend ==
  ASSUME NEW L, NEW q \in Parties, L[Ins("send", q)] <= L[Ins("flush", q)]
  PROVE  Made(Send(q), SendingTo({q}), L)
<1> DEFINE x == Ins("send", q)
           y == Ins("flush", q)
<1>1. x \in Instructions /\ y \in Instructions /\ ~ Same(x, y) /\ L[x] <= L[y]
  BY InsType DEF Same, Receiving
<1>2. Send(q) = <<x, y>> /\ SendingTo({q}) = {x, y}
  BY DEF Send, Ins, SendingTo
<1> HIDE DEF x, y
<1>3. Made(<<x, y>>, {x, y}, L)
  BY <1>1 DEF Made
<1>4. QED BY <1>2, <1>3

LEMMA MadeReceive ==
  ASSUME NEW L, NEW q \in Parties, NEW d \in Receiving
  PROVE  Made(Receive(q, d), Taking(d, {q}), L)
<1>1. Made(<<Ins(d, q)>>, {Ins(d, q)}, L)
  BY InsType, MadeOne
<1>2. <<Ins(d, q)>> = Receive(q, d) /\ {Ins(d, q)} = Taking(d, {q})
  BY DEF Receive, Ins, Taking
<1>3. QED BY <1>1, <1>2

LEMMA MadeLocal ==
  ASSUME NEW L, NEW d \in LocalDo
  PROVE  Made(Local(d), Alone(d), L)
<1>1. Made(<<Ins(d, 0)>>, {Ins(d, 0)}, L)
  BY InsType, MadeOne
<1>2. <<Ins(d, 0)>> = Local(d) /\ {Ins(d, 0)} = Alone(d)
  BY DEF Local, Ins, Alone
<1>3. QED BY <1>1, <1>2

LEMMA MadeWhen ==
  ASSUME NEW L, NEW b \in BOOLEAN, NEW s, NEW X, b => Made(s, X, L)
  PROVE  Made(When(b, s), IF b THEN X ELSE {}, L)
  BY MadeEmpty DEF When

\* Loops that only send and loops that only receive, all at one level.
Level(L, X, n) == \A x \in X : L[x] = n

LEMMA SendingEach ==
  ASSUME NEW Q, NEW X, \A q \in Q : X[q] = SendingTo({q})
  PROVE  UNION {X[q] : q \in Q} = SendingTo(Q)
<1>1. ASSUME NEW q \in Q, NEW x \in X[q] PROVE x \in SendingTo(Q)
  BY <1>1 DEF SendingTo
<1>2. ASSUME NEW x \in SendingTo(Q) PROVE \E q \in Q : x \in X[q]
  <2>1. PICK d \in {"send", "flush"}, q \in Q : x = Ins(d, q)
    BY DEF SendingTo
  <2>2. x \in X[q]
    BY <2>1 DEF SendingTo
  <2>3. QED BY <2>2
<1>3. QED BY <1>1, <1>2

AllTaking(X, Q, d) == \A q \in Q : X[q] = Taking(d, {q})

LEMMA TakingEach ==
  ASSUME NEW Q, NEW d, NEW X, AllTaking(X, Q, d)
  PROVE  UNION {X[q] : q \in Q} = Taking(d, Q)
<1> USE DEF AllTaking
<1>1. ASSUME NEW q \in Q, NEW x \in X[q] PROVE x \in Taking(d, Q)
  BY <1>1 DEF Taking
<1>2. ASSUME NEW x \in Taking(d, Q) PROVE \E q \in Q : x \in X[q]
  <2>1. PICK q \in Q : x = Ins(d, q)
    BY DEF Taking
  <2>2. x \in X[q]
    BY <2>1 DEF Taking
  <2>3. QED BY <2>2
<1>3. QED BY <1>1, <1>2

LEMMA MadeSends ==
  ASSUME NEW L, NEW n \in Nat, NEW lo \in Nat, NEW hi \in Int, lo <= hi + 1, lo .. hi \subseteq Parties,
         Level(L, SendingTo(lo .. hi), n)
  PROVE  Made(Up(lo, hi, SendToEach), SendingTo(lo .. hi), L)
<1> DEFINE X == [q \in Parties |-> SendingTo({q})]
<1>1. \A q \in lo .. hi : \A x \in X[q] : x.peer = q /\ L[x] = n
  BY DEF Level, SendingTo, Ins
<1>2. \A q \in lo .. hi : Made(SendToEach[q], X[q], L)
  <2>1. SUFFICES ASSUME NEW q \in lo .. hi PROVE Made(Send(q), SendingTo({q}), L)
    BY DEF SendToEach
  <2>2. L[Ins("send", q)] = n /\ L[Ins("flush", q)] = n
    BY DEF Level, SendingTo
  <2>3. QED BY <2>2, MadeSend
<1>3. UNION {X[q] : q \in lo .. hi} = SendingTo(lo .. hi)
  BY SendingEach
<1> HIDE DEF X
<1>4. \A q, r \in lo .. hi : q < r => \A x \in X[q], y \in X[r] : L[x] <= L[y]
  BY <1>1
<1>5. Made(Up(lo, hi, SendToEach), UNION {X[q] : q \in lo .. hi}, L)
  <2>1. LoopParts(lo, hi, SendToEach, X, L)
    BY <1>1, <1>2 DEF LoopParts, Same
  <2>2. QED BY <1>4, <2>1, UpMade
<1>6. QED BY <1>3, <1>5

LEMMA MadeReceives ==
  ASSUME NEW L, NEW n \in Nat, NEW lo \in Nat, NEW hi \in Int, lo <= hi + 1, lo .. hi \subseteq Parties,
         NEW d \in Receiving, Level(L, Taking(d, lo .. hi), n)
  PROVE  Made(Up(lo, hi, ReceiveFromEach(d)), Taking(d, lo .. hi), L)
<1> DEFINE X == [q \in Parties |-> Taking(d, {q})]
<1>1. \A q \in lo .. hi : \A x \in X[q] : x.peer = q /\ L[x] = n
  BY DEF Level, Taking, Ins
<1>2. \A q \in lo .. hi : Made(ReceiveFromEach(d)[q], X[q], L)
  BY MadeReceive DEF ReceiveFromEach
<1>3. UNION {X[q] : q \in lo .. hi} = Taking(d, lo .. hi)
  BY TakingEach DEF AllTaking
<1> HIDE DEF X
<1>4. \A q, r \in lo .. hi : q < r => \A x \in X[q], y \in X[r] : L[x] <= L[y]
  BY <1>1
<1>5. Made(Up(lo, hi, ReceiveFromEach(d)), UNION {X[q] : q \in lo .. hi}, L)
  <2>1. LoopParts(lo, hi, ReceiveFromEach(d), X, L)
    BY <1>1, <1>2 DEF LoopParts, Same
  <2>2. QED BY <1>4, <2>1, UpMade
<1>6. QED BY <1>3, <1>5

\* Membership, by what an instruction does and with whom.
LEMMA Belongs ==
  ASSUME NEW x \in Instructions
  PROVE  /\ \A Q : x \in SendingTo(Q) <=> x.do \in {"send", "flush"} /\ x.peer \in Q
         /\ \A Q, d : x \in Taking(d, Q) <=> x.do = d /\ x.peer \in Q
         /\ \A d : x \in Alone(d) <=> x.do = d /\ x.peer = 0
<1>1. x = Ins(x.do, x.peer)
  BY InsType
<1>2. \A d, q : Ins(d, q).do = d /\ Ins(d, q).peer = q
  BY DEF Ins
<1>3. QED BY <1>1, <1>2 DEF SendingTo, Taking, Alone

LEMMA ContentType ==
  /\ \A Q \in SUBSET Parties : SendingTo(Q) \subseteq Instructions
  /\ \A Q \in SUBSET Parties, d \in Receiving : Taking(d, Q) \subseteq Instructions
  /\ \A d \in LocalDo : Alone(d) \subseteq Instructions
<1>1. ASSUME NEW Q \in SUBSET Parties, NEW x \in SendingTo(Q) PROVE x \in Instructions
  BY <1>1, InsType DEF SendingTo
<1>2. ASSUME NEW Q \in SUBSET Parties, NEW d \in Receiving, NEW x \in Taking(d, Q)
      PROVE  x \in Instructions
  <2>1. PICK q \in Q : x = Ins(d, q)
    BY <1>2 DEF Taking
  <2>2. QED BY <2>1, InsType
<1>3. ASSUME NEW d \in LocalDo PROVE Alone(d) \subseteq Instructions
  <2>1. Ins(d, 0) \in Instructions
    BY InsType
  <2>2. QED BY <2>1 DEF Alone
<1>4. QED BY <1>1, <1>2, <1>3

\* What each collective consists of at party p.
OfReveal(p) ==
  CASE p = 0 -> {}
    [] p = 1 -> Taking("add", 2 .. N - 1) \cup SendingTo(2 .. N - 1)
    [] OTHER -> SendingTo({1}) \cup Taking("take", {1})

OfRevealToAll(p) ==
  OfReveal(p) \cup (IF p = 1 THEN SendingTo({0}) ELSE {}) \cup (IF p = 0 THEN Taking("take", {1}) ELSE {})

OfRevealAt(p, target) ==
  IF p = target THEN Taking("add", Computing \ {p}) ELSE SendingTo({target})

OfBroadcast(p, source) ==
  CASE p = 0 -> Alone("clear")
    [] p = source -> SendingTo(Computing \ {source})
    [] OTHER -> Taking("take", {source})

OfCollect(p, dealer, excluded) ==
  LET M == IF dealer THEN Parties ELSE Computing IN
  IF p = 0 /\ ~ dealer THEN {}
  ELSE Taking("append", (M \ excluded) \ {p})
         \cup (IF p \notin excluded THEN SendingTo(M \ {p}) \cup Alone("keep") ELSE {})

OfCollectAt(p, target) ==
  CASE p = 0 -> {}
    [] p = target -> Taking("append", Computing \ {p}) \cup Alone("keep")
    [] OTHER -> SendingTo({target})

OfIsBroadcast(p) == OfCollectAt(p, 1) \cup Alone("reduce") \cup OfBroadcast(p, 1)

OfSyncLite(p) ==
  Alone("clear") \cup
  IF p = 0
  THEN Taking("check", Computing) \cup SendingTo(Computing)
  ELSE SendingTo({0}) \cup Taking("check", {0})

OfSyncFull(p) == Alone("clear") \cup Taking("check", Parties \ {p}) \cup SendingTo(Parties \ {p})

OfSequential(p) ==
  (IF p > 0 THEN Taking("take", {p - 1}) ELSE {}) \cup Alone("func")
    \cup (IF p < N - 1 THEN SendingTo({p + 1}) ELSE {})

\* The orders: the iterations of a loop over the peers, the stages of a script.
ByPeer(p) == [x \in Instructions |-> IF x.do = "keep" THEN p ELSE x.peer]

RevealOrder ==
  [x \in Instructions |->
    CASE x.do \in {"send", "flush"} -> 1 [] x.do = "take" -> 2 [] OTHER -> 0]

IsBroadcastOrder(p) ==
  [x \in Instructions |->
    CASE x.do = "append" -> x.peer
      [] x.do = "keep" -> p
      [] x.do = "reduce" -> N
      [] x.do \in {"take", "clear"} \/ (p = 1 /\ x.do \in {"send", "flush"}) -> N + 1
      [] OTHER -> 0]

LiteOrder(p) ==
  [x \in Instructions |->
    CASE x.do = "clear" -> 0
      [] x.do = "check" -> IF p = 0 THEN 1 ELSE 2
      [] OTHER -> IF p = 0 THEN 2 ELSE 1]

FullOrder == [x \in Instructions |-> IF x.do = "clear" THEN 0 ELSE 1]

SequentialOrder ==
  [x \in Instructions |-> CASE x.do = "take" -> 0 [] x.do = "func" -> 1 [] OTHER -> 2]

LEMMA OrderTypes ==
  /\ RevealOrder \in [Instructions -> Int] /\ FullOrder \in [Instructions -> Int]
  /\ SequentialOrder \in [Instructions -> Int]
  /\ \A p \in Parties : /\ ByPeer(p) \in [Instructions -> Int]
                        /\ IsBroadcastOrder(p) \in [Instructions -> Int]
                        /\ LiteOrder(p) \in [Instructions -> Int]
<1>1. /\ \A x \in Instructions : x.peer \in Int
      /\ N \in Int /\ Parties \subseteq Int
  BY NAssumption DEF Instructions, Parties
<1>2. QED
  BY <1>1 DEF RevealOrder, FullOrder, SequentialOrder, ByPeer, IsBroadcastOrder, LiteOrder

LEMMA RevealMade ==
  ASSUME NEW p \in Parties
  PROVE  Made(Reveal(p), OfReveal(p), RevealOrder)
<1> DEFINE L == RevealOrder
           Q == 2 .. N - 1
<1>1. \A x \in Instructions :
        /\ x.do \in {"send", "flush"} => L[x] = 1
        /\ x.do = "take" => L[x] = 2
        /\ x.do = "add" => L[x] = 0
  BY DEF RevealOrder
<1>2. Q \subseteq Parties /\ 2 <= (N - 1) + 1 /\ N - 1 \in Int /\ 2 \in Nat
  BY NAssumption DEF Parties
<1>3. 1 \in Parties /\ {1} \subseteq Parties
  BY InsType
<1> HIDE DEF L
<1>4. CASE p = 0
  BY <1>4, MadeEmpty DEF Reveal, OfReveal
<1>5. CASE p = 1
  <2>1. Taking("add", Q) \subseteq Instructions /\ SendingTo(Q) \subseteq Instructions
    BY <1>2, ContentType DEF Receiving
  <2>2. Level(L, Taking("add", Q), 0) /\ Level(L, SendingTo(Q), 1)
    BY <2>1, <1>1, Belongs DEF Level
  <2>3. Made(Up(2, N - 1, ReceiveFromEach("add")), Taking("add", Q), L)
    BY <1>2, <2>2, MadeReceives DEF Receiving
  <2>4. Made(Up(2, N - 1, SendToEach), SendingTo(Q), L)
    BY <1>2, <2>2, MadeSends
  <2>5. Ordered(Taking("add", Q), SendingTo(Q), L)
    BY <2>1, <2>2, Belongs DEF Ordered, Level, Same, Receiving
  <2>6. QED
    BY <1>5, <2>3, <2>4, <2>5, MadeJoin DEF Reveal, OfReveal, L
<1>6. CASE p # 0 /\ p # 1
  <2>1. Made(Send(1), SendingTo({1}), L)
    BY <1>1, <1>3, InsType, MadeSend
  <2>2. Made(Receive(1, "take"), Taking("take", {1}), L)
    BY <1>3, MadeReceive DEF Receiving
  <2>3. Ordered(SendingTo({1}), Taking("take", {1}), L)
    <3>1. SendingTo({1}) \subseteq Instructions /\ Taking("take", {1}) \subseteq Instructions
      BY <1>3, ContentType DEF Receiving
    <3>2. QED BY <1>1, <3>1, Belongs DEF Ordered, Same, Receiving
  <2>4. QED
    BY <1>6, <2>1, <2>2, <2>3, MadeJoin DEF Reveal, OfReveal, L
<1>7. QED BY <1>4, <1>5, <1>6

LEMMA RevealToAllMade ==
  ASSUME NEW p \in Parties
  PROVE  Made(RevealToAll(p), OfRevealToAll(p), RevealOrder)
<1> DEFINE L == RevealOrder
           X == OfReveal(p)
           Y == IF p = 1 THEN SendingTo({0}) ELSE {}
           Z == IF p = 0 THEN Taking("take", {1}) ELSE {}
<1>1. \A x \in Instructions :
        /\ x.do \in {"send", "flush"} => L[x] = 1
        /\ x.do = "take" => L[x] = 2
        /\ x.do = "add" => L[x] = 0
  BY DEF RevealOrder
<1>2. /\ {0} \subseteq Parties /\ {1} \subseteq Parties /\ 0 \in Parties /\ 1 \in Parties
      /\ 2 .. N - 1 \subseteq Parties
  BY InsType, NAssumption DEF Parties
<1>3. /\ SendingTo({0}) \subseteq Instructions /\ SendingTo({1}) \subseteq Instructions
      /\ Taking("take", {1}) \subseteq Instructions
      /\ SendingTo(2 .. N - 1) \subseteq Instructions /\ Taking("add", 2 .. N - 1) \subseteq Instructions
  BY <1>2, ContentType DEF Receiving
<1> HIDE DEF L
<1>4. Made(Reveal(p), X, L)
  BY RevealMade DEF L
<1>5. Made(When(p = 1, Send(0)), Y, L)
  <2>1. Made(Send(0), SendingTo({0}), L)
    BY <1>1, <1>2, InsType, MadeSend
  <2>2. QED BY <2>1, MadeWhen
<1>6. Made(When(p = 0, Receive(1, "take")), Z, L)
  <2>1. Made(Receive(1, "take"), Taking("take", {1}), L)
    BY <1>2, MadeReceive DEF Receiving
  <2>2. QED BY <2>1, MadeWhen
<1>7. Ordered(X, Y, L)
  <2>1. SUFFICES ASSUME p = 1, NEW x \in X, NEW y \in SendingTo({0}) PROVE ~ Same(x, y) /\ L[x] <= L[y]
    BY DEF Ordered
  <2>2. x \in Taking("add", 2 .. N - 1) \/ x \in SendingTo(2 .. N - 1)
    BY <2>1 DEF OfReveal
  <2>3. y \in Instructions /\ y.do \in {"send", "flush"} /\ y.peer = 0
    BY <2>1, <1>3, Belongs
  <2>4. x \in Instructions
    BY <2>2, <1>3
  <2>5. x.do \in {"add", "send", "flush"} /\ x.peer # 0
    <3> DEFINE Q == 2 .. N - 1
    <3>1. 0 \notin Q
      OBVIOUS
    <3> HIDE DEF Q
    <3>2. x \in Taking("add", Q) \/ x \in SendingTo(Q)
      BY <2>2 DEF Q
    <3>3. QED BY <2>4, <3>1, <3>2, Belongs
  <2>6. QED BY <1>1, <2>3, <2>4, <2>5 DEF Same, Receiving
<1>8. Ordered(X \cup Y, Z, L)
  BY DEF Ordered, OfReveal
<1>9. Made(Reveal(p) \o When(p = 1, Send(0)), X \cup Y, L)
  <2> HIDE DEF X, Y
  <2>1. QED BY <1>4, <1>5, <1>7, MadeJoin
<1>10. Made((Reveal(p) \o When(p = 1, Send(0))) \o When(p = 0, Receive(1, "take")), (X \cup Y) \cup Z, L)
  <2> HIDE DEF X, Y, Z
  <2>1. QED BY <1>6, <1>8, <1>9, MadeJoin
<1>11. QED BY <1>10 DEF RevealToAll, OfRevealToAll, L

\* A loop body that takes from a peer in A and sends to a peer in G.
Exchange(q, d, A, G) == Taking(d, {q} \cap A) \cup SendingTo({q} \cap G)

LEMMA EmptySets == SendingTo({}) = {} /\ \A d : Taking(d, {}) = {}
  BY DEF SendingTo, Taking

LEMMA ExchangeMade ==
  ASSUME NEW L, NEW q \in Parties, NEW d \in Receiving, NEW A, NEW G,
         NEW n \in Int, Level(L, Taking(d, {q}) \cup SendingTo({q}), n)
  PROVE  LET T == When(q \in A, Receive(q, d))
             S == When(q \in G, Send(q))
         IN  Made(T \o S, Exchange(q, d, A, G), L) /\ Made(S \o T, Exchange(q, d, A, G), L)
<1> DEFINE T == When(q \in A, Receive(q, d))
           S == When(q \in G, Send(q))
           X == Taking(d, {q} \cap A)
           Y == SendingTo({q} \cap G)
<1>1. Made(T, X, L)
  <2>1. CASE q \in A
    <3>1. {q} \cap A = {q} /\ T = Receive(q, d)
      BY <2>1 DEF When
    <3>2. Made(Receive(q, d), Taking(d, {q}), L)
      BY MadeReceive
    <3>3. QED BY <3>1, <3>2
  <2>2. CASE q \notin A
    <3>1. {q} \cap A = {} /\ T = <<>>
      BY <2>2 DEF When
    <3>2. QED BY <3>1, EmptySets, MadeEmpty
  <2>3. QED BY <2>1, <2>2
<1>2. Made(S, Y, L)
  <2>1. CASE q \in G
    <3>1. {q} \cap G = {q} /\ S = Send(q)
      BY <2>1 DEF When
    <3>2. Ins("send", q) \in SendingTo({q}) /\ Ins("flush", q) \in SendingTo({q})
      BY DEF SendingTo
    <3>3. L[Ins("send", q)] <= L[Ins("flush", q)]
      BY <3>2 DEF Level
    <3>4. Made(Send(q), SendingTo({q}), L)
      BY <3>3, MadeSend
    <3>5. QED BY <3>1, <3>4
  <2>2. CASE q \notin G
    <3>1. {q} \cap G = {} /\ S = <<>>
      BY <2>2 DEF When
    <3>2. QED BY <3>1, EmptySets, MadeEmpty
  <2>3. QED BY <2>1, <2>2
<1>3. Ordered(X, Y, L) /\ Ordered(Y, X, L)
  <2>1. {q} \in SUBSET Parties
    OBVIOUS
  <2>2. X \subseteq Taking(d, {q}) /\ Y \subseteq SendingTo({q})
    BY DEF Taking, SendingTo
  <2>3. SUFFICES ASSUME NEW x \in Taking(d, {q}), NEW y \in SendingTo({q})
                 PROVE  ~ Same(x, y) /\ ~ Same(y, x) /\ L[x] <= L[y] /\ L[y] <= L[x]
    BY <2>2 DEF Ordered
  <2>4. L[x] = n /\ L[y] = n
    BY DEF Level
  <2>5. x \in Instructions /\ y \in Instructions /\ x.do = d /\ y.do \in {"send", "flush"}
    BY <2>1, ContentType, Belongs
  <2>6. QED BY <2>4, <2>5 DEF Same, Receiving
<1> HIDE DEF T, S, X, Y
<1>4. Made(T \o S, X \cup Y, L)
  BY <1>1, <1>2, <1>3, MadeJoin
<1>5. Made(S \o T, Y \cup X, L)
  BY <1>1, <1>2, <1>3, MadeJoin
<1>6. X \cup Y = Exchange(q, d, A, G) /\ Y \cup X = X \cup Y
  BY DEF X, Y, Exchange
<1>7. QED BY <1>4, <1>5, <1>6 DEF T, S

AllExchanges(X, Q, d, A, G) == \A q \in Q : X[q] = Exchange(q, d, A, G)

LEMMA ExchangeEach ==
  ASSUME NEW Q, NEW A, NEW d, NEW G, NEW X, AllExchanges(X, Q, d, A, G)
  PROVE  UNION {X[q] : q \in Q} = Taking(d, Q \cap A) \cup SendingTo(Q \cap G)
<1> USE DEF AllExchanges
<1>1. ASSUME NEW q \in Q, NEW x \in X[q]
      PROVE  x \in Taking(d, Q \cap A) \cup SendingTo(Q \cap G)
  BY <1>1 DEF Exchange, Taking, SendingTo
<1>2. ASSUME NEW x \in Taking(d, Q \cap A) PROVE \E q \in Q : x \in X[q]
  <2>1. PICK q \in Q \cap A : x = Ins(d, q)
    BY <1>2 DEF Taking
  <2>2. x \in Taking(d, {q} \cap A)
    BY <2>1 DEF Taking
  <2>3. QED BY <2>1, <2>2 DEF Exchange
<1>3. ASSUME NEW x \in SendingTo(Q \cap G) PROVE \E q \in Q : x \in X[q]
  <2>1. PICK e \in {"send", "flush"}, q \in Q \cap G : x = Ins(e, q)
    BY <1>3 DEF SendingTo
  <2>2. x \in SendingTo({q} \cap G)
    BY <2>1 DEF SendingTo
  <2>3. QED BY <2>1, <2>2 DEF Exchange
<1>4. QED BY <1>1, <1>2, <1>3

LEMMA RevealAtMade ==
  ASSUME NEW p \in Parties
  PROVE  Made(RevealAt(p, 0), OfRevealAt(p, 0), ByPeer(p))
<1> DEFINE L == ByPeer(p)
<1>1. \A x \in Instructions : x.do \in {"send", "flush", "add"} => L[x] = x.peer
  BY DEF ByPeer
<1>2. 0 \in Parties /\ 1 <= (N - 1) + 1 /\ N - 1 \in Int /\ 1 .. N - 1 \subseteq Parties
  BY NAssumption, InsType DEF Parties
<1> HIDE DEF L
<1>3. CASE p = 0
  <2> DEFINE b == [q \in Parties |-> When(q # p, Receive(q, "add"))]
             X == [q \in Parties |-> Taking("add", {q})]
  <2>1. \A q \in 1 .. N - 1 : Made(b[q], X[q], L)
    <3>1. SUFFICES ASSUME NEW q \in 1 .. N - 1
                   PROVE  Made(When(q # p, Receive(q, "add")), Taking("add", {q}), L)
      BY <1>2
    <3>2. q \in Parties /\ (q # p) = TRUE
      BY <1>2, <1>3
    <3>3. QED BY <3>2, MadeReceive DEF When, Receiving
  <2>2. \A q \in 1 .. N - 1 : \A x \in X[q] : x.peer = q /\ L[x] = q
    <3>1. SUFFICES ASSUME NEW q \in 1 .. N - 1, NEW x \in Taking("add", {q})
                   PROVE  x.peer = q /\ L[x] = q
      BY <1>2
    <3>2. {q} \in SUBSET Parties /\ "add" \in Receiving
      BY <1>2 DEF Receiving
    <3>3. x \in Instructions
      BY <3>1, <3>2, ContentType
    <3>4. x.do = "add" /\ x.peer = q
      BY <3>1, <3>3, Belongs
    <3>5. QED BY <1>1, <3>3, <3>4
  <2>3. UNION {X[q] : q \in 1 .. N - 1} = Taking("add", 1 .. N - 1)
    <3>1. \A q \in 1 .. N - 1 : X[q] = Taking("add", {q})
      BY <1>2
    <3> DEFINE Q == 1 .. N - 1
    <3> HIDE DEF X, Q
    <3>2. \A q \in Q : X[q] = Taking("add", {q})
      BY <3>1 DEF Q
    <3>3. UNION {X[q] : q \in Q} = Taking("add", Q)
      BY <3>2, TakingEach DEF AllTaking
    <3>4. QED BY <3>3 DEF Q
  <2> HIDE DEF b, X
  <2>4. \A q, r \in 1 .. N - 1 : q < r => \A x \in X[q], y \in X[r] : L[x] <= L[y]
    BY <2>2
  <2>5. Made(Up(1, N - 1, b), UNION {X[q] : q \in 1 .. N - 1}, L)
    BY <1>2, <2>1, <2>2, <2>4, UpMade DEF LoopParts, Same
  <2>6. RevealAt(p, 0) = Up(1, N - 1, b)
    BY <1>3 DEF RevealAt, b
  <2>7. (1 .. N - 1) \ {0} = 1 .. N - 1
    OBVIOUS
  <2>8. OfRevealAt(p, 0) = Taking("add", 1 .. N - 1)
    BY <1>3, <2>7 DEF OfRevealAt, Computing
  <2>9. QED BY <2>3, <2>5, <2>6, <2>8 DEF L
<1>4. CASE p # 0
  <2>1. Made(Send(0), SendingTo({0}), L)
    BY <1>1, <1>2, InsType, MadeSend
  <2>2. QED BY <1>4, <2>1 DEF RevealAt, OfRevealAt, L
<1>5. QED BY <1>3, <1>4

LEMMA BroadcastMade ==
  ASSUME NEW p \in Parties, NEW source \in Computing, NEW L, NEW n \in Int,
         Level(L, SendingTo(Computing), n) \/ L = ByPeer(p)
  PROVE  Made(Broadcast(p, source), OfBroadcast(p, source), L)
<1>1. 0 \in Parties /\ 1 <= (N - 1) + 1 /\ N - 1 \in Int /\ 1 .. N - 1 \subseteq Parties /\ source # 0
  BY NAssumption, InsType DEF Parties, Computing
<1>2. CASE p = 0
  <2>1. Made(Local("clear"), Alone("clear"), L)
    BY MadeLocal DEF LocalDo
  <2>2. Broadcast(p, source) = Local("clear") /\ OfBroadcast(p, source) = Alone("clear")
    BY <1>1, <1>2 DEF Broadcast, OfBroadcast
  <2>3. QED BY <2>1, <2>2
<1>3. CASE p = source
  <2> DEFINE b == [q \in Parties |-> When(q # source, Send(q))]
             C == Computing \ {source}
             Y == [q \in Parties |-> IF q # source THEN SendingTo({q}) ELSE {}]
  <2>1. \A q \in 1 .. N - 1 : \A x \in Y[q] : x \in SendingTo(Computing) /\ x.peer = q /\ x.do \in {"send", "flush"} /\ x \in Instructions
    <3>1. SUFFICES ASSUME NEW q \in 1 .. N - 1, NEW x \in SendingTo({q})
                   PROVE  x \in SendingTo(Computing) /\ x.peer = q /\ x.do \in {"send", "flush"} /\ x \in Instructions
      BY <1>1
    <3>2. {q} \in SUBSET Parties
      BY <1>1
    <3>3. x \in Instructions
      BY <3>1, <3>2, ContentType
    <3>4. x.do \in {"send", "flush"} /\ x.peer = q
      BY <3>1, <3>3, Belongs
    <3>5. q \in Computing
      BY DEF Computing
    <3>6. x \in SendingTo(Computing)
      BY <3>3, <3>4, <3>5, Belongs
    <3>7. QED BY <3>3, <3>4, <3>6
  <2>2. \A q, r \in 1 .. N - 1 : q < r => \A x \in Y[q], y \in Y[r] : L[x] <= L[y]
    <3> HIDE DEF Y
    <3>1. CASE Level(L, SendingTo(Computing), n)
      BY <2>1, <3>1 DEF Level
    <3>2. CASE L = ByPeer(p)
      BY <2>1, <3>2 DEF ByPeer
    <3>3. QED BY <3>1, <3>2
  <2>3. \A q \in 1 .. N - 1 : Made(b[q], Y[q], L)
    <3>1. SUFFICES ASSUME NEW q \in 1 .. N - 1
                   PROVE  Made(When(q # source, Send(q)), IF q # source THEN SendingTo({q}) ELSE {}, L)
      BY <1>1
    <3>2. q \in Parties /\ (q # source) \in BOOLEAN
      BY <1>1
    <3>3. ASSUME q # source PROVE Made(Send(q), SendingTo({q}), L)
      <4>1. Ins("send", q) \in SendingTo({q}) /\ Ins("flush", q) \in SendingTo({q})
        BY DEF SendingTo
      <4>2. Y[q] = SendingTo({q})
        BY <3>2, <3>3
      <4> HIDE DEF Y
      <4>3. L[Ins("send", q)] <= L[Ins("flush", q)]
        <5>1. CASE Level(L, SendingTo(Computing), n)
          BY <2>1, <4>1, <4>2, <5>1 DEF Level
        <5>2. CASE L = ByPeer(p)
          BY <2>1, <4>1, <4>2, <5>2 DEF ByPeer
        <5>3. QED BY <5>1, <5>2
      <4>4. QED BY <3>2, <4>3, MadeSend
    <3>4. QED BY <3>2, <3>3, MadeWhen
  <2>4. UNION {Y[q] : q \in 1 .. N - 1} = SendingTo(C)
    <3>1. \A q \in C : Y[q] = SendingTo({q})
      BY <1>1 DEF Computing
    <3>2. UNION {Y[q] : q \in C} = SendingTo(C)
      <4> HIDE DEF Y, C
      <4>1. QED BY <3>1, SendingEach
    <3>3. \A q \in 1 .. N - 1 : q \in C \/ Y[q] = {}
      BY <1>1 DEF Computing
    <3>4. C \subseteq 1 .. N - 1
      BY DEF Computing
    <3> HIDE DEF Y, C
    <3>5. QED BY <3>2, <3>3, <3>4
  <2> HIDE DEF b, Y, C
  <2>5. Made(Up(1, N - 1, b), UNION {Y[q] : q \in 1 .. N - 1}, L)
    BY <1>1, <2>1, <2>2, <2>3, UpMade DEF LoopParts, Same
  <2>6. Broadcast(p, source) = Up(1, N - 1, b) /\ OfBroadcast(p, source) = SendingTo(C)
    BY <1>1, <1>3 DEF Broadcast, b, OfBroadcast, C
  <2>7. QED BY <2>4, <2>5, <2>6
<1>4. CASE p # 0 /\ p # source
  <2>1. source \in Parties
    BY <1>1 DEF Computing
  <2>2. Made(Receive(source, "take"), Taking("take", {source}), L)
    BY <2>1, MadeReceive DEF Receiving
  <2>3. QED BY <1>4, <2>2 DEF Broadcast, OfBroadcast
<1>5. QED BY <1>2, <1>3, <1>4

\* Loops of such bodies, the exchange with q being at level K[q].
Exchanges(lo, hi, b, d, A, G, K, L) ==
  /\ lo \in Nat /\ hi \in Int /\ lo <= hi + 1 /\ lo .. hi \subseteq Parties
  /\ d \in Receiving /\ K \in [Parties -> Int]
  /\ \A q \in lo .. hi :
       LET T == When(q \in A, Receive(q, d))
           S == When(q \in G, Send(q))
       IN  b[q] = T \o S \/ b[q] = S \o T
  /\ \A q \in Parties : Level(L, Taking(d, {q}) \cup SendingTo({q}), K[q])

LEMMA ExchangesMade ==
  ASSUME NEW L, NEW lo, NEW hi, NEW b, NEW d, NEW A, NEW G, NEW K,
         Exchanges(lo, hi, b, d, A, G, K, L)
  PROVE  LET X == Taking(d, (lo .. hi) \cap A) \cup SendingTo((lo .. hi) \cap G) IN
         /\ (\A q, r \in lo .. hi : q < r => K[q] <= K[r]) => Made(Up(lo, hi, b), X, L)
         /\ (\A q, r \in lo .. hi : q > r => K[q] <= K[r]) => Made(Down(hi, lo, b), X, L)
<1> DEFINE X == [q \in Parties |-> Exchange(q, d, A, G)]
           Q == lo .. hi
<1>1. /\ Q \subseteq Parties /\ d \in Receiving
      /\ \A q \in Q : K[q] \in Int
  BY DEF Exchanges
<1>2. \A q \in Q : Made(b[q], X[q], L)
  <2>1. SUFFICES ASSUME NEW q \in Q PROVE Made(b[q], Exchange(q, d, A, G), L)
    BY <1>1
  <2> DEFINE T == When(q \in A, Receive(q, d))
             S == When(q \in G, Send(q))
  <2>2. b[q] = T \o S \/ b[q] = S \o T
    BY DEF Exchanges
  <2>3. q \in Parties /\ Level(L, Taking(d, {q}) \cup SendingTo({q}), K[q]) /\ K[q] \in Int
    BY <1>1 DEF Exchanges
  <2>4. Made(T \o S, Exchange(q, d, A, G), L) /\ Made(S \o T, Exchange(q, d, A, G), L)
    BY <1>1, <2>3, ExchangeMade
  <2> HIDE DEF T, S
  <2>5. QED BY <2>2, <2>4
<1>3. \A q \in Q : \A x \in X[q] : x.peer = q /\ L[x] = K[q]
  <2>1. SUFFICES ASSUME NEW q \in Q, NEW x \in Exchange(q, d, A, G)
                 PROVE  x.peer = q /\ L[x] = K[q]
    BY <1>1
  <2>2. x \in Taking(d, {q}) \cup SendingTo({q}) /\ q \in Parties
    BY <1>1, <2>1 DEF Exchange, Taking, SendingTo
  <2>3. L[x] = K[q]
    BY <2>2 DEF Exchanges, Level
  <2>4. x.peer = q
    BY <2>2 DEF SendingTo, Taking, Ins
  <2>5. QED BY <2>3, <2>4
<1>4. UNION {X[q] : q \in Q} = Taking(d, Q \cap A) \cup SendingTo(Q \cap G)
  <2>1. \A q \in Q : X[q] = Exchange(q, d, A, G)
    BY <1>1
  <2> HIDE DEF X, Q
  <2>2. \A q \in Q : X[q] = Exchange(q, d, A, G)
    BY <2>1 DEF Q
  <2>3. UNION {X[q] : q \in Q} = Taking(d, Q \cap A) \cup SendingTo(Q \cap G)
    <3>1. AllExchanges(X, Q, d, A, G)
      BY <2>2 DEF AllExchanges
    <3>2. QED BY <3>1, ExchangeEach
  <2>4. QED BY <2>3 DEF Q
<1>5. LoopParts(lo, hi, b, X, L)
  <2> HIDE DEF X
  <2>1. QED BY <1>2, <1>3 DEF LoopParts, Exchanges, Same
<1> HIDE DEF X
<1>6. ASSUME \A q, r \in lo .. hi : q < r => K[q] <= K[r]
      PROVE  Made(Up(lo, hi, b), UNION {X[q] : q \in Q}, L)
  <2>1. \A q, r \in lo .. hi : q < r => \A x \in X[q], y \in X[r] : L[x] <= L[y]
    BY <1>3, <1>6
  <2>2. QED BY <1>5, <2>1, UpMade
<1>7. ASSUME \A q, r \in lo .. hi : q > r => K[q] <= K[r]
      PROVE  Made(Down(hi, lo, b), UNION {X[q] : q \in Q}, L)
  <2>1. \A q, r \in lo .. hi : q > r => \A x \in X[q], y \in X[r] : L[x] <= L[y]
    BY <1>3, <1>7
  <2>2. QED BY <1>5, <2>1, DownMade
<1>8. QED BY <1>4, <1>6, <1>7

LEMMA CollectMade ==
  ASSUME NEW p \in Parties, NEW dealer \in BOOLEAN, NEW excluded
  PROVE  Made(Collect(p, dealer, excluded), OfCollect(p, dealer, excluded), ByPeer(p))
<1> DEFINE L == ByPeer(p)
           gives == p \notin excluded
           Take(q) == When(q \notin excluded, Receive(q, "append"))
           lo == IF dealer THEN 0 ELSE 1
           b == [q \in Parties |-> Take(q) \o When(gives, Send(q))]
           c == [q \in Parties |-> When(gives, Send(q)) \o Take(q)]
           A == Parties \ excluded
           G == IF gives THEN Parties ELSE {}
           K == [q \in Parties |-> q]
           Q == lo .. p - 1
           R == p + 1 .. N - 1
           X == Taking("append", Q \cap A) \cup SendingTo(Q \cap G)
           Y == IF gives THEN Alone("keep") ELSE {}
           Z == Taking("append", R \cap A) \cup SendingTo(R \cap G)
<1>1. CASE p = 0 /\ ~ dealer
  BY <1>1, MadeEmpty DEF Collect, OfCollect
<1>2. CASE ~ (p = 0 /\ ~ dealer)
  <2>1. /\ p \in Nat /\ N \in Nat /\ lo \in Nat /\ lo <= p
        /\ Q \subseteq Parties /\ R \subseteq Parties /\ p + 1 \in Nat /\ p - 1 \in Int
        /\ N - 1 \in Int /\ p + 1 <= (N - 1) + 1
    BY <1>2, NAssumption DEF Parties
  <2>2. /\ \A q \in Parties : Level(L, Taking("append", {q}) \cup SendingTo({q}), K[q])
        /\ K \in [Parties -> Int]
    <3>1. K \in [Parties -> Int]
      BY DEF Parties
    <3>2. SUFFICES ASSUME NEW q \in Parties, NEW x \in Taking("append", {q}) \cup SendingTo({q})
                   PROVE  L[x] = q
      BY <3>1 DEF Level
    <3>3. {q} \in SUBSET Parties /\ "append" \in Receiving
      BY DEF Receiving
    <3>4. x \in Instructions
      BY <3>2, <3>3, ContentType
    <3>5. x.do # "keep" /\ x.peer = q
      BY <3>2, <3>4, Belongs
    <3>6. QED BY <3>4, <3>5 DEF ByPeer
  <2>3. Exchanges(lo, p - 1, b, "append", A, G, K, L)
    <3>1. ASSUME NEW q \in lo .. p - 1
          PROVE  /\ Take(q) = When(q \in A, Receive(q, "append"))
                 /\ When(gives, Send(q)) = When(q \in G, Send(q))
      BY <2>1 DEF When
    <3>2. \A q \in lo .. p - 1 : b[q] = When(q \in A, Receive(q, "append")) \o When(q \in G, Send(q))
      BY <2>1, <3>1
    <3>3. lo \in Nat /\ p - 1 \in Int /\ lo <= (p - 1) + 1 /\ lo .. p - 1 \subseteq Parties
      BY <2>1
    <3> HIDE DEF b, A, G, K, L, lo, gives
    <3>4. QED BY <2>2, <3>2, <3>3 DEF Exchanges, Receiving
  <2>4. Exchanges(p + 1, N - 1, c, "append", A, G, K, L)
    <3>1. ASSUME NEW q \in p + 1 .. N - 1
          PROVE  /\ Take(q) = When(q \in A, Receive(q, "append"))
                 /\ When(gives, Send(q)) = When(q \in G, Send(q))
      BY <2>1 DEF When
    <3>2. \A q \in p + 1 .. N - 1 : c[q] = When(q \in G, Send(q)) \o When(q \in A, Receive(q, "append"))
      BY <2>1, <3>1
    <3> HIDE DEF c, A, G, K, L
    <3>3. QED BY <2>1, <2>2, <3>2 DEF Exchanges, Receiving
  <2>5. \A q, r \in Parties : q < r => K[q] <= K[r]
    BY DEF Parties
  <2>6. Made(Up(lo, p - 1, b), X, L)
    <3> HIDE DEF b, A, G, K, L, lo
    <3>1. \A q, r \in lo .. p - 1 : q < r => K[q] <= K[r]
      BY <2>1, <2>5
    <3>2. QED BY <2>3, <3>1, ExchangesMade
  <2>7. Made(Up(p + 1, N - 1, c), Z, L)
    <3> HIDE DEF c, A, G, K, L
    <3>1. \A q, r \in p + 1 .. N - 1 : q < r => K[q] <= K[r]
      BY <2>1, <2>5
    <3>2. QED BY <2>4, <3>1, ExchangesMade
  <2>8. Made(When(gives, Local("keep")), Y, L)
    <3>1. Made(Local("keep"), Alone("keep"), L)
      BY MadeLocal DEF LocalDo
    <3>2. QED BY <3>1, MadeWhen
  <2>9. X \cup Y \cup Z \subseteq Instructions
    <3>1. /\ SendingTo(Q \cap G) \subseteq Instructions /\ SendingTo(R \cap G) \subseteq Instructions
          /\ Taking("append", Q \cap A) \subseteq Instructions
          /\ Taking("append", R \cap A) \subseteq Instructions
          /\ Alone("keep") \subseteq Instructions
      BY <2>1, ContentType DEF Receiving, LocalDo
    <3>2. QED BY <3>1
  <2>10. /\ \A x \in X : x.do # "keep" /\ x.peer \in Q /\ L[x] = x.peer
         /\ \A x \in Y : x.do = "keep" /\ L[x] = p
         /\ \A x \in Z : x.do # "keep" /\ x.peer \in R /\ L[x] = x.peer
    <3>1. \A x \in X : x.do # "keep" /\ x.peer \in Q
      <4> HIDE DEF Q, A, G
      <4>1. QED BY <2>9, Belongs
    <3>2. \A x \in Z : x.do # "keep" /\ x.peer \in R
      <4> HIDE DEF R, A, G
      <4>1. QED BY <2>9, Belongs
    <3>3. \A x \in Y : x.do = "keep"
      BY <2>9, Belongs
    <3>4. \A x \in Instructions : L[x] = IF x.do = "keep" THEN p ELSE x.peer
      BY DEF ByPeer
    <3> HIDE DEF X, Y, Z, L, Q, R
    <3>5. QED BY <2>9, <3>1, <3>2, <3>3, <3>4
  <2>11. Ordered(X, Y, L) /\ Ordered(X \cup Y, Z, L)
    <3>1. (\A q \in Q : q <= p) /\ (\A r \in R : p <= r) /\ (\A q \in Q, r \in R : q <= r /\ q # r)
      BY <2>1
    <3> HIDE DEF X, Y, Z, Q, R, L
    <3>2. Ordered(X, Y, L)
      <4>1. SUFFICES ASSUME NEW x \in X, NEW y \in Y PROVE ~ Same(x, y) /\ L[x] <= L[y]
        BY DEF Ordered
      <4>2. x.do # "keep" /\ y.do = "keep" /\ x.peer \in Q /\ L[x] = x.peer /\ L[y] = p
        BY <2>10
      <4>3. QED BY <3>1, <4>2 DEF Same, Receiving
    <3>3. Ordered(X, Z, L)
      BY <2>10, <3>1 DEF Ordered, Same
    <3>4. Ordered(Y, Z, L)
      <4>1. SUFFICES ASSUME NEW x \in Y, NEW y \in Z PROVE ~ Same(x, y) /\ L[x] <= L[y]
        BY DEF Ordered
      <4>2. x.do = "keep" /\ y.do # "keep" /\ y.peer \in R /\ L[x] = p /\ L[y] = y.peer
        BY <2>10
      <4>3. QED BY <3>1, <4>2 DEF Same, Receiving
    <3>5. QED BY <3>2, <3>3, <3>4 DEF Ordered
  <2>12. Made((Up(lo, p - 1, b) \o When(gives, Local("keep"))) \o Up(p + 1, N - 1, c), (X \cup Y) \cup Z, L)
    <3> HIDE DEF X, Y, Z, b, c, L, lo, gives
    <3>1. Made(Up(lo, p - 1, b) \o When(gives, Local("keep")), X \cup Y, L)
      BY <2>6, <2>8, <2>11, MadeJoin
    <3>2. QED BY <2>7, <2>11, <3>1, MadeJoin
  <2>13. Collect(p, dealer, excluded) = (Up(lo, p - 1, b) \o When(gives, Local("keep"))) \o Up(p + 1, N - 1, c)
    BY <1>2 DEF Collect
  <2>14. OfCollect(p, dealer, excluded) = (X \cup Y) \cup Z
    <3> DEFINE M == IF dealer THEN Parties ELSE Computing
    <3>1. M \ {p} = Q \cup R /\ (M \ excluded) \ {p} = (Q \cap A) \cup (R \cap A)
      <4>1. M = lo .. N - 1
        BY DEF Parties, Computing
      <4>2. M \subseteq Parties
        BY DEF Parties, Computing
      <4>3. M \ {p} = Q \cup R
        BY <2>1, <4>1 DEF Parties
      <4> HIDE DEF Q, R, M
      <4>4. QED BY <4>2, <4>3
    <3>2. \A S, T : SendingTo(S \cup T) = SendingTo(S) \cup SendingTo(T)
      BY DEF SendingTo
    <3>3. \A S, T, d : Taking(d, S \cup T) = Taking(d, S) \cup Taking(d, T)
      BY DEF Taking
    <3>4. OfCollect(p, dealer, excluded) =
            Taking("append", (M \ excluded) \ {p}) \cup (IF gives THEN SendingTo(M \ {p}) \cup Alone("keep") ELSE {})
      BY <1>2 DEF OfCollect
    <3>5. CASE gives
      <4>1. Q \cap G = Q /\ R \cap G = R
        BY <2>1, <3>5
      <4> HIDE DEF Q, R, M, A, G, gives
      <4>2. QED BY <3>1, <3>2, <3>3, <3>4, <3>5, <4>1 DEF X, Y, Z
    <3>6. CASE ~ gives
      <4>1. Q \cap G = {} /\ R \cap G = {}
        BY <3>6
      <4> HIDE DEF Q, R, M, A, G, gives
      <4>2. OfCollect(p, dealer, excluded) = Taking("append", (M \ excluded) \ {p})
        BY <3>4, <3>6
      <4>3. X = Taking("append", Q \cap A) /\ Z = Taking("append", R \cap A) /\ Y = {}
        BY <3>6, <4>1, EmptySets DEF X, Y, Z
      <4>4. Taking("append", (M \ excluded) \ {p}) = Taking("append", (Q \cap A) \cup (R \cap A))
        BY <3>1
      <4>5. Taking("append", (M \ excluded) \ {p}) = Taking("append", Q \cap A) \cup Taking("append", R \cap A)
        BY <3>3, <4>4
      <4>6. QED BY <4>2, <4>3, <4>5
    <3>7. QED BY <3>5, <3>6
  <2>15. QED BY <2>12, <2>13, <2>14
<1>3. QED BY <1>1, <1>2

LEMMA CollectAtMade ==
  ASSUME NEW p \in Parties, NEW target \in Computing, NEW L,
         L = ByPeer(p) \/ (L = IsBroadcastOrder(p) /\ target = 1)
  PROVE  Made(CollectAt(p, target), OfCollectAt(p, target), L)
<1>1. \A x \in Instructions : /\ x.do = "append" => L[x] = x.peer
                              /\ x.do = "keep" => L[x] = p
  BY DEF ByPeer, IsBroadcastOrder
<1>2. /\ 1 \in Nat /\ N - 1 \in Int /\ 1 <= (N - 1) + 1 /\ 1 .. N - 1 \subseteq Parties
      /\ target \in Parties /\ target # 0 /\ p \in Int
  BY NAssumption DEF Parties, Computing
<1>3. CASE p = 0
  <2>1. CollectAt(p, target) = <<>> /\ OfCollectAt(p, target) = {}
    BY <1>3 DEF CollectAt, OfCollectAt
  <2>2. QED BY <2>1, MadeEmpty
<1>4. CASE p = target
  <2> DEFINE b == [q \in Parties |-> IF q = p THEN Local("keep") ELSE Receive(q, "append")]
             X == [q \in Parties |-> IF q = p THEN Alone("keep") ELSE Taking("append", {q})]
  <2>1. \A q \in 1 .. N - 1 : Made(b[q], X[q], L)
    <3>1. SUFFICES ASSUME NEW q \in 1 .. N - 1
                   PROVE  /\ Made(Local("keep"), Alone("keep"), L)
                          /\ Made(Receive(q, "append"), Taking("append", {q}), L)
      BY <1>2
    <3>2. QED BY <1>2, MadeLocal, MadeReceive DEF LocalDo, Receiving
  <2>2. \A q \in 1 .. N - 1 : \A x \in X[q] :
          L[x] = q /\ ((q = p /\ x.do = "keep") \/ (q # p /\ x.do = "append" /\ x.peer = q))
    <3>1. SUFFICES ASSUME NEW q \in 1 .. N - 1, NEW x \in X[q]
                   PROVE  L[x] = q /\ ((q = p /\ x.do = "keep") \/ (q # p /\ x.do = "append" /\ x.peer = q))
      OBVIOUS
    <3>2. q \in Parties /\ {q} \in SUBSET Parties
      BY <1>2
    <3>3. CASE q = p
      <4>1. x \in Alone("keep")
        BY <3>1, <3>2, <3>3
      <4>2. x \in Instructions
        BY <4>1, ContentType DEF LocalDo
      <4>3. x.do = "keep"
        BY <4>1, <4>2, Belongs
      <4>4. QED BY <1>1, <3>3, <4>2, <4>3
    <3>4. CASE q # p
      <4>1. x \in Taking("append", {q})
        BY <3>1, <3>2, <3>4
      <4>2. x \in Instructions
        BY <3>2, <4>1, ContentType DEF Receiving
      <4>3. x.do = "append" /\ x.peer = q
        BY <4>1, <4>2, Belongs
      <4>4. QED BY <1>1, <3>4, <4>2, <4>3
    <3>5. QED BY <3>3, <3>4
  <2>3. UNION {X[q] : q \in 1 .. N - 1} = OfCollectAt(p, target)
    <3>1. \A q \in Computing \ {p} : X[q] = Taking("append", {q})
      BY <1>2 DEF Computing
    <3>2. X[p] = Alone("keep") /\ p \in Computing
      BY <1>4
    <3>3. UNION {X[q] : q \in Computing \ {p}} = Taking("append", Computing \ {p})
      <4> DEFINE C == Computing \ {p}
      <4> HIDE DEF X, C
      <4>1. \A q \in C : X[q] = Taking("append", {q})
        BY <3>1 DEF C
      <4>2. AllTaking(X, C, "append")
        BY <4>1 DEF AllTaking
      <4>3. UNION {X[q] : q \in C} = Taking("append", C)
        BY <4>2, TakingEach
      <4>4. QED BY <4>3 DEF C
    <3> HIDE DEF X
    <3>4. UNION {X[q] : q \in Computing} = Taking("append", Computing \ {p}) \cup Alone("keep")
      BY <3>2, <3>3
    <3>5. OfCollectAt(p, target) = Taking("append", Computing \ {p}) \cup Alone("keep")
      BY <1>2, <1>4 DEF OfCollectAt
    <3>6. QED BY <3>4, <3>5 DEF Computing
  <2> HIDE DEF b, X
  <2>4. \A q, r \in 1 .. N - 1 : q < r => \A x \in X[q], y \in X[r] : L[x] <= L[y]
    BY <2>2
  <2>5. \A q, r \in 1 .. N - 1 : q # r => \A x \in X[q], y \in X[r] : ~ Same(x, y)
    BY <2>2 DEF Same, Receiving
  <2>6. LoopParts(1, N - 1, b, X, L)
    BY <1>2, <2>1, <2>5 DEF LoopParts
  <2>7. Made(Up(1, N - 1, b), UNION {X[q] : q \in 1 .. N - 1}, L)
    BY <2>4, <2>6, UpMade
  <2>8. CollectAt(p, target) = Up(1, N - 1, b)
    BY <1>2, <1>4 DEF CollectAt, b
  <2>9. QED BY <2>3, <2>7, <2>8
<1>5. CASE p # 0 /\ p # target
  <2>1. L[Ins("send", target)] <= L[Ins("flush", target)]
    <3> DEFINE x == Ins("send", target)
               y == Ins("flush", target)
    <3>1. /\ x \in Instructions /\ x.do = "send" /\ x.peer = target
          /\ y \in Instructions /\ y.do = "flush" /\ y.peer = target
      BY <1>2, InsType
    <3> HIDE DEF x, y
    <3>2. CASE L = ByPeer(p)
      <4>1. L[x] = target /\ L[y] = target
        BY <3>1, <3>2 DEF ByPeer
      <4>2. QED BY <1>2, <4>1 DEF x, y, Computing
    <3>3. CASE L = IsBroadcastOrder(p) /\ target = 1
      <4>1. L[x] = 0 /\ L[y] = 0
        BY <1>5, <3>1, <3>3 DEF IsBroadcastOrder
      <4>2. QED BY <4>1 DEF x, y
    <3>4. QED BY <3>2, <3>3
  <2>2. Made(Send(target), SendingTo({target}), L)
    BY <1>2, <2>1, MadeSend
  <2>3. CollectAt(p, target) = Send(target) /\ OfCollectAt(p, target) = SendingTo({target})
    BY <1>5 DEF CollectAt, OfCollectAt
  <2>4. QED BY <2>2, <2>3
<1>6. QED BY <1>3, <1>4, <1>5

LEMMA IsBroadcastMade ==
  ASSUME NEW p \in Parties
  PROVE  Made(IsBroadcast(p), OfIsBroadcast(p), IsBroadcastOrder(p))
<1> DEFINE L == IsBroadcastOrder(p)
           X == OfCollectAt(p, 1)
           Y == Alone("reduce")
           Z == OfBroadcast(p, 1)
<1>1. 1 \in Computing /\ N \in Nat /\ N + 1 \in Int /\ Computing \subseteq Parties /\ p \in Nat /\ p < N
  BY NAssumption DEF Parties, Computing
<1>2. Made(CollectAt(p, 1), X, L)
  BY <1>1, CollectAtMade
<1>3. Made(Local("reduce"), Y, L)
  BY MadeLocal DEF LocalDo
<1>4. \A x \in Instructions :
        /\ x.do = "append" => L[x] = x.peer
        /\ x.do = "keep" => L[x] = p
        /\ x.do = "reduce" => L[x] = N
        /\ x.do \in {"take", "clear"} => L[x] = N + 1
        /\ x.do \in {"send", "flush"} => L[x] = IF p = 1 THEN N + 1 ELSE 0
        /\ x.peer \in Nat /\ x.peer < N
  <2>1. \A x \in Instructions : x.peer \in Nat /\ x.peer < N
    BY <1>1 DEF Instructions, Parties
  <2>2. QED BY <2>1 DEF IsBroadcastOrder
<1>5. X \subseteq Instructions /\ Y \subseteq Instructions /\ Z \subseteq Instructions
  <2>1. /\ SendingTo({1}) \subseteq Instructions /\ SendingTo(Computing \ {1}) \subseteq Instructions
        /\ Taking("append", Computing \ {p}) \subseteq Instructions
        /\ Taking("take", {1}) \subseteq Instructions
        /\ Alone("keep") \subseteq Instructions /\ Alone("reduce") \subseteq Instructions
        /\ Alone("clear") \subseteq Instructions
    BY <1>1, ContentType DEF Receiving, LocalDo
  <2>2. QED BY <2>1 DEF OfCollectAt, OfBroadcast
<1> HIDE DEF L
<1>6. Made(Broadcast(p, 1), Z, L)
  <2>1. CASE p = 1
    <3>1. Level(L, SendingTo(Computing), N + 1)
      <4>1. SendingTo(Computing) \subseteq Instructions
        BY <1>1, ContentType
      <4>2. QED BY <1>4, <2>1, <4>1, Belongs DEF Level
    <3>2. QED BY <1>1, <3>1, BroadcastMade
  <2>2. CASE p # 1
    <3>1. Level(L, SendingTo(Computing), 0)
      <4>1. SendingTo(Computing) \subseteq Instructions
        BY <1>1, ContentType
      <4>2. QED BY <1>4, <2>2, <4>1, Belongs DEF Level
    <3>2. QED BY <1>1, <3>1, BroadcastMade
  <2>3. QED BY <2>1, <2>2
<1>7. \A x \in X : /\ x.do \in {"append", "keep", "send", "flush"} /\ L[x] <= N
                   /\ p = 1 => x.do \in {"append", "keep"}
  <2>1. \A x \in X : /\ x.do \in {"append", "keep", "send", "flush"}
                     /\ p = 1 => x.do \in {"append", "keep"}
    <3>1. CASE p = 0
      BY <3>1 DEF OfCollectAt
    <3>2. CASE p = 1
      <4>1. X = Taking("append", Computing \ {p}) \cup Alone("keep")
        BY <3>2 DEF OfCollectAt
      <4>2. QED BY <1>5, <4>1, Belongs
    <3>3. CASE p # 0 /\ p # 1
      <4>1. X = SendingTo({1})
        BY <3>3 DEF OfCollectAt
      <4>2. QED BY <1>5, <3>3, <4>1, Belongs
    <3>4. QED BY <3>1, <3>2, <3>3
  <2> HIDE DEF X
  <2>2. QED BY <1>1, <1>4, <1>5, <2>1
<1>8. \A x \in Y : x.do = "reduce" /\ L[x] = N
  BY <1>4, <1>5, Belongs
<1>9. \A x \in Z : /\ x.do \in {"clear", "take", "send", "flush"} /\ L[x] = N + 1
                   /\ p # 1 => x.do \in {"clear", "take"}
  <2>1. \A x \in Z : /\ x.do \in {"clear", "take", "send", "flush"}
                     /\ p # 1 => x.do \in {"clear", "take"}
    <3>1. CASE p = 0
      <4>1. Z = Alone("clear")
        BY <3>1 DEF OfBroadcast
      <4>2. QED BY <1>5, <3>1, <4>1, Belongs
    <3>2. CASE p = 1
      <4>1. Z = SendingTo(Computing \ {1})
        BY <3>2 DEF OfBroadcast
      <4>2. QED BY <1>5, <3>2, <4>1, Belongs
    <3>3. CASE p # 0 /\ p # 1
      <4>1. Z = Taking("take", {1})
        BY <3>3 DEF OfBroadcast
      <4>2. QED BY <1>5, <4>1, Belongs
    <3>4. QED BY <3>1, <3>2, <3>3
  <2> HIDE DEF Z
  <2>2. QED BY <1>4, <1>5, <2>1
<1>10. Ordered(X, Y, L) /\ Ordered(X \cup Y, Z, L)
  <2> HIDE DEF X, Y, Z
  <2>1. \A x \in Instructions : L[x] \in Int
    BY OrderTypes DEF L
  <2>2. Ordered(X, Y, L)
    BY <1>7, <1>8 DEF Ordered, Same, Receiving
  <2>3. Ordered(Y, Z, L)
    BY <1>1, <1>8, <1>9 DEF Ordered, Same, Receiving
  <2>4. Ordered(X, Z, L)
    <3>1. SUFFICES ASSUME NEW x \in X, NEW y \in Z PROVE ~ Same(x, y) /\ L[x] <= L[y]
      BY DEF Ordered
    <3>2. L[x] \in Int /\ L[x] <= N /\ L[y] = N + 1
      BY <1>5, <1>7, <1>9, <2>1
    <3>3. ~ Same(x, y)
      <4>1. CASE p = 1
        <5>1. x.do \in {"append", "keep"} /\ y.do \in {"clear", "take", "send", "flush"}
          BY <1>7, <1>9, <4>1
        <5>2. y.do # "take"
          <6>1. y \in SendingTo(Computing \ {1})
            BY <1>1, <4>1 DEF Z, OfBroadcast
          <6>2. QED BY <1>5, <6>1, Belongs
        <5>3. QED BY <5>1, <5>2 DEF Same, Receiving
      <4>2. CASE p # 1
        <5>1. x.do \in {"append", "keep", "send", "flush"} /\ y.do \in {"clear", "take"}
          BY <1>7, <1>9, <4>2
        <5>2. x.do # "append"
          <6>1. x \in SendingTo({1})
            BY <1>1, <4>2 DEF X, OfCollectAt
          <6>2. QED BY <1>5, <6>1, Belongs
        <5>3. QED BY <5>1, <5>2 DEF Same, Receiving
      <4>3. QED BY <4>1, <4>2
    <3>4. QED BY <1>1, <3>2, <3>3
  <2>5. QED BY <2>2, <2>3, <2>4 DEF Ordered
<1> HIDE DEF X, Y, Z
<1>11. Made(CollectAt(p, 1) \o Local("reduce"), X \cup Y, L)
  BY <1>2, <1>3, <1>10, MadeJoin
<1>12. Made((CollectAt(p, 1) \o Local("reduce")) \o Broadcast(p, 1), (X \cup Y) \cup Z, L)
  BY <1>6, <1>10, <1>11, MadeJoin
<1>13. QED BY <1>12 DEF IsBroadcast, OfIsBroadcast, L, X, Y, Z

LEMMA SyncLiteMade ==
  ASSUME NEW p \in Parties
  PROVE  Made(SyncLite(p), OfSyncLite(p), LiteOrder(p))
<1> DEFINE L == LiteOrder(p)
           C == Computing
           X == Alone("clear")
           Y == IF p = 0 THEN Taking("check", C) ELSE SendingTo({0})
           Z == IF p = 0 THEN SendingTo(C) ELSE Taking("check", {0})
           s == IF p = 0 THEN Up(1, N - 1, ReceiveFromEach("check")) ELSE Send(0)
           t == IF p = 0 THEN Up(1, N - 1, SendToEach) ELSE Receive(0, "check")
<1>1. C \subseteq Parties /\ {0} \subseteq Parties /\ 0 \in Parties
  BY NAssumption, InsType DEF Parties, Computing
<1>2. \A x \in Instructions :
        /\ x.do = "clear" => L[x] = 0
        /\ x.do = "check" => L[x] = IF p = 0 THEN 1 ELSE 2
        /\ x.do \in {"send", "flush"} => L[x] = IF p = 0 THEN 2 ELSE 1
  BY DEF LiteOrder
<1>3. X \subseteq Instructions /\ Y \subseteq Instructions /\ Z \subseteq Instructions
  <2>1. /\ SendingTo({0}) \subseteq Instructions /\ SendingTo(C) \subseteq Instructions
        /\ Taking("check", C) \subseteq Instructions /\ Taking("check", {0}) \subseteq Instructions
        /\ Alone("clear") \subseteq Instructions
    BY <1>1, ContentType DEF Receiving, LocalDo
  <2>2. QED BY <2>1
<1>4. /\ \A x \in X : x.do = "clear" /\ L[x] = 0
      /\ \A x \in Y : L[x] = 1 /\ IF p = 0 THEN x.do = "check" ELSE x.do \in {"send", "flush"}
      /\ \A x \in Z : L[x] = 2 /\ IF p = 0 THEN x.do \in {"send", "flush"} ELSE x.do = "check"
  <2> HIDE DEF L, C
  <2>1. \A x \in X : x.do = "clear"
    BY <1>3, Belongs
  <2>2. \A x \in Y : IF p = 0 THEN x.do = "check" ELSE x.do \in {"send", "flush"}
    BY <1>3, Belongs
  <2>3. \A x \in Z : IF p = 0 THEN x.do \in {"send", "flush"} ELSE x.do = "check"
    BY <1>3, Belongs
  <2> HIDE DEF X, Y, Z
  <2>4. QED BY <1>2, <1>3, <2>1, <2>2, <2>3
<1>5. Made(Local("clear"), X, L)
  BY MadeLocal DEF LocalDo
<1>6. Made(s, Y, L) /\ Made(t, Z, L)
  <2>1. CASE p = 0
    <3>1. Level(L, Taking("check", 1 .. N - 1), 1) /\ Level(L, SendingTo(1 .. N - 1), 2)
      BY <1>4, <2>1 DEF Level, Computing
    <3>2. /\ 1 \in Nat /\ 2 \in Nat /\ N - 1 \in Int /\ 1 <= (N - 1) + 1 /\ 1 .. N - 1 \subseteq Parties
      BY NAssumption DEF Parties
    <3> HIDE DEF L
    <3>3. Made(Up(1, N - 1, ReceiveFromEach("check")), Taking("check", 1 .. N - 1), L)
      BY <3>1, <3>2, MadeReceives DEF Receiving
    <3>4. Made(Up(1, N - 1, SendToEach), SendingTo(1 .. N - 1), L)
      BY <3>1, <3>2, MadeSends
    <3>5. QED BY <2>1, <3>3, <3>4 DEF Computing
  <2>2. CASE p # 0
    <3>1. L[Ins("send", 0)] <= L[Ins("flush", 0)]
      <4>1. L[Ins("send", 0)] = 1 /\ L[Ins("flush", 0)] = 1
        <5> HIDE DEF L
        <5>1. QED BY <1>1, <1>2, <2>2, InsType
      <4>2. QED BY <4>1
    <3> HIDE DEF L
    <3>2. Made(Send(0), SendingTo({0}), L)
      BY <1>1, <3>1, MadeSend
    <3>3. Made(Receive(0, "check"), Taking("check", {0}), L)
      BY <1>1, MadeReceive DEF Receiving
    <3>4. QED BY <2>2, <3>2, <3>3
  <2>3. QED BY <2>1, <2>2
<1>7. Ordered(Y, Z, L) /\ Ordered(X, Y \cup Z, L)
  <2> HIDE DEF X, Y, Z, L
  <2>1. Ordered(Y, Z, L)
    BY <1>4 DEF Ordered, Same, Receiving
  <2>2. Ordered(X, Y, L)
    BY <1>4 DEF Ordered, Same, Receiving
  <2>3. Ordered(X, Z, L)
    BY <1>4 DEF Ordered, Same, Receiving
  <2>4. QED BY <2>1, <2>2, <2>3 DEF Ordered
<1>8. Made(Local("clear") \o (s \o t), X \cup (Y \cup Z), L)
  <2> HIDE DEF X, Y, Z, L, s, t
  <2>1. Made(s \o t, Y \cup Z, L)
    BY <1>6, <1>7, MadeJoin
  <2>2. QED BY <1>5, <1>7, <2>1, MadeJoin
<1>9. SyncLite(p) = Local("clear") \o (s \o t) /\ OfSyncLite(p) = X \cup (Y \cup Z)
  BY DEF SyncLite, OfSyncLite
<1>10. QED BY <1>8, <1>9

LEMMA SyncFullMade ==
  ASSUME NEW p \in Parties
  PROVE  Made(SyncFull(p), OfSyncFull(p), FullOrder)
<1> DEFINE L == FullOrder
           Q == p + 1 .. N - 1
           R == 0 .. p - 1
           b == [q \in Parties |-> Receive(q, "check") \o Send(q)]
           c == [q \in Parties |-> Send(q) \o Receive(q, "check")]
           K == [q \in Parties |-> 1]
           X == Alone("clear")
           Y == Taking("check", Q \cap Parties) \cup SendingTo(Q \cap Parties)
           Z == Taking("check", R \cap Parties) \cup SendingTo(R \cap Parties)
<1>1. /\ Q \subseteq Parties /\ R \subseteq Parties /\ Parties \ {p} = Q \cup R
      /\ p + 1 \in Nat /\ N - 1 \in Int /\ p + 1 <= (N - 1) + 1
      /\ 0 \in Nat /\ p - 1 \in Int /\ 0 <= (p - 1) + 1
  BY NAssumption DEF Parties
<1>2. \A x \in Instructions : L[x] = IF x.do = "clear" THEN 0 ELSE 1
  BY DEF FullOrder
<1>3. \A q \in Parties : Level(L, Taking("check", {q}) \cup SendingTo({q}), K[q])
  <2>1. SUFFICES ASSUME NEW q \in Parties, NEW x \in Taking("check", {q}) \cup SendingTo({q})
                 PROVE  L[x] = 1
    BY DEF Level
  <2>2. {q} \in SUBSET Parties /\ "check" \in Receiving
    BY DEF Receiving
  <2>3. x \in Instructions
    BY <2>1, <2>2, ContentType
  <2>4. x.do # "clear"
    BY <2>1, <2>3, Belongs
  <2> HIDE DEF L
  <2>5. QED BY <1>2, <2>3, <2>4
<1>4. K \in [Parties -> Int] /\ \A q, r \in Parties : K[q] <= K[r]
  OBVIOUS
<1>5. Exchanges(p + 1, N - 1, b, "check", Parties, Parties, K, L)
  <2>1. \A q \in p + 1 .. N - 1 :
          b[q] = When(q \in Parties, Receive(q, "check")) \o When(q \in Parties, Send(q))
    BY <1>1 DEF When
  <2> HIDE DEF b, K, L
  <2>2. QED BY <1>1, <1>3, <1>4, <2>1 DEF Exchanges, Receiving
<1>6. Exchanges(0, p - 1, c, "check", Parties, Parties, K, L)
  <2>1. \A q \in 0 .. p - 1 :
          c[q] = When(q \in Parties, Send(q)) \o When(q \in Parties, Receive(q, "check"))
    BY <1>1 DEF When
  <2> HIDE DEF c, K, L
  <2>2. QED BY <1>1, <1>3, <1>4, <2>1 DEF Exchanges, Receiving
<1>7. Made(Down(N - 1, p + 1, b), Y, L) /\ Made(Down(p - 1, 0, c), Z, L)
  <2> HIDE DEF b, c, K, L
  <2>1. /\ \A q, r \in p + 1 .. N - 1 : q > r => K[q] <= K[r]
        /\ \A q, r \in 0 .. p - 1 : q > r => K[q] <= K[r]
    BY <1>1, <1>4
  <2>2. QED BY <1>5, <1>6, <2>1, ExchangesMade
<1>8. Made(Local("clear"), X, L)
  BY MadeLocal DEF LocalDo
<1>9. X \subseteq Instructions /\ Y \subseteq Instructions /\ Z \subseteq Instructions
  BY ContentType DEF Receiving, LocalDo
<1>10. /\ \A x \in X : x.do = "clear" /\ L[x] = 0
       /\ \A x \in Y : x.do # "clear" /\ x.do # "keep" /\ x.peer \in Q /\ L[x] = 1
       /\ \A x \in Z : x.do # "clear" /\ x.peer \in R /\ L[x] = 1
  <2> HIDE DEF L, Q, R
  <2>1. \A x \in X : x.do = "clear"
    BY <1>9, Belongs
  <2>2. \A x \in Y : x.do # "clear" /\ x.do # "keep" /\ x.peer \in Q
    BY <1>9, Belongs
  <2>3. \A x \in Z : x.do # "clear" /\ x.peer \in R
    BY <1>9, Belongs
  <2> HIDE DEF X, Y, Z
  <2>4. QED BY <1>2, <1>9, <2>1, <2>2, <2>3
<1>11. Ordered(X, Y, L) /\ Ordered(X \cup Y, Z, L)
  <2>1. \A q \in Q, r \in R : q # r
    BY <1>1 DEF Parties
  <2> HIDE DEF X, Y, Z, L, Q, R
  <2>2. Ordered(X, Y, L)
    BY <1>10 DEF Ordered, Same, Receiving
  <2>3. Ordered(X, Z, L)
    BY <1>10 DEF Ordered, Same, Receiving
  <2>4. Ordered(Y, Z, L)
    BY <1>10, <2>1 DEF Ordered, Same
  <2>5. QED BY <2>2, <2>3, <2>4 DEF Ordered
<1>12. Made((Local("clear") \o Down(N - 1, p + 1, b)) \o Down(p - 1, 0, c), (X \cup Y) \cup Z, L)
  <2> HIDE DEF X, Y, Z, b, c, L
  <2>1. Made(Local("clear") \o Down(N - 1, p + 1, b), X \cup Y, L)
    BY <1>7, <1>8, <1>11, MadeJoin
  <2>2. QED BY <1>7, <1>11, <2>1, MadeJoin
<1>13. SyncFull(p) = (Local("clear") \o Down(N - 1, p + 1, b)) \o Down(p - 1, 0, c)
  BY DEF SyncFull
<1>14. OfSyncFull(p) = (X \cup Y) \cup Z
  <2>1. Q \cap Parties = Q /\ R \cap Parties = R
    BY <1>1
  <2>2. SendingTo(Parties \ {p}) = SendingTo(Q) \cup SendingTo(R)
    BY <1>1 DEF SendingTo
  <2>3. Taking("check", Parties \ {p}) = Taking("check", Q) \cup Taking("check", R)
    BY <1>1 DEF Taking
  <2>4. QED BY <2>1, <2>2, <2>3 DEF OfSyncFull
<1>15. QED BY <1>12, <1>13, <1>14

LEMMA SequentialMade ==
  ASSUME NEW p \in Parties
  PROVE  Made(Sequential(p, FALSE), OfSequential(p), SequentialOrder)
<1> DEFINE L == SequentialOrder
           X == IF p > 0 THEN Taking("take", {p - 1}) ELSE {}
           Y == Alone("func")
           Z == IF p < N - 1 THEN SendingTo({p + 1}) ELSE {}
           s == When(p > 0, Receive(p - 1, "take"))
           t == When(p < N - 1, Send(p + 1))
<1>1. (p > 0 => p - 1 \in Parties) /\ (p < N - 1 => p + 1 \in Parties) /\ (p > 0) \in BOOLEAN /\ (p < N - 1) \in BOOLEAN
  BY NAssumption DEF Parties
<1>2. \A x \in Instructions :
        /\ x.do = "take" => L[x] = 0
        /\ x.do = "func" => L[x] = 1
        /\ x.do \in {"send", "flush"} => L[x] = 2
  BY DEF SequentialOrder
<1>3. X \subseteq Instructions /\ Y \subseteq Instructions /\ Z \subseteq Instructions
  <2>1. ASSUME p > 0 PROVE Taking("take", {p - 1}) \subseteq Instructions
    BY <1>1, <2>1, ContentType DEF Receiving
  <2>2. ASSUME p < N - 1 PROVE SendingTo({p + 1}) \subseteq Instructions
    BY <1>1, <2>2, ContentType
  <2>3. QED BY <2>1, <2>2, ContentType DEF LocalDo
<1>4. /\ \A x \in X : x.do = "take" /\ L[x] = 0
      /\ \A x \in Y : x.do = "func" /\ L[x] = 1
      /\ \A x \in Z : x.do \in {"send", "flush"} /\ L[x] = 2
  <2> HIDE DEF L
  <2>1. \A x \in X : x.do = "take"
    BY <1>3, Belongs
  <2>2. \A x \in Y : x.do = "func"
    BY <1>3, Belongs
  <2>3. \A x \in Z : x.do \in {"send", "flush"}
    BY <1>3, Belongs
  <2> HIDE DEF X, Y, Z
  <2>4. QED BY <1>2, <1>3, <2>1, <2>2, <2>3
<1>5. Made(s, X, L)
  <2>1. CASE p > 0
    BY <1>1, <2>1, MadeReceive DEF When, Receiving
  <2>2. CASE ~ (p > 0)
    BY <2>2, MadeEmpty DEF When
  <2>3. QED BY <2>1, <2>2
<1>6. Made(Local("func"), Y, L)
  BY MadeLocal DEF LocalDo
<1>7. Made(t, Z, L)
  <2>1. CASE p < N - 1
    <3>1. L[Ins("send", p + 1)] = 2 /\ L[Ins("flush", p + 1)] = 2
      <4> HIDE DEF L
      <4>1. QED BY <1>1, <1>2, <2>1, InsType
    <3>2. L[Ins("send", p + 1)] <= L[Ins("flush", p + 1)]
      BY <3>1
    <3>3. Made(Send(p + 1), SendingTo({p + 1}), L)
      BY <1>1, <2>1, <3>2, MadeSend
    <3>4. QED BY <2>1, <3>3 DEF When
  <2>2. CASE ~ (p < N - 1)
    BY <2>2, MadeEmpty DEF When
  <2>3. QED BY <2>1, <2>2
<1>8. Ordered(X, Y, L) /\ Ordered(X \cup Y, Z, L)
  <2> HIDE DEF X, Y, Z, L
  <2>1. Ordered(X, Y, L)
    BY <1>4 DEF Ordered, Same, Receiving
  <2>2. Ordered(X, Z, L)
    BY <1>4 DEF Ordered, Same, Receiving
  <2>3. Ordered(Y, Z, L)
    BY <1>4 DEF Ordered, Same, Receiving
  <2>4. QED BY <2>1, <2>2, <2>3 DEF Ordered
<1>9. Made((s \o Local("func")) \o t, (X \cup Y) \cup Z, L)
  <2> HIDE DEF X, Y, Z, L, s, t
  <2>1. Made(s \o Local("func"), X \cup Y, L)
    BY <1>5, <1>6, <1>8, MadeJoin
  <2>2. QED BY <1>7, <1>8, <2>1, MadeJoin
<1>10. Sequential(p, FALSE) = (s \o Local("func")) \o t /\ OfSequential(p) = (X \cup Y) \cup Z
  BY DEF Sequential, OfSequential
<1>11. QED BY <1>9, <1>10

-----------------------------------------------------------------------------
\* What a call of the program consists of at a party, and by which order.

Content(c, p) ==
  CASE c.name = "reveal" -> OfReveal(p)
    [] c.name = "reveal_to_all" -> OfRevealToAll(p)
    [] c.name = "reveal_at" -> OfRevealAt(p, 0)
    [] c.name = "broadcast_from" -> OfBroadcast(p, c.party)
    [] c.name = "collect" -> OfCollect(p, c.dealer, c.excluded)
    [] c.name = "collect_at" -> OfCollectAt(p, c.party)
    [] c.name = "is_broadcast" -> OfIsBroadcast(p)
    [] c.name = "sync_lite" -> OfSyncLite(p)
    [] c.name = "sync_full" -> OfSyncFull(p)
    [] c.name = "sequential" -> OfSequential(p)

Order(c, p) ==
  CASE c.name \in {"reveal", "reveal_to_all"} -> RevealOrder
    [] c.name \in {"reveal_at", "broadcast_from", "collect", "collect_at"} -> ByPeer(p)
    [] c.name = "is_broadcast" -> IsBroadcastOrder(p)
    [] c.name = "sync_lite" -> LiteOrder(p)
    [] c.name = "sync_full" -> FullOrder
    [] c.name = "sequential" -> SequentialOrder

LEMMA CallForm ==
  ASSUME NEW c \in Calls
  PROVE  /\ c.name \in {"reveal", "reveal_to_all", "reveal_at", "broadcast_from", "collect",
                        "collect_at", "is_broadcast", "sync_lite", "sync_full", "sequential"}
         /\ c.name \in {"broadcast_from", "collect_at"} => c.party \in Computing
         /\ c.name = "reveal_at" => c.party = 0
         /\ c.name = "collect" => c.dealer \in BOOLEAN /\ c.excluded \in SUBSET Parties
         /\ c.name = "sequential" => c.skip_dealer = FALSE
<1> USE DEF Computing, Parties
<1>1. CASE \E n \in {"reveal", "reveal_to_all", "is_broadcast", "sync_lite", "sync_full"} : c = [name |-> n]
  BY <1>1
<1>2. CASE \E n \in {"broadcast_from", "collect_at"}, q \in 1 .. N - 1 : c = [name |-> n, party |-> q]
  BY <1>2
<1>3. CASE \E d \in BOOLEAN, e \in SUBSET (0 .. N - 1) : c = [name |-> "collect", dealer |-> d, excluded |-> e]
  BY <1>3
<1>4. CASE c = [name |-> "reveal_at", party |-> 0] \/ c = [name |-> "sequential", skip_dealer |-> FALSE]
  BY <1>4
<1>5. c \in Complete
  BY CallsAssumption
<1>6. \/ \E n \in {"reveal", "reveal_to_all", "is_broadcast", "sync_lite", "sync_full"} : c = [name |-> n]
      \/ \E n \in {"broadcast_from", "collect_at"}, q \in 1 .. N - 1 : c = [name |-> n, party |-> q]
      \/ \E d \in BOOLEAN, e \in SUBSET (0 .. N - 1) : c = [name |-> "collect", dealer |-> d, excluded |-> e]
      \/ c = [name |-> "reveal_at", party |-> 0] \/ c = [name |-> "sequential", skip_dealer |-> FALSE]
  <2> DEFINE A == {[name |-> n] : n \in {"reveal", "reveal_to_all", "is_broadcast", "sync_lite", "sync_full"}}
             B == {[name |-> n, party |-> q] : n \in {"broadcast_from", "collect_at"}, q \in 1 .. N - 1}
             C == {[name |-> "collect", dealer |-> d, excluded |-> e] :
                    d \in BOOLEAN, e \in SUBSET (0 .. N - 1)}
             D == {[name |-> "reveal_at", party |-> 0], [name |-> "sequential", skip_dealer |-> FALSE]}
  <2>1. c \in ((A \cup B) \cup C) \cup D
    BY <1>5 DEF Complete
  <2>2. c \in A => \E n \in {"reveal", "reveal_to_all", "is_broadcast", "sync_lite", "sync_full"} : c = [name |-> n]
    OBVIOUS
  <2>3. c \in B => \E n \in {"broadcast_from", "collect_at"}, q \in 1 .. N - 1 : c = [name |-> n, party |-> q]
    OBVIOUS
  <2>4. c \in C => \E d \in BOOLEAN, e \in SUBSET (0 .. N - 1) : c = [name |-> "collect", dealer |-> d, excluded |-> e]
    OBVIOUS
  <2>5. c \in D => c = [name |-> "reveal_at", party |-> 0] \/ c = [name |-> "sequential", skip_dealer |-> FALSE]
    OBVIOUS
  <2> HIDE DEF A, B, C, D
  <2>6. QED BY <2>1, <2>2, <2>3, <2>4, <2>5
<1>7. QED BY <1>1, <1>2, <1>3, <1>4, <1>6

LEMMA ScriptMade ==
  ASSUME NEW c \in Calls, NEW p \in Parties
  PROVE  Made(Script(c, p), Content(c, p), Order(c, p))
<1> USE CallForm
<1>1. CASE c.name = "reveal"
  BY <1>1, RevealMade DEF Script, Content, Order
<1>2. CASE c.name = "reveal_to_all"
  BY <1>2, RevealToAllMade DEF Script, Content, Order
<1>3. CASE c.name = "reveal_at"
  BY <1>3, RevealAtMade DEF Script, Content, Order
<1>4. CASE c.name = "broadcast_from"
  <2>1. Made(Broadcast(p, c.party), OfBroadcast(p, c.party), ByPeer(p))
    <3>1. \A L, n : L = ByPeer(p) /\ n \in Int => Made(Broadcast(p, c.party), OfBroadcast(p, c.party), L)
      BY <1>4, BroadcastMade
    <3>2. QED BY <3>1
  <2>2. QED BY <1>4, <2>1 DEF Script, Content, Order
<1>5. CASE c.name = "collect"
  <2>1. Made(Collect(p, c.dealer, c.excluded), OfCollect(p, c.dealer, c.excluded), ByPeer(p))
    BY <1>5, CollectMade
  <2>2. QED BY <1>5, <2>1 DEF Script, Content, Order
<1>6. CASE c.name = "collect_at"
  <2>1. Made(CollectAt(p, c.party), OfCollectAt(p, c.party), ByPeer(p))
    BY <1>6, CollectAtMade
  <2>2. QED BY <1>6, <2>1 DEF Script, Content, Order
<1>7. CASE c.name = "is_broadcast"
  BY <1>7, IsBroadcastMade DEF Script, Content, Order
<1>8. CASE c.name = "sync_lite"
  BY <1>8, SyncLiteMade DEF Script, Content, Order
<1>9. CASE c.name = "sync_full"
  BY <1>9, SyncFullMade DEF Script, Content, Order
<1>10. CASE c.name = "sequential"
  BY <1>10, SequentialMade DEF Script, Content, Order
<1>11. QED BY <1>1, <1>2, <1>3, <1>4, <1>5, <1>6, <1>7, <1>8, <1>9, <1>10

LEMMA ContentOfInstructions ==
  ASSUME NEW c \in Calls, NEW p \in Parties
  PROVE  Content(c, p) \subseteq Instructions
<1>1. Made(Script(c, p), Content(c, p), Order(c, p))
  BY ScriptMade
<1>2. QED BY <1>1 DEF Made

\* The same, instruction by instruction.
Has(c, p, d, q) ==
  CASE c.name = "reveal" ->
         \/ p = 1 /\ q > 1 /\ d \in {"add", "send", "flush"}
         \/ p > 1 /\ q = 1 /\ d \in {"send", "flush", "take"}
    [] c.name = "reveal_to_all" ->
         \/ p = 1 /\ q > 1 /\ d \in {"add", "send", "flush"}
         \/ p > 1 /\ q = 1 /\ d \in {"send", "flush", "take"}
         \/ p = 1 /\ q = 0 /\ d \in {"send", "flush"}
         \/ p = 0 /\ q = 1 /\ d = "take"
    [] c.name = "reveal_at" ->
         \/ p = 0 /\ q # 0 /\ d = "add"
         \/ p # 0 /\ q = 0 /\ d \in {"send", "flush"}
    [] c.name = "broadcast_from" ->
         \/ p = 0 /\ q = 0 /\ d = "clear"
         \/ p = c.party /\ q # 0 /\ q # p /\ d \in {"send", "flush"}
         \/ p # 0 /\ p # c.party /\ q = c.party /\ d = "take"
    [] c.name = "collect" ->
         /\ c.dealer \/ p # 0
         /\ \/ q \notin c.excluded /\ q # p /\ (c.dealer \/ q # 0) /\ d = "append"
            \/ p \notin c.excluded /\ q # p /\ (c.dealer \/ q # 0) /\ d \in {"send", "flush"}
            \/ p \notin c.excluded /\ q = 0 /\ d = "keep"
    [] c.name = "collect_at" ->
         \/ p = c.party /\ q # p /\ q # 0 /\ d = "append"
         \/ p = c.party /\ q = 0 /\ d = "keep"
         \/ p # 0 /\ p # c.party /\ q = c.party /\ d \in {"send", "flush"}
    [] c.name = "is_broadcast" ->
         \/ p = 1 /\ q > 1 /\ d \in {"append", "send", "flush"}
         \/ p = 1 /\ q = 0 /\ d = "keep"
         \/ q = 0 /\ d = "reduce"
         \/ p = 0 /\ q = 0 /\ d = "clear"
         \/ p > 1 /\ q = 1 /\ d \in {"send", "flush", "take"}
    [] c.name = "sync_lite" ->
         \/ q = 0 /\ d = "clear"
         \/ (p = 0 <=> q # 0) /\ d \in {"check", "send", "flush"}
    [] c.name = "sync_full" ->
         \/ q = 0 /\ d = "clear"
         \/ q # p /\ d \in {"check", "send", "flush"}
    [] c.name = "sequential" ->
         \/ q = p - 1 /\ d = "take"
         \/ q = 0 /\ d = "func"
         \/ q = p + 1 /\ d \in {"send", "flush"}

LEMMA ContentHas ==
  ASSUME NEW c \in Calls, NEW p \in Parties, NEW x \in Instructions
  PROVE  x \in Content(c, p) <=> Has(c, p, x.do, x.peer)
<1> USE CallForm
<1> DEFINE d == x.do
           q == x.peer
           Q == 2 .. N - 1
<1>1. q \in Parties
  BY DEF Instructions
<1>2. /\ \A r \in Parties : r \in Computing <=> r # 0
      /\ \A r \in Parties : r \in Q <=> r > 1
      /\ \A r \in Parties : r \in Nat /\ r < N
      /\ Computing \subseteq Parties /\ N \in Nat /\ N >= 3
  BY NAssumption DEF Parties, Computing
<1>3. /\ \A S : x \in SendingTo(S) <=> d \in {"send", "flush"} /\ q \in S
      /\ \A S, f : x \in Taking(f, S) <=> d = f /\ q \in S
      /\ \A f : x \in Alone(f) <=> d = f /\ q = 0
  BY Belongs
<1> HIDE DEF d, q, Q
<1>4. CASE c.name = "reveal"
  <2>1. x \in OfReveal(p) <=> Has(c, p, d, q)
    BY <1>1, <1>2, <1>3, <1>4 DEF OfReveal, Q, Has
  <2>2. QED BY <1>4, <2>1 DEF Content, d, q
<1>5. CASE c.name = "reveal_to_all"
  <2>1. x \in OfRevealToAll(p) <=> Has(c, p, d, q)
    BY <1>1, <1>2, <1>3, <1>5 DEF OfReveal, OfRevealToAll, Q, Has
  <2>2. QED BY <1>5, <2>1 DEF Content, d, q
<1>6. CASE c.name = "reveal_at"
  <2>1. x \in OfRevealAt(p, 0) <=> Has(c, p, d, q)
    BY <1>1, <1>2, <1>3, <1>6 DEF OfRevealAt, Has
  <2>2. QED BY <1>6, <2>1 DEF Content, d, q
<1>7. CASE c.name = "broadcast_from"
  <2>1. x \in OfBroadcast(p, c.party) <=> Has(c, p, d, q)
    <3>1. c.party \in Parties /\ c.party # 0
      BY <1>2, <1>7
    <3>2. CASE p = 0
      BY <1>1, <1>3, <1>7, <3>1, <3>2 DEF OfBroadcast, Has
    <3>3. CASE p = c.party
      BY <1>1, <1>2, <1>3, <1>7, <3>1, <3>3 DEF OfBroadcast, Has
    <3>4. CASE p # 0 /\ p # c.party
      BY <1>1, <1>3, <1>7, <3>1, <3>4 DEF OfBroadcast, Has
    <3>5. QED BY <3>2, <3>3, <3>4
  <2>2. QED BY <1>7, <2>1 DEF Content, d, q
<1>8. CASE c.name = "collect"
  <2>1. x \in OfCollect(p, c.dealer, c.excluded) <=> Has(c, p, d, q)
    BY <1>1, <1>2, <1>3, <1>8 DEF OfCollect, Has
  <2>2. QED BY <1>8, <2>1 DEF Content, d, q
<1>9. CASE c.name = "collect_at"
  <2>1. x \in OfCollectAt(p, c.party) <=> Has(c, p, d, q)
    BY <1>1, <1>2, <1>3, <1>9 DEF OfCollectAt, Has
  <2>2. QED BY <1>9, <2>1 DEF Content, d, q
<1>10. CASE c.name = "is_broadcast"
  <2>1. x \in OfIsBroadcast(p) <=> Has(c, p, d, q)
    BY <1>1, <1>2, <1>3, <1>10 DEF OfIsBroadcast, OfCollectAt, OfBroadcast, Has
  <2>2. QED BY <1>10, <2>1 DEF Content, d, q
<1>11. CASE c.name = "sync_lite"
  <2>1. x \in OfSyncLite(p) <=> Has(c, p, d, q)
    BY <1>1, <1>2, <1>3, <1>11 DEF OfSyncLite, Has
  <2>2. QED BY <1>11, <2>1 DEF Content, d, q
<1>12. CASE c.name = "sync_full"
  <2>1. x \in OfSyncFull(p) <=> Has(c, p, d, q)
    BY <1>1, <1>2, <1>3, <1>12 DEF OfSyncFull, Has
  <2>2. QED BY <1>12, <2>1 DEF Content, d, q
<1>13. CASE c.name = "sequential"
  <2>1. x \in OfSequential(p) <=> Has(c, p, d, q)
    BY <1>1, <1>2, <1>3, <1>13 DEF OfSequential, Has
  <2>2. QED BY <1>13, <2>1 DEF Content, d, q
<1>14. QED BY <1>4, <1>5, <1>6, <1>7, <1>8, <1>9, <1>10, <1>11, <1>12, <1>13

LEMMA PartyForm ==
  /\ \A c \in Calls : c.name \in {"broadcast_from", "collect_at"} => c.party # 0 /\ c.party \in Parties
  /\ \A p \in Parties : p \in Nat /\ p < N
  /\ N \in Nat /\ N >= 3
<1>1. 0 \notin Computing /\ Computing \subseteq Parties
  BY DEF Computing, Parties
<1>2. \A p \in Parties : p \in Nat /\ p < N
  BY NAssumption DEF Parties
<1>3. ASSUME NEW c \in Calls, c.name \in {"broadcast_from", "collect_at"}
      PROVE  c.party # 0 /\ c.party \in Parties
  <2>1. c.party \in Computing
    BY <1>3, CallForm
  <2>2. QED BY <1>1, <2>1
<1>4. QED BY <1>2, <1>3, NAssumption

\* Nobody sends to itself or takes from itself, and what p sends to q, q takes from p.
LEMMA OthersOnly ==
  ASSUME NEW c \in Calls, NEW p \in Parties, NEW x \in Content(c, p), x.do \notin LocalDo
  PROVE  x.peer # p
<1>1. x \in Instructions
  BY ContentOfInstructions
<1>2. Has(c, p, x.do, x.peer) /\ x.peer \in Parties
  BY <1>1, ContentHas DEF Instructions
<1>3. p \in Nat /\ (c.name \in {"broadcast_from", "collect_at"} => c.party # 0)
  BY PartyForm
<1>4. ASSUME NEW d, NEW q, d \notin LocalDo, Has(c, p, d, q) PROVE q # p
  <2> USE <1>4 DEF LocalDo
  <2>1. CASE c.name = "reveal"
    BY <1>3, <2>1 DEF Has
  <2>2. CASE c.name = "reveal_to_all"
    BY <1>3, <2>2 DEF Has
  <2>3. CASE c.name = "reveal_at"
    BY <1>3, <2>3 DEF Has
  <2>4. CASE c.name = "broadcast_from"
    BY <1>3, <2>4 DEF Has
  <2>5. CASE c.name = "collect"
    BY <1>3, <2>5 DEF Has
  <2>6. CASE c.name = "collect_at"
    BY <1>3, <2>6 DEF Has
  <2>7. CASE c.name = "is_broadcast"
    BY <1>3, <2>7 DEF Has
  <2>8. CASE c.name = "sync_lite"
    BY <1>3, <2>8 DEF Has
  <2>9. CASE c.name = "sync_full"
    BY <1>3, <2>9 DEF Has
  <2>10. CASE c.name = "sequential"
    BY <1>3, <2>10 DEF Has
  <2>11. QED BY CallForm, <2>1, <2>2, <2>3, <2>4, <2>5, <2>6, <2>7, <2>8, <2>9, <2>10
<1>5. QED BY <1>2, <1>4

LEMMA ScriptsMatch ==
  ASSUME NEW c \in Calls, NEW p \in Parties, NEW q \in Parties, p # q
  PROVE  (\E x \in Content(c, p) : Sends(x, q)) <=> (\E x \in Content(c, q) : Receives(x, p))
<1>1. (\E x \in Content(c, p) : Sends(x, q)) <=> Has(c, p, "send", q)
  <2>1. ASSUME NEW x \in Content(c, p), Sends(x, q) PROVE Has(c, p, "send", q)
    BY <2>1, ContentOfInstructions, ContentHas DEF Sends
  <2>2. ASSUME Has(c, p, "send", q) PROVE \E x \in Content(c, p) : Sends(x, q)
    <3> DEFINE e == Ins("send", q)
    <3>1. e \in Instructions /\ e.do = "send" /\ e.peer = q
      BY InsType
    <3> HIDE DEF e
    <3>2. e \in Content(c, p) /\ Sends(e, q)
      BY <2>2, <3>1, ContentHas DEF Sends
    <3>3. QED BY <3>2
  <2>3. QED BY <2>1, <2>2
<1>2. (\E x \in Content(c, q) : Receives(x, p)) <=> \E d \in Receiving : Has(c, q, d, p)
  <2>1. ASSUME NEW x \in Content(c, q), Receives(x, p) PROVE \E d \in Receiving : Has(c, q, d, p)
    BY <2>1, ContentOfInstructions, ContentHas DEF Receives
  <2>2. ASSUME NEW d \in Receiving, Has(c, q, d, p) PROVE \E x \in Content(c, q) : Receives(x, p)
    <3> DEFINE e == Ins(d, p)
    <3>1. e \in Instructions /\ e.do = d /\ e.peer = p
      BY InsType
    <3> HIDE DEF e
    <3>2. e \in Content(c, q) /\ Receives(e, p)
      BY <2>2, <3>1, ContentHas DEF Receives
    <3>3. QED BY <3>2
  <2>3. QED BY <2>1, <2>2
<1>3. Has(c, p, "send", q) <=> \E d \in Receiving : Has(c, q, d, p)
  <2>1. p \in Nat /\ q \in Nat /\ (c.name \in {"broadcast_from", "collect_at"} => c.party # 0)
    BY PartyForm
  <2>2. (\E d \in Receiving : Has(c, q, d, p))
          <=> Has(c, q, "add", p) \/ Has(c, q, "take", p) \/ Has(c, q, "append", p) \/ Has(c, q, "check", p)
    BY DEF Receiving
  <2>3. Has(c, p, "send", q)
          <=> Has(c, q, "add", p) \/ Has(c, q, "take", p) \/ Has(c, q, "append", p) \/ Has(c, q, "check", p)
    <3>1. CASE c.name = "reveal"
      BY <2>1, <3>1 DEF Has
    <3>2. CASE c.name = "reveal_to_all"
      BY <2>1, <3>2 DEF Has
    <3>3. CASE c.name = "reveal_at"
      BY <2>1, <3>3 DEF Has
    <3>4. CASE c.name = "broadcast_from"
      BY <2>1, <3>4 DEF Has
    <3>5. CASE c.name = "collect"
      BY <2>1, <3>5 DEF Has
    <3>6. CASE c.name = "collect_at"
      BY <2>1, <3>6 DEF Has
    <3>7. CASE c.name = "is_broadcast"
      BY <2>1, <3>7 DEF Has
    <3>8. CASE c.name = "sync_lite"
      BY <2>1, <3>8 DEF Has
    <3>9. CASE c.name = "sync_full"
      BY <2>1, <3>9 DEF Has
    <3>10. CASE c.name = "sequential"
      BY <2>1, <3>10 DEF Has
    <3>11. QED BY CallForm, <3>1, <3>2, <3>3, <3>4, <3>5, <3>6, <3>7, <3>8, <3>9, <3>10
  <2>4. QED BY <2>2, <2>3
<1>4. QED BY <1>1, <1>2, <1>3

-----------------------------------------------------------------------------
\* What a party has at an instruction of its script.

\* x is the next instruction after those of E.
AtPlace(c, p, E, x) ==
  /\ x \in Content(c, p) /\ E \subseteq Content(c, p)
  /\ \A y \in E : ~ Same(y, x) /\ Order(c, p)[y] <= Order(c, p)[x]
  /\ \A y \in Content(c, p) : Order(c, p)[y] < Order(c, p)[x] => y \in E

Before(s, j) == {s[i] : i \in {m \in DOMAIN s : m < j}}

LEMMA OrderType ==
  ASSUME NEW c \in Calls, NEW p \in Parties
  PROVE  Order(c, p) \in [Instructions -> Int]
  BY CallForm, OrderTypes DEF Order

LEMMA Placed ==
  ASSUME NEW c \in Calls, NEW p \in Parties, NEW j \in 1 .. Len(Script(c, p))
  PROVE  AtPlace(c, p, Before(Script(c, p), j), Script(c, p)[j])
<1> DEFINE s == Script(c, p)
           X == Content(c, p)
           L == Order(c, p)
<1>1. Made(s, X, L) /\ L \in [Instructions -> Int] /\ X \subseteq Instructions
  BY ScriptMade, OrderType, ContentOfInstructions
<1> HIDE DEF s, X, L
<1>2. j \in 1 .. Len(s) /\ DOMAIN s = 1 .. Len(s) /\ Len(s) \in Nat
  BY <1>1 DEF Made, s
<1>3. s[j] \in X /\ Before(s, j) \subseteq X
  BY <1>1, <1>2 DEF Made, Before
<1>4. \A y \in Before(s, j) : ~ Same(y, s[j]) /\ L[y] <= L[s[j]]
  BY <1>1, <1>2 DEF Made, Before
<1>5. ASSUME NEW y \in X, L[y] < L[s[j]] PROVE y \in Before(s, j)
  <2>1. PICK i \in 1 .. Len(s) : s[i] = y
    BY <1>1 DEF Made
  <2>2. L[y] \in Int /\ L[s[j]] \in Int
    BY <1>1, <1>3
  <2>3. ~ (j < i) /\ i # j
    BY <1>1, <1>2, <1>5, <2>1, <2>2 DEF Made
  <2>4. i < j
    BY <1>2, <2>3
  <2>5. QED BY <1>2, <2>1, <2>4 DEF Before
<1>6. QED BY <1>3, <1>4, <1>5 DEF AtPlace, s, X, L

LEMMA AllBefore ==
  ASSUME NEW c \in Calls, NEW p \in Parties, NEW j \in Nat, j > Len(Script(c, p))
  PROVE  Before(Script(c, p), j) = Content(c, p)
<1> DEFINE s == Script(c, p)
<1>1. Made(s, Content(c, p), Order(c, p))
  BY ScriptMade
<1> HIDE DEF s
<1>2. DOMAIN s = 1 .. Len(s) /\ Len(s) \in Nat /\ j > Len(s)
  BY <1>1 DEF Made, s
<1>3. {m \in DOMAIN s : m < j} = 1 .. Len(s)
  BY <1>2
<1>4. QED BY <1>1, <1>3 DEF Made, Before, s

LEMMA ValueFacts ==
  /\ \A q \in Parties : SumOf({q}) = Own(q) /\ Own(q) \in Values
  /\ Zero \in Values /\ \A S : SumOf(S) \in Values
  /\ \A S, q : q \in Parties /\ q \notin S => SumOf(S \cup {q}) = Plus(SumOf(S), Own(q))
<1>1. ASSUME NEW q \in Parties PROVE SumOf({q}) = Own(q) /\ Own(q) \in Values
  BY DEF SumOf, Own, Zero, Values
<1>2. Zero \in Values /\ \A S : SumOf(S) \in Values
  BY DEF SumOf, Zero, Values
<1>3. ASSUME NEW S, NEW q \in Parties, q \notin S PROVE SumOf(S \cup {q}) = Plus(SumOf(S), Own(q))
  <2>1. \A r \in Parties : SumOf(S \cup {q})[r] = SumOf(S)[r] + Own(q)[r]
    BY <1>3 DEF SumOf, Own, Zero
  <2>2. SumOf(S \cup {q}) = [r \in Parties |-> SumOf(S)[r] + Own(q)[r]]
    BY <2>1 DEF SumOf
  <2>3. QED BY <2>2 DEF Plus
<1>4. QED BY <1>1, <1>2, <1>3

DoneIn(E, d) == \E x \in E : x.do = d
Added(E) == {q \in Parties : \E x \in E : x.do = "add" /\ x.peer = q}

LEMMA ValueAfterIs ==
  ASSUME NEW c, NEW p, NEW E
  PROVE  /\ DoneIn(E, "take") => ValueAfter(c, p, E) = Given(c)
         /\ ~ DoneIn(E, "take") /\ DoneIn(E, "clear") => ValueAfter(c, p, E) = Zero
         /\ ~ DoneIn(E, "take") /\ ~ DoneIn(E, "clear") /\ DoneIn(E, "reduce")
              => ValueAfter(c, p, E) = IF p = 1 THEN SumOf(Computing) ELSE Zero
         /\ ~ DoneIn(E, "take") /\ ~ DoneIn(E, "clear") /\ ~ DoneIn(E, "reduce")
              => ValueAfter(c, p, E) = SumOf({p} \cup Added(E))
  BY DEF DoneIn, Added, ValueAfter

\* What is done when an instruction is reached.
LEMMA AtPlaceHas ==
  ASSUME NEW c \in Calls, NEW p \in Parties, NEW E, NEW x, AtPlace(c, p, E, x)
  PROVE  /\ x \in Instructions /\ x.peer \in Parties /\ Has(c, p, x.do, x.peer)
         /\ E \subseteq Instructions
         /\ \A y \in E : y \in Instructions /\ y.peer \in Parties /\ Has(c, p, y.do, y.peer)
         /\ \A d \in {"send", "flush"} \cup Receiving \cup LocalDo, q \in Parties :
              LET y == Ins(d, q) IN
              /\ y \in Instructions /\ y.do = d /\ y.peer = q
              /\ Has(c, p, d, q) /\ Order(c, p)[y] < Order(c, p)[x] => y \in E
<1>1. x \in Content(c, p) /\ E \subseteq Content(c, p) /\ Content(c, p) \subseteq Instructions
  BY ContentOfInstructions DEF AtPlace
<1>2. \A y \in Instructions : y.peer \in Parties
  BY DEF Instructions
<1>3. ASSUME NEW d \in {"send", "flush"} \cup Receiving \cup LocalDo, NEW q \in Parties
      PROVE  LET y == Ins(d, q) IN
             /\ y \in Instructions /\ y.do = d /\ y.peer = q
             /\ Has(c, p, d, q) /\ Order(c, p)[y] < Order(c, p)[x] => y \in E
  <2> DEFINE y == Ins(d, q)
  <2>1. y \in Instructions /\ y.do = d /\ y.peer = q
    BY InsType
  <2> HIDE DEF y
  <2>2. Has(c, p, d, q) => y \in Content(c, p)
    BY <2>1, ContentHas
  <2>3. Has(c, p, d, q) /\ Order(c, p)[y] < Order(c, p)[x] => y \in E
    BY <2>2 DEF AtPlace
  <2>4. QED BY <2>1, <2>3 DEF y
<1>4. QED BY <1>1, <1>2, <1>3, ContentHas

LEMMA OrderIs ==
  ASSUME NEW c \in Calls, NEW p \in Parties, NEW x \in Instructions
  PROVE  LET n == Order(c, p)[x] IN
         /\ n \in Int
         /\ c.name \in {"reveal", "reveal_to_all"} =>
              /\ x.do = "add" => n = 0
              /\ x.do \in {"send", "flush"} => n = 1
              /\ x.do = "take" => n = 2
         /\ c.name \in {"reveal_at", "broadcast_from", "collect", "collect_at"} =>
              n = IF x.do = "keep" THEN p ELSE x.peer
         /\ c.name = "is_broadcast" =>
              /\ x.do = "append" => n = x.peer
              /\ x.do = "keep" => n = p
              /\ x.do = "reduce" => n = N
              /\ x.do \in {"take", "clear"} => n = N + 1
              /\ x.do \in {"send", "flush"} => n = IF p = 1 THEN N + 1 ELSE 0
         /\ c.name = "sync_lite" =>
              /\ x.do = "clear" => n = 0
              /\ x.do = "check" => n = IF p = 0 THEN 1 ELSE 2
              /\ x.do \in {"send", "flush"} => n = IF p = 0 THEN 2 ELSE 1
         /\ c.name = "sync_full" => n = IF x.do = "clear" THEN 0 ELSE 1
         /\ c.name = "sequential" =>
              /\ x.do = "take" => n = 0
              /\ x.do = "func" => n = 1
              /\ x.do \in {"send", "flush"} => n = 2
<1>1. Order(c, p)[x] \in Int
  BY OrderType
<1>2. CASE c.name \in {"reveal", "reveal_to_all"}
  BY <1>1, <1>2 DEF Order, RevealOrder
<1>3. CASE c.name \in {"reveal_at", "broadcast_from", "collect", "collect_at"}
  BY <1>1, <1>3 DEF Order, ByPeer
<1>4. CASE c.name = "is_broadcast"
  <2>1. Order(c, p)[x] = IsBroadcastOrder(p)[x]
    BY <1>4 DEF Order
  <2>2. /\ x.do = "append" => IsBroadcastOrder(p)[x] = x.peer
        /\ x.do = "keep" => IsBroadcastOrder(p)[x] = p
        /\ x.do = "reduce" => IsBroadcastOrder(p)[x] = N
        /\ x.do \in {"take", "clear"} => IsBroadcastOrder(p)[x] = N + 1
        /\ x.do \in {"send", "flush"} => IsBroadcastOrder(p)[x] = IF p = 1 THEN N + 1 ELSE 0
    BY DEF IsBroadcastOrder
  <2>3. QED BY <1>1, <1>4, <2>1, <2>2
<1>5. CASE c.name = "sync_lite"
  BY <1>1, <1>5 DEF Order, LiteOrder
<1>6. CASE c.name = "sync_full"
  BY <1>1, <1>6 DEF Order, FullOrder
<1>7. CASE c.name = "sequential"
  BY <1>1, <1>7 DEF Order, SequentialOrder
<1>8. QED BY <1>2, <1>3, <1>4, <1>5, <1>6, <1>7, CallForm

\* What a party sends is what its partners expect from it.
LEMMA SentRight ==
  ASSUME NEW c \in Calls, NEW p \in Parties, NEW E, NEW x, AtPlace(c, p, E, x), x.do = "send"
  PROVE  ValueAfter(c, p, E) = Carried(c, p)
<1> DEFINE L == Order(c, p)
           v == ValueAfter(c, p, E)
<1>1. /\ x \in Instructions /\ x.peer \in Parties /\ Has(c, p, "send", x.peer)
      /\ \A y \in E : y \in Instructions /\ y.peer \in Parties /\ Has(c, p, y.do, y.peer) /\ L[y] <= L[x]
  BY AtPlaceHas DEF AtPlace
<1>2. \A d \in {"send", "flush"} \cup Receiving \cup LocalDo, q \in Parties :
        LET y == Ins(d, q) IN
        /\ y \in Instructions /\ y.do = d /\ y.peer = q
        /\ Has(c, p, d, q) /\ L[y] < L[x] => y \in E
  BY AtPlaceHas
<1>3. /\ SumOf({p}) = Own(p) /\ p \in Nat /\ N \in Nat /\ N >= 3 /\ 0 \in Parties
      /\ \A q \in Parties : q \in Nat /\ q < N
      /\ c.name \in {"broadcast_from", "collect_at"} => c.party # 0 /\ c.party \in Parties
  BY ValueFacts, PartyForm, InsType
<1>4. /\ DoneIn(E, "take") => v = Given(c)
      /\ ~ DoneIn(E, "take") /\ DoneIn(E, "clear") => v = Zero
      /\ ~ DoneIn(E, "take") /\ ~ DoneIn(E, "clear") /\ DoneIn(E, "reduce")
           => v = IF p = 1 THEN SumOf(Computing) ELSE Zero
      /\ ~ DoneIn(E, "take") /\ ~ DoneIn(E, "clear") /\ ~ DoneIn(E, "reduce")
           => v = SumOf({p} \cup Added(E))
  BY ValueAfterIs
<1> HIDE DEF L, v
<1>5. CASE c.name \in {"reveal", "reveal_to_all"}
  <2>1. \A y \in Instructions : /\ y.do = "add" => L[y] = 0
                                /\ y.do \in {"send", "flush"} => L[y] = 1
                                /\ y.do = "take" => L[y] = 2
    BY <1>5, OrderIs DEF L
  <2>2. ~ DoneIn(E, "take") /\ ~ DoneIn(E, "clear") /\ ~ DoneIn(E, "reduce")
    <3>1. L[x] = 1
      BY <1>1, <2>1
    <3>2. ~ DoneIn(E, "take")
      BY <1>1, <2>1, <3>1 DEF DoneIn
    <3>3. CASE c.name = "reveal"
      BY <1>1, <3>2, <3>3 DEF DoneIn, Has
    <3>4. CASE c.name = "reveal_to_all"
      BY <1>1, <3>2, <3>4 DEF DoneIn, Has
    <3>5. QED BY <1>5, <3>3, <3>4
  <2>3. CASE p = 1
    <3>1. Added(E) = Computing \ {1}
      <4>1. ASSUME NEW q \in Computing \ {1} PROVE q \in Added(E)
        <5>1. q \in Parties /\ q > 1
          BY <1>3, <4>1 DEF Computing, Parties
        <5>2. Has(c, p, "add", q)
          BY <1>5, <2>3, <5>1 DEF Has
        <5>3. Ins("add", q) \in E /\ Ins("add", q).do = "add" /\ Ins("add", q).peer = q
          BY <1>1, <1>2, <2>1, <5>1, <5>2 DEF Receiving
        <5>4. QED BY <5>1, <5>3 DEF Added
      <4>2. ASSUME NEW q \in Added(E) PROVE q \in Computing \ {1}
        <5>1. q \in Parties /\ Has(c, p, "add", q)
          BY <1>1, <4>2 DEF Added
        <5>2. q > 1
          BY <1>5, <2>3, <5>1 DEF Has
        <5>3. QED BY <5>1, <5>2, <1>3 DEF Computing
      <4>3. QED BY <4>1, <4>2
    <3>2. {p} \cup Added(E) = Computing
      BY <1>3, <2>3, <3>1 DEF Computing
    <3>3. QED BY <1>4, <1>5, <2>2, <2>3, <3>2 DEF Carried, v
  <2>4. CASE p # 1
    <3>1. Added(E) = {}
      BY <1>1, <1>5, <2>4 DEF Added, Has
    <3>2. {p} \cup Added(E) = {p}
      BY <3>1
    <3>3. QED BY <1>3, <1>4, <1>5, <2>2, <2>4, <3>2 DEF Carried, v
  <2>5. QED BY <2>3, <2>4
<1>6. CASE c.name \in {"reveal_at", "broadcast_from", "collect", "collect_at"}
  <2>1. ~ DoneIn(E, "take") /\ ~ DoneIn(E, "clear") /\ ~ DoneIn(E, "reduce")
    <3>1. CASE c.name = "reveal_at"
      BY <1>1, <3>1 DEF DoneIn, Has
    <3>2. CASE c.name = "broadcast_from"
      BY <1>1, <1>3, <3>2 DEF DoneIn, Has
    <3>3. CASE c.name = "collect"
      BY <1>1, <3>3 DEF DoneIn, Has
    <3>4. CASE c.name = "collect_at"
      BY <1>1, <3>4 DEF DoneIn, Has
    <3>5. QED BY <1>6, <3>1, <3>2, <3>3, <3>4
  <2>2. Added(E) = {}
    <3>1. CASE c.name = "reveal_at"
      BY <1>1, <3>1 DEF Added, Has
    <3>2. CASE c.name = "broadcast_from"
      BY <1>1, <3>2 DEF Added, Has
    <3>3. CASE c.name = "collect"
      BY <1>1, <3>3 DEF Added, Has
    <3>4. CASE c.name = "collect_at"
      BY <1>1, <3>4 DEF Added, Has
    <3>5. QED BY <1>6, <3>1, <3>2, <3>3, <3>4
  <2>3. {p} \cup Added(E) = {p}
    BY <2>2
  <2>4. QED BY <1>3, <1>4, <1>6, <2>1, <2>3 DEF Carried, v
<1>7. CASE c.name = "is_broadcast"
  <2>1. \A y \in Instructions : /\ y.do = "reduce" => L[y] = N
                                /\ y.do \in {"take", "clear"} => L[y] = N + 1
                                /\ y.do = "send" => L[y] = IF p = 1 THEN N + 1 ELSE 0
    BY <1>7, OrderIs DEF L
  <2>2. ~ DoneIn(E, "take") /\ ~ DoneIn(E, "clear")
    BY <1>1, <1>3, <1>7, <2>1 DEF DoneIn, Has
  <2>3. CASE p = 1
    <3>1. Has(c, p, "reduce", 0)
      BY <1>7 DEF Has
    <3>2. Ins("reduce", 0) \in E /\ Ins("reduce", 0).do = "reduce"
      <4> DEFINE y == Ins("reduce", 0)
      <4>1. y \in Instructions /\ y.do = "reduce" /\ (L[y] < L[x] => y \in E)
        BY <1>2, <1>3, <3>1 DEF LocalDo
      <4>2. L[y] = N /\ L[x] = N + 1
        BY <1>1, <2>1, <2>3, <4>1
      <4>3. QED BY <1>3, <4>1, <4>2
    <3>3. DoneIn(E, "reduce")
      BY <3>2 DEF DoneIn
    <3>4. QED BY <1>4, <1>7, <2>2, <2>3, <3>3 DEF Carried, v
  <2>4. CASE p # 1
    <3>1. ~ DoneIn(E, "reduce") /\ Added(E) = {}
      <4>1. ~ DoneIn(E, "reduce")
        BY <1>1, <1>3, <2>1, <2>4 DEF DoneIn
      <4>2. Added(E) = {}
        BY <1>1, <1>7 DEF Added, Has
      <4>3. QED BY <4>1, <4>2
    <3>2. {p} \cup Added(E) = {p}
      BY <3>1
    <3>3. QED BY <1>3, <1>4, <1>7, <2>2, <2>4, <3>1, <3>2 DEF Carried, v
  <2>5. QED BY <2>3, <2>4
<1>8. CASE c.name \in {"sync_lite", "sync_full"}
  <2>1. L[x] >= 1 /\ L[Ins("clear", 0)] = 0 /\ L[x] \in Int
    <3>1. Ins("clear", 0) \in Instructions /\ Ins("clear", 0).do = "clear"
      BY <1>2, <1>3 DEF LocalDo
    <3>2. QED BY <1>1, <1>8, <3>1, OrderIs DEF L
  <2>2. Has(c, p, "clear", 0)
    BY <1>8 DEF Has
  <2>3. DoneIn(E, "clear")
    BY <1>2, <1>3, <2>1, <2>2 DEF DoneIn, LocalDo
  <2>4. ~ DoneIn(E, "take")
    BY <1>1, <1>8 DEF DoneIn, Has
  <2>5. QED BY <1>4, <1>8, <2>3, <2>4 DEF Carried, v
<1>9. CASE c.name = "sequential"
  <2>1. \A y \in Instructions : /\ y.do = "take" => L[y] = 0
                                /\ y.do = "send" => L[y] = 2
    BY <1>9, OrderIs DEF L
  <2>2. CASE p = 0
    <3>1. ~ DoneIn(E, "take") /\ ~ DoneIn(E, "clear") /\ ~ DoneIn(E, "reduce") /\ Added(E) = {}
      <4>1. ~ DoneIn(E, "take") /\ ~ DoneIn(E, "clear") /\ ~ DoneIn(E, "reduce")
        BY <1>1, <1>3, <1>9, <2>2 DEF DoneIn, Has
      <4>2. Added(E) = {}
        BY <1>1, <1>9 DEF Added, Has
      <4>3. QED BY <4>1, <4>2
    <3>2. {p} \cup Added(E) = {p}
      BY <3>1
    <3>3. QED BY <1>3, <1>4, <1>9, <2>2, <3>1, <3>2 DEF Carried, v
  <2>3. CASE p # 0
    <3>1. p - 1 \in Parties /\ Has(c, p, "take", p - 1)
      BY <1>3, <1>9, <2>3 DEF Has, Parties
    <3>2. Ins("take", p - 1) \in E /\ Ins("take", p - 1).do = "take"
      BY <1>1, <1>2, <2>1, <3>1 DEF Receiving
    <3>3. DoneIn(E, "take")
      BY <3>2 DEF DoneIn
    <3>4. QED BY <1>4, <1>9, <3>3 DEF Carried, Given, v
  <2>4. QED BY <2>2, <2>3
<1>10. QED BY <1>5, <1>6, <1>7, <1>8, <1>9, CallForm

LEMMA CarriedIs ==
  ASSUME NEW c \in Calls, NEW p \in Parties, NEW x \in Content(c, p)
  PROVE  /\ x.do = "take" => Carried(c, x.peer) = Given(c)
         /\ x.do \in {"add", "append"} => Carried(c, x.peer) = Own(x.peer)
<1> DEFINE q == x.peer
<1>1. Has(c, p, x.do, q) /\ q \in Nat
  BY ContentOfInstructions, ContentHas, PartyForm DEF Instructions
<1> HIDE DEF q
<1>2. CASE c.name \in {"reveal", "reveal_to_all"}
  <2>1. CASE c.name = "reveal"
    BY <1>1, <2>1 DEF Has, Carried, Given, q
  <2>2. CASE c.name = "reveal_to_all"
    BY <1>1, <2>2 DEF Has, Carried, Given, q
  <2>3. QED BY <1>2, <2>1, <2>2
<1>3. CASE c.name \in {"reveal_at", "collect"}
  BY <1>1, <1>3 DEF Has, Carried, Given, q
<1>4. CASE c.name \in {"broadcast_from", "collect_at"}
  BY <1>1, <1>4 DEF Has, Carried, Given, q
<1>5. CASE c.name = "is_broadcast"
  BY <1>1, <1>5 DEF Has, Carried, Given, q
<1>6. CASE c.name \in {"sync_lite", "sync_full"}
  BY <1>1, <1>6 DEF Has, Carried, Given, q
<1>7. CASE c.name = "sequential"
  BY <1>1, <1>7 DEF Has, Carried, Given, q
<1>8. QED BY <1>2, <1>3, <1>4, <1>5, <1>6, <1>7, CallForm

LEMMA KeepsValue ==
  ASSUME NEW c, NEW p, NEW E, NEW x, x.do \notin {"add", "take", "clear", "reduce"}
  PROVE  ValueAfter(c, p, E \cup {x}) = ValueAfter(c, p, E)
<1> DEFINE F == E \cup {x}
<1>1. /\ DoneIn(F, "take") <=> DoneIn(E, "take")
      /\ DoneIn(F, "clear") <=> DoneIn(E, "clear")
      /\ DoneIn(F, "reduce") <=> DoneIn(E, "reduce")
  BY DEF DoneIn
<1>2. Added(F) = Added(E)
  BY DEF Added
<1> HIDE DEF F
<1>3. \A G : ValueAfter(c, p, G) = IF DoneIn(G, "take") THEN Given(c)
                                  ELSE IF DoneIn(G, "clear") THEN Zero
                                  ELSE IF DoneIn(G, "reduce") THEN (IF p = 1 THEN SumOf(Computing) ELSE Zero)
                                  ELSE SumOf({p} \cup Added(G))
  BY DEF ValueAfter, DoneIn, Added
<1>4. ValueAfter(c, p, F) = ValueAfter(c, p, E)
  BY <1>1, <1>2, <1>3
<1>5. QED BY <1>4 DEF F

LEMMA AddRight ==
  ASSUME NEW c \in Calls, NEW p \in Parties, NEW E, NEW x, AtPlace(c, p, E, x), x.do = "add"
  PROVE  ValueAfter(c, p, E \cup {x}) = Plus(ValueAfter(c, p, E), Own(x.peer))
<1> DEFINE F == E \cup {x}
<1>1. /\ x.peer \in Parties /\ Has(c, p, "add", x.peer)
      /\ \A y \in E : Has(c, p, y.do, y.peer) /\ ~ Same(y, x)
  BY AtPlaceHas DEF AtPlace
<1>2. p \in Nat /\ x.peer \in Nat
  BY <1>1, PartyForm
<1>3. \A d \in {"take", "clear", "reduce"} : ~ DoneIn(F, d) /\ ~ DoneIn(E, d)
  <2>1. c.name \in {"reveal", "reveal_to_all", "reveal_at"}
    BY <1>1, CallForm DEF Has
  <2>2. CASE c.name = "reveal"
    BY <1>1, <1>2, <2>2 DEF Has, DoneIn
  <2>3. CASE c.name = "reveal_to_all"
    BY <1>1, <1>2, <2>3 DEF Has, DoneIn
  <2>4. CASE c.name = "reveal_at"
    BY <1>1, <1>2, <2>4 DEF Has, DoneIn
  <2>5. QED BY <2>1, <2>2, <2>3, <2>4
<1>4. Added(F) = Added(E) \cup {x.peer}
  BY <1>1 DEF Added
<1>5. x.peer \notin Added(E)
  BY <1>1 DEF Added, Same
<1>6. x.peer # p
  BY OthersOnly DEF LocalDo, AtPlace
<1> HIDE DEF F
<1>7. ValueAfter(c, p, F) = SumOf({p} \cup Added(F)) /\ ValueAfter(c, p, E) = SumOf({p} \cup Added(E))
  BY <1>3, ValueAfterIs
<1>8. {p} \cup Added(F) = ({p} \cup Added(E)) \cup {x.peer} /\ x.peer \notin {p} \cup Added(E)
  BY <1>4, <1>5, <1>6
<1>9. SumOf(({p} \cup Added(E)) \cup {x.peer}) = Plus(SumOf({p} \cup Added(E)), Own(x.peer))
  BY <1>1, <1>8, ValueFacts
<1>10. QED BY <1>7, <1>8, <1>9 DEF F

LEMMA TakeRight ==
  ASSUME NEW c, NEW p, NEW E, NEW x, x.do = "take"
  PROVE  ValueAfter(c, p, E \cup {x}) = Given(c)
<1>1. DoneIn(E \cup {x}, "take")
  BY DEF DoneIn
<1>2. QED BY <1>1, ValueAfterIs

LEMMA ClearRight ==
  ASSUME NEW c \in Calls, NEW p \in Parties, NEW E, NEW x, AtPlace(c, p, E, x), x.do = "clear"
  PROVE  ValueAfter(c, p, E \cup {x}) = Zero
<1>1. /\ x.peer \in Parties /\ Has(c, p, "clear", x.peer)
      /\ \A y \in E : Has(c, p, y.do, y.peer)
  BY AtPlaceHas
<1>2. c.name \in {"broadcast_from", "is_broadcast", "sync_lite", "sync_full"}
  BY <1>1, CallForm DEF Has
<1>3. ~ DoneIn(E, "take")
  <2>1. CASE c.name = "broadcast_from"
    BY <1>1, <2>1, PartyForm DEF Has, DoneIn
  <2>2. CASE c.name = "is_broadcast"
    BY <1>1, <2>2 DEF Has, DoneIn
  <2>3. CASE c.name \in {"sync_lite", "sync_full"}
    BY <1>1, <2>3 DEF Has, DoneIn
  <2>4. QED BY <1>2, <2>1, <2>2, <2>3
<1>4. ~ DoneIn(E \cup {x}, "take") /\ DoneIn(E \cup {x}, "clear")
  BY <1>3 DEF DoneIn
<1>5. QED BY <1>4, ValueAfterIs

LEMMA ReduceRight ==
  ASSUME NEW c \in Calls, NEW p \in Parties, NEW E, NEW x, AtPlace(c, p, E, x), x.do = "reduce"
  PROVE  /\ ValueAfter(c, p, E \cup {x}) = IF p = 1 THEN SumOf(Computing) ELSE Zero
         /\ Members(p, E) = IF p = 1 THEN Computing ELSE {}
<1> DEFINE L == Order(c, p)
<1>1. /\ x \in Instructions /\ x.peer \in Parties /\ Has(c, p, "reduce", x.peer)
      /\ \A y \in E : y \in Instructions /\ y.peer \in Parties /\ Has(c, p, y.do, y.peer) /\ L[y] <= L[x]
  <2>1. \A y \in E : Order(c, p)[y] <= Order(c, p)[x]
    BY DEF AtPlace
  <2>2. QED BY <2>1, AtPlaceHas
<1>2. \A d \in {"send", "flush"} \cup Receiving \cup LocalDo, q \in Parties :
        LET y == Ins(d, q) IN
        /\ y \in Instructions /\ y.do = d /\ y.peer = q
        /\ Has(c, p, d, q) /\ L[y] < L[x] => y \in E
  BY AtPlaceHas
<1>3. c.name = "is_broadcast"
  BY <1>1, CallForm DEF Has
<1>4. /\ p \in Nat /\ N \in Nat /\ N >= 3 /\ 0 \in Parties
      /\ \A q \in Parties : q \in Nat /\ q < N
  BY PartyForm, InsType
<1>5. \A y \in Instructions : /\ y.do = "append" => L[y] = y.peer
                              /\ y.do = "keep" => L[y] = p
                              /\ y.do = "reduce" => L[y] = N
                              /\ y.do \in {"take", "clear"} => L[y] = N + 1
  BY <1>3, OrderIs
<1> HIDE DEF L
<1>6. ~ DoneIn(E, "take") /\ ~ DoneIn(E, "clear")
  BY <1>1, <1>4, <1>5 DEF DoneIn
<1>7. ~ DoneIn(E \cup {x}, "take") /\ ~ DoneIn(E \cup {x}, "clear") /\ DoneIn(E \cup {x}, "reduce")
  BY <1>6 DEF DoneIn
<1>8. CASE p = 1
  <2>1. ASSUME NEW q \in Members(p, E) PROVE q \in Computing
    <3>1. q = 1 \/ (q \in Parties /\ Has(c, p, "append", q))
      BY <1>1, <1>8, <2>1 DEF Members
    <3>2. q \in Nat /\ q < N /\ q >= 1
      BY <1>3, <1>4, <1>8, <3>1 DEF Has
    <3>3. QED BY <1>4, <3>2 DEF Computing
  <2>2. ASSUME NEW q \in Computing PROVE q \in Members(p, E)
    <3>1. q \in Parties /\ q > 0 /\ q < N
      BY <1>4 DEF Computing, Parties
    <3>2. CASE q = 1
      <4>1. Has(c, p, "keep", 0)
        BY <1>3, <1>8 DEF Has
      <4> DEFINE y == Ins("keep", 0)
      <4>2. y \in Instructions /\ y.do = "keep" /\ (L[y] < L[x] => y \in E)
        BY <1>2, <1>4, <4>1 DEF LocalDo
      <4>3. L[y] < L[x]
        BY <1>1, <1>4, <1>5, <1>8, <4>2
      <4> HIDE DEF y
      <4>4. QED BY <1>8, <3>1, <3>2, <4>2, <4>3 DEF Members
    <3>3. CASE q # 1
      <4>1. Has(c, p, "append", q)
        BY <1>3, <1>8, <3>1, <3>3, PartyForm DEF Has
      <4> DEFINE y == Ins("append", q)
      <4>2. y \in Instructions /\ y.do = "append" /\ y.peer = q /\ (L[y] < L[x] => y \in E)
        BY <1>2, <3>1, <4>1 DEF Receiving
      <4>3. L[y] < L[x]
        BY <1>1, <3>1, <1>5, <4>2
      <4> HIDE DEF y
      <4>4. QED BY <3>1, <4>2, <4>3 DEF Members
    <3>4. QED BY <3>2, <3>3
  <2>3. QED BY <1>7, <1>8, <2>1, <2>2, ValueAfterIs
<1>9. CASE p # 1
  <2>1. Members(p, E) = {}
    BY <1>1, <1>3, <1>9 DEF Members, Has
  <2>2. QED BY <1>7, <1>9, <2>1, ValueAfterIs
<1>10. QED BY <1>8, <1>9

LEMMA KeepRight ==
  ASSUME NEW c \in Calls, NEW p \in Parties, NEW E, NEW x, AtPlace(c, p, E, x), x.do = "keep"
  PROVE  ValueAfter(c, p, E) = Own(p)
<1>1. /\ x \in Instructions /\ x.peer \in Parties /\ Has(c, p, "keep", x.peer)
      /\ \A y \in E : y \in Instructions /\ Has(c, p, y.do, y.peer) /\ Order(c, p)[y] <= Order(c, p)[x]
  <2>1. \A y \in E : Order(c, p)[y] <= Order(c, p)[x]
    BY DEF AtPlace
  <2>2. QED BY <2>1, AtPlaceHas
<1>2. c.name \in {"collect", "collect_at", "is_broadcast"}
  BY <1>1, CallForm DEF Has
<1>3. Added(E) = {}
  <2>1. CASE c.name = "collect"
    BY <1>1, <2>1 DEF Has, Added
  <2>2. CASE c.name = "collect_at"
    BY <1>1, <2>2 DEF Has, Added
  <2>3. CASE c.name = "is_broadcast"
    BY <1>1, <2>3 DEF Has, Added
  <2>4. QED BY <1>2, <2>1, <2>2, <2>3
<1>4. ~ DoneIn(E, "take") /\ ~ DoneIn(E, "clear") /\ ~ DoneIn(E, "reduce")
  <2>1. CASE c.name = "collect"
    BY <1>1, <2>1 DEF Has, DoneIn
  <2>2. CASE c.name = "collect_at"
    BY <1>1, <2>2 DEF Has, DoneIn
  <2>3. CASE c.name = "is_broadcast"
    <3>1. Order(c, p)[x] = p /\ p < N /\ p \in Nat /\ N \in Nat
      BY <1>1, <2>3, OrderIs, PartyForm
    <3>2. \A y \in E : /\ y.do = "reduce" => Order(c, p)[y] = N
                       /\ y.do \in {"take", "clear"} => Order(c, p)[y] = N + 1
      BY <1>1, <2>3, OrderIs
    <3>3. QED BY <1>1, <3>1, <3>2 DEF DoneIn
  <2>4. QED BY <1>2, <2>1, <2>2, <2>3
<1>5. {p} \cup Added(E) = {p}
  BY <1>3
<1>6. ValueAfter(c, p, E) = SumOf({p} \cup Added(E))
  BY <1>4, ValueAfterIs
<1>7. QED BY <1>5, <1>6, ValueFacts

LEMMA MembersGrow ==
  ASSUME NEW p \in Parties, NEW E, NEW x \in Instructions
  PROVE  /\ x.do = "append" => Members(p, E \cup {x}) = Members(p, E) \cup {x.peer}
         /\ x.do = "keep" => Members(p, E \cup {x}) = Members(p, E) \cup {p}
         /\ x.do \notin {"append", "keep"} => Members(p, E \cup {x}) = Members(p, E)
<1>1. x.peer \in Parties
  BY DEF Instructions
<1>2. QED BY <1>1 DEF Members

LEMMA MembersBelow ==
  ASSUME NEW c \in Calls, NEW p \in Parties, NEW E, NEW x, AtPlace(c, p, E, x)
  PROVE  /\ x.do = "append" => \A m \in Members(p, E) : m < x.peer
         /\ x.do = "keep" => \A m \in Members(p, E) : m < p
<1> DEFINE L == Order(c, p)
<1>1. /\ x \in Instructions /\ x.peer \in Parties /\ Has(c, p, x.do, x.peer)
      /\ \A y \in E : /\ y \in Instructions /\ y.peer \in Parties
                      /\ ~ Same(y, x) /\ L[y] <= L[x]
  BY AtPlaceHas DEF AtPlace
<1>2. \A y \in E : y.do \notin LocalDo => y.peer # p
  BY OthersOnly DEF AtPlace
<1>3. x.do = "append" => x.peer # p
  BY OthersOnly DEF AtPlace, LocalDo
<1>4. p \in Nat /\ \A q \in Parties : q \in Nat
  BY PartyForm
<1>5. ASSUME x.do \in {"append", "keep"}
      PROVE  \A y \in Instructions : /\ y.do = "append" => L[y] = y.peer
                                     /\ y.do = "keep" => L[y] = p
  <2>1. c.name \in {"collect", "collect_at", "is_broadcast"}
    BY <1>1, <1>5, CallForm DEF Has
  <2>2. QED BY <2>1, OrderIs
<1> HIDE DEF L
<1>6. ASSUME x.do = "append", NEW m \in Members(p, E) PROVE m < x.peer
  <2>1. L[x] = x.peer
    BY <1>1, <1>5, <1>6
  <2>2. CASE \E y \in E : y.do = "append" /\ y.peer = m
    <3>1. PICK y \in E : y.do = "append" /\ y.peer = m
      BY <2>2
    <3>2. L[y] = m /\ m # x.peer /\ m \in Nat /\ x.peer \in Nat
      BY <1>1, <1>4, <1>5, <1>6, <3>1 DEF Same
    <3>3. L[y] <= L[x]
      BY <1>1
    <3>4. QED BY <2>1, <3>2, <3>3
  <2>3. CASE m = p /\ \E y \in E : y.do = "keep"
    <3>1. PICK y \in E : y.do = "keep"
      BY <2>3
    <3>2. L[y] = p /\ L[y] <= L[x] /\ x.peer \in Nat
      BY <1>1, <1>4, <1>5, <1>6, <3>1
    <3>3. QED BY <1>3, <1>4, <1>6, <2>1, <2>3, <3>2
  <2>4. QED BY <1>6, <2>2, <2>3 DEF Members
<1>7. ASSUME x.do = "keep", NEW m \in Members(p, E) PROVE m < p
  <2>1. L[x] = p
    BY <1>1, <1>5, <1>7
  <2>2. ASSUME NEW y \in E PROVE y.do # "keep"
    <3>1. x.peer = 0 /\ (y.do = "keep" => y.peer = 0)
      <4>1. Has(c, p, "keep", x.peer) /\ Has(c, p, y.do, y.peer)
        BY <1>1, <1>7, AtPlaceHas
      <4>2. \A q : Has(c, p, "keep", q) => q = 0
        BY CallForm DEF Has
      <4>3. QED BY <4>1, <4>2
    <3>2. QED BY <1>1, <1>7, <3>1 DEF Same
  <2>3. PICK y \in E : y.do = "append" /\ y.peer = m
    BY <1>7, <2>2 DEF Members
  <2>4. L[y] = m /\ m # p /\ m \in Nat
    BY <1>1, <1>2, <1>4, <1>5, <1>7, <2>3 DEF LocalDo
  <2>5. L[y] <= L[x]
    BY <1>1
  <2>6. QED BY <1>4, <2>1, <2>4, <2>5
<1>8. QED BY <1>6, <1>7

-----------------------------------------------------------------------------
\* The lists, in the order of the parties, and their sum.

LEMMA PartiesFinite ==
  ASSUME NEW T \in SUBSET Parties
  PROVE  IsFiniteSet(T) /\ Cardinality(T) \in Nat
<1>1. IsFiniteSet(Parties)
  BY NAssumption, FS_Interval DEF Parties
<1>2. QED BY <1>1, FS_Subset, FS_CardinalityType

LEMMA InOrderEmpty == InOrder({}) = <<>>
<1>1. Cardinality({}) = 0
  BY FS_EmptySet
<1>2. QED BY <1>1 DEF InOrder

LEMMA InOrderType == \A T \in SUBSET Parties : InOrder(T) \in Seq(Values)
<1>1. \A r : Own(r) \in Values
  BY DEF Own, Zero, Values
<1>2. SUFFICES ASSUME NEW T \in SUBSET Parties PROVE InOrder(T) \in Seq(Values)
  OBVIOUS
<1> DEFINE n == Cardinality(T)
           F(i) == Own(CHOOSE q \in {r \in T : Cardinality({m \in T : m <= r}) = i} : TRUE)
<1>3. n \in Nat
  BY PartiesFinite
<1>4. InOrder(T) = [i \in 1 .. n |-> F(i)]
  BY DEF InOrder
<1>5. \A i : F(i) \in Values
  BY <1>1
<1> HIDE DEF n, F
<1>6. [i \in 1 .. n |-> F(i)] \in Seq(Values)
  BY <1>3, <1>5
<1>7. QED BY <1>4, <1>6

LEMMA InOrderAppend ==
  ASSUME NEW T \in SUBSET Parties, NEW q \in Parties, \A m \in T : m < q
  PROVE  InOrder(T \cup {q}) = Append(InOrder(T), Own(q))
<1> DEFINE n == Cardinality(T)
           U == T \cup {q}
           At(S, i) == {r \in S : Cardinality({m \in S : m <= r}) = i}
<1>1. \A r \in Parties : r \in Nat
  BY PartyForm
<1>2. q \notin T /\ T \subseteq Nat /\ q \in Nat
  BY <1>1
<1>3. n \in Nat /\ Cardinality(U) = n + 1
  BY <1>2, PartiesFinite, FS_AddElement
<1>4. \A r \in T : {m \in U : m <= r} = {m \in T : m <= r} /\ Cardinality({m \in T : m <= r}) \in 0 .. n
  <2>1. TAKE r \in T
  <2>2. {m \in U : m <= r} = {m \in T : m <= r}
    BY <1>1, <1>2
  <2>3. Cardinality({m \in T : m <= r}) \in Nat /\ Cardinality({m \in T : m <= r}) <= n
    BY PartiesFinite, FS_Subset
  <2>4. QED BY <1>3, <2>2, <2>3
<1>5. {m \in U : m <= q} = U
  <2>1. \A m \in U : m <= q
    BY <1>1
  <2> HIDE DEF U
  <2>2. QED BY <2>1
<1>6. /\ \A r \in T : Cardinality({m \in U : m <= r}) = Cardinality({m \in T : m <= r})
      /\ \A r \in T : Cardinality({m \in T : m <= r}) \in Nat /\ Cardinality({m \in T : m <= r}) <= n
      /\ Cardinality({m \in U : m <= q}) = n + 1
      /\ U = T \cup {q}
  BY <1>3, <1>4, <1>5
<1>7. ASSUME NEW i \in 1 .. n PROVE At(U, i) = At(T, i)
  <2>1. n \in Nat
    BY <1>3
  <2> HIDE DEF n, U
  <2>2. ASSUME NEW r \in U, Cardinality({m \in U : m <= r}) = i PROVE r \in T
    <3>1. CASE r \in T
      BY <3>1
    <3>2. CASE r = q
      <4>1. i = n + 1 /\ i \in Nat /\ i <= n
        BY <1>6, <2>1, <2>2, <3>2
      <4>2. QED BY <2>1, <4>1
    <3>3. QED BY <1>6, <3>1, <3>2
  <2>3. QED BY <1>6, <2>2
<1>8. At(U, n + 1) = {q}
  <2>1. n \in Nat
    BY <1>3
  <2> HIDE DEF n, U
  <2>2. ASSUME NEW r \in U, Cardinality({m \in U : m <= r}) = n + 1 PROVE r = q
    <3>1. CASE r \in T
      <4> DEFINE k == Cardinality({m \in T : m <= r})
      <4>1. k = n + 1 /\ k \in Nat /\ k <= n
        BY <1>6, <2>2, <3>1
      <4> HIDE DEF k
      <4>2. QED BY <2>1, <4>1
    <3>2. QED BY <1>6, <3>1
  <2>3. q \in U /\ Cardinality({m \in U : m <= q}) = n + 1
    BY <1>6
  <2>4. QED BY <2>2, <2>3
<1> DEFINE f == InOrder(T)
           g == InOrder(U)
<1>9. /\ f = [i \in 1 .. n |-> Own(CHOOSE r \in At(T, i) : TRUE)]
      /\ g = [i \in 1 .. n + 1 |-> Own(CHOOSE r \in At(U, i) : TRUE)]
  BY <1>3 DEF InOrder
<1>10. f \in Seq(Values) /\ g \in Seq(Values)
  <2>1. U \in SUBSET Parties
    OBVIOUS
  <2> HIDE DEF U
  <2>2. QED BY <2>1, InOrderType
<1> HIDE DEF f, g, At, n, U
<1>11. \A i \in 1 .. n : g[i] = f[i]
  BY <1>3, <1>7, <1>9
<1>12. g[n + 1] = Own(q)
  BY <1>3, <1>8, <1>9
<1>13. Len(f) = n /\ Len(g) = n + 1
  BY <1>3, <1>9
<1> DEFINE h == Append(f, Own(q))
<1>14. h \in Seq(Values) /\ Len(h) = n + 1 /\ (\A i \in 1 .. n : h[i] = f[i]) /\ h[n + 1] = Own(q)
  <2>1. Own(q) \in Values
    BY ValueFacts
  <2>2. h \in Seq(Values) /\ Len(h) = Len(f) + 1
    BY <1>10, <2>1
  <2>3. (\A i \in 1 .. Len(f) : h[i] = f[i]) /\ h[Len(f) + 1] = Own(q)
    BY <1>10, <2>1
  <2> HIDE DEF h
  <2>4. QED BY <1>13, <2>2, <2>3
<1> HIDE DEF h
<1>15. g = h
  <2>1. \A i \in 1 .. n + 1 : g[i] = h[i]
    BY <1>3, <1>11, <1>12, <1>14
  <2>2. QED BY <1>3, <1>10, <1>13, <1>14, <2>1
<1>16. QED BY <1>15 DEF f, g, h, U

LEMMA InOrderComputing == InOrder(Computing) = [i \in 1 .. N - 1 |-> Own(i)]
<1>1. N - 1 \in Nat /\ Cardinality(Computing) = N - 1
  BY NAssumption, FS_Interval DEF Computing
<1>2. \A r \in Computing : Cardinality({m \in Computing : m <= r}) = r
  <2>1. TAKE r \in Computing
  <2>2. {m \in Computing : m <= r} = 1 .. r /\ r \in Nat
    <3>1. N - 1 \in Nat /\ r \in 1 .. N - 1
      BY <1>1 DEF Computing
    <3>2. \A m : m \in 1 .. N - 1 /\ m <= r <=> m \in 1 .. r
      BY <3>1
    <3>3. QED BY <3>1, <3>2 DEF Computing
  <2>3. Cardinality(1 .. r) = r
    BY <2>2, FS_Interval
  <2>4. QED BY <2>2, <2>3
<1>3. \A i \in 1 .. N - 1 : {r \in Computing : Cardinality({m \in Computing : m <= r}) = i} = {i}
  BY <1>2 DEF Computing
<1>4. \A i \in 1 .. N - 1 :
        (CHOOSE q \in {r \in Computing : Cardinality({m \in Computing : m <= r}) = i} : TRUE) = i
  <2>1. \A i : (CHOOSE q \in {i} : TRUE) = i
    OBVIOUS
  <2>2. TAKE i \in 1 .. N - 1
  <2>3. {r \in Computing : Cardinality({m \in Computing : m <= r}) = i} = {i}
    BY <1>3
  <2>4. QED BY <2>1, <2>3
<1> DEFINE f == InOrder(Computing)
<1>5. f = [i \in 1 .. N - 1 |->
            Own(CHOOSE q \in {r \in Computing : Cardinality({m \in Computing : m <= r}) = i} : TRUE)]
  BY <1>1 DEF InOrder
<1>6. QED BY <1>4, <1>5

\* The sum of such a list, by the recursion of FoldSeq.
LEMMA SumOfStep ==
  ASSUME NEW s \in SUBSET Parties, NEW x \in s
  PROVE  SumOf(s) = Plus(Own(x), SumOf(s \ {x}))
<1>1. s = (s \ {x}) \cup {x} /\ x \notin s \ {x} /\ x \in Parties
  OBVIOUS
<1> DEFINE r == s \ {x}
<1>2. SumOf(s) = Plus(SumOf(r), Own(x))
  <2> HIDE DEF r
  <2>1. SumOf(r \cup {x}) = Plus(SumOf(r), Own(x))
    BY <1>1, ValueFacts DEF r
  <2>2. QED BY <1>1, <2>1 DEF r
<1>3. Plus(SumOf(r), Own(x)) = Plus(Own(x), SumOf(r))
  <2>1. SumOf(r) \in Values /\ Own(x) \in Values
    BY <1>1, ValueFacts
  <2> HIDE DEF r
  <2>2. QED BY <2>1 DEF Plus, Values
<1>4. QED BY <1>2, <1>3

LEMMA FoldIs ==
  ASSUME NEW n \in Nat, n < N
  PROVE  FoldSeq(Plus, Zero, [i \in 1 .. n |-> Own(i)]) = SumOf(1 .. n)
<1> DEFINE D == 1 .. n
           seq == [i \in D |-> Own(i)]
           Pick(s) == CHOOSE x \in s : TRUE
           Eq(f) == f = [s \in SUBSET D |->
                          IF s = {} THEN Zero ELSE Plus(seq[Pick(s)], f[s \ {Pick(s)}])]
<1>1. FoldSeq(Plus, Zero, seq) = (CHOOSE f : Eq(f))[D]
  BY DEF FoldSeq, FoldFunction, FoldFunctionOnSet, MapThenFoldSet
<1>2. D \in SUBSET Parties
  <2>1. \A i \in D : i \in 0 .. N - 1
    BY NAssumption
  <2>2. QED BY <2>1 DEF Parties
<1>3. \A s \in SUBSET D : s # {} => Pick(s) \in s
  OBVIOUS
<1>4. SumOf({}) = Zero
  BY DEF SumOf, Zero
<1>5. \A s \in SUBSET D : s # {} => SumOf(s) = Plus(seq[Pick(s)], SumOf(s \ {Pick(s)}))
  <2> HIDE DEF Pick
  <2>1. SUFFICES ASSUME NEW s \in SUBSET D, s # {}
                 PROVE  SumOf(s) = Plus(seq[Pick(s)], SumOf(s \ {Pick(s)}))
    OBVIOUS
  <2>2. Pick(s) \in s /\ Pick(s) \in D /\ seq[Pick(s)] = Own(Pick(s)) /\ s \in SUBSET Parties
    BY <1>2, <1>3, <2>1
  <2>3. QED BY <2>2, SumOfStep
<1>6. \E f : Eq(f)
  <2> DEFINE h == [s \in SUBSET D |-> SumOf(s)]
  <2>1. \A s \in SUBSET D : h[s] = IF s = {} THEN Zero ELSE Plus(seq[Pick(s)], h[s \ {Pick(s)}])
    <3>1. \A s \in SUBSET D : h[s] = SumOf(s) /\ s \ {Pick(s)} \in SUBSET D
      OBVIOUS
    <3> HIDE DEF h, seq, Pick, D
    <3>2. QED BY <1>4, <1>5, <3>1
  <2>2. h = [s \in SUBSET D |-> h[s]]
    OBVIOUS
  <2> HIDE DEF h, seq, Pick, D
  <2>3. Eq(h)
    BY <2>1, <2>2
  <2>4. QED BY <2>3
<1> DEFINE f == CHOOSE f : Eq(f)
<1>7. Eq(f)
  <2> HIDE DEF Eq
  <2>1. QED BY <1>6
<1> HIDE DEF f
<1>8. \A s \in SUBSET D : f[s] = IF s = {} THEN Zero ELSE Plus(seq[Pick(s)], f[s \ {Pick(s)}])
  <2> HIDE DEF seq, Pick, D
  <2>1. QED BY <1>7
<1> DEFINE Right(k) == \A s \in SUBSET D : Cardinality(s) = k => f[s] = SumOf(s)
           S == {k \in Nat : Right(k)}
<1>9. \A s \in SUBSET D : IsFiniteSet(s) /\ Cardinality(s) \in Nat
  BY <1>2, PartiesFinite
<1>10. 0 \in S
  <2>1. \A s \in SUBSET D : Cardinality(s) = 0 => s = {}
    BY <1>9, FS_EmptySet
  <2> HIDE DEF seq, Pick, D
  <2>2. QED BY <1>4, <1>8, <2>1
<1>11. ASSUME NEW k \in Nat, k \in S PROVE k + 1 \in S
  <2>1. SUFFICES ASSUME NEW s \in SUBSET D, Cardinality(s) = k + 1 PROVE f[s] = SumOf(s)
    OBVIOUS
  <2> DEFINE x == Pick(s)
             r == s \ {x}
  <2>2. s # {}
    <3>1. Cardinality({}) = 0
      BY FS_EmptySet
    <3>2. QED BY <2>1, <3>1
  <2>3. x \in s
    BY <1>3, <2>2
  <2>4. Cardinality(r) = k
    <3>1. IsFiniteSet(s) /\ x \in s
      BY <1>9, <2>3
    <3> HIDE DEF x
    <3>2. Cardinality(r) = Cardinality(s) - 1
      BY <3>1, FS_RemoveElement
    <3>3. QED BY <2>1, <3>2
  <2>5. r \in SUBSET D
    OBVIOUS
  <2>6. f[r] = SumOf(r)
    BY <1>11, <2>4, <2>5
  <2> HIDE DEF seq, D, Pick
  <2>7. f[s] = Plus(seq[x], f[r]) /\ SumOf(s) = Plus(seq[x], SumOf(r))
    BY <1>5, <1>8, <2>2
  <2>8. QED BY <2>6, <2>7
<1>12. \A k \in Nat : Right(k)
  <2>1. \A k \in Nat : k \in S
    <3> HIDE DEF S
    <3>1. QED BY <1>10, <1>11, SetInduction
  <2>2. QED BY <2>1
<1>13. f[D] = SumOf(D)
  <2>1. D \in SUBSET D /\ Cardinality(D) \in Nat
    BY <1>9
  <2> HIDE DEF D
  <2>2. QED BY <1>12, <2>1
<1>14. QED BY <1>1, <1>13 DEF f

LEMMA ReduceIs ==
  /\ FoldSeq(Plus, Zero, InOrder(Computing)) = SumOf(Computing)
  /\ FoldSeq(Plus, Zero, InOrder({})) = Zero
<1>1. N - 1 \in Nat /\ N - 1 < N /\ 0 \in Nat /\ 0 < N
  BY NAssumption
<1>2. FoldSeq(Plus, Zero, [i \in 1 .. N - 1 |-> Own(i)]) = SumOf(1 .. N - 1)
  BY <1>1, FoldIs
<1>3. FoldSeq(Plus, Zero, [i \in 1 .. 0 |-> Own(i)]) = SumOf(1 .. 0)
  BY <1>1, FoldIs
<1>4. [i \in 1 .. 0 |-> Own(i)] = <<>>
  OBVIOUS
<1>5. SumOf(1 .. 0) = Zero
  BY DEF SumOf, Zero
<1>6. FoldSeq(Plus, Zero, InOrder(Computing)) = SumOf(Computing)
  BY <1>2, InOrderComputing DEF Computing
<1>7. FoldSeq(Plus, Zero, InOrder({})) = Zero
  BY <1>3, <1>4, <1>5, InOrderEmpty
<1>8. QED BY <1>6, <1>7

-----------------------------------------------------------------------------
\* What a call returns, when its script is through.

LEMMA WholeContent ==
  ASSUME NEW c \in Calls, NEW p \in Parties
  PROVE  LET E == Content(c, p) IN
         /\ \A d \in {"send", "flush"} \cup Receiving \cup LocalDo :
              DoneIn(E, d) <=> \E q \in Parties : Has(c, p, d, q)
         /\ Added(E) = {q \in Parties : Has(c, p, "add", q)}
         /\ Members(p, E) = {q \in Parties : \/ Has(c, p, "append", q)
                                             \/ q = p /\ \E r \in Parties : Has(c, p, "keep", r)}
<1> DEFINE E == Content(c, p)
           D == {"send", "flush"} \cup Receiving \cup LocalDo
<1>1. \A x \in E : x \in Instructions /\ x.peer \in Parties /\ Has(c, p, x.do, x.peer)
  BY ContentOfInstructions, ContentHas DEF Instructions
<1>2. ASSUME NEW d \in D, NEW q \in Parties, Has(c, p, d, q)
      PROVE  \E x \in E : x.do = d /\ x.peer = q
  <2> DEFINE y == Ins(d, q)
  <2>1. y \in Instructions /\ y.do = d /\ y.peer = q
    BY InsType
  <2> HIDE DEF y
  <2>2. QED BY <1>2, <2>1, ContentHas
<1>3. "add" \in D /\ "append" \in D /\ "keep" \in D
  BY DEF Receiving, LocalDo
<1> HIDE DEF E, D
<1>4. \A d \in D : DoneIn(E, d) <=> \E q \in Parties : Has(c, p, d, q)
  BY <1>1, <1>2 DEF DoneIn
<1>5. Added(E) = {q \in Parties : Has(c, p, "add", q)}
  BY <1>1, <1>2, <1>3 DEF Added
<1>6. Members(p, E) = {q \in Parties : \/ Has(c, p, "append", q)
                                       \/ q = p /\ \E r \in Parties : Has(c, p, "keep", r)}
  BY <1>1, <1>2, <1>3 DEF Members
<1>7. QED BY <1>4, <1>5, <1>6 DEF E, D

\* ValueAfter the whole script, by what the call has.
LEMMA WholeValue ==
  ASSUME NEW c \in Calls, NEW p \in Parties
  PROVE  LET v == ValueAfter(c, p, Content(c, p))
             Some(d) == \E q \in Parties : Has(c, p, d, q)
         IN
         /\ Some("take") => v = Given(c)
         /\ ~ Some("take") /\ Some("clear") => v = Zero
         /\ ~ Some("take") /\ ~ Some("clear") /\ Some("reduce")
              => v = IF p = 1 THEN SumOf(Computing) ELSE Zero
         /\ ~ Some("take") /\ ~ Some("clear") /\ ~ Some("reduce")
              => v = SumOf({p} \cup {q \in Parties : Has(c, p, "add", q)})
<1> DEFINE E == Content(c, p)
<1>1. \A d \in {"take", "clear", "reduce"} : d \in {"send", "flush"} \cup Receiving \cup LocalDo
  BY DEF Receiving, LocalDo
<1>2. \A d \in {"take", "clear", "reduce"} : DoneIn(E, d) <=> \E q \in Parties : Has(c, p, d, q)
  BY <1>1, WholeContent
<1>3. Added(E) = {q \in Parties : Has(c, p, "add", q)}
  BY WholeContent
<1> HIDE DEF E
<1>4. QED BY <1>2, <1>3, ValueAfterIs DEF E

LEMMA ValueReturned ==
  ASSUME NEW c \in Calls, NEW p \in Parties,
         c.name \in {"reveal", "reveal_to_all", "reveal_at", "is_broadcast", "broadcast_from"}
  PROVE  Expected(c, p) = <<ValueAfter(c, p, Content(c, p))>>
<1> DEFINE v == ValueAfter(c, p, Content(c, p))
           Add == {q \in Parties : Has(c, p, "add", q)}
<1>1. /\ p \in Nat /\ p < N /\ N \in Nat /\ N >= 3 /\ 0 \in Parties /\ 1 \in Parties
      /\ (\A q \in Parties : q \in Nat)
      /\ (c.name \in {"broadcast_from", "collect_at"} => c.party # 0 /\ c.party \in Parties)
  BY PartyForm, NAssumption DEF Parties
<1>2. /\ (\E q \in Parties : Has(c, p, "take", q)) => v = Given(c)
      /\ ~ (\E q \in Parties : Has(c, p, "take", q)) /\ (\E q \in Parties : Has(c, p, "clear", q)) => v = Zero
      /\ ~ (\E q \in Parties : Has(c, p, "take", q)) /\ ~ (\E q \in Parties : Has(c, p, "clear", q))
           /\ (\E q \in Parties : Has(c, p, "reduce", q)) => v = IF p = 1 THEN SumOf(Computing) ELSE Zero
      /\ ~ (\E q \in Parties : Has(c, p, "take", q)) /\ ~ (\E q \in Parties : Has(c, p, "clear", q))
           /\ ~ (\E q \in Parties : Has(c, p, "reduce", q)) => v = SumOf({p} \cup Add)
  BY WholeValue
<1>3. \A q \in Parties : SumOf({q}) = Own(q)
  BY ValueFacts
<1>4. \A q \in Parties : q \in Computing <=> q # 0
  BY <1>1 DEF Computing, Parties
<1>5. Computing \subseteq Parties
  BY <1>1 DEF Computing, Parties
<1> HIDE DEF v
<1>6. CASE c.name = "reveal"
  <2>1. CASE p = 0
    <3>1. Add = {} /\ v = SumOf({p} \cup Add)
      BY <1>1, <1>2, <1>6, <2>1 DEF Has
    <3>2. v = Own(0)
      BY <1>1, <1>3, <2>1, <3>1
    <3>3. QED BY <1>6, <2>1, <3>2 DEF Expected, v
  <2>2. CASE p = 1
    <3>1. v = SumOf({p} \cup Add)
      BY <1>1, <1>2, <1>6, <2>2 DEF Has
    <3>2. \A q \in Parties : q \in Add <=> q > 1
      BY <1>1, <1>6, <2>2 DEF Has
    <3>3. \A q \in Parties : q \in {p} \cup Add <=> q # 0
      BY <1>1, <2>2, <3>2
    <3>4. {p} \cup Add = Computing
      BY <1>4, <1>5, <3>3
    <3>5. QED BY <1>6, <2>2, <3>1, <3>4 DEF Expected, v
  <2>3. CASE p > 1
    <3>1. v = Given(c)
      BY <1>1, <1>2, <1>6, <2>3 DEF Has
    <3>2. QED BY <1>1, <1>6, <2>3, <3>1 DEF Expected, Given, v
  <2>4. QED BY <1>1, <2>1, <2>2, <2>3
<1>7. CASE c.name = "reveal_to_all"
  <2>1. CASE p = 1
    <3>1. v = SumOf({p} \cup Add)
      BY <1>1, <1>2, <1>7, <2>1 DEF Has
    <3>2. \A q \in Parties : q \in Add <=> q > 1
      BY <1>1, <1>7, <2>1 DEF Has
    <3>3. \A q \in Parties : q \in {p} \cup Add <=> q # 0
      BY <1>1, <2>1, <3>2
    <3>4. {p} \cup Add = Computing
      BY <1>4, <1>5, <3>3
    <3>5. QED BY <1>7, <2>1, <3>1, <3>4 DEF Expected, v
  <2>2. CASE p # 1
    <3>1. v = Given(c)
      BY <1>1, <1>2, <1>7, <2>2 DEF Has
    <3>2. QED BY <1>7, <3>1 DEF Expected, Given, v
  <2>3. QED BY <2>1, <2>2
<1>8. CASE c.name = "reveal_at"
  <2>1. c.party = 0 /\ v = SumOf({p} \cup Add)
    BY <1>2, <1>8, CallForm DEF Has
  <2>2. CASE p = 0
    <3>1. \A q \in Parties : q \in Add <=> q \in Computing
      BY <1>4, <1>8, <2>2 DEF Has
    <3>2. {p} \cup Add = Computing \cup {p}
      BY <1>5, <3>1
    <3>3. QED BY <1>8, <2>1, <2>2, <3>2 DEF Expected, v
  <2>3. CASE p # 0
    <3>1. Add = {}
      BY <1>8, <2>3 DEF Has
    <3>2. v = Own(p)
      BY <1>3, <2>1, <3>1
    <3>3. QED BY <1>8, <2>1, <2>3, <3>2 DEF Expected, v
  <2>4. QED BY <2>2, <2>3
<1>9. CASE c.name = "is_broadcast"
  <2>1. CASE p = 0
    <3>1. v = Zero
      BY <1>1, <1>2, <1>9, <2>1 DEF Has
    <3>2. QED BY <1>9, <2>1, <3>1 DEF Expected, v
  <2>2. CASE p = 1
    <3>1. v = SumOf(Computing)
      BY <1>1, <1>2, <1>9, <2>2 DEF Has
    <3>2. QED BY <1>9, <2>2, <3>1 DEF Expected, v
  <2>3. CASE p > 1
    <3>1. v = Given(c)
      BY <1>1, <1>2, <1>9, <2>3 DEF Has
    <3>2. QED BY <1>1, <1>9, <2>3, <3>1 DEF Expected, Given, v
  <2>4. QED BY <1>1, <2>1, <2>2, <2>3
<1>10. CASE c.name = "broadcast_from"
  <2>1. c.party # 0 /\ c.party \in Parties
    BY <1>1, <1>10
  <2>2. CASE p = 0
    <3>1. v = Zero
      BY <1>1, <1>2, <1>10, <2>1, <2>2 DEF Has
    <3>2. QED BY <1>10, <2>2, <3>1 DEF Expected, v
  <2>3. CASE p = c.party
    <3>1. Add = {} /\ v = SumOf({p} \cup Add)
      BY <1>1, <1>2, <1>10, <2>1, <2>3 DEF Has
    <3>2. v = Own(c.party)
      BY <1>3, <2>3, <3>1
    <3>3. QED BY <1>10, <2>1, <2>3, <3>2 DEF Expected, v
  <2>4. CASE p # 0 /\ p # c.party
    <3>1. v = Given(c)
      BY <1>1, <1>2, <1>10, <2>1, <2>4 DEF Has
    <3>2. QED BY <1>10, <2>4, <3>1 DEF Expected, Given, v
  <2>5. QED BY <2>2, <2>3, <2>4
<1>11. QED BY <1>6, <1>7, <1>8, <1>9, <1>10

LEMMA ListReturned ==
  ASSUME NEW c \in Calls, NEW p \in Parties, c.name \in {"collect", "collect_at"}
  PROVE  Expected(c, p) = InOrder(Members(p, Content(c, p)))
<1> DEFINE M == Members(p, Content(c, p))
<1>1. M = {q \in Parties : \/ Has(c, p, "append", q)
                           \/ q = p /\ \E r \in Parties : Has(c, p, "keep", r)}
  BY WholeContent
<1>2. 0 \in Parties /\ (\A q \in Parties : q \in Computing <=> q # 0) /\ Computing \subseteq Parties
  BY NAssumption DEF Parties, Computing
<1> HIDE DEF M
<1>3. CASE c.name = "collect"
  <2> DEFINE S == (IF c.dealer THEN Parties ELSE Computing) \ c.excluded
  <2>1. CASE p = 0 /\ ~ c.dealer
    <3>1. M = {}
      BY <1>1, <1>3, <2>1 DEF Has
    <3>2. QED BY <1>3, <2>1, <3>1, InOrderEmpty DEF Expected, M
  <2>2. CASE ~ (p = 0 /\ ~ c.dealer)
    <3>1. \A q \in Parties : q \in M <=> q \in S
      BY <1>1, <1>2, <1>3, <2>2 DEF Has
    <3>2. M = S
      BY <1>1, <1>2, <3>1
    <3> HIDE DEF S
    <3>3. QED BY <1>3, <2>2, <3>2 DEF Expected, M, S
  <2>3. QED BY <2>1, <2>2
<1>4. CASE c.name = "collect_at"
  <2>0. c.party # 0
    BY <1>4, PartyForm
  <2>1. CASE p = c.party
    <3>1. \A q \in Parties : q \in M <=> q # 0
      BY <1>1, <1>2, <1>4, <2>0, <2>1 DEF Has
    <3>2. M = Computing
      BY <1>1, <1>2, <3>1
    <3>3. QED BY <1>4, <2>1, <3>2 DEF Expected, M
  <2>2. CASE p # c.party
    <3>1. M = {}
      BY <1>1, <1>4, <2>2 DEF Has
    <3>2. QED BY <1>4, <2>2, <3>1, InOrderEmpty DEF Expected, M
  <2>3. QED BY <2>1, <2>2
<1>5. QED BY <1>3, <1>4

LEMMA Returns ==
  ASSUME NEW c \in Calls, NEW p \in Parties,
         value[p] = ValueAfter(c, p, Content(c, p)),
         coll[p] = InOrder(Members(p, Content(c, p)))
  PROVE  Returned(c, p) = Expected(c, p)
<1>1. CASE c.name \in {"collect", "collect_at"}
  BY <1>1, ListReturned DEF Returned
<1>2. CASE c.name \in {"reveal", "reveal_to_all", "reveal_at", "is_broadcast", "broadcast_from"}
  <2>1. Returned(c, p) = <<value[p]>>
    BY <1>2 DEF Returned
  <2>2. QED BY <1>2, <2>1, ValueReturned
<1>3. CASE c.name \in {"sync_lite", "sync_full", "sequential"}
  BY <1>3 DEF Returned, Expected
<1>4. QED BY <1>1, <1>2, <1>3, CallForm

-----------------------------------------------------------------------------
\* The instructions a party has carried out, and what a step adds to them.

\* Those of call k, its c, of a party p that is at instruction j of call a.
CarriedOut(c, p, k, a, j) ==
  LET s == Script(c, p) IN {s[i] : i \in {m \in DOMAIN s : k < a \/ (k = a /\ m < j)}}

LEMMA DoneIs ==
  ASSUME NEW c \in Calls, NEW p \in Parties, NEW k \in Nat, NEW a \in Nat, NEW j \in Nat
  PROVE  /\ k < a => CarriedOut(c, p, k, a, j) = Content(c, p)
         /\ k > a => CarriedOut(c, p, k, a, j) = {}
         /\ k = a => CarriedOut(c, p, k, a, j) = Before(Script(c, p), j)
         /\ CarriedOut(c, p, k, a, j) \subseteq Content(c, p)
<1> DEFINE s == Script(c, p)
<1>1. Made(s, Content(c, p), Order(c, p))
  BY ScriptMade
<1> HIDE DEF s
<1>2. DOMAIN s = 1 .. Len(s)
  BY <1>1 DEF Made
<1>3. {s[i] : i \in 1 .. Len(s)} = Content(c, p)
  BY <1>1 DEF Made
<1> DEFINE D == {m \in DOMAIN s : k < a \/ (k = a /\ m < j)}
<1>4. CarriedOut(c, p, k, a, j) = {s[i] : i \in D}
  BY DEF CarriedOut, s
<1>5. /\ k < a => D = 1 .. Len(s)
      /\ k > a => D = {}
      /\ k = a => D = {m \in DOMAIN s : m < j}
      /\ D \subseteq 1 .. Len(s)
  BY <1>2
<1> HIDE DEF D
<1>6. k = a => {s[i] : i \in D} = Before(Script(c, p), j)
  BY <1>5 DEF Before, s
<1>7. {s[i] : i \in D} \subseteq Content(c, p)
  BY <1>3, <1>5
<1>8. (k < a => {s[i] : i \in D} = Content(c, p)) /\ (k > a => {s[i] : i \in D} = {})
  BY <1>3, <1>5
<1>9. QED BY <1>4, <1>6, <1>7, <1>8

\* An instruction more.
LEMMA OneMore ==
  ASSUME NEW c \in Calls, NEW p \in Parties, NEW k \in Nat, NEW j \in 1 .. Len(Script(c, p))
  PROVE  CarriedOut(c, p, k, k, j + 1) = CarriedOut(c, p, k, k, j) \cup {Script(c, p)[j]}
<1> DEFINE s == Script(c, p)
<1>1. Made(s, Content(c, p), Order(c, p))
  BY ScriptMade
<1>2. DOMAIN s = 1 .. Len(s) /\ Len(s) \in Nat /\ j \in 1 .. Len(s)
  <2> HIDE DEF s
  <2>1. DOMAIN s = 1 .. Len(s) /\ Len(s) \in Nat
    BY <1>1 DEF Made
  <2>2. QED BY <2>1 DEF s
<1>3. /\ CarriedOut(c, p, k, k, j + 1) = {s[i] : i \in {m \in DOMAIN s : m < j + 1}}
      /\ CarriedOut(c, p, k, k, j) = {s[i] : i \in {m \in DOMAIN s : m < j}}
  BY DEF CarriedOut
<1> HIDE DEF s
<1>4. {m \in DOMAIN s : m < j + 1} = {m \in DOMAIN s : m < j} \cup {j}
  BY <1>2
<1>5. {s[i] : i \in {m \in DOMAIN s : m < j + 1}} = {s[i] : i \in {m \in DOMAIN s : m < j}} \cup {s[j]}
  BY <1>4
<1>6. QED BY <1>3, <1>5 DEF s

LEMMA ThroughIs ==
  ASSUME prog \in [1 .. Length -> Calls], NEW k \in 1 .. Length, NEW p \in Parties
  PROVE  /\ prog[k] \in Calls
         /\ Through(k, p) = CarriedOut(prog[k], p, k, at[p], pc[p])
<1>1. prog[k] \in Calls
  OBVIOUS
<1>2. Scripts[prog[k]][p] = Script(prog[k], p)
  BY <1>1 DEF Scripts
<1>3. QED BY <1>1, <1>2 DEF Through, CarriedOut

LEMMA ThroughAt ==
  ASSUME prog \in [1 .. Length -> Calls], Types, NEW k \in 1 .. Length, NEW p \in Parties
  PROVE  /\ prog[k] \in Calls
         /\ k < at[p] => Through(k, p) = Content(prog[k], p)
         /\ k > at[p] => Through(k, p) = {}
         /\ k = at[p] => Through(k, p) = Before(Script(prog[k], p), pc[p])
         /\ Through(k, p) \subseteq Content(prog[k], p)
<1>1. k \in Nat /\ at[p] \in Nat /\ pc[p] \in Nat
  BY BoundAssumption DEF Types
<1>2. QED BY <1>1, ThroughIs, DoneIs

\* The instruction a party is at.
LEMMA AtIt ==
  ASSUME prog \in [1 .. Length -> Calls], Types, NEW p \in Parties, AtInstruction(p)
  PROVE  LET k == at[p]
             c == prog[k]
         IN
         /\ k \in 1 .. Length /\ k \in Nat /\ c \in Calls /\ pc[p] \in 1 .. Len(Script(c, p))
         /\ Running(p) = Script(c, p) /\ Instruction(p) = Script(c, p)[pc[p]]
         /\ Instruction(p) \in Instructions
         /\ AtPlace(c, p, Through(k, p), Instruction(p))
<1> DEFINE k == at[p]
           c == prog[k]
           s == Script(c, p)
<1>1. k \in 1 .. Length /\ k \in Nat
  BY BoundAssumption DEF Types, AtInstruction, Stopped, Finished
<1>2. c \in Calls
  BY <1>1
<1>3. Running(p) = s /\ Instruction(p) = s[pc[p]]
  BY <1>2 DEF Running, Instruction, Scripts
<1>4. pc[p] <= Len(s) /\ pc[p] \in Nat \ {0}
  BY <1>3 DEF AtInstruction, Types
<1>5. Len(s) \in Nat
  <2>1. Made(s, Content(c, p), Order(c, p))
    BY <1>2, ScriptMade
  <2>2. QED BY <2>1 DEF Made
<1>6. pc[p] \in 1 .. Len(s)
  BY <1>4, <1>5
<1>7. Through(k, p) = Before(s, pc[p])
  BY <1>1, ThroughAt
<1>8. AtPlace(c, p, Before(s, pc[p]), s[pc[p]])
  BY <1>2, <1>6, Placed
<1>9. s[pc[p]] \in Instructions
  BY <1>2, <1>8, ContentOfInstructions DEF AtPlace
<1>10. QED BY <1>1, <1>2, <1>3, <1>6, <1>7, <1>8, <1>9

\* A step of p adds its instruction to those of the call it is in, and nothing else.
LEMMA StepAdds ==
  ASSUME prog \in [1 .. Length -> Calls], Types, NEW p \in Parties, AtInstruction(p), Advance(p)
  PROVE  \A k \in 1 .. Length, r \in Parties :
           Through(k, r)' = Through(k, r) \cup (IF r = p /\ k = at[p] THEN {Instruction(p)} ELSE {})
<1>1. at' = at /\ prog' = prog /\ pc' = [pc EXCEPT ![p] = @ + 1]
  BY DEF Advance
<1>2. at[p] \in 1 .. Length /\ at[p] \in Nat /\ prog[at[p]] \in Calls
      /\ pc[p] \in 1 .. Len(Script(prog[at[p]], p)) /\ Instruction(p) = Script(prog[at[p]], p)[pc[p]]
  BY AtIt
<1>3. \A r \in Parties : at[r] \in Nat /\ pc[r] \in Nat /\ pc'[r] \in Nat
      /\ pc'[r] = IF r = p THEN pc[r] + 1 ELSE pc[r]
  BY <1>1, BoundAssumption DEF Types
<1>4. \A k \in 1 .. Length, r \in Parties :
        /\ Through(k, r) = CarriedOut(prog[k], r, k, at[r], pc[r])
        /\ Through(k, r)' = CarriedOut(prog[k], r, k, at[r], pc'[r])
  <2>1. TAKE k \in 1 .. Length, r \in Parties
  <2>2. Scripts[prog[k]][r] = Script(prog[k], r)
    BY DEF Scripts
  <2>3. QED BY <1>1, <2>2 DEF Through, CarriedOut
<1>5. ASSUME NEW k \in 1 .. Length, k = at[p]
      PROVE  Through(k, p)' = Through(k, p) \cup {Instruction(p)}
  <2>3. k \in Nat /\ prog[k] \in Calls /\ pc[p] \in 1 .. Len(Script(prog[k], p))
    BY <1>2, <1>5
  <2>1. CarriedOut(prog[k], p, k, k, pc[p] + 1)
          = CarriedOut(prog[k], p, k, k, pc[p]) \cup {Script(prog[k], p)[pc[p]]}
    BY <2>3, OneMore
  <2>2. QED BY <1>2, <1>3, <1>4, <1>5, <2>1
<1>6. ASSUME NEW k \in 1 .. Length, NEW r \in Parties, r # p \/ k # at[p]
      PROVE  Through(k, r)' = Through(k, r)
  <2>1. CASE r # p
    BY <1>3, <1>4, <2>1
  <2>2. CASE r = p /\ k # at[p]
    <3>1. k \in Nat /\ prog[k] \in Calls /\ at[p] \in Nat /\ pc[p] \in Nat /\ pc'[p] \in Nat
      BY <1>3, BoundAssumption
    <3>2. k < at[p] \/ k > at[p]
      BY <2>2, <3>1
    <3>5. \A j \in Nat : /\ k < at[p] => CarriedOut(prog[k], p, k, at[p], j) = Content(prog[k], p)
                         /\ k > at[p] => CarriedOut(prog[k], p, k, at[p], j) = {}
      BY <3>1, DoneIs
    <3>3. CarriedOut(prog[k], p, k, at[p], pc'[p]) = CarriedOut(prog[k], p, k, at[p], pc[p])
      BY <3>1, <3>2, <3>5
    <3>4. QED BY <1>4, <2>2, <3>3
  <2>3. QED BY <1>6, <2>1, <2>2
<1>7. QED BY <1>5, <1>6

\* A return changes nothing of it.
LEMMA ReturnKeeps ==
  ASSUME prog \in [1 .. Length -> Calls], Types, NEW p \in Parties, Return(p)
  PROVE  /\ at[p] \in 1 .. Length /\ Through(at[p], p) = Content(prog[at[p]], p)
         /\ \A k \in 1 .. Length, r \in Parties : Through(k, r)' = Through(k, r)
<1>1. /\ at' = [at EXCEPT ![p] = @ + 1] /\ pc' = [pc EXCEPT ![p] = 1] /\ prog' = prog
      /\ ~ Finished(p) /\ pc[p] > Len(Running(p))
  BY DEF Return, Stopped
<1>2. /\ at[p] \in 1 .. Length /\ at[p] \in Nat /\ pc[p] \in Nat
      /\ \A r \in Parties : at[r] \in Nat /\ pc[r] \in Nat /\ at'[r] \in Nat /\ pc'[r] \in Nat
      /\ \A r \in Parties : r # p => at'[r] = at[r] /\ pc'[r] = pc[r]
      /\ at'[p] = at[p] + 1 /\ pc'[p] = 1
  <2>1. /\ \A r \in Parties : at[r] \in 1 .. Length + 1 /\ pc[r] \in Nat
        /\ at \in [Parties -> 1 .. Length + 1] /\ pc \in [Parties -> Nat \ {0}] /\ Length \in Nat
    BY BoundAssumption DEF Types
  <2>2. ~ (at[p] > Length)
    BY <1>1 DEF Finished
  <2>3. /\ \A r \in Parties : r # p => at'[r] = at[r] /\ pc'[r] = pc[r]
        /\ at'[p] = at[p] + 1 /\ pc'[p] = 1
    BY <1>1, <2>1
  <2>4. \A r \in Parties : at[r] \in Nat /\ pc[r] \in Nat
    BY <2>1
  <2>5. at[p] \in 1 .. Length
    BY <2>1, <2>2
  <2>6. \A r \in Parties : at'[r] \in Nat /\ pc'[r] \in Nat
    BY <2>3, <2>4
  <2>7. QED BY <2>3, <2>4, <2>5, <2>6
<1>3. prog[at[p]] \in Calls /\ Running(p) = Script(prog[at[p]], p)
  BY <1>2 DEF Running, Scripts
<1>4. \A k \in 1 .. Length, r \in Parties :
        /\ Through(k, r) = CarriedOut(prog[k], r, k, at[r], pc[r])
        /\ Through(k, r)' = CarriedOut(prog[k], r, k, at'[r], pc'[r])
  <2>1. TAKE k \in 1 .. Length, r \in Parties
  <2>2. Scripts[prog[k]][r] = Script(prog[k], r)
    BY DEF Scripts
  <2>3. QED BY <1>1, <2>2 DEF Through, CarriedOut
<1>5. Through(at[p], p) = Content(prog[at[p]], p)
  BY <1>1, <1>2, <1>3, ThroughAt, AllBefore
<1>6. ASSUME NEW k \in 1 .. Length PROVE Through(k, p)' = Through(k, p)
  <2>1. k \in Nat /\ prog[k] \in Calls
    BY BoundAssumption
  <2>2. CASE k < at[p]
    BY <1>2, <1>4, <2>1, <2>2, DoneIs
  <2>3. CASE k = at[p]
    <3>1. Through(k, p)' = Content(prog[k], p)
      BY <1>2, <1>4, <2>1, <2>3, DoneIs
    <3>2. QED BY <1>5, <2>3, <3>1
  <2>4. CASE k > at[p]
    <3>1. Through(k, p) = {}
      BY <1>2, <1>4, <2>1, <2>4, DoneIs
    <3>2. CASE k > at'[p]
      BY <1>2, <1>4, <2>1, <3>1, <3>2, DoneIs
    <3>3. CASE k = at'[p]
      <4>1. Through(k, p)' = Before(Script(prog[k], p), 1)
        BY <1>2, <1>4, <2>1, <3>3, DoneIs
      <4>2. Before(Script(prog[k], p), 1) = {}
        <5>1. Made(Script(prog[k], p), Content(prog[k], p), Order(prog[k], p))
          BY <2>1, ScriptMade
        <5>2. DOMAIN Script(prog[k], p) \subseteq Nat \ {0}
          BY <5>1 DEF Made
        <5>3. QED BY <5>2 DEF Before
      <4>3. QED BY <3>1, <4>1, <4>2
    <3>4. QED BY <1>2, <2>1, <2>4, <3>2, <3>3
  <2>5. QED BY <1>2, <2>1, <2>2, <2>3, <2>4
<1>7. \A k \in 1 .. Length, r \in Parties : r # p => Through(k, r)' = Through(k, r)
  BY <1>2, <1>4
<1>8. QED BY <1>2, <1>5, <1>6, <1>7

-----------------------------------------------------------------------------
\* The calls in which a link was used, and what is next on it.

LEMMA UsedIn ==
  ASSUME prog \in [1 .. Length -> Calls], Types, NEW p \in Parties, NEW q \in Parties
  PROVE  /\ \A k \in SentIn(p, q) : k \in 1 .. Length /\ k <= at[p]
         /\ \A k \in TakenIn(p, q) : k \in 1 .. Length /\ k <= at[q]
         /\ \A k \in 1 .. Length :
              k < at[p] => (k \in SentIn(p, q) <=> \E x \in Content(prog[k], p) : Sends(x, q))
         /\ \A k \in 1 .. Length :
              k < at[q] => (k \in TakenIn(p, q) <=> \E x \in Content(prog[k], q) : Receives(x, p))
<1>1. at[p] \in Nat /\ at[q] \in Nat /\ Length \in Nat
  BY BoundAssumption DEF Types
<1>2. ASSUME NEW k \in 1 .. Length, NEW r \in Parties
      PROVE  /\ k > at[r] => Through(k, r) = {}
             /\ k < at[r] => Through(k, r) = Content(prog[k], r)
  BY ThroughAt
<1>3. \A k \in 1 .. Length : (k <= at[p] \/ k > at[p]) /\ (k <= at[q] \/ k > at[q])
  BY <1>1
<1>4. QED BY <1>2, <1>3 DEF SentIn, TakenIn

\* What a party past a call was sent in it, it has taken; what it has taken in a call
\* it was sent in it, if the sender is past it.
LEMMA MatchedIn ==
  ASSUME prog \in [1 .. Length -> Calls], Types, NEW p \in Parties, NEW q \in Parties, p # q,
         NEW k \in 1 .. Length
  PROVE  /\ k \in SentIn(p, q) /\ k < at[q] => k \in TakenIn(p, q)
         /\ (\E x \in Through(k, q) : Receives(x, p)) /\ k < at[p] => k \in SentIn(p, q)
         /\ (\E x \in Content(prog[k], q) : Receives(x, p)) /\ k < at[p] => k \in SentIn(p, q)
<1>1. prog[k] \in Calls
  OBVIOUS
<1>2. Through(k, p) \subseteq Content(prog[k], p) /\ Through(k, q) \subseteq Content(prog[k], q)
  BY ThroughAt
<1>3. (\E x \in Content(prog[k], p) : Sends(x, q)) <=> (\E x \in Content(prog[k], q) : Receives(x, p))
  BY <1>1, ScriptsMatch
<1>4. k \in SentIn(p, q) => \E x \in Content(prog[k], p) : Sends(x, q)
  BY <1>2 DEF SentIn
<1>5. QED BY <1>2, <1>3, <1>4, UsedIn

\* The next message on a link is of the call in which its receiver waits for one.
LEMMA Aligned ==
  ASSUME prog \in [1 .. Length -> Calls], Types, LinkInv, NEW p \in Parties, AtInstruction(p),
         Instruction(p).do \in Receiving, Pending(<<Instruction(p).peer, p>>) > 0
  PROVE  LET q == Instruction(p).peer
             m == NextMessage(<<q, p>>)
         IN  /\ q \in Parties /\ q # p /\ <<q, p>> \in Links /\ LinkOK(q, p)
             /\ m.call = at[p] /\ m.value = Carried(prog[at[p]], q)
<1> DEFINE x == Instruction(p)
           q == x.peer
           a == at[p]
           s == sent[<<q, p>>]
           n == Len(got[<<q, p>>])
<1>1. /\ a \in 1 .. Length /\ a \in Nat /\ prog[a] \in Calls /\ x \in Instructions
      /\ AtPlace(prog[a], p, Through(a, p), x)
  BY AtIt
<1>2. x \in Content(prog[a], p) /\ x.do \notin LocalDo /\ Receives(x, q)
      /\ \A y \in Through(a, p) : ~ Same(y, x)
  BY <1>1 DEF AtPlace, Receiving, LocalDo, Receives
<1>3. q \in Parties /\ q # p
  BY <1>1, <1>2, OthersOnly DEF Instructions
<1>4. <<q, p>> \in Links
  BY <1>3 DEF Links
<1>5. s \in Seq(Messages) /\ got[<<q, p>>] \in Seq(Messages) /\ n \in Nat /\ Len(s) \in Nat
  BY <1>4 DEF Types
<1>6. LinkOK(q, p)
  BY <1>3 DEF LinkInv
<1>7. n + 1 \in 1 .. Len(s)
  <2>1. Len(s) - n > 0
    BY DEF Pending
  <2> HIDE DEF s, n
  <2>2. QED BY <1>5, <2>1
<1> DEFINE k == s[n + 1].call
<1> HIDE DEF x, q, a, s, n
<1>8. k \in SentIn(q, p) /\ k \in 1 .. Length /\ k \in Nat
  <2>1. k \in SentIn(q, p)
    BY <1>6, <1>7 DEF LinkOK, s
  <2>2. QED BY <1>3, <2>1, UsedIn, BoundAssumption
<1>9. ~ (k < a)
  <2>1. SUFFICES ASSUME k < a PROVE FALSE
    OBVIOUS
  <2>2. k \in TakenIn(q, p)
    BY <1>3, <1>8, <2>1, MatchedIn DEF a
  <2>3. PICK i \in 1 .. n : s[i].call = k
    BY <1>6, <2>2 DEF LinkOK, s, n
  <2>4. i < n + 1 /\ i \in 1 .. Len(s)
    BY <1>5, <1>7, <2>3
  <2>5. s[i].call < s[n + 1].call
    BY <1>6, <1>7, <2>4 DEF LinkOK, s
  <2>6. QED BY <1>8, <2>3, <2>5
<1>10. ~ (k > a)
  <2>1. SUFFICES ASSUME k > a PROVE FALSE
    OBVIOUS
  <2>2. at[q] \in Nat /\ k <= at[q]
    <3>1. at[q] \in Nat
      BY <1>3, BoundAssumption DEF Types
    <3>2. k <= at[q]
      BY <1>3, <1>8, UsedIn
    <3>3. QED BY <3>1, <3>2
  <2>3. a < at[q]
    BY <1>1, <1>8, <2>1, <2>2
  <2>4. a \in SentIn(q, p)
    BY <1>1, <1>2, <1>3, <2>3, MatchedIn
  <2>5. PICK i \in 1 .. Len(s) : s[i].call = a
    BY <1>6, <2>4 DEF LinkOK, s
  <2>6. i <= n
    <3>1. SUFFICES ASSUME i >= n + 1 PROVE FALSE
      BY <1>5, <2>5
    <3>2. CASE i = n + 1
      BY <1>1, <2>1, <2>5, <3>2
    <3>3. CASE i > n + 1
      <4>1. s[n + 1].call < s[i].call
        BY <1>6, <1>7, <2>5, <3>3 DEF LinkOK, s
      <4>2. QED BY <1>1, <1>8, <2>1, <2>5, <4>1
    <3>4. QED BY <1>5, <2>5, <3>1, <3>2, <3>3
  <2>7. a \in TakenIn(q, p)
    <3>1. i \in 1 .. n
      BY <1>5, <2>5, <2>6
    <3>2. QED BY <1>6, <2>5, <3>1 DEF LinkOK, s, n
  <2>8. PICK y \in Through(a, p) : Receives(y, q)
    BY <2>7 DEF TakenIn
  <2>9. Same(y, x)
    BY <1>2, <2>8 DEF Same, Receives
  <2>10. QED BY <1>2, <2>8, <2>9
<1>11. k = a
  BY <1>1, <1>8, <1>9, <1>10
<1>12. s[n + 1].value = Carried(prog[k], q)
  BY <1>6, <1>7 DEF LinkOK, s
<1>13. QED BY <1>3, <1>4, <1>6, <1>11, <1>12 DEF NextMessage, s, n, x, q, a, k

-----------------------------------------------------------------------------
\* Every step keeps the links in order.

LEMMA UsedAfter ==
  ASSUME prog \in [1 .. Length -> Calls], Types, NEW p \in Parties, AtInstruction(p), Advance(p)
  PROVE  LET x == Instruction(p) IN
         /\ \A q \in Parties : Sends(x, q) => SentIn(p, q)' = SentIn(p, q) \cup {at[p]}
         /\ \A r, q \in Parties : ~ (r = p /\ Sends(x, q)) => SentIn(r, q)' = SentIn(r, q)
         /\ \A q \in Parties : Receives(x, q) => TakenIn(q, p)' = TakenIn(q, p) \cup {at[p]}
         /\ \A r, q \in Parties : ~ (r = p /\ Receives(x, q)) => TakenIn(q, r)' = TakenIn(q, r)
<1> DEFINE x == Instruction(p)
<1>1. \A k \in 1 .. Length, r \in Parties :
        Through(k, r)' = Through(k, r) \cup (IF r = p /\ k = at[p] THEN {x} ELSE {})
  BY StepAdds
<1>2. at[p] \in 1 .. Length
  BY AtIt
<1> HIDE DEF x
<1>3. /\ \A r, q : SentIn(r, q)' = {k \in 1 .. Length : \E y \in Through(k, r)' : Sends(y, q)}
      /\ \A r, q : TakenIn(q, r)' = {k \in 1 .. Length : \E y \in Through(k, r)' : Receives(y, q)}
  BY DEF SentIn, TakenIn
<1>4. ASSUME NEW q \in Parties, Sends(x, q) PROVE SentIn(p, q)' = SentIn(p, q) \cup {at[p]}
  BY <1>1, <1>2, <1>3, <1>4 DEF SentIn
<1>5. ASSUME NEW r \in Parties, NEW q \in Parties, ~ (r = p /\ Sends(x, q))
      PROVE  SentIn(r, q)' = SentIn(r, q)
  BY <1>1, <1>2, <1>3, <1>5 DEF SentIn
<1>6. ASSUME NEW q \in Parties, Receives(x, q) PROVE TakenIn(q, p)' = TakenIn(q, p) \cup {at[p]}
  BY <1>1, <1>2, <1>3, <1>6 DEF TakenIn
<1>7. ASSUME NEW r \in Parties, NEW q \in Parties, ~ (r = p /\ Receives(x, q))
      PROVE  TakenIn(q, r)' = TakenIn(q, r)
  BY <1>1, <1>2, <1>3, <1>7 DEF TakenIn
<1>8. QED BY <1>4, <1>5, <1>6, <1>7 DEF x

\* A link that the step does not use.
LEMMA LinkKept ==
  ASSUME NEW p \in Parties, NEW q \in Parties, LinkOK(p, q), prog' = prog,
         sent'[<<p, q>>] = sent[<<p, q>>], got'[<<p, q>>] = got[<<p, q>>],
         SentIn(p, q)' = SentIn(p, q), TakenIn(p, q)' = TakenIn(p, q)
  PROVE  LinkOK(p, q)'
<1>1. LinkOK(p, q)' <=>
        LET s == sent'[<<p, q>>]
            n == Len(got'[<<p, q>>])
        IN
        /\ n <= Len(s)
        /\ \A i, j \in 1 .. Len(s) : i < j => s[i].call < s[j].call
        /\ {s[i].call : i \in 1 .. Len(s)} = SentIn(p, q)'
        /\ {s[i].call : i \in 1 .. n} = TakenIn(p, q)'
        /\ \A i \in 1 .. Len(s) : s[i].value = Carried(prog'[s[i].call], p)
  BY DEF LinkOK
<1>2. QED BY <1>1 DEF LinkOK

LEMMA LinkSend ==
  ASSUME prog \in [1 .. Length -> Calls], Types, LinkInv, PlaceInv, NEW p \in Parties,
         AtInstruction(p), SendValue(p, Instruction(p))
  PROVE  /\ LinkInv'
         /\ sent' \in [Links -> Seq(Messages)] /\ got' = got
<1> DEFINE x == Instruction(p)
           a == at[p]
           m == [call |-> a, value |-> value[p]]
<1>1. /\ a \in 1 .. Length /\ a \in Nat /\ prog[a] \in Calls /\ x \in Instructions
      /\ AtPlace(prog[a], p, Through(a, p), x)
  BY AtIt
<1>2. /\ x.do = "send" /\ Advance(p) /\ prog' = prog /\ got' = got
      /\ sent' = [sent EXCEPT ![<<p, x.peer>>] = Append(@, m)]
  BY DEF SendValue, Chan!Put, Advance
<1>3. PICK q \in Parties : q = x.peer /\ q # p /\ Sends(x, q)
  BY <1>1, <1>2, OthersOnly DEF AtPlace, LocalDo, Sends, Instructions
<1> DEFINE s == sent[<<p, q>>]
<1>4. <<p, q>> \in Links /\ s \in Seq(Messages) /\ Len(s) \in Nat /\ sent \in [Links -> Seq(Messages)]
  BY <1>3 DEF Links, Types
<1>5. m \in Messages
  BY <1>1 DEF Messages, Types
<1>6. value[p] = Carried(prog[a], p)
  <2>1. value[p] = ValueAfter(prog[a], p, Through(a, p))
    BY <1>1 DEF PlaceInv, PlaceOK
  <2>2. QED BY <1>1, <1>2, <2>1, SentRight
<1>7. m.call = a /\ m.value = Carried(prog[a], p)
  BY <1>6
<1> HIDE DEF m
<1>8. sent' \in [Links -> Seq(Messages)]
  BY <1>2, <1>3, <1>4, <1>5
<1>9. /\ sent'[<<p, q>>] = Append(s, m)
      /\ \A c \in Links : c # <<p, q>> => sent'[c] = sent[c]
  BY <1>2, <1>3, <1>4
<1>10. /\ SentIn(p, q)' = SentIn(p, q) \cup {a}
       /\ \A r, u \in Parties : r # p \/ u # q => SentIn(r, u)' = SentIn(r, u)
       /\ \A r, u \in Parties : TakenIn(r, u)' = TakenIn(r, u)
  <2>1. \A u \in Parties : Sends(x, u) => u = q
    BY <1>3 DEF Sends
  <2>2. \A u \in Parties : ~ Receives(x, u)
    BY <1>2 DEF Receives, Receiving
  <2>3. /\ \A u \in Parties : Sends(x, u) => SentIn(p, u)' = SentIn(p, u) \cup {a}
        /\ \A r, u \in Parties : ~ (r = p /\ Sends(x, u)) => SentIn(r, u)' = SentIn(r, u)
        /\ \A r, u \in Parties : ~ (r = p /\ Receives(x, u)) => TakenIn(u, r)' = TakenIn(u, r)
    BY <1>2, UsedAfter
  <2> HIDE DEF x, a
  <2>4. QED BY <1>3, <2>1, <2>2, <2>3
<1>11. \A k \in SentIn(p, q) : k \in Nat /\ k < a
  <2>1. a \notin SentIn(p, q)
    <3>1. ~ \E y \in Through(a, p) : Sends(y, q)
      <4>1. \A y \in Through(a, p) : ~ Same(y, x)
        BY <1>1 DEF AtPlace
      <4>2. QED BY <1>2, <1>3, <4>1 DEF Sends, Same
    <3>2. QED BY <3>1 DEF SentIn
  <2>2. \A k \in SentIn(p, q) : k \in Nat /\ k <= a
    BY <1>3, UsedIn, BoundAssumption
  <2>3. QED BY <1>1, <2>1, <2>2
<1>12. LinkOK(p, q)
  BY <1>3 DEF LinkInv
<1> DEFINE t == Append(s, m)
<1>13. /\ Len(t) = Len(s) + 1 /\ t[Len(s) + 1] = m
       /\ \A i \in 1 .. Len(s) : t[i] = s[i]
  BY <1>4, <1>5
<1> HIDE DEF t
<1>14. sent'[<<p, q>>] = t
  BY <1>9 DEF t
<1> HIDE DEF s, x, a
<1>15. /\ \A i \in 1 .. Len(s) : s[i].call \in SentIn(p, q)
       /\ \A i, j \in 1 .. Len(s) : i < j => s[i].call < s[j].call
       /\ {s[i].call : i \in 1 .. Len(s)} = SentIn(p, q)
       /\ {s[i].call : i \in 1 .. Len(got[<<p, q>>])} = TakenIn(p, q)
       /\ Len(got[<<p, q>>]) <= Len(s)
       /\ \A i \in 1 .. Len(s) : s[i].value = Carried(prog[s[i].call], p)
  BY <1>12 DEF LinkOK, s
<1>16. Len(got[<<p, q>>]) \in Nat
  <2>1. got[<<p, q>>] \in Seq(Messages)
    BY <1>4 DEF Types
  <2>2. QED BY <2>1
<1>17. LinkOK(p, q)'
  <2>1. Len(got'[<<p, q>>]) <= Len(t)
    BY <1>2, <1>4, <1>13, <1>15, <1>16
  <2>2. \A i, j \in 1 .. Len(t) : i < j => t[i].call < t[j].call
    <3>1. TAKE i, j \in 1 .. Len(t)
    <3>2. HAVE i < j
    <3>3. i \in 1 .. Len(s) /\ t[i] = s[i] /\ s[i].call \in SentIn(p, q)
      BY <1>4, <1>13, <1>15, <3>2
    <3>4. CASE j \in 1 .. Len(s)
      BY <1>13, <1>15, <3>2, <3>3, <3>4
    <3>5. CASE j = Len(s) + 1
      BY <1>7, <1>11, <1>13, <3>3, <3>5
    <3>6. QED BY <1>4, <1>13, <3>4, <3>5
  <2>3. {t[i].call : i \in 1 .. Len(t)} = SentIn(p, q) \cup {a}
    <3>1. 1 .. Len(t) = (1 .. Len(s)) \cup {Len(s) + 1}
      BY <1>4, <1>13
    <3>2. {t[i].call : i \in 1 .. Len(s)} = {s[i].call : i \in 1 .. Len(s)}
      BY <1>13
    <3>3. {t[i].call : i \in 1 .. Len(t)} = {t[i].call : i \in 1 .. Len(s)} \cup {t[Len(s) + 1].call}
      BY <3>1
    <3>4. QED BY <1>7, <1>13, <1>15, <3>2, <3>3
  <2>4. {t[i].call : i \in 1 .. Len(got'[<<p, q>>])} = TakenIn(p, q)
    <3>1. \A i \in 1 .. Len(got[<<p, q>>]) : t[i] = s[i]
      BY <1>4, <1>13, <1>15, <1>16
    <3>2. QED BY <1>2, <1>15, <3>1
  <2>5. \A i \in 1 .. Len(t) : t[i].value = Carried(prog[t[i].call], p)
    <3>1. TAKE i \in 1 .. Len(t)
    <3>2. CASE i \in 1 .. Len(s)
      BY <1>13, <1>15, <3>2
    <3>3. CASE i = Len(s) + 1
      BY <1>7, <1>13, <3>3
    <3>4. QED BY <1>4, <1>13, <3>2, <3>3
  <2>6. LinkOK(p, q)' <=>
          LET u == sent'[<<p, q>>]
              n == Len(got'[<<p, q>>])
          IN
          /\ n <= Len(u)
          /\ \A i, j \in 1 .. Len(u) : i < j => u[i].call < u[j].call
          /\ {u[i].call : i \in 1 .. Len(u)} = SentIn(p, q)'
          /\ {u[i].call : i \in 1 .. n} = TakenIn(p, q)'
          /\ \A i \in 1 .. Len(u) : u[i].value = Carried(prog'[u[i].call], p)
    BY DEF LinkOK
  <2>7. prog' = prog /\ SentIn(p, q)' = SentIn(p, q) \cup {a} /\ TakenIn(p, q)' = TakenIn(p, q)
    BY <1>2, <1>3, <1>10
  <2>8. QED BY <1>14, <2>1, <2>2, <2>3, <2>4, <2>5, <2>6, <2>7
<1>18. ASSUME NEW r \in Parties, NEW u \in Parties, r # u PROVE LinkOK(r, u)'
  <2>1. CASE r = p /\ u = q
    BY <1>17, <2>1
  <2>2. CASE r # p \/ u # q
    <3>1. LinkOK(r, u) /\ <<r, u>> \in Links /\ <<r, u>> # <<p, q>>
      BY <1>18, <2>2 DEF LinkInv, Links
    <3>2. QED BY <1>2, <1>9, <1>10, <2>2, <3>1, LinkKept
  <2>3. QED BY <2>1, <2>2
<1>19. QED BY <1>2, <1>8, <1>18 DEF LinkInv

LEMMA LinkReceive ==
  ASSUME prog \in [1 .. Length -> Calls], Types, LinkInv, NEW p \in Parties,
         AtInstruction(p), Instruction(p).do \in Receiving,
         Chan!Get(<<Instruction(p).peer, p>>), Advance(p)
  PROVE  /\ LinkInv'
         /\ got' \in [Links -> Seq(Messages)] /\ sent' = sent
         /\ NextMessage(<<Instruction(p).peer, p>>) \in Messages
         /\ NextMessage(<<Instruction(p).peer, p>>).call = at[p]
         /\ NextMessage(<<Instruction(p).peer, p>>).value = Carried(prog[at[p]], Instruction(p).peer)
<1> DEFINE x == Instruction(p)
           a == at[p]
<1>1. PICK q : q = x.peer
  OBVIOUS
<1> DEFINE s == sent[<<q, p>>]
           n == Len(got[<<q, p>>])
           m == NextMessage(<<q, p>>)
<1>2. /\ prog' = prog /\ sent' = sent /\ n < Len(s)
      /\ got' = [got EXCEPT ![<<q, p>>] = Append(@, sent[<<q, p>>][Len(@) + 1])]
  BY <1>1 DEF Chan!Get, Advance
<1>3. Pending(<<x.peer, p>>) > 0 /\ s \in Seq(Messages) /\ n \in Nat /\ Len(s) \in Nat
      /\ got[<<q, p>>] \in Seq(Messages) /\ <<q, p>> \in Links
  <2>1. x \in Instructions /\ AtPlace(prog[a], p, Through(a, p), x) /\ prog[a] \in Calls
    BY AtIt
  <2>2. q \in Parties /\ q # p
    BY <1>1, <2>1, OthersOnly DEF AtPlace, Receiving, LocalDo, Instructions
  <2>3. <<q, p>> \in Links /\ s \in Seq(Messages) /\ got[<<q, p>>] \in Seq(Messages)
    BY <2>2 DEF Links, Types
  <2>4. n \in Nat /\ Len(s) \in Nat
    BY <2>3
  <2>5. Len(s) - n > 0
    <3>1. n < Len(s)
      BY <1>2
    <3> HIDE DEF s, n
    <3>2. QED BY <2>4, <3>1
  <2>6. QED BY <1>1, <2>3, <2>4, <2>5 DEF Pending
<1>4. q \in Parties /\ q # p /\ LinkOK(q, p) /\ m.call = a /\ m.value = Carried(prog[a], q)
  <2>1. LET u == Instruction(p).peer
            e == NextMessage(<<u, p>>)
        IN  /\ u \in Parties /\ u # p /\ <<u, p>> \in Links /\ LinkOK(u, p)
            /\ e.call = at[p] /\ e.value = Carried(prog[at[p]], u)
    BY <1>3, Aligned
  <2>2. QED BY <1>1, <2>1
<1>5. m = s[n + 1] /\ n + 1 \in 1 .. Len(s) /\ m \in Messages
  BY <1>2, <1>3 DEF NextMessage
<1> DEFINE t == Append(got[<<q, p>>], m)
<1>6. /\ got' = [got EXCEPT ![<<q, p>>] = t]
      /\ got' \in [Links -> Seq(Messages)] /\ got'[<<q, p>>] = t /\ Len(t) = n + 1
      /\ \A c \in Links : c # <<q, p>> => got'[c] = got[c]
  <2>1. got \in [Links -> Seq(Messages)]
    BY DEF Types
  <2>2. got' = [got EXCEPT ![<<q, p>>] = t]
    BY <1>2, <1>3, <1>5, <2>1
  <2>3. t \in Seq(Messages) /\ Len(t) = n + 1
    BY <1>3, <1>5
  <2> HIDE DEF t, m, n
  <2>4. QED BY <1>3, <2>1, <2>2, <2>3
<1>7. /\ TakenIn(q, p)' = TakenIn(q, p) \cup {a}
      /\ \A r, u \in Parties : r # p \/ u # q => TakenIn(u, r)' = TakenIn(u, r)
      /\ \A r, u \in Parties : SentIn(r, u)' = SentIn(r, u)
  <2>1. \A u \in Parties : Receives(x, u) <=> u = q
    BY <1>1 DEF Receives
  <2>2. \A u \in Parties : ~ Sends(x, u)
    BY DEF Sends, Receiving
  <2>3. /\ \A u \in Parties : Receives(x, u) => TakenIn(u, p)' = TakenIn(u, p) \cup {a}
        /\ \A r, u \in Parties : ~ (r = p /\ Sends(x, u)) => SentIn(r, u)' = SentIn(r, u)
        /\ \A r, u \in Parties : ~ (r = p /\ Receives(x, u)) => TakenIn(u, r)' = TakenIn(u, r)
    BY UsedAfter
  <2> HIDE DEF x, a
  <2>4. QED BY <1>4, <2>1, <2>2, <2>3
<1>8. LinkOK(q, p)'
  <2>1. /\ n <= Len(s)
        /\ \A i, j \in 1 .. Len(s) : i < j => s[i].call < s[j].call
        /\ {s[i].call : i \in 1 .. Len(s)} = SentIn(q, p)
        /\ {s[i].call : i \in 1 .. n} = TakenIn(q, p)
        /\ \A i \in 1 .. Len(s) : s[i].value = Carried(prog[s[i].call], q)
    BY <1>4 DEF LinkOK
  <2>2. s[n + 1].call = a
    BY <1>4, <1>5
  <2> HIDE DEF s, a
  <2>3. Len(t) <= Len(s) /\ Len(t) = n + 1 /\ n \in Nat
    BY <1>2, <1>3, <1>6
  <2> HIDE DEF t, n
  <2>4. {s[i].call : i \in 1 .. Len(t)} = TakenIn(q, p) \cup {a}
    <3>1. 1 .. Len(t) = (1 .. n) \cup {n + 1}
      BY <2>3
    <3>2. {s[i].call : i \in 1 .. Len(t)} = {s[i].call : i \in 1 .. n} \cup {s[n + 1].call}
      BY <3>1
    <3>3. QED BY <2>1, <2>2, <3>2
  <2>5. sent'[<<q, p>>] = s /\ got'[<<q, p>>] = t /\ prog' = prog
    BY <1>2, <1>6 DEF s
  <2>6. SentIn(q, p)' = SentIn(q, p) /\ TakenIn(q, p)' = TakenIn(q, p) \cup {a}
    BY <1>4, <1>7
  <2> DEFINE v == sent'[<<q, p>>]
             k == Len(got'[<<q, p>>])
  <2>7. v = s /\ k = Len(t)
    BY <2>5
  <2>8. LinkOK(q, p)' <=>
          /\ k <= Len(v)
          /\ \A i, j \in 1 .. Len(v) : i < j => v[i].call < v[j].call
          /\ {v[i].call : i \in 1 .. Len(v)} = SentIn(q, p)'
          /\ {v[i].call : i \in 1 .. k} = TakenIn(q, p)'
          /\ \A i \in 1 .. Len(v) : v[i].value = Carried(prog'[v[i].call], q)
    BY DEF LinkOK
  <2> HIDE DEF v, k
  <2>9. k <= Len(v) /\ \A i, j \in 1 .. Len(v) : i < j => v[i].call < v[j].call
    BY <2>1, <2>3, <2>7
  <2>10. {v[i].call : i \in 1 .. Len(v)} = SentIn(q, p)'
    BY <2>1, <2>6, <2>7
  <2>11. {v[i].call : i \in 1 .. k} = TakenIn(q, p)'
    BY <2>4, <2>6, <2>7
  <2>12. \A i \in 1 .. Len(v) : v[i].value = Carried(prog'[v[i].call], q)
    BY <2>1, <2>5, <2>7
  <2>13. QED BY <2>8, <2>9, <2>10, <2>11, <2>12
<1>9. ASSUME NEW r \in Parties, NEW u \in Parties, r # u PROVE LinkOK(r, u)'
  <2>1. CASE r = q /\ u = p
    BY <1>8, <2>1
  <2>2. CASE r # q \/ u # p
    <3>1. LinkOK(r, u) /\ <<r, u>> \in Links /\ <<r, u>> # <<q, p>>
      BY <1>9, <2>2 DEF LinkInv, Links
    <3>2. sent'[<<r, u>>] = sent[<<r, u>>] /\ got'[<<r, u>>] = got[<<r, u>>]
      BY <1>2, <1>6, <3>1
    <3>3. SentIn(r, u)' = SentIn(r, u) /\ TakenIn(r, u)' = TakenIn(r, u)
      BY <1>7, <2>2
    <3>4. QED BY <1>2, <3>1, <3>2, <3>3, LinkKept
  <2>3. QED BY <2>1, <2>2
<1>10. LinkInv'
  BY <1>9 DEF LinkInv
<1>11. QED BY <1>1, <1>2, <1>4, <1>5, <1>6, <1>10

\* The steps that use no link, and the return of a call.
LEMMA LinkUnused ==
  ASSUME prog \in [1 .. Length -> Calls], Types, LinkInv, NEW p \in Parties,
         UNCHANGED links,
         \/ AtInstruction(p) /\ Advance(p) /\ Instruction(p).do \in {"flush"} \cup LocalDo
         \/ Return(p)
  PROVE  LinkInv'
<1>1. \A r, u \in Parties : SentIn(r, u)' = SentIn(r, u) /\ TakenIn(r, u)' = TakenIn(r, u)
  <2>1. CASE AtInstruction(p) /\ Advance(p) /\ Instruction(p).do \in {"flush"} \cup LocalDo
    <3>1. \A u \in Parties : ~ Sends(Instruction(p), u) /\ ~ Receives(Instruction(p), u)
      BY <2>1 DEF Sends, Receives, Receiving, LocalDo
    <3>2. QED BY <2>1, <3>1, UsedAfter
  <2>2. CASE Return(p)
    <3>1. \A k \in 1 .. Length, r \in Parties : Through(k, r)' = Through(k, r)
      BY <2>2, ReturnKeeps
    <3>2. QED BY <3>1 DEF SentIn, TakenIn
  <2>3. QED BY <2>1, <2>2
<1>2. prog' = prog /\ sent' = sent /\ got' = got
  BY DEF links, Advance, Return
<1>3. ASSUME NEW r \in Parties, NEW u \in Parties, r # u PROVE LinkOK(r, u)'
  <2>1. LinkOK(r, u)
    BY <1>3 DEF LinkInv
  <2>2. QED BY <1>1, <1>2, <2>1, LinkKept
<1>4. QED BY <1>3 DEF LinkInv

-----------------------------------------------------------------------------
\* Every step keeps the parties' values and lists what they are for.

\* The rest of PlaceInv, when party p carries out x and has value v and list l then.
LEMMA PlaceStep ==
  ASSUME prog \in [1 .. Length -> Calls], Types, PlaceInv, NEW p \in Parties,
         AtInstruction(p), Advance(p), NEW v, NEW l,
         value' = [value EXCEPT ![p] = v], coll' = [coll EXCEPT ![p] = l],
         failed' = [failed EXCEPT ![p] = FALSE],
         v = ValueAfter(prog[at[p]], p, Through(at[p], p) \cup {Instruction(p)}),
         l = InOrder(Members(p, Through(at[p], p) \cup {Instruction(p)}))
  PROVE  PlaceInv'
<1>1. /\ at' = at /\ prog' = prog
      /\ at[p] \in 1 .. Length
      /\ value \in [Parties -> Values] /\ coll \in [Parties -> Seq(Values)] /\ failed \in [Parties -> BOOLEAN]
  BY AtIt DEF Advance, Types
<1>2. \A r \in Parties : /\ value'[r] = IF r = p THEN v ELSE value[r]
                         /\ coll'[r] = IF r = p THEN l ELSE coll[r]
                         /\ failed'[r] = IF r = p THEN FALSE ELSE failed[r]
  BY <1>1
<1>3. \A k \in 1 .. Length, r \in Parties :
        Through(k, r)' = Through(k, r) \cup (IF r = p /\ k = at[p] THEN {Instruction(p)} ELSE {})
  BY StepAdds
<1>4. ASSUME NEW r \in Parties PROVE PlaceOK(r)'
  <2>1. failed'[r] = FALSE
    BY <1>2 DEF PlaceInv, PlaceOK
  <2>2. ASSUME NEW k \in 1 .. Length, k = at'[r]
        PROVE  /\ value'[r] = ValueAfter(prog'[k], r, Through(k, r)')
               /\ coll'[r] = InOrder(Members(r, Through(k, r)'))
    <3>1. k = at[r]
      BY <1>1, <2>2
    <3>2. CASE r = p
      <4>1. Through(k, r)' = Through(at[p], p) \cup {Instruction(p)}
        BY <1>3, <3>1, <3>2
      <4>2. QED BY <1>1, <1>2, <3>1, <3>2, <4>1
    <3>3. CASE r # p
      <4>1. Through(k, r)' = Through(k, r)
        BY <1>3, <3>3
      <4>2. value[r] = ValueAfter(prog[k], r, Through(k, r)) /\ coll[r] = InOrder(Members(r, Through(k, r)))
        BY <3>1 DEF PlaceInv, PlaceOK
      <4>3. QED BY <1>1, <1>2, <3>3, <4>1, <4>2
    <3>4. QED BY <3>2, <3>3
  <2>3. PlaceOK(r)' <=>
          /\ failed'[r] = FALSE
          /\ \A k \in 1 .. Length : k = at'[r] =>
               /\ value'[r] = ValueAfter(prog'[k], r, Through(k, r)')
               /\ coll'[r] = InOrder(Members(r, Through(k, r)'))
    BY DEF PlaceOK
  <2>4. QED BY <2>1, <2>2, <2>3
<1>5. QED BY <1>4 DEF PlaceInv

\* What a party has where it is.
LEMMA AtPlaceValue ==
  ASSUME prog \in [1 .. Length -> Calls], Types, PlaceInv, NEW p \in Parties, AtInstruction(p)
  PROVE  LET c == prog[at[p]]
             E == Through(at[p], p)
             x == Instruction(p)
         IN
         /\ c \in Calls /\ AtPlace(c, p, E, x) /\ x \in Instructions /\ x.peer \in Parties
         /\ value[p] = ValueAfter(c, p, E) /\ coll[p] = InOrder(Members(p, E))
         /\ Members(p, E) \in SUBSET Parties
         /\ failed = [failed EXCEPT ![p] = FALSE]
         /\ value = [value EXCEPT ![p] = value[p]] /\ coll = [coll EXCEPT ![p] = coll[p]]
<1>1. /\ at[p] \in 1 .. Length /\ prog[at[p]] \in Calls /\ Instruction(p) \in Instructions
      /\ AtPlace(prog[at[p]], p, Through(at[p], p), Instruction(p))
  BY AtIt
<1>2. /\ value[p] = ValueAfter(prog[at[p]], p, Through(at[p], p))
      /\ coll[p] = InOrder(Members(p, Through(at[p], p)))
      /\ failed[p] = FALSE
  BY <1>1 DEF PlaceInv, PlaceOK
<1>3. failed = [failed EXCEPT ![p] = FALSE] /\ value = [value EXCEPT ![p] = value[p]]
      /\ coll = [coll EXCEPT ![p] = coll[p]]
  BY <1>2 DEF Types
<1>4. Members(p, Through(at[p], p)) \in SUBSET Parties
  BY DEF Members
<1>5. Instruction(p).peer \in Parties
  BY <1>1 DEF Instructions
<1>6. QED BY <1>1, <1>2, <1>3, <1>4, <1>5

LEMMA PlaceReceive ==
  ASSUME prog \in [1 .. Length -> Calls], Types, LinkInv, PlaceInv, NEW p \in Parties,
         AtInstruction(p), ReceiveValue(p, Instruction(p))
  PROVE  /\ PlaceInv'
         /\ value' \in [Parties -> Values] /\ coll' \in [Parties -> Seq(Values)]
<1> DEFINE c == prog[at[p]]
           E == Through(at[p], p)
           x == Instruction(p)
           m == NextMessage(<<x.peer, p>>)
<1>1. /\ Chan!Get(<<x.peer, p>>) /\ Advance(p) /\ failed' = failed
      /\ x.do \in {"add", "take", "append"}
      /\ x.do = "add" => value' = [value EXCEPT ![p] = Plus(@, m.value)] /\ coll' = coll
      /\ x.do = "take" => value' = [value EXCEPT ![p] = m.value] /\ coll' = coll
      /\ x.do = "append" => coll' = [coll EXCEPT ![p] = Append(@, m.value)] /\ value' = value
  BY DEF ReceiveValue
<1>2. m.value = Carried(c, x.peer) /\ m.value \in Values
  <2>1. x.do \in Receiving
    BY <1>1 DEF Receiving
  <2>2. m \in Messages /\ m.value = Carried(c, x.peer)
    BY <1>1, <2>1, LinkReceive
  <2>3. QED BY <2>2 DEF Messages
<1>3. /\ c \in Calls /\ AtPlace(c, p, E, x) /\ x \in Instructions /\ x.peer \in Parties
      /\ value[p] = ValueAfter(c, p, E) /\ coll[p] = InOrder(Members(p, E))
      /\ Members(p, E) \in SUBSET Parties
      /\ failed = [failed EXCEPT ![p] = FALSE]
      /\ value = [value EXCEPT ![p] = value[p]] /\ coll = [coll EXCEPT ![p] = coll[p]]
  BY AtPlaceValue
<1>4. x \in Content(c, p)
  BY <1>3 DEF AtPlace
<1>5. value \in [Parties -> Values] /\ coll \in [Parties -> Seq(Values)]
  BY DEF Types
<1> HIDE DEF c, E, x, m
<1> DEFINE v == value'[p]
           l == coll'[p]
<1>6. /\ value' = [value EXCEPT ![p] = v] /\ coll' = [coll EXCEPT ![p] = l]
      /\ v = ValueAfter(c, p, E \cup {x}) /\ l = InOrder(Members(p, E \cup {x}))
      /\ v \in Values /\ l \in Seq(Values)
  <2>1. CASE x.do = "add"
    <3>1. value' = [value EXCEPT ![p] = Plus(value[p], m.value)] /\ coll' = coll
      BY <1>1, <2>1
    <3>2. m.value = Own(x.peer)
      BY <1>2, <1>3, <1>4, <2>1, CarriedIs
    <3>3. ValueAfter(c, p, E \cup {x}) = Plus(ValueAfter(c, p, E), Own(x.peer))
      BY <1>3, <2>1, AddRight
    <3>4. v = ValueAfter(c, p, E \cup {x})
      BY <1>3, <1>5, <3>1, <3>2, <3>3
    <3>5. Members(p, E \cup {x}) = Members(p, E)
      BY <1>3, <2>1, MembersGrow
    <3>6. v \in Values
      <4>1. value[p] \in Values /\ \A q \in Parties : value[p][q] \in Nat /\ m.value[q] \in Nat
        BY <1>2, <1>5 DEF Values
      <4>2. Plus(value[p], m.value) \in Values
        BY <4>1 DEF Plus, Values
      <4>3. QED BY <1>5, <3>1, <4>2
    <3>7. QED BY <1>3, <1>5, <3>1, <3>4, <3>5, <3>6
  <2>2. CASE x.do = "take"
    <3>1. value' = [value EXCEPT ![p] = m.value] /\ coll' = coll
      BY <1>1, <2>2
    <3>2. m.value = Given(c)
      BY <1>2, <1>3, <1>4, <2>2, CarriedIs
    <3>3. ValueAfter(c, p, E \cup {x}) = Given(c)
      BY <2>2, TakeRight
    <3>4. v = ValueAfter(c, p, E \cup {x}) /\ v \in Values
      BY <1>2, <1>5, <3>1, <3>2, <3>3
    <3>5. Members(p, E \cup {x}) = Members(p, E)
      BY <1>3, <2>2, MembersGrow
    <3>6. QED BY <1>3, <1>5, <3>1, <3>4, <3>5
  <2>3. CASE x.do = "append"
    <3>1. coll' = [coll EXCEPT ![p] = Append(coll[p], m.value)] /\ value' = value
      BY <1>1, <2>3
    <3>2. m.value = Own(x.peer)
      BY <1>2, <1>3, <1>4, <2>3, CarriedIs
    <3>3. ValueAfter(c, p, E \cup {x}) = ValueAfter(c, p, E)
      BY <2>3, KeepsValue
    <3>4. Members(p, E \cup {x}) = Members(p, E) \cup {x.peer}
      BY <1>3, <2>3, MembersGrow
    <3>5. InOrder(Members(p, E) \cup {x.peer}) = Append(InOrder(Members(p, E)), Own(x.peer))
      BY <1>3, <2>3, MembersBelow, InOrderAppend
    <3>6. l = InOrder(Members(p, E \cup {x}))
      BY <1>3, <1>5, <3>1, <3>2, <3>4, <3>5
    <3>7. Append(coll[p], m.value) \in Seq(Values)
      BY <1>2, <1>5
    <3>8. QED BY <1>3, <1>5, <3>1, <3>3, <3>6, <3>7
  <2>4. QED BY <1>1, <2>1, <2>2, <2>3
<1>7. failed' = [failed EXCEPT ![p] = FALSE]
  BY <1>1, <1>3
<1> HIDE DEF v, l
<1>8. PlaceInv'
  BY <1>1, <1>6, <1>7, PlaceStep DEF c, E, x
<1>9. QED BY <1>5, <1>6, <1>8

\* Sending, and the instructions that leave value and list alone.
LEMMA PlaceQuiet ==
  ASSUME prog \in [1 .. Length -> Calls], Types, PlaceInv, NEW p \in Parties,
         AtInstruction(p), Advance(p),
         Instruction(p).do \in {"send", "flush", "check", "func"},
         value' = value, coll' = coll, failed' = [failed EXCEPT ![p] = FALSE]
  PROVE  PlaceInv'
<1> DEFINE c == prog[at[p]]
           E == Through(at[p], p)
           x == Instruction(p)
<1>1. /\ c \in Calls /\ x \in Instructions
      /\ value[p] = ValueAfter(c, p, E) /\ coll[p] = InOrder(Members(p, E))
      /\ value = [value EXCEPT ![p] = value[p]] /\ coll = [coll EXCEPT ![p] = coll[p]]
  BY AtPlaceValue
<1>2. x.do \in {"send", "flush", "check", "func"}
  OBVIOUS
<1> HIDE DEF c, E, x
<1>3. ValueAfter(c, p, E \cup {x}) = ValueAfter(c, p, E)
  BY <1>2, KeepsValue
<1>4. Members(p, E \cup {x}) = Members(p, E)
  BY <1>1, <1>2, MembersGrow
<1>5. /\ value' = [value EXCEPT ![p] = value[p]] /\ coll' = [coll EXCEPT ![p] = coll[p]]
      /\ value[p] = ValueAfter(c, p, E \cup {x}) /\ coll[p] = InOrder(Members(p, E \cup {x}))
  BY <1>1, <1>3, <1>4
<1>6. QED BY <1>5, PlaceStep DEF c, E, x

LEMMA PlaceCompute ==
  ASSUME prog \in [1 .. Length -> Calls], Types, PlaceInv, NEW p \in Parties,
         AtInstruction(p), Compute(p, Instruction(p))
  PROVE  /\ PlaceInv'
         /\ value' \in [Parties -> Values] /\ coll' \in [Parties -> Seq(Values)]
<1> DEFINE c == prog[at[p]]
           E == Through(at[p], p)
           x == Instruction(p)
<1>1. /\ Advance(p) /\ failed' = failed
      /\ x.do \in LocalDo
      /\ x.do = "clear" => value' = [value EXCEPT ![p] = Zero] /\ coll' = coll
      /\ x.do = "keep" => coll' = [coll EXCEPT ![p] = Append(@, value[p])] /\ value' = value
      /\ x.do = "reduce" => value' = [value EXCEPT ![p] = FoldSeq(Plus, Zero, coll[p])] /\ coll' = coll
      /\ x.do = "func" => value' = value /\ coll' = coll
  BY DEF Compute, LocalDo
<1>3. /\ c \in Calls /\ AtPlace(c, p, E, x) /\ x \in Instructions /\ x.peer \in Parties
      /\ value[p] = ValueAfter(c, p, E) /\ coll[p] = InOrder(Members(p, E))
      /\ Members(p, E) \in SUBSET Parties
      /\ failed = [failed EXCEPT ![p] = FALSE]
      /\ value = [value EXCEPT ![p] = value[p]] /\ coll = [coll EXCEPT ![p] = coll[p]]
  BY AtPlaceValue
<1>5. value \in [Parties -> Values] /\ coll \in [Parties -> Seq(Values)]
  BY DEF Types
<1>6. Zero \in Values /\ \A S : SumOf(S) \in Values
  BY ValueFacts
<1> HIDE DEF c, E, x
<1>7. failed' = [failed EXCEPT ![p] = FALSE]
  BY <1>1, <1>3
<1> DEFINE v == value'[p]
           l == coll'[p]
<1>8. /\ value' = [value EXCEPT ![p] = v] /\ coll' = [coll EXCEPT ![p] = l]
      /\ v = ValueAfter(c, p, E \cup {x}) /\ l = InOrder(Members(p, E \cup {x}))
      /\ v \in Values /\ l \in Seq(Values)
  <2>1. CASE x.do = "clear"
    <3>1. value' = [value EXCEPT ![p] = Zero] /\ coll' = coll
      BY <1>1, <2>1
    <3>2. ValueAfter(c, p, E \cup {x}) = Zero
      BY <1>3, <2>1, ClearRight
    <3>3. Members(p, E \cup {x}) = Members(p, E)
      BY <1>3, <2>1, MembersGrow
    <3>4. QED BY <1>3, <1>5, <1>6, <3>1, <3>2, <3>3
  <2>2. CASE x.do = "keep"
    <3>1. coll' = [coll EXCEPT ![p] = Append(coll[p], value[p])] /\ value' = value
      BY <1>1, <2>2
    <3>2. value[p] = Own(p)
      BY <1>3, <2>2, KeepRight
    <3>3. ValueAfter(c, p, E \cup {x}) = ValueAfter(c, p, E)
      BY <2>2, KeepsValue
    <3>4. Members(p, E \cup {x}) = Members(p, E) \cup {p}
      BY <1>3, <2>2, MembersGrow
    <3>5. InOrder(Members(p, E) \cup {p}) = Append(InOrder(Members(p, E)), Own(p))
      BY <1>3, <2>2, MembersBelow, InOrderAppend
    <3>6. l = InOrder(Members(p, E \cup {x}))
      BY <1>3, <1>5, <3>1, <3>2, <3>4, <3>5
    <3>7. Append(coll[p], value[p]) \in Seq(Values) /\ value[p] \in Values
      BY <1>5
    <3>8. QED BY <1>3, <1>5, <3>1, <3>3, <3>6, <3>7
  <2>3. CASE x.do = "reduce"
    <3>1. value' = [value EXCEPT ![p] = FoldSeq(Plus, Zero, coll[p])] /\ coll' = coll
      BY <1>1, <2>3
    <3>2. /\ ValueAfter(c, p, E \cup {x}) = IF p = 1 THEN SumOf(Computing) ELSE Zero
          /\ Members(p, E) = IF p = 1 THEN Computing ELSE {}
      BY <1>3, <2>3, ReduceRight
    <3>3. FoldSeq(Plus, Zero, coll[p]) = IF p = 1 THEN SumOf(Computing) ELSE Zero
      BY <1>3, <3>2, ReduceIs
    <3>4. Members(p, E \cup {x}) = Members(p, E)
      BY <1>3, <2>3, MembersGrow
    <3>5. v = FoldSeq(Plus, Zero, coll[p]) /\ l = coll[p]
      BY <1>5, <3>1
    <3>6. v \in Values
      BY <1>6, <3>3, <3>5
    <3>7. v = ValueAfter(c, p, E \cup {x}) /\ l = InOrder(Members(p, E \cup {x}))
      BY <1>3, <3>2, <3>3, <3>4, <3>5
    <3>8. value' = [value EXCEPT ![p] = v] /\ coll' = [coll EXCEPT ![p] = l] /\ l \in Seq(Values)
      BY <1>3, <1>5, <3>1, <3>5
    <3>9. QED BY <3>6, <3>7, <3>8
  <2>4. CASE x.do = "func"
    <3>1. value' = value /\ coll' = coll
      BY <1>1, <2>4
    <3>2. ValueAfter(c, p, E \cup {x}) = ValueAfter(c, p, E)
      BY <2>4, KeepsValue
    <3>3. Members(p, E \cup {x}) = Members(p, E)
      BY <1>3, <2>4, MembersGrow
    <3>4. QED BY <1>3, <1>5, <3>1, <3>2, <3>3
  <2>5. QED BY <1>1, <2>1, <2>2, <2>3, <2>4 DEF LocalDo
<1> HIDE DEF v, l
<1>9. PlaceInv'
  BY <1>1, <1>7, <1>8, PlaceStep DEF c, E, x
<1>10. QED BY <1>5, <1>8, <1>9

LEMMA PlaceReturn ==
  ASSUME prog \in [1 .. Length -> Calls], Types, PlaceInv, NEW p \in Parties, Return(p)
  PROVE  /\ PlaceInv'
         /\ value' \in [Parties -> Values] /\ coll' \in [Parties -> Seq(Values)]
         /\ at' \in [Parties -> 1 .. Length + 1] /\ pc' \in [Parties -> Nat \ {0}]
         /\ Returned(prog[at[p]], p) = Expected(prog[at[p]], p)
         /\ Returned(prog[at[p]], p) \in Seq(Values)
<1>1. /\ at' = [at EXCEPT ![p] = @ + 1] /\ pc' = [pc EXCEPT ![p] = 1] /\ prog' = prog
      /\ value' = [value EXCEPT ![p] = Own(p)] /\ coll' = [coll EXCEPT ![p] = <<>>]
      /\ failed' = failed
  BY DEF Return
<1>2. /\ at[p] \in 1 .. Length /\ Through(at[p], p) = Content(prog[at[p]], p)
      /\ \A k \in 1 .. Length, r \in Parties : Through(k, r)' = Through(k, r)
  BY ReturnKeeps
<1>3. /\ at \in [Parties -> 1 .. Length + 1] /\ pc \in [Parties -> Nat \ {0}]
      /\ value \in [Parties -> Values] /\ coll \in [Parties -> Seq(Values)] /\ failed \in [Parties -> BOOLEAN]
      /\ Length \in Nat /\ Own(p) \in Values /\ prog[at[p]] \in Calls
  BY <1>2, ValueFacts, BoundAssumption DEF Types
<1>4. /\ value[p] = ValueAfter(prog[at[p]], p, Content(prog[at[p]], p))
      /\ coll[p] = InOrder(Members(p, Content(prog[at[p]], p)))
  BY <1>2 DEF PlaceInv, PlaceOK
<1>5. Returned(prog[at[p]], p) = Expected(prog[at[p]], p)
  BY <1>3, <1>4, Returns
<1>6. Returned(prog[at[p]], p) \in Seq(Values)
  <2>1. value[p] \in Values /\ coll[p] \in Seq(Values)
    BY <1>3
  <2>2. <<value[p]>> \in Seq(Values) /\ <<>> \in Seq(Values)
    BY <2>1
  <2>3. QED BY <2>1, <2>2 DEF Returned
<1>7. /\ value' \in [Parties -> Values] /\ coll' \in [Parties -> Seq(Values)] /\ pc' \in [Parties -> Nat \ {0}]
  BY <1>1, <1>3
<1>8. at' \in [Parties -> 1 .. Length + 1]
  <2>1. at[p] + 1 \in 1 .. Length + 1
    BY <1>2, <1>3
  <2>2. QED BY <1>1, <1>3, <2>1
<1>9. ASSUME NEW r \in Parties PROVE PlaceOK(r)'
  <2>1. failed'[r] = FALSE
    BY <1>1 DEF PlaceInv, PlaceOK
  <2>2. ASSUME NEW k \in 1 .. Length, k = at'[r]
        PROVE  /\ value'[r] = ValueAfter(prog'[k], r, Through(k, r)')
               /\ coll'[r] = InOrder(Members(r, Through(k, r)'))
    <3>1. Through(k, r)' = Through(k, r)
      BY <1>2
    <3>2. CASE r = p
      <4>1. k = at[p] + 1 /\ k > at[p]
        BY <1>1, <1>2, <1>3, <2>2, <3>2
      <4>2. Through(k, p) = {}
        BY <4>1, ThroughAt
      <4>3. ValueAfter(prog'[k], p, {}) = SumOf({p})
        BY DEF ValueAfter
      <4>4. Members(p, {}) = {}
        BY DEF Members
      <4>5. value'[p] = Own(p) /\ coll'[p] = <<>>
        BY <1>1, <1>3
      <4>6. QED BY <3>1, <3>2, <4>2, <4>3, <4>4, <4>5, ValueFacts, InOrderEmpty
    <3>3. CASE r # p
      <4>1. k = at[r] /\ value'[r] = value[r] /\ coll'[r] = coll[r]
        BY <1>1, <1>3, <2>2, <3>3
      <4>2. value[r] = ValueAfter(prog[k], r, Through(k, r)) /\ coll[r] = InOrder(Members(r, Through(k, r)))
        BY <4>1 DEF PlaceInv, PlaceOK
      <4>3. QED BY <1>1, <3>1, <4>1, <4>2
    <3>4. QED BY <3>2, <3>3
  <2>3. PlaceOK(r)' <=>
          /\ failed'[r] = FALSE
          /\ \A k \in 1 .. Length : k = at'[r] =>
               /\ value'[r] = ValueAfter(prog'[k], r, Through(k, r)')
               /\ coll'[r] = InOrder(Members(r, Through(k, r)'))
    BY DEF PlaceOK
  <2>4. QED BY <2>1, <2>2, <2>3
<1>10. PlaceInv'
  BY <1>9 DEF PlaceInv
<1>11. QED BY <1>5, <1>6, <1>7, <1>8, <1>10

LEMMA ResultReturn ==
  ASSUME prog \in [1 .. Length -> Calls], Types, PlaceInv, ResultInv, NEW p \in Parties, Return(p)
  PROVE  ResultInv' /\ result' \in [Parties -> Seq(Seq(Values))]
<1> DEFINE e == Returned(prog[at[p]], p)
<1>1. /\ at' = [at EXCEPT ![p] = @ + 1] /\ prog' = prog
      /\ result' = [result EXCEPT ![p] = Append(@, e)]
  BY DEF Return
<1>2. e = Expected(prog[at[p]], p) /\ e \in Seq(Values) /\ at[p] \in 1 .. Length
  BY PlaceReturn, ReturnKeeps
<1>3. /\ at \in [Parties -> 1 .. Length + 1] /\ result \in [Parties -> Seq(Seq(Values))]
      /\ at[p] \in Nat
  BY <1>2, BoundAssumption DEF Types
<1> HIDE DEF e
<1> DEFINE t == Append(result[p], e)
<1>4. Len(result[p]) = at[p] - 1 /\ \A k \in 1 .. at[p] - 1 : result[p][k] = Expected(prog[k], p)
  BY DEF ResultInv
<1>5. /\ t \in Seq(Seq(Values)) /\ Len(t) = at[p] /\ t[at[p]] = e
      /\ \A k \in 1 .. at[p] - 1 : t[k] = result[p][k]
  <2>1. result[p] \in Seq(Seq(Values))
    BY <1>3
  <2>2. t \in Seq(Seq(Values)) /\ Len(t) = Len(result[p]) + 1 /\ t[Len(result[p]) + 1] = e
        /\ \A k \in 1 .. Len(result[p]) : t[k] = result[p][k]
    BY <1>2, <2>1
  <2> HIDE DEF t
  <2>3. QED BY <1>3, <1>4, <2>2
<1> HIDE DEF t
<1>6. /\ at'[p] = at[p] + 1 /\ result'[p] = t
      /\ \A r \in Parties : r # p => at'[r] = at[r] /\ result'[r] = result[r]
      /\ result' \in [Parties -> Seq(Seq(Values))]
  BY <1>1, <1>3, <1>5 DEF t
<1>7. ASSUME NEW r \in Parties
      PROVE  /\ Len(result'[r]) = at'[r] - 1
             /\ \A k \in 1 .. at'[r] - 1 : result'[r][k] = Expected(prog'[k], r)
  <2>1. CASE r = p
    <3>1. at'[r] - 1 = at[p] /\ result'[r] = t
      <4>1. at'[r] = at[p] + 1 /\ result'[r] = t
        BY <1>6, <2>1
      <4>2. at[p] \in Nat
        BY <1>3
      <4>3. QED BY <4>1, <4>2
    <3>2. \A k \in 1 .. at[p] : t[k] = Expected(prog[k], p)
      <4>1. TAKE k \in 1 .. at[p]
      <4>2. CASE k = at[p]
        BY <1>2, <1>5, <4>2
      <4>3. CASE k \in 1 .. at[p] - 1
        BY <1>4, <1>5, <4>3
      <4>4. QED BY <1>3, <4>2, <4>3
    <3>3. QED BY <1>1, <1>5, <2>1, <3>1, <3>2
  <2>2. CASE r # p
    BY <1>1, <1>6, <2>2 DEF ResultInv
  <2>3. QED BY <2>1, <2>2
<1>8. QED BY <1>6, <1>7 DEF ResultInv

-----------------------------------------------------------------------------
\* The invariant is inductive.

LEMMA InitInv == Init => IInv
<1> SUFFICES ASSUME Init PROVE IInv
  OBVIOUS
<1>1. /\ prog \in [1 .. Length -> Calls] /\ at = [p \in Parties |-> 1] /\ pc = [p \in Parties |-> 1]
      /\ value = [p \in Parties |-> Own(p)] /\ coll = [p \in Parties |-> <<>>]
      /\ failed = [p \in Parties |-> FALSE] /\ result = [p \in Parties |-> <<>>]
      /\ sent = [c \in Links |-> <<>>] /\ got = [c \in Links |-> <<>>]
  BY DEF Init, Chan!Init
<1>2. Types
  <2>1. at \in [Parties -> 1 .. Length + 1] /\ pc \in [Parties -> Nat \ {0}]
    <3>1. 1 \in 1 .. Length + 1
      BY BoundAssumption
    <3>2. QED BY <1>1, <3>1
  <2>2. value \in [Parties -> Values] /\ failed \in [Parties -> BOOLEAN]
    <3>1. \A p \in Parties : Own(p) \in Values
      BY ValueFacts
    <3>2. QED BY <1>1, <3>1
  <2>3. coll \in [Parties -> Seq(Values)] /\ result \in [Parties -> Seq(Seq(Values))]
    BY <1>1
  <2>4. sent \in [Links -> Seq(Messages)] /\ got \in [Links -> Seq(Messages)]
    BY <1>1
  <2>5. QED BY <2>1, <2>2, <2>3, <2>4 DEF Types
<1>3. \A k \in 1 .. Length, p \in Parties : Through(k, p) = {}
  <2>1. TAKE k \in 1 .. Length, p \in Parties
  <2>2. prog[k] \in Calls /\ at[p] = 1 /\ pc[p] = 1 /\ k \in Nat
    BY <1>1, BoundAssumption
  <2>3. CASE k > 1
    BY <1>1, <1>2, <2>2, <2>3, ThroughAt
  <2>4. CASE k = 1
    <3>1. Through(k, p) = Before(Script(prog[k], p), 1)
      BY <1>1, <1>2, <2>2, <2>4, ThroughAt
    <3>2. Made(Script(prog[k], p), Content(prog[k], p), Order(prog[k], p))
      BY <2>2, ScriptMade
    <3>3. DOMAIN Script(prog[k], p) \subseteq Nat \ {0}
      BY <3>2 DEF Made
    <3>4. QED BY <3>1, <3>3 DEF Before
  <2>5. QED BY <2>2, <2>3, <2>4
<1>4. ASSUME NEW p \in Parties, NEW q \in Parties, p # q PROVE LinkOK(p, q)
  <2>1. <<p, q>> \in Links
    BY <1>4 DEF Links
  <2>2. sent[<<p, q>>] = <<>> /\ got[<<p, q>>] = <<>>
    BY <1>1, <2>1
  <2>3. SentIn(p, q) = {} /\ TakenIn(p, q) = {}
    BY <1>3 DEF SentIn, TakenIn
  <2>4. QED BY <2>2, <2>3 DEF LinkOK
<1>5. ASSUME NEW p \in Parties PROVE PlaceOK(p)
  <2>1. ASSUME NEW k \in 1 .. Length
        PROVE  /\ value[p] = ValueAfter(prog[k], p, Through(k, p))
               /\ coll[p] = InOrder(Members(p, Through(k, p)))
    <3>1. Through(k, p) = {}
      BY <1>3
    <3>2. ValueAfter(prog[k], p, {}) = SumOf({p})
      BY DEF ValueAfter
    <3>3. Members(p, {}) = {}
      BY DEF Members
    <3>4. QED BY <1>1, <3>1, <3>2, <3>3, ValueFacts, InOrderEmpty
  <2>2. QED BY <1>1, <2>1 DEF PlaceOK
<1>6. ResultInv
  BY <1>1 DEF ResultInv
<1>7. QED BY <1>1, <1>2, <1>4, <1>5, <1>6 DEF IInv, LinkInv, PlaceInv

\* What an instruction leaves alone, and the place it goes on to.
LEMMA AdvanceTypes ==
  ASSUME Types, ResultInv, NEW p \in Parties, Advance(p)
  PROVE  /\ prog' = prog /\ at' \in [Parties -> 1 .. Length + 1]
         /\ pc' \in [Parties -> Nat \ {0}] /\ result' \in [Parties -> Seq(Seq(Values))]
         /\ ResultInv'
<1>1. /\ pc' = [pc EXCEPT ![p] = @ + 1] /\ prog' = prog /\ at' = at /\ result' = result
  BY DEF Advance
<1>2. pc' \in [Parties -> Nat \ {0}]
  <2>1. pc \in [Parties -> Nat \ {0}] /\ pc[p] + 1 \in Nat \ {0}
    BY DEF Types
  <2>2. QED BY <1>1, <2>1
<1>3. ResultInv'
  BY <1>1 DEF ResultInv
<1>4. QED BY <1>1, <1>2, <1>3 DEF Types

LEMMA NextInv == IInv /\ [Next]_vars => IInv'
<1> SUFFICES ASSUME IInv, [Next]_vars PROVE IInv'
  OBVIOUS
<1>1. prog \in [1 .. Length -> Calls] /\ Types /\ LinkInv /\ PlaceInv /\ ResultInv
  BY DEF IInv
<1>2. /\ failed \in [Parties -> BOOLEAN] /\ value \in [Parties -> Values] /\ coll \in [Parties -> Seq(Values)]
      /\ sent \in [Links -> Seq(Messages)] /\ got \in [Links -> Seq(Messages)]
      /\ result \in [Parties -> Seq(Seq(Values))]
  BY <1>1 DEF Types
<1>3. ASSUME NEW p \in Parties, AtInstruction(p), Execute(p, Instruction(p)) PROVE IInv'
  <2> DEFINE x == Instruction(p)
  <2>1. failed = [failed EXCEPT ![p] = FALSE]
    BY <1>1, <1>3, AtPlaceValue
  <2>2. CASE SendValue(p, x)
    <3>1. Advance(p) /\ x.do = "send" /\ value' = value /\ coll' = coll /\ failed' = failed
      BY <2>2 DEF SendValue
    <3>2. LinkInv' /\ sent' \in [Links -> Seq(Messages)] /\ got' = got
      BY <1>1, <1>3, <2>2, LinkSend
    <3>3. PlaceInv'
      BY <1>1, <1>3, <2>1, <3>1, PlaceQuiet
    <3>4. QED BY <1>1, <1>2, <3>1, <3>2, <3>3, AdvanceTypes DEF IInv, Types
  <2>3. CASE Flush(p, x)
    <3>1. Advance(p) /\ x.do = "flush" /\ value' = value /\ coll' = coll /\ failed' = failed
          /\ UNCHANGED links
      BY <2>3 DEF Flush
    <3>2. LinkInv'
      BY <1>1, <1>3, <3>1, LinkUnused
    <3>3. PlaceInv'
      BY <1>1, <1>3, <2>1, <3>1, PlaceQuiet
    <3>4. QED BY <1>1, <1>2, <3>1, <3>2, <3>3, AdvanceTypes DEF IInv, Types, links
  <2>4. CASE ReceiveValue(p, x)
    <3>1. Advance(p) /\ Chan!Get(<<x.peer, p>>) /\ x.do \in Receiving /\ failed' = failed
      BY <2>4 DEF ReceiveValue, Receiving
    <3>2. LinkInv' /\ got' \in [Links -> Seq(Messages)] /\ sent' = sent
      BY <1>1, <1>3, <3>1, LinkReceive
    <3>3. PlaceInv' /\ value' \in [Parties -> Values] /\ coll' \in [Parties -> Seq(Values)]
      BY <1>1, <1>3, <2>4, PlaceReceive
    <3>4. QED BY <1>1, <1>2, <3>1, <3>2, <3>3, AdvanceTypes DEF IInv, Types
  <2>5. CASE CheckControl(p, x)
    <3>1. /\ Advance(p) /\ Chan!Get(<<x.peer, p>>) /\ x.do = "check" /\ x.do \in Receiving
          /\ failed' = [failed EXCEPT ![p] = NextMessage(<<x.peer, p>>).call # at[p]]
          /\ value' = value /\ coll' = coll
      BY <2>5 DEF CheckControl, Receiving
    <3>2. LinkInv' /\ got' \in [Links -> Seq(Messages)] /\ sent' = sent
          /\ NextMessage(<<x.peer, p>>).call = at[p]
      BY <1>1, <1>3, <3>1, LinkReceive
    <3>3. failed' = [failed EXCEPT ![p] = FALSE]
      BY <3>1, <3>2
    <3>4. PlaceInv'
      BY <1>1, <1>3, <3>1, <3>3, PlaceQuiet
    <3>5. failed' \in [Parties -> BOOLEAN]
      BY <1>2, <3>3
    <3>6. QED BY <1>1, <1>2, <3>1, <3>2, <3>4, <3>5, AdvanceTypes DEF IInv, Types
  <2>6. CASE Compute(p, x)
    <3>1. Advance(p) /\ x.do \in LocalDo /\ failed' = failed /\ UNCHANGED links
      BY <2>6 DEF Compute, LocalDo
    <3>2. LinkInv'
      BY <1>1, <1>3, <3>1, LinkUnused
    <3>3. PlaceInv' /\ value' \in [Parties -> Values] /\ coll' \in [Parties -> Seq(Values)]
      BY <1>1, <1>3, <2>6, PlaceCompute
    <3>4. QED BY <1>1, <1>2, <3>1, <3>2, <3>3, AdvanceTypes DEF IInv, Types, links
  <2>7. QED BY <1>3, <2>2, <2>3, <2>4, <2>5, <2>6 DEF Execute
<1>4. ASSUME NEW p \in Parties, Return(p) PROVE IInv'
  <2>1. prog' = prog /\ failed' = failed /\ UNCHANGED links
    BY <1>4 DEF Return
  <2>2. LinkInv'
    BY <1>1, <1>4, <2>1, LinkUnused
  <2>3. /\ PlaceInv' /\ value' \in [Parties -> Values] /\ coll' \in [Parties -> Seq(Values)]
        /\ at' \in [Parties -> 1 .. Length + 1] /\ pc' \in [Parties -> Nat \ {0}]
    BY <1>1, <1>4, PlaceReturn
  <2>4. ResultInv' /\ result' \in [Parties -> Seq(Seq(Values))]
    BY <1>1, <1>4, ResultReturn
  <2>5. QED BY <1>1, <1>2, <2>1, <2>2, <2>3, <2>4 DEF IInv, Types, links
<1>5. ASSUME UNCHANGED vars PROVE IInv'
  <2>1. /\ prog' = prog /\ at' = at /\ pc' = pc /\ value' = value /\ coll' = coll /\ failed' = failed
        /\ result' = result /\ sent' = sent /\ got' = got
    BY <1>5 DEF vars, links
  <2>2. \A k, p : Through(k, p)' = Through(k, p)
    BY <2>1 DEF Through
  <2>3. \A p, q \in Parties : SentIn(p, q)' = SentIn(p, q) /\ TakenIn(p, q)' = TakenIn(p, q)
    BY <2>2 DEF SentIn, TakenIn
  <2>4. LinkInv'
    <3>1. \A p, q \in Parties : p # q => LinkOK(p, q)'
      BY <1>1, <2>1, <2>3, LinkKept DEF LinkInv
    <3>2. QED BY <3>1 DEF LinkInv
  <2>5. PlaceInv'
    <3>1. ASSUME NEW p \in Parties PROVE PlaceOK(p)'
      <4>1. PlaceOK(p)' <=>
              /\ failed'[p] = FALSE
              /\ \A k \in 1 .. Length : k = at'[p] =>
                   /\ value'[p] = ValueAfter(prog'[k], p, Through(k, p)')
                   /\ coll'[p] = InOrder(Members(p, Through(k, p)'))
        BY DEF PlaceOK
      <4>2. PlaceOK(p)
        BY <1>1 DEF PlaceInv
      <4>3. QED BY <2>1, <2>2, <4>1, <4>2 DEF PlaceOK
    <3>2. QED BY <3>1 DEF PlaceInv
  <2>6. ResultInv'
    BY <1>1, <2>1 DEF ResultInv
  <2>7. Types'
    BY <1>1, <2>1 DEF Types
  <2>8. QED BY <1>1, <2>1, <2>4, <2>5, <2>6, <2>7 DEF IInv
<1>6. QED BY <1>3, <1>4, <1>5 DEF Next, Step, Done

LEMMA Invariant == Spec => []IInv
  BY InitInv, NextInv, PTL DEF Spec

-----------------------------------------------------------------------------
\* What follows from the invariant.

\* Every value a party holds, sends or returns is one, and nobody sends to itself or
\* waits for itself.
THEOREM TypeCorrect == Spec => []TypeOK
<1>1. IInv => TypeOK
  <2>1. SUFFICES ASSUME IInv, NEW p \in Parties, AtInstruction(p),
                        Instruction(p).do \in {"send", "flush"} \cup Receiving
                 PROVE  Instruction(p).peer # p
    BY DEF IInv, TypeOK
  <2> DEFINE x == Instruction(p)
             c == prog[at[p]]
  <2>2. c \in Calls /\ AtPlace(c, p, Through(at[p], p), x)
    BY <2>1, AtIt DEF IInv
  <2>3. x.do \notin LocalDo
    BY <2>1 DEF Receiving, LocalDo
  <2> HIDE DEF x, c
  <2>4. x \in Content(c, p)
    BY <2>2 DEF AtPlace
  <2>5. x.peer # p
    BY <2>2, <2>3, <2>4, OthersOnly
  <2>6. QED BY <2>5 DEF x
<1>2. QED BY <1>1, Invariant, PTL

\* A party that waits for a peer finds next a message the peer sent in the same call:
\* the scripts of comms.codon pair up although no message says what it belongs to.
THEOREM CallsStayAligned == Spec => []CallsAligned
<1>1. IInv => CallsAligned
  <2> SUFFICES ASSUME IInv, NEW p \in Parties, AtInstruction(p), Instruction(p).do \in Receiving,
                      Pending(<<Instruction(p).peer, p>>) > 0
               PROVE  NextMessage(<<Instruction(p).peer, p>>).call = at[p]
    BY DEF CallsAligned
  <2>1. prog \in [1 .. Length -> Calls] /\ Types /\ LinkInv
    BY DEF IInv
  <2>2. QED BY <2>1, Aligned
<1>2. QED BY <1>1, Invariant, PTL

\* Each collective returns what it is for, at every party: the sum of the computing
\* parties' shares, the source's value, or the values in the order of the parties.
THEOREM ResultsAreRight == Spec => []ResultsRight
<1>1. IInv => ResultsRight
  BY DEF IInv, ResultInv, ResultsRight
<1>2. QED BY <1>1, Invariant, PTL

\* What was received was sent; a sender has reached the call it has sent in.
LEMMA TakenWasSent ==
  ASSUME IInv, NEW p \in Parties, NEW q \in Parties, p # q, NEW k \in 1 .. Length,
         NEW x \in Through(k, q), Receives(x, p)
  PROVE  k <= at[p] /\ \E y \in Through(k, p) : Sends(y, q)
<1>1. k \in TakenIn(p, q)
  BY DEF TakenIn
<1>2. LinkOK(p, q) /\ Types /\ prog \in [1 .. Length -> Calls]
  BY DEF IInv, LinkInv
<1> DEFINE s == sent[<<p, q>>]
           n == Len(got[<<p, q>>])
<1>3. s \in Seq(Messages) /\ n \in Nat /\ Len(s) \in Nat
  <2>1. <<p, q>> \in Links
    BY DEF Links
  <2>2. s \in Seq(Messages) /\ got[<<p, q>>] \in Seq(Messages)
    BY <1>2, <2>1 DEF Types
  <2>3. QED BY <2>2
<1>4. /\ n <= Len(s) /\ {s[i].call : i \in 1 .. Len(s)} = SentIn(p, q)
      /\ {s[i].call : i \in 1 .. n} = TakenIn(p, q)
  BY <1>2 DEF LinkOK
<1> HIDE DEF s, n
<1>5. k \in SentIn(p, q)
  BY <1>1, <1>3, <1>4
<1>6. QED BY <1>2, <1>5, UsedIn DEF SentIn

\* The instructions a party has carried out are the first ones by the call's order.
LEMMA ThroughClosed ==
  ASSUME IInv, NEW p \in Parties, NEW k \in 1 .. Length, NEW x \in Through(k, p),
         NEW d \in {"send", "flush"} \cup Receiving \cup LocalDo, NEW q \in Parties,
         Has(prog[k], p, d, q), Order(prog[k], p)[Ins(d, q)] < Order(prog[k], p)[x]
  PROVE  Ins(d, q) \in Through(k, p)
<1> DEFINE c == prog[k]
           s == Script(c, p)
           L == Order(c, p)
           y == Ins(d, q)
<1>1. prog \in [1 .. Length -> Calls] /\ Types /\ c \in Calls
  BY DEF IInv
<1>2. y \in Instructions /\ y.do = d /\ y.peer = q
  BY InsType
<1> HIDE DEF y
<1>3. y \in Content(c, p)
  BY <1>1, <1>2, ContentHas
<1>4. k \in Nat /\ at[p] \in Nat
  BY <1>1, BoundAssumption DEF Types
<1>5. CASE k < at[p]
  BY <1>1, <1>3, <1>5, ThroughAt DEF y
<1>6. CASE k > at[p]
  <2>1. Through(k, p) = {}
    BY <1>1, <1>6, ThroughAt
  <2>2. QED BY <2>1
<1>7. CASE k = at[p]
  <2>1. Through(k, p) = Before(s, pc[p])
    BY <1>1, <1>7, ThroughAt
  <2>2. Made(s, Content(c, p), L) /\ L \in [Instructions -> Int] /\ pc[p] \in Nat
    BY <1>1, ScriptMade, OrderType DEF Types
  <2>3. L[y] < L[x]
    BY DEF y
  <2> HIDE DEF s, L, c
  <2>4. PICK i \in DOMAIN s : i < pc[p] /\ s[i] = x
    BY <2>1 DEF Before
  <2>5. DOMAIN s = 1 .. Len(s) /\ Len(s) \in Nat
    BY <2>2 DEF Made
  <2>6. PICK j \in 1 .. Len(s) : s[j] = y
    BY <1>3, <2>2 DEF Made
  <2>7. x \in Instructions
    BY <2>2, <2>4, <2>5 DEF Made
  <2>8. L[y] \in Int /\ L[x] \in Int
    BY <1>2, <2>2, <2>7
  <2>9. ~ (i < j) /\ i # j
    BY <2>2, <2>3, <2>4, <2>5, <2>6, <2>8 DEF Made
  <2>10. j < pc[p]
    BY <2>2, <2>4, <2>5, <2>6, <2>9
  <2>11. QED BY <2>1, <2>5, <2>6, <2>10 DEF Before, y
<1>8. QED BY <1>4, <1>5, <1>6, <1>7

\* A party past a call has all of it behind it.
LEMMA PastHas ==
  ASSUME IInv, NEW p \in Parties, NEW k \in 1 .. Length, at[p] > k,
         NEW d \in {"send", "flush"} \cup Receiving \cup LocalDo, NEW q \in Parties,
         Has(prog[k], p, d, q)
  PROVE  Ins(d, q) \in Through(k, p)
<1>1. prog \in [1 .. Length -> Calls] /\ Types /\ prog[k] \in Calls
  BY DEF IInv
<1>2. Through(k, p) = Content(prog[k], p)
  <2>1. k \in Nat /\ at[p] \in Nat
    BY <1>1, BoundAssumption DEF Types
  <2>2. k < at[p]
    BY <2>1
  <2>3. QED BY <1>1, <2>2, ThroughAt
<1> DEFINE y == Ins(d, q)
<1>3. y \in Instructions /\ y.do = d /\ y.peer = q
  BY InsType
<1> HIDE DEF y
<1>4. y \in Content(prog[k], p)
  BY <1>1, <1>3, ContentHas
<1>5. QED BY <1>2, <1>4 DEF y

\* sync_parties is a barrier: nobody is past it before everybody has come to it.
THEOREM SyncHolds == Spec => []SyncIsBarrier
<1>1. IInv => SyncIsBarrier
  <2> SUFFICES ASSUME IInv, NEW p \in Parties, NEW k \in 1 .. Length,
                      prog[k].name \in {"sync_lite", "sync_full"}, at[p] > k, NEW q \in Parties
               PROVE  at[q] >= k
    BY DEF SyncIsBarrier
  <2> DEFINE c == prog[k]
  <2>1. /\ c \in Calls /\ k \in Nat /\ at[p] \in Nat /\ at[q] \in Nat /\ 0 \in Parties
        /\ at[0] \in Nat /\ p \in Nat /\ q \in Nat
    <3>1. /\ prog \in [1 .. Length -> Calls] /\ Length \in Nat
          /\ \A r \in Parties : at[r] \in 1 .. Length + 1
      BY BoundAssumption DEF IInv, Types
    <3>2. 0 \in Parties /\ p \in Nat /\ q \in Nat
      BY NAssumption, PartyForm DEF Parties
    <3>3. \A r \in Parties : at[r] \in Nat
      BY <3>1
    <3>4. QED BY <3>1, <3>2, <3>3
  <2>2. "check" \in Receiving /\ "send" \in {"send", "flush"}
    BY DEF Receiving
  <2>3. ASSUME NEW r \in Parties, NEW u \in Parties, r # u, Ins("check", r) \in Through(k, u)
        PROVE  k <= at[r] /\ \E y \in Through(k, r) : Sends(y, u)
    <3>1. Receives(Ins("check", r), r)
      <4>1. Ins("check", r).do = "check" /\ Ins("check", r).peer = r
        BY <2>2, InsType
      <4>2. QED BY <2>2, <4>1 DEF Receives
    <3>2. QED BY <2>3, <3>1, TakenWasSent
  <2>4. CASE q = p
    BY <2>1, <2>4
  <2>5. CASE q # p /\ Has(c, p, "check", q)
    <3>1. Ins("check", q) \in Through(k, p)
      BY <2>2, <2>5, PastHas
    <3>2. QED BY <2>1, <2>3, <2>5, <3>1
  <2>6. CASE q # p /\ ~ Has(c, p, "check", q)
    <3>1. c.name = "sync_lite" /\ p # 0
      BY <2>1, <2>6 DEF Has
    <3>2. Has(c, p, "check", 0)
      BY <3>1 DEF Has
    <3>3. Ins("check", 0) \in Through(k, p)
      BY <2>1, <2>2, <3>2, PastHas
    <3>4. k <= at[0] /\ \E y \in Through(k, 0) : Sends(y, p)
      BY <2>1, <2>3, <3>1, <3>3
    <3>5. CASE q = 0
      BY <2>1, <3>4, <3>5
    <3>6. CASE q # 0
      <4>1. PICK y \in Through(k, 0) : Sends(y, p)
        BY <3>4
      <4>2. y \in Instructions
        <5>1. Through(k, 0) \subseteq Content(c, 0)
          BY <2>1, ThroughAt DEF IInv
        <5>2. QED BY <2>1, <4>1, <5>1, ContentOfInstructions
      <4>3. Ins("check", q) \in Instructions /\ Ins("check", q).do = "check"
        BY <2>2, InsType
      <4>4. Order(c, 0)[Ins("check", q)] = 1 /\ Order(c, 0)[y] = 2
        BY <2>1, <3>1, <4>1, <4>2, <4>3, OrderIs DEF Sends
      <4>5. Has(c, 0, "check", q)
        BY <3>1, <3>6 DEF Has
      <4>6. Ins("check", q) \in Through(k, 0)
        BY <2>1, <2>2, <4>4, <4>5, ThroughClosed
      <4>7. QED BY <2>1, <2>3, <3>6, <4>6
    <3>7. QED BY <3>5, <3>6
  <2>7. QED BY <2>4, <2>5, <2>6
<1>2. QED BY <1>1, Invariant, PTL

\* Whoever has passed the token of sequential on has been passed it, and has run func.
LEMMA TokenChain ==
  ASSUME IInv, NEW k \in 1 .. Length, prog[k].name = "sequential",
         NEW q \in Parties, q > 0, NEW x \in Through(k, q), x.do = "take" \/ x.do = "func",
         NEW p \in Parties, p < q
  PROVE  \E y \in Through(k, p) : Sends(y, p + 1)
<1> DEFINE Passed(r) == \E y \in Through(k, r) : Sends(y, r + 1)
<1>1. /\ prog \in [1 .. Length -> Calls] /\ Types /\ prog[k] \in Calls /\ k \in Nat
      /\ \A r \in Parties : r \in Nat /\ r < N
      /\ N \in Nat
  BY BoundAssumption, PartyForm DEF IInv
<1>2. /\ "take" \in Receiving /\ {"take", "func", "send"} \subseteq {"send", "flush"} \cup Receiving \cup LocalDo
  BY DEF Receiving, LocalDo
\* Taking the token means that the party before has passed it on.
<1>3. ASSUME NEW r \in Parties, r > 0, NEW y \in Through(k, r), Receives(y, r - 1)
      PROVE  Passed(r - 1)
  <2>1. r - 1 \in Parties /\ r - 1 # r /\ r = (r - 1) + 1
    BY <1>1, <1>3 DEF Parties
  <2>2. \E z \in Through(k, r - 1) : Sends(z, r)
    BY <1>3, <2>1, TakenWasSent
  <2>3. QED BY <2>1, <2>2
<1>4. ASSUME NEW r \in Parties, NEW y \in Through(k, r) PROVE y \in Instructions /\ Has(prog[k], r, y.do, y.peer)
  <2>1. y \in Content(prog[k], r)
    BY <1>1, <1>4, ThroughAt
  <2>2. QED BY <1>1, <2>1, ContentOfInstructions, ContentHas
\* Running func, or passing the token on, comes after taking it.
<1>5. ASSUME NEW r \in Parties, r > 0, NEW y \in Through(k, r), y.do \in {"func", "send"}
      PROVE  Passed(r - 1)
  <2> DEFINE z == Ins("take", r - 1)
  <2>1. r - 1 \in Parties
    BY <1>1, <1>5 DEF Parties
  <2>2. Has(prog[k], r, "take", r - 1)
    BY DEF Has
  <2>3. z \in Instructions /\ z.do = "take" /\ z.peer = r - 1
    BY <1>2, <2>1, InsType
  <2>4. y \in Instructions
    BY <1>4, <1>5
  <2>5. Order(prog[k], r)[z] = 0 /\ Order(prog[k], r)[y] \in {1, 2}
    BY <1>1, <1>5, <2>3, <2>4, OrderIs
  <2>6. z \in Through(k, r)
    BY <1>2, <1>5, <2>1, <2>2, <2>5, ThroughClosed
  <2>7. Receives(z, r - 1)
    BY <1>2, <2>3 DEF Receives
  <2> HIDE DEF z
  <2>8. QED BY <1>3, <1>5, <2>6, <2>7
<1>6. q \in Nat /\ p \in Nat /\ Passed(q - 1)
  <2>1. CASE x.do = "func"
    BY <1>1, <1>5, <2>1
  <2>2. CASE x.do = "take"
    <3>1. x.peer = q - 1
      BY <1>4, <2>2 DEF Has
    <3>2. Receives(x, q - 1)
      BY <1>2, <2>2, <3>1 DEF Receives
    <3>3. QED BY <1>1, <1>3, <3>2
  <2>3. QED BY <2>1, <2>2
<1> DEFINE S == {d \in Nat : d < q => Passed(q - 1 - d)}
<1>7. 0 \in S
  <2>1. q - 1 - 0 = q - 1
    BY <1>6
  <2> HIDE DEF Passed
  <2>2. QED BY <1>6, <2>1
<1>8. ASSUME NEW d \in Nat, d \in S PROVE d + 1 \in S
  <2>1. SUFFICES ASSUME d + 1 < q PROVE Passed(q - 1 - (d + 1))
    OBVIOUS
  <2> DEFINE r == q - 1 - d
  <2>2. r \in Nat /\ r > 0 /\ r < N /\ q - 1 - (d + 1) = r - 1 /\ d < q
    BY <1>1, <1>6, <2>1
  <2>3. r \in Parties
    BY <1>1, <2>2 DEF Parties
  <2>4. Passed(r)
    <3> HIDE DEF Passed
    <3>1. QED BY <1>8, <2>2
  <2> HIDE DEF r
  <2>5. PICK y \in Through(k, r) : Sends(y, r + 1)
    BY <2>4
  <2>6. Passed(r - 1)
    BY <1>5, <2>2, <2>3, <2>5 DEF Sends
  <2> HIDE DEF Passed
  <2>7. QED BY <2>2, <2>6
<1>9. \A d \in Nat : d \in S
  <2> HIDE DEF S
  <2>1. QED BY <1>7, <1>8, SetInduction
<1>10. q - 1 - p \in Nat /\ q - 1 - p < q /\ q - 1 - (q - 1 - p) = p
  BY <1>6
<1>11. Passed(p)
  <2> HIDE DEF Passed
  <2>1. Passed(q - 1 - (q - 1 - p))
    BY <1>9, <1>10
  <2>2. QED BY <1>10, <2>1
<1>12. QED BY <1>11

\* A party has run func in a call exactly when func is behind it.
LEMMA FuncRun ==
  ASSUME IInv, NEW k \in 1 .. Length, prog[k].name = "sequential", NEW p \in Parties
  PROVE  /\ HasRunFunc(p, k) => \E x \in Through(k, p) : x.do = "func"
         /\ Ins("func", 0) \in Through(k, p) => HasRunFunc(p, k)
<1> DEFINE c == prog[k]
           s == Script(c, p)
           z == Ins("func", 0)
<1>1. prog \in [1 .. Length -> Calls] /\ Types /\ c \in Calls
  BY DEF IInv
<1>2. k \in Nat /\ at[p] \in Nat /\ pc[p] \in Nat \ {0}
  BY <1>1, BoundAssumption DEF Types
<1>3. z \in Instructions /\ z.do = "func" /\ z.peer = 0
  <2>1. "func" \in {"send", "flush"} \cup Receiving \cup LocalDo /\ 0 \in Parties
    BY NAssumption DEF LocalDo, Parties
  <2>2. QED BY <2>1, InsType
<1>4. Made(s, Content(c, p), Order(c, p))
  BY <1>1, ScriptMade
<1>5. Has(c, p, "func", 0)
  BY DEF Has
<1>6. z \in Content(c, p)
  <2> HIDE DEF z
  <2>1. QED BY <1>1, <1>3, <1>5, ContentHas
<1>7. at[p] = k => Running(p) = s
  BY <1>1 DEF Running, Scripts
<1>8. /\ k < at[p] => Through(k, p) = Content(c, p)
      /\ k > at[p] => Through(k, p) = {}
      /\ k = at[p] => Through(k, p) = Before(s, pc[p])
  BY <1>1, ThroughAt
<1> HIDE DEF c, s, z
<1>9. DOMAIN s = 1 .. Len(s) /\ Len(s) \in Nat
  BY <1>4 DEF Made
<1>10. ASSUME HasRunFunc(p, k) PROVE \E x \in Through(k, p) : x.do = "func"
  <2>1. CASE at[p] > k
    BY <1>2, <1>3, <1>6, <1>8, <2>1
  <2>2. CASE at[p] = k /\ \E i \in DOMAIN Running(p) : i < pc[p] /\ Running(p)[i].do = "func"
    <3>1. PICK i \in DOMAIN s : i < pc[p] /\ s[i].do = "func"
      BY <1>7, <2>2
    <3>2. s[i] \in Through(k, p)
      BY <1>8, <2>2, <3>1 DEF Before
    <3>3. QED BY <3>1, <3>2
  <2>3. QED BY <1>10, <2>1, <2>2 DEF HasRunFunc
<1>11. ASSUME z \in Through(k, p) PROVE HasRunFunc(p, k)
  <2>1. CASE k < at[p]
    BY <1>2, <2>1 DEF HasRunFunc
  <2>2. CASE k = at[p]
    <3>1. PICK i \in DOMAIN s : i < pc[p] /\ s[i] = z
      BY <1>8, <1>11, <2>2 DEF Before
    <3>2. Running(p)[i].do = "func" /\ i \in DOMAIN Running(p)
      BY <1>3, <1>7, <2>2, <3>1
    <3>3. QED BY <2>2, <3>1, <3>2 DEF HasRunFunc
  <2>3. CASE k > at[p]
    BY <1>8, <1>11, <2>3
  <2>4. QED BY <1>2, <2>1, <2>2, <2>3
<1>12. QED BY <1>10, <1>11 DEF z

\* sequential runs func for one party at a time, in the order of the parties: from the
\* time on that one runs it, every party before it has run it in this call.
THEOREM OneRunsFunc == Spec => []OneAtATime
<1>1. IInv => OneAtATime
  <2> SUFFICES ASSUME IInv, NEW k \in 1 .. Length, NEW p \in Parties, NEW q \in Parties,
                      prog[k].name = "sequential", p < q, InFunc(q, k) \/ HasRunFunc(q, k)
               PROVE  HasRunFunc(p, k) /\ ~ InFunc(p, k)
    BY DEF OneAtATime
  <2> DEFINE c == prog[k]
  <2>1. /\ prog \in [1 .. Length -> Calls] /\ Types /\ c \in Calls /\ k \in Nat
        /\ p \in Nat /\ q \in Nat /\ q < N /\ at[p] \in Nat /\ 0 \in Parties
    <3>1. at[p] \in Nat
      BY BoundAssumption DEF IInv, Types
    <3>2. QED BY <3>1, BoundAssumption, PartyForm, NAssumption DEF IInv, Parties
  <2>2. /\ {"take", "func", "send"} \subseteq {"send", "flush"} \cup Receiving \cup LocalDo
        /\ "take" \in Receiving
    BY DEF Receiving, LocalDo
  \* q has taken the token, or is through with func; so p has passed the token on.
  <2>3. ASSUME InFunc(q, k) PROVE \E x \in Through(k, q) : x.do = "take"
    <3> DEFINE x == Instruction(q)
               z == Ins("take", q - 1)
    <3>1. x \in Instructions /\ AtPlace(c, q, Through(k, q), x) /\ x.do = "func"
      BY <2>1, <2>3, AtIt DEF InFunc
    <3>2. q - 1 \in Parties
      BY <2>1, NAssumption DEF Parties
    <3>3. z \in Instructions /\ z.do = "take" /\ z.peer = q - 1
      BY <2>2, <3>2, InsType
    <3>4. Has(c, q, "take", q - 1)
      BY DEF Has
    <3>5. z \in Content(c, q)
      BY <2>1, <3>3, <3>4, ContentHas
    <3>6. Order(c, q)[z] = 0 /\ Order(c, q)[x] = 1
      BY <2>1, <3>1, <3>3, OrderIs
    <3> HIDE DEF x, z
    <3>7. z \in Through(k, q)
      BY <3>1, <3>5, <3>6 DEF AtPlace
    <3>8. QED BY <3>3, <3>7
  <2>4. \E x \in Through(k, q) : x.do = "take" \/ x.do = "func"
    BY <2>3, FuncRun
  <2>5. PICK y \in Through(k, p) : Sends(y, p + 1)
    <3>1. q > 0
      BY <2>1
    <3>2. QED BY <2>4, <3>1, TokenChain
  \* p has run func before.
  <2>6. Ins("func", 0) \in Through(k, p)
    <3> DEFINE z == Ins("func", 0)
    <3>1. y \in Instructions /\ y.do = "send"
      <4>1. y \in Content(c, p)
        BY <2>1, <2>5, ThroughAt
      <4>2. QED BY <2>1, <2>5, <4>1, ContentOfInstructions DEF Sends
    <3>2. z \in Instructions /\ z.do = "func" /\ z.peer = 0
      BY <2>1, <2>2, InsType
    <3>3. Order(c, p)[z] = 1 /\ Order(c, p)[y] = 2
      BY <2>1, <3>1, <3>2, OrderIs
    <3>4. Has(c, p, "func", 0)
      BY DEF Has
    <3>5. QED BY <2>1, <2>2, <2>5, <3>3, <3>4, ThroughClosed
  <2>7. ~ InFunc(p, k)
    <3>1. SUFFICES ASSUME at[p] = k, AtInstruction(p), Instruction(p).do = "func" PROVE FALSE
      BY DEF InFunc
    <3> DEFINE x == Instruction(p)
    <3>2. x \in Instructions /\ AtPlace(c, p, Through(k, p), x) /\ x.do = "func"
      BY <2>1, <3>1, AtIt
    <3> HIDE DEF x
    <3>3. Has(c, p, "func", x.peer)
      BY <2>1, <3>2, AtPlaceHas
    <3>4. x.peer = 0
      BY <3>3 DEF Has
    <3>5. Ins("func", 0).do = "func" /\ Ins("func", 0).peer = 0
      BY <2>1, <2>2, InsType
    <3>6. Same(Ins("func", 0), x)
      BY <3>2, <3>4, <3>5 DEF Same
    <3>7. QED BY <2>6, <3>2, <3>6 DEF AtPlace
  <2>8. QED BY <2>6, <2>7, FuncRun
<1>2. QED BY <1>1, Invariant, PTL

\* When the programs have ended no link holds a message: what every script sends is
\* taken by the script of its peer in the same call.
THEOREM NothingIsLeft == Spec => []NothingLeft
<1>1. IInv => NothingLeft
  <2> SUFFICES ASSUME IInv, \A p \in Parties : Finished(p), NEW c \in Links PROVE Pending(c) = 0
    BY DEF NothingLeft
  <2>1. PICK p \in Parties, q \in Parties : c = <<p, q>> /\ p # q
    BY DEF Links
  <2>2. prog \in [1 .. Length -> Calls] /\ Types /\ LinkOK(p, q)
    BY <2>1 DEF IInv, LinkInv
  <2>3. SentIn(p, q) = TakenIn(p, q)
    <3>1. \A k \in 1 .. Length : k < at[p] /\ k < at[q]
      <4>1. \A r \in Parties : at[r] > Length /\ at[r] \in Nat
        <5>1. \A r \in Parties : at[r] > Length
          BY DEF Finished
        <5>2. \A r \in Parties : at[r] \in Nat
          BY <2>2, BoundAssumption DEF Types
        <5>3. QED BY <5>1, <5>2
      <4>2. QED BY <4>1, BoundAssumption
    <3>2. \A k \in 1 .. Length : k \in SentIn(p, q) <=> k \in TakenIn(p, q)
      <4>1. TAKE k \in 1 .. Length
      <4>2. (\E x \in Content(prog[k], p) : Sends(x, q)) <=> (\E x \in Content(prog[k], q) : Receives(x, p))
        BY <2>1, <2>2, ScriptsMatch
      <4>3. QED BY <2>2, <3>1, <4>2, UsedIn
    <3>3. QED BY <2>2, <3>2, UsedIn
  <2> DEFINE s == sent[<<p, q>>]
             n == Len(got[<<p, q>>])
  <2>4. n \in Nat /\ Len(s) \in Nat /\ \A i \in 1 .. Len(s) : s[i].call \in Nat
    <3>1. s \in Seq(Messages) /\ got[<<p, q>>] \in Seq(Messages)
      BY <2>1, <2>2 DEF Types
    <3>2. \A m \in Messages : m.call \in Nat
      BY BoundAssumption DEF Messages
    <3> HIDE DEF s
    <3>3. QED BY <3>1, <3>2
  <2>5. /\ n <= Len(s)
        /\ \A i, j \in 1 .. Len(s) : i < j => s[i].call < s[j].call
        /\ {s[i].call : i \in 1 .. Len(s)} = {s[i].call : i \in 1 .. n}
    BY <2>2, <2>3 DEF LinkOK
  <2> HIDE DEF s, n
  <2>6. ~ (n < Len(s))
    <3>1. SUFFICES ASSUME n < Len(s) PROVE FALSE
      OBVIOUS
    <3>2. Len(s) \in 1 .. Len(s)
      BY <2>4, <3>1
    <3>3. PICK i \in 1 .. n : s[i].call = s[Len(s)].call
      BY <2>5, <3>2
    <3>4. i \in 1 .. Len(s) /\ i < Len(s)
      BY <2>4, <3>1
    <3>5. s[i].call < s[Len(s)].call
      BY <2>5, <3>2, <3>4
    <3>6. QED BY <2>4, <3>2, <3>3, <3>4, <3>5
  <2>7. Len(s) - n = 0
    BY <2>4, <2>5, <2>6
  <2>8. QED BY <2>1, <2>7 DEF Pending, s, n
<1>2. QED BY <1>1, Invariant, PTL

=============================================================================
