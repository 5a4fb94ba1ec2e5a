---------------------------- MODULE SharesProofs ----------------------------
(***************************************************************************)
(* What the numbers of SecretSharing are: the shares of a result add up to *)
(* what the call computes, reveal returns it, trunc rounds it, and         *)
(* partitions are of the value they came with.                             *)
(*                                                                         *)
(* Of two parties in a behaviour one may be any number of calls ahead, so  *)
(* no invariant can add up their shares.  The invariant VInv compares each *)
(* party with the ideal execution at the call it is in instead, and each   *)
(* value on a link with the one that the ideal execution sends there.      *)
(* What the shares of a result add up to is then a matter of the ideal     *)
(* execution alone, where all parties have had the call.                   *)
(***************************************************************************)
EXTENDS SecretSharingProofs

-----------------------------------------------------------------------------
(***************************************************************************)
(* The invariant: the parties and the links have what is ideal.            *)
(***************************************************************************)

\* What p has behind it, and the partitions it has made in its call.
Behind(p) == Ideal(prog, tape)[at[p] - 1]
Now(p) == IF Finished(p) THEN Behind(p) ELSE Parts(prog, tape, at[p], Behind(p), New(p))

HeldRight(p) ==
  /\ Revealing(p, Masking) =>
       held[p] = <<MasksAt(prog, tape, at[p], Len(MaskDraws(at[p], Call(p), New(p))) + 1)[p]>>
  /\ Revealing(p, {"trunc"}) => held[p] = <<DealtIn(prog, tape, at[p], Now(p), p)[2]>>

OutRight(p) ==
  \A i \in 1 .. Len(out[p]) :
    /\ out[p][i].call \in 1 .. at[p] - 1 /\ prog[out[p][i].call].op = "reveal"
    /\ p # 0
    /\ out[p][i].value = All(prog, tape).results[p][out[p][i].call].share

ValuesOK(p) ==
  /\ result[p] = Now(p).results[p]
  /\ p = 0 => Len(drawn[p][p]) = Behind(p).own
  /\ stage[p] = "reveal" => value[p] = All(prog, tape).values[p][Reveals(p)] /\ HeldRight(p)
  /\ OutRight(p)

WiresOK ==
  /\ \A i \in 1 .. Len(wire[<<0, 1>>]) : wire[<<0, 1>>][i] = All(prog, tape).deals[Had(1) + i]
  /\ \A q \in Helpers :
       /\ \A i \in 1 .. Len(wire[<<q, 1>>]) :
            wire[<<q, 1>>][i] = All(prog, tape).values[q][Answers(1) + i]
       /\ \A i \in 1 .. Len(wire[<<1, q>>]) :
            wire[<<1, q>>][i] = All(prog, tape).totals[Answers(q) + i]

VInv == (\A p \in Parties : ValuesOK(p)) /\ WiresOK

-----------------------------------------------------------------------------
(***************************************************************************)
(* Where a party is in the ideal execution.                                *)
(***************************************************************************)

\* p is in a call of the program, and has a part of its partitions.
Here(p) ==
  /\ prog \in Programs /\ tape \in Tapes /\ at[p] \in 1 .. Len(prog) /\ Call(p) = prog[at[p]]
  /\ at[p] \in Nat /\ at[p] - 1 \in Nat /\ CallFacts(Call(p), at[p])
  /\ Before(p).reveals \in Nat /\ Before(p).dealt \in Nat
  /\ WorldOK(Behind(p), at[p] - 1, Before(p).parted, Before(p).reveals, Before(p).dealt)
  /\ FirstOf(Call(p), New(p), Wanted(Call(p), Before(p).parted))
  /\ Now(p) = Parts(prog, tape, at[p], Behind(p), New(p))
  /\ Answers(p) = Before(p).reveals + Len(MaskDraws(at[p], Call(p), New(p))) /\ Answers(p) \in Nat
  /\ WorldOK(Now(p), at[p] - 1, Before(p).parted \cup New(p), Answers(p), Before(p).dealt)

LEMMA HereAlways ==
  ASSUME IInv, NEW p \in Parties, ~ Finished(p)
  PROVE  Here(p)
<1> DEFINE n == at[p]  P == Before(p).parted  w == Behind(p)  S == New(p)
<1>1. Types /\ PlaceOK(p)
  BY DEF IInv
<1>2. /\ prog \in Programs /\ tape \in Tapes /\ n \in 1 .. Len(prog) /\ Call(p) = prog[n]
      /\ n \in Nat /\ CallFacts(Call(p), n)
  BY <1>1, PlaceType DEF Types, Call
<1>3. n - 1 \in Nat
  BY <1>2
<1>4. Before(p).reveals \in Nat /\ Before(p).dealt \in Nat
  BY <1>1, BeforeType
<1>5. WorldOK(w, n - 1, P, Before(p).reveals, Before(p).dealt)
  <2>1. Upto(prog, tape, n - 1)
    BY <1>2, CallRight
  <2>2. QED BY <2>1 DEF Upto, Behind, Before
<1>6. S \subseteq Wanted(Call(p), P) /\ (S # {} => Call(p).x \in Parted(p))
  BY <1>1 DEF PlaceOK
<1>7. S # {} /\ Call(p).x \in Wanted(Call(p), P) => Call(p).x \in S
  BY <1>6 DEF Wanted, New
<1>8. FirstOf(prog[n], S, Wanted(prog[n], P))
  BY <1>2, <1>6, <1>7 DEF FirstOf
<1>9. PartsOK(prog, tape, n, w, P, Before(p).reveals, Before(p).dealt, S)
  <2> HIDE DEF n, P, w, S
  <2>1. QED BY <1>2, <1>4, <1>5, <1>8, PartsAll
<1>10. Now(p) = Parts(prog, tape, n, w, S)
  BY DEF Now
<1>11. Answers(p) = Before(p).reveals + Len(MaskDraws(n, Call(p), S)) /\ Answers(p) \in Nat
  BY <1>1, CountTypes DEF Answers
<1>12. WorldOK(Now(p), n - 1, P \cup S, Answers(p), Before(p).dealt)
  BY <1>2, <1>9, <1>10, <1>11 DEF PartsOK
<1>13. FirstOf(Call(p), S, Wanted(Call(p), P))
  BY <1>2, <1>8
<1>14. QED BY <1>2, <1>3, <1>4, <1>5, <1>10, <1>11, <1>12, <1>13 DEF Here

\* What a party has grows into what is all.
NowGrows(p) ==
  LET one == AllParts(prog, tape, at[p], Behind(p)) IN
  /\ Grows(Now(p), one) /\ Grows(one, Ideal(prog, tape)[at[p]])
  /\ Grows(Ideal(prog, tape)[at[p]], All(prog, tape))
  /\ Ideal(prog, tape)[at[p]] = End(prog, tape, at[p], one)
  /\ Sized(Now(p)) /\ Sized(one) /\ Sized(Ideal(prog, tape)[at[p]]) /\ Sized(All(prog, tape))

LEMMA NowGrowsAlways ==
  ASSUME NEW p, Here(p)
  PROVE  NowGrows(p)
<1> DEFINE n == at[p]  P == Before(p).parted  w == Behind(p)  S == New(p)
           one == AllParts(prog, tape, n, w)
<1>1. /\ prog \in Programs /\ tape \in Tapes /\ n \in 1 .. Len(prog) /\ n \in Nat
      /\ Before(p).reveals \in Nat /\ Before(p).dealt \in Nat
  BY DEF Here
<1>2. one = Parts(prog, tape, n, w, Wanted(prog[n], P))
  BY DEF AllParts, Before
<1>3. Grows(Now(p), one)
  <2>1. WorldOK(w, n - 1, P, Before(p).reveals, Before(p).dealt)
        /\ FirstOf(prog[n], S, Wanted(prog[n], P))
    BY DEF Here
  <2>2. Now(p) = Parts(prog, tape, n, w, S)
    BY DEF Here
  <2> HIDE DEF n, P, w, S, one
  <2>3. Grows(Parts(prog, tape, n, w, S), Parts(prog, tape, n, w, Wanted(prog[n], P)))
    BY <1>1, <2>1, PartsAll
  <2>4. QED BY <1>2, <2>2, <2>3
<1>4. /\ Ended(prog, tape, n, Ideal(prog, tape)[n - 1])
      /\ Ideal(prog, tape)[n] = End(prog, tape, n, AllParts(prog, tape, n, Ideal(prog, tape)[n - 1]))
      /\ Upto(prog, tape, n)
  BY <1>1, CallRight
<1>5. w = Ideal(prog, tape)[n - 1]
  BY DEF Behind
<1>6. Grows(one, End(prog, tape, n, one)) /\ Ideal(prog, tape)[n] = End(prog, tape, n, one)
  BY <1>4, <1>5 DEF Ended
<1>7. Grows(Ideal(prog, tape)[n], All(prog, tape))
  <2>1. n \in 0 .. Len(prog)
    BY <1>1
  <2>2. QED BY <1>1, <2>1, IdealGrows
<1>8. Sized(Now(p))
  BY WorldSized DEF Here
<1>9. Sized(one)
  BY <1>4, <1>5, WorldSized DEF Ended, AtEnd
<1>10. Sized(Ideal(prog, tape)[n])
  BY <1>4, WorldSized DEF Upto
<1>11. Sized(All(prog, tape))
  <2>1. Len(prog) \in 0 .. Len(prog)
    BY <1>1, ProgramFacts
  <2>2. Upto(prog, tape, Len(prog))
    BY <1>1, <2>1, UptoRight
  <2>3. QED BY <2>2, WorldSized DEF Upto, All
<1>12. QED BY <1>3, <1>6, <1>7, <1>8, <1>9, <1>10, <1>11 DEF NowGrows

\* What a world has shown and dealt is what all have.
LEMMA GrownLists ==
  ASSUME NEW w, NEW z, Grows(w, z)
  PROVE  /\ \A q \in Computing : \A i \in 1 .. Len(w.values[q]) : z.values[q][i] = w.values[q][i]
         /\ \A i \in 1 .. Len(w.totals) : z.totals[i] = w.totals[i]
         /\ \A i \in 1 .. Len(w.deals) : z.deals[i] = w.deals[i]
         /\ \A q \in Parties : \A i \in 1 .. Len(w.results[q]) :
              z.results[q][i].share = w.results[q][i].share
  BY DEF Grows, Begins, GrowsAt

\* A party that has all the partitions is at the end of its call.
AtTheEnd(p) ==
  /\ Now(p) = AllParts(prog, tape, at[p], Behind(p))
  /\ AtEnd(prog, tape, at[p], Now(p), Before(p).parted \cup Wanted(Call(p), Before(p).parted),
           Answers(p), Before(p).dealt)

LEMMA AtTheEndWhen ==
  ASSUME NEW p, Here(p), New(p) = Wanted(Call(p), Before(p).parted)
  PROVE  AtTheEnd(p)
<1> DEFINE n == at[p]  P == Before(p).parted  w == Behind(p)
<1>1. /\ prog \in Programs /\ tape \in Tapes /\ n \in 1 .. Len(prog) /\ Call(p) = prog[n]
  BY DEF Here
<1>2. Now(p) = AllParts(prog, tape, n, w)
  BY <1>1 DEF Here, AllParts, Before
<1>3. WorldOK(Now(p), n - 1, P \cup Wanted(Call(p), P), Answers(p), Before(p).dealt)
  BY DEF Here
<1>4. Wanted(Call(p), P \cup Wanted(Call(p), P)) = {}
  BY DEF Wanted
<1>5. QED BY <1>1, <1>2, <1>3, <1>4 DEF AtTheEnd, AtEnd

-----------------------------------------------------------------------------
(***************************************************************************)
(* What a party reveals next, and what the dealer gives it.                *)
(***************************************************************************)
NextMasks(p) == MasksAt(prog, tape, at[p], Len(MaskDraws(at[p], Call(p), New(p))) + 1)
Shown(p) ==
  IF Call(p).op \in Masking THEN Blind(Now(p), Operand(p), NextMasks(p))
  ELSE EndValues(prog, tape, at[p], Now(p))

\* The next value of each, and the next sum.
ShownNext(p, b) ==
  /\ b \in [Computing -> Residues] /\ SumMod(b) \in Residues
  /\ \A q \in Computing : All(prog, tape).values[q][Answers(p) + 1] = b[q]
  /\ All(prog, tape).totals[Answers(p) + 1] = SumMod(b)

LEMMA ThroughAll ==
  ASSUME NEW p, Here(p), NEW z, NEW b \in [Computing -> Residues],
         \A q \in Computing : z.values[q] = Append(Now(p).values[q], b[q]),
         z.totals = Append(Now(p).totals, SumMod(b)),
         Sized(z), Sized(All(prog, tape)), Grows(z, All(prog, tape))
  PROVE  ShownNext(p, b)
<1> DEFINE m == Answers(p)  w == Now(p)  y == All(prog, tape)
<1>1. /\ w.values \in [Computing -> Seq(Residues)] /\ \A q \in Computing : Len(w.values[q]) = m
      /\ w.totals \in Seq(Residues) /\ Len(w.totals) = m /\ m \in Nat
  BY DEF Here, WorldOK
<1>2. SumMod(b) \in Residues /\ \A q \in Computing : b[q] \in Residues
  BY ComputingSeq
<1>3. /\ \A q \in Computing : \A i \in 1 .. Len(z.values[q]) : y.values[q][i] = z.values[q][i]
      /\ \A i \in 1 .. Len(z.totals) : y.totals[i] = z.totals[i]
  BY GrownLists
<1>4. ASSUME NEW q \in Computing PROVE y.values[q][m + 1] = b[q]
  <2> DEFINE v == w.values[q]
  <2>1. v \in Seq(Residues) /\ Len(v) = m /\ b[q] \in Residues
    BY <1>1, <1>2
  <2>2. Len(Append(v, b[q])) = m + 1 /\ Append(v, b[q])[m + 1] = b[q]
    BY <2>1, AppendBegins
  <2>3. z.values[q] = Append(v, b[q])
    OBVIOUS
  <2>4. m + 1 \in 1 .. Len(z.values[q])
    BY <1>1, <2>2, <2>3
  <2>5. y.values[q][m + 1] = z.values[q][m + 1]
    BY <1>3, <2>4
  <2>6. QED BY <2>2, <2>3, <2>5
<1>5. y.totals[m + 1] = SumMod(b)
  <2>1. Len(Append(w.totals, SumMod(b))) = m + 1 /\ Append(w.totals, SumMod(b))[m + 1] = SumMod(b)
    BY <1>1, <1>2, AppendBegins
  <2>2. m + 1 \in 1 .. Len(z.totals)
    BY <1>1, <2>1
  <2>3. y.totals[m + 1] = z.totals[m + 1]
    BY <1>3, <2>2
  <2>4. QED BY <2>1, <2>3
<1>6. QED BY <1>2, <1>4, <1>5 DEF ShownNext

\* The operand that is next has its place among the partitions of the call.
NextPart(p) ==
  /\ NextIn(Call(p), New(p), Operand(p)) /\ Operand(p) \in 1 .. at[p] - 1
  /\ Operand(p) \notin Before(p).parted \cup New(p)
  /\ NextMasks(p) \in [Computing -> Residues]
  /\ FirstOf(Call(p), New(p) \cup {Operand(p)}, Wanted(Call(p), Before(p).parted))
  /\ Parts(prog, tape, at[p], Behind(p), New(p) \cup {Operand(p)}) = Part(Now(p), Operand(p), NextMasks(p))
  /\ Grows(Part(Now(p), Operand(p), NextMasks(p)), All(prog, tape))
  /\ Sized(Part(Now(p), Operand(p), NextMasks(p)))

LEMMA NextPartWhen ==
  ASSUME IInv, NEW p \in Parties, ~ Finished(p), Call(p).op \in Masking, Bare(p)
  PROVE  NextPart(p)
<1> DEFINE n == at[p]  P == Before(p).parted  w == Behind(p)  S == New(p)  c == Call(p)
           k == Operand(p)  W == Wanted(c, P)
           r == Before(p).reveals  d == Before(p).dealt
<1>1. Here(p) /\ NowGrows(p) /\ Types /\ PlaceOK(p)
  BY HereAlways, NowGrowsAlways DEF IInv
<1>2. NextOperand(p)
  BY <1>1, BareOperand
<1>3. /\ k \in 1 .. n - 1 /\ k \notin Parted(p) /\ k \in W
      /\ k = c.x \/ c.x \in Parted(p)
  BY <1>2 DEF NextOperand
<1>4. Parted(p) = P \cup S /\ P \subseteq Parted(p)
  BY <1>1, PlaceFacts
<1>5. FirstOf(c, S, W) /\ Call(p) = prog[n]
  BY <1>1 DEF Here
<1>6. NextIn(c, S, k)
  <2>1. S \subseteq W /\ (S # {} /\ c.x \in W => c.x \in S)
    BY <1>5 DEF FirstOf
  <2>2. W \subseteq {c.x, c.y} /\ (c.op # "mul" => W \subseteq {c.x}) /\ c.op \in Masking
    BY DEF Wanted
  <2>3. CASE k = c.x
    <3>1. S = {}
      BY <1>3, <1>4, <2>1, <2>3
    <3>2. QED BY <2>2, <2>3, <3>1 DEF NextIn
  <2>4. CASE k # c.x
    <3>1. c.op = "mul" /\ k = c.y
      BY <1>3, <2>2, <2>4
    <3>2. S \subseteq {c.x}
      BY <1>3, <1>4, <2>1, <2>2, <3>1
    <3>3. QED BY <2>2, <2>4, <3>1, <3>2 DEF NextIn
  <2>5. QED BY <2>3, <2>4
<1>7. FirstOf(c, S \cup {k}, W)
  <2>1. c.x \in W => c.x \in S \cup {k}
    BY <1>3, <1>4 DEF Wanted
  <2>2. QED BY <1>3, <1>5, <2>1 DEF FirstOf
<1>8. /\ prog \in Programs /\ tape \in Tapes /\ n \in 1 .. Len(prog) /\ n \in Nat
      /\ CallFacts(prog[n], n) /\ r \in Nat /\ d \in Nat
      /\ WorldOK(w, n - 1, P, r, d) /\ Now(p) = Parts(prog, tape, n, w, S)
  BY <1>1 DEF Here
<1>9. PartsStep(prog, tape, n, w, S, k)
  <2> HIDE DEF n, w, S, k
  <2>1. QED BY <1>5, <1>6, <1>8, PartsNext
<1>10. Parts(prog, tape, n, w, S \cup {k}) = Part(Now(p), k, NextMasks(p))
       /\ Len(MaskDraws(n, c, S)) \in Nat
  BY <1>5, <1>8, <1>9 DEF PartsStep, NextMasks
<1>11. NextMasks(p) \in [Computing -> Residues]
  <2>1. Len(MaskDraws(n, c, S)) + 1 \in Nat
    BY <1>10
  <2>2. QED BY <1>8, <2>1, MasksType DEF NextMasks
<1>12. /\ PartsOK(prog, tape, n, w, P, r, d, S \cup {k})
       /\ Grows(Parts(prog, tape, n, w, S \cup {k}), Parts(prog, tape, n, w, W))
  <2>1. FirstOf(prog[n], S \cup {k}, Wanted(prog[n], P)) /\ W = Wanted(prog[n], P)
    BY <1>5, <1>7
  <2> HIDE DEF n, w, S, k, P, r, d, W
  <2>2. QED BY <1>8, <2>1, PartsAll
<1> DEFINE two == Part(Now(p), k, NextMasks(p))  one == AllParts(prog, tape, n, w)
<1>13. Grows(two, one)
  <2>1. one = Parts(prog, tape, n, w, W)
    BY <1>5 DEF AllParts, Before
  <2>2. QED BY <1>10, <1>12, <2>1
<1>14. Sized(two)
  <2>1. WorldOK(two, n - 1, P \cup (S \cup {k}), r + Len(MaskDraws(n, prog[n], S \cup {k})), d)
    BY <1>10, <1>12 DEF PartsOK
  <2>2. QED BY <2>1, WorldSized
<1>15. Grows(two, All(prog, tape))
  <2> DEFINE u == Ideal(prog, tape)[n]  z == All(prog, tape)
  <2>1. Sized(one) /\ Sized(u) /\ Sized(z) /\ Grows(one, u) /\ Grows(u, z)
    BY <1>1 DEF NowGrows
  <2> HIDE DEF u, z, one, two
  <2>2. Grows(two, u)
    BY <1>13, <1>14, <2>1, GrowsOn
  <2>3. Grows(two, z)
    BY <1>14, <2>1, <2>2, GrowsOn
  <2>4. QED BY <2>3 DEF z
<1>16. k \notin P \cup S
  BY <1>3, <1>4
<1>17. QED BY <1>3, <1>6, <1>7, <1>10, <1>11, <1>14, <1>15, <1>16 DEF NextPart

\* What is revealed next.
LEMMA ShownRight ==
  ASSUME IInv, NEW p \in Parties, ~ Finished(p),
         \/ Call(p).op \in Masking /\ Bare(p)
         \/ Call(p).op \in {"reveal", "trunc"} /\ New(p) = Wanted(Call(p), Before(p).parted)
  PROVE  ShownNext(p, Shown(p))
<1>1. Here(p) /\ NowGrows(p)
  BY HereAlways, NowGrowsAlways
<1>2. Sized(All(prog, tape))
  BY <1>1 DEF NowGrows
<1>3. CASE Call(p).op \in Masking /\ Bare(p)
  <2> DEFINE b == Blind(Now(p), Operand(p), NextMasks(p))
             z == Part(Now(p), Operand(p), NextMasks(p))
  <2>1. Shown(p) = b
    BY <1>3 DEF Shown
  <2>2. NextPart(p)
    BY <1>3, NextPartWhen
  <2>3. Sized(z) /\ Grows(z, All(prog, tape))
    BY <2>2 DEF NextPart
  <2>4. b \in [Computing -> Residues]
    <3>1. WorldOK(Now(p), at[p] - 1, Before(p).parted \cup New(p), Answers(p), Before(p).dealt)
      BY <1>1 DEF Here
    <3>2. Operand(p) \in 1 .. at[p] - 1 /\ NextMasks(p) \in [Computing -> Residues]
      BY <2>2 DEF NextPart
    <3>3. QED BY <3>1, <3>2, BlindType
  <2>5. /\ \A q \in Computing : z.values[q] = Append(Now(p).values[q], b[q])
        /\ z.totals = Append(Now(p).totals, SumMod(b))
    BY DEF Part
  <2> HIDE DEF b, z
  <2>6. ShownNext(p, b)
    BY <1>1, <1>2, <2>3, <2>4, <2>5, ThroughAll
  <2>7. QED BY <2>1, <2>6
<1>4. CASE Call(p).op \in {"reveal", "trunc"} /\ New(p) = Wanted(Call(p), Before(p).parted)
  <2> DEFINE b == EndValues(prog, tape, at[p], Now(p))
             z == Ideal(prog, tape)[at[p]]
  <2>1. Shown(p) = b
    BY <1>4 DEF Shown, Masking
  <2>2. AtTheEnd(p)
    BY <1>1, <1>4, AtTheEndWhen
  <2>3. Sized(z) /\ Grows(z, All(prog, tape)) /\ z = End(prog, tape, at[p], Now(p))
    BY <1>1, <2>2 DEF NowGrows, AtTheEnd
  <2>4. Shows(prog[at[p]])
    BY <1>1, <1>4 DEF Here, Shows
  <2>5. b \in [Computing -> Residues]
    BY <2>2, <2>4, EndValuesType DEF AtTheEnd
  <2>6. /\ \A q \in Computing : z.values[q] = Append(Now(p).values[q], b[q])
        /\ z.totals = Append(Now(p).totals, SumMod(b))
    BY <2>3, <2>4 DEF End
  <2> HIDE DEF b, z
  <2>7. ShownNext(p, b)
    BY <1>1, <1>2, <2>3, <2>5, <2>6, ThroughAll
  <2>8. QED BY <2>1, <2>7
<1>5. QED BY <1>3, <1>4

\* What the dealer sends next.
DealsNext(p) ==
  LET deals == Deals(prog, tape, at[p], Now(p)) IN
  /\ deals \in Seq(Residues) /\ Len(deals) = Dealt(Call(p))
  /\ \A j \in 1 .. Dealt(Call(p)) : All(prog, tape).deals[Before(p).dealt + j] = deals[j]

LEMMA DealsRight ==
  ASSUME NEW p, Here(p), New(p) = Wanted(Call(p), Before(p).parted)
  PROVE  DealsNext(p)
<1> DEFINE deals == Deals(prog, tape, at[p], Now(p))  w == Now(p)  z == Ideal(prog, tape)[at[p]]
           m == Before(p).dealt
<1>1. AtTheEnd(p) /\ NowGrows(p) /\ Call(p) = prog[at[p]]
  BY AtTheEndWhen, NowGrowsAlways DEF Here
<1>2. deals \in Seq(Residues) /\ Len(deals) = Dealt(Call(p))
  <2>1. AtEnd(prog, tape, at[p], Now(p), Before(p).parted \cup Wanted(Call(p), Before(p).parted),
              Answers(p), Before(p).dealt)
    BY <1>1 DEF AtTheEnd
  <2>2. QED BY <1>1, <2>1, DealsType
<1>3. z = End(prog, tape, at[p], w) /\ Grows(z, All(prog, tape))
  BY <1>1 DEF NowGrows, AtTheEnd
<1>4. z.deals = w.deals \o deals
  <2>1. \A u : End(prog, tape, at[p], u).deals = u.deals \o Deals(prog, tape, at[p], u)
    BY DEF End
  <2>2. End(prog, tape, at[p], Now(p)).deals = Now(p).deals \o Deals(prog, tape, at[p], Now(p))
    BY <2>1
  <2> HIDE DEF z
  <2>3. QED BY <1>3, <2>2
<1>5. w.deals \in Seq(Residues) /\ Len(w.deals) = m /\ m \in Nat
  BY DEF Here, WorldOK
<1>6. \A i \in 1 .. Len(z.deals) : All(prog, tape).deals[i] = z.deals[i]
  BY <1>3, GrownLists
<1> HIDE DEF deals, w, z
<1>7. /\ Len(w.deals \o deals) = m + Len(deals)
      /\ \A j \in 1 .. Len(deals) : (w.deals \o deals)[m + j] = deals[j]
  <2> DEFINE u == w.deals
  <2>1. u \in Seq(Residues) /\ Len(u) = m /\ deals \in Seq(Residues)
    BY <1>2, <1>5
  <2> HIDE DEF u, m
  <2>2. /\ Len(u \o deals) = Len(u) + Len(deals)
        /\ \A j \in 1 .. Len(deals) : (u \o deals)[Len(u) + j] = deals[j]
    BY <2>1, ConcatBegins
  <2>3. QED BY <2>1, <2>2 DEF u
<1>8. ASSUME NEW j \in 1 .. Len(deals) PROVE All(prog, tape).deals[m + j] = deals[j]
  <2>1. m + j \in 1 .. m + Len(deals)
    BY <1>2, <1>5
  <2>2. m + j \in 1 .. Len(z.deals)
    BY <1>4, <1>7, <2>1
  <2>3. QED BY <1>4, <1>6, <1>7, <2>2
<1>9. QED BY <1>2, <1>8 DEF DealsNext, deals

-----------------------------------------------------------------------------
(***************************************************************************)
(* The numbers that a party draws are those of its place.                  *)
(***************************************************************************)
InCall(p, d) == IF d[1] = 0 THEN Len(MaskDraws(at[p], Call(p), New(p))) ELSE 0

LEMMA PlacesRight ==
  ASSUME IInv, NEW p \in Parties, ~ Finished(p), stage[p] = "run", NEW s \in Parties \ {p}
  PROVE  /\ Len(drawn[p][s]) = CallPlace(prog, at[p], seed_of(p, s)) + InCall(p, seed_of(p, s))
         /\ Len(drawn[p][s]) \in Nat
<1> DEFINE d == seed_of(p, s)
           a == Before(p).drawn[d]
           b == ForMasks(p, d)
           e == Marked(ForEnd(p, d), <<at[p], 0>>)
<1>1. Types /\ DrawnOK(p)
  BY DEF IInv
<1>2. a \in Seq(Marks) /\ b \in Seq(Marks) /\ drawn[p][s] = a \o (b \o e)
  BY <1>1, DrawnParts
<1>3. e = <<>>
  <2>1. ForEnd(p, d) = 0
    BY DEF ForEnd, Revealing
  <2>2. QED BY <2>1 DEF Marked
<1>4. b = IF d[1] = 0 THEN MaskDraws(at[p], Call(p), New(p)) ELSE <<>>
  <2>1. Masked(p) = New(p)
    BY DEF Masked, Revealing
  <2>2. QED BY <2>1 DEF ForMasks
<1>5. Len(b) = InCall(p, d)
  <2>1. CASE d[1] = 0
    BY <1>4, <2>1 DEF InCall
  <2>2. CASE d[1] # 0
    <3>1. b = <<>> /\ InCall(p, d) = 0
      BY <1>4, <2>2 DEF InCall
    <3>2. Len(<<>>) = 0
      OBVIOUS
    <3>3. QED BY <3>1, <3>2
  <2>3. QED BY <2>1, <2>2
<1>6. Len(a) = CallPlace(prog, at[p], d)
  BY DEF CallPlace, Before
<1> HIDE DEF a, b, e, d
<1>7. drawn[p][s] = a \o b
  BY <1>2, <1>3, ConcatFacts
<1>8. Len(a \o b) = Len(a) + Len(b) /\ Len(a) \in Nat /\ Len(b) \in Nat
  BY <1>2, ConcatLen
<1>9. QED BY <1>5, <1>6, <1>7, <1>8 DEF d

\* The i-th number drawn from a stream.
LEMMA DrawnAt ==
  ASSUME Types, NEW p \in Parties, RngOK(p, rng[p], drawn[p]),
         NEW asks \in Seq(Asks), Distinct(asks), NEW j \in 1 .. Len(asks), NEW i \in 1 .. asks[j].n
  PROVE  Drawn(p, asks)[j][i] = At(tape, seed_of(p, asks[j].from), Len(drawn[p][asks[j].from]) + i)
<1>1. DrawsOf(p, asks, Drawn(p, asks))
  BY DrawnValues
<1>2. Drawn(p, asks)[j] = Coming(seed_of(p, asks[j].from), asks[j].n, Len(drawn[p][asks[j].from]))
  BY <1>1 DEF DrawsOf
<1>3. QED BY <1>2 DEF Coming, Number, At

LEMMA AskedOne ==
  ASSUME NEW s \in Parties, NEW n \in Nat
  PROVE  /\ Ask(<<s>>, n) \in Seq(Asks) /\ Distinct(Ask(<<s>>, n)) /\ 1 \in 1 .. Len(Ask(<<s>>, n))
         /\ Ask(<<s>>, n)[1].from = s /\ Ask(<<s>>, n)[1].n = n
<1>1. AsksFor(Ask(<<s>>, n), {s}, n) /\ Len(Ask(<<s>>, n)) = 1
  BY AskOne
<1>2. 1 \in 1 .. Len(Ask(<<s>>, n))
  BY <1>1
<1>3. Ask(<<s>>, n)[1].from = s /\ Ask(<<s>>, n)[1].n = n
  BY <1>1, <1>2 DEF AsksFor
<1>4. QED BY <1>1, <1>2, <1>3 DEF AsksFor

\* The end of a call: a party has its masks, and draws from each stream what comes last.
LEMMA LastDrawn ==
  ASSUME IInv, NEW p \in Parties, ~ Finished(p), stage[p] = "run",
         New(p) = Wanted(Call(p), Before(p).parted), NEW s \in Parties \ {p}, NEW i
  PROVE  At(tape, seed_of(p, s), Len(drawn[p][s]) + i) = LastAt(prog, tape, at[p], seed_of(p, s), i)
<1> DEFINE d == seed_of(p, s)
<1>1. Call(p) = prog[at[p]]
  BY DEF Call
<1>2. Len(drawn[p][s]) = CallPlace(prog, at[p], d) + InCall(p, d)
  BY PlacesRight
<1>3. LastPlace(prog, at[p], d) = CallPlace(prog, at[p], d) + InCall(p, d)
  BY <1>1 DEF LastPlace, InCall, Before
<1>4. QED BY <1>2, <1>3 DEF LastAt

\* A mask of the next operand, at a computing party and at the dealer.
LEMMA MaskNext ==
  ASSUME IInv, NEW p \in Parties, ~ Finished(p), stage[p] = "run", NEW s \in Parties \ {p},
         NEW q \in Computing, seed_of(p, s) = <<0, q>>
  PROVE  At(tape, seed_of(p, s), Len(drawn[p][s]) + 1) = NextMasks(p)[q]
<1> DEFINE d == <<0, q>>
           a == CallPlace(prog, at[p], d)  m == Len(MaskDraws(at[p], Call(p), New(p)))
<1>1. Len(drawn[p][s]) = a + InCall(p, d)
  BY PlacesRight
<1>2. InCall(p, d) = m
  BY DEF InCall
<1>3. Here(p) /\ Types
  BY HereAlways DEF IInv
<1>4. a \in Nat
  <2>1. d \in Seeds
    BY DealersSeeds
  <2>2. prog \in Programs /\ at[p] \in 1 .. Len(prog)
    BY <1>3 DEF Here
  <2>3. QED BY <2>1, <2>2, PlaceInt
<1>5. m \in Nat
  BY <1>3, MaskDrawsType DEF Here
<1>6. NextMasks(p)[q] = At(tape, d, a + (m + 1))
  BY DEF NextMasks, MasksAt
<1> HIDE DEF a, m
<1>7. (a + m) + 1 = a + (m + 1)
  BY <1>4, <1>5
<1>8. QED BY <1>1, <1>2, <1>6, <1>7

\* A party that does not draw from its own stream stays where it is there.
LEMMA OwnStays ==
  ASSUME Types, NEW p \in Parties, RngOK(p, rng[p], drawn[p]),
         NEW asks, NEW what \in Marks, asks \in Seq(Asks), Distinct(asks),
         \A j \in 1 .. Len(asks) : asks[j].from # p, Drawing(p, asks, what)
  PROVE  drawn'[p][p] = drawn[p][p]
<1>1. tape \in Tapes /\ drawn \in [Parties -> [Parties -> Seq(Marks)]]
  BY DEF Types
<1>2. Drew(p, asks, what, Len(asks), Draw(p, asks, what))
  BY <1>1, DrawAll
<1>3. Draw(p, asks, what).drawn[p] = drawn[p][p]
  BY <1>2 DEF Drew
<1>4. drawn' = [drawn EXCEPT ![p] = Draw(p, asks, what).drawn]
  BY DEF Drawing
<1>5. QED BY <1>1, <1>3, <1>4

LEMMA OwnMoves ==
  ASSUME Types, NEW p \in Parties, RngOK(p, rng[p], drawn[p]),
         NEW asks, NEW what \in Marks, asks \in Seq(Asks), Distinct(asks),
         NEW j \in 1 .. Len(asks), asks[j].from = p, Drawing(p, asks, what)
  PROVE  Len(drawn'[p][p]) = Len(drawn[p][p]) + asks[j].n /\ Len(drawn[p][p]) \in Nat
<1>1. tape \in Tapes /\ drawn \in [Parties -> [Parties -> Seq(Marks)]]
  BY DEF Types
<1>2. Drew(p, asks, what, Len(asks), Draw(p, asks, what))
  BY <1>1, DrawAll
<1>3. Draw(p, asks, what).drawn[p] = drawn[p][p] \o Marked(asks[j].n, what)
  BY <1>2 DEF Drew
<1>4. drawn' = [drawn EXCEPT ![p] = Draw(p, asks, what).drawn]
  BY DEF Drawing
<1>5. drawn'[p][p] = drawn[p][p] \o Marked(asks[j].n, what)
  BY <1>1, <1>3, <1>4
<1>6. asks[j].n \in Nat
  <2>1. asks[j] \in Asks
    OBVIOUS
  <2>2. QED BY <2>1 DEF Asks
<1>7. drawn[p][p] \in Seq(Marks) /\ Marked(asks[j].n, what) \in Seq(Marks)
      /\ Len(Marked(asks[j].n, what)) = asks[j].n
  BY <1>1, <1>6, MarkedType
<1>8. QED
  <2> DEFINE a == drawn[p][p]  b == Marked(asks[j].n, what)
  <2>1. a \in Seq(Marks) /\ b \in Seq(Marks) /\ Len(b) = asks[j].n /\ drawn'[p][p] = a \o b
    BY <1>5, <1>7
  <2> HIDE DEF a, b
  <2>2. Len(a \o b) = Len(a) + Len(b) /\ Len(a) \in Nat
    BY <2>1, ConcatLen
  <2>3. QED BY <2>1, <2>2 DEF a

-----------------------------------------------------------------------------
(***************************************************************************)
(* What a step of one party does to what the invariant says of values.     *)
(***************************************************************************)
SameProgram == prog' = prog /\ tape' = tape

\* A step of another party.
LEMMA ElsewhereNow ==
  ASSUME NEW p, NEW q \in Parties \ {p}, Elsewhere(p)
  PROVE  /\ Call(q)' = Call(q) /\ (Finished(q)' <=> Finished(q)) /\ New(q)' = New(q)
         /\ Behind(q)' = Behind(q) /\ Now(q)' = Now(q) /\ at'[q] = at[q] /\ SameProgram
         /\ \A ops : Revealing(q, ops)' <=> Revealing(q, ops)
         /\ stage'[q] = stage[q] /\ held'[q] = held[q] /\ result'[q] = result[q] /\ drawn'[q] = drawn[q]
<1>1. /\ SameProgram /\ at'[q] = at[q] /\ stage'[q] = stage[q] /\ result'[q] = result[q]
      /\ held'[q] = held[q] /\ drawn'[q] = drawn[q]
  BY DEF Elsewhere, SameProgram
<1>2. Call(q)' = Call(q) /\ (Finished(q)' <=> Finished(q))
  BY <1>1 DEF Call, Finished, SameProgram
<1>3. New(q)' = New(q)
  BY <1>1 DEF New, Parted, Before, SameProgram
<1>4. Behind(q)' = Behind(q)
  BY <1>1 DEF Behind, SameProgram
<1>5. Now(q)' = Now(q)
  BY <1>1, <1>2, <1>3, <1>4 DEF Now, SameProgram
<1>6. \A ops : Revealing(q, ops)' <=> Revealing(q, ops)
  BY <1>1, <1>2 DEF Revealing
<1>7. QED BY <1>1, <1>2, <1>3, <1>4, <1>5, <1>6

LEMMA OutStays ==
  ASSUME NEW p, OutRight(p), out'[p] = out[p], SameProgram, at[p] \in Nat,
         at'[p] = at[p] \/ at'[p] = at[p] + 1
  PROVE  OutRight(p)'
<1>1. \A k \in 1 .. at[p] - 1 : k \in 1 .. at'[p] - 1
  OBVIOUS
<1>2. All(prog, tape)' = All(prog, tape)
  BY DEF SameProgram
<1> DEFINE all == All(prog, tape)
<1>3. \A i \in 1 .. Len(out[p]) :
        /\ out[p][i].call \in 1 .. at[p] - 1 /\ prog[out[p][i].call].op = "reveal" /\ p # 0
        /\ out[p][i].value = all.results[p][out[p][i].call].share
  BY DEF OutRight
<1>4. all' = all
  BY <1>2
<1> HIDE DEF all
<1>5. \A i \in 1 .. Len(out'[p]) :
        /\ out'[p][i].call \in 1 .. at'[p] - 1 /\ prog'[out'[p][i].call].op = "reveal" /\ p # 0
        /\ out'[p][i].value = all.results[p][out'[p][i].call].share
  BY <1>1, <1>3 DEF SameProgram
<1>6. QED BY <1>4, <1>5 DEF OutRight, all

LEMMA ElsewhereValues ==
  ASSUME NEW p, NEW q \in Parties \ {p}, Elsewhere(p), ValuesOK(q), at[q] \in Nat,
         value'[q] = value[q], out'[q] = out[q], Reveals(q)' = Reveals(q)
  PROVE  ValuesOK(q)'
<1>1. /\ Call(q)' = Call(q) /\ New(q)' = New(q)
      /\ Behind(q)' = Behind(q) /\ Now(q)' = Now(q) /\ at'[q] = at[q] /\ SameProgram
      /\ \A ops : Revealing(q, ops)' <=> Revealing(q, ops)
      /\ stage'[q] = stage[q] /\ held'[q] = held[q] /\ result'[q] = result[q] /\ drawn'[q] = drawn[q]
  BY ElsewhereNow
<1>2. OutRight(q)'
  BY <1>1, OutStays DEF ValuesOK
<1>3. HeldRight(q)' <=> HeldRight(q)
  BY <1>1 DEF HeldRight, SameProgram
<1>4. All(prog, tape)' = All(prog, tape)
  BY <1>1 DEF SameProgram
<1>5. result[q] = Now(q).results[q] /\ (q = 0 => Len(drawn[q][q]) = Behind(q).own)
      /\ (stage[q] = "reveal" => value[q] = All(prog, tape).values[q][Reveals(q)] /\ HeldRight(q))
  BY DEF ValuesOK
<1>6. (result[q] = Now(q).results[q])' /\ (q = 0 => Len(drawn[q][q]) = Behind(q).own)'
  BY <1>1, <1>5
<1>7. (stage[q] = "reveal" => value[q] = All(prog, tape).values[q][Reveals(q)] /\ HeldRight(q))'
  BY <1>1, <1>3, <1>4, <1>5
<1>8. QED BY <1>2, <1>6, <1>7 DEF ValuesOK

\* The call ends.
LEMMA MovedNow ==
  ASSUME NEW p \in Parties, Here(p), New(p) = Wanted(Call(p), Before(p).parted),
         SameProgram, at'[p] = at[p] + 1,
         result'[p] = Append(Now(p).results[p], NewTensor(prog, tape, at[p], Now(p), p))
  PROVE  /\ Behind(p)' = End(prog, tape, at[p], Now(p))
         /\ Now(p)' = Behind(p)'
         /\ result'[p] = Now(p)'.results[p]
<1> DEFINE n == at[p]  z == Ideal(prog, tape)[n]
<1>1. AtTheEnd(p) /\ NowGrows(p)
  BY AtTheEndWhen, NowGrowsAlways
<1>2. z = End(prog, tape, n, Now(p))
  BY <1>1 DEF NowGrows, AtTheEnd
<1>3. prog \in Programs /\ tape \in Tapes /\ n \in 1 .. Len(prog) /\ n \in Nat /\ (n + 1) - 1 = n
  BY DEF Here
<1>4. Behind(p)' = z /\ Before(p)' = Plan(prog)[n]
  BY <1>3 DEF Behind, Before, SameProgram
<1>5. result'[p] = z.results[p]
  <2>1. \A u : End(prog, tape, n, u).results[p] = Append(u.results[p], NewTensor(prog, tape, n, u, p))
    BY DEF End
  <2>2. End(prog, tape, n, Now(p)).results[p]
          = Append(Now(p).results[p], NewTensor(prog, tape, n, Now(p), p))
    BY <2>1
  <2> HIDE DEF z
  <2>3. QED BY <1>2, <2>2
<1>6. WorldOK(z, n, Plan(prog)[n].parted, Plan(prog)[n].reveals, Plan(prog)[n].dealt)
  BY <1>3, CallRight DEF Upto
<1>7. New(p)' = {}
  <2>1. /\ z.results[p] \in Seq(Sharetensors) /\ Len(z.results[p]) = n
        /\ \A k \in 1 .. n : is_partitioned(z.results[p][k]) <=> k \in Plan(prog)[n].parted
    BY <1>6 DEF WorldOK
  <2>2. DOMAIN z.results[p] = 1 .. n
    BY <2>1
  <2> HIDE DEF z, n
  <2>3. Parted(p)' = {k \in 1 .. n : is_partitioned(z.results[p][k])}
    BY <1>5, <2>2 DEF Parted
  <2>4. Parted(p)' \subseteq Plan(prog)[n].parted
    BY <2>1, <2>3
  <2>5. QED BY <1>4, <2>4 DEF New
<1>8. Now(p)' = z
  <2>1. CASE Finished(p)'
    BY <1>4, <2>1 DEF Now
  <2>2. CASE ~ Finished(p)'
    <3>1. Now(p)' = Parts(prog, tape, n + 1, z, {})
      BY <1>4, <1>7, <2>2 DEF Now, SameProgram
    <3>2. Plan(prog)[n].reveals \in Nat
      <4>1. Plan(prog)[n] \in Works
        <5>1. PlanFacts(prog) /\ n \in 0 .. Len(prog)
          BY <1>3, PlanRight
        <5>2. QED BY <5>1 DEF PlanFacts
      <4>2. QED BY <4>1 DEF Works
    <3>3. Parts(prog, tape, n + 1, z, {}) = z
      <4> HIDE DEF z, n
      <4>1. WorldOK(z, (n + 1) - 1, Plan(prog)[n].parted, Plan(prog)[n].reveals, Plan(prog)[n].dealt)
        BY <1>3, <1>6
      <4>2. QED BY <3>2, <4>1, PartsNone
    <3>4. QED BY <3>1, <3>3
  <2>3. QED BY <2>1, <2>2
<1>9. QED BY <1>2, <1>4, <1>5, <1>8

LEMMA MovedValues ==
  ASSUME NEW p \in Parties, Here(p), New(p) = Wanted(Call(p), Before(p).parted),
         SameProgram, at'[p] = at[p] + 1, stage'[p] = "run",
         result'[p] = Append(Now(p).results[p], NewTensor(prog, tape, at[p], Now(p), p)),
         p = 0 => Len(drawn'[p][p]) = End(prog, tape, at[p], Now(p)).own,
         OutRight(p)'
  PROVE  ValuesOK(p)'
<1>1. /\ Behind(p)' = End(prog, tape, at[p], Now(p)) /\ Now(p)' = Behind(p)'
      /\ result'[p] = Now(p)'.results[p]
  BY MovedNow
<1>2. (p = 0 => Len(drawn[p][p]) = Behind(p).own)'
  BY <1>1
<1>3. (stage[p] # "reveal")'
  OBVIOUS
<1>4. QED BY <1>1, <1>2, <1>3 DEF ValuesOK

\* How many numbers the dealer has had from its own stream.
LEMMA OwnFacts ==
  ASSUME NEW pr, NEW t, NEW n, NEW w, NEW S
  PROVE  /\ Parts(pr, t, n, w, S).own = w.own
         /\ End(pr, t, n, w).own = IF pr[n].op = "trunc" THEN w.own + 1 ELSE w.own
<1>1. \A u, k, m : Part(u, k, m).own = u.own
  BY DEF Part
<1>2. FirstPart(pr, t, n, w, S).own = w.own
  BY <1>1 DEF FirstPart
<1>3. Parts(pr, t, n, w, S).own = w.own
  BY <1>1, <1>2 DEF Parts
<1>4. End(pr, t, n, w).own = IF pr[n].op = "trunc" THEN w.own + 1 ELSE w.own
  BY DEF End
<1>5. QED BY <1>3, <1>4

LEMMA NowOwn ==
  ASSUME NEW p, Here(p)
  PROVE  /\ Now(p).own = Behind(p).own /\ Now(p).own \in Nat
         /\ End(prog, tape, at[p], Now(p)).own = IF Call(p).op = "trunc" THEN Now(p).own + 1 ELSE Now(p).own
<1>1. Now(p) = Parts(prog, tape, at[p], Behind(p), New(p)) /\ Call(p) = prog[at[p]]
      /\ WorldOK(Now(p), at[p] - 1, Before(p).parted \cup New(p), Answers(p), Before(p).dealt)
  BY DEF Here
<1>2. Now(p).own \in Nat
  BY <1>1 DEF WorldOK
<1>3. Parts(prog, tape, at[p], Behind(p), New(p)).own = Behind(p).own
  BY OwnFacts
<1>4. End(prog, tape, at[p], Now(p)).own = IF prog[at[p]].op = "trunc" THEN Now(p).own + 1 ELSE Now(p).own
  BY OwnFacts
<1>5. QED BY <1>1, <1>2, <1>3, <1>4

\* A party goes on within its call.
LEMMA StayedNow ==
  ASSUME NEW p, SameProgram, at'[p] = at[p], New(p)' = New(p)
  PROVE  Now(p)' = Now(p) /\ Behind(p)' = Behind(p)
<1>1. Behind(p)' = Behind(p) /\ (Finished(p)' <=> Finished(p))
  BY DEF Behind, Finished, SameProgram
<1>2. QED BY <1>1 DEF Now, SameProgram

-----------------------------------------------------------------------------
(***************************************************************************)
(* A step is of one party alone.                                           *)
(***************************************************************************)
Alone(p) == Elsewhere(p) /\ \A q \in Parties \ {p} : value'[q] = value[q] /\ out'[q] = out[q]
DrawsAlone(p) == \A q \in Parties \ {p} : rng'[q] = rng[q] /\ drawn'[q] = drawn[q]

LEMMA DrawingAlone ==
  ASSUME Types, NEW p \in Parties
  PROVE  /\ \A asks, what : Drawing(p, asks, what) => DrawsAlone(p)
         /\ NoDraw => DrawsAlone(p)
<1>1. ASSUME NEW asks, NEW what, Drawing(p, asks, what) PROVE DrawsAlone(p)
  <2>1. /\ rng' = [rng EXCEPT ![p] = Draw(p, asks, what).rng]
        /\ drawn' = [drawn EXCEPT ![p] = Draw(p, asks, what).drawn]
    BY <1>1 DEF Drawing
  <2>2. QED BY <2>1 DEF Types, DrawsAlone
<1>2. NoDraw => DrawsAlone(p)
  BY DEF NoDraw, DrawsAlone
<1>3. QED BY <1>1, <1>2

LEMMA ReturnsAlone ==
  ASSUME Types, NEW p \in Parties, NEW t, Returns(p, t), DrawsAlone(p)
  PROVE  Alone(p)
<1>1. result \in [Parties -> Seq(Sharetensors)] /\ at \in [Parties -> 1 .. Len(prog) + 1]
  BY DEF Types, TypeOK
<1>2. \A q \in Parties \ {p} : result'[q] = result[q] /\ at'[q] = at[q]
  BY <1>1 DEF Returns
<1>3. QED BY <1>2 DEF Returns, DrawsAlone, Alone, Elsewhere

LEMMA EntersAlone ==
  ASSUME Types, NEW p \in Parties, NEW v, NEW mask, EnterReveal(p, v, mask), DrawsAlone(p)
  PROVE  Alone(p)
<1>1. /\ stage \in [Parties -> {"run", "reveal"}] /\ held \in [Parties -> Seq(Residues)]
      /\ value \in [Parties -> Residues]
  BY DEF Types, TypeOK
<1>2. \A q \in Parties \ {p} : stage'[q] = stage[q] /\ held'[q] = held[q] /\ value'[q] = value[q]
  BY <1>1 DEF EnterReveal
<1>3. QED BY <1>2 DEF EnterReveal, DrawsAlone, Alone, Elsewhere

LEMMA LeavesAlone ==
  ASSUME Types, NEW p \in Parties, NEW v, LeaveReveal(p, v), DrawsAlone(p)
  PROVE  Alone(p)
<1>1. /\ stage \in [Parties -> {"run", "reveal"}] /\ held \in [Parties -> Seq(Residues)]
      /\ value \in [Parties -> Residues]
      /\ result \in [Parties -> Seq(Sharetensors)] /\ at \in [Parties -> 1 .. Len(prog) + 1]
      /\ out \in [Parties -> Seq([call : Nat, value : Residues])]
  BY DEF Types, TypeOK
<1> DEFINE one == CASE Call(p).op = "reveal" -> Append(result[p], Sharetensor(v))
                    [] Call(p).op = "trunc" -> Append(result[p], Sharetensor(Truncated(p, v)))
                    [] OTHER -> [result[p] EXCEPT ![Operand(p)].x_r = <<v>>, ![Operand(p)].r = held[p]]
<1>2. result' = [result EXCEPT ![p] = one]
  BY DEF LeaveReveal
<1> HIDE DEF one
<1>3. \A q \in Parties \ {p} : result'[q] = result[q]
  BY <1>1, <1>2
<1>4. \A q \in Parties \ {p} : stage'[q] = stage[q] /\ held'[q] = held[q] /\ value'[q] = value[q]
  BY <1>1 DEF LeaveReveal
<1>5. \A q \in Parties \ {p} : at'[q] = at[q]
  <2>1. at' = at \/ at' = [at EXCEPT ![p] = @ + 1]
    BY DEF LeaveReveal
  <2>2. QED BY <1>1, <2>1
<1>6. \A q \in Parties \ {p} : out'[q] = out[q]
  <2>1. out' = out \/ out' = [out EXCEPT ![p] = Append(@, [call |-> at[p], value |-> v])]
    BY DEF LeaveReveal
  <2>2. QED BY <1>1, <2>1
<1>7. prog' = prog /\ tape' = tape
  BY DEF LeaveReveal
<1>8. QED BY <1>3, <1>4, <1>5, <1>6, <1>7 DEF DrawsAlone, Alone, Elsewhere

\* The dealer's partition of an operand, at the dealer.
DealersPart(p) ==
  <<0>> \in Seq(Residues) /\
  result'[p] = [result[p] EXCEPT ![Operand(p)].x_r = <<0>>,
                                 ![Operand(p)].r = <<SumMod(Firsts(Drawn(p, Ask(Others(p), 1))))>>]

LEMMA DealersPartAlone ==
  ASSUME Types, NEW p \in Parties, PartitionDealer(p)
  PROVE  Alone(p) /\ DealersPart(p)
<1> DEFINE k == Operand(p)
           r == <<SumMod(Firsts(Drawn(p, Ask(Others(p), 1))))>>
<1>1. /\ prog' = prog /\ tape' = tape /\ at' = at /\ stage' = stage /\ held' = held
      /\ value' = value /\ out' = out /\ wire' = wire
      /\ result' = [result EXCEPT ![p][k].x_r = <<0>>, ![p][k].r = r]
  BY DEF PartitionDealer
<1>2. DrawsAlone(p)
  <2>1. Drawing(p, Ask(Others(p), 1), <<at[p], k>>)
    BY DEF PartitionDealer
  <2>2. QED BY <2>1, DrawingAlone
<1> HIDE DEF k, r
<1>3. result \in [Parties -> Seq(Sharetensors)]
  BY DEF Types, TypeOK
<1> DEFINE u == [result EXCEPT ![p][k].x_r = <<0>>]
<1>4. u[p] = [result[p] EXCEPT ![k].x_r = <<0>>] /\ (\A q \in Parties \ {p} : u[q] = result[q])
      /\ DOMAIN u = Parties
  BY <1>3
<1>5. result' = [u EXCEPT ![p][k].r = r]
  BY <1>1
<1> HIDE DEF u
<1>6. result'[p] = [u[p] EXCEPT ![k].r = r] /\ (\A q \in Parties \ {p} : result'[q] = u[q])
  BY <1>4, <1>5
<1>7. <<0>> \in Seq(Residues)
  BY OneResidue, ResidueFacts
<1>8. DealersPart(p)
  BY <1>4, <1>6, <1>7 DEF DealersPart, k, r
<1>9. Alone(p)
  BY <1>1, <1>2, <1>4, <1>6 DEF Alone, Elsewhere, DrawsAlone
<1>10. QED BY <1>8, <1>9

LEMMA StepAlone ==
  ASSUME Types, NEW p \in Parties, Step(p)
  PROVE  Alone(p)
<1>1. \A asks, what : Drawing(p, asks, what) => DrawsAlone(p)
  BY DrawingAlone
<1>2. NoDraw => DrawsAlone(p)
  BY DrawingAlone
<1>3. \A t : Returns(p, t) /\ DrawsAlone(p) => Alone(p)
  BY ReturnsAlone
<1>4. \A v, mask : EnterReveal(p, v, mask) /\ DrawsAlone(p) => Alone(p)
  BY EntersAlone
<1>5. \A v : LeaveReveal(p, v) /\ DrawsAlone(p) => Alone(p)
  BY LeavesAlone
<1>6. CASE ShareOwn(p)
  BY <1>1, <1>3, <1>6 DEF ShareOwn
<1>7. CASE ShareDealers(p)
  BY <1>1, <1>3, <1>7 DEF ShareDealers
<1>8. CASE ShareOfOther(p)
  BY <1>1, <1>2, <1>3, <1>8 DEF ShareOfOther
<1>9. CASE AddShares(p)
  BY <1>2, <1>3, <1>9 DEF AddShares
<1>10. CASE SubtractShares(p)
  BY <1>2, <1>3, <1>10 DEF SubtractShares
<1>11. CASE AddPublic(p)
  BY <1>2, <1>3, <1>11 DEF AddPublic
<1>12. CASE MultiplyPublic(p)
  BY <1>2, <1>3, <1>12 DEF MultiplyPublic
<1>13. CASE RevealCall(p)
  BY <1>2, <1>3, <1>4, <1>13 DEF RevealCall
<1>14. CASE HubSums(p)
  BY <1>2, <1>5, <1>14 DEF HubSums
<1>15. CASE TakeSum(p)
  BY <1>2, <1>5, <1>15 DEF TakeSum
<1>16. CASE PartitionDealer(p)
  BY <1>16, DealersPartAlone
<1>17. CASE Partition(p)
  BY <1>1, <1>4, <1>17 DEF Partition
<1>18. CASE BeaverReconstruct(p)
  <2>1. CASE p = 0
    BY <1>1, <1>3, <1>18, <2>1 DEF BeaverReconstruct
  <2>2. CASE p # 0
    BY <1>1, <1>2, <1>3, <1>18, <2>2 DEF BeaverReconstruct, TakeDealt
  <2>3. QED BY <2>1, <2>2
<1>19. CASE Power(p)
  <2>1. CASE p = 0
    BY <1>1, <1>3, <1>19, <2>1 DEF Power
  <2>2. CASE p # 0
    BY <1>1, <1>2, <1>3, <1>19, <2>2 DEF Power, TakeDealt
  <2>3. QED BY <2>1, <2>2
<1>20. CASE TruncateDealer(p)
  BY <1>1, <1>3, <1>20 DEF TruncateDealer
<1>21. CASE Truncate(p)
  BY <1>1, <1>2, <1>4, <1>21 DEF Truncate
<1>22. QED BY <1>6, <1>7, <1>8, <1>9, <1>10, <1>11, <1>12, <1>13, <1>14, <1>15, <1>16, <1>17,
             <1>18, <1>19, <1>20, <1>21 DEF Step

\* So it keeps what the invariant says of the others.
LEMMA OthersKeep ==
  ASSUME IInv, NEW p \in Parties, Alone(p)
  PROVE  /\ Still(p)
         /\ (\A q \in Parties : ValuesOK(q)) => \A q \in Parties \ {p} : ValuesOK(q)'
<1>1. Elsewhere(p) /\ \A q \in Parties \ {p} : value'[q] = value[q] /\ out'[q] = out[q]
  BY DEF Alone
<1>2. ASSUME NEW q \in Parties \ {p}
      PROVE  Had(q)' = Had(q) /\ Answers(q)' = Answers(q) /\ Reveals(q)' = Reveals(q)
  <2>1. PlaceOK(q) /\ DrawnOK(q) /\ RngOK(q, rng[q], drawn[q])
    BY DEF IInv
  <2>2. QED BY <1>1, <2>1, ElsewhereSame
<1>3. ASSUME NEW q \in Parties \ {p}, ValuesOK(q) PROVE ValuesOK(q)'
  <2>1. at[q] \in Nat
    BY PlaceType DEF IInv
  <2>2. QED BY <1>1, <1>2, <1>3, <2>1, ElsewhereValues
<1>4. QED BY <1>2, <1>3 DEF Still

-----------------------------------------------------------------------------
(***************************************************************************)
(* The links carry what the ideal execution sends.                         *)
(***************************************************************************)

\* A list has those of all that come after the first b.
Tells(v, all, b) == \A i \in 1 .. Len(v) : v[i] = all[b + i]

LEMMA TellsMore ==
  ASSUME NEW u \in Seq(Residues), NEW v \in Seq(Residues), NEW all, NEW b \in Nat, NEW s \in Nat,
         Len(u) + b = s, Tells(u, all, b), \A j \in 1 .. Len(v) : v[j] = all[s + j]
  PROVE  Tells(u \o v, all, b)
<1>1. /\ Len(u \o v) = Len(u) + Len(v) /\ Begins(u, u \o v)
      /\ \A j \in 1 .. Len(v) : (u \o v)[Len(u) + j] = v[j]
  BY ConcatBegins
<1> DEFINE z == u \o v  m == Len(u)  k == Len(v)
<1>2. m \in Nat /\ k \in Nat /\ m + b = s
  OBVIOUS
<1>3. Len(z) = m + k /\ (\A i \in 1 .. m : z[i] = u[i]) /\ \A j \in 1 .. k : z[m + j] = v[j]
  BY <1>1 DEF Begins
<1> HIDE DEF z, m, k
<1>4. ASSUME NEW i \in 1 .. m + k PROVE z[i] = all[b + i]
  <2>1. CASE i <= m
    <3>1. i \in 1 .. m
      BY <1>2, <2>1
    <3>2. QED BY <1>3, <3>1 DEF Tells, m
  <2>2. CASE i > m
    <3>1. i - m \in 1 .. k /\ i = m + (i - m) /\ s + (i - m) = b + i
      BY <1>2, <2>2
    <3>2. z[i] = v[i - m] /\ v[i - m] = all[s + (i - m)]
      <4>1. z[m + (i - m)] = v[i - m]
        BY <1>3, <3>1
      <4>2. \A j \in 1 .. k : v[j] = all[s + j]
        BY DEF k
      <4>3. QED BY <3>1, <4>1, <4>2
    <3>3. QED BY <3>1, <3>2
  <2>3. QED BY <1>2, <2>1, <2>2
<1>5. \A i \in 1 .. Len(z) : z[i] = all[b + i]
  BY <1>3, <1>4
<1>6. QED BY <1>5 DEF Tells, z

LEMMA TellsRest ==
  ASSUME NEW u \in Seq(Residues), NEW all, NEW b \in Nat, NEW n \in 0 .. Len(u), Tells(u, all, b)
  PROVE  /\ Tells(SubSeq(u, n + 1, Len(u)), all, b + n)
         /\ Len(SubSeq(u, n + 1, Len(u))) = Len(u) - n
<1> DEFINE z == SubSeq(u, n + 1, Len(u))  m == Len(u)
<1>1. m \in Nat /\ n \in Nat /\ n <= m
  OBVIOUS
<1>2. Len(z) = m - n /\ \A i \in 1 .. m - n : z[i] = u[n + i]
  OBVIOUS
<1> HIDE DEF z, m
<1>3. ASSUME NEW i \in 1 .. Len(z) PROVE z[i] = all[(b + n) + i]
  <2>1. i \in 1 .. m - n
    BY <1>2
  <2>2. n + i \in 1 .. m /\ b + (n + i) = (b + n) + i
    BY <1>1, <2>1
  <2>3. u[n + i] = all[b + (n + i)]
    BY <2>2 DEF Tells, m
  <2>4. QED BY <1>2, <2>1, <2>2, <2>3
<1>4. QED BY <1>2, <1>3 DEF Tells, z, m

\* What happens to a list between sender and receiver, who have come to s and b and come to
\* sn and bn.
Goes(u, un, b, bn, s, sn, all) ==
  \/ un = u /\ (bn = b \/ sn = s)
  \/ bn = b /\ \E v \in Seq(Residues) : un = u \o v /\ \A j \in 1 .. Len(v) : v[j] = all[s + j]
  \/ sn = s /\ \E n \in 0 .. Len(u) : un = SubSeq(u, n + 1, Len(u))

LEMMA GoesRight ==
  ASSUME NEW u \in Seq(Residues), NEW un, NEW b \in Nat, NEW bn \in Nat, NEW s \in Nat, NEW sn \in Nat,
         NEW all, Len(u) + b = s, Len(un) + bn = sn, Tells(u, all, b), Goes(u, un, b, bn, s, sn, all)
  PROVE  Tells(un, all, bn)
<1>0. Len(u) \in Nat
  OBVIOUS
<1>1. CASE un = u /\ (bn = b \/ sn = s)
  <2>1. bn = b
    BY <1>0, <1>1
  <2>2. QED BY <1>1, <2>1
<1>2. CASE bn = b /\ \E v \in Seq(Residues) : un = u \o v /\ \A j \in 1 .. Len(v) : v[j] = all[s + j]
  <2>1. PICK v \in Seq(Residues) : un = u \o v /\ \A j \in 1 .. Len(v) : v[j] = all[s + j]
    BY <1>2
  <2>2. QED BY <1>2, <2>1, TellsMore
<1>3. CASE sn = s /\ \E n \in 0 .. Len(u) : un = SubSeq(u, n + 1, Len(u))
  <2>1. PICK n \in 0 .. Len(u) : un = SubSeq(u, n + 1, Len(u))
    BY <1>3
  <2>2. Tells(un, all, b + n) /\ Len(un) = Len(u) - n
    BY <2>1, TellsRest
  <2>3. bn = b + n
    BY <1>0, <1>3, <2>2
  <2>4. QED BY <2>2, <2>3
<1>4. QED BY <1>1, <1>2, <1>3 DEF Goes

\* What p does to a link, when its sender has sent the first s of all.
WireGoes(p, c, all, s) ==
  \/ wire'[c] = wire[c]
  \/ c[1] = p /\ \E v \in Seq(Residues) :
                   wire'[c] = wire[c] \o v /\ \A j \in 1 .. Len(v) : v[j] = all[s + j]
  \/ c[2] = p /\ \E n \in 0 .. Len(wire[c]) : wire'[c] = SubSeq(wire[c], n + 1, Len(wire[c]))

LEMMA WiresTell ==
  WiresOK <=> /\ Tells(wire[<<0, 1>>], All(prog, tape).deals, Had(1))
              /\ \A q \in Helpers : /\ Tells(wire[<<q, 1>>], All(prog, tape).values[q], Answers(1))
                                    /\ Tells(wire[<<1, q>>], All(prog, tape).totals, Answers(q))
  BY DEF WiresOK, Tells

LEMMA CountTypesNext ==
  ASSUME Types', NEW p \in Parties
  PROVE  Had(p)' \in Nat /\ Answers(p)' \in Nat /\ Reveals(p)' \in Nat
<1>1. prog' \in Programs /\ at' \in [Parties -> 1 .. Len(prog') + 1]
  BY DEF Types, TypeOK
<1>2. Len(prog') \in Nat /\ \A i \in 1 .. Len(prog') : CallFacts(prog'[i], i)
  BY <1>1, ProgramFacts
<1>3. at'[p] \in 1 .. Len(prog') + 1 /\ at'[p] \in Nat /\ at'[p] - 1 \in 0 .. Len(prog')
  BY <1>1, <1>2
<1>4. PlanFacts(prog')
  BY <1>1, PlanRight
<1>5. Plan(prog')[at'[p] - 1] \in Works
  BY <1>3, <1>4 DEF PlanFacts
<1>6. Before(p)'.dealt \in Nat /\ Before(p)'.reveals \in Nat
  BY <1>5 DEF Before, Works
<1>7. ~ Finished(p)' => Len(MaskDraws(at'[p], Call(p)', New(p)')) \in Nat
  <2>1. ASSUME ~ Finished(p)' PROVE CallFacts(Call(p)', at'[p])
    <3>1. at'[p] \in 1 .. Len(prog')
      BY <1>2, <1>3, <2>1 DEF Finished
    <3>2. QED BY <1>2, <3>1 DEF Call
  <2>2. QED BY <1>3, <2>1, MaskDrawsType
<1>8. Answers(p)' \in Nat
  BY <1>6, <1>7 DEF Answers
<1>9. QED BY <1>6, <1>8 DEF Had, Reveals

LEMMA WiresGo ==
  ASSUME IInv, IInv', NEW p \in Parties, Still(p), SameProgram, WiresOK,
         WireGoes(p, <<0, 1>>, All(prog, tape).deals, Had(0)),
         \A q \in Helpers : /\ WireGoes(p, <<q, 1>>, All(prog, tape).values[q], Reveals(q))
                            /\ WireGoes(p, <<1, q>>, All(prog, tape).totals, Answers(1))
  PROVE  WiresOK'
<1> DEFINE all == All(prog, tape)
<1>1. Types /\ LinksOK /\ LinksOK' /\ Types'
  BY DEF IInv
<1>2. Wires(wire)
  BY <1>1, WiresType
<1>3. \A q \in Parties : Had(q) \in Nat /\ Answers(q) \in Nat /\ Reveals(q) \in Nat
  BY <1>1, CountTypes
<1>4. \A q \in Parties : Had(q)' \in Nat /\ Answers(q)' \in Nat /\ Reveals(q)' \in Nat
  BY <1>1, CountTypesNext
<1>5. \A q \in Parties \ {p} : Had(q)' = Had(q) /\ Answers(q)' = Answers(q) /\ Reveals(q)' = Reveals(q)
  BY DEF Still
<1>6. /\ Tells(wire[<<0, 1>>], all.deals, Had(1))
      /\ \A q \in Helpers : /\ Tells(wire[<<q, 1>>], all.values[q], Answers(1))
                            /\ Tells(wire[<<1, q>>], all.totals, Answers(q))
  BY WiresTell
<1>7. /\ Len(wire[<<0, 1>>]) + Had(1) = Had(0)
      /\ \A q \in Helpers : /\ Len(wire[<<q, 1>>]) + Answers(1) = Reveals(q)
                            /\ Len(wire[<<1, q>>]) + Answers(q) = Answers(1)
  BY <1>1 DEF LinksOK
<1>8. /\ Len(wire'[<<0, 1>>]) + Had(1)' = Had(0)'
      /\ \A q \in Helpers : /\ Len(wire'[<<q, 1>>]) + Answers(1)' = Reveals(q)'
                            /\ Len(wire'[<<1, q>>]) + Answers(q)' = Answers(1)'
  BY <1>1 DEF LinksOK
<1>9. all' = all
  BY DEF SameProgram
<1> HIDE DEF all
<1>10. 0 \in Parties /\ 1 \in Parties /\ 0 # 1 /\ \A q \in Helpers : q \in Parties /\ q # 0 /\ q # 1
  BY HelperFacts
<1>11. Tells(wire'[<<0, 1>>], all.deals, Had(1)')
  <2>1. WireGoes(p, <<0, 1>>, all.deals, Had(0))
    BY DEF all
  <2>2. Had(1)' = Had(1) \/ Had(0)' = Had(0)
    BY <1>5, <1>10
  <2>3. p = 0 => Had(1)' = Had(1)
    BY <1>5, <1>10
  <2>4. p = 1 => Had(0)' = Had(0)
    BY <1>5, <1>10
  <2> DEFINE c == <<0, 1>>
  <2>5. c[1] = 0 /\ c[2] = 1 /\ wire[c] \in Seq(Residues)
    BY <1>2 DEF Wires
  <2>6. WireGoes(p, c, all.deals, Had(0)) /\ Tells(wire[c], all.deals, Had(1))
        /\ Len(wire[c]) + Had(1) = Had(0) /\ Len(wire'[c]) + Had(1)' = Had(0)'
    BY <1>6, <1>7, <1>8, <2>1
  <2> HIDE DEF c
  <2>7. Goes(wire[c], wire'[c], Had(1), Had(1)', Had(0), Had(0)', all.deals)
    BY <2>2, <2>3, <2>4, <2>5, <2>6 DEF WireGoes, Goes
  <2>8. Tells(wire'[c], all.deals, Had(1)')
    BY <1>3, <1>4, <1>10, <2>5, <2>6, <2>7, GoesRight
  <2>9. QED BY <2>8 DEF c
<1>12. ASSUME NEW q \in Helpers PROVE Tells(wire'[<<q, 1>>], all.values[q], Answers(1)')
  <2>1. WireGoes(p, <<q, 1>>, all.values[q], Reveals(q))
    BY DEF all
  <2>2. Answers(1)' = Answers(1) \/ Reveals(q)' = Reveals(q)
    BY <1>5, <1>10
  <2>3. p = q => Answers(1)' = Answers(1)
    BY <1>5, <1>10
  <2>4. p = 1 => Reveals(q)' = Reveals(q)
    BY <1>5, <1>10
  <2> DEFINE c == <<q, 1>>
  <2>5. c[1] = q /\ c[2] = 1 /\ wire[c] \in Seq(Residues)
    BY <1>2 DEF Wires
  <2>6. WireGoes(p, c, all.values[q], Reveals(q)) /\ Tells(wire[c], all.values[q], Answers(1))
        /\ Len(wire[c]) + Answers(1) = Reveals(q) /\ Len(wire'[c]) + Answers(1)' = Reveals(q)'
    BY <1>6, <1>7, <1>8, <2>1
  <2> HIDE DEF c
  <2>7. Goes(wire[c], wire'[c], Answers(1), Answers(1)', Reveals(q), Reveals(q)', all.values[q])
    BY <2>2, <2>3, <2>4, <2>5, <2>6 DEF WireGoes, Goes
  <2>10. /\ Answers(1) \in Nat /\ Answers(1)' \in Nat /\ Reveals(q) \in Nat /\ Reveals(q)' \in Nat
    BY <1>3, <1>4, <1>10
  <2>8. Tells(wire'[c], all.values[q], Answers(1)')
    <3> DEFINE list == all.values[q]
    <3>1. /\ Goes(wire[c], wire'[c], Answers(1), Answers(1)', Reveals(q), Reveals(q)', list)
          /\ Tells(wire[c], list, Answers(1)) /\ wire[c] \in Seq(Residues)
          /\ Len(wire[c]) + Answers(1) = Reveals(q) /\ Len(wire'[c]) + Answers(1)' = Reveals(q)'
      BY <2>5, <2>6, <2>7
    <3> HIDE DEF list
    <3>2. Tells(wire'[c], list, Answers(1)')
      BY <2>10, <3>1, GoesRight
    <3>3. QED BY <3>2 DEF list
  <2>9. QED BY <2>8 DEF c
<1>13. ASSUME NEW q \in Helpers PROVE Tells(wire'[<<1, q>>], all.totals, Answers(q)')
  <2>1. WireGoes(p, <<1, q>>, all.totals, Answers(1))
    BY DEF all
  <2>2. Answers(q)' = Answers(q) \/ Answers(1)' = Answers(1)
    BY <1>5, <1>10
  <2>3. p = 1 => Answers(q)' = Answers(q)
    BY <1>5, <1>10
  <2>4. p = q => Answers(1)' = Answers(1)
    BY <1>5, <1>10
  <2> DEFINE c == <<1, q>>
  <2>5. c[1] = 1 /\ c[2] = q /\ wire[c] \in Seq(Residues)
    BY <1>2 DEF Wires
  <2>6. WireGoes(p, c, all.totals, Answers(1)) /\ Tells(wire[c], all.totals, Answers(q))
        /\ Len(wire[c]) + Answers(q) = Answers(1) /\ Len(wire'[c]) + Answers(q)' = Answers(1)'
    BY <1>6, <1>7, <1>8, <2>1
  <2> HIDE DEF c
  <2>7. Goes(wire[c], wire'[c], Answers(q), Answers(q)', Answers(1), Answers(1)', all.totals)
    BY <2>2, <2>3, <2>4, <2>5, <2>6 DEF WireGoes, Goes
  <2>10. /\ Answers(1) \in Nat /\ Answers(1)' \in Nat /\ Answers(q) \in Nat /\ Answers(q)' \in Nat
    BY <1>3, <1>4, <1>10
  <2>8. Tells(wire'[c], all.totals, Answers(q)')
    BY <2>5, <2>6, <2>7, <2>10, GoesRight
  <2>9. QED BY <2>8 DEF c
<1>14. (/\ Tells(wire[<<0, 1>>], all.deals, Had(1))
        /\ \A q \in Helpers : /\ Tells(wire[<<q, 1>>], all.values[q], Answers(1))
                              /\ Tells(wire[<<1, q>>], all.totals, Answers(q)))'
  BY <1>9, <1>11, <1>12, <1>13 DEF Tells
<1>15. QED BY <1>14 DEF WiresOK, Tells, all

-----------------------------------------------------------------------------
(***************************************************************************)
(* The kinds of step, and what they leave the party.                       *)
(***************************************************************************)

\* It returns from its call.
LEMMA ReturnsValues ==
  ASSUME IInv, NEW p \in Parties, ~ Finished(p), stage[p] = "run",
         Call(p).op \in Masking => ~ Bare(p), ValuesOK(p),
         NEW t, t = NewTensor(prog, tape, at[p], Now(p), p), Returns(p, t),
         p = 0 => Len(drawn'[p][p]) = End(prog, tape, at[p], Now(p)).own
  PROVE  ValuesOK(p)'
<1>1. Types /\ PlaceOK(p) /\ Here(p)
  BY HereAlways DEF IInv
<1>2. New(p) = Wanted(Call(p), Before(p).parted)
  BY <1>1, ReadyToEnd
<1>3. at \in [Parties -> 1 .. Len(prog) + 1] /\ result \in [Parties -> Seq(Sharetensors)]
      /\ at[p] \in Nat
  BY <1>1, PlaceType DEF Types, TypeOK
<1>4. /\ prog' = prog /\ tape' = tape /\ at'[p] = at[p] + 1 /\ stage'[p] = "run"
      /\ result'[p] = Append(result[p], t) /\ out'[p] = out[p]
  BY <1>3 DEF Returns
<1>5. result[p] = Now(p).results[p] /\ OutRight(p)
  BY DEF ValuesOK
<1>6. result'[p] = Append(Now(p).results[p], NewTensor(prog, tape, at[p], Now(p), p))
  BY <1>4, <1>5
<1>7. SameProgram
  BY <1>4 DEF SameProgram
<1>8. OutRight(p)'
  BY <1>3, <1>4, <1>5, <1>7, OutStays
<1>9. QED BY <1>1, <1>2, <1>4, <1>6, <1>7, <1>8, MovedValues

\* It enters reveal.
LEMMA EntersValues ==
  ASSUME IInv, NEW p \in Parties, NEW v, NEW mask, MayEnter(p, mask), ValuesOK(p),
         EnterReveal(p, v, mask), v = Shown(p)[p],
         Call(p).op \in Masking => mask = <<NextMasks(p)[p]>>,
         Call(p).op = "trunc" => mask = <<DealtIn(prog, tape, at[p], Now(p), p)[2]>>
  PROVE  ValuesOK(p)'
<1>1. Types /\ PlaceOK(p) /\ ~ Finished(p) /\ stage[p] = "run" /\ p # 0
      /\ Call(p).op \in {"reveal", "trunc"} \cup Masking /\ (Call(p).op \in Masking => Bare(p))
  BY DEF IInv, MayEnter
<1>2. /\ stage \in [Parties -> {"run", "reveal"}] /\ held \in [Parties -> Seq(Residues)]
      /\ value \in [Parties -> Residues]
  BY <1>1 DEF Types, TypeOK
<1>3. /\ prog' = prog /\ tape' = tape /\ at'[p] = at[p] /\ stage'[p] = "reveal" /\ held'[p] = mask
      /\ result'[p] = result[p] /\ value'[p] = v /\ out'[p] = out[p]
  BY <1>2 DEF EnterReveal
<1>4. Enters(p, mask) /\ SameProgram
  BY <1>3 DEF Enters, SameProgram
<1>5. Entered(p)
  BY <1>1, <1>4, EntersStep
<1>6. New(p)' = New(p) /\ Answers(p)' = Answers(p) /\ Reveals(p)' = Reveals(p) + 1
      /\ \A ops : Revealing(p, ops)' <=> Call(p).op \in ops
  BY <1>5 DEF Entered
<1>7. Now(p)' = Now(p) /\ Behind(p)' = Behind(p)
  BY <1>3, <1>4, <1>6, StayedNow
<1>8. Reveals(p)' = Answers(p) + 1
  <2>1. Reveals(p) = Answers(p) /\ Answers(p) \in Nat
    BY <1>1, CountTypes DEF Reveals
  <2>2. QED BY <1>6, <2>1
<1>9. ShownNext(p, Shown(p))
  <2>1. Call(p).op \notin Masking => New(p) = Wanted(Call(p), Before(p).parted)
    BY <1>1, ReadyToEnd
  <2>2. QED BY <1>1, <2>1, ShownRight
<1>10. value'[p] = All(prog, tape)'.values[p][Reveals(p)']
  <2>1. p \in Computing
    BY <1>1, ComputingParties
  <2>2. All(prog, tape).values[p][Answers(p) + 1] = Shown(p)[p]
    BY <1>9, <2>1 DEF ShownNext
  <2>3. All(prog, tape)' = All(prog, tape)
    BY <1>3
  <2>4. QED BY <1>3, <1>8, <2>2, <2>3
<1>11. Call(p)' = Call(p)
  BY <1>3 DEF Call
<1>12. HeldRight(p)'
  <2>1. (Revealing(p, Masking) =>
           held[p] = <<MasksAt(prog, tape, at[p], Len(MaskDraws(at[p], Call(p), New(p))) + 1)[p]>>)'
    BY <1>3, <1>6, <1>11 DEF NextMasks
  <2>2. (Revealing(p, {"trunc"}) => held[p] = <<DealtIn(prog, tape, at[p], Now(p), p)[2]>>)'
    BY <1>3, <1>6, <1>7
  <2>3. QED BY <2>1, <2>2 DEF HeldRight
<1>13. OutRight(p)'
  <2>1. at[p] \in Nat /\ OutRight(p)
    BY <1>1, PlaceType DEF ValuesOK
  <2>2. QED BY <1>3, <1>4, <2>1, OutStays
<1>14. (result[p] = Now(p).results[p])'
  <2>1. result[p] = Now(p).results[p]
    BY DEF ValuesOK
  <2>2. QED BY <1>3, <1>7, <2>1
<1>15. (stage[p] = "reveal" => value[p] = All(prog, tape).values[p][Reveals(p)] /\ HeldRight(p))'
  BY <1>10, <1>12
<1>16. QED BY <1>1, <1>13, <1>14, <1>15 DEF ValuesOK

\* It gets the partition of an operand.
LEMMA KeepsValues ==
  ASSUME IInv, NEW p \in Parties, ~ Finished(p), Call(p).op \in Masking, Bare(p), ValuesOK(p),
         NEW part \in Seq(Residues), NEW mask \in Seq(Residues), Len(part) = 1, Len(mask) = 1,
         Keeps(p, part, mask), tape' = tape, out'[p] = out[p], p = 0 => drawn'[p][p] = drawn[p][p],
         part = Partitioned(Now(p), Operand(p), NextMasks(p), p).x_r,
         mask = Partitioned(Now(p), Operand(p), NextMasks(p), p).r
  PROVE  ValuesOK(p)'
<1> DEFINE k == Operand(p)  t == Partitioned(Now(p), Operand(p), NextMasks(p), p)
<1>1. Types /\ PlaceOK(p) /\ Here(p) /\ NextPart(p)
  BY HereAlways, NextPartWhen DEF IInv
<1>2. Kept(p)
  BY <1>1, KeepsStep
<1>3. New(p)' = New(p) \cup {k} /\ prog' = prog /\ at'[p] = at[p] /\ stage'[p] = "run"
      /\ result'[p] = [result[p] EXCEPT ![k].x_r = part, ![k].r = mask]
  BY <1>2 DEF Kept, Keeps
<1>4. SameProgram
  BY <1>3 DEF SameProgram
<1>5. Behind(p)' = Behind(p) /\ (Finished(p)' <=> Finished(p))
  BY <1>3, <1>4 DEF Behind, Finished, SameProgram
<1>6. Now(p)' = Part(Now(p), k, NextMasks(p))
  <2>1. Now(p)' = Parts(prog, tape, at[p], Behind(p), New(p) \cup {k})
    BY <1>3, <1>4, <1>5 DEF Now, SameProgram
  <2>2. QED BY <1>1, <2>1 DEF NextPart
<1>7. result[p] = Now(p).results[p] /\ OutRight(p) /\ (p = 0 => Len(drawn[p][p]) = Behind(p).own)
  BY DEF ValuesOK
<1>8. result[p] \in Seq(Sharetensors) /\ k \in 1 .. Len(result[p])
  <2>1. Len(result[p]) = at[p] - 1 /\ result[p] \in Seq(Sharetensors)
    BY <1>1, PlaceFacts
  <2>2. QED BY <1>1, <2>1 DEF NextPart
<1>9. result'[p] = Now(p)'.results[p]
  <2>1. Now(p)'.results[p] = [Now(p).results[p] EXCEPT ![k] = t]
    <3>1. \A u, i, m : Part(u, i, m).results[p] = [u.results[p] EXCEPT ![i] = Partitioned(u, i, m, p)]
      BY DEF Part
    <3>2. Part(Now(p), k, NextMasks(p)).results[p] = [Now(p).results[p] EXCEPT ![k] = t]
      BY <3>1
    <3>3. QED BY <1>6, <3>2
  <2>2. t = [share |-> result[p][k].share, x_r |-> part, r |-> mask]
    BY <1>7 DEF Partitioned
  <2> DEFINE x == result[p][k]
  <2>3. x \in Sharetensors
    BY <1>8
  <2>4. [x EXCEPT !.x_r = part, !.r = mask] = t
    <3>1. t = [share |-> x.share, x_r |-> part, r |-> mask]
      BY <2>2
    <3> HIDE DEF x, t
    <3>2. [x EXCEPT !.x_r = part, !.r = mask] = [share |-> x.share, x_r |-> part, r |-> mask]
      BY <2>3, NewPartition
    <3>3. QED BY <3>1, <3>2
  <2> HIDE DEF t, x, k
  <2> DEFINE a == [result[p] EXCEPT ![k].x_r = part]
  <2>5. a[k] = [x EXCEPT !.x_r = part] /\ a = [result[p] EXCEPT ![k] = [x EXCEPT !.x_r = part]]
    BY <1>8 DEF x
  <2>6. result'[p] = [a EXCEPT ![k].r = mask]
    BY <1>3
  <2>7. [a EXCEPT ![k].r = mask] = [a EXCEPT ![k] = [a[k] EXCEPT !.r = mask]]
    OBVIOUS
  <2>8. [a[k] EXCEPT !.r = mask] = t
    <3>1. [[x EXCEPT !.x_r = part] EXCEPT !.r = mask] = [x EXCEPT !.x_r = part, !.r = mask]
      OBVIOUS
    <3>2. QED BY <2>4, <2>5, <3>1
  <2>9. [a EXCEPT ![k] = t] = [result[p] EXCEPT ![k] = t]
    <3> DEFINE b == [x EXCEPT !.x_r = part]
    <3>1. a = [result[p] EXCEPT ![k] = b]
      BY <2>5
    <3> HIDE DEF b, a
    <3>2. QED BY <1>8, <3>1
  <2>10. QED BY <1>7, <2>1, <2>6, <2>7, <2>8, <2>9
<1>10. (p = 0 => Len(drawn[p][p]) = Behind(p).own)'
  BY <1>5, <1>7
<1>11. OutRight(p)'
  <2>1. at[p] \in Nat
    BY <1>1, PlaceType
  <2>2. QED BY <1>3, <1>4, <1>7, <2>1, OutStays
<1>12. (stage[p] # "reveal")'
  BY <1>3
<1>13. QED BY <1>9, <1>10, <1>11, <1>12 DEF ValuesOK

\* The result of the call is among all.
LEMMA ResultAll ==
  ASSUME NEW p \in Parties, Here(p), New(p) = Wanted(Call(p), Before(p).parted)
  PROVE  All(prog, tape).results[p][at[p]].share = NewTensor(prog, tape, at[p], Now(p), p).share
<1> DEFINE z == Ideal(prog, tape)[at[p]]  x == NewTensor(prog, tape, at[p], Now(p), p)
           u == Now(p).results[p]
<1>1. AtTheEnd(p) /\ NowGrows(p)
  BY AtTheEndWhen, NowGrowsAlways
<1>2. z = End(prog, tape, at[p], Now(p)) /\ Grows(z, All(prog, tape))
  BY <1>1 DEF NowGrows, AtTheEnd
<1>3. z.results[p] = Append(u, x)
  <2>1. \A w : End(prog, tape, at[p], w).results[p] = Append(w.results[p], NewTensor(prog, tape, at[p], w, p))
    BY DEF End
  <2>2. End(prog, tape, at[p], Now(p)).results[p] = Append(u, x)
    BY <2>1
  <2> HIDE DEF z
  <2>3. QED BY <1>2, <2>2
<1>4. u \in Seq(Sharetensors) /\ Len(u) = at[p] - 1 /\ at[p] \in Nat
  BY DEF Here, WorldOK
<1>5. x \in Sharetensors
  BY <1>1, NewTensorType DEF AtTheEnd
<1>6. \A i \in 1 .. Len(z.results[p]) : All(prog, tape).results[p][i].share = z.results[p][i].share
  BY <1>2, GrownLists
<1> HIDE DEF x, u, z
<1>7. Len(Append(u, x)) = Len(u) + 1 /\ Append(u, x)[Len(u) + 1] = x
  BY <1>4, <1>5, AddedType
<1>8. at[p] \in 1 .. Len(z.results[p]) /\ z.results[p][at[p]] = x
  BY <1>3, <1>4, <1>7
<1>9. QED BY <1>6, <1>8 DEF x

\* What reveal returned is what all have.
LEMMA OutMore ==
  ASSUME NEW p \in Parties, OutRight(p), out[p] \in Seq([call : Nat, value : Residues]),
         NEW v \in Residues, out'[p] = Append(out[p], [call |-> at[p], value |-> v]),
         prog[at[p]].op = "reveal", p # 0, at[p] \in Nat \ {0}, at'[p] = at[p] + 1, SameProgram,
         v = All(prog, tape).results[p][at[p]].share
  PROVE  OutRight(p)'
<1> DEFINE all == All(prog, tape)  e == [call |-> at[p], value |-> v]  o == out[p]
<1>1. \A i \in 1 .. Len(o) :
        /\ o[i].call \in 1 .. at[p] - 1 /\ prog[o[i].call].op = "reveal"
        /\ o[i].value = all.results[p][o[i].call].share
  BY DEF OutRight
<1>2. all' = all
  BY DEF SameProgram
<1>3. e \in [call : Nat, value : Residues] /\ e.call = at[p] /\ e.value = v
  OBVIOUS
<1>4. v = all.results[p][at[p]].share
  OBVIOUS
<1>5. \A k \in 1 .. at[p] - 1 : k \in 1 .. at'[p] - 1
  OBVIOUS
<1>6. at[p] \in 1 .. at'[p] - 1
  OBVIOUS
<1> HIDE DEF all, e, o
<1>7. /\ Len(Append(o, e)) = Len(o) + 1 /\ Append(o, e)[Len(o) + 1] = e /\ Len(o) \in Nat
      /\ \A i \in 1 .. Len(o) : Append(o, e)[i] = o[i]
  BY <1>3 DEF o
<1>8. out'[p] = Append(o, e)
  BY DEF o, e
<1>9. ASSUME NEW i \in 1 .. Len(out'[p])
      PROVE  /\ out'[p][i].call \in 1 .. at'[p] - 1 /\ prog'[out'[p][i].call].op = "reveal"
             /\ out'[p][i].value = all.results[p][out'[p][i].call].share
  <2>1. CASE i \in 1 .. Len(o)
    <3>1. out'[p][i] = o[i]
      BY <1>7, <1>8, <2>1
    <3>2. QED BY <1>1, <1>5, <2>1, <3>1 DEF SameProgram
  <2>2. CASE i \notin 1 .. Len(o)
    <3>1. i = Len(o) + 1
      BY <1>7, <1>8, <2>2
    <3>2. out'[p][i] = e
      BY <1>7, <1>8, <3>1
    <3>3. QED BY <1>3, <1>4, <1>6, <3>2 DEF SameProgram
  <2>3. QED BY <2>1, <2>2
<1>10. QED BY <1>2, <1>9 DEF OutRight, all

\* It comes out of reveal.
LEMMA LeavesValues ==
  ASSUME IInv, NEW p \in Parties, stage[p] = "reveal", ValuesOK(p),
         NEW v, v = SumMod(Shown(p)), LeaveReveal(p, v)
  PROVE  ValuesOK(p)'
<1> DEFINE op == Call(p).op  w == Now(p)
<1>1. Types /\ PlaceOK(p)
  BY DEF IInv
<1>2. /\ p # 0 /\ ~ Finished(p) /\ op \in {"reveal", "trunc"} \cup Masking
      /\ (op \in Masking => Bare(p)) /\ (op # "reveal" => Len(held[p]) = 1)
  BY <1>1 DEF PlaceOK
<1>3. Here(p) /\ p \in Computing
  BY <1>2, HereAlways, ComputingParties
<1>4. op \notin Masking => New(p) = Wanted(Call(p), Before(p).parted)
  BY <1>1, <1>2, ReadyToEnd
<1>5. ShownNext(p, Shown(p))
  BY <1>2, <1>4, ShownRight
<1>6. v \in Residues
  BY <1>5 DEF ShownNext
<1>7. /\ result[p] = w.results[p] /\ OutRight(p) /\ HeldRight(p)
  BY DEF ValuesOK
<1>8. /\ at \in [Parties -> 1 .. Len(prog) + 1] /\ result \in [Parties -> Seq(Sharetensors)]
      /\ at[p] \in Nat \ {0} /\ held[p] \in Seq(Residues) /\ stage \in [Parties -> {"run", "reveal"}]
      /\ out[p] \in Seq([call : Nat, value : Residues])
      /\ out \in [Parties -> Seq([call : Nat, value : Residues])]
  <2>1. at[p] \in 1 .. Len(prog) + 1 /\ at[p] \in Nat
    BY <1>1, PlaceType
  <2>2. at[p] \in Nat \ {0}
    BY <2>1
  <2>3. QED BY <1>1, <2>2 DEF Types, TypeOK
<1>9. prog' = prog /\ tape' = tape /\ stage'[p] = "run" /\ SameProgram
  BY <1>8 DEF LeaveReveal, SameProgram
<1>10. CASE op = "reveal"
  <2>1. /\ at'[p] = at[p] + 1 /\ result'[p] = Append(result[p], Sharetensor(v))
        /\ out'[p] = Append(out[p], [call |-> at[p], value |-> v])
    BY <1>8, <1>10 DEF LeaveReveal
  <2>2. NewTensor(prog, tape, at[p], w, p) = Sharetensor(v)
    <3>1. prog[at[p]].op = "reveal" /\ Call(p) = prog[at[p]]
      BY <1>10 DEF Call
    <3>2. v = SumMod(EndValues(prog, tape, at[p], w))
      BY <1>10 DEF Shown, Masking
    <3>3. NewShare(prog, tape, at[p], w, p) = v
      BY <1>2, <3>1, <3>2 DEF NewShare
    <3>4. QED BY <3>1, <3>3 DEF NewTensor
  <2>3. New(p) = Wanted(Call(p), Before(p).parted)
    BY <1>4, <1>10 DEF Masking
  <2>4. OutRight(p)'
    <3>1. v = All(prog, tape).results[p][at[p]].share
      BY <1>3, <2>2, <2>3, ResultAll DEF Sharetensor
    <3>2. prog[at[p]].op = "reveal"
      BY <1>10 DEF Call
    <3>3. QED BY <1>2, <1>6, <1>7, <1>8, <1>9, <2>1, <3>1, <3>2, OutMore
  <2>5. result'[p] = Append(w.results[p], NewTensor(prog, tape, at[p], w, p))
    BY <1>7, <2>1, <2>2
  <2>6. QED BY <1>2, <1>3, <1>9, <2>1, <2>3, <2>4, <2>5, MovedValues
<1>11. CASE op = "trunc"
  <2>1. /\ at'[p] = at[p] + 1 /\ result'[p] = Append(result[p], Sharetensor(Truncated(p, v)))
        /\ out'[p] = out[p]
    BY <1>8, <1>11 DEF LeaveReveal
  <2>2. NewTensor(prog, tape, at[p], w, p) = Sharetensor(Truncated(p, v))
    <3>1. prog[at[p]].op = "trunc" /\ Call(p) = prog[at[p]]
      BY <1>11 DEF Call
    <3>2. v = SumMod(EndValues(prog, tape, at[p], w))
      BY <1>11 DEF Shown, Masking
    <3>3. held[p] = <<DealtIn(prog, tape, at[p], w, p)[2]>>
      BY <1>7, <1>11 DEF HeldRight, Revealing
    <3>4. held[p][1] = DealtIn(prog, tape, at[p], w, p)[2]
      BY <3>3
    <3>5. X(p) = w.results[p][prog[at[p]].x]
      BY <1>7, <3>1 DEF X
    <3> HIDE DEF w
    <3>6. Truncated(p, v) = Cut(prog, tape, at[p], w, p)
      BY <3>2, <3>4, <3>5 DEF Truncated, Cut
    <3>7. NewShare(prog, tape, at[p], w, p) = Cut(prog, tape, at[p], w, p)
      BY <1>2, <3>1 DEF NewShare
    <3>8. QED BY <3>1, <3>6, <3>7 DEF NewTensor
  <2>3. New(p) = Wanted(Call(p), Before(p).parted)
    BY <1>4, <1>11 DEF Masking
  <2>4. OutRight(p)'
    BY <1>7, <1>8, <1>9, <2>1, OutStays
  <2>5. result'[p] = Append(w.results[p], NewTensor(prog, tape, at[p], w, p))
    BY <1>7, <2>1, <2>2
  <2>6. QED BY <1>2, <1>3, <1>9, <2>1, <2>3, <2>4, <2>5, MovedValues
<1>12. CASE op \in Masking
  <2> DEFINE k == Operand(p)
  <2>1. /\ at'[p] = at[p] /\ out'[p] = out[p]
        /\ result'[p] = [result[p] EXCEPT ![k].x_r = <<v>>, ![k].r = held[p]]
    BY <1>8, <1>12 DEF LeaveReveal, Masking
  <2>2. NextPart(p) /\ Bare(p)
    BY <1>2, <1>12, NextPartWhen
  <2>3. held[p] = <<NextMasks(p)[p]>>
    BY <1>7, <1>12 DEF HeldRight, Revealing, NextMasks
  <2>4. v = SumMod(Blind(w, k, NextMasks(p)))
    BY <1>12 DEF Shown
  <2>5. <<v>> \in Seq(Residues) /\ Len(<<v>>) = 1
    BY <1>6, OneResidue
  <2>6. <<v>> = Partitioned(w, k, NextMasks(p), p).x_r /\ held[p] = Partitioned(w, k, NextMasks(p), p).r
    BY <1>2, <2>3, <2>4 DEF Partitioned
  <2>7. Len(held[p]) = 1
    BY <1>2, <1>12 DEF Masking
  <2> DEFINE part == <<v>>
  <2>8. Keeps(p, part, held[p])
    BY <1>9, <2>1 DEF Keeps
  <2>9. part \in Seq(Residues) /\ Len(part) = 1 /\ part = Partitioned(w, k, NextMasks(p), p).x_r
    BY <2>5, <2>6
  <2> HIDE DEF part
  <2>10. QED BY <1>2, <1>8, <1>9, <1>12, <2>1, <2>2, <2>6, <2>7, <2>8, <2>9, KeepsValues
<1>13. QED BY <1>2, <1>10, <1>11, <1>12

-----------------------------------------------------------------------------
(***************************************************************************)
(* The messages of a step are those of the ideal execution.                *)
(***************************************************************************)

\* The step is right at its party and on the links.
LEMMA OneRight ==
  ASSUME IInv, IInv', VInv, NEW p \in Parties, Alone(p), ValuesOK(p)',
         WireGoes(p, <<0, 1>>, All(prog, tape).deals, Had(0)),
         \A q \in Helpers : /\ WireGoes(p, <<q, 1>>, All(prog, tape).values[q], Reveals(q))
                            /\ WireGoes(p, <<1, q>>, All(prog, tape).totals, Answers(1))
  PROVE  VInv'
<1>1. Still(p) /\ \A q \in Parties \ {p} : ValuesOK(q)'
  BY OthersKeep DEF VInv
<1>2. SameProgram
  BY DEF Alone, Elsewhere, SameProgram
<1>3. WiresOK'
  BY <1>1, <1>2, WiresGo DEF VInv
<1>4. \A q \in Parties : ValuesOK(q)'
  BY <1>1
<1>5. QED BY <1>3, <1>4 DEF VInv

\* No message.
LEMMA QuietRight ==
  ASSUME IInv, IInv', VInv, NEW p \in Parties, Alone(p), ValuesOK(p)', wire' = wire
  PROVE  VInv'
<1>1. \A c, all, s : WireGoes(p, c, all, s)
  BY DEF WireGoes
<1>2. QED BY <1>1, OneRight

LEMMA BesideGoes ==
  ASSUME NEW c, Beside(c), NEW d \in Links, d # c, NEW p, NEW all, NEW s
  PROVE  WireGoes(p, d, all, s)
  BY DEF Beside, WireGoes

\* A list is sent, the next of all that goes there.
LEMMA SentGoes ==
  ASSUME Types, NEW p \in Parties, NEW q \in Parties, p # q, NEW v \in Seq(Residues), SendTo(p, q, v),
         NEW all, NEW s, \A j \in 1 .. Len(v) : v[j] = all[s + j]
  PROVE  WireGoes(p, <<p, q>>, all, s)
<1> DEFINE c == <<p, q>>
<1>1. c \in Links /\ wire \in [Links -> Seq(Residues)]
  BY LinkType
<1>2. wire'[c] = wire[c] \o v /\ c[1] = p
  BY <1>1 DEF SendTo
<1> HIDE DEF c
<1>3. WireGoes(p, c, all, s)
  BY <1>2 DEF WireGoes
<1>4. QED BY <1>3 DEF c

LEMMA TakenGoes ==
  ASSUME Types, NEW p \in Parties, NEW q \in Parties, p # q, NEW n \in Nat,
         Arrived(p, q, n), TakenFrom(p, q, n), NEW all, NEW s
  PROVE  WireGoes(q, <<p, q>>, all, s)
<1> DEFINE c == <<p, q>>
<1>1. c \in Links /\ wire \in [Links -> Seq(Residues)] /\ Len(wire[c]) \in Nat
  BY LinkType
<1>2. wire'[c] = SubSeq(wire[c], n + 1, Len(wire[c])) /\ c[2] = q
  BY <1>1 DEF TakenFrom
<1>3. n \in 0 .. Len(wire[c])
  BY <1>1 DEF Arrived
<1> HIDE DEF c
<1>4. WireGoes(q, c, all, s)
  BY <1>2, <1>3 DEF WireGoes
<1>5. QED BY <1>4 DEF c

\* Only one link is used, and that rightly.
LEMMA OneLink ==
  ASSUME IInv, IInv', VInv, NEW p \in Parties, Alone(p), ValuesOK(p)', NEW c, Beside(c),
         c = <<0, 1>> => WireGoes(p, c, All(prog, tape).deals, Had(0)),
         \A q \in Helpers :
           /\ c = <<q, 1>> => WireGoes(p, c, All(prog, tape).values[q], Reveals(q))
           /\ c = <<1, q>> => WireGoes(p, c, All(prog, tape).totals, Answers(1))
  PROVE  VInv'
<1>1. Wires(wire)
  BY WiresType DEF IInv
<1>2. WireGoes(p, <<0, 1>>, All(prog, tape).deals, Had(0))
  BY <1>1, BesideGoes DEF Wires
<1>3. \A q \in Helpers : /\ WireGoes(p, <<q, 1>>, All(prog, tape).values[q], Reveals(q))
                         /\ WireGoes(p, <<1, q>>, All(prog, tape).totals, Answers(1))
  <2> TAKE q \in Helpers
  <2> DEFINE d == <<q, 1>>  e == <<1, q>>  a == All(prog, tape).values[q]  b == All(prog, tape).totals
  <2>1. d \in Links /\ e \in Links
    BY <1>1 DEF Wires
  <2>2. (c = d => WireGoes(p, c, a, Reveals(q))) /\ (c = e => WireGoes(p, c, b, Answers(1)))
    OBVIOUS
  <2> HIDE DEF d, e, a, b
  <2>3. WireGoes(p, d, a, Reveals(q))
    BY <2>1, <2>2, BesideGoes
  <2>4. WireGoes(p, e, b, Answers(1))
    BY <2>1, <2>2, BesideGoes
  <2>5. QED BY <2>3, <2>4 DEF d, e, a, b
<1>4. QED BY <1>2, <1>3, OneRight

\* The dealer sends the hub what it deals.
LEMMA DealerRight ==
  ASSUME IInv, IInv', VInv, Alone(0), ValuesOK(0)', ~ Finished(0), stage[0] = "run",
         New(0) = Wanted(Call(0), Before(0).parted),
         NEW v, v = Deals(prog, tape, at[0], Now(0)), SendTo(0, 1, v)
  PROVE  VInv'
<1>1. 0 \in Parties /\ 1 \in Parties /\ 0 # 1 /\ Types
      /\ \A q \in Helpers : q \in Parties /\ q # 0 /\ q # 1
  BY HelperFacts DEF IInv
<1>2. DealsNext(0)
  BY <1>1, HereAlways, DealsRight
<1>3. v \in Seq(Residues) /\ Len(v) = Dealt(Call(0))
      /\ \A j \in 1 .. Len(v) : v[j] = All(prog, tape).deals[Before(0).dealt + j]
  BY <1>2 DEF DealsNext
<1>4. Had(0) = Before(0).dealt
  BY <1>1, BeforeType DEF Had, Revealing
<1> DEFINE c == <<0, 1>>
<1>5. WireGoes(0, c, All(prog, tape).deals, Had(0))
  <2> DEFINE all == All(prog, tape).deals
  <2>1. \A j \in 1 .. Len(v) : v[j] = all[Had(0) + j]
    BY <1>3, <1>4
  <2> HIDE DEF all
  <2>2. WireGoes(0, c, all, Had(0))
    BY <1>1, <1>3, <2>1, SentGoes
  <2>3. QED BY <2>2 DEF all
<1>6. Beside(c)
  BY <1>1, <1>3, SendStep
<1>7. \A q \in Helpers : c # <<q, 1>> /\ c # <<1, q>>
  BY <1>1
<1> HIDE DEF c
<1>8. QED BY <1>1, <1>5, <1>6, <1>7, OneLink

\* The hub takes what the dealer has sent.
LEMMA HubRight ==
  ASSUME IInv, IInv', VInv, Alone(1), ValuesOK(1)', NEW n \in Nat, Arrived(0, 1, n), TakenFrom(0, 1, n)
  PROVE  VInv'
<1>1. 0 \in Parties /\ 1 \in Parties /\ 0 # 1 /\ Types
      /\ \A q \in Helpers : q \in Parties /\ q # 0 /\ q # 1
  BY HelperFacts DEF IInv
<1> DEFINE c == <<0, 1>>
<1>2. WireGoes(1, c, All(prog, tape).deals, Had(0))
  BY <1>1, TakenGoes
<1>3. Beside(c)
  BY <1>1, TakeStep
<1>4. \A q \in Helpers : c # <<q, 1>> /\ c # <<1, q>>
  BY <1>1
<1> HIDE DEF c
<1>5. QED BY <1>1, <1>2, <1>3, <1>4, OneLink

\* What a helper that is not in reveal sends is its next value.
LEMMA HelperRight ==
  ASSUME IInv, IInv', VInv, NEW p \in Helpers, Alone(p), ValuesOK(p)', stage[p] = "run",
         NEW v \in Residues, v = Shown(p)[p], ShownNext(p, Shown(p)), SendTo(p, 1, <<v>>)
  PROVE  VInv'
<1>1. p \in Parties /\ 1 \in Parties /\ p # 0 /\ p # 1 /\ Types
  BY HelperFacts DEF IInv
<1>2. p \in Computing
  BY <1>1, ComputingParties
<1>3. v = All(prog, tape).values[p][Answers(p) + 1]
  BY <1>2 DEF ShownNext
<1>4. Reveals(p) = Answers(p) /\ Answers(p) \in Nat
  BY <1>1, CountTypes DEF Reveals
<1> DEFINE c == <<p, 1>>  a == <<v>>
<1>5. a \in Seq(Residues) /\ Len(a) = 1 /\ a[1] = v
  BY OneResidue
<1>6. WireGoes(p, c, All(prog, tape).values[p], Reveals(p))
  <2> DEFINE all == All(prog, tape).values[p]
  <2>1. \A j \in 1 .. Len(a) : a[j] = all[Reveals(p) + j]
    BY <1>3, <1>4, <1>5
  <2> HIDE DEF all, a
  <2>2. SendTo(p, 1, a)
    BY DEF a
  <2>3. WireGoes(p, c, all, Reveals(p))
    BY <1>1, <1>5, <2>1, <2>2, SentGoes
  <2>4. QED BY <2>3 DEF all
<1>7. Beside(c)
  BY <1>1, <1>5, SendStep
<1>8. \A q \in Helpers : (c = <<q, 1>> => q = p) /\ c # <<1, q>> /\ c # <<0, 1>>
  BY <1>1
<1> HIDE DEF c, a
<1>9. QED BY <1>1, <1>6, <1>7, <1>8, OneLink

\* A helper takes a sum.
LEMMA AnswerRight ==
  ASSUME IInv, IInv', VInv, NEW p \in Helpers, Alone(p), ValuesOK(p)', Arrived(1, p, 1), TakenFrom(1, p, 1)
  PROVE  VInv'
<1>1. p \in Parties /\ 1 \in Parties /\ p # 0 /\ p # 1 /\ 1 # p /\ Types
  BY HelperFacts DEF IInv
<1> DEFINE c == <<1, p>>
<1>2. WireGoes(p, c, All(prog, tape).totals, Answers(1))
  BY <1>1, TakenGoes
<1>3. Beside(c)
  BY <1>1, TakeStep
<1>4. \A q \in Helpers : c # <<q, 1>> /\ c # <<0, 1>>
  BY <1>1, HelperFacts
<1> HIDE DEF c
<1>5. QED BY <1>1, <1>2, <1>3, <1>4, OneLink

-----------------------------------------------------------------------------
(***************************************************************************)
(* What a party draws and takes at the end of its call.                    *)
(***************************************************************************)
AtReturn(p) ==
  /\ Types /\ PlaceOK(p) /\ RngOK(p, rng[p], drawn[p]) /\ Here(p)
  /\ ~ Finished(p) /\ stage[p] = "run" /\ New(p) = Wanted(Call(p), Before(p).parted)
  /\ Call(p) = prog[at[p]] /\ CallFacts(Call(p), at[p]) /\ <<at[p], 0>> \in Marks
  /\ prog \in Programs /\ tape \in Tapes /\ at[p] \in 1 .. Len(prog) /\ at[p] \in Nat
  /\ result[p] = Now(p).results[p]
  /\ p = 0 => Len(drawn[p][p]) = Now(p).own

LEMMA AtReturnWhen ==
  ASSUME IInv, NEW p \in Parties, ~ Finished(p), stage[p] = "run", ValuesOK(p),
         Call(p).op \in Masking => ~ Bare(p)
  PROVE  AtReturn(p)
<1>1. Types /\ PlaceOK(p) /\ RngOK(p, rng[p], drawn[p]) /\ Here(p)
  BY HereAlways DEF IInv
<1>2. New(p) = Wanted(Call(p), Before(p).parted)
  BY <1>1, ReadyToEnd
<1>3. Call(p) = prog[at[p]] /\ CallFacts(Call(p), at[p]) /\ prog \in Programs /\ tape \in Tapes
      /\ at[p] \in 1 .. Len(prog) /\ at[p] \in Nat
  BY <1>1 DEF Here
<1>4. <<at[p], 0>> \in Marks
  BY <1>3 DEF Marks
<1>5. result[p] = Now(p).results[p] /\ (p = 0 => Len(drawn[p][p]) = Behind(p).own)
  BY DEF ValuesOK
<1>6. Now(p).own = Behind(p).own
  BY <1>1, NowOwn
<1>7. QED BY <1>1, <1>2, <1>3, <1>4, <1>5, <1>6 DEF AtReturn

\* One number of each of the streams of asks.
LEMMA DrawnLast ==
  ASSUME IInv, NEW p \in Parties, AtReturn(p), NEW asks \in Seq(Asks), Distinct(asks),
         NEW i \in 1 .. Len(asks), asks[i].from # p, NEW j \in 1 .. asks[i].n
  PROVE  Drawn(p, asks)[i][j] = LastAt(prog, tape, at[p], seed_of(p, asks[i].from), j)
<1> DEFINE s == asks[i].from
<1>1. s \in Parties \ {p}
  <2>1. asks[i] \in Asks
    OBVIOUS
  <2>2. QED BY <2>1 DEF Asks
<1>2. Types /\ RngOK(p, rng[p], drawn[p]) /\ ~ Finished(p) /\ stage[p] = "run"
      /\ New(p) = Wanted(Call(p), Before(p).parted)
  BY DEF AtReturn
<1>3. Drawn(p, asks)[i][j] = At(tape, seed_of(p, s), Len(drawn[p][s]) + j)
  BY <1>2, DrawnAt
<1> HIDE DEF s
<1>4. At(tape, seed_of(p, s), Len(drawn[p][s]) + j) = LastAt(prog, tape, at[p], seed_of(p, s), j)
  BY <1>1, <1>2, LastDrawn
<1>5. QED BY <1>3, <1>4 DEF s

LEMMA FullSame ==
  ASSUME NEW n \in Nat, NEW u, NEW v, Full(u, n), Full(v, n),
         \A i \in 1 .. N - 2 : \A j \in 1 .. n : u[i][j] = v[i][j]
  PROVE  u = v
<1>1. u \in Seq(Seq(Bits)) /\ v \in Seq(Seq(Bits)) /\ Len(u) = N - 2 /\ Len(v) = N - 2
      /\ \A i \in 1 .. N - 2 : Len(u[i]) = n /\ Len(v[i]) = n
  BY DEF Full
<1>2. ASSUME NEW i \in 1 .. N - 2 PROVE u[i] = v[i]
  <2>1. u[i] \in Seq(Bits) /\ v[i] \in Seq(Bits) /\ Len(u[i]) = n /\ Len(v[i]) = n
    BY <1>1
  <2> DEFINE a == u[i]  b == v[i]
  <2>2. \A j \in 1 .. n : a[j] = b[j]
    OBVIOUS
  <2>3. a \in Seq(Bits) /\ b \in Seq(Bits) /\ Len(a) = n /\ Len(b) = n
    BY <2>1
  <2> HIDE DEF a, b
  <2>4. a = b
    BY <2>2, <2>3
  <2>5. QED BY <2>4 DEF a, b
<1>3. QED BY <1>1, <1>2

\* The dealer's draws from the helpers' streams.
LEMMA DealersDraws ==
  ASSUME IInv, AtReturn(0), NEW n, n = Dealt(Call(0))
  PROVE  Drawn(0, Ask(NotHub, n)) = HelpersDraws(prog, tape, at[0])
<1>1. 0 \in Parties /\ Types /\ RngOK(0, rng[0], drawn[0]) /\ prog \in Programs /\ tape \in Tapes
      /\ at[0] \in 1 .. Len(prog) /\ Call(0) = prog[at[0]]
  BY PartyFacts DEF AtReturn
<1> DEFINE u == Drawn(0, Ask(NotHub, n))  v == HelpersDraws(prog, tape, at[0])  asks == Ask(NotHub, n)
<1>2. Full(v, n) /\ n \in Nat
      /\ \A i \in 1 .. N - 2 : \A j \in 1 .. n : v[i][j] = LastAt(prog, tape, at[0], <<0, i + 1>>, j)
  BY <1>1, HelpersFull
<1>3. Full(u, n)
  BY <1>1, <1>2, NotHubDraws
<1>4. AsksFor(asks, 2 .. N - 1, n) /\ Len(asks) = N - 2
  BY <1>2, AskNotHub
<1>5. asks \in Seq(Asks) /\ Distinct(asks) /\ \A j \in 1 .. Len(asks) : asks[j].n = n
  BY <1>4 DEF AsksFor
<1>6. \A i \in 1 .. N - 2 : asks[i].from = i + 1
  BY <1>2 DEF Ask, NotHub
<1>7. ASSUME NEW i \in 1 .. N - 2, NEW j \in 1 .. n PROVE u[i][j] = v[i][j]
  <2>1. i + 1 # 0 /\ i + 1 \in Computing
    BY PartyFacts DEF Computing
  <2>2. seed_of(0, i + 1) = <<0, i + 1>>
    BY <2>1, DealersSeeds
  <2>3. i \in 1 .. Len(asks) /\ asks[i].from = i + 1 /\ asks[i].from # 0 /\ asks[i].n = n
    BY <1>4, <1>5, <1>6, <2>1
  <2> HIDE DEF asks
  <2>4. j \in 1 .. asks[i].n
    BY <2>3
  <2>5. Drawn(0, asks)[i][j] = LastAt(prog, tape, at[0], seed_of(0, asks[i].from), j)
    BY <1>1, <1>5, <2>3, <2>4, DrawnLast
  <2>6. QED BY <1>2, <2>2, <2>3, <2>5 DEF asks
<1> HIDE DEF u, v
<1>8. u = v
  BY <1>2, <1>3, <1>7, FullSame
<1>9. QED BY <1>8 DEF u, v

\* What a computing party takes of the dealer.
LEMMA DealtRight ==
  ASSUME IInv, VInv, NEW p \in Computing, AtReturn(p), NEW n, n = Dealt(Call(p)),
         p = 1 => Arrived(0, 1, n)
  PROVE  DealtTo(p, n) = DealtIn(prog, tape, at[p], Now(p), p)
<1>1. p \in Parties /\ 0 \in Parties /\ 1 \in Parties /\ 0 # 1 /\ p # 0 /\ Types
      /\ RngOK(p, rng[p], drawn[p]) /\ (p = 1 \/ p \in Helpers)
  BY ComputingParties, HelperFacts DEF AtReturn
<1>2. AtEnd(prog, tape, at[p], Now(p), Before(p).parted \cup Wanted(Call(p), Before(p).parted),
            Answers(p), Before(p).dealt)
      /\ Call(p) = prog[at[p]] /\ n \in Nat
  BY AtTheEndWhen, DealtType DEF AtReturn, AtTheEnd
<1> DEFINE u == DealtTo(p, n)  v == DealtIn(prog, tape, at[p], Now(p), p)
<1>3. v \in Seq(Residues) /\ Len(v) = n
  BY <1>2, DealtInType
<1>4. u \in Seq(Residues) /\ Len(u) = n
  BY <1>1, <1>2, DealtToType
<1>5. ASSUME NEW j \in 1 .. n PROVE u[j] = v[j]
  <2>1. CASE p = 1
    <3> DEFINE w == wire[<<0, 1>>]
    <3>1. w \in Seq(Residues) /\ Len(w) >= n
      BY <1>1, <2>1, LinkType DEF Arrived
    <3>2. u = SubSeq(w, 1, n)
      BY <2>1 DEF DealtTo, First
    <3>3. \A i \in 1 .. Len(w) : w[i] = All(prog, tape).deals[Had(1) + i]
      BY DEF VInv, WiresOK
    <3>4. Had(1) = Before(1).dealt
      BY <1>1, <2>1, BeforeType DEF Had, Revealing, AtReturn
    <3>5. DealsNext(p) /\ v = Deals(prog, tape, at[p], Now(p))
      BY <2>1, DealsRight DEF AtReturn, DealtIn
    <3>6. All(prog, tape).deals[Before(p).dealt + j] = v[j]
      BY <3>5 DEF DealsNext
    <3> HIDE DEF w, u, v
    <3>7. u[j] = w[j] /\ j \in 1 .. Len(w)
      BY <1>2, <3>1, <3>2
    <3>8. QED BY <2>1, <3>3, <3>4, <3>6, <3>7
  <2>2. CASE p # 1
    <3>1. p \in Helpers
      BY <1>1, <2>2
    <3> DEFINE asks == Ask(<<0>>, n)
    <3>2. asks \in Seq(Asks) /\ Distinct(asks) /\ 1 \in 1 .. Len(asks) /\ asks[1].from = 0 /\ asks[1].n = n
      BY <1>1, <1>2, AskedOne
    <3>3. u = Drawn(p, asks)[1]
      BY <2>2 DEF DealtTo
    <3>4. seed_of(p, 0) = <<0, p>>
      BY DealersSeeds
    <3>5. p - 1 \in 1 .. N - 2 /\ (p - 1) + 1 = p
      BY <2>2, PartyFacts DEF Computing
    <3>6. v = HelpersDraws(prog, tape, at[p])[p - 1]
      BY <2>2 DEF DealtIn
    <3>7. v[j] = LastAt(prog, tape, at[p], <<0, p>>, j)
      <4>1. \A i \in 1 .. N - 2 : \A k \in 1 .. n :
              HelpersDraws(prog, tape, at[p])[i][k] = LastAt(prog, tape, at[p], <<0, i + 1>>, k)
        BY <1>2, HelpersFull DEF AtReturn
      <4>2. HelpersDraws(prog, tape, at[p])[p - 1][j] = LastAt(prog, tape, at[p], <<0, (p - 1) + 1>>, j)
        BY <3>5, <4>1
      <4>3. QED BY <3>5, <3>6, <4>2
    <3> HIDE DEF asks, v
    <3>8. Drawn(p, asks)[1][j] = LastAt(prog, tape, at[p], seed_of(p, asks[1].from), j)
      BY <1>1, <3>2, DrawnLast
    <3>9. QED BY <3>2, <3>3, <3>4, <3>7, <3>8
  <2>3. QED BY <2>1, <2>2
<1> HIDE DEF u, v
<1>6. u = v
  BY <1>3, <1>4, <1>5
<1>7. QED BY <1>6 DEF u, v

\* The draws of a party that shares its own datum.
LEMMA OwnFirsts ==
  ASSUME IInv, NEW p \in Computing, AtReturn(p)
  PROVE  Firsts(Drawn(p, Ask(Others(p), 1))) = OwnDraws(prog, tape, at[p], p)
<1> DEFINE asks == Ask(Others(p), 1)  d == Drawn(p, asks)
<1>1. p \in Parties /\ Types /\ RngOK(p, rng[p], drawn[p]) /\ prog \in Programs /\ tape \in Tapes
      /\ at[p] \in 1 .. Len(prog)
  BY ComputingParties DEF AtReturn
<1>2. Others(p) \in [1 .. N - 2 -> Computing \ {p}] /\ DOMAIN Others(p) = 1 .. N - 2
  BY OthersFacts
<1>3. asks \in Seq(Asks) /\ Distinct(asks) /\ \A j \in 1 .. Len(asks) : asks[j].n = 1
  <2>1. AsksFor(asks, Computing \ {p}, 1)
    BY <1>1, AskOthers
  <2>2. QED BY <2>1 DEF AsksFor
<1>4. asks = [i \in 1 .. N - 2 |-> [from |-> Others(p)[i], n |-> 1]]
  BY <1>2 DEF Ask
<1>5. Len(asks) = N - 2 /\ \A i \in 1 .. N - 2 : asks[i].from = Others(p)[i]
  BY <1>4, PartyFacts
<1> HIDE DEF asks
<1>6. DrawsOf(p, asks, d)
  BY <1>1, <1>3, DrawnValues
<1>7. DOMAIN d = 1 .. N - 2
  BY <1>5, <1>6 DEF DrawsOf
<1>8. ASSUME NEW i \in 1 .. N - 2
      PROVE  d[i][1] = LastAt(prog, tape, at[p], seed_of(p, Others(p)[i]), 1)
  <2>1. i \in 1 .. Len(asks) /\ asks[i].from = Others(p)[i] /\ asks[i].from # p /\ asks[i].n = 1
    BY <1>2, <1>3, <1>5
  <2>2. 1 \in 1 .. asks[i].n
    BY <2>1
  <2>3. d[i][1] = LastAt(prog, tape, at[p], seed_of(p, asks[i].from), 1)
    BY <1>1, <1>3, <2>1, <2>2, DrawnLast
  <2>4. QED BY <2>1, <2>3
<1> HIDE DEF d
<1>9. Firsts(d) = [i \in 1 .. N - 2 |-> LastAt(prog, tape, at[p], seed_of(p, Others(p)[i]), 1)]
  BY <1>7, <1>8 DEF Firsts
<1>10. QED BY <1>2, <1>9 DEF OwnDraws, d, asks

-----------------------------------------------------------------------------
(***************************************************************************)
(* The actions do what the ideal execution does.                           *)
(***************************************************************************)

\* A party that returns the tensor that is ideal.
LEMMA ReturnsRight ==
  ASSUME IInv, NEW p \in Parties, ~ Finished(p), stage[p] = "run",
         Call(p).op \in Masking => ~ Bare(p), ValuesOK(p),
         NEW t, t = NewTensor(prog, tape, at[p], Now(p), p), Returns(p, t),
         Call(p).op # "trunc", p = 0 => drawn'[p][p] = drawn[p][p]
  PROVE  ValuesOK(p)'
<1>1. AtReturn(p)
  BY AtReturnWhen
<1>2. End(prog, tape, at[p], Now(p)).own = Now(p).own
  BY <1>1, NowOwn DEF AtReturn
<1>3. p = 0 => Len(drawn'[p][p]) = End(prog, tape, at[p], Now(p)).own
  BY <1>1, <1>2 DEF AtReturn
<1>4. QED BY <1>3, ReturnsValues

LEMMA NoOwnDraw ==
  ASSUME Types, NEW p \in Parties, RngOK(p, rng[p], drawn[p])
  PROVE  /\ NoDraw => drawn'[p][p] = drawn[p][p]
         /\ \A n \in Nat, what \in Marks :
              p = 0 /\ Drawing(p, Ask(NotHub, n), what) => drawn'[p][p] = drawn[p][p]
<1>1. NoDraw => drawn'[p][p] = drawn[p][p]
  BY DEF NoDraw
<1>2. ASSUME NEW n \in Nat, NEW what \in Marks, p = 0, Drawing(p, Ask(NotHub, n), what)
      PROVE  drawn'[p][p] = drawn[p][p]
  <2> DEFINE asks == Ask(NotHub, n)
  <2>1. AsksFor(asks, 2 .. N - 1, n)
    BY AskNotHub
  <2>2. asks \in Seq(Asks) /\ Distinct(asks) /\ \A j \in 1 .. Len(asks) : asks[j].from \in 2 .. N - 1
    BY <2>1 DEF AsksFor
  <2>3. \A j \in 1 .. Len(asks) : asks[j].from # p
    BY <1>2, <2>2
  <2>4. Drawing(p, asks, what)
    BY <1>2
  <2> HIDE DEF asks
  <2>5. QED BY <2>2, <2>3, <2>4, OwnStays
<1>3. QED BY <1>1, <1>2

\* A call without a message, at a party that has its result.
LEMMA LinearValues ==
  ASSUME IInv, IInv', VInv, NEW p \in Parties, Step(p), ~ Finished(p), stage[p] = "run",
         Call(p).op \in {"add", "sub", "add_public", "mul_public"},
         NEW t, t = NewTensor(prog, tape, at[p], Now(p), p), Returns(p, t), wire' = wire, NoDraw
  PROVE  VInv'
<1>1. Alone(p) /\ Types /\ RngOK(p, rng[p], drawn[p]) /\ ValuesOK(p)
  BY StepAlone DEF IInv, VInv
<1>2. drawn'[p][p] = drawn[p][p]
  BY <1>1, NoOwnDraw
<1>3. Call(p).op \notin Masking /\ Call(p).op # "trunc"
  BY DEF Masking
<1>4. ValuesOK(p)'
  BY <1>1, <1>2, <1>3, ReturnsRight
<1>5. QED BY <1>1, <1>4, QuietRight

LEMMA LinearActions ==
  ASSUME IInv, IInv', VInv, NEW p \in Parties,
         AddShares(p) \/ SubtractShares(p) \/ AddPublic(p) \/ MultiplyPublic(p)
  PROVE  VInv'
<1> DEFINE n == at[p]  w == Now(p)  c == Call(p)
<1>1. ~ Finished(p) /\ stage[p] = "run" /\ c.op \in {"add", "sub", "add_public", "mul_public"}
      /\ Step(p) /\ wire' = wire /\ NoDraw
  BY DEF AddShares, SubtractShares, AddPublic, MultiplyPublic, Calls, Step
<1>2. c = prog[n]
  BY DEF Call
<1>3. result[p] = w.results[p]
  BY DEF VInv, ValuesOK
<1>4. X(p) = w.results[p][prog[n].x] /\ Y(p) = w.results[p][prog[n].y]
  BY <1>2, <1>3 DEF X, Y
<1>5. CASE AddShares(p)
  <2>1. Returns(p, Sum(X(p), Y(p))) /\ c.op = "add"
    BY <1>5 DEF AddShares, Calls
  <2>2. Sum(X(p), Y(p)) = NewTensor(prog, tape, n, w, p)
    BY <1>2, <1>4, <2>1 DEF NewTensor
  <2>3. QED BY <1>1, <2>1, <2>2, LinearValues
<1>6. CASE SubtractShares(p)
  <2>1. Returns(p, Sum(X(p), Negated(Y(p)))) /\ c.op = "sub"
    BY <1>6 DEF SubtractShares, Calls
  <2>2. Sum(X(p), Negated(Y(p))) = NewTensor(prog, tape, n, w, p)
    BY <1>2, <1>4, <2>1 DEF NewTensor
  <2>3. QED BY <1>1, <2>1, <2>2, LinearValues
<1>7. CASE AddPublic(p)
  <2>1. Returns(p, WithPublic(X(p), c.a, p)) /\ c.op = "add_public"
    BY <1>7 DEF AddPublic, WithPublic, Calls
  <2>2. WithPublic(X(p), c.a, p) = NewTensor(prog, tape, n, w, p)
    BY <1>2, <1>4, <2>1 DEF NewTensor
  <2>3. QED BY <1>1, <2>1, <2>2, LinearValues
<1>8. CASE MultiplyPublic(p)
  <2>1. Returns(p, TimesPublic(X(p), c.a)) /\ c.op = "mul_public"
    BY <1>8 DEF MultiplyPublic, TimesPublic, Calls
  <2>2. TimesPublic(X(p), c.a) = NewTensor(prog, tape, n, w, p)
    BY <1>2, <1>4, <2>1 DEF NewTensor
  <2>3. QED BY <1>1, <2>1, <2>2, LinearValues
<1>9. QED BY <1>5, <1>6, <1>7, <1>8

\* share_from.
LEMMA SharingActions ==
  ASSUME IInv, IInv', VInv, NEW p \in Parties, ShareOwn(p) \/ ShareDealers(p) \/ ShareOfOther(p)
  PROVE  VInv'
<1> DEFINE n == at[p]  w == Now(p)  c == Call(p)
<1>1. ~ Finished(p) /\ stage[p] = "run" /\ c.op = "share_from" /\ Step(p)
  BY DEF ShareOwn, ShareDealers, ShareOfOther, Calls, Step
<1>2. Alone(p) /\ Types /\ RngOK(p, rng[p], drawn[p]) /\ ValuesOK(p)
  BY <1>1, StepAlone DEF IInv, VInv
<1>3. c.op \notin Masking /\ c.op # "trunc"
  BY <1>1 DEF Masking
<1>4. AtReturn(p)
  BY <1>1, <1>2, <1>3, AtReturnWhen
<1>5. c = prog[n] /\ <<n, 0>> \in Marks /\ New(p) = Wanted(c, Before(p).parted) /\ CallFacts(c, n)
  BY <1>4 DEF AtReturn
<1>6. NewTensor(prog, tape, n, w, p) = Sharetensor(ShareOf(prog, tape, n, w, p))
  BY <1>1, <1>5 DEF NewTensor, NewShare
<1>7. ASSUME NEW v, v = ShareOf(prog, tape, n, w, p), Returns(p, Sharetensor(v)),
             p = 0 => drawn'[p][p] = drawn[p][p]
      PROVE  ValuesOK(p)'
  <2> HIDE DEF n, w, c
  <2>1. Sharetensor(v) = NewTensor(prog, tape, n, w, p)
    BY <1>6, <1>7
  <2> DEFINE t == Sharetensor(v)
  <2>2. t = NewTensor(prog, tape, at[p], Now(p), p) /\ Returns(p, t)
    BY <1>7, <2>1 DEF n, w
  <2> HIDE DEF t
  <2>3. QED BY <1>1, <1>2, <1>3, <1>7, <2>2, ReturnsRight DEF c
<1>8. Dealt(c) = IF c.source = 0 THEN 1 ELSE 0
  BY <1>1, <1>5, DealtType
<1>9. CASE ShareOwn(p)
  <2>1. c.source = p /\ p # 0 /\ Returns(p, Sharetensor(Blinded(p, Others(p)))) /\ wire' = wire
    BY <1>9 DEF ShareOwn
  <2>2. Firsts(Drawn(p, Ask(Others(p), 1))) = OwnDraws(prog, tape, n, p)
    BY <1>4, <2>1, OwnFirsts, ComputingParties
  <2>3. Blinded(p, Others(p)) = ShareOf(prog, tape, n, w, p)
    BY <1>5, <2>1, <2>2 DEF Blinded, ShareOf, OwnDraws
  <2>4. ValuesOK(p)'
    BY <1>7, <2>1, <2>3
  <2>5. QED BY <1>2, <2>1, <2>4, QuietRight
<1>10. CASE ShareDealers(p)
  <2>1. c.source = p /\ p = 0 /\ Returns(p, Sharetensor(0)) /\ SendTo(0, 1, <<Blinded(p, NotHub)>>)
        /\ Drawing(p, Ask(NotHub, 1), <<n, 0>>)
    BY <1>10 DEF ShareDealers
  <2>2. Drawn(0, Ask(NotHub, 1)) = HelpersDraws(prog, tape, n)
    BY <1>4, <1>8, <2>1, DealersDraws
  <2>3. <<Blinded(p, NotHub)>> = Deals(prog, tape, n, w)
    BY <1>1, <1>5, <2>1, <2>2 DEF Blinded, Deals
  <2>4. ValuesOK(p)'
    <3>1. drawn'[p][p] = drawn[p][p]
      BY <1>2, <1>5, <2>1, NoOwnDraw
    <3>2. 0 = ShareOf(prog, tape, n, w, p)
      BY <2>1 DEF ShareOf
    <3>3. QED BY <1>7, <2>1, <3>1, <3>2
  <2> DEFINE v == <<Blinded(p, NotHub)>>
  <2>5. v = Deals(prog, tape, at[0], Now(0)) /\ SendTo(0, 1, v)
    BY <2>1, <2>3
  <2> HIDE DEF v
  <2>6. QED BY <1>1, <1>2, <1>5, <2>1, <2>4, <2>5, DealerRight
<1>11. CASE ShareOfOther(p)
  <2> DEFINE s == c.source
  <2>1. s # p /\ s \in Parties
    BY <1>1, <1>5, <1>11 DEF ShareOfOther, CallFacts
  <2>2. CASE /\ p = 1 /\ s = 0 /\ Arrived(0, 1, 1) /\ TakenFrom(0, 1, 1)
             /\ Returns(p, Sharetensor(First(0, 1, 1)[1])) /\ NoDraw
    <3>1. p \in Computing
      BY <2>2, ComputingParties
    <3>2. DealtTo(p, 1) = DealtIn(prog, tape, n, w, p)
      BY <1>4, <1>8, <2>2, <3>1, DealtRight
    <3>3. First(0, 1, 1)[1] = ShareOf(prog, tape, n, w, p)
      BY <1>5, <2>2, <3>2 DEF DealtTo, ShareOf
    <3>4. ValuesOK(p)'
      BY <1>7, <2>2, <3>3
    <3>5. QED BY <1>2, <2>2, <3>4, HubRight
  <2>3. CASE p = 0 /\ Returns(p, Sharetensor(0)) /\ NoDraw /\ wire' = wire
    <3>1. 0 = ShareOf(prog, tape, n, w, p)
      BY <2>3 DEF ShareOf
    <3>2. drawn'[p][p] = drawn[p][p]
      BY <1>2, <2>3, NoOwnDraw
    <3>3. ValuesOK(p)'
      BY <1>7, <2>3, <3>1, <3>2
    <3>4. QED BY <1>2, <2>3, <3>3, QuietRight
  <2>4. CASE /\ p # 0 /\ ~ (p = 1 /\ s = 0) /\ wire' = wire
             /\ Returns(p, Sharetensor(Drawn(p, Ask(<<s>>, 1))[1][1]))
    <3>1. p \in Computing
      BY <2>4, ComputingParties
    <3>2. Drawn(p, Ask(<<s>>, 1))[1][1] = ShareOf(prog, tape, n, w, p)
      <4>1. CASE s = 0
        <5>1. DealtTo(p, 1) = DealtIn(prog, tape, n, w, p)
          BY <1>4, <1>8, <2>4, <3>1, <4>1, DealtRight
        <5>2. QED BY <1>5, <2>4, <4>1, <5>1 DEF DealtTo, ShareOf
      <4>2. CASE s # 0
        <5> DEFINE asks == Ask(<<s>>, 1)
        <5>1. asks \in Seq(Asks) /\ Distinct(asks) /\ 1 \in 1 .. Len(asks) /\ asks[1].from = s
              /\ asks[1].n = 1
          BY <2>1, AskedOne
        <5>2. 1 \in 1 .. asks[1].n /\ asks[1].from # p
          BY <2>1, <5>1
        <5> HIDE DEF asks
        <5>3. Drawn(p, asks)[1][1] = LastAt(prog, tape, at[p], seed_of(p, asks[1].from), 1)
          BY <1>4, <5>1, <5>2, DrawnLast
        <5>4. ShareOf(prog, tape, n, w, p) = LastAt(prog, tape, n, seed_of(p, s), 1)
          BY <1>5, <2>1, <2>4, <4>2 DEF ShareOf
        <5>5. QED BY <5>1, <5>3, <5>4 DEF asks
      <4>3. QED BY <4>1, <4>2
    <3>3. ValuesOK(p)'
      BY <1>7, <2>4, <3>2
    <3>4. QED BY <1>2, <2>4, <3>3, QuietRight
  <2>5. QED BY <1>11, <2>2, <2>3, <2>4 DEF ShareOfOther
<1>12. QED BY <1>9, <1>10, <1>11

\* A computing party that enters reveal: a helper sends its value, the hub keeps it.
LEMMA EnteredRight ==
  ASSUME IInv, IInv', VInv, NEW p \in Computing, Alone(p), ValuesOK(p)', stage[p] = "run",
         NEW v \in Residues, v = Shown(p)[p], ShownNext(p, Shown(p)), RevealSends(p, v)
  PROVE  VInv'
<1>1. p \in Parties /\ p # 0 /\ (p = 1 \/ p \in Helpers)
  BY ComputingParties, HelperFacts
<1>2. CASE p = 1
  <2>1. wire' = wire
    BY <1>2 DEF RevealSends
  <2>2. QED BY <1>1, <2>1, QuietRight
<1>3. CASE p # 1
  <2>1. SendTo(p, 1, <<v>>) /\ p \in Helpers
    BY <1>1, <1>3 DEF RevealSends
  <2>2. QED BY <2>1, HelperRight
<1>4. QED BY <1>2, <1>3

\* reveal is called by the program.
LEMMA RevealActions ==
  ASSUME IInv, IInv', VInv, NEW p \in Parties, RevealCall(p)
  PROVE  VInv'
<1> DEFINE n == at[p]  w == Now(p)  c == Call(p)
<1>1. ~ Finished(p) /\ stage[p] = "run" /\ c.op = "reveal" /\ Step(p) /\ NoDraw
  BY DEF RevealCall, Calls, Step
<1>2. Alone(p) /\ Types /\ RngOK(p, rng[p], drawn[p]) /\ ValuesOK(p)
  BY <1>1, StepAlone DEF IInv, VInv
<1>3. c.op \notin Masking /\ c.op # "trunc" /\ c.op # "share_from"
  BY <1>1 DEF Masking
<1>4. AtReturn(p)
  BY <1>1, <1>2, <1>3, AtReturnWhen
<1>5. c = prog[n] /\ New(p) = Wanted(c, Before(p).parted) /\ PlaceOK(p) /\ result[p] = w.results[p]
  BY <1>4 DEF AtReturn
<1>6. X(p) = w.results[p][prog[n].x]
  BY <1>5 DEF X
<1>7. X(p).share \in Residues
  <2>1. X(p) \in Sharetensors
    BY <1>1, <1>2, <1>3, <1>5, OperandTypes
  <2>2. QED BY <2>1, TensorParts
<1>8. CASE p = 0
  <2>1. Returns(p, Sharetensor(X(p).share)) /\ wire' = wire
    BY <1>8 DEF RevealCall
  <2>2. NewTensor(prog, tape, n, w, p) = Sharetensor(NewShare(prog, tape, n, w, p))
    BY <1>1, <1>5 DEF NewTensor
  <2>3. NewShare(prog, tape, n, w, p) = X(p).share
    BY <1>1, <1>5, <1>6, <1>8 DEF NewShare
  <2> DEFINE t == Sharetensor(X(p).share)
  <2>4. t = NewTensor(prog, tape, at[p], Now(p), p) /\ Returns(p, t)
    BY <2>1, <2>2, <2>3
  <2>5. drawn'[p][p] = drawn[p][p]
    BY <1>1, <1>2, NoOwnDraw
  <2> HIDE DEF t
  <2>6. ValuesOK(p)'
    BY <1>1, <1>2, <1>3, <2>4, <2>5, ReturnsRight
  <2>7. QED BY <1>2, <2>1, <2>6, QuietRight
<1>9. CASE p # 0
  <2> DEFINE v == X(p).share
  <2>1. p \in Computing
    BY <1>9, ComputingParties
  <2>2. EnterReveal(p, v, <<>>) /\ RevealSends(p, v)
    BY <1>9 DEF RevealCall
  <2>3. ShownNext(p, Shown(p))
    BY <1>1, <1>5, ShownRight
  <2>4. v = Shown(p)[p]
    BY <1>1, <1>3, <1>5, <1>6, <2>1 DEF Shown, EndValues
  <2>5. MayEnter(p, <<>>)
    BY <1>1, <1>3, <1>9 DEF MayEnter
  <2>6. v \in Residues
    BY <1>7
  <2> HIDE DEF v
  <2> DEFINE mask == <<>>
  <2>7. MayEnter(p, mask) /\ EnterReveal(p, v, mask)
    BY <2>2, <2>5
  <2> HIDE DEF mask
  <2>8. ValuesOK(p)'
    BY <1>2, <1>3, <2>4, <2>7, EntersValues
  <2>9. QED BY <1>1, <1>2, <2>1, <2>2, <2>3, <2>4, <2>6, <2>8, EnteredRight
<1>10. QED BY <1>8, <1>9

\* What a party in reveal is in it for, and the values that are next.
LEMMA ShownInReveal ==
  ASSUME IInv, NEW p \in Parties, stage[p] = "reveal"
  PROVE  /\ ShownNext(p, Shown(p)) /\ p # 0 /\ ~ Finished(p)
         /\ Reveals(p) = Answers(p) + 1 /\ Answers(p) \in Nat
<1>1. Types /\ PlaceOK(p)
  BY DEF IInv
<1>2. p # 0 /\ ~ Finished(p) /\ Call(p).op \in {"reveal", "trunc"} \cup Masking
      /\ (Call(p).op \in Masking => Bare(p))
  BY <1>1 DEF PlaceOK
<1>3. Call(p).op \in {"reveal", "trunc"} => New(p) = Wanted(Call(p), Before(p).parted)
  <2>1. Call(p).op \in {"reveal", "trunc"} => Call(p).op \notin Masking
    BY DEF Masking
  <2>2. QED BY <1>1, <1>2, <2>1, ReadyToEnd
<1>4. ShownNext(p, Shown(p))
  BY <1>2, <1>3, ShownRight
<1>5. Reveals(p) = Answers(p) + 1 /\ Answers(p) \in Nat
  BY <1>1, CountTypes DEF Reveals
<1>6. QED BY <1>2, <1>4, <1>5

\* A helper has its answer.
LEMMA AnswerActions ==
  ASSUME IInv, IInv', VInv, NEW p \in Parties, TakeSum(p)
  PROVE  VInv'
<1>1. stage[p] = "reveal" /\ Arrived(1, p, 1) /\ TakenFrom(1, p, 1) /\ LeaveReveal(p, First(1, p, 1)[1])
      /\ p >= 2 /\ Step(p)
  BY DEF TakeSum, Step
<1>2. Alone(p) /\ Types /\ ValuesOK(p)
  BY <1>1, StepAlone DEF IInv, VInv
<1>3. p \in Helpers /\ 1 \in Parties /\ 1 # p
  BY <1>1, PartyFacts DEF Helpers
<1>4. ShownNext(p, Shown(p)) /\ Answers(p) \in Nat
  BY <1>1, ShownInReveal
<1> DEFINE u == wire[<<1, p>>]  v == First(1, p, 1)[1]
<1>5. u \in Seq(Residues) /\ Len(u) >= 1
  BY <1>1, <1>2, <1>3, LinkType DEF Arrived
<1>6. \A i \in 1 .. Len(u) : u[i] = All(prog, tape).totals[Answers(p) + i]
  BY <1>3 DEF VInv, WiresOK
<1>7. v = SubSeq(u, 1, 1)[1]
  BY DEF First
<1> HIDE DEF u
<1>8. v = u[1] /\ 1 \in 1 .. Len(u)
  BY <1>5, <1>7
<1>9. u[1] = All(prog, tape).totals[Answers(p) + 1]
  BY <1>6, <1>8
<1>10. v = SumMod(Shown(p)) /\ LeaveReveal(p, v)
  BY <1>1, <1>4, <1>8, <1>9 DEF ShownNext
<1> HIDE DEF v
<1>11. ValuesOK(p)'
  BY <1>1, <1>2, <1>10, LeavesValues
<1>12. QED BY <1>1, <1>2, <1>3, <1>11, AnswerRight

LEMMA HubList ==
  ASSUME NEW a \in Residues, NEW f \in [Computing -> Residues], a = f[1],
         NEW v, v = [i \in 1 .. N - 2 |-> f[i + 1]]
  PROVE  <<a>> \o v = f
<1>1. f \in Seq(Residues) /\ Len(f) = N - 1 /\ \A q \in Computing : f[q] \in Residues
  BY ComputingSeq
<1>2. Computing = 1 .. N - 1 /\ N - 2 \in Nat /\ N - 1 = (N - 2) + 1
  BY PartyFacts, ComputingParties
<1>3. v \in Seq(Residues) /\ Len(v) = N - 2 /\ \A i \in 1 .. N - 2 : v[i] = f[i + 1]
  BY <1>1, <1>2
<1>4. \A i \in 1 .. N - 1 : (<<a>> \o v)[i] = f[i]
  BY <1>2, <1>3
<1>5. <<a>> \o v \in Seq(Residues) /\ Len(<<a>> \o v) = N - 1
  BY <1>2, <1>3
<1> DEFINE g == <<a>> \o v
<1>6. g \in Seq(Residues) /\ Len(g) = N - 1 /\ \A i \in 1 .. N - 1 : g[i] = f[i]
  BY <1>4, <1>5
<1>7. f \in Seq(Residues) /\ Len(f) = N - 1
  BY <1>1
<1> HIDE DEF g
<1>8. g = f
  BY <1>6, <1>7
<1>9. QED BY <1>8 DEF g

\* What the hub adds up is what the parties show.
LEMMA HubAddsUp ==
  ASSUME IInv, VInv, stage[1] = "reveal", \A q \in 2 .. N - 1 : Arrived(q, 1, 1)
  PROVE  HubTotal = SumMod(Shown(1))
<1> DEFINE f == Shown(1)  a == value[1]  v == [i \in 1 .. N - 2 |-> First(i + 1, 1, 1)[1]]
<1>1. 1 \in Parties /\ 1 \in Computing /\ Types
  BY ComputingParties, HelperFacts DEF IInv
<1>2. ShownNext(1, f) /\ Reveals(1) = Answers(1) + 1 /\ Answers(1) \in Nat
  BY <1>1, ShownInReveal
<1>3. f \in [Computing -> Residues] /\ \A q \in Computing : All(prog, tape).values[q][Answers(1) + 1] = f[q]
  BY <1>2 DEF ShownNext
<1>4. a = f[1]
  <2>1. a = All(prog, tape).values[1][Reveals(1)]
    BY <1>1 DEF VInv, ValuesOK
  <2> HIDE DEF a, f
  <2>2. QED BY <1>1, <1>2, <1>3, <2>1
<1>5. a \in Residues
  BY <1>1, <1>3, <1>4
<1>6. ASSUME NEW i \in 1 .. N - 2 PROVE First(i + 1, 1, 1)[1] = f[i + 1]
  <2>1. i + 1 \in Helpers /\ i + 1 \in Computing /\ i + 1 \in 2 .. N - 1
    BY PartyFacts DEF Helpers, Computing
  <2> DEFINE q == i + 1
  <2>2. q \in Helpers /\ q \in Computing /\ Arrived(q, 1, 1) /\ q \in Parties /\ q # 1
    BY <2>1, HelperFacts
  <2> HIDE DEF q, f
  <2> DEFINE u == wire[<<q, 1>>]
  <2>3. u \in Seq(Residues) /\ Len(u) >= 1
    BY <1>1, <2>2, LinkType DEF Arrived
  <2>4. \A j \in 1 .. Len(u) : u[j] = All(prog, tape).values[q][Answers(1) + j]
    BY <2>2 DEF VInv, WiresOK
  <2>5. First(q, 1, 1)[1] = SubSeq(u, 1, 1)[1]
    BY DEF First
  <2> HIDE DEF u
  <2>6. SubSeq(u, 1, 1)[1] = u[1] /\ 1 \in 1 .. Len(u)
    BY <2>3
  <2>7. u[1] = All(prog, tape).values[q][Answers(1) + 1]
    BY <2>4, <2>6
  <2>8. First(q, 1, 1)[1] = f[q]
    BY <1>3, <2>2, <2>5, <2>6, <2>7
  <2>9. QED BY <2>8 DEF q
<1> HIDE DEF f, a
<1>7. v = [i \in 1 .. N - 2 |-> f[i + 1]]
  BY <1>6
<1>8. HubTotal = SumMod(<<a>> \o v)
  BY DEF HubTotal, a
<1> HIDE DEF v
<1>9. <<a>> \o v = f
  BY <1>3, <1>4, <1>5, <1>7, HubList
<1>10. QED BY <1>8, <1>9 DEF f

LEMMA HubWireGoes ==
  ASSUME Types, NEW total \in Residues, \A q \in 2 .. N - 1 : Arrived(q, 1, 1),
         wire' = HubWires(wire, total)
  PROVE  /\ \A all, s : WireGoes(1, <<0, 1>>, all, s)
         /\ \A q \in Helpers : \A all, s : WireGoes(1, <<q, 1>>, all, s)
         /\ \A q \in Helpers : \A all : \A s \in Nat :
              all[s + 1] = total => WireGoes(1, <<1, q>>, all, s)
<1>1. Wires(wire) /\ \A q \in Helpers : q \in Parties /\ q # 0 /\ q # 1 /\ q \in 2 .. N - 1
  BY WiresType, HelperFacts DEF Helpers
<1>2. ASSUME NEW all, NEW s PROVE WireGoes(1, <<0, 1>>, all, s)
  <2> DEFINE c == <<0, 1>>
  <2>1. c \in Links
    BY <1>1 DEF Wires
  <2>2. wire'[c] = wire[c]
    BY <2>1 DEF HubWires
  <2>3. QED BY <2>2 DEF WireGoes
<1>3. ASSUME NEW q \in Helpers, NEW all, NEW s PROVE WireGoes(1, <<q, 1>>, all, s)
  <2> DEFINE c == <<q, 1>>  u == wire[c]
  <2>1. c \in Links /\ c[1] = q /\ c[2] = 1 /\ u \in Seq(Residues)
    BY <1>1 DEF Wires
  <2>2. wire'[c] = Tail(u)
    BY <1>1, <2>1 DEF HubWires
  <2>3. Len(u) >= 1
    BY <1>1 DEF Arrived
  <2> HIDE DEF c
  <2>4. wire'[c] = SubSeq(u, 1 + 1, Len(u)) /\ 1 \in 0 .. Len(u)
    BY <2>1, <2>2, <2>3
  <2>5. WireGoes(1, c, all, s)
    BY <2>1, <2>4 DEF WireGoes
  <2>6. QED BY <2>5 DEF c
<1>4. ASSUME NEW q \in Helpers, NEW all, NEW s \in Nat, all[s + 1] = total
      PROVE  WireGoes(1, <<1, q>>, all, s)
  <2> DEFINE c == <<1, q>>  u == wire[c]  v == <<total>>
  <2>1. c \in Links /\ c[1] = 1 /\ c[2] = q /\ u \in Seq(Residues)
    BY <1>1 DEF Wires
  <2>2. wire'[c] = Append(u, total)
    BY <1>1, <2>1 DEF HubWires
  <2>3. Append(u, total) = u \o v
    BY <2>1
  <2>4. v \in Seq(Residues) /\ Len(v) = 1 /\ v[1] = total
    BY OneResidue
  <2> HIDE DEF c, u, v
  <2>5. \A j \in 1 .. Len(v) : v[j] = all[s + j]
    BY <1>4, <2>4
  <2>6. wire'[c] = wire[c] \o v
    BY <2>2, <2>3 DEF u
  <2>7. WireGoes(1, c, all, s)
    BY <2>1, <2>4, <2>5, <2>6 DEF WireGoes
  <2>8. QED BY <2>7 DEF c
<1>5. QED BY <1>2, <1>3, <1>4

\* The hub has all values.
LEMMA HubActions ==
  ASSUME IInv, IInv', VInv, NEW p \in Parties, HubSums(p)
  PROVE  VInv'
<1>1. p = 1 /\ stage[1] = "reveal" /\ LeaveReveal(1, HubTotal) /\ Step(1)
      /\ \A q \in 2 .. N - 1 : Arrived(q, 1, 1)
  BY DEF HubSums, Step
<1>2. wire' = HubWires(wire, HubTotal)
  BY DEF HubSums, HubWires
<1>3. Alone(1) /\ Types /\ ValuesOK(1) /\ 1 \in Parties
  BY <1>1, StepAlone DEF IInv, VInv
<1>4. ShownNext(1, Shown(1)) /\ Answers(1) \in Nat
  BY <1>1, <1>3, ShownInReveal
<1> DEFINE v == HubTotal
<1>5. v = SumMod(Shown(1)) /\ LeaveReveal(1, v) /\ wire' = HubWires(wire, v)
  BY <1>1, <1>2, HubAddsUp
<1> HIDE DEF v
<1>6. ValuesOK(1)'
  BY <1>1, <1>3, <1>5, LeavesValues
<1>7. v \in Residues /\ All(prog, tape).totals[Answers(1) + 1] = v
  BY <1>4, <1>5 DEF ShownNext
<1>8. /\ \A all, s : WireGoes(1, <<0, 1>>, all, s)
      /\ \A q \in Helpers : \A all, s : WireGoes(1, <<q, 1>>, all, s)
      /\ \A q \in Helpers : \A all : \A s \in Nat :
           all[s + 1] = v => WireGoes(1, <<1, q>>, all, s)
  BY <1>1, <1>3, <1>5, <1>7, HubWireGoes
<1> DEFINE totals == All(prog, tape).totals
<1>9. totals[Answers(1) + 1] = v
  BY <1>7
<1>10. \A q \in Helpers : WireGoes(1, <<1, q>>, totals, Answers(1))
  <2> HIDE DEF totals
  <2>1. QED BY <1>4, <1>8, <1>9
<1>11. QED BY <1>3, <1>6, <1>8, <1>10, OneRight

\* The dealer's draws for the masks of an operand are the masks that the others draw.
LEMMA DealersFirsts ==
  ASSUME IInv, ~ Finished(0), stage[0] = "run", NextPart(0)
  PROVE  Firsts(Drawn(0, Ask(Others(0), 1))) = NextMasks(0)
<1> DEFINE asks == Ask(Others(0), 1)  d == Drawn(0, asks)
<1>1. 0 \in Parties /\ Types /\ RngOK(0, rng[0], drawn[0]) /\ N - 1 \in Nat /\ Computing = 1 .. N - 1
      /\ Computing \subseteq Parties \ {0}
  BY ComputingParties DEF IInv
<1>2. AsksFor(asks, Computing \ {0}, 1)
  BY <1>1, AskOthers
<1>3. asks \in Seq(Asks) /\ Distinct(asks) /\ \A j \in 1 .. Len(asks) : asks[j].n = 1
  BY <1>2 DEF AsksFor
<1>4. asks = [i \in 1 .. N - 1 |-> [from |-> i, n |-> 1]]
  BY <1>1 DEF Ask, Others
<1>5. Len(asks) = N - 1 /\ \A i \in 1 .. N - 1 : asks[i].from = i
  BY <1>1, <1>4
<1> HIDE DEF asks
<1>6. DrawsOf(0, asks, d)
  BY <1>1, <1>3, DrawnValues
<1>7. DOMAIN d = 1 .. N - 1
  BY <1>5, <1>6 DEF DrawsOf
<1>8. ASSUME NEW i \in 1 .. N - 1 PROVE d[i][1] = NextMasks(0)[i]
  <2>1. i \in 1 .. Len(asks) /\ asks[i].from = i /\ asks[i].n = 1
    BY <1>3, <1>5
  <2>2. 1 \in 1 .. asks[i].n
    BY <2>1
  <2>3. d[i][1] = At(tape, seed_of(0, asks[i].from), Len(drawn[0][asks[i].from]) + 1)
    BY <1>1, <1>3, <2>1, <2>2, DrawnAt
  <2>4. i \in Parties \ {0} /\ i \in Computing
    BY <1>1
  <2>5. seed_of(0, i) = <<0, i>>
    BY <2>4, DealersSeeds
  <2>6. At(tape, seed_of(0, i), Len(drawn[0][i]) + 1) = NextMasks(0)[i]
    BY <1>1, <2>4, <2>5, MaskNext
  <2>7. QED BY <2>1, <2>3, <2>6
<1> HIDE DEF d
<1>9. Firsts(d) = [i \in 1 .. N - 1 |-> NextMasks(0)[i]]
  BY <1>7, <1>8 DEF Firsts
<1>10. NextMasks(0) = [i \in 1 .. N - 1 |-> NextMasks(0)[i]]
  BY <1>1 DEF NextPart
<1>11. QED BY <1>9, <1>10 DEF d, asks

LEMMA DealersPartRight ==
  ASSUME IInv, IInv', VInv, NEW p \in Parties, PartitionDealer(p)
  PROVE  VInv'
<1>1. p = 0 /\ ~ Finished(0) /\ stage[0] = "run" /\ Call(0).op \in Masking /\ Bare(0)
      /\ Drawing(0, Ask(Others(0), 1), <<at[0], Operand(0)>>)
      /\ prog' = prog /\ tape' = tape /\ at' = at /\ stage' = stage /\ out' = out /\ wire' = wire
  BY DEF PartitionDealer, Partitions, Masking
<1>2. Alone(0) /\ DealersPart(0) /\ Types /\ RngOK(0, rng[0], drawn[0]) /\ ValuesOK(0) /\ 0 \in Parties
      /\ PlaceOK(0)
  BY <1>1, DealersPartAlone DEF IInv, VInv
<1>3. NextPart(0)
  BY <1>1, <1>2, NextPartWhen
<1> DEFINE k == Operand(0)  m == NextMasks(0)  part == <<0>>  mask == <<SumMod(m)>>
<1>4. m \in [Computing -> Residues] /\ k \in 1 .. at[0] - 1
  BY <1>3 DEF NextPart
<1>5. Firsts(Drawn(0, Ask(Others(0), 1))) = m
  BY <1>1, <1>3, DealersFirsts
<1>6. part \in Seq(Residues) /\ Len(part) = 1 /\ mask \in Seq(Residues) /\ Len(mask) = 1
  <2>1. SumMod(m) \in Residues /\ 0 \in Residues
    BY <1>4, ComputingSeq, ResidueFacts
  <2>2. QED BY <2>1, OneResidue
<1>7. Keeps(0, part, mask)
  BY <1>1, <1>2, <1>5 DEF Keeps, DealersPart
<1>8. part = Partitioned(Now(0), k, m, 0).x_r /\ mask = Partitioned(Now(0), k, m, 0).r
  BY DEF Partitioned
<1>9. drawn'[0][0] = drawn[0][0]
  <2> DEFINE asks == Ask(Others(0), 1)  what == <<at[0], k>>
  <2>1. AsksFor(asks, Computing \ {0}, 1)
    BY <1>2, AskOthers
  <2>2. asks \in Seq(Asks) /\ Distinct(asks) /\ \A j \in 1 .. Len(asks) : asks[j].from # 0
    BY <2>1 DEF AsksFor
  <2>3. what \in Marks
    <3>1. k \in Nat /\ at[0] \in Nat
      BY <1>2, <1>4, PlaceType
    <3>2. QED BY <3>1 DEF Marks
  <2>4. Drawing(0, asks, what)
    BY <1>1
  <2> HIDE DEF asks, what
  <2>5. QED BY <1>2, <2>2, <2>3, <2>4, OwnStays
<1> HIDE DEF k, m, part, mask
<1>10. out'[0] = out[0]
  BY <1>1
<1>11. part = Partitioned(Now(0), Operand(0), NextMasks(0), 0).x_r
       /\ mask = Partitioned(Now(0), Operand(0), NextMasks(0), 0).r
  BY <1>8 DEF k, m
<1>12. ValuesOK(0)'
  BY <1>1, <1>2, <1>6, <1>7, <1>9, <1>10, <1>11, KeepsValues
<1>13. QED BY <1>1, <1>2, <1>12, QuietRight

\* A computing party masks an operand.
LEMMA PartRightAt ==
  ASSUME IInv, IInv', VInv, NEW p \in Parties, Partition(p)
  PROVE  VInv'
<1> DEFINE k == Operand(p)  mask == Drawn(p, Ask(<<0>>, 1))[1][1]  m == NextMasks(p)  q == <<mask>>
           v == sub_mod(result[p][k].share, mask)
<1>1. p # 0 /\ ~ Finished(p) /\ stage[p] = "run" /\ Call(p).op \in Masking /\ Bare(p)
      /\ EnterReveal(p, v, q) /\ RevealSends(p, v) /\ Step(p)
  BY DEF Partition, Partitions, Masking, Step
<1>2. Alone(p) /\ Types /\ RngOK(p, rng[p], drawn[p]) /\ ValuesOK(p) /\ 0 \in Parties /\ p \in Computing
  BY <1>1, StepAlone, ComputingParties DEF IInv, VInv
<1>3. NextPart(p)
  BY <1>1, NextPartWhen
<1>4. m \in [Computing -> Residues]
  BY <1>3 DEF NextPart
<1>5. mask = m[p]
  <2> DEFINE asks == Ask(<<0>>, 1)
  <2>1. asks \in Seq(Asks) /\ Distinct(asks) /\ 1 \in 1 .. Len(asks) /\ asks[1].from = 0 /\ asks[1].n = 1
    BY <1>2, AskedOne
  <2>2. 1 \in 1 .. asks[1].n
    BY <2>1
  <2>3. seed_of(p, 0) = <<0, p>> /\ 0 \in Parties \ {p}
    BY <1>1, <1>2, DealersSeeds
  <2> HIDE DEF asks
  <2>4. Drawn(p, asks)[1][1] = At(tape, seed_of(p, asks[1].from), Len(drawn[p][asks[1].from]) + 1)
    BY <1>2, <2>1, <2>2, DrawnAt
  <2>5. At(tape, seed_of(p, 0), Len(drawn[p][0]) + 1) = NextMasks(p)[p]
    BY <1>1, <1>2, <2>3, MaskNext
  <2>6. QED BY <2>1, <2>4, <2>5 DEF asks
<1>6. v = Shown(p)[p]
  <2>1. result[p] = Now(p).results[p]
    BY <1>2 DEF ValuesOK
  <2>2. Shown(p)[p] = sub_mod(Now(p).results[p][k].share, m[p])
    BY <1>1, <1>2 DEF Shown, Blind
  <2> HIDE DEF mask, m, k
  <2>3. QED BY <1>5, <2>1, <2>2
<1>7. ShownNext(p, Shown(p))
  BY <1>1, ShownRight
<1>8. v \in Residues
  BY <1>2, <1>6, <1>7 DEF ShownNext
<1>9. q = <<NextMasks(p)[p]>> /\ Len(q) = 1
  BY <1>5
<1>10. MayEnter(p, q) /\ Call(p).op # "trunc"
  BY <1>1, <1>9 DEF MayEnter, Masking
<1> HIDE DEF q, v
<1>11. ValuesOK(p)'
  BY <1>1, <1>2, <1>6, <1>9, <1>10, EntersValues
<1>12. QED BY <1>1, <1>2, <1>6, <1>7, <1>8, <1>11, EnteredRight

\* The dealer ends a multiplication or a power.
LEMMA DealerEnds ==
  ASSUME IInv, IInv', VInv, Step(0), ~ Finished(0), stage[0] = "run", Call(0).op \in Masking, ~ Bare(0),
         NEW n, n = Dealt(Call(0)), Drawing(0, Ask(NotHub, n), <<at[0], 0>>),
         NEW v, v = Deals(prog, tape, at[0], Now(0)), SendTo(0, 1, v),
         NEW a, a = NewShare(prog, tape, at[0], Now(0), 0), Returns(0, Sharetensor(a))
  PROVE  VInv'
<1>1. Alone(0) /\ Types /\ RngOK(0, rng[0], drawn[0]) /\ ValuesOK(0) /\ 0 \in Parties
  BY StepAlone, PartyFacts DEF IInv, VInv
<1>2. AtReturn(0)
  BY <1>1, AtReturnWhen
<1>3. New(0) = Wanted(Call(0), Before(0).parted) /\ Call(0) = prog[at[0]] /\ CallFacts(Call(0), at[0])
      /\ <<at[0], 0>> \in Marks
  BY <1>2 DEF AtReturn
<1>4. Dealt(Call(0)) \in Nat
  BY <1>3, DealtType
<1>5. drawn'[0][0] = drawn[0][0]
  BY <1>1, <1>3, <1>4, NoOwnDraw
<1> DEFINE t == Sharetensor(a)
<1>6. t = NewTensor(prog, tape, at[0], Now(0), 0)
  BY <1>3 DEF NewTensor, Masking
<1>7. Call(0).op # "trunc" /\ Returns(0, t)
  BY DEF Masking
<1> HIDE DEF t
<1>8. ValuesOK(0)'
  BY <1>1, <1>5, <1>6, <1>7, ReturnsRight
<1>9. QED BY <1>1, <1>3, <1>8, DealerRight

\* A computing party ends one.
LEMMA ComputingEnds ==
  ASSUME IInv, IInv', VInv, NEW p \in Computing, Step(p), ~ Finished(p), stage[p] = "run",
         Call(p).op \in Masking, ~ Bare(p), NEW n, n = Dealt(Call(p)), TakeDealt(p, n),
         NEW a, Returns(p, Sharetensor(a)),
         DealtTo(p, n) = DealtIn(prog, tape, at[p], Now(p), p) =>
           a = NewShare(prog, tape, at[p], Now(p), p)
  PROVE  VInv'
<1>1. Alone(p) /\ Types /\ RngOK(p, rng[p], drawn[p]) /\ ValuesOK(p) /\ p \in Parties /\ p # 0
  BY StepAlone, ComputingParties DEF IInv, VInv
<1>2. AtReturn(p)
  BY <1>1, AtReturnWhen
<1>3. Call(p) = prog[at[p]] /\ CallFacts(Call(p), at[p])
  BY <1>2 DEF AtReturn
<1>4. n \in Nat
  BY <1>3, DealtType
<1>5. p = 1 => Arrived(0, 1, n) /\ TakenFrom(0, 1, n)
  BY DEF TakeDealt
<1>6. DealtTo(p, n) = DealtIn(prog, tape, at[p], Now(p), p)
  BY <1>2, <1>5, DealtRight
<1>7. a = NewShare(prog, tape, at[p], Now(p), p)
  BY <1>6
<1> DEFINE t == Sharetensor(a)
<1>8. t = NewTensor(prog, tape, at[p], Now(p), p)
  BY <1>3, <1>7 DEF NewTensor, Masking
<1>9. Call(p).op # "trunc" /\ Returns(p, t)
  BY DEF Masking
<1> HIDE DEF t
<1>10. ValuesOK(p)'
  BY <1>1, <1>8, <1>9, ReturnsRight
<1>11. CASE p = 1
  BY <1>1, <1>4, <1>5, <1>10, <1>11, HubRight
<1>12. CASE p # 1
  <2>1. wire' = wire
    BY <1>12 DEF TakeDealt
  <2>2. QED BY <1>1, <1>10, <2>1, QuietRight
<1>13. QED BY <1>11, <1>12

LEMMA MultiplyRight ==
  ASSUME IInv, IInv', VInv, NEW p \in Parties, BeaverReconstruct(p)
  PROVE  VInv'
<1> DEFINE n == at[p]  w == Now(p)  c == Call(p)  xy == beaver_mul(p, X(p), Y(p))
<1>1. ~ Finished(p) /\ stage[p] = "run" /\ c.op = "mul" /\ c.op \in Masking /\ ~ Bare(p) /\ Step(p)
  BY DEF BeaverReconstruct, Calls, Step, Masking
<1>2. ValuesOK(p)
  BY DEF VInv
<1>3. AtReturn(p)
  BY <1>1, <1>2, AtReturnWhen
<1>4. c = prog[n] /\ CallFacts(c, n) /\ result[p] = w.results[p]
  BY <1>3 DEF AtReturn
<1>5. Dealt(c) = 1
  BY <1>1, <1>4, DealtType
<1>6. X(p) = w.results[p][prog[n].x] /\ Y(p) = w.results[p][prog[n].y]
  BY <1>4 DEF X, Y
<1>7. CASE p = 0
  <2> DEFINE rest == Missing(<<xy>>, Drawn(p, Ask(NotHub, 1)))
  <2>1. Drawing(p, Ask(NotHub, 1), <<n, 0>>) /\ SendTo(0, 1, rest) /\ Returns(p, Sharetensor(rest[1]))
    BY <1>7 DEF BeaverReconstruct
  <2>2. Drawn(0, Ask(NotHub, 1)) = HelpersDraws(prog, tape, at[0])
    BY <1>3, <1>5, <1>7, DealersDraws
  <2>3. Given(prog[n], tape, w) = <<beaver_mul(0, w.results[0][prog[n].x], w.results[0][prog[n].y])>>
    BY <1>1, <1>4 DEF Given
  <2>4. rest = Missing(Given(prog[n], tape, w), HelpersDraws(prog, tape, n))
    BY <1>6, <1>7, <2>2, <2>3
  <2>5. rest = Deals(prog, tape, n, w)
    BY <1>1, <1>4, <2>4 DEF Deals
  <2>6. rest[1] = NewShare(prog, tape, n, w, p)
    BY <1>1, <1>4, <1>7, <2>5 DEF NewShare
  <2> HIDE DEF rest
  <2>7. QED BY <1>1, <1>5, <1>7, <2>1, <2>5, <2>6, DealerEnds
<1>8. CASE p # 0
  <2> DEFINE a == add_mod(xy, DealtTo(p, 1)[1])
  <2>1. TakeDealt(p, 1) /\ Returns(p, Sharetensor(a))
    BY <1>8 DEF BeaverReconstruct
  <2>2. DealtTo(p, 1) = DealtIn(prog, tape, n, w, p) => a = NewShare(prog, tape, n, w, p)
    BY <1>1, <1>4, <1>6, <1>8 DEF NewShare
  <2>3. p \in Computing
    BY <1>8, ComputingParties
  <2> HIDE DEF a
  <2>4. QED BY <1>1, <1>5, <2>1, <2>2, <2>3, ComputingEnds
<1>9. QED BY <1>7, <1>8

LEMMA PowerRight ==
  ASSUME IInv, IInv', VInv, NEW p \in Parties, Power(p)
  PROVE  VInv'
<1> DEFINE n == at[p]  w == Now(p)  c == Call(p)  m == c.power - 1
<1>1. ~ Finished(p) /\ stage[p] = "run" /\ c.op = "pow" /\ c.op \in Masking /\ ~ Bare(p) /\ Step(p)
  BY DEF Power, Calls, Step, Masking
<1>2. ValuesOK(p)
  BY DEF VInv
<1>3. AtReturn(p)
  BY <1>1, <1>2, AtReturnWhen
<1>4. c = prog[n] /\ CallFacts(c, n) /\ result[p] = w.results[p]
  BY <1>3 DEF AtReturn
<1>5. Dealt(c) = m
  BY <1>1, <1>4, DealtType
<1>6. X(p) = w.results[p][prog[n].x]
  BY <1>4 DEF X
<1>7. CASE p = 0
  <2> DEFINE r_pow == [j \in 1 .. m |-> Pow(X(p).r[1], j + 1)]
             rest == Missing(r_pow, Drawn(p, Ask(NotHub, m)))
  <2>1. Drawing(p, Ask(NotHub, m), <<n, 0>>) /\ SendTo(0, 1, rest) /\ Returns(p, Sharetensor(0))
    BY <1>7 DEF Power
  <2>2. Drawn(0, Ask(NotHub, m)) = HelpersDraws(prog, tape, at[0])
    BY <1>3, <1>5, <1>7, DealersDraws
  <2>3. Given(prog[n], tape, w)
          = [j \in 1 .. prog[n].power - 1 |-> Pow(w.results[0][prog[n].x].r[1], j + 1)]
    BY <1>1, <1>4 DEF Given
  <2>4. rest = Missing(Given(prog[n], tape, w), HelpersDraws(prog, tape, n))
    BY <1>4, <1>6, <1>7, <2>2, <2>3
  <2>5. rest = Deals(prog, tape, n, w)
    BY <1>1, <1>4, <2>4 DEF Deals
  <2>6. 0 = NewShare(prog, tape, n, w, p)
    BY <1>1, <1>4, <1>7 DEF NewShare
  <2> HIDE DEF rest, m
  <2>7. QED BY <1>1, <1>5, <1>7, <2>1, <2>5, <2>6, DealerEnds
<1>8. CASE p # 0
  <2> DEFINE a == powers_cached(p, X(p), c.power, DealtTo(p, m))
  <2>1. TakeDealt(p, m) /\ Returns(p, Sharetensor(a))
    BY <1>8 DEF Power
  <2>2. DealtTo(p, m) = DealtIn(prog, tape, n, w, p) => a = NewShare(prog, tape, n, w, p)
    BY <1>1, <1>4, <1>6, <1>8 DEF NewShare
  <2>3. p \in Computing
    BY <1>8, ComputingParties
  <2> HIDE DEF a, m
  <2>4. QED BY <1>1, <1>5, <2>1, <2>2, <2>3, ComputingEnds
<1>9. QED BY <1>7, <1>8

\* What the dealer of trunc draws: its own mask, and what the helpers draw of the shares.
LEMMA TruncDraws ==
  ASSUME IInv, AtReturn(0), Call(0).op = "trunc", NEW v, v = Drawn(0, TruncAsks(0))
  PROVE  /\ Head(v)[1] % TwoTo[K + V] = DealersMask(tape, Now(0))
         /\ Tail(v) = HelpersDraws(prog, tape, at[0])
<1>1. 0 \in Parties /\ Types /\ RngOK(0, rng[0], drawn[0]) /\ prog \in Programs /\ tape \in Tapes
      /\ at[0] \in 1 .. Len(prog) /\ Call(0) = prog[at[0]] /\ CallFacts(Call(0), at[0])
      /\ Len(drawn[0][0]) = Now(0).own /\ N - 2 \in Nat /\ N - 1 = (N - 2) + 1
  BY PartyFacts DEF AtReturn
<1>2. Dealt(Call(0)) = 2
  BY <1>1, DealtType
<1> DEFINE asks == TruncAsks(0)  rest == Ask(NotHub, 2)  a == [from |-> 0, n |-> 1]
           u == HelpersDraws(prog, tape, at[0])
<1>3. /\ asks \in Seq(Asks) /\ Distinct(asks) /\ Len(asks) = N - 1 /\ asks[1].n = 1
      /\ \A j \in 2 .. N - 1 : asks[j].n = 2
  BY TruncAsksRight DEF AsksAmong
<1>4. AsksFor(rest, 2 .. N - 1, 2) /\ Len(rest) = N - 2
  BY AskNotHub
<1>5. asks[1] = a /\ \A j \in 1 .. N - 2 : asks[j + 1] = rest[j]
  <2>1. rest \in Seq(Asks) /\ Distinct(rest) /\ a \in Asks /\ a.from \notin 2 .. N - 1
    BY <1>1, <1>4 DEF AsksFor, Asks
  <2>2. asks = <<a>> \o rest
    BY DEF TruncAsks
  <2> HIDE DEF asks, rest, a
  <2> DEFINE S == 2 .. N - 1
  <2>3. AsksFor(rest, S, 2) /\ a.from \notin S
    BY <1>4, <2>1
  <2> HIDE DEF S
  <2>4. (<<a>> \o rest)[1] = a /\ \A j \in 1 .. Len(rest) : (<<a>> \o rest)[j + 1] = rest[j]
    BY <2>1, <2>3, HeadFirst
  <2>5. QED BY <1>4, <2>2, <2>4
<1>6. \A i \in 1 .. N - 2 : rest[i].from = i + 1
  BY DEF Ask, NotHub
<1>7. asks[1].from = 0 /\ v = Drawn(0, asks)
  BY <1>5
<1> HIDE DEF asks, rest, a
<1>8. DrawsOf(0, asks, v)
  BY <1>1, <1>3, <1>7, DrawnValues
<1>9. v \in Seq(Seq(Bits)) /\ Len(v) = N - 1 /\ \A j \in 2 .. N - 1 : Len(v[j]) = 2
  <2>1. v \in Seq(Seq(Bits)) /\ Len(v) = N - 1 /\ \A j \in 1 .. N - 1 : Len(v[j]) = asks[j].n
    BY <1>3, <1>8 DEF DrawsOf
  <2>2. \A j \in 2 .. N - 1 : j \in 1 .. N - 1
    BY <1>1
  <2>3. QED BY <1>3, <2>1, <2>2
<1>10. Full(Tail(v), 2) /\ Head(v) = v[1]
  BY <1>9, TailFull
<1>11. Head(v)[1] % TwoTo[K + V] = DealersMask(tape, Now(0))
  <2>1. 1 \in 1 .. Len(asks) /\ 1 \in 1 .. asks[1].n
    BY <1>1, <1>3
  <2>2. Drawn(0, asks)[1][1] = At(tape, seed_of(0, asks[1].from), Len(drawn[0][asks[1].from]) + 1)
    BY <1>1, <1>3, <2>1, DrawnAt
  <2>3. v[1][1] = At(tape, <<0, 0>>, Now(0).own + 1)
    BY <1>1, <1>7, <2>2, DealersSeeds DEF asks
  <2>4. QED BY <1>10, <2>3 DEF DealersMask
<1>12. Full(u, 2) /\ \A i \in 1 .. N - 2 : \A j \in 1 .. 2 : u[i][j] = LastAt(prog, tape, at[0], <<0, i + 1>>, j)
  BY <1>1, <1>2, HelpersFull
<1>13. ASSUME NEW i \in 1 .. N - 2, NEW j \in 1 .. 2 PROVE Tail(v)[i][j] = u[i][j]
  <2>1. i + 1 # 0 /\ i + 1 \in Computing /\ i + 1 \in 1 .. N - 1 /\ i + 1 \in 2 .. N - 1
    BY <1>1 DEF Computing
  <2>2. seed_of(0, i + 1) = <<0, i + 1>>
    BY <2>1, DealersSeeds
  <2> DEFINE k == i + 1
  <2>3. k \in 1 .. Len(asks) /\ asks[k].from = k /\ asks[k].from # 0 /\ asks[k].n = 2
    BY <1>3, <1>5, <1>6, <2>1
  <2>4. Tail(v)[i] = v[k]
    BY <1>1, <1>9
  <2> HIDE DEF k
  <2>5. j \in 1 .. asks[k].n
    BY <2>3
  <2>6. Drawn(0, asks)[k][j] = LastAt(prog, tape, at[0], seed_of(0, asks[k].from), j)
    BY <1>1, <1>3, <2>3, <2>5, DrawnLast
  <2>7. v[k][j] = LastAt(prog, tape, at[0], seed_of(0, k), j)
    BY <2>3, <2>6 DEF asks
  <2>8. QED BY <1>12, <2>2, <2>4, <2>7 DEF k
<1> DEFINE x == Tail(v)
<1>14. \A i \in 1 .. N - 2 : \A j \in 1 .. 2 : x[i][j] = u[i][j]
  BY <1>13
<1>15. Full(x, 2)
  BY <1>10
<1> HIDE DEF u, x
<1>16. x = u
  BY <1>12, <1>14, <1>15, FullSame
<1>17. QED BY <1>11, <1>16 DEF u, x

LEMMA TruncateDealerRight ==
  ASSUME IInv, IInv', VInv, NEW p \in Parties, TruncateDealer(p)
  PROVE  VInv'
<1> DEFINE n == at[0]  w == Now(0)  c == Call(0)  asks == TruncAsks(0)  d == Drawn(0, asks)
           mask == Head(d)[1] % TwoTo[K + V]  v == Missing(<<mask, low(mask)>>, Tail(d))
           t == Sharetensor(X(0).share)
<1>1. p = 0 /\ ~ Finished(0) /\ stage[0] = "run" /\ c.op = "trunc" /\ Step(0)
      /\ Drawing(0, asks, <<n, 0>>) /\ SendTo(0, 1, v) /\ Returns(0, t)
  BY DEF TruncateDealer, Calls, Step, TruncAsks
<1>2. Alone(0) /\ Types /\ RngOK(0, rng[0], drawn[0]) /\ ValuesOK(0) /\ 0 \in Parties
  BY <1>1, StepAlone, PartyFacts DEF IInv, VInv
<1>3. c.op \notin Masking
  BY <1>1 DEF Masking
<1>4. AtReturn(0)
  BY <1>1, <1>2, <1>3, AtReturnWhen
<1>5. New(0) = Wanted(c, Before(0).parted) /\ c = prog[n] /\ CallFacts(c, n) /\ <<n, 0>> \in Marks
      /\ result[0] = w.results[0] /\ Len(drawn[0][0]) = w.own /\ Here(0)
  BY <1>2, <1>4 DEF AtReturn
<1>6. mask = DealersMask(tape, w) /\ Tail(d) = HelpersDraws(prog, tape, n)
  BY <1>1, <1>4, TruncDraws
<1>7. Given(prog[n], tape, w) = <<DealersMask(tape, w), low(DealersMask(tape, w))>>
  BY <1>1, <1>5 DEF Given
<1>8. v = Missing(Given(prog[n], tape, w), HelpersDraws(prog, tape, n))
  BY <1>6, <1>7
<1>9. v = Deals(prog, tape, n, w)
  BY <1>1, <1>5, <1>8 DEF Deals
<1>10. t = NewTensor(prog, tape, n, w, 0)
  BY <1>1, <1>5 DEF NewTensor, NewShare, X
<1>11. Len(drawn'[0][0]) = End(prog, tape, n, w).own
  <2>1. asks \in Seq(Asks) /\ Distinct(asks) /\ Len(asks) = N - 1 /\ asks[1].n = 1
    BY TruncAsksRight DEF AsksAmong
  <2>2. asks[1].from = 0
    <3>1. Ask(NotHub, 2) \in Seq(Asks)
      BY AskNotHub DEF AsksFor
    <3> DEFINE rest == Ask(NotHub, 2)
    <3>2. asks = <<[from |-> 0, n |-> 1]>> \o rest
      BY DEF TruncAsks
    <3> HIDE DEF rest, asks
    <3>3. asks[1] = [from |-> 0, n |-> 1]
      BY <3>1, <3>2 DEF rest
    <3>4. QED BY <3>3
  <2>3. 1 \in 1 .. Len(asks)
    BY <2>1, PartyFacts
  <2> DEFINE what == <<n, 0>>
  <2>4. Drawing(0, asks, what) /\ what \in Marks
    BY <1>1, <1>5
  <2> HIDE DEF asks, what
  <2>5. Len(drawn'[0][0]) = Len(drawn[0][0]) + 1
    BY <1>2, <2>1, <2>2, <2>3, <2>4, OwnMoves
  <2>6. End(prog, tape, n, w).own = w.own + 1
    BY <1>1, <1>5, NowOwn
  <2>7. QED BY <1>5, <2>5, <2>6
<1>12. SendTo(0, 1, v) /\ Returns(0, t) /\ v = Deals(prog, tape, at[0], Now(0))
       /\ t = NewTensor(prog, tape, at[0], Now(0), 0)
       /\ Len(drawn'[0][0]) = End(prog, tape, at[0], Now(0)).own
  BY <1>1, <1>9, <1>10, <1>11
<1> HIDE DEF v, t
<1>13. ValuesOK(0)'
  BY <1>1, <1>2, <1>3, <1>12, ReturnsValues
<1>14. QED BY <1>1, <1>2, <1>5, <1>12, <1>13, DealerRight

LEMMA TruncateRight ==
  ASSUME IInv, IInv', VInv, NEW p \in Parties, Truncate(p)
  PROVE  VInv'
<1> DEFINE n == at[p]  w == Now(p)  c == Call(p)  dealt == DealtTo(p, 2)
           v == add_mod(X(p).share, dealt[1])  mask == <<dealt[2]>>
<1>1. p # 0 /\ ~ Finished(p) /\ stage[p] = "run" /\ c.op = "trunc" /\ Step(p)
      /\ EnterReveal(p, v, mask)
      /\ IF p = 1 THEN Arrived(0, 1, 2) /\ TakenFrom(0, 1, 2) /\ NoDraw
         ELSE Drawing(p, Ask(<<0>>, 2), <<at[p], 0>>) /\ SendTo(p, 1, <<v>>)
  BY DEF Truncate, Calls, Step, trunc_masks
<1>2. Alone(p) /\ Types /\ RngOK(p, rng[p], drawn[p]) /\ ValuesOK(p) /\ p \in Computing
  BY <1>1, StepAlone, ComputingParties DEF IInv, VInv
<1>3. c.op \notin Masking
  BY <1>1 DEF Masking
<1>4. AtReturn(p)
  BY <1>1, <1>2, <1>3, AtReturnWhen
<1>5. New(p) = Wanted(c, Before(p).parted) /\ c = prog[n] /\ CallFacts(c, n)
      /\ result[p] = w.results[p]
  BY <1>4 DEF AtReturn
<1>6. Dealt(c) = 2
  BY <1>1, <1>5, DealtType
<1>7. dealt = DealtIn(prog, tape, n, w, p)
  BY <1>1, <1>2, <1>4, <1>6, DealtRight
<1>8. ShownNext(p, Shown(p))
  BY <1>1, <1>5, ShownRight
<1>9. v = Shown(p)[p]
  BY <1>1, <1>2, <1>3, <1>5, <1>7 DEF Shown, EndValues, X
<1>10. v \in Residues
  BY <1>2, <1>8, <1>9 DEF ShownNext
<1>11. mask = <<DealtIn(prog, tape, at[p], Now(p), p)[2]>> /\ Len(mask) = 1
  BY <1>7
<1>12. MayEnter(p, mask)
  BY <1>1, <1>3, <1>11 DEF MayEnter
<1> HIDE DEF v, mask
<1>13. ValuesOK(p)'
  BY <1>1, <1>2, <1>3, <1>9, <1>11, <1>12, EntersValues
<1>14. CASE p = 1
  <2>1. Arrived(0, 1, 2) /\ TakenFrom(0, 1, 2)
    BY <1>1, <1>14
  <2>2. QED BY <1>2, <1>13, <1>14, <2>1, HubRight
<1>15. CASE p # 1
  <2>1. SendTo(p, 1, <<v>>) /\ p \in Helpers
    BY <1>1, <1>15, HelperFacts
  <2>2. QED BY <1>1, <1>2, <1>8, <1>9, <1>10, <1>13, <2>1, HelperRight
<1>16. QED BY <1>14, <1>15

-----------------------------------------------------------------------------
(***************************************************************************)
(* All of a behaviour.                                                     *)
(***************************************************************************)

LEMMA InitValues ==
  ASSUME Init
  PROVE  VInv
<1>1. prog \in Programs /\ Len(prog) \in Nat
  BY ProgramFacts DEF Init
<1>2. Ideal(prog, tape)[0] = Start
  BY <1>1, IdealRight
<1>3. ASSUME NEW p \in Parties PROVE ValuesOK(p)
  <2>1. /\ at[p] = 1 /\ stage[p] = "run" /\ result[p] = <<>> /\ out[p] = <<>>
        /\ drawn[p][p] = <<>>
    BY <1>3 DEF Init
  <2>2. New(p) = {}
    BY <2>1 DEF New, Parted
  <2>3. Behind(p) = Start
    BY <1>2, <2>1 DEF Behind
  <2>4. Now(p) = Start
    BY <2>2, <2>3 DEF Now, Parts, FirstPart
  <2>5. result[p] = Now(p).results[p]
    BY <2>1, <2>4 DEF Start
  <2>6. Len(drawn[p][p]) = 0 /\ Behind(p).own = 0
    BY <2>1, <2>3 DEF Start
  <2>7. OutRight(p)
    <3>1. 1 .. Len(out[p]) = {}
      BY <2>1
    <3>2. QED BY <3>1 DEF OutRight
  <2>8. QED BY <2>1, <2>5, <2>6, <2>7 DEF ValuesOK
<1>4. WiresOK
  <2>1. \A c \in Links : 1 .. Len(wire[c]) = {}
    BY DEF Init
  <2>2. <<0, 1>> \in Links /\ \A q \in Helpers : <<q, 1>> \in Links /\ <<1, q>> \in Links
    BY HelperFacts DEF Links
  <2>3. QED BY <2>1, <2>2 DEF WiresOK
<1>5. QED BY <1>3, <1>4 DEF VInv

LEMMA StutterValues ==
  ASSUME IInv, VInv, UNCHANGED vars
  PROVE  VInv'
<1>1. IInv'
  BY StutterRight
<1>2. 0 \in Parties /\ 1 \in Parties /\ wire' = wire /\ 0 \in Parties \ {1}
  BY HelperFacts DEF vars
<1>3. Alone(0) /\ Alone(1)
  BY DEF Alone, Elsewhere, vars
<1>4. ValuesOK(0)'
  BY <1>2, <1>3, OthersKeep DEF VInv
<1>5. QED BY <1>1, <1>2, <1>3, <1>4, QuietRight

LEMMA StepValues ==
  ASSUME IInv, IInv', VInv, NEW p \in Parties, Step(p)
  PROVE  VInv'
<1>1. CASE ShareOwn(p) \/ ShareDealers(p) \/ ShareOfOther(p)
  BY <1>1, SharingActions
<1>2. CASE AddShares(p) \/ SubtractShares(p) \/ AddPublic(p) \/ MultiplyPublic(p)
  BY <1>2, LinearActions
<1>3. CASE RevealCall(p)
  BY <1>3, RevealActions
<1>4. CASE HubSums(p)
  BY <1>4, HubActions
<1>5. CASE TakeSum(p)
  BY <1>5, AnswerActions
<1>6. CASE PartitionDealer(p)
  BY <1>6, DealersPartRight
<1>7. CASE Partition(p)
  BY <1>7, PartRightAt
<1>8. CASE BeaverReconstruct(p)
  BY <1>8, MultiplyRight
<1>9. CASE Power(p)
  BY <1>9, PowerRight
<1>10. CASE TruncateDealer(p)
  BY <1>10, TruncateDealerRight
<1>11. CASE Truncate(p)
  BY <1>11, TruncateRight
<1>12. QED
  BY <1>1, <1>2, <1>3, <1>4, <1>5, <1>6, <1>7, <1>8, <1>9, <1>10, <1>11 DEF Step

\* Whatever the interleaving, parties and links have what is ideal.
LEMMA AlwaysIdeal == Spec => [](IInv /\ VInv)
<1>1. Init => IInv /\ VInv
  BY InitRight, InitValues
<1>2. IInv /\ VInv /\ [Next]_vars => (IInv /\ VInv)'
  <2>1. ASSUME IInv, VInv, Next PROVE IInv' /\ VInv'
    <3>1. CASE Done
      BY <2>1, <3>1, StutterRight, StutterValues DEF Done
    <3>2. CASE \E p \in Parties : Step(p)
      BY <2>1, <3>2, StepRight, StepValues
    <3>3. QED BY <2>1, <3>1, <3>2 DEF Next
  <2>2. ASSUME IInv, VInv, UNCHANGED vars PROVE IInv' /\ VInv'
    BY <2>2, StutterRight, StutterValues
  <2>3. QED BY <2>1, <2>2
<1>3. QED BY <1>1, <1>2, PTL DEF Spec

-----------------------------------------------------------------------------
(***************************************************************************)
(* What is ideal, and what the parties have of it.                         *)
(***************************************************************************)

\* A party's results are those of the whole program, but for partitions it does not
\* have yet.
LEMMA HeldAll ==
  ASSUME IInv, VInv, NEW p \in Parties, NEW k \in 1 .. Len(result[p])
  PROVE  GrowsAt(result[p], All(prog, tape).results[p], k)
<1>1. Types /\ PlaceOK(p) /\ prog \in Programs /\ tape \in Tapes
  BY DEF IInv, Types
<1>2. Len(prog) \in Nat /\ at[p] \in 1 .. Len(prog) + 1 /\ at[p] \in Nat
  BY <1>1, PlaceType
<1>3. result[p] = Now(p).results[p]
  BY DEF VInv, ValuesOK
<1>4. Grows(Now(p), All(prog, tape))
  <2>1. CASE Finished(p)
    <3>1. at[p] - 1 = Len(prog) /\ at[p] - 1 \in 0 .. Len(prog)
      BY <1>2, <2>1 DEF Finished
    <3> DEFINE n == at[p] - 1
    <3>2. Now(p) = Ideal(prog, tape)[n] /\ n \in 0 .. Len(prog)
      BY <2>1, <3>1 DEF Now, Behind
    <3> HIDE DEF n
    <3>3. QED BY <1>1, <3>2, IdealGrows
  <2>2. CASE ~ Finished(p)
    <3>1. NowGrows(p)
      BY <2>2, HereAlways, NowGrowsAlways
    <3> DEFINE one == AllParts(prog, tape, at[p], Behind(p))  z == Ideal(prog, tape)[at[p]]
    <3>2. Grows(Now(p), one) /\ Grows(one, z) /\ Grows(z, All(prog, tape))
          /\ z = End(prog, tape, at[p], one)
          /\ Sized(Now(p)) /\ Sized(one) /\ Sized(z) /\ Sized(All(prog, tape))
      BY <3>1 DEF NowGrows
    <3> HIDE DEF one, z
    <3>3. Grows(Now(p), z)
      BY <3>2, GrowsOn
    <3>4. QED BY <3>2, <3>3, GrowsOn
  <2>3. QED BY <2>1, <2>2
<1>5. QED BY <1>3, <1>4 DEF Grows

LEMMA HasResults ==
  ASSUME IInv, NEW p \in Parties, NEW k \in Nat \ {0}, at[p] > k
  PROVE  k \in 1 .. Len(result[p])
<1>1. Len(result[p]) = at[p] - 1 /\ at[p] \in Nat
  BY PlaceType DEF IInv, PlaceOK
<1>2. QED BY <1>1

\* Where every computing party has its share, the shares add up to what is ideal.
LEMMA TotalAll ==
  ASSUME IInv, VInv, NEW k, \A p \in Computing : k \in 1 .. Len(result[p])
  PROVE  Total(k) = Whole(Column(All(prog, tape), k))
<1>1. ASSUME NEW p \in Computing
      PROVE  result[p][k].share = Column(All(prog, tape), k)[p].share
  <2>1. p \in Parties /\ k \in 1 .. Len(result[p])
    BY ComputingParties
  <2>2. GrowsAt(result[p], All(prog, tape).results[p], k)
    BY <2>1, HeldAll
  <2>3. QED BY <2>1, <2>2 DEF GrowsAt, Column
<1>2. [p \in Computing |-> result[p][k].share] = SharesOf(Column(All(prog, tape), k))
  BY <1>1 DEF SharesOf
<1>3. QED BY <1>2 DEF Total, Whole

\* The whole program's results.
LEMMA AllOK ==
  ASSUME NEW pr \in Programs, NEW t \in Tapes
  PROVE  /\ Len(pr) \in Nat
         /\ WorldOK(All(pr, t), Len(pr), Plan(pr)[Len(pr)].parted, Plan(pr)[Len(pr)].reveals,
                    Plan(pr)[Len(pr)].dealt)
         /\ AllCoherent(All(pr, t), Plan(pr)[Len(pr)].parted)
<1>1. Len(pr) \in Nat /\ Len(pr) \in 0 .. Len(pr)
  BY ProgramFacts
<1> DEFINE n == Len(pr)
<1>2. n \in 0 .. Len(pr)
  BY <1>1
<1>3. All(pr, t) = Ideal(pr, t)[n]
  BY DEF All
<1> HIDE DEF n
<1>4. Upto(pr, t, n) /\ AllCoherent(Ideal(pr, t)[n], Plan(pr)[n].parted)
  BY <1>2, UptoRight, IdealCoherent
<1>5. QED BY <1>1, <1>3, <1>4 DEF Upto, n

\* Partitions that everybody has are coherent.
LEMMA PartitionsRight ==
  ASSUME IInv, VInv
  PROVE  PartitionsCoherent
<1>1. prog \in Programs /\ tape \in Tapes
  BY DEF IInv, Types
<1> DEFINE all == All(prog, tape)  L == Len(prog)  P == Plan(prog)[L].parted
<1>2. L \in Nat /\ WorldOK(all, L, P, Plan(prog)[L].reveals, Plan(prog)[L].dealt) /\ AllCoherent(all, P)
  BY <1>1, AllOK
<1>3. ASSUME NEW k \in 1 .. L, \A p \in Parties : Len(result[p]) >= k /\ is_partitioned(result[p][k])
      PROVE  LET mask == SumMod([p \in Computing |-> result[p][k].r[1]])
                 x_r == result[1][k].x_r
             IN /\ result[0][k].r[1] = mask
                /\ \A p \in Computing : result[p][k].x_r = x_r
                /\ add_mod(x_r[1], mask) = Total(k)
  <2> DEFINE x == Column(all, k)
  <2>1. ASSUME NEW p \in Parties PROVE k \in 1 .. Len(result[p]) /\ x[p] = result[p][k]
    <3>1. k \in 1 .. Len(result[p])
      <4>1. result[p] \in Seq(Sharetensors)
        BY DEF IInv, Types, TypeOK
      <4>2. Len(result[p]) \in Nat /\ Len(result[p]) >= k
        BY <1>3, <4>1
      <4>3. QED BY <1>2, <4>2
    <3>2. GrowsAt(result[p], all.results[p], k)
      BY <3>1, HeldAll
    <3>3. all.results[p][k] = result[p][k]
      BY <1>3, <3>2 DEF GrowsAt
    <3>4. QED BY <3>1, <3>3 DEF Column
  <2>2. k \in P
    <3>1. is_partitioned(all.results[0][k]) /\ 0 \in Parties
      BY <1>3, <2>1, ComputingParties DEF Column
    <3>2. \A p \in Parties : \A i \in 1 .. L : is_partitioned(all.results[p][i]) <=> i \in P
      BY <1>2 DEF WorldOK
    <3> HIDE DEF all, L, P
    <3>3. QED BY <3>1, <3>2
  <2>3. Coherent(x)
    BY <1>2, <2>2 DEF AllCoherent
  <2>4. x \in Family
    BY <1>2, ColumnType
  <2>5. Total(k) = Whole(x)
    BY <2>1, TotalAll, ComputingParties
  <2> HIDE DEF x
  <2>6. [p \in Computing |-> result[p][k].r[1]] = MasksOf(x)
    BY <2>1, ComputingParties DEF MasksOf
  <2>7. SumMod([p \in Computing |-> result[p][k].r[1]]) = Mask(x)
    BY <2>6 DEF Mask
  <2>8. 0 \in Parties /\ 1 \in Parties /\ Computing \subseteq Parties
    BY ComputingParties
  <2>9. Parted_(x) /\ x[0].r[1] = Mask(x) /\ (\A p \in Computing : x[p].x_r = x[1].x_r)
        /\ Rem(x[1].x_r[1] + Mask(x)) = Rem(Whole(x))
    BY <2>3 DEF Coherent
  <2>10. x[1].x_r[1] \in Residues /\ Mask(x) \in Residues
    BY <2>4, <2>8, <2>9, PartsType
  <2>11. Whole(x) \in Residues
    BY <2>4, FamilyType
  <2>12. add_mod(x[1].x_r[1], Mask(x)) = Whole(x)
    <3> DEFINE a == x[1].x_r[1]  b == Mask(x)  c == Whole(x)
    <3>1. a \in Residues /\ b \in Residues /\ c \in Residues /\ Rem(a + b) = Rem(c)
      BY <2>9, <2>10, <2>11
    <3> HIDE DEF a, b, c
    <3>2. Rem(add_mod(a, b)) = Rem(a + b) /\ a \in Int /\ b \in Int
      BY <3>1, RemResidues
    <3>3. add_mod(a, b) \in Residues
      BY <3>2, ArithmeticTypes
    <3>4. add_mod(a, b) = c
      BY <3>1, <3>2, <3>3, SameResidue
    <3>5. QED BY <3>4 DEF a, b, c
  <2>13. x[0] = result[0][k] /\ x[1] = result[1][k] /\ \A p \in Computing : x[p] = result[p][k]
    BY <2>1, <2>8
  <2>14. QED BY <2>5, <2>7, <2>9, <2>12, <2>13
<1>4. QED BY <1>3 DEF PartitionsCoherent

\* The world w when the k-th call of pr ends.
EndOf(pr, t, k) == AllParts(pr, t, k, Ideal(pr, t)[k - 1])
PartedAtEnd(pr, k) == Plan(pr)[k - 1].parted \cup Wanted(pr[k], Plan(pr)[k - 1].parted)
RevealsAtEnd(pr, k) ==
  Plan(pr)[k - 1].reveals + Len(MaskDraws(k, pr[k], Wanted(pr[k], Plan(pr)[k - 1].parted)))
Ends(pr, t, k) ==
  LET w == EndOf(pr, t, k) IN
  /\ AtEnd(pr, t, k, w, PartedAtEnd(pr, k), RevealsAtEnd(pr, k), Plan(pr)[k - 1].dealt)
  /\ AllCoherent(w, PartedAtEnd(pr, k))
  /\ RevealsAtEnd(pr, k) \in Nat /\ Plan(pr)[k - 1].dealt \in Nat /\ k - 1 \in Nat
  /\ Grows(w, All(pr, t)) /\ CallFacts(pr[k], k)
  /\ \A p \in Parties : All(pr, t).results[p][k].share = NewTensor(pr, t, k, w, p).share
  /\ Whole(Column(All(pr, t), k)) = Whole(NewColumn(pr, t, k, w))
  /\ \A i \in 1 .. k - 1 : Whole(Column(All(pr, t), i)) = Whole(Column(w, i))

LEMMA EndsOf ==
  ASSUME NEW pr \in Programs, NEW t \in Tapes, NEW k \in 1 .. Len(pr)
  PROVE  Ends(pr, t, k)
<1> DEFINE v == Ideal(pr, t)[k - 1]  plan == Plan(pr)[k - 1]  P == plan.parted
           S == PartedAtEnd(pr, k)  r == RevealsAtEnd(pr, k)  d == plan.dealt  w == EndOf(pr, t, k)
           z == Ideal(pr, t)[k]  all == All(pr, t)
<1>1. Len(pr) \in Nat /\ k - 1 \in 0 .. Len(pr) /\ k \in 0 .. Len(pr) /\ k \in Nat /\ k - 1 \in Nat
      /\ CallFacts(pr[k], k)
  BY ProgramFacts
<1>2. Upto(pr, t, k - 1) /\ Upto(pr, t, k) /\ Ended(pr, t, k, v) /\ z = End(pr, t, k, w)
  BY CallRight DEF EndOf
<1>3. AtEnd(pr, t, k, w, S, r, d) /\ r \in Nat /\ d \in Nat /\ Grows(w, z)
  BY <1>2 DEF Ended, EndOf, PartedAtEnd, RevealsAtEnd
<1>4. WorldOK(w, k - 1, S, r, d)
  BY <1>3 DEF AtEnd
<1>5. AllCoherent(w, S)
  <2>1. AllCoherent(v, P)
    BY <1>1, IdealCoherent
  <2>2. plan \in Works
    BY PlaceInt, DealersSeeds
  <2>3. plan.reveals \in Nat
    BY <2>2 DEF Works
  <2>4. WorldOK(v, k - 1, P, plan.reveals, plan.dealt)
    BY <1>2 DEF Upto
  <2> HIDE DEF v
  <2>5. AllCoherent(AllParts(pr, t, k, v), P \cup Wanted(pr[k], P))
    BY <2>1, <2>3, <2>4, PartsAllCoherent
  <2>6. QED BY <2>5 DEF EndOf, PartedAtEnd, v
<1>6. Grows(z, all) /\ WorldOK(z, k, Plan(pr)[k].parted, Plan(pr)[k].reveals, Plan(pr)[k].dealt)
  BY <1>1, <1>2, IdealGrows DEF Upto
<1>7. Grows(w, all)
  <2>1. Sized(w) /\ Sized(z) /\ Sized(all)
    BY <1>4, <1>6, AllOK, WorldSized
  <2> HIDE DEF w, z, all
  <2>2. QED BY <1>3, <1>6, <2>1, GrowsOn
<1>8. k \in 1 .. k /\ Column(z, k) = NewColumn(pr, t, k, w)
  BY <1>1, <1>2 DEF NewColumn
<1> HIDE DEF w, z, all, S, r, d
<1>9. /\ SharesOf(Column(all, k)) = SharesOf(Column(z, k))
      /\ Whole(Column(all, k)) = Whole(NewColumn(pr, t, k, w))
  BY <1>6, <1>8, ColumnGrows
<1>10. ASSUME NEW i \in 1 .. k - 1 PROVE Whole(Column(all, i)) = Whole(Column(w, i))
  BY <1>4, <1>7, ColumnGrows
<1>11. ASSUME NEW p \in Parties PROVE all.results[p][k].share = NewTensor(pr, t, k, w, p).share
  <2>1. Len(z.results[p]) = k
    BY <1>6 DEF WorldOK
  <2>2. all.results[p][k].share = z.results[p][k].share
    BY <1>1, <1>6, <2>1 DEF Grows, GrowsAt
  <2>3. NewColumn(pr, t, k, w)[p] = NewTensor(pr, t, k, w, p)
    BY <1>3, NewColumnType
  <2>4. z.results[p][k] = NewTensor(pr, t, k, w, p)
    BY <1>8, <2>3 DEF Column
  <2>5. QED BY <2>2, <2>4
<1>12. QED
  BY <1>1, <1>3, <1>5, <1>7, <1>9, <1>10, <1>11 DEF Ends, w, all, S, r, d

\* reveal gives everybody the sum of the shares.
LEMMA RevealIdeal ==
  ASSUME NEW pr \in Programs, NEW t \in Tapes, NEW k \in 1 .. Len(pr), pr[k].op = "reveal",
         NEW p \in Computing
  PROVE  /\ pr[k].x \in 1 .. k - 1
         /\ All(pr, t).results[p][k].share = Whole(Column(All(pr, t), pr[k].x))
<1> DEFINE w == EndOf(pr, t, k)  x == pr[k].x
<1>1. Ends(pr, t, k) /\ p \in Parties /\ p # 0
  BY EndsOf, ComputingParties
<1>2. x \in 1 .. k - 1
  BY <1>1 DEF Ends, CallFacts
<1>3. All(pr, t).results[p][k].share = NewTensor(pr, t, k, w, p).share
  BY <1>1 DEF Ends
<1>4. NewTensor(pr, t, k, w, p) = Sharetensor(SumMod(EndValues(pr, t, k, w)))
  BY <1>1 DEF NewTensor, NewShare
<1>5. EndValues(pr, t, k, w) = [q \in Computing |-> w.results[q][x].share]
  BY DEF EndValues
<1>6. SharesOf(Column(w, x)) = [q \in Computing |-> w.results[q][x].share]
  BY ComputingParties DEF SharesOf, Column
<1>7. Whole(Column(All(pr, t), x)) = Whole(Column(w, x))
  BY <1>1, <1>2 DEF Ends
<1>8. Sharetensor(SumMod(EndValues(pr, t, k, w))).share = SumMod(EndValues(pr, t, k, w))
  BY DEF Sharetensor
<1>9. QED BY <1>2, <1>3, <1>4, <1>5, <1>6, <1>7, <1>8 DEF Whole

-----------------------------------------------------------------------------
\* The later a party is, the more often it has called reveal.
LEMMA PlanReveals ==
  ASSUME NEW pr \in Programs, NEW m \in 0 .. Len(pr), NEW n \in m .. Len(pr)
  PROVE  Plan(pr)[m].reveals <= Plan(pr)[n].reveals
<1> DEFINE L == Len(pr)
           S == {i \in 0 .. L : m <= i => Plan(pr)[m].reveals <= Plan(pr)[i].reveals}
<1>1. L \in Nat /\ m \in 0 .. L
  BY ProgramFacts
<1>2. \A i \in 0 .. L : Plan(pr)[i].reveals \in Nat
  BY PlanRight DEF PlanFacts, Works
<1>3. 0 \in S
  BY <1>1, <1>2
<1>4. ASSUME NEW i \in 1 .. L, i - 1 \in S PROVE i \in S
  <2>1. i \in 0 .. L /\ i - 1 \in 0 .. L /\ i \in Nat
    BY <1>1
  <2>2. CASE m = i
    BY <1>2, <2>1, <2>2
  <2>3. CASE m <= i - 1
    <3> DEFINE c == pr[i]  W == Wanted(c, Plan(pr)[i - 1].parted)
    <3>1. Plan(pr)[i] = After(i, c, Plan(pr)[i - 1])
      BY PlanRight DEF PlanFacts
    <3>2. Len(MaskDraws(i, c, W)) \in Nat
      BY <2>1, ProgramFacts, MaskDrawsType
    <3>3. Plan(pr)[i].reveals = Plan(pr)[i - 1].reveals + Len(MaskDraws(i, c, W))
                                  + (IF c.op \in {"reveal", "trunc"} THEN 1 ELSE 0)
      BY <3>1 DEF After
    <3>4. Plan(pr)[m].reveals <= Plan(pr)[i - 1].reveals
      BY <1>4, <2>3
    <3> DEFINE a == Plan(pr)[m].reveals  b == Plan(pr)[i - 1].reveals  e == Plan(pr)[i].reveals
               l == Len(MaskDraws(i, c, W))
    <3>5. a \in Nat /\ b \in Nat /\ e \in Nat /\ l \in Nat /\ a <= b
          /\ e = b + l + (IF c.op \in {"reveal", "trunc"} THEN 1 ELSE 0)
      BY <1>1, <1>2, <2>1, <3>2, <3>3, <3>4
    <3> HIDE DEF a, b, e, l, c
    <3>6. a <= e
      BY <3>5
    <3>7. QED BY <2>1, <3>6 DEF a, e
  <2>4. CASE m > i
    BY <2>1, <2>4, <1>1
  <2>5. QED BY <1>1, <2>1, <2>2, <2>3, <2>4
<1> HIDE DEF S
<1>5. 0 .. L \subseteq S
  <2> HIDE DEF L
  <2>1. QED BY <1>1, <1>3, <1>4, InductionTo
<1>6. n \in 0 .. L /\ m <= n
  BY <1>1
<1>7. QED BY <1>5, <1>6 DEF S

\* A party has called reveal no oftener than its call and those before it do.
LEMMA RevealsBound ==
  ASSUME IInv, NEW p \in Parties, ~ Finished(p)
  PROVE  Reveals(p) <= Plan(prog)[at[p]].reveals
<1> DEFINE c == Call(p)  P == Before(p).parted  W == Wanted(c, P)  n == at[p]
           e == IF c.op \in {"reveal", "trunc"} THEN 1 ELSE 0
<1>1. Types /\ PlaceOK(p) /\ Here(p)
  BY HereAlways DEF IInv
<1>2. n \in 1 .. Len(prog) /\ n \in Nat /\ CallFacts(c, n) /\ c = prog[n] /\ prog \in Programs
      /\ Answers(p) = Before(p).reveals + Len(MaskDraws(n, c, New(p)))
      /\ Before(p).reveals \in Nat
  BY <1>1 DEF Here
<1>3. Plan(prog)[n] = After(n, c, Before(p))
  BY <1>2, PlanRight DEF PlanFacts, Before
<1>4. Plan(prog)[n].reveals = Before(p).reveals + Len(MaskDraws(n, c, W)) + e
  BY <1>3 DEF After
<1>5. Masked(p) \subseteq W /\ (Masked(p) # {} /\ c.x \in W => c.x \in Masked(p))
  BY <1>1, MasksInOrder
<1>6. Len(MaskDraws(n, c, Masked(p))) <= Len(MaskDraws(n, c, W))
  BY <1>2, <1>5, MasksBegin DEF Begins
<1>7. \A S : Len(MaskDraws(n, c, S)) \in Nat
  BY <1>2, MaskDrawsType
<1>8. CASE Revealing(p, Masking)
  <2>1. c.op \in Masking /\ Bare(p) /\ stage[p] = "reveal"
    BY <1>1, <1>8 DEF PlaceOK, Revealing
  <2>2. NextOperand(p)
    BY <1>1, <2>1, BareOperand
  <2>3. MaskDraws(n, c, New(p) \cup {Operand(p)}) = MaskDraws(n, c, New(p)) \o Marked(1, <<n, Operand(p)>>)
    BY <2>2 DEF NextOperand
  <2>4. Masked(p) = New(p) \cup {Operand(p)}
    BY <1>8 DEF Masked
  <2>5. MaskDraws(n, c, New(p)) \in Seq(Marks) /\ <<n, Operand(p)>> \in Marks
    <3>1. Operand(p) \in Nat
      BY <1>2, <2>2 DEF NextOperand
    <3>2. QED BY <1>2, <3>1, MaskDrawsType DEF Marks
  <2>6. Len(MaskDraws(n, c, Masked(p))) = Len(MaskDraws(n, c, New(p))) + 1
    <3> DEFINE what == <<n, Operand(p)>>  f == MaskDraws(n, c, New(p))
               g == MaskDraws(n, c, Masked(p))  one == Marked(1, what)
    <3>1. 1 \in Nat /\ what \in Marks /\ f \in Seq(Marks) /\ g = f \o one
      BY <2>3, <2>4, <2>5
    <3> HIDE DEF what, f, g
    <3>2. one \in Seq(Marks) /\ Len(one) = 1
      BY <3>1, MarkedType
    <3> HIDE DEF one
    <3>3. Len(g) = Len(f) + 1
      BY <3>1, <3>2, ConcatLen
    <3>4. QED BY <3>3 DEF f, g
  <2>7. Reveals(p) = Answers(p) + 1
    BY <2>1 DEF Reveals
  <2> DEFINE a == Len(MaskDraws(n, c, New(p)))  b == Len(MaskDraws(n, c, Masked(p)))
             l == Len(MaskDraws(n, c, W))  r == Before(p).reveals
  <2>8. a \in Nat /\ b \in Nat /\ l \in Nat /\ r \in Nat /\ b <= l /\ b = a + 1
        /\ Reveals(p) = r + a + 1 /\ Plan(prog)[n].reveals = r + l + e /\ e \in Nat
    BY <1>2, <1>4, <1>6, <1>7, <2>6, <2>7
  <2> HIDE DEF a, b, l, r, e
  <2>9. QED BY <2>8
<1>9. CASE ~ Revealing(p, Masking)
  <2>1. Masked(p) = New(p)
    BY <1>9 DEF Masked
  <2>2. stage[p] = "reveal" => e = 1
    BY <1>1, <1>9 DEF PlaceOK, Revealing
  <2>3. e \in {0, 1}
    OBVIOUS
  <2> DEFINE a == Len(MaskDraws(n, c, New(p)))  l == Len(MaskDraws(n, c, W))  r == Before(p).reveals
  <2>4. a \in Nat /\ l \in Nat /\ r \in Nat /\ a <= l /\ Plan(prog)[n].reveals = r + l + e
        /\ Answers(p) = r + a
    BY <1>2, <1>4, <1>6, <1>7, <2>1
  <2> HIDE DEF a, l, r, e
  <2>5. QED BY <2>2, <2>3, <2>4 DEF Reveals
<1>10. QED BY <1>8, <1>9

\* The hub has answered every helper, and has answered none before it revealed.
LEMMA AnsweredAll ==
  ASSUME IInv, NEW p \in Computing, NEW q \in Computing
  PROVE  Answers(p) <= Reveals(q) /\ Answers(p) \in Nat /\ Reveals(q) \in Nat
<1>1. Types /\ LinksOK /\ p \in Parties /\ q \in Parties /\ 1 \in Parties
  BY ComputingParties DEF IInv
<1>2. /\ Answers(p) \in Nat /\ Reveals(p) \in Nat /\ Answers(q) \in Nat /\ Reveals(q) \in Nat
      /\ Answers(1) \in Nat /\ Reveals(1) \in Nat
  BY <1>1, CountTypes
<1>3. ASSUME NEW i \in Computing, i # 1
      PROVE  Answers(i) <= Answers(1) /\ Answers(1) <= Reveals(i)
  <2>1. i \in Helpers /\ i \in Parties
    BY <1>3, ComputingParties DEF Helpers, Computing
  <2>2. <<i, 1>> \in Links /\ <<1, i>> \in Links
    BY <1>1, <1>3, <2>1 DEF Links
  <2>3. wire[<<i, 1>>] \in Seq(Residues) /\ wire[<<1, i>>] \in Seq(Residues)
    BY <1>1, <2>2 DEF Types, TypeOK
  <2>4. Len(wire[<<i, 1>>]) \in Nat /\ Len(wire[<<1, i>>]) \in Nat
    BY <2>3
  <2>5. /\ Len(wire[<<i, 1>>]) + Answers(1) = Reveals(i)
        /\ Len(wire[<<1, i>>]) + Answers(i) = Answers(1)
    BY <1>1, <2>1 DEF LinksOK
  <2>6. Answers(i) \in Nat /\ Reveals(i) \in Nat
    BY <1>1, <2>1, CountTypes
  <2>7. QED BY <1>2, <2>4, <2>5, <2>6
<1>4. Answers(1) <= Reveals(1)
  BY <1>2 DEF Reveals
<1>5. Answers(p) <= Answers(1)
  BY <1>2, <1>3
<1>6. Answers(1) <= Reveals(q)
  BY <1>3, <1>4
<1>7. QED BY <1>2, <1>5, <1>6

\* Who has had the answer of a reveal has it from all: nobody is before the call.
LEMMA NobodyBehind ==
  ASSUME IInv, NEW p \in Computing, NEW k \in 1 .. at[p] - 1, prog[k].op = "reveal",
         NEW q \in Computing
  PROVE  at[q] >= k
<1>1. Types /\ p \in Parties /\ q \in Parties /\ prog \in Programs
  BY ComputingParties DEF IInv, Types
<1>2. /\ Len(prog) \in Nat /\ at[p] \in 1 .. Len(prog) + 1 /\ at[q] \in 1 .. Len(prog) + 1
      /\ at[p] \in Nat /\ at[q] \in Nat
  BY <1>1, PlaceType
<1>3. k \in 1 .. Len(prog) /\ k \in 0 .. Len(prog) /\ k - 1 \in 0 .. Len(prog) /\ k \in Nat
      /\ at[p] - 1 \in k .. Len(prog)
  BY <1>2
<1>4. SUFFICES ASSUME at[q] < k PROVE FALSE
  BY <1>2, <1>3
<1>5. ~ Finished(q) /\ at[q] \in 0 .. Len(prog) /\ k - 1 \in at[q] .. Len(prog)
  BY <1>2, <1>3, <1>4 DEF Finished
<1> DEFINE b == Plan(prog)[at[q]].reveals  c == Plan(prog)[k - 1].reveals
           d == Plan(prog)[k].reveals  e == Plan(prog)[at[p] - 1].reveals
           l == Len(MaskDraws(k, prog[k], Wanted(prog[k], Plan(prog)[k - 1].parted)))
<1>6. \A i \in 0 .. Len(prog) : Plan(prog)[i].reveals \in Nat
  BY <1>1, PlanRight DEF PlanFacts, Works
<1>7. at[p] - 1 \in 0 .. Len(prog)
  BY <1>2
<1>8. b \in Nat /\ c \in Nat /\ d \in Nat /\ e \in Nat
  BY <1>3, <1>5, <1>6, <1>7
<1>9. Reveals(q) <= b
  BY <1>1, <1>5, RevealsBound
<1>10. b <= c
  BY <1>1, <1>5, PlanReveals
<1>11. d <= e
  BY <1>1, <1>3, PlanReveals
<1>12. l \in Nat
  BY <1>1, <1>3, ProgramFacts, MaskDrawsType
<1>13. d = c + l + 1
  <2>1. Plan(prog)[k] = After(k, prog[k], Plan(prog)[k - 1])
    BY <1>1, <1>3, PlanRight DEF PlanFacts
  <2>2. QED BY <2>1 DEF After
<1>14. Answers(p) >= e
  <2>1. Before(p).reveals = e
    BY DEF Before
  <2>2. CASE Finished(p)
    BY <1>8, <2>1, <2>2 DEF Answers
  <2>3. CASE ~ Finished(p)
    <3>1. Len(MaskDraws(at[p], Call(p), New(p))) \in Nat
      BY <1>1, <2>3, PlaceType, MaskDrawsType
    <3> DEFINE a == Len(MaskDraws(at[p], Call(p), New(p)))
    <3>2. Answers(p) = e + a /\ a \in Nat
      BY <2>1, <2>3, <3>1 DEF Answers
    <3> HIDE DEF a, e
    <3>3. QED BY <1>8, <3>2
  <2>4. QED BY <2>2, <2>3
<1>15. Answers(p) <= Reveals(q) /\ Answers(p) \in Nat /\ Reveals(q) \in Nat
  BY AnsweredAll
<1> HIDE DEF b, c, d, e, l
<1>16. QED BY <1>8, <1>9, <1>10, <1>11, <1>12, <1>13, <1>14, <1>15

LEMMA RevealsRight ==
  ASSUME IInv, VInv
  PROVE  RevealedRight
<1> SUFFICES ASSUME NEW p \in Computing, NEW i \in 1 .. Len(out[p])
             PROVE  out[p][i].value = Total(prog[out[p][i].call].x)
  BY DEF RevealedRight
<1> DEFINE k == out[p][i].call  x == prog[k].x
<1>1. Types /\ p \in Parties /\ prog \in Programs /\ tape \in Tapes
  BY ComputingParties DEF IInv, Types
<1>2. /\ k \in 1 .. at[p] - 1 /\ prog[k].op = "reveal"
      /\ out[p][i].value = All(prog, tape).results[p][k].share
  BY <1>1 DEF VInv, ValuesOK, OutRight
<1>3. k \in 1 .. Len(prog) /\ k \in Nat
  <2>1. at[p] \in 1 .. Len(prog) + 1 /\ Len(prog) \in Nat
    BY <1>1, PlaceType
  <2> HIDE DEF k
  <2>2. QED BY <1>2, <2>1
<1> HIDE DEF k
<1>4. x \in 1 .. k - 1 /\ All(prog, tape).results[p][k].share = Whole(Column(All(prog, tape), x))
  BY <1>1, <1>2, <1>3, RevealIdeal
<1>5. ASSUME NEW q \in Computing PROVE x \in 1 .. Len(result[q])
  <2>1. q \in Parties /\ at[q] \in Nat
    BY <1>1, ComputingParties, PlaceType
  <2>2. at[q] >= k
    BY <1>2, NobodyBehind
  <2> HIDE DEF x
  <2>3. x \in Nat \ {0} /\ at[q] > x
    BY <1>3, <1>4, <2>1, <2>2
  <2>4. QED BY <2>1, <2>3, HasResults
<1>6. Total(x) = Whole(Column(All(prog, tape), x))
  <2> HIDE DEF x
  <2>1. QED BY <1>5, TotalAll
<1>7. QED BY <1>2, <1>4, <1>6 DEF k

-----------------------------------------------------------------------------
(***************************************************************************)
(* What each operation's shares add up to.                                 *)
(***************************************************************************)

LEMMA LinearWhole ==
  ASSUME NEW pr, NEW t, NEW n, NEW w, NEW S, NEW r \in Nat, NEW d \in Nat,
         AtEnd(pr, t, n, w, S, r, d)
  PROVE  LET c == pr[n]  z == Whole(NewColumn(pr, t, n, w))
             x == Whole(Column(w, c.x))  y == Whole(Column(w, c.y))
         IN /\ c.op = "add" => Rem(z) = Rem(x + y)
            /\ c.op = "sub" => Rem(z) = Rem(x - y)
            /\ c.op = "add_public" => Rem(z) = Rem(x + c.a)
            /\ c.op = "mul_public" => Rem(z) = Rem(x * c.a)
<1> DEFINE c == pr[n]  z == NewColumn(pr, t, n, w)  x == Column(w, c.x)  y == Column(w, c.y)
<1>1. z \in Family
  BY NewColumnType
<1>2. c.op # "share_from" => x \in Family
  BY OperandColumns
<1>3. c.op \in {"add", "sub"} => y \in Family
  BY OperandColumns
<1>4. c.op \in {"add", "sub", "add_public", "mul_public"} => LinearIs(c, x, y, z)
  BY LinearColumns
<1>5. c.op \in {"add_public", "mul_public"} => c.a \in Residues
  BY EndOperands DEF EndCalls, CallFacts
<1> HIDE DEF c, x, y, z
<1>6. c.op = "add" => Rem(Whole(z)) = Rem(Whole(x) + Whole(y))
  BY <1>1, <1>2, <1>3, <1>4, AddedWhole DEF LinearIs
<1>7. c.op = "sub" => Rem(Whole(z)) = Rem(Whole(x) - Whole(y))
  BY <1>1, <1>2, <1>3, <1>4, TakenWhole DEF LinearIs
<1>8. c.op = "add_public" => Rem(Whole(z)) = Rem(Whole(x) + c.a)
  BY <1>1, <1>2, <1>4, <1>5, ToppedWhole DEF LinearIs
<1>9. c.op = "mul_public" => Rem(Whole(z)) = Rem(Whole(x) * c.a)
  BY <1>1, <1>2, <1>4, <1>5, ScaledWhole DEF LinearIs
<1>10. QED BY <1>6, <1>7, <1>8, <1>9 DEF c, x, y, z

-----------------------------------------------------------------------------
\* One of the numbers is a given one less the sum m of the others: then all are the given one.
LEMMA Completed ==
  ASSUME NEW f \in Seq(Residues), NEW g \in Seq(Residues), NEW s, Without(f, s, g),
         NEW a \in Int, NEW m \in Int, Rem(m) = Rem(SumMod(g)), Rem(f[s]) = Rem(a - m)
  PROVE  Rem(SumMod(f)) = Rem(a)
<1> DEFINE e == f[s]  h == SumMod(g)
<1>1. s \in 1 .. Len(f)
  BY DEF Without
<1>2. e \in Int /\ h \in Int /\ SumMod(f) \in Int /\ a - m \in Int
  BY <1>1, SumsRight
<1>3. Rem(SumMod(f)) = Rem(h + e)
  BY SumSkip
<1>4. Rem(h) = Rem(m) /\ Rem(e) = Rem(a - m)
  OBVIOUS
<1> HIDE DEF e, h
<1>5. Rem(h + e) = Rem(m + (a - m))
  BY <1>2, <1>4, RemPlus
<1>6. m + (a - m) = a
  OBVIOUS
<1>7. QED BY <1>3, <1>5, <1>6

\* What the computing parties have of the j-th number that the dealer gives.
DealtOf(pr, t, n, w, j) == [p \in Computing |-> DealtIn(pr, t, n, w, p)[j]]

LEMMA DealtSum ==
  ASSUME NEW pr, NEW t, NEW n, NEW w, NEW S, NEW r, NEW d, AtEnd(pr, t, n, w, S, r, d),
         pr[n].op \in {"mul", "pow", "trunc"}, NEW j \in 1 .. Dealt(pr[n]),
         Given(pr[n], t, w)[j] \in Residues
  PROVE  /\ DealtOf(pr, t, n, w, j) \in [Computing -> Residues]
         /\ Rem(SumMod(DealtOf(pr, t, n, w, j))) = Rem(Given(pr[n], t, w)[j])
<1> DEFINE f == DealtOf(pr, t, n, w, j)  v == HelpersDraws(pr, t, n)
           g == [i \in 1 .. Len(NotHub) |-> v[i][j]]  a == Given(pr[n], t, w)[j]
           values == Given(pr[n], t, w)
<1>1. pr \in Programs /\ t \in Tapes /\ n \in 1 .. Len(pr)
  BY DEF AtEnd
<1>2. Full(v, Dealt(pr[n])) /\ Dealt(pr[n]) \in Nat
  BY <1>1, HelpersFull
<1>3. Len(NotHub) = N - 2 /\ N - 2 \in Nat /\ N - 2 >= 1
  BY AskNotHub, NAssumption
<1>4. f \in [Computing -> Residues]
  <2>1. ASSUME NEW p \in Computing PROVE DealtIn(pr, t, n, w, p)[j] \in Residues
    BY DealtInType
  <2>2. QED BY <2>1 DEF DealtOf
<1>5. f \in Seq(Residues) /\ Len(f) = N - 1
  BY <1>4, ComputingSeq
<1>6. g \in Seq(Residues) /\ Len(g) = N - 2
  <2>1. ASSUME NEW i \in 1 .. N - 2 PROVE v[i][j] \in Residues
    <3>1. v[i] \in Seq(Bits) /\ Len(v[i]) = Dealt(pr[n])
      BY <1>2 DEF Full
    <3>2. v[i][j] \in Bits
      BY <3>1
    <3>3. QED BY <3>2, WordAssumption DEF Bits, Residues
  <2>2. g \in [1 .. N - 2 -> Residues]
    BY <1>3, <2>1
  <2> HIDE DEF g
  <2>3. QED BY <1>3, <2>2
<1>7. f[1] = sub_mod(a, SumMod(g))
  <2>1. Deals(pr, t, n, w) = Missing(values, v)
    BY DEF Deals
  <2>2. DealtIn(pr, t, n, w, 1) = Deals(pr, t, n, w)
    BY DEF DealtIn
  <2>3. j \in DOMAIN values
    BY GivenType
  <2>4. Missing(values, v)[j] = sub_mod(values[j], SumMod([i \in 1 .. Len(NotHub) |-> v[i][j]]))
    BY <2>3 DEF Missing
  <2>5. f[1] = DealtIn(pr, t, n, w, 1)[j]
    BY ComputingParties DEF DealtOf
  <2>6. QED BY <2>1, <2>2, <2>4, <2>5
<1>8. Without(f, 1, g)
  <2>1. ASSUME NEW i \in 1 .. N - 2 PROVE g[i] = f[i + 1]
    <3>1. g[i] = v[i][j]
      BY <1>3
    <3>2. i + 1 \in Computing /\ i + 1 # 1 /\ (i + 1) - 1 = i
      BY NAssumption DEF Computing
    <3>3. DealtIn(pr, t, n, w, i + 1) = v[(i + 1) - 1]
      BY <3>2 DEF DealtIn
    <3>4. f[i + 1] = DealtIn(pr, t, n, w, i + 1)[j]
      BY <3>2 DEF DealtOf
    <3>5. QED BY <3>1, <3>2, <3>3, <3>4
  <2> HIDE DEF f, g
  <2>2. Len(f) = Len(g) + 1 /\ 1 \in 1 .. Len(f)
    BY <1>3, <1>5, <1>6, NAssumption
  <2>3. \A i \in 1 .. Len(g) : ~ (i < 1)
    BY <1>3, <1>6
  <2>4. QED BY <1>6, <2>1, <2>2, <2>3 DEF Without
<1> HIDE DEF f, g, a
<1>9. a \in Residues /\ SumMod(g) \in Residues /\ a \in Int /\ SumMod(g) \in Int
  BY <1>6, SumsRight, ResidueFacts DEF a
<1>10. Rem(f[1]) = Rem(a - SumMod(g))
  BY <1>7, <1>9, RemResidues
<1>11. Rem(SumMod(f)) = Rem(a)
  BY <1>5, <1>6, <1>8, <1>9, <1>10, Completed
<1>12. QED BY <1>4, <1>11 DEF f, a

\* The source of a datum takes all the masks from it at once: their sum is no more than it
\* and one modulus.
MaskFits(c) == (N - 2) * (Draws - 1) <= c.data + Modulus

LEMMA Blinds ==
  ASSUME NEW f \in Seq(Residues), NEW g \in Seq(Bits), NEW s, Without(f, s, g), Len(g) = N - 2,
         NEW a \in Residues, (N - 2) * (Draws - 1) <= a + Modulus, f[s] = sub_mod(a, SumWords(g))
  PROVE  Rem(SumMod(f)) = Rem(a)
<1> DEFINE b == (N - 2) * (Draws - 1)  m == SumWords(g)
<1>1. N - 2 \in Nat /\ Draws - 1 \in Nat /\ Modulus \in Nat \ {0} /\ Word \in Nat /\ 4 * Modulus <= Word
  BY NAssumption, WordAssumption
<1>2. b \in Int
  BY <1>1
<1>3. a \in Int /\ a < Modulus /\ a >= 0
  BY <1>1 DEF Residues
<1>4. b < Word /\ b <= a + Modulus
  <2>1. b <= a + Modulus
    OBVIOUS
  <2> HIDE DEF b
  <2>2. QED BY <1>1, <1>2, <1>3, <2>1
<1>5. m \in 0 .. b /\ Rem(m) = Rem(SumMod(g)) /\ g \in Seq(Residues)
  <2>1. Len(g) * (Draws - 1) < Word /\ Len(g) * (Draws - 1) = b
    BY <1>4
  <2>2. QED BY <2>1, WordsFit
<1> HIDE DEF b, m
<1>6. m \in 0 .. a + Modulus /\ m \in Int
  BY <1>1, <1>2, <1>3, <1>4, <1>5
<1>7. Rem(sub_mod(a, m)) = Rem(a - m)
  BY <1>6, RemSub
<1>8. f[s] = sub_mod(a, m)
  BY DEF m
<1>9. Rem(f[s]) = Rem(a - m)
  BY <1>7, <1>8
<1>10. QED BY <1>3, <1>5, <1>6, <1>9, Completed

\* The shares of a datum.
LEMMA ShareColumn ==
  ASSUME NEW pr, NEW t, NEW n, NEW w, NEW S, NEW r \in Nat, NEW d \in Nat,
         AtEnd(pr, t, n, w, S, r, d), pr[n].op = "share_from"
  PROVE  LET f == SharesOf(NewColumn(pr, t, n, w)) IN
         /\ f \in Seq(Residues) /\ Len(f) = N - 1
         /\ \A p \in Computing : f[p] = ShareOf(pr, t, n, w, p)
<1> DEFINE z == NewColumn(pr, t, n, w)
<1>1. z \in Family /\ \A p \in Parties : z[p] = NewTensor(pr, t, n, w, p)
  BY NewColumnType
<1>2. ASSUME NEW p \in Parties PROVE NewTensor(pr, t, n, w, p).share = ShareOf(pr, t, n, w, p)
  <2>1. NewTensor(pr, t, n, w, p) = Sharetensor(NewShare(pr, t, n, w, p))
    BY DEF NewTensor
  <2>2. NewShare(pr, t, n, w, p) = ShareOf(pr, t, n, w, p)
    BY DEF NewShare
  <2>3. QED BY <2>1, <2>2 DEF Sharetensor
<1> HIDE DEF z
<1>3. SharesOf(z) \in Seq(Residues) /\ Len(SharesOf(z)) = N - 1
      /\ \A p \in Computing : SharesOf(z)[p] = z[p].share
  BY <1>1, FamilyType
<1>4. ASSUME NEW p \in Computing PROVE SharesOf(z)[p] = ShareOf(pr, t, n, w, p)
  BY <1>1, <1>2, <1>3, ComputingParties
<1>5. QED BY <1>3, <1>4 DEF z

LEMMA DealersShares ==
  ASSUME NEW pr, NEW t, NEW n, NEW w, NEW S, NEW r \in Nat, NEW d \in Nat,
         AtEnd(pr, t, n, w, S, r, d), pr[n].op = "share_from", pr[n].source = 0, MaskFits(pr[n])
  PROVE  Rem(Whole(NewColumn(pr, t, n, w))) = Rem(pr[n].data)
<1> DEFINE f == SharesOf(NewColumn(pr, t, n, w))  v == HelpersDraws(pr, t, n)  g == Firsts(v)
           c == pr[n]
<1>1. pr \in Programs /\ t \in Tapes /\ n \in 1 .. Len(pr) /\ EndCalls(pr, n, w, S)
  BY EndOperands DEF AtEnd
<1>2. Dealt(c) = 1 /\ Full(v, 1)
  <2>1. Dealt(c) = 1
    BY DEF Dealt
  <2>2. QED BY <1>1, <2>1, HelpersFull
<1>3. N - 2 \in Nat /\ N \in Nat /\ N - 1 = (N - 2) + 1
  BY NAssumption
<1>4. f \in Seq(Residues) /\ Len(f) = N - 1
  BY ShareColumn
<1>5. ASSUME NEW i \in 1 .. N - 2 PROVE v[i][1] \in Bits
  <2>1. v[i] \in Seq(Bits) /\ Len(v[i]) = 1
    BY <1>2 DEF Full
  <2>2. QED BY <2>1
<1>6. g = [i \in 1 .. N - 2 |-> v[i][1]]
  <2>1. DOMAIN v = 1 .. N - 2
    BY DEF HelpersDraws
  <2>2. QED BY <2>1 DEF Firsts
<1>7. g \in Seq(Bits) /\ Len(g) = N - 2 /\ \A i \in 1 .. N - 2 : g[i] = v[i][1]
  <2>1. [i \in 1 .. N - 2 |-> v[i][1]] \in Seq(Bits)
    BY <1>3, <1>5
  <2>2. QED BY <1>3, <1>6, <2>1
<1>8. f[1] = sub_mod(c.data, SumWords(g))
  <2>1. f[1] = ShareOf(pr, t, n, w, 1)
    BY ShareColumn, ComputingParties
  <2>2. ShareOf(pr, t, n, w, 1) = DealtIn(pr, t, n, w, 1)[1]
    BY DEF ShareOf
  <2>3. DealtIn(pr, t, n, w, 1) = Deals(pr, t, n, w)
    BY DEF DealtIn
  <2>4. Deals(pr, t, n, w) = <<sub_mod(c.data, SumWords(g))>>
    BY DEF Deals
  <2>5. QED BY <2>1, <2>2, <2>3, <2>4
<1>9. ASSUME NEW i \in 1 .. N - 2 PROVE g[i] = f[i + 1]
  <2>1. i + 1 \in Computing /\ i + 1 # 1 /\ (i + 1) - 1 = i /\ i + 1 # 0
    BY NAssumption DEF Computing
  <2>2. f[i + 1] = ShareOf(pr, t, n, w, i + 1)
    BY <2>1, ShareColumn
  <2>3. ShareOf(pr, t, n, w, i + 1) = DealtIn(pr, t, n, w, i + 1)[1]
    BY <2>1 DEF ShareOf
  <2>4. DealtIn(pr, t, n, w, i + 1) = v[(i + 1) - 1]
    BY <2>1 DEF DealtIn
  <2>5. QED BY <1>7, <2>1, <2>2, <2>3, <2>4
<1>10. c.data \in Residues /\ (N - 2) * (Draws - 1) <= c.data + Modulus
  BY <1>1 DEF EndCalls, CallFacts, MaskFits
<1>11. Whole(NewColumn(pr, t, n, w)) = SumMod(f)
  BY DEF Whole
<1> HIDE DEF f, g, c
<1>12. Without(f, 1, g)
  <2>1. Len(f) = Len(g) + 1 /\ 1 \in 1 .. Len(f)
    BY <1>3, <1>4, <1>7
  <2>2. \A i \in 1 .. Len(g) : ~ (i < 1)
    BY <1>3, <1>7
  <2>3. QED BY <1>7, <1>9, <2>1, <2>2 DEF Without
<1> DEFINE a == c.data
<1>13. a \in Residues /\ (N - 2) * (Draws - 1) <= a + Modulus /\ f[1] = sub_mod(a, SumWords(g))
  BY <1>8, <1>10
<1> HIDE DEF a
<1>14. Rem(SumMod(f)) = Rem(a)
  BY <1>4, <1>7, <1>12, <1>13, Blinds
<1>15. QED BY <1>11, <1>14 DEF a, c

LEMMA PartysShares ==
  ASSUME NEW pr, NEW t, NEW n, NEW w, NEW S, NEW r \in Nat, NEW d \in Nat,
         AtEnd(pr, t, n, w, S, r, d), pr[n].op = "share_from", pr[n].source # 0, MaskFits(pr[n])
  PROVE  Rem(Whole(NewColumn(pr, t, n, w))) = Rem(pr[n].data)
<1> DEFINE f == SharesOf(NewColumn(pr, t, n, w))  c == pr[n]  s == c.source
           g == OwnDraws(pr, t, n, s)
<1>1. pr \in Programs /\ t \in Tapes /\ n \in 1 .. Len(pr) /\ EndCalls(pr, n, w, S)
  BY EndOperands DEF AtEnd
<1>2. s \in Parties /\ s \in Computing /\ s # 0
  BY <1>1, ComputingParties DEF EndCalls, CallFacts
<1>3. N - 2 \in Nat /\ N \in Nat /\ N - 1 = (N - 2) + 1
  BY NAssumption
<1>4. f \in Seq(Residues) /\ Len(f) = N - 1
  BY ShareColumn
<1>5. /\ g \in Seq(Bits) /\ Len(g) = N - 2
      /\ \A i \in 1 .. N - 2 : g[i] = LastAt(pr, t, n, seed_of(s, Others(s)[i]), 1)
  <2> HIDE DEF s
  <2>1. QED BY <1>1, <1>2, OwnDrawsType
<1>6. f[s] = sub_mod(c.data, SumWords(g))
  <2>1. f[s] = ShareOf(pr, t, n, w, s)
    BY <1>2, ShareColumn
  <2>2. ShareOf(pr, t, n, w, s) = sub_mod(c.data, SumWords(g))
    BY <1>2 DEF ShareOf, OwnDraws
  <2>3. QED BY <2>1, <2>2
<1>7. ASSUME NEW i \in 1 .. N - 2 PROVE g[i] = f[IF i < s THEN i ELSE i + 1]
  <2> DEFINE q == Others(s)[i]
  <2>1. q \in Computing /\ q # s /\ q = IF i < s THEN i ELSE i + 1
    <3> HIDE DEF s
    <3>1. Others(s) \in [1 .. N - 2 -> Computing \ {s}]
          /\ Others(s)[i] = IF i < s THEN i ELSE i + 1
      BY <1>2, OthersFacts
    <3>2. QED BY <3>1
  <2>2. q # 0 /\ q \in Parties
    BY <2>1, ComputingParties
  <2> HIDE DEF q
  <2>3. f[q] = ShareOf(pr, t, n, w, q)
    BY <2>1, ShareColumn
  <2>4. ShareOf(pr, t, n, w, q) = LastAt(pr, t, n, seed_of(q, s), 1)
    BY <1>2, <2>1, <2>2 DEF ShareOf
  <2>5. seed_of(q, s) = seed_of(s, q)
    BY <1>2, <2>2, SeedFacts
  <2>6. g[i] = LastAt(pr, t, n, seed_of(s, q), 1)
    BY <1>5 DEF q
  <2>7. g[i] = f[q]
    BY <2>3, <2>4, <2>5, <2>6
  <2>8. QED BY <2>1, <2>7
<1>8. c.data \in Residues /\ (N - 2) * (Draws - 1) <= c.data + Modulus
  BY <1>1 DEF EndCalls, CallFacts, MaskFits
<1>9. Whole(NewColumn(pr, t, n, w)) = SumMod(f)
  BY DEF Whole
<1> HIDE DEF f, g, s
<1>10. Without(f, s, g)
  <2>1. s \in 1 .. N - 1
    BY <1>2 DEF Computing
  <2>2. QED BY <1>3, <1>4, <1>5, <1>7, <2>1 DEF Without
<1> DEFINE a == c.data
<1>11. a \in Residues /\ (N - 2) * (Draws - 1) <= a + Modulus /\ f[s] = sub_mod(a, SumWords(g))
  BY <1>6, <1>8
<1> HIDE DEF a, c
<1>12. Rem(SumMod(f)) = Rem(a)
  BY <1>4, <1>5, <1>10, <1>11, Blinds
<1>13. QED BY <1>9, <1>12 DEF a, c

\* The terms of a product of (a + u) and (b + v) that every computing party adds.
Cross(a, b, u, v) == add_mod(mul_mod(u, b), mul_mod(a, v))

LEMMA CrossMixed ==
  ASSUME NEW a \in Residues, NEW b \in Residues, NEW u \in Residues, NEW v \in Residues
  PROVE  Cross(a, b, u, v) \in Residues /\ Mixed(Cross(a, b, u, v), b, u, a, v)
<1> DEFINE m == mul_mod(u, b)  n == mul_mod(a, v)
<1>1. a \in Int /\ b \in Int /\ u \in Int /\ v \in Int
  BY ResidueFacts
<1>2. m \in Residues /\ n \in Residues /\ m \in Int /\ n \in Int
  BY <1>1, ArithmeticTypes, ResidueFacts
<1>3. Rem(m) = Rem(u * b) /\ Rem(n) = Rem(a * v)
  BY <1>1, RemMul
<1> HIDE DEF m, n
<1>4. Rem(add_mod(m, n)) = Rem(m + n) /\ add_mod(m, n) \in Residues
  BY <1>2, RemResidues, ArithmeticTypes
<1>5. u * b \in Int /\ a * v \in Int
  BY <1>1
<1>6. Rem(m + n) = Rem(u * b + a * v)
  BY <1>2, <1>3, <1>5, RemPlus
<1>7. u * b = b * u
  BY <1>1, TimesTurned
<1>8. Cross(a, b, u, v) = add_mod(m, n)
  BY DEF Cross, m, n
<1>9. QED BY <1>4, <1>6, <1>7, <1>8 DEF Mixed

\* What the parties have of a product before the dealer gives them its term.
Products(x, y) == [p \in Computing |-> beaver_mul(p, x[p], y[p])]
Crosses(x, y) ==
  [p \in Computing |-> Cross(x[1].x_r[1], y[1].x_r[1], x[p].r[1], y[p].r[1])]

LEMMA ProductsType ==
  ASSUME NEW x \in Family, NEW y \in Family, Coherent(x), Coherent(y)
  PROVE  /\ Crosses(x, y) \in [Computing -> Residues] /\ Products(x, y) \in [Computing -> Residues]
         /\ Rem(Products(x, y)[1]) = Rem(Crosses(x, y)[1] + x[1].x_r[1] * y[1].x_r[1])
         /\ \A p \in Computing : p # 1 => Products(x, y)[p] = Crosses(x, y)[p]
<1> DEFINE a == x[1].x_r[1]  b == y[1].x_r[1]
<1>1. Parted_(x) /\ Parted_(y) /\ \A p \in Computing : x[p].x_r = x[1].x_r /\ y[p].x_r = y[1].x_r
  BY DEF Coherent
<1>2. a \in Residues /\ b \in Residues /\ a \in Int /\ b \in Int
  BY <1>1, PartsType, ComputingParties
<1>3. ASSUME NEW p \in Computing PROVE x[p].r[1] \in Residues /\ y[p].r[1] \in Residues
  BY <1>1, PartsType, ComputingParties
<1>4. ASSUME NEW p \in Computing
      PROVE  Crosses(x, y)[p] = Cross(a, b, x[p].r[1], y[p].r[1]) /\ Crosses(x, y)[p] \in Residues
  <2>1. Crosses(x, y)[p] = Cross(a, b, x[p].r[1], y[p].r[1])
    BY DEF Crosses
  <2> DEFINE u == x[p].r[1]  v == y[p].r[1]
  <2>2. u \in Residues /\ v \in Residues
    BY <1>3
  <2> HIDE DEF a, b, u, v
  <2>3. Cross(a, b, u, v) \in Residues
    BY <1>2, <2>2, CrossMixed
  <2>4. QED BY <2>1, <2>3 DEF u, v
<1>5. ASSUME NEW p \in Computing
      PROVE  Products(x, y)[p] = IF p = 1 THEN add_mod(mul_mod(a, b), Crosses(x, y)[p])
                                 ELSE Crosses(x, y)[p]
  <2>1. Products(x, y)[p] = beaver_mul(p, x[p], y[p]) /\ p # 0
    BY ComputingParties DEF Products
  <2>2. x[p].x_r = x[1].x_r /\ y[p].x_r = y[1].x_r
    BY <1>1
  <2>3. Cross(a, b, x[p].r[1], y[p].r[1])
          = add_mod(mul_mod(x[p].r[1], y[p].x_r[1]), mul_mod(x[p].x_r[1], y[p].r[1]))
    BY <2>2 DEF Cross
  <2>4. QED BY <1>4, <2>1, <2>2, <2>3 DEF beaver_mul
<1> DEFINE m == mul_mod(a, b)  e == Crosses(x, y)[1]
<1>6. m \in Residues /\ m \in Int /\ Rem(m) = Rem(a * b) /\ a * b \in Int
  <2> HIDE DEF a, b
  <2>1. m \in Residues
    BY <1>2, ArithmeticTypes
  <2>2. Rem(m) = Rem(a * b)
    BY <1>2, RemMul
  <2>3. a * b \in Int
    BY <1>2
  <2> HIDE DEF m
  <2>4. m \in Int
    BY <2>1, ResidueFacts
  <2>5. QED BY <2>1, <2>2, <2>3, <2>4
<1>7. e \in Residues /\ e \in Int
  BY <1>4, ComputingParties, ResidueFacts
<1>8. Products(x, y)[1] = add_mod(m, e)
  BY <1>5, ComputingParties
<1>9. \A p \in Computing : p # 1 => Products(x, y)[p] = Crosses(x, y)[p]
  BY <1>5
<1>10. Rem(Products(x, y)[1]) = Rem(e + a * b) /\ Products(x, y)[1] \in Residues
  <2> DEFINE ab == a * b
  <2>1. ab \in Int /\ Rem(m) = Rem(ab)
    BY <1>6
  <2> HIDE DEF m, e, ab
  <2>2. Rem(add_mod(m, e)) = Rem(m + e) /\ add_mod(m, e) \in Residues
    BY <1>6, <1>7, RemResidues, ArithmeticTypes
  <2>3. Rem(m + e) = Rem(ab + e)
    BY <1>6, <1>7, <2>1, RemMore
  <2>4. ab + e = e + ab
    BY <1>7, <2>1
  <2>5. QED BY <1>8, <2>2, <2>3, <2>4 DEF ab
<1>11. Crosses(x, y) \in [Computing -> Residues]
  <2>1. \A p \in Computing : Crosses(x, y)[p] \in Residues
    BY <1>4
  <2>2. QED BY <2>1 DEF Crosses
<1>12. Products(x, y) \in [Computing -> Residues]
  <2>1. ASSUME NEW p \in Computing PROVE Products(x, y)[p] \in Residues
    BY <1>4, <1>9, <1>10
  <2>2. QED BY <2>1 DEF Products
<1>13. QED BY <1>9, <1>10, <1>11, <1>12

LEMMA FourTerms ==
  ASSUME NEW a \in Int, NEW b \in Int, NEW u \in Int, NEW v \in Int
  PROVE  ((b * u + a * v) + a * b) + u * v = (a + u) * (b + v)
  OBVIOUS

LEMMA ProductsSum ==
  ASSUME NEW x \in Family, NEW y \in Family, Coherent(x), Coherent(y)
  PROVE  Rem(SumMod(Products(x, y)) + x[0].r[1] * y[0].r[1]) = Rem(Whole(x) * Whole(y))
<1> DEFINE a == x[1].x_r[1]  b == y[1].x_r[1]  u == Mask(x)  v == Mask(y)
           h == Crosses(x, y)  f == MasksOf(x)  g == MasksOf(y)  e == Products(x, y)
           ab == a * b  uv == u * v  hh == SumMod(h)  ee == SumMod(e)  X1 == Whole(x)  Y1 == Whole(y)
<1>1. Parted_(x) /\ Parted_(y) /\ x[0].r[1] = u /\ y[0].r[1] = v
      /\ Rem(a + u) = Rem(X1) /\ Rem(b + v) = Rem(Y1)
  BY DEF Coherent
<1>2. a \in Residues /\ b \in Residues /\ a \in Int /\ b \in Int
  BY <1>1, PartsType, ComputingParties
<1>3. /\ f \in Seq(Residues) /\ Len(f) = N - 1 /\ g \in Seq(Residues) /\ Len(g) = N - 1
      /\ u \in Int /\ v \in Int /\ X1 \in Int /\ Y1 \in Int
      /\ \A p \in Computing : f[p] = x[p].r[1] /\ g[p] = y[p].r[1]
      /\ \A p \in Computing : x[p].r[1] \in Residues /\ y[p].r[1] \in Residues
  BY <1>1, PartsType, FamilyType, ComputingParties
<1>4. h \in [Computing -> Residues] /\ e \in [Computing -> Residues]
      /\ Rem(e[1]) = Rem(h[1] + ab) /\ \A p \in Computing : p # 1 => e[p] = h[p]
  BY ProductsType
<1>5. h \in Seq(Residues) /\ e \in Seq(Residues) /\ Len(h) = N - 1 /\ Len(e) = N - 1
      /\ hh \in Int /\ ee \in Int
  BY <1>4, ComputingSeq
<1>6. ASSUME NEW p \in Computing PROVE Mixed(h[p], b, f[p], a, g[p])
  <2>1. h[p] = Cross(a, b, x[p].r[1], y[p].r[1])
    BY DEF Crosses
  <2> DEFINE q == x[p].r[1]  s == y[p].r[1]
  <2>2. q \in Residues /\ s \in Residues /\ f[p] = q /\ g[p] = s
    BY <1>3
  <2> HIDE DEF a, b, q, s
  <2>3. Mixed(Cross(a, b, q, s), b, q, a, s)
    BY <1>2, <2>2, CrossMixed
  <2>4. h[p] = Cross(a, b, q, s)
    BY <2>1 DEF q, s
  <2> HIDE DEF h, f, g
  <2>5. QED BY <2>2, <2>3, <2>4
<1>7. Computing = 1 .. N - 1 /\ N - 1 \in Nat /\ N - 1 >= 2
  BY ComputingParties
<1>8. ab \in Int /\ uv \in Int
  BY <1>2, <1>3
<1>9. Mixed(hh, b, u, a, v)
  <2> HIDE DEF a, b, h, f, g
  <2>1. \A i \in 1 .. Len(h) : Mixed(h[i], b, f[i], a, g[i])
    BY <1>5, <1>6, <1>7
  <2>2. Mixed(SumMod(h), b, SumMod(f), a, SumMod(g))
    BY <1>2, <1>3, <1>5, <2>1, SumLinear
  <2>3. QED BY <2>2 DEF Mask, f, g
<1>10. Rem(ee) = Rem(hh + ab)
  <2> HIDE DEF h, e, ab
  <2>1. \A i \in 2 .. Len(e) : Rem(e[i]) = Rem(h[i])
    BY <1>4, <1>5, <1>7
  <2>2. Len(e) >= 1 /\ Len(h) = Len(e)
    BY <1>5, <1>7
  <2>3. QED BY <1>4, <1>5, <1>8, <2>1, <2>2, SumHub
<1> HIDE DEF h, f, g, e, a, b, u, v, hh, ee, X1, Y1
<1>11. Rem(hh) = Rem(b * u + a * v) /\ b * u + a * v \in Int
  BY <1>2, <1>3, <1>9 DEF Mixed
<1> DEFINE bu == b * u + a * v
<1>12. bu \in Int /\ Rem(hh) = Rem(bu)
  BY <1>11
<1>13. (bu + ab) + uv = (a + u) * (b + v)
  BY <1>2, <1>3, FourTerms
<1>14. Rem((a + u) * (b + v)) = Rem(X1 * Y1)
  <2>1. a + u \in Int /\ b + v \in Int
    BY <1>2, <1>3
  <2>2. QED BY <1>1, <1>3, <2>1, RemTimes
<1> HIDE DEF bu, ab
<1>15. Rem(hh + ab) = Rem(bu + ab)
  BY <1>5, <1>8, <1>12, RemMore
<1>16. Rem(ee + uv) = Rem((bu + ab) + uv)
  <2> HIDE DEF uv
  <2>1. Rem(ee) = Rem(bu + ab) /\ bu + ab \in Int
    BY <1>8, <1>10, <1>12, <1>15
  <2>2. QED BY <1>5, <1>8, <2>1, RemMore
<1>17. Rem(ee + uv) = Rem(X1 * Y1)
  BY <1>13, <1>14, <1>16
<1>18. QED BY <1>1, <1>17 DEF ee, e, X1, Y1

LEMMA MultipliedWhole ==
  ASSUME NEW pr, NEW t, NEW n, NEW w, NEW S, NEW r \in Nat, NEW d \in Nat,
         AtEnd(pr, t, n, w, S, r, d), AllCoherent(w, S), pr[n].op = "mul"
  PROVE  Rem(Whole(NewColumn(pr, t, n, w)))
           = Rem(Whole(Column(w, pr[n].x)) * Whole(Column(w, pr[n].y)))
<1> DEFINE c == pr[n]  x == Column(w, c.x)  y == Column(w, c.y)  z == NewColumn(pr, t, n, w)
           e == DealtOf(pr, t, n, w, 1)  b == Products(x, y)  f == SharesOf(z)
           uv == x[0].r[1] * y[0].r[1]  ee == SumMod(e)  bb == SumMod(b)  ff == SumMod(f)
<1>1. EndCalls(pr, n, w, S)
  BY EndOperands
<1>2. c.x \in S /\ c.y \in S
  BY <1>1 DEF EndCalls, Masking
<1>3. x \in Family /\ y \in Family
      /\ \A p \in Parties : x[p] = w.results[p][c.x] /\ y[p] = w.results[p][c.y]
  BY OperandColumns
<1>4. Coherent(x) /\ Coherent(y)
  BY <1>2 DEF AllCoherent
<1>5. x[0].r[1] \in Int /\ y[0].r[1] \in Int
  <2> HIDE DEF x, y
  <2>1. Parted_(x) /\ Parted_(y)
    BY <1>4 DEF Coherent
  <2>2. QED BY <1>3, <2>1, PartsType, ComputingParties
<1>6. b \in [Computing -> Residues]
  <2> HIDE DEF x, y
  <2>1. QED BY <1>3, <1>4, ProductsType
<1>7. Given(c, t, w) = <<beaver_mul(0, x[0], y[0])>>
  <2>1. x[0] = w.results[0][c.x] /\ y[0] = w.results[0][c.y]
    BY <1>3, ComputingParties
  <2>2. Given(c, t, w) = <<beaver_mul(0, w.results[0][c.x], w.results[0][c.y])>>
    BY DEF Given
  <2>3. QED BY <2>1, <2>2
<1> DEFINE g == Given(c, t, w)[1]
<1>8. g = mul_mod(x[0].r[1], y[0].r[1])
  BY <1>7 DEF beaver_mul
<1>9. g \in Residues /\ Rem(g) = Rem(uv) /\ uv \in Int
  <2> DEFINE q == x[0].r[1]  s == y[0].r[1]
  <2>1. q \in Int /\ s \in Int /\ g = mul_mod(q, s) /\ uv = q * s
    BY <1>5, <1>8
  <2> HIDE DEF q, s, g, uv
  <2>2. mul_mod(q, s) \in Residues
    BY <2>1, ArithmeticTypes
  <2>3. Rem(mul_mod(q, s)) = Rem(q * s)
    BY <2>1, RemMul
  <2>4. q * s \in Int
    BY <2>1
  <2>5. QED BY <2>1, <2>2, <2>3, <2>4
<1>10. Dealt(c) = 1
  BY DEF Dealt
<1>11. e \in [Computing -> Residues] /\ Rem(ee) = Rem(g)
  <2>1. 1 \in 1 .. Dealt(c) /\ c.op \in {"mul", "pow", "trunc"}
    BY <1>10
  <2>2. QED BY <1>9, <2>1, DealtSum
<1>12. z \in Family /\ \A p \in Parties : z[p] = NewTensor(pr, t, n, w, p)
  BY NewColumnType
<1>13. ASSUME NEW p \in Computing PROVE z[p].share = add_mod(b[p], e[p])
  <2>1. p \in Parties /\ p # 0
    BY ComputingParties
  <2>2. NewTensor(pr, t, n, w, p) = Sharetensor(NewShare(pr, t, n, w, p))
    BY DEF NewTensor
  <2>3. NewShare(pr, t, n, w, p)
          = add_mod(beaver_mul(p, w.results[p][c.x], w.results[p][c.y]), DealtIn(pr, t, n, w, p)[1])
    BY <2>1 DEF NewShare
  <2>4. x[p] = w.results[p][c.x] /\ y[p] = w.results[p][c.y]
    BY <1>3, <2>1
  <2>5. b[p] = beaver_mul(p, x[p], y[p]) /\ e[p] = DealtIn(pr, t, n, w, p)[1]
    BY DEF Products, DealtOf
  <2>6. z[p].share = NewShare(pr, t, n, w, p)
    BY <1>12, <2>1, <2>2 DEF Sharetensor
  <2>7. QED BY <2>3, <2>4, <2>5, <2>6
<1>14. Rem(bb + uv) = Rem(Whole(x) * Whole(y))
  <2> HIDE DEF x, y
  <2>1. QED BY <1>3, <1>4, ProductsSum
<1> HIDE DEF x, y, z, b, e, g
<1>15. /\ b \in Seq(Residues) /\ Len(b) = N - 1 /\ e \in Seq(Residues) /\ Len(e) = N - 1
       /\ bb \in Int /\ ee \in Int
       /\ \A p \in Computing : b[p] \in Residues /\ e[p] \in Residues
  BY <1>6, <1>11, ComputingSeq
<1>16. f \in Seq(Residues) /\ Len(f) = N - 1 /\ \A p \in Computing : f[p] = z[p].share
  BY <1>12, FamilyType
<1>17. ASSUME NEW p \in Computing PROVE Rem(f[p]) = Rem(b[p] + e[p])
  <2>1. f[p] = add_mod(b[p], e[p])
    BY <1>13, <1>16
  <2> DEFINE bp == b[p]  ep == e[p]
  <2>2. bp \in Residues /\ ep \in Residues
    BY <1>15
  <2> HIDE DEF bp, ep
  <2>3. Rem(add_mod(bp, ep)) = Rem(bp + ep)
    BY <2>2, RemResidues
  <2>4. QED BY <2>1, <2>3 DEF bp, ep
<1> HIDE DEF f
<1>18. Rem(ff) = Rem(bb + ee)
  <2>1. \A i \in 1 .. Len(f) : Rem(f[i]) = Rem(b[i] + e[i])
    BY <1>16, <1>17, ComputingParties
  <2>2. QED BY <1>15, <1>16, <2>1, SumPlus
<1> HIDE DEF bb, ee, ff, uv
<1>19. Rem(bb + ee) = Rem(bb + uv)
  <2>1. Rem(ee) = Rem(uv)
    BY <1>9, <1>11
  <2>2. QED BY <1>9, <1>15, <2>1, RemPlusOne
<1>20. Whole(z) = ff
  BY DEF Whole, ff, f
<1>21. QED BY <1>14, <1>18, <1>19, <1>20 DEF x, y, z, c

-----------------------------------------------------------------------------
\* A table of residues: the parties' rows of n numbers.
Table(f, n) == \A p \in Computing : f[p] \in Seq(Residues) /\ Len(f[p]) = n
Rows(f) == [p \in Computing |-> SumMod(f[p])]
PartRows(f, i) == [p \in Computing |-> Sums(f[p])[i]]
Across(f, j) == [p \in Computing |-> f[p][j]]
Columns(f, n) == [j \in 1 .. n |-> SumMod(Across(f, j))]

LEMMA ZeroSum ==
  ASSUME NEW v \in Seq(Residues), \A i \in 1 .. Len(v) : v[i] = 0
  PROVE  Rem(SumMod(v)) = Rem(0)
<1>1. 0 \in Int /\ Len(v) = Len(v) /\ SumMod(v) \in Int
  BY SumsRight
<1>2. \A i \in 1 .. Len(v) : Rem(v[i]) = Rem(0 * v[i])
  OBVIOUS
<1>3. Rem(SumMod(v)) = Rem(0 * SumMod(v))
  BY <1>1, <1>2, SumTimes
<1> DEFINE m == SumMod(v)
<1>4. m \in Int /\ Rem(m) = Rem(0 * m)
  BY <1>1, <1>3
<1> HIDE DEF m
<1>5. 0 * m = 0
  BY <1>4
<1>6. Rem(m) = Rem(0)
  BY <1>4, <1>5
<1>7. QED BY <1>6 DEF m

LEMMA TableTypes ==
  ASSUME NEW n \in Nat, NEW f, Table(f, n)
  PROVE  /\ Rows(f) \in [Computing -> Residues] /\ Columns(f, n) \in Seq(Residues)
         /\ Len(Columns(f, n)) = n
         /\ \A j \in 1 .. n : /\ Across(f, j) \in [Computing -> Residues]
                              /\ Columns(f, n)[j] = SumMod(Across(f, j))
         /\ \A i \in 0 .. n : PartRows(f, i) \in [Computing -> Residues]
<1>1. ASSUME NEW p \in Computing
      PROVE  /\ SumMod(f[p]) \in Residues /\ \A j \in 1 .. n : f[p][j] \in Residues
             /\ \A i \in 0 .. n : Sums(f[p])[i] \in Residues
  <2> DEFINE v == f[p]
  <2>1. v \in Seq(Residues) /\ Len(v) = n
    BY DEF Table
  <2> HIDE DEF v
  <2>2. SumMod(v) \in Residues /\ Sums(v) \in [0 .. Len(v) -> Residues]
    BY <2>1, SumsRight
  <2>3. \A j \in 1 .. n : v[j] \in Residues
    BY <2>1
  <2>4. QED BY <2>1, <2>2, <2>3 DEF v
<1>2. Rows(f) \in [Computing -> Residues]
  BY <1>1 DEF Rows
<1>3. ASSUME NEW j \in 1 .. n PROVE Across(f, j) \in [Computing -> Residues]
  BY <1>1 DEF Across
<1>4. ASSUME NEW i \in 0 .. n PROVE PartRows(f, i) \in [Computing -> Residues]
  BY <1>1 DEF PartRows
<1>5. ASSUME NEW j \in 1 .. n PROVE SumMod(Across(f, j)) \in Residues
  BY <1>3, ComputingSeq
<1>6. Columns(f, n) \in [1 .. n -> Residues] /\ \A j \in 1 .. n : Columns(f, n)[j] = SumMod(Across(f, j))
  BY <1>5 DEF Columns
<1> DEFINE g == Columns(f, n)
<1>7. g \in [1 .. n -> Residues]
  BY <1>6
<1> HIDE DEF g
<1>8. g \in Seq(Residues) /\ Len(g) = n
  BY <1>7
<1>9. QED BY <1>2, <1>3, <1>4, <1>6, <1>8 DEF g

\* The sum of a table, by rows or by columns.
LEMMA Interchange ==
  ASSUME NEW n \in Nat, NEW f, Table(f, n)
  PROVE  Rem(SumMod(Rows(f))) = Rem(SumMod(Columns(f, n)))
<1> DEFINE C == Columns(f, n)
           S == {i \in 0 .. n : Rem(SumMod(PartRows(f, i))) = Rem(Sums(C)[i])}
<1>1. /\ C \in Seq(Residues) /\ Len(C) = n /\ Rows(f) \in [Computing -> Residues]
      /\ \A j \in 1 .. n : Across(f, j) \in [Computing -> Residues] /\ C[j] = SumMod(Across(f, j))
      /\ \A i \in 0 .. n : PartRows(f, i) \in [Computing -> Residues]
  BY TableTypes
<1> HIDE DEF C
<1>2. Sums(C)[0] = 0 /\ SumMod(C) = Sums(C)[n]
  BY <1>1, SumsRight
<1>3. ASSUME NEW p \in Computing PROVE Sums(f[p])[0] = 0 /\ SumMod(f[p]) = Sums(f[p])[n]
  <2> DEFINE v == f[p]
  <2>1. v \in Seq(Residues) /\ Len(v) = n
    BY DEF Table
  <2> HIDE DEF v
  <2>2. Sums(v)[0] = 0 /\ SumMod(v) = Sums(v)[n]
    BY <2>1, SumsRight
  <2>3. QED BY <2>2 DEF v
<1>4. 0 \in S
  <2> DEFINE h == PartRows(f, 0)
  <2>0. 0 \in 0 .. n
    OBVIOUS
  <2>1. h \in [Computing -> Residues] /\ \A p \in Computing : h[p] = 0
    <3>1. h \in [Computing -> Residues]
      BY <1>1, <2>0
    <3>2. ASSUME NEW p \in Computing PROVE h[p] = 0
      BY <1>3 DEF PartRows
    <3>3. QED BY <3>1, <3>2
  <2> HIDE DEF h
  <2>2. h \in Seq(Residues) /\ Len(h) = N - 1
    BY <2>1, ComputingSeq
  <2>3. \A i \in 1 .. Len(h) : h[i] = 0
    BY <2>1, <2>2, ComputingParties
  <2>4. Rem(SumMod(h)) = Rem(0)
    BY <2>2, <2>3, ZeroSum
  <2>5. QED BY <1>2, <2>4 DEF h
<1>5. ASSUME NEW i \in 1 .. n, i - 1 \in S PROVE i \in S
  <2> DEFINE h == PartRows(f, i)  g == PartRows(f, i - 1)  a == Across(f, i)
             c0 == Sums(C)[i - 1]  c1 == C[i]  c2 == Sums(C)[i]
  <2>1. i \in 0 .. n /\ i - 1 \in 0 .. n
    OBVIOUS
  <2>2. h \in [Computing -> Residues] /\ g \in [Computing -> Residues] /\ a \in [Computing -> Residues]
    BY <1>1, <2>1
  <2>3. ASSUME NEW p \in Computing PROVE Rem(h[p]) = Rem(g[p] + a[p])
    <3> DEFINE v == f[p]
    <3>1. v \in Seq(Residues) /\ Len(v) = n
      BY DEF Table
    <3>2. h[p] = Sums(v)[i] /\ g[p] = Sums(v)[i - 1] /\ a[p] = v[i]
      BY DEF PartRows, Across
    <3> HIDE DEF v, h, g, a
    <3>3. i \in 1 .. Len(v)
      BY <3>1
    <3>4. Rem(Sums(v)[i]) = Rem(Sums(v)[i - 1] + v[i])
      BY <3>1, <3>3, SumNext
    <3>5. QED BY <3>2, <3>4
  <2>4. Rem(SumMod(g)) = Rem(c0)
    BY <1>5
  <2>5. c1 = SumMod(a)
    BY <1>1
  <2>6. Rem(c2) = Rem(c0 + c1) /\ c0 \in Int /\ c1 \in Int /\ c2 \in Int
    BY <1>1, SumNext
  <2> HIDE DEF h, g, a, c0, c1, c2
  <2>7. h \in Seq(Residues) /\ g \in Seq(Residues) /\ a \in Seq(Residues)
        /\ Len(h) = N - 1 /\ Len(g) = N - 1 /\ Len(a) = N - 1 /\ SumMod(g) \in Int
    BY <2>2, ComputingSeq
  <2>8. Rem(SumMod(h)) = Rem(SumMod(g) + SumMod(a))
    <3>1. \A j \in 1 .. Len(h) : Rem(h[j]) = Rem(g[j] + a[j])
      BY <2>3, <2>7, ComputingParties
    <3>2. QED BY <2>7, <3>1, SumPlus
  <2>9. Rem(SumMod(g) + c1) = Rem(c0 + c1)
    BY <2>4, <2>6, <2>7, RemMore
  <2>10. Rem(SumMod(h)) = Rem(c2)
    BY <2>5, <2>6, <2>8, <2>9
  <2>11. QED BY <2>1, <2>10 DEF h, c2
<1>6. 0 .. n \subseteq S
  <2> HIDE DEF S
  <2>1. QED BY <1>4, <1>5, InductionTo
<1>7. Rem(SumMod(PartRows(f, n))) = Rem(Sums(C)[n])
  <2>1. n \in 0 .. n
    OBVIOUS
  <2>2. QED BY <1>6, <2>1
<1>8. PartRows(f, n) = Rows(f)
  BY <1>3 DEF PartRows, Rows
<1>9. QED BY <1>2, <1>7, <1>8 DEF C

\* The factor of the j-th power in the n-th power of a sum with a.
Factor(a, n, j) == Pow(a, n - j) * pascal_matrix[n][j]

LEMMA FactorType ==
  ASSUME NEW a \in Int, NEW n \in Nat, NEW j \in 1 .. n
  PROVE  /\ Factor(a, n, j) \in Int /\ Pow(a, n - j) \in Int /\ Pow(a, n - j) \in Residues
         /\ pascal_matrix[n][j] \in Int
<1>1. n - j \in Nat /\ j \in Nat
  OBVIOUS
<1>2. Pow(a, n - j) \in Int /\ Pow(a, n - j) \in Residues
  BY <1>1, PowNext
<1>3. pascal_matrix[n][j] \in Int
  BY <1>1, PascalType
<1> DEFINE b == Pow(a, n - j)  c == pascal_matrix[n][j]
<1>4. b \in Int /\ c \in Int
  BY <1>2, <1>3
<1> HIDE DEF b, c
<1>5. b * c \in Int
  BY <1>4
<1>6. QED BY <1>2, <1>3, <1>5 DEF b, c, Factor

LEMMA RTermsRow ==
  ASSUME NEW x, NEW a \in Int, x.x_r[1] = a, NEW n \in Nat, n >= 1,
         NEW powers \in Seq(Residues), Len(powers) = n
  PROVE  /\ RTerms(x, n, powers) \in Seq(Residues) /\ Len(RTerms(x, n, powers)) = n
         /\ RTerms(x, n, powers)[n] = powers[n]
         /\ \A j \in 1 .. n - 1 :
              Rem(RTerms(x, n, powers)[j]) = Rem(Factor(a, n, j) * powers[j])
<1> DEFINE v == RTerms(x, n, powers)
           term(j) == IF j = n THEN powers[n]
                      ELSE mul_mod(mul_mod(Pow(a, n - j), powers[j]), pascal_matrix[n][j])
<1>1. v = [j \in 1 .. n |-> term(j)]
  BY DEF RTerms
<1>2. ASSUME NEW j \in 1 .. n
      PROVE  term(j) \in Residues /\ (j # n => Rem(term(j)) = Rem(Factor(a, n, j) * powers[j]))
  <2> DEFINE b == Pow(a, n - j)  c == pascal_matrix[n][j]  e == powers[j]  m == mul_mod(b, e)
  <2>1. powers[j] \in Residues /\ powers[n] \in Residues
    OBVIOUS
  <2>2. b \in Int /\ c \in Int /\ e \in Int /\ Factor(a, n, j) = b * c
    BY <2>1, FactorType, ResidueFacts DEF Factor
  <2>3. term(j) = IF j = n THEN powers[n] ELSE mul_mod(m, c)
    OBVIOUS
  <2> HIDE DEF b, c, e, term
  <2>4. m \in Residues /\ Rem(m) = Rem(b * e) /\ b * e \in Int
    <3>1. m \in Residues
      BY <2>2, ArithmeticTypes
    <3>2. Rem(m) = Rem(b * e)
      BY <2>2, RemMul
    <3>3. b * e \in Int
      BY <2>2
    <3>4. QED BY <3>1, <3>2, <3>3
  <2> DEFINE be == b * e
  <2>5. be \in Int /\ Rem(m) = Rem(be)
    BY <2>4
  <2>6. be * c = (b * c) * e
    BY <2>2
  <2> HIDE DEF m, be
  <2>7. m \in Int
    BY <2>4, ResidueFacts
  <2>8. mul_mod(m, c) \in Residues
    BY <2>2, <2>7, ArithmeticTypes
  <2>9. Rem(mul_mod(m, c)) = Rem(m * c)
    BY <2>2, <2>7, RemMul
  <2>10. Rem(m * c) = Rem(be * c)
    BY <2>2, <2>5, <2>7, RemMultiple
  <2>11. Rem(mul_mod(m, c)) = Rem(Factor(a, n, j) * e)
    BY <2>2, <2>6, <2>9, <2>10
  <2>12. QED BY <2>1, <2>3, <2>8, <2>11 DEF e
<1> HIDE DEF term
<1>3. v \in [1 .. n -> Residues] /\ \A j \in 1 .. n : v[j] = term(j)
  BY <1>1, <1>2
<1> HIDE DEF v
<1>4. v \in Seq(Residues) /\ Len(v) = n
  BY <1>3
<1>5. v[n] = powers[n]
  <2>1. n \in 1 .. n
    OBVIOUS
  <2>2. QED BY <1>3, <2>1 DEF term
<1>6. ASSUME NEW j \in 1 .. n - 1 PROVE Rem(v[j]) = Rem(Factor(a, n, j) * powers[j])
  <2>1. j \in 1 .. n /\ j # n
    OBVIOUS
  <2>2. QED BY <1>2, <1>3, <2>1
<1>7. QED BY <1>4, <1>5, <1>6 DEF v

-----------------------------------------------------------------------------
\* The parties have the powers of the mask of x: from the dealer those after the first.
Dealt_(x, n, dealt) ==
  /\ Table(dealt, n - 1)
  /\ \A j \in 1 .. n - 1 : Rem(SumMod(Across(dealt, j))) = Rem(Pow(x[0].r[1], j + 1))
Powers(x, dealt) == [p \in Computing |-> x[p].r \o dealt[p]]

LEMMA PowersRow ==
  ASSUME NEW x \in Family, Parted_(x), NEW n \in Nat, n >= 2, NEW dealt, Dealt_(x, n, dealt),
         NEW p \in Computing
  PROVE  /\ Powers(x, dealt)[p] \in Seq(Residues) /\ Len(Powers(x, dealt)[p]) = n
         /\ Powers(x, dealt)[p][1] = x[p].r[1]
         /\ \A j \in 2 .. n : Powers(x, dealt)[p][j] = dealt[p][j - 1]
<1> DEFINE r == x[p].r  v == dealt[p]
<1>1. p \in Parties
  BY ComputingParties
<1>2. x[p] \in Sharetensors /\ is_partitioned(x[p])
  BY <1>1 DEF Family, Parted_
<1>3. r \in Seq(Residues) /\ Len(r) = 1
  BY <1>2, TensorParts
<1>4. v \in Seq(Residues) /\ Len(v) = n - 1
  BY DEF Dealt_, Table
<1>5. Powers(x, dealt)[p] = r \o v
  BY DEF Powers
<1> HIDE DEF r, v
<1> DEFINE f == r \o v
<1>6. f \in Seq(Residues) /\ Len(f) = Len(r) + Len(v) /\ Begins(r, f)
      /\ \A j \in 1 .. Len(v) : f[Len(r) + j] = v[j]
  BY <1>3, <1>4, ConcatBegins
<1> HIDE DEF f
<1>7. f[1] = r[1]
  BY <1>3, <1>6 DEF Begins
<1>8. Len(f) = n /\ \A j \in 2 .. n : f[j] = v[j - 1]
  <2>1. Len(f) = n
    BY <1>3, <1>4, <1>6
  <2>2. ASSUME NEW j \in 2 .. n PROVE f[j] = v[j - 1]
    <3>1. j - 1 \in 1 .. Len(v) /\ Len(r) + (j - 1) = j
      BY <1>3, <1>4
    <3>2. QED BY <1>6, <3>1
  <2>3. QED BY <2>1, <2>2
<1>9. QED BY <1>5, <1>6, <1>7, <1>8 DEF r, v, f

LEMMA PowersSum ==
  ASSUME NEW x \in Family, Coherent(x), NEW n \in Nat, n >= 2, NEW dealt, Dealt_(x, n, dealt),
         NEW j \in 1 .. n
  PROVE  /\ Table(Powers(x, dealt), n)
         /\ Rem(SumMod(Across(Powers(x, dealt), j))) = Rem(Pow(Mask(x), j))
<1> DEFINE f == Powers(x, dealt)  R == Mask(x)
<1>1. Parted_(x) /\ x[0].r[1] = R
  BY DEF Coherent
<1>2. Table(f, n)
  <2>1. ASSUME NEW p \in Computing PROVE f[p] \in Seq(Residues) /\ Len(f[p]) = n
    BY <1>1, PowersRow
  <2> HIDE DEF f
  <2>2. QED BY <2>1 DEF Table
<1>3. R \in Int
  BY <1>1, PartsType
<1>4. CASE j = 1
  <2>1. \A p \in Computing : f[p][1] = x[p].r[1]
    BY <1>1, PowersRow
  <2>2. Across(f, 1) = MasksOf(x)
    BY <2>1 DEF Across, MasksOf
  <2>3. Rem(Pow(R, 1)) = Rem(R)
    <3> HIDE DEF R
    <3>0. 0 \in Nat /\ 0 + 1 = 1
      OBVIOUS
    <3>1. Rem(Pow(R, 0 + 1)) = Rem(Pow(R, 0) * R) /\ Rem(Pow(R, 0)) = Rem(1) /\ Pow(R, 0) \in Int
      BY <1>3, <3>0, PowNext
    <3> DEFINE a == Pow(R, 0)
    <3>2. a \in Int /\ Rem(a) = Rem(1) /\ 1 \in Int
      BY <3>1
    <3> HIDE DEF a
    <3>3. Rem(a * R) = Rem(1 * R)
      BY <1>3, <3>2, RemMultiple
    <3>4. 1 * R = R
      BY <1>3
    <3>5. QED BY <3>0, <3>1, <3>3, <3>4 DEF a
  <2>4. SumMod(Across(f, 1)) = R
    BY <2>2 DEF Mask
  <2>5. QED BY <1>2, <1>4, <2>3, <2>4
<1>5. CASE j # 1
  <2>1. j \in 2 .. n /\ j - 1 \in 1 .. n - 1 /\ (j - 1) + 1 = j
    BY <1>5
  <2>2. \A p \in Computing : f[p][j] = dealt[p][j - 1]
    BY <1>1, <2>1, PowersRow
  <2>3. Across(f, j) = Across(dealt, j - 1)
    BY <2>2 DEF Across
  <2>4. Rem(SumMod(Across(dealt, j - 1))) = Rem(Pow(x[0].r[1], (j - 1) + 1))
    BY <2>1 DEF Dealt_
  <2>5. QED BY <1>1, <1>2, <2>1, <2>3, <2>4
<1>6. QED BY <1>4, <1>5

\* The terms of the parties, a row each.
TermsTable(x, n, dealt) == [p \in Computing |-> RTerms(x[p], n, Powers(x, dealt)[p])]
Revealed(x) == x[1].x_r[1]

LEMMA TermsRow ==
  ASSUME NEW x \in Family, Coherent(x), NEW n \in Nat, n >= 2, NEW dealt, Dealt_(x, n, dealt),
         NEW p \in Computing
  PROVE  LET v == TermsTable(x, n, dealt)[p]  f == Powers(x, dealt)[p] IN
         /\ v \in Seq(Residues) /\ Len(v) = n /\ v[n] = f[n]
         /\ \A j \in 1 .. n - 1 : Rem(v[j]) = Rem(Factor(Revealed(x), n, j) * f[j])
<1> DEFINE f == Powers(x, dealt)[p]  a == Revealed(x)  v == TermsTable(x, n, dealt)[p]  u == x[p]
<1>1. Parted_(x) /\ u.x_r = x[1].x_r
  BY DEF Coherent
<1>2. f \in Seq(Residues) /\ Len(f) = n
  BY <1>1, PowersRow
<1>3. a \in Int /\ u.x_r[1] = a
  BY <1>1, PartsType, ComputingParties DEF Revealed
<1>4. v = RTerms(u, n, f)
  BY DEF TermsTable
<1> HIDE DEF f, a, u, v
<1>5. n >= 1
  OBVIOUS
<1>6. v \in Seq(Residues) /\ Len(v) = n /\ v[n] = f[n]
      /\ \A j \in 1 .. n - 1 : Rem(v[j]) = Rem(Factor(a, n, j) * f[j])
  <2>1. /\ RTerms(u, n, f) \in Seq(Residues) /\ Len(RTerms(u, n, f)) = n
        /\ RTerms(u, n, f)[n] = f[n]
    BY <1>2, <1>3, <1>5, RTermsRow
  <2>2. \A j \in 1 .. n - 1 : Rem(RTerms(u, n, f)[j]) = Rem(Factor(a, n, j) * f[j])
    BY <1>2, <1>3, <1>5, RTermsRow
  <2>3. QED BY <1>4, <2>1, <2>2
<1>7. QED BY <1>6 DEF v, f, a

LEMMA TermsAcross ==
  ASSUME NEW x \in Family, Coherent(x), NEW n \in Nat, n >= 2, NEW dealt, Dealt_(x, n, dealt),
         NEW j \in 1 .. n
  PROVE  /\ Table(TermsTable(x, n, dealt), n)
         /\ Rem(SumMod(Across(TermsTable(x, n, dealt), j))) = Rem(Term(Revealed(x), Mask(x), n, j))
<1> DEFINE T == TermsTable(x, n, dealt)  f == Powers(x, dealt)  a == Revealed(x)  R == Mask(x)
           h == Across(T, j)  g == Across(f, j)
<1>1. Parted_(x)
  BY DEF Coherent
<1>2. a \in Int /\ R \in Int
  BY <1>1, PartsType, ComputingParties DEF Revealed
<1>3. Table(T, n)
  <2>1. ASSUME NEW p \in Computing PROVE T[p] \in Seq(Residues) /\ Len(T[p]) = n
    BY TermsRow
  <2> HIDE DEF T
  <2>2. QED BY <2>1 DEF Table
<1>4. Table(f, n) /\ Rem(SumMod(g)) = Rem(Pow(R, j))
  BY PowersSum
<1>5. ASSUME NEW p \in Computing
      PROVE  /\ j = n => h[p] = g[p]
             /\ j # n => Rem(h[p]) = Rem(Factor(a, n, j) * g[p])
  <2>1. h[p] = T[p][j] /\ g[p] = f[p][j]
    BY DEF Across
  <2>2. T[p][n] = f[p][n]
    BY TermsRow
  <2>3. ASSUME j # n PROVE Rem(T[p][j]) = Rem(Factor(a, n, j) * f[p][j])
    <3>1. j \in 1 .. n - 1
      BY <2>3
    <3>2. QED BY <3>1, TermsRow
  <2> HIDE DEF h, g, T, f, a
  <2>4. QED BY <2>1, <2>2, <2>3
<1> HIDE DEF T, f, a, R
<1>6. h \in [Computing -> Residues] /\ g \in [Computing -> Residues]
  BY <1>3, <1>4, TableTypes
<1> HIDE DEF h, g
<1>7. h \in Seq(Residues) /\ g \in Seq(Residues) /\ Len(h) = N - 1 /\ Len(g) = N - 1
      /\ SumMod(g) \in Int
  BY <1>6, ComputingSeq
<1>8. Computing = 1 .. Len(h)
  BY <1>7, ComputingParties
<1>9. j \in Nat /\ n - j \in Nat
  OBVIOUS
<1>10. CASE j = n
  <2>1. \A p \in 1 .. Len(h) : Rem(h[p]) = Rem(g[p])
    BY <1>5, <1>8, <1>10
  <2>2. Rem(SumMod(h)) = Rem(SumMod(g))
    BY <1>7, <2>1, SumSame
  <2>3. Rem(Term(a, R, n, n)) = Rem(Pow(R, n))
    BY <1>2, TermEnds
  <2>4. QED BY <1>3, <1>4, <1>10, <2>2, <2>3 DEF T, a, R, h
<1>11. CASE j # n
  <2> DEFINE c == Factor(a, n, j)  b == Pow(a, n - j)  q == Pow(R, j)  e == pascal_matrix[n][j]
             s == SumMod(g)
  <2>1. c \in Int /\ b \in Int /\ e \in Int /\ c = b * e
    BY <1>2, FactorType DEF Factor
  <2>2. q \in Int
    BY <1>2, <1>9, PowNext
  <2>3. Term(a, R, n, j) = (b * q) * e
    BY DEF Term
  <2> HIDE DEF c, b, q, e
  <2>4. \A p \in 1 .. Len(h) : Rem(h[p]) = Rem(c * g[p])
    BY <1>5, <1>8, <1>11 DEF c
  <2>5. Rem(SumMod(h)) = Rem(c * SumMod(g))
    BY <1>7, <2>1, <2>4, SumTimes
  <2>6. s \in Int /\ Rem(s) = Rem(q)
    BY <1>4, <1>7 DEF q
  <2> HIDE DEF s
  <2>7. Rem(c * s) = Rem(c * q)
    BY <2>1, <2>2, <2>6, RemTimesOne
  <2>8. c * q = (b * q) * e
    <3>1. (b * e) * q = (b * q) * e
      BY <2>1, <2>2
    <3>2. QED BY <2>1, <3>1
  <2>9. QED BY <1>3, <2>3, <2>5, <2>7, <2>8 DEF s, T, a, R, h
<1>12. QED BY <1>10, <1>11

LEMMA TermsSum ==
  ASSUME NEW x \in Family, Coherent(x), NEW n \in Nat, n >= 2, NEW dealt, Dealt_(x, n, dealt)
  PROVE  /\ Rows(TermsTable(x, n, dealt)) \in [Computing -> Residues]
         /\ Rem(Pow(Revealed(x), n) + SumMod(Rows(TermsTable(x, n, dealt)))) = Rem(Pow(Whole(x), n))
<1> DEFINE T == TermsTable(x, n, dealt)  a == Revealed(x)  R == Mask(x)
           C == Columns(T, n)  E == Terms(a, R, n)
<1>1. Parted_(x) /\ Rem(a + R) = Rem(Whole(x))
  BY DEF Coherent, Revealed
<1>2. a \in Int /\ R \in Int /\ Whole(x) \in Int
  BY <1>1, PartsType, FamilyType, ComputingParties DEF Revealed
<1>3. Table(T, n)
  <2>1. 1 \in 1 .. n
    OBVIOUS
  <2>2. QED BY <2>1, TermsAcross
<1>4. ASSUME NEW j \in 1 .. n PROVE Rem(SumMod(Across(T, j))) = Rem(Term(a, R, n, j))
  BY TermsAcross
<1> HIDE DEF T, a, R
<1>5. /\ Rows(T) \in [Computing -> Residues] /\ C \in Seq(Residues) /\ Len(C) = n
      /\ \A j \in 1 .. n : C[j] = SumMod(Across(T, j))
  BY <1>3, TableTypes
<1>6. E \in Seq(Residues) /\ Len(E) = n
  BY <1>2, TermsType
<1>7. ASSUME NEW j \in 1 .. n PROVE Rem(C[j]) = Rem(E[j])
  <2>1. E[j] = Rem(Term(a, R, n, j))
    BY DEF Terms
  <2>2. Term(a, R, n, j) \in Int
    <3>1. j \in 0 .. n
      OBVIOUS
    <3>2. QED BY <1>2, <3>1, TermType
  <2> DEFINE m == Term(a, R, n, j)
  <2>3. m \in Int /\ E[j] = Rem(m) /\ Rem(SumMod(Across(T, j))) = Rem(m)
    BY <1>4, <2>1, <2>2
  <2>4. C[j] = SumMod(Across(T, j))
    BY <1>5
  <2> HIDE DEF m, C, E
  <2>5. Rem(Rem(m)) = Rem(m)
    BY <2>3, RemRem
  <2>6. QED BY <2>3, <2>4, <2>5
<1>8. Rem(SumMod(Rows(T))) = Rem(SumMod(C))
  BY <1>3, Interchange
<1>9. Rem(SumMod(C)) = Rem(SumMod(E))
  <2> HIDE DEF C, E
  <2>1. \A j \in 1 .. Len(C) : Rem(C[j]) = Rem(E[j])
    BY <1>5, <1>7
  <2>2. QED BY <1>5, <1>6, <2>1, SumSame
<1> DEFINE s == SumMod(Rows(T))  e == SumMod(E)  q == Pow(a, n)
<1>10. s \in Int /\ e \in Int /\ q \in Int
  <2>1. s \in Int
    BY <1>5, ComputingSeq
  <2>2. e \in Int
    BY <1>6, SumsRight
  <2>3. q \in Int
    BY <1>2, PowNext
  <2>4. QED BY <2>1, <2>2, <2>3
<1>11. Rem(s) = Rem(e)
  BY <1>8, <1>9
<1>12. Binomial(a, R, n) = q + e
  BY DEF Binomial
<1> HIDE DEF s, e, q
<1>13. Rem(q + s) = Rem(q + e)
  BY <1>10, <1>11, RemPlusOne
<1>14. Rem(Binomial(a, R, n)) = Rem(Pow(a + R, n))
  BY <1>2, BinomialTheorem
<1>15. Rem(Pow(a + R, n)) = Rem(Pow(Whole(x), n))
  <2>1. a + R \in Int /\ Rem(Whole(x)) = Rem(Whole(x))
    BY <1>2
  <2>2. Rem(Pow(a + R, n)) = Rem(Raised(Whole(x), n))
    BY <1>1, <1>2, <2>1, PowRaised
  <2>3. Rem(Pow(Whole(x), n)) = Rem(Raised(Whole(x), n))
    BY <1>2, <2>1, PowRaised
  <2>4. QED BY <2>2, <2>3
<1>16. Rem(q + s) = Rem(Pow(Whole(x), n))
  BY <1>12, <1>13, <1>14, <1>15
<1>17. QED BY <1>5, <1>16 DEF q, s, T, a

\* What the computing parties have from the dealer at the end of a call.
AllDealt(pr, t, n, w) == [p \in Computing |-> DealtIn(pr, t, n, w, p)]

LEMMA PowersDealt ==
  ASSUME NEW pr, NEW t, NEW n, NEW w, NEW S, NEW r \in Nat, NEW d \in Nat,
         AtEnd(pr, t, n, w, S, r, d), pr[n].op = "pow"
  PROVE  Dealt_(Column(w, pr[n].x), pr[n].power, AllDealt(pr, t, n, w))
<1> DEFINE c == pr[n]  x == Column(w, c.x)  D == AllDealt(pr, t, n, w)  m == c.power
<1>1. EndCalls(pr, n, w, S) /\ m \in Nat /\ m >= 2
  BY EndOperands DEF EndCalls, CallFacts
<1>2. Dealt(c) = m - 1
  BY DEF Dealt
<1>3. Table(D, m - 1)
  <2>1. ASSUME NEW p \in Computing PROVE D[p] \in Seq(Residues) /\ Len(D[p]) = m - 1
    <3>1. D[p] = DealtIn(pr, t, n, w, p)
      BY DEF AllDealt
    <3>2. DealtIn(pr, t, n, w, p) \in Seq(Residues) /\ Len(DealtIn(pr, t, n, w, p)) = Dealt(c)
      BY DealtInType
    <3>3. QED BY <1>2, <3>1, <3>2
  <2> HIDE DEF D, m
  <2>2. QED BY <2>1 DEF Table
<1>4. x[0] = w.results[0][c.x] /\ x[0].r[1] \in Int
  <2>1. x \in Family /\ x[0] = w.results[0][c.x]
    BY OperandColumns, ComputingParties
  <2>2. c.x \in S
    BY <1>1 DEF EndCalls, Masking
  <2>3. w.results[0][c.x] \in Sharetensors /\ is_partitioned(w.results[0][c.x])
    BY <1>1, <2>2, ComputingParties DEF EndCalls
  <2> DEFINE u == w.results[0][c.x]
  <2> HIDE DEF u
  <2>4. u.r[1] \in Int
    BY <2>3, TensorParts DEF u
  <2>5. QED BY <2>1, <2>4 DEF u
<1> DEFINE R == x[0].r[1]
<1>5. Given(c, t, w) = [j \in 1 .. m - 1 |-> Pow(R, j + 1)]
  <2>1. Given(c, t, w) = [j \in 1 .. m - 1 |-> Pow(w.results[0][c.x].r[1], j + 1)]
    BY DEF Given
  <2>2. QED BY <1>4, <2>1
<1>6. ASSUME NEW j \in 1 .. m - 1
      PROVE  Rem(SumMod(Across(D, j))) = Rem(Pow(R, j + 1))
  <2>1. Given(c, t, w)[j] = Pow(R, j + 1)
    BY <1>5
  <2>2. Pow(R, j + 1) \in Residues
    <3> HIDE DEF R
    <3>1. R \in Int /\ j \in Nat
      BY <1>4 DEF R
    <3>2. QED BY <3>1, PowNext
  <2>3. Across(D, j) = DealtOf(pr, t, n, w, j)
    BY DEF Across, AllDealt, DealtOf
  <2>4. j \in 1 .. Dealt(c) /\ c.op \in {"mul", "pow", "trunc"} /\ Given(c, t, w)[j] \in Residues
    BY <1>2, <2>1, <2>2
  <2>5. Rem(SumMod(DealtOf(pr, t, n, w, j))) = Rem(Given(c, t, w)[j])
    BY <2>4, DealtSum
  <2>6. QED BY <2>1, <2>3, <2>5
<1> HIDE DEF D, m
<1>7. Dealt_(x, m, D)
  BY <1>3, <1>6 DEF Dealt_
<1>8. QED BY <1>7 DEF D, m

LEMMA PoweredWhole ==
  ASSUME NEW pr, NEW t, NEW n, NEW w, NEW S, NEW r \in Nat, NEW d \in Nat,
         AtEnd(pr, t, n, w, S, r, d), AllCoherent(w, S), pr[n].op = "pow"
  PROVE  Rem(Whole(NewColumn(pr, t, n, w))) = Rem(Raised(Whole(Column(w, pr[n].x)), pr[n].power))
<1> DEFINE c == pr[n]  x == Column(w, c.x)  m == c.power  D == AllDealt(pr, t, n, w)
           T == TermsTable(x, m, D)  z == NewColumn(pr, t, n, w)  h == SharesOf(z)  f == Rows(T)
           a == Revealed(x)  q == Pow(a, m)
<1>1. EndCalls(pr, n, w, S) /\ m \in Nat /\ m >= 2
  BY EndOperands DEF EndCalls, CallFacts
<1>2. c.x \in S
  BY <1>1 DEF EndCalls, Masking
<1>3. x \in Family /\ \A p \in Parties : x[p] = w.results[p][c.x]
  BY OperandColumns
<1>4. Coherent(x)
  BY <1>2 DEF AllCoherent
<1>5. Dealt_(x, m, D)
  BY PowersDealt
<1>6. Parted_(x) /\ \A p \in Computing : x[p].x_r = x[1].x_r
  BY <1>4 DEF Coherent
<1>7. a \in Int /\ Whole(x) \in Int
  <2> HIDE DEF x
  <2>1. QED BY <1>3, <1>6, PartsType, FamilyType, ComputingParties DEF Revealed
<1>8. z \in Family /\ \A p \in Parties : z[p] = NewTensor(pr, t, n, w, p)
  BY NewColumnType
<1>9. ASSUME NEW p \in Computing
      PROVE  h[p] = SumMod((IF p = 1 THEN <<q>> ELSE <<>>) \o T[p])
  <2>1. p \in Parties /\ p # 0
    BY ComputingParties
  <2>2. NewTensor(pr, t, n, w, p) = Sharetensor(NewShare(pr, t, n, w, p))
    BY DEF NewTensor
  <2>3. NewShare(pr, t, n, w, p)
          = powers_cached(p, w.results[p][c.x], c.power, DealtIn(pr, t, n, w, p))
    BY <2>1 DEF NewShare
  <2>4. x[p] = w.results[p][c.x]
    BY <1>3, <2>1
  <2>5. D[p] = DealtIn(pr, t, n, w, p)
    BY DEF AllDealt
  <2>6. z[p].share = powers_cached(p, x[p], m, D[p])
    BY <1>8, <2>1, <2>2, <2>3, <2>4, <2>5 DEF Sharetensor
  <2>7. T[p] = RTerms(x[p], m, x[p].r \o D[p])
    BY DEF TermsTable, Powers
  <2>8. x[p].x_r[1] = a
    BY <1>6 DEF Revealed
  <2>9. h[p] = z[p].share
    BY DEF SharesOf
  <2> HIDE DEF x, D, T, a, m, z, h
  <2>10. QED BY <2>6, <2>7, <2>8, <2>9 DEF powers_cached
<1> HIDE DEF x, D, m, z
<1>10. ASSUME NEW p \in Computing PROVE T[p] \in Seq(Residues)
  BY <1>1, <1>3, <1>4, <1>5, TermsRow
<1>11. f \in [Computing -> Residues] /\ Rem(q + SumMod(f)) = Rem(Pow(Whole(x), m))
  BY <1>1, <1>3, <1>4, <1>5, TermsSum
<1> HIDE DEF a
<1>12. q \in Residues /\ q \in Int
  BY <1>1, <1>7, PowNext
<1>13. h \in Seq(Residues) /\ Len(h) = N - 1
  BY <1>8, FamilyType
<1>14. \A p \in Computing : f[p] = SumMod(T[p])
  BY DEF Rows
<1> HIDE DEF T, f, h, q
<1>15. Rem(h[1]) = Rem(f[1] + q)
  <2>1. h[1] = SumMod(<<q>> \o T[1])
    BY <1>9, ComputingParties
  <2> DEFINE v == T[1]
  <2>2. v \in Seq(Residues) /\ f[1] = SumMod(v)
    BY <1>10, <1>14, ComputingParties
  <2> HIDE DEF v
  <2>3. Rem(SumMod(<<q>> \o v)) = Rem(SumMod(v) + q)
    BY <1>12, <2>2, SumFirst
  <2>4. QED BY <2>1, <2>2, <2>3 DEF v
<1>16. ASSUME NEW p \in Computing, p # 1 PROVE h[p] = f[p]
  <2>1. h[p] = SumMod(<<>> \o T[p])
    BY <1>9, <1>16
  <2> DEFINE v == T[p]
  <2>2. v \in Seq(Residues) /\ f[p] = SumMod(v)
    BY <1>10, <1>14
  <2> HIDE DEF v
  <2>3. <<>> \o v = v
    BY <2>2
  <2>4. QED BY <2>1, <2>2, <2>3 DEF v
<1>17. f \in Seq(Residues) /\ Len(f) = N - 1 /\ SumMod(f) \in Int
  BY <1>11, ComputingSeq
<1>18. Rem(SumMod(h)) = Rem(SumMod(f) + q)
  <2>1. Len(h) >= 1 /\ Len(f) = Len(h)
    BY <1>13, <1>17, ComputingParties
  <2>2. \A i \in 2 .. Len(h) : Rem(h[i]) = Rem(f[i])
    BY <1>13, <1>16, ComputingParties
  <2>3. QED BY <1>12, <1>13, <1>15, <1>17, <2>1, <2>2, SumHub
<1>19. SumMod(f) + q = q + SumMod(f)
  BY <1>12, <1>17
<1>20. Rem(Pow(Whole(x), m)) = Rem(Raised(Whole(x), m))
  <2>1. Rem(Whole(x)) = Rem(Whole(x))
    OBVIOUS
  <2>2. QED BY <1>1, <1>7, PowRaised
<1>21. Whole(z) = SumMod(h)
  BY DEF Whole, h
<1>22. QED BY <1>11, <1>18, <1>19, <1>20, <1>21 DEF x, m, z, c

-----------------------------------------------------------------------------
\* Truncation: half of one more than the modulus, which is odd, is the inverse of two.
Half == (Modulus + 1) \div 2

LEMMA HalfTwice ==
  /\ Half \in Int /\ Rem(Half * 2) = Rem(1)
<1>1. Modulus \in Nat \ {0} /\ Modulus % 2 = 1 /\ 2 \in Nat \ {0} /\ Modulus \in Int
  BY WordAssumption, BitsAssumption
<1>2. PICK q \in Int : Modulus = q * 2 + (Modulus % 2)
  BY <1>1, ModQuotient
<1>3. Modulus = q * 2 + 1
  BY <1>1, <1>2
<1>4. Modulus + 1 = (q + 1) * 2
  BY <1>3
<1>5. ((q + 1) * 2) \div 2 = q + 1
  OBVIOUS
<1>6. Half = q + 1
  BY <1>4, <1>5 DEF Half
<1>7. Half * 2 = 1 + 1 * Modulus
  BY <1>1, <1>4, <1>6
<1>8. 1 \in Int
  OBVIOUS
<1>9. Rem(1 + 1 * Modulus) = Rem(1)
  BY <1>8, RemShift
<1>10. QED BY <1>6, <1>7, <1>9

LEMMA HalvesInverse ==
  \A n \in Nat : Rem(Pow(Half, n) * TwoTo[n]) = Rem(1) /\ Pow(Half, n) \in Int /\ TwoTo[n] \in Nat \ {0}
<1> DEFINE S == {n \in Nat : Rem(Pow(Half, n) * TwoTo[n]) = Rem(1)}
<1>1. Half \in Int /\ Rem(Half * 2) = Rem(1) /\ Half * 2 \in Int
  BY HalfTwice
<1>2. ASSUME NEW n \in Nat PROVE Pow(Half, n) \in Int /\ TwoTo[n] \in Nat \ {0}
  BY <1>1, PowNext, TwoToType
<1>3. 0 \in S
  <2>1. 0 \in Nat /\ TwoTo[0] = 1
    BY TwoToType
  <2> DEFINE a == Pow(Half, 0)
  <2>2. a \in Int /\ Rem(a) = Rem(1)
    BY <1>1, <2>1, PowNext
  <2> HIDE DEF a
  <2>3. a * 1 = a
    BY <2>2
  <2>4. QED BY <2>1, <2>2, <2>3 DEF a
<1>4. ASSUME NEW n \in Nat, n \in S PROVE n + 1 \in S
  <2> DEFINE a == Pow(Half, n)  b == TwoTo[n]  c == Pow(Half, n + 1)  e == TwoTo[n + 1]
             ab == a * b  hh == Half * 2
  <2>1. a \in Int /\ b \in Int /\ Rem(ab) = Rem(1) /\ c \in Int /\ e = 2 * b
    BY <1>1, <1>2, <1>4, PowNext, TwoToType
  <2>2. Rem(c) = Rem(a * Half)
    BY <1>1, PowNext
  <2>3. hh \in Int /\ Rem(hh) = Rem(1) /\ 1 \in Int
    BY <1>1
  <2>4. ab \in Int /\ e \in Int /\ a * Half \in Int
    BY <1>1, <2>1
  <2>5. (a * Half) * e = ab * hh
    <3> HIDE DEF a, b, c, e
    <3>1. (a * Half) * (2 * b) = (a * b) * (Half * 2)
      BY <1>1, <2>1
    <3>2. QED BY <2>1, <3>1
  <2> DEFINE aH == a * Half
  <2>6. aH \in Int /\ Rem(c) = Rem(aH)
    BY <2>2, <2>4
  <2> HIDE DEF a, b, c, e, ab, hh, aH
  <2>7. Rem(c * e) = Rem(aH * e)
    BY <2>1, <2>4, <2>6, RemMultiple
  <2>8. Rem(ab * hh) = Rem(1 * 1)
    BY <2>1, <2>3, <2>4, RemTimes
  <2>9. aH * e = ab * hh
    BY <2>5 DEF aH
  <2>10. Rem(c * e) = Rem(1)
    <3>1. 1 * 1 = 1
      OBVIOUS
    <3>2. QED BY <2>7, <2>8, <2>9, <3>1
  <2>11. n + 1 \in Nat
    OBVIOUS
  <2>12. QED BY <2>10, <2>11 DEF c, e
<1>5. Nat \subseteq S
  <2> HIDE DEF S
  <2>1. QED BY <1>3, <1>4, SetInduction
<1>6. QED BY <1>2, <1>5

LEMMA QuotientFacts ==
  ASSUME NEW n \in Nat \ {0}, NEW a \in Nat
  PROVE  /\ a \div n \in Nat /\ a % n \in 0 .. n - 1 /\ a = (a \div n) * n + (a % n)
         /\ a \div n <= a
<1>1. a % n \in 0 .. n - 1 /\ a \div n \in Int /\ a = (a \div n) * n + (a % n)
  OBVIOUS
<1> DEFINE q == a \div n  r == a % n
<1>2. q \in Int /\ r \in 0 .. n - 1 /\ a = q * n + r
  BY <1>1
<1> HIDE DEF q, r
<1>3. q >= 0
  <2>1. SUFFICES ASSUME q <= -1 PROVE FALSE
    BY <1>2
  <2>2. q * n <= (-1) * n
    BY <1>2, <2>1
  <2>3. QED BY <1>2, <2>2
<1>4. q <= q * n
  BY <1>2, <1>3
<1>5. QED BY <1>2, <1>3, <1>4 DEF q, r

LEMMA NoneOrOne ==
  ASSUME NEW n \in Nat \ {0}, NEW d \in Int, NEW e \in Int, e = d * n, -n < e, e < 2 * n
  PROVE  d \in 0 .. 1
<1>1. d >= 0
  <2>1. SUFFICES ASSUME d <= -1 PROVE FALSE
    OBVIOUS
  <2>2. d * n <= (-1) * n
    BY <2>1
  <2>3. QED BY <2>2
<1>2. d <= 1
  <2>1. SUFFICES ASSUME d >= 2 PROVE FALSE
    OBVIOUS
  <2>2. d * n >= 2 * n
    BY <2>1
  <2>3. QED BY <2>2
<1>3. QED BY <1>1, <1>2

\* Dividing the sum of x and a mask, and the mask, gives x divided, rounded down or up.
LEMMA CutQuotient ==
  ASSUME NEW n \in Nat \ {0}, NEW x \in Nat, NEW m \in Nat
  PROVE  LET q == ((x + m) \div n) - (m \div n) IN
         /\ q - (x \div n) \in 0 .. 1 /\ q \in Nat /\ q <= x + m
         /\ x + (m % n) - ((x + m) % n) = q * n
<1> DEFINE c == x + m
           qx == x \div n  lx == x % n  qm == m \div n  lm == m % n  qc == c \div n  lc == c % n
           d == qc - qm - qx  e == lx + lm - lc
<1>1. c \in Nat
  OBVIOUS
<1>2. /\ qx \in Nat /\ lx \in 0 .. n - 1 /\ x = qx * n + lx
      /\ qm \in Nat /\ lm \in 0 .. n - 1 /\ m = qm * n + lm
      /\ qc \in Nat /\ lc \in 0 .. n - 1 /\ c = qc * n + lc /\ qc <= c
  <2> HIDE DEF c
  <2>1. QED BY <1>1, QuotientFacts
<1>3. c = x + m
  OBVIOUS
<1> HIDE DEF c, qx, lx, qm, lm, qc, lc
<1>4. qc * n + lc = (qx * n + lx) + (qm * n + lm)
  BY <1>2, <1>3
<1>5. e = d * n /\ e \in Int /\ d \in Int
  BY <1>2, <1>4
<1>6. -n < e /\ e < 2 * n
  BY <1>2
<1> HIDE DEF d, e
<1>7. d \in 0 .. 1
  BY <1>5, <1>6, NoneOrOne
<1>8. (qc - qm) - qx = d
  BY <1>2 DEF d
<1>9. qc - qm \in Nat /\ qc - qm <= c
  BY <1>2, <1>7, <1>8
<1>10. x + lm - lc = (qc - qm) * n
  <2>1. (qc - qm) * n = qc * n - qm * n
    BY <1>2
  <2> DEFINE cn == qc * n  mn == qm * n
  <2>2. cn \in Int /\ mn \in Int /\ c = cn + lc /\ m = mn + lm
    BY <1>2
  <2> HIDE DEF cn, mn
  <2>3. x + lm - lc = cn - mn
    BY <1>2, <1>3, <2>2
  <2>4. QED BY <2>1, <2>3 DEF cn, mn
<1>11. QED BY <1>7, <1>8, <1>9, <1>10 DEF c, qx, qm, qc, lm, lc

LEMMA InversePowerRight ==
  /\ InversePower \in Residues /\ InversePower \in Int /\ TwoTo[F] \in Nat \ {0}
  /\ Rem(InversePower * TwoTo[F]) = Rem(1)
<1>1. F \in Nat
  BY BitsAssumption
<1>2. InversePower = Pow(Half, F)
  BY DEF InversePower, Half
<1>3. Pow(Half, F) \in Residues
  BY <1>1, HalfTwice, PowType
<1>4. QED BY <1>1, <1>2, <1>3, HalvesInverse

\* A number that fits, and its mask, are together less than the modulus.
LEMMA MaskedFits ==
  ASSUME NEW x \in Residues, x < TwoTo[K], NEW m \in 0 .. TwoTo[K + V] - 1
  PROVE  x + m \in Residues
<1>1. K + V \in Nat /\ K \in Nat /\ TwoTo[K] + TwoTo[K + V] <= Modulus + 1
  BY BitsAssumption
<1>2. TwoTo[K] \in Nat \ {0} /\ TwoTo[K + V] \in Nat \ {0}
  BY <1>1, TwoToType
<1> DEFINE a == TwoTo[K]  b == TwoTo[K + V]
<1>3. a \in Nat /\ b \in Nat /\ a + b <= Modulus + 1 /\ x < a /\ m \in 0 .. b - 1
  BY <1>1, <1>2
<1> HIDE DEF a, b
<1>4. Modulus \in Nat
  BY WordAssumption
<1>5. QED BY <1>3, <1>4 DEF Residues

LEMMA MaskReduced ==
  ASSUME NEW m \in 0 .. TwoTo[K + V] - 1
  PROVE  m \in Residues /\ low(m) \in Residues /\ m \in Nat
<1>1. K \in Nat /\ F \in Nat /\ K + V \in Nat
  BY BitsAssumption
<1>2. TwoTo[K] \in Nat \ {0} /\ TwoTo[F] \in Nat \ {0} /\ TwoTo[K + V] \in Nat \ {0}
  BY <1>1, TwoToType
<1>3. 0 \in Residues /\ 0 < TwoTo[K]
  BY <1>2, ResidueFacts
<1>4. 0 + m \in Residues
  <2> DEFINE z == 0
  <2>1. z \in Residues /\ z < TwoTo[K]
    BY <1>3
  <2> HIDE DEF z
  <2>2. z + m \in Residues
    BY <2>1, MaskedFits
  <2>3. QED BY <2>2 DEF z
<1>5. m \in Nat
  BY <1>2
<1>6. 0 + m = m
  BY <1>5
<1>7. m \in Residues
  BY <1>4, <1>6
<1>8. low(m) \in Residues
  <2>1. m % TwoTo[F] \in 0 .. m
    <3>1. m % TwoTo[F] \in 0 .. TwoTo[F] - 1 /\ m = (m \div TwoTo[F]) * TwoTo[F] + (m % TwoTo[F])
          /\ m \div TwoTo[F] \in Nat
      BY <1>2, <1>5, QuotientFacts
    <3> DEFINE n == TwoTo[F]  q == m \div TwoTo[F]  r == m % TwoTo[F]
    <3>2. n \in Nat /\ q \in Nat /\ r \in 0 .. n - 1 /\ m = q * n + r
      BY <1>2, <3>1
    <3> HIDE DEF n, q, r
    <3>3. q * n >= 0
      BY <3>2
    <3> DEFINE qn == q * n
    <3>4. qn \in Int /\ qn >= 0 /\ m = qn + r
      BY <3>2, <3>3
    <3> HIDE DEF qn
    <3>5. r \in 0 .. m
      BY <1>5, <3>2, <3>4
    <3>6. QED BY <3>5 DEF r
  <2>2. Modulus \in Nat
    BY WordAssumption
  <2> DEFINE r == m % TwoTo[F]
  <2>3. r \in 0 .. m
    BY <2>1
  <2> HIDE DEF r
  <2>4. r \in Residues
    BY <1>5, <1>7, <2>2, <2>3 DEF Residues
  <2>5. QED BY <2>4 DEF low, r
<1>9. QED BY <1>5, <1>7, <1>8

LEMMA LowReduced ==
  ASSUME NEW c \in Residues
  PROVE  low(c) \in 0 .. Modulus /\ low(c) \in Int
<1>1. F \in Nat /\ Modulus \in Nat
  BY BitsAssumption, WordAssumption
<1>2. TwoTo[F] \in Nat \ {0}
  BY <1>1, TwoToType
<1>3. c \in Nat /\ c < Modulus
  BY <1>1 DEF Residues
<1> DEFINE n == TwoTo[F]  q == c \div n  r == c % n
<1>4. n \in Nat \ {0}
  BY <1>2
<1> HIDE DEF n
<1>5. q \in Nat /\ r \in 0 .. n - 1 /\ c = q * n + r
  BY <1>3, <1>4, QuotientFacts
<1>6. low(c) = r
  BY DEF low, n
<1> HIDE DEF q, r
<1>7. q * n >= 0
  BY <1>4, <1>5
<1> DEFINE qn == q * n
<1>8. qn \in Int /\ qn >= 0 /\ c = qn + r /\ r \in Nat
  BY <1>4, <1>5, <1>7
<1> HIDE DEF qn
<1>9. r \in 0 .. Modulus /\ r \in Int
  BY <1>1, <1>3, <1>8
<1>10. QED BY <1>6, <1>9

\* What trunc computes, from shares that add up to x and to a mask and its low bits.
LEMMA CutRight ==
  ASSUME NEW x \in Residues, x < TwoTo[K], NEW m \in 0 .. TwoTo[K + V] - 1,
         NEW c \in Residues, Rem(c) = Rem(x + m),
         NEW b \in Int, Rem(b) = Rem((x + low(m)) - low(c)),
         NEW z \in Residues, Rem(z) = Rem(b * InversePower)
  PROVE  z - (x \div TwoTo[F]) \in 0 .. 1
<1> DEFINE n == TwoTo[F]  q == ((x + m) \div n) - (m \div n)  qn == q * n  i == InversePower
           in == i * n
<1>1. n \in Nat \ {0} /\ i \in Int /\ Rem(in) = Rem(1) /\ in \in Int
  BY InversePowerRight
<1>2. m \in Nat /\ x \in Nat
  BY MaskReduced, ResidueFacts
<1>3. x + m \in Residues
  BY MaskedFits
<1>4. c = x + m
  BY <1>3, SameResidue
<1>5. low(c) = (x + m) % n /\ low(m) = m % n
  BY <1>4 DEF low
<1>6. q - (x \div n) \in 0 .. 1 /\ q \in Nat /\ q <= x + m /\ x + (m % n) - ((x + m) % n) = q * n
  <2> HIDE DEF n
  <2>1. QED BY <1>1, <1>2, CutQuotient
<1>7. q \in Residues
  <2>1. Modulus \in Nat
    BY WordAssumption
  <2> DEFINE a == x + m
  <2>2. a \in Residues /\ q \in Nat /\ q <= a
    BY <1>3, <1>6
  <2> HIDE DEF a, q
  <2>3. QED BY <2>1, <2>2 DEF Residues
<1>8. Rem(b) = Rem(qn)
  <2> DEFINE lm == m % n  lc == (x + m) % n
  <2>1. low(c) = lc /\ low(m) = lm /\ x + lm - lc = qn
    BY <1>5, <1>6
  <2>4. lm \in Int /\ lc \in Int
    <3>1. lm \in 0 .. n - 1
      BY <1>1, <1>2, QuotientFacts
    <3>2. x + m \in Nat
      BY <1>2
    <3>3. lc \in 0 .. n - 1
      BY <1>1, <3>2, QuotientFacts
    <3> HIDE DEF lm, lc
    <3>4. QED BY <1>1, <3>1, <3>3
  <2> HIDE DEF lm, lc, qn
  <2> DEFINE g == low(c)  h == low(m)
  <2>5. g = lc /\ h = lm
    BY <2>1
  <2> HIDE DEF g, h
  <2>2. (x + h) - g = qn
    BY <1>2, <2>1, <2>4, <2>5
  <2>3. QED BY <2>2 DEF g, h
<1> HIDE DEF q
<1>9. q \in Int
  BY <1>7, ResidueFacts
<1> HIDE DEF n, i
<1>10. qn \in Int /\ qn * i = q * in
  BY <1>1, <1>9
<1>11. Rem(b * i) = Rem(qn * i)
  <2> HIDE DEF qn
  <2>1. QED BY <1>1, <1>8, <1>10, RemMultiple
<1>12. Rem(q * in) = Rem(q * 1)
  <2> HIDE DEF in
  <2>1. 1 \in Int
    OBVIOUS
  <2>2. QED BY <1>1, <1>9, <2>1, RemTimesOne
<1>13. q * 1 = q
  BY <1>9
<1>14. Rem(z) = Rem(q)
  BY <1>10, <1>11, <1>12, <1>13 DEF i
<1>15. z = q
  BY <1>7, <1>14, SameResidue
<1>16. QED BY <1>6, <1>15 DEF n

\* Each party adds the number it has from the dealer to its share.
Plus(f, e) == [p \in Computing |-> add_mod(f[p], e[p])]

LEMMA PlusSum ==
  ASSUME NEW f \in [Computing -> Residues], NEW e \in [Computing -> Residues], NEW x \in Int,
         SumMod(f) = x, NEW m \in Int, Rem(SumMod(e)) = Rem(m)
  PROVE  /\ Plus(f, e) \in [Computing -> Residues] /\ Rem(SumMod(Plus(f, e))) = Rem(x + m)
         /\ SumMod(Plus(f, e)) \in Residues
<1> DEFINE h == Plus(f, e)  s == SumMod(e)
<1>1. ASSUME NEW p \in Computing
      PROVE  h[p] = add_mod(f[p], e[p]) /\ h[p] \in Residues /\ Rem(h[p]) = Rem(f[p] + e[p])
  <2> DEFINE a == f[p]  b == e[p]
  <2>1. a \in Residues /\ b \in Residues /\ h[p] = add_mod(a, b)
    BY DEF Plus
  <2> HIDE DEF a, b, h
  <2>2. a \in Int /\ b \in Int
    BY <2>1, ResidueFacts
  <2>3. add_mod(a, b) \in Residues
    BY <2>2, ArithmeticTypes
  <2>4. Rem(add_mod(a, b)) = Rem(a + b)
    BY <2>1, RemResidues
  <2>5. QED BY <2>1, <2>3, <2>4 DEF a, b
<1>2. h \in [Computing -> Residues]
  <2>1. \A p \in Computing : add_mod(f[p], e[p]) \in Residues
    BY <1>1
  <2>2. QED BY <2>1 DEF Plus
<1> HIDE DEF h
<1>3. /\ h \in Seq(Residues) /\ f \in Seq(Residues) /\ e \in Seq(Residues)
      /\ Len(h) = N - 1 /\ Len(f) = N - 1 /\ Len(e) = N - 1 /\ s \in Int /\ SumMod(h) \in Residues
  BY <1>2, ComputingSeq
<1>4. \A i \in 1 .. Len(h) : Rem(h[i]) = Rem(f[i] + e[i])
  BY <1>1, <1>3, ComputingParties
<1>5. Rem(SumMod(h)) = Rem(SumMod(f) + SumMod(e))
  BY <1>3, <1>4, SumPlus
<1>6. Rem(s) = Rem(m)
  OBVIOUS
<1> HIDE DEF s
<1>7. Rem(x + s) = Rem(x + m)
  BY <1>3, <1>6, RemPlusOne
<1>8. QED BY <1>2, <1>3, <1>5, <1>7 DEF h, s

\* The hub takes a number away, and everyone multiplies.
HubLess(f, v) == [p \in Computing |-> IF p = 1 THEN sub_mod(f[p], v) ELSE f[p]]

LEMMA HubLessSum ==
  ASSUME NEW f \in [Computing -> Residues], NEW v \in Int, v \in 0 .. Modulus
  PROVE  /\ HubLess(f, v) \in [Computing -> Residues]
         /\ Rem(SumMod(HubLess(f, v))) = Rem(SumMod(f) - v)
<1> DEFINE h == HubLess(f, v)  a == f[1]
<1>1. a \in Residues /\ a \in Int /\ a >= 0 /\ Modulus \in Nat
  <2>1. f[1] \in Residues /\ Modulus \in Nat
    BY ComputingParties, WordAssumption
  <2> HIDE DEF a
  <2>2. a \in Residues
    BY <2>1 DEF a
  <2>3. QED BY <2>1, <2>2 DEF Residues
<1> HIDE DEF a
<1>2. sub_mod(a, v) \in Residues /\ Rem(sub_mod(a, v)) = Rem(a - v)
  <2>1. v \in 0 .. a + Modulus
    BY <1>1
  <2>2. sub_mod(a, v) \in Residues
    BY <1>1, ArithmeticTypes
  <2>3. Rem(sub_mod(a, v)) = Rem(a - v)
    BY <1>1, <2>1, RemSub
  <2>4. QED BY <2>2, <2>3
<1>3. ASSUME NEW p \in Computing PROVE h[p] = IF p = 1 THEN sub_mod(a, v) ELSE f[p]
  BY DEF HubLess, a
<1>4. ASSUME NEW p \in Computing PROVE h[p] \in Residues
  BY <1>2, <1>3
<1>5. h \in [Computing -> Residues]
  <2>1. h = [p \in Computing |-> h[p]]
    BY DEF HubLess
  <2> HIDE DEF h
  <2>2. QED BY <1>4, <2>1
<1> HIDE DEF h
<1>6. h \in Seq(Residues) /\ f \in Seq(Residues) /\ Len(h) = N - 1 /\ Len(f) = N - 1
      /\ SumMod(f) \in Int
  BY <1>5, ComputingSeq
<1>7. Rem(h[1]) = Rem(f[1] + (-v)) /\ -v \in Int
  <2>1. a - v = a + (-v)
    BY <1>1
  <2>2. h[1] = sub_mod(a, v)
    BY <1>3, ComputingParties
  <2>3. QED BY <1>2, <2>1, <2>2 DEF a
<1>8. \A i \in 2 .. Len(h) : Rem(h[i]) = Rem(f[i])
  BY <1>3, <1>6, ComputingParties
<1> DEFINE u == -v
<1>9. u \in Int /\ Rem(h[1]) = Rem(f[1] + u)
  BY <1>7
<1> HIDE DEF u
<1>10. Rem(SumMod(h)) = Rem(SumMod(f) + u)
  <2>1. Len(h) >= 1 /\ Len(f) = Len(h)
    BY <1>6, ComputingParties
  <2>2. QED BY <1>6, <1>8, <1>9, <2>1, SumHub
<1>11. SumMod(f) + u = SumMod(f) - v
  BY <1>6 DEF u
<1>12. QED BY <1>5, <1>10, <1>11 DEF h

\* What the computing parties have of the mask of trunc, and of its low bits.
LEMMA TruncDealt ==
  ASSUME NEW pr, NEW t, NEW n, NEW w, NEW S, NEW r \in Nat, NEW d \in Nat,
         AtEnd(pr, t, n, w, S, r, d), pr[n].op = "trunc"
  PROVE  /\ DealersMask(t, w) \in 0 .. TwoTo[K + V] - 1
         /\ \A j \in 1 .. 2 : DealtOf(pr, t, n, w, j) \in [Computing -> Residues]
         /\ Rem(SumMod(DealtOf(pr, t, n, w, 1))) = Rem(DealersMask(t, w))
         /\ Rem(SumMod(DealtOf(pr, t, n, w, 2))) = Rem(low(DealersMask(t, w)))
<1> DEFINE c == pr[n]  m == DealersMask(t, w)  g == Given(c, t, w)
<1>1. w.own \in Nat /\ t \in Tapes
  BY DEF AtEnd, WorldOK
<1>2. m \in 0 .. TwoTo[K + V] - 1
  BY <1>1, DealersMaskType
<1>3. g = <<m, low(m)>>
  BY DEF Given
<1>4. Dealt(c) = 2 /\ c.op \in {"mul", "pow", "trunc"} /\ 1 \in 1 .. 2 /\ 2 \in 1 .. 2
  BY DEF Dealt
<1> HIDE DEF m, c
<1>5. m \in Residues /\ low(m) \in Residues
  BY <1>2, MaskReduced
<1>6. g[1] = m /\ g[2] = low(m)
  BY <1>3
<1> HIDE DEF g
<1>7. ASSUME NEW j \in 1 .. 2
      PROVE  /\ DealtOf(pr, t, n, w, j) \in [Computing -> Residues]
             /\ Rem(SumMod(DealtOf(pr, t, n, w, j))) = Rem(g[j])
  <2>1. j = 1 \/ j = 2
    OBVIOUS
  <2>2. g[j] \in Residues
    BY <1>5, <1>6, <2>1
  <2>3. j \in 1 .. Dealt(pr[n]) /\ pr[n].op \in {"mul", "pow", "trunc"} /\ Given(pr[n], t, w)[j] \in Residues
    BY <1>4, <2>2 DEF g, c
  <2>4. QED BY <2>3, DealtSum DEF g, c
<1>8. Rem(SumMod(DealtOf(pr, t, n, w, 1))) = Rem(g[1])
  BY <1>4, <1>7
<1>9. Rem(SumMod(DealtOf(pr, t, n, w, 2))) = Rem(g[2])
  BY <1>4, <1>7
<1>10. QED BY <1>2, <1>6, <1>7, <1>8, <1>9 DEF m

LEMMA TruncatedWhole ==
  ASSUME NEW pr, NEW t, NEW n, NEW w, NEW S, NEW r \in Nat, NEW d \in Nat,
         AtEnd(pr, t, n, w, S, r, d), pr[n].op = "trunc", Whole(Column(w, pr[n].x)) < TwoTo[K]
  PROVE  Whole(NewColumn(pr, t, n, w)) - (Whole(Column(w, pr[n].x)) \div TwoTo[F]) \in 0 .. 1
<1> DEFINE c == pr[n]  x == Column(w, c.x)  X1 == Whole(x)  m == DealersMask(t, w)
           e == DealtOf(pr, t, n, w, 1)  l == DealtOf(pr, t, n, w, 2)  f == SharesOf(x)
           v == EndValues(pr, t, n, w)  C == SumMod(v)  a == Plus(f, l)  b == HubLess(a, low(C))
           z == NewColumn(pr, t, n, w)  h == SharesOf(z)  B == SumMod(b)
<1>1. x \in Family /\ \A p \in Parties : x[p] = w.results[p][c.x]
  BY OperandColumns
<1>2. /\ m \in 0 .. TwoTo[K + V] - 1 /\ e \in [Computing -> Residues] /\ l \in [Computing -> Residues]
      /\ Rem(SumMod(e)) = Rem(m) /\ Rem(SumMod(l)) = Rem(low(m))
  <2>1. 1 \in 1 .. 2 /\ 2 \in 1 .. 2
    OBVIOUS
  <2>2. /\ m \in 0 .. TwoTo[K + V] - 1
        /\ Rem(SumMod(e)) = Rem(m) /\ Rem(SumMod(l)) = Rem(low(m))
    BY TruncDealt
  <2>3. \A j \in 1 .. 2 : DealtOf(pr, t, n, w, j) \in [Computing -> Residues]
    BY TruncDealt
  <2>4. e \in [Computing -> Residues] /\ l \in [Computing -> Residues]
    BY <2>1, <2>3
  <2>5. QED BY <2>2, <2>4
<1>3. z \in Family /\ \A p \in Parties : z[p] = NewTensor(pr, t, n, w, p)
  BY NewColumnType
<1>4. v = Plus(f, e)
  <2>1. ASSUME NEW p \in Computing PROVE v[p] = add_mod(f[p], e[p])
    <3>1. v[p] = add_mod(w.results[p][c.x].share, DealtIn(pr, t, n, w, p)[1])
      BY DEF EndValues
    <3>2. e[p] = DealtIn(pr, t, n, w, p)[1]
      BY DEF DealtOf
    <3>3. f[p] = w.results[p][c.x].share
      BY <1>1, ComputingParties DEF SharesOf
    <3>4. QED BY <3>1, <3>2, <3>3
  <2>2. v = [p \in Computing |-> v[p]]
    BY DEF EndValues
  <2> HIDE DEF v, f, e
  <2>3. QED BY <2>1, <2>2 DEF Plus
<1>5. ASSUME NEW p \in Computing PROVE h[p] = mul_mod(b[p], InversePower)
  <2>1. p \in Parties /\ p # 0
    BY ComputingParties
  <2>2. NewTensor(pr, t, n, w, p) = Sharetensor(NewShare(pr, t, n, w, p))
    BY DEF NewTensor
  <2>3. NewShare(pr, t, n, w, p) = Cut(pr, t, n, w, p)
    BY <2>1 DEF NewShare
  <2>4. h[p] = Cut(pr, t, n, w, p)
    <3>1. h[p] = z[p].share
      BY DEF SharesOf
    <3>2. z[p] = NewTensor(pr, t, n, w, p)
      BY <1>3, <2>1
    <3>3. QED BY <2>2, <2>3, <3>1, <3>2 DEF Sharetensor
  <2> DEFINE s == add_mod(w.results[p][c.x].share, DealtIn(pr, t, n, w, p)[2])
  <2>5. Cut(pr, t, n, w, p) = mul_mod(IF p = 1 THEN sub_mod(s, low(C)) ELSE s, InversePower)
    BY DEF Cut
  <2>6. a[p] = s
    <3>1. l[p] = DealtIn(pr, t, n, w, p)[2]
      BY DEF DealtOf
    <3>2. f[p] = w.results[p][c.x].share
      BY <1>1, <2>1 DEF SharesOf
    <3>3. a[p] = add_mod(f[p], l[p])
      BY DEF Plus
    <3>4. QED BY <3>1, <3>2, <3>3
  <2>7. b[p] = IF p = 1 THEN sub_mod(a[p], low(C)) ELSE a[p]
    BY DEF HubLess
  <2> HIDE DEF s, a, b, C, h
  <2>8. QED BY <2>4, <2>5, <2>6, <2>7
<1>6. X1 < TwoTo[K]
  OBVIOUS
<1>7. X1 = SumMod(f) /\ Whole(z) = SumMod(h)
  BY DEF Whole
<1> HIDE DEF x, z, m, e, l, v, c
<1>8. X1 \in Residues /\ X1 \in Int
  BY <1>1, FamilyType
<1>9. f \in [Computing -> Residues]
  <2>1. \A p \in Computing : x[p].share \in Residues
    BY <1>1, FamilyType
  <2>2. QED BY <2>1 DEF SharesOf
<1>10. h \in Seq(Residues) /\ Len(h) = N - 1 /\ Whole(z) \in Residues
  BY <1>3, FamilyType
<1>11. m \in Int /\ low(m) \in Int
  <2>1. m \in Residues /\ low(m) \in Residues
    BY <1>2, MaskReduced
  <2> DEFINE q == low(m)
  <2>2. q \in Residues
    BY <2>1
  <2> HIDE DEF q
  <2>3. q \in Int /\ m \in Int
    BY <2>1, <2>2, ResidueFacts
  <2>4. QED BY <2>3 DEF q
<1> HIDE DEF f, h, X1
<1>12. C \in Residues /\ Rem(C) = Rem(X1 + m)
  BY <1>2, <1>4, <1>7, <1>8, <1>9, <1>11, PlusSum
<1> DEFINE q == low(m)
<1>13. q \in Int /\ Rem(SumMod(l)) = Rem(q)
  BY <1>2, <1>11
<1> HIDE DEF q
<1>14. a \in [Computing -> Residues] /\ Rem(SumMod(a)) = Rem(X1 + q)
  BY <1>2, <1>7, <1>8, <1>9, <1>13, PlusSum
<1> HIDE DEF C
<1>15. low(C) \in 0 .. Modulus /\ low(C) \in Int
  BY <1>12, LowReduced
<1> DEFINE o == low(C)
<1>16. o \in 0 .. Modulus /\ o \in Int
  BY <1>15
<1> HIDE DEF a
<1>17. b \in [Computing -> Residues] /\ Rem(SumMod(b)) = Rem(SumMod(a) - o)
  <2> HIDE DEF o
  <2>1. HubLess(a, o) \in [Computing -> Residues] /\ Rem(SumMod(HubLess(a, o))) = Rem(SumMod(a) - o)
    BY <1>14, <1>16, HubLessSum
  <2>2. b = HubLess(a, o)
    BY DEF o
  <2>3. QED BY <2>1, <2>2
<1> HIDE DEF b, o
<1>18. Rem(B) = Rem((X1 + q) - o) /\ B \in Int
  <2> DEFINE s == SumMod(a)
  <2>1. s \in Int
    BY <1>14, ComputingSeq
  <2>2. Rem(s) = Rem(X1 + q) /\ X1 + q \in Int
    BY <1>8, <1>13, <1>14
  <2>3. Rem(B) = Rem(s - o)
    BY <1>17
  <2> HIDE DEF s
  <2>4. Rem(s - o) = Rem((X1 + q) - o)
    BY <1>16, <2>1, <2>2, RemMinus
  <2>5. B \in Int
    BY <1>17, ComputingSeq
  <2>6. QED BY <2>3, <2>4, <2>5
<1>19. Rem(SumMod(h)) = Rem(SumMod(b) * InversePower)
  <2>1. b \in Seq(Residues) /\ Len(b) = Len(h)
    BY <1>10, <1>17, ComputingSeq
  <2>2. \A i \in 1 .. Len(h) : h[i] = mul_mod(b[i], InversePower)
    BY <1>5, <1>10, ComputingParties
  <2>3. InversePower \in Residues
    BY InversePowerRight
  <2>4. QED BY <1>10, <2>1, <2>2, <2>3, ScaledSum
<1> DEFINE Z1 == Whole(z)
<1>20. Z1 \in Residues /\ Rem(Z1) = Rem(B * InversePower)
  BY <1>7, <1>10, <1>19
<1>21. Rem(B) = Rem((X1 + low(m)) - low(C))
  BY <1>18 DEF q, o
<1> HIDE DEF Z1, B
<1>22. Z1 - (X1 \div TwoTo[F]) \in 0 .. 1
  BY <1>2, <1>6, <1>8, <1>12, <1>18, <1>20, <1>21, CutRight
<1>23. QED BY <1>22 DEF Z1, X1, x, z, c

-----------------------------------------------------------------------------
(***************************************************************************)
(* What the shares of a result add up to, once every party has them.       *)
(***************************************************************************)

\* What SharesAddUp and TruncatedRight say of the k-th call, for what is ideal.
IdealTotal(pr, t, k) == Whole(Column(All(pr, t), k))
SumsAt(pr, t, k) ==
  LET c == pr[k]  z == IdealTotal(pr, t, k)  x == IdealTotal(pr, t, c.x)  y == IdealTotal(pr, t, c.y)
  IN /\ c.op = "share_from" /\ MaskFits(c) => z = c.data
     /\ c.op = "add" => z = (x + y) % Modulus
     /\ c.op = "sub" => z = (x - y) % Modulus
     /\ c.op = "add_public" => z = (x + c.a) % Modulus
     /\ c.op = "mul_public" => z = (x * c.a) % Modulus
     /\ c.op = "mul" => z = (x * y) % Modulus
     /\ c.op = "pow" => z = Raised(x, c.power) % Modulus
     /\ c.op = "trunc" => (x < TwoTo[K] => z - x \div TwoTo[F] \in 0 .. 1)

LEMMA IdealSums ==
  ASSUME NEW pr \in Programs, NEW t \in Tapes, NEW k \in 1 .. Len(pr)
  PROVE  SumsAt(pr, t, k)
<1> DEFINE c == pr[k]  w == EndOf(pr, t, k)  S == PartedAtEnd(pr, k)  r == RevealsAtEnd(pr, k)
           d == Plan(pr)[k - 1].dealt  z == Whole(NewColumn(pr, t, k, w))
           x == Whole(Column(w, c.x))  y == Whole(Column(w, c.y))
<1>1. Ends(pr, t, k)
  BY EndsOf
<1>2. AtEnd(pr, t, k, w, S, r, d) /\ r \in Nat /\ d \in Nat /\ AllCoherent(w, S)
  BY <1>1 DEF Ends
<1>3. /\ CallFacts(c, k) /\ IdealTotal(pr, t, k) = z
      /\ \A i \in 1 .. k - 1 : IdealTotal(pr, t, i) = Whole(Column(w, i))
  BY <1>1 DEF Ends, IdealTotal
<1>4. z \in Residues
  BY <1>2, NewColumnType, FamilyType
<1>5. Rem(z) = z
  <2> HIDE DEF z
  <2>1. QED BY <1>4, RemReduced
<1>6. c.op # "share_from" => IdealTotal(pr, t, c.x) = x
  BY <1>3 DEF CallFacts
<1>7. c.op \in {"add", "sub", "mul"} => IdealTotal(pr, t, c.y) = y
  BY <1>3 DEF CallFacts
<1> HIDE DEF w, S, r, d
<1>8. c.op = "share_from" /\ MaskFits(c) => z = c.data
  <2>1. SUFFICES ASSUME c.op = "share_from", MaskFits(c) PROVE Rem(z) = Rem(c.data)
    <3>1. c.op = "share_from" => c.data \in Residues
      BY <1>3 DEF CallFacts
    <3>2. c.op = "share_from" => Rem(c.data) = c.data
      BY <3>1, RemReduced
    <3> HIDE DEF z, c
    <3>3. QED BY <1>5, <3>2
  <2>2. CASE c.source = 0
    BY <1>2, <2>1, <2>2, DealersShares
  <2>3. CASE c.source # 0
    BY <1>2, <2>1, <2>3, PartysShares
  <2>4. QED BY <2>2, <2>3
<1>9. /\ c.op = "add" => Rem(z) = Rem(x + y)
      /\ c.op = "sub" => Rem(z) = Rem(x - y)
      /\ c.op = "add_public" => Rem(z) = Rem(x + c.a)
      /\ c.op = "mul_public" => Rem(z) = Rem(x * c.a)
  BY <1>2, LinearWhole
<1>10. c.op = "mul" => Rem(z) = Rem(x * y)
  BY <1>2, MultipliedWhole
<1>11. c.op = "pow" => Rem(z) = Rem(Raised(x, c.power))
  BY <1>2, PoweredWhole
<1>12. c.op = "trunc" /\ x < TwoTo[K] => z - (x \div TwoTo[F]) \in 0 .. 1
  BY <1>2, TruncatedWhole
<1> HIDE DEF x, y, z, c
<1>13. /\ c.op = "add" => z = (x + y) % Modulus
       /\ c.op = "sub" => z = (x - y) % Modulus
       /\ c.op = "add_public" => z = (x + c.a) % Modulus
       /\ c.op = "mul_public" => z = (x * c.a) % Modulus
       /\ c.op = "mul" => z = (x * y) % Modulus
       /\ c.op = "pow" => z = Raised(x, c.power) % Modulus
  BY <1>5, <1>9, <1>10, <1>11 DEF Rem
<1> DEFINE iz == IdealTotal(pr, t, k)  ix == IdealTotal(pr, t, c.x)  iy == IdealTotal(pr, t, c.y)
<1>14. iz = z /\ (c.op # "share_from" => ix = x) /\ (c.op \in {"add", "sub", "mul"} => iy = y)
  BY <1>3, <1>6, <1>7
<1> HIDE DEF iz, ix, iy
<1>15. /\ c.op = "share_from" /\ MaskFits(c) => iz = c.data
       /\ c.op = "add" => iz = (ix + iy) % Modulus
       /\ c.op = "sub" => iz = (ix - iy) % Modulus
       /\ c.op = "add_public" => iz = (ix + c.a) % Modulus
       /\ c.op = "mul_public" => iz = (ix * c.a) % Modulus
       /\ c.op = "mul" => iz = (ix * iy) % Modulus
       /\ c.op = "pow" => iz = Raised(ix, c.power) % Modulus
       /\ c.op = "trunc" => (ix < TwoTo[K] => iz - ix \div TwoTo[F] \in 0 .. 1)
  BY <1>8, <1>12, <1>13, <1>14
<1>16. QED BY <1>15 DEF SumsAt, iz, ix, iy, c

\* Of a result that every party has, the shares add up to what is ideal; so do those of
\* its call's operands.
LEMMA SharedTotals ==
  ASSUME IInv, VInv, NEW k \in 1 .. Len(prog), Shared(k)
  PROVE  \A i \in 1 .. k : Total(i) = IdealTotal(prog, tape, i)
<1>1. Types /\ prog \in Programs
  BY DEF IInv, Types
<1>2. Len(prog) \in Nat /\ k \in Nat
  BY <1>1, ProgramFacts
<1>3. ASSUME NEW i \in 1 .. k PROVE Total(i) = IdealTotal(prog, tape, i)
  <2>1. ASSUME NEW p \in Computing PROVE i \in 1 .. Len(result[p])
    <3>1. p \in Parties /\ at[p] \in Nat
      BY <1>1, ComputingParties, PlaceType
    <3>2. at[p] > k
      BY DEF Shared
    <3>3. i \in Nat \ {0} /\ at[p] > i
      BY <1>2, <3>1, <3>2
    <3>4. QED BY <3>1, <3>3, HasResults
  <2>2. QED BY <2>1, TotalAll DEF IdealTotal
<1>4. QED BY <1>3

LEMMA SumsOfShares ==
  ASSUME IInv, VInv, NEW k \in 1 .. Len(prog), Shared(k)
  PROVE  /\ SumsAt(prog, tape, k) /\ CallFacts(prog[k], k)
         /\ Total(k) = IdealTotal(prog, tape, k)
         /\ prog[k].op # "share_from" => Total(prog[k].x) = IdealTotal(prog, tape, prog[k].x)
         /\ prog[k].op \in {"add", "sub", "mul"} =>
              Total(prog[k].y) = IdealTotal(prog, tape, prog[k].y)
<1>1. prog \in Programs /\ tape \in Tapes
  BY DEF IInv, Types
<1>2. Len(prog) \in Nat /\ CallFacts(prog[k], k) /\ k \in Nat
  BY <1>1, ProgramFacts
<1>3. \A i \in 1 .. k : Total(i) = IdealTotal(prog, tape, i)
  BY SharedTotals
<1>4. /\ k \in 1 .. k
      /\ prog[k].op # "share_from" => prog[k].x \in 1 .. k
      /\ prog[k].op \in {"add", "sub", "mul"} => prog[k].y \in 1 .. k
  <2>1. 1 .. k - 1 \subseteq 1 .. k /\ k \in 1 .. k
    BY <1>2
  <2>2. QED BY <1>2, <2>1 DEF CallFacts
<1>5. SumsAt(prog, tape, k)
  BY <1>1, IdealSums
<1>6. QED BY <1>2, <1>3, <1>4, <1>5

\* What the call that made the k-th result computes from its operands, all calls but
\* share_from.
Computed(k) ==
  LET c == prog[k] IN
  /\ c.op = "add" => Total(k) = (Total(c.x) + Total(c.y)) % Modulus
  /\ c.op = "sub" => Total(k) = (Total(c.x) - Total(c.y)) % Modulus
  /\ c.op = "add_public" => Total(k) = (Total(c.x) + c.a) % Modulus
  /\ c.op = "mul_public" => Total(k) = (Total(c.x) * c.a) % Modulus
  /\ c.op = "mul" => Total(k) = (Total(c.x) * Total(c.y)) % Modulus
  /\ c.op = "pow" => Total(k) = Raised(Total(c.x), c.power) % Modulus
OperationsAddUp == \A k \in 1 .. Len(prog) : Shared(k) => Computed(k)

\* No sum of the masks of a number that a call shares makes sub_mod wrap at the word.
MasksFit ==
  \A pr \in Programs : \A i \in 1 .. Len(pr) : pr[i].op = "share_from" => MaskFits(pr[i])

LEMMA OperationsRight ==
  ASSUME IInv, VInv
  PROVE  OperationsAddUp
<1> SUFFICES ASSUME NEW k \in 1 .. Len(prog), Shared(k) PROVE Computed(k)
  BY DEF OperationsAddUp
<1> DEFINE c == prog[k]  z == Total(k)  x == Total(c.x)  y == Total(c.y)
           iz == IdealTotal(prog, tape, k)  ix == IdealTotal(prog, tape, c.x)
           iy == IdealTotal(prog, tape, c.y)
<1>1. /\ SumsAt(prog, tape, k) /\ z = iz
      /\ c.op # "share_from" => x = ix
      /\ c.op \in {"add", "sub", "mul"} => y = iy
  BY SumsOfShares
<1>2. /\ c.op = "add" => iz = (ix + iy) % Modulus
      /\ c.op = "sub" => iz = (ix - iy) % Modulus
      /\ c.op = "add_public" => iz = (ix + c.a) % Modulus
      /\ c.op = "mul_public" => iz = (ix * c.a) % Modulus
      /\ c.op = "mul" => iz = (ix * iy) % Modulus
      /\ c.op = "pow" => iz = Raised(ix, c.power) % Modulus
  BY <1>1 DEF SumsAt
<1> HIDE DEF z, x, y, iz, ix, iy, c
<1>3. /\ c.op = "add" => z = (x + y) % Modulus
      /\ c.op = "sub" => z = (x - y) % Modulus
      /\ c.op = "add_public" => z = (x + c.a) % Modulus
      /\ c.op = "mul_public" => z = (x * c.a) % Modulus
      /\ c.op = "mul" => z = (x * y) % Modulus
      /\ c.op = "pow" => z = Raised(x, c.power) % Modulus
  BY <1>1, <1>2
<1>4. QED BY <1>3 DEF Computed, z, x, y, c

LEMMA SharesRight ==
  ASSUME IInv, VInv, MasksFit
  PROVE  SharesAddUp
<1>1. ASSUME NEW k \in 1 .. Len(prog), Shared(k), prog[k].op = "share_from"
      PROVE  Total(k) = prog[k].data
  <2>1. SumsAt(prog, tape, k) /\ Total(k) = IdealTotal(prog, tape, k)
    BY <1>1, SumsOfShares
  <2>2. MaskFits(prog[k])
    BY <1>1 DEF MasksFit, IInv, Types
  <2>3. IdealTotal(prog, tape, k) = prog[k].data
    BY <1>1, <2>1, <2>2 DEF SumsAt
  <2>4. QED BY <2>1, <2>3
<1>2. \A k \in 1 .. Len(prog) : Shared(k) => Computed(k)
  BY OperationsRight DEF OperationsAddUp
<1>3. QED BY <1>1, <1>2 DEF SharesAddUp, Computed

LEMMA TruncatesRight ==
  ASSUME IInv, VInv
  PROVE  TruncatedRight
<1> SUFFICES ASSUME NEW k \in 1 .. Len(prog), Shared(k), prog[k].op = "trunc",
                    Total(prog[k].x) < TwoTo[K]
             PROVE  Total(k) - Total(prog[k].x) \div TwoTo[F] \in 0 .. 1
  BY DEF TruncatedRight
<1> DEFINE z == Total(k)  x == Total(prog[k].x)
           iz == IdealTotal(prog, tape, k)  ix == IdealTotal(prog, tape, prog[k].x)
<1>1. SumsAt(prog, tape, k) /\ z = iz /\ x = ix
  BY SumsOfShares
<1>2. ix < TwoTo[K] => iz - ix \div TwoTo[F] \in 0 .. 1
  BY <1>1 DEF SumsAt
<1> HIDE DEF z, x, iz, ix
<1>3. x < TwoTo[K] => z - x \div TwoTo[F] \in 0 .. 1
  BY <1>1, <1>2
<1>4. QED BY <1>3 DEF z, x

-----------------------------------------------------------------------------
(***************************************************************************)
(* The theorems.  They hold for any number of parties from three on, any   *)
(* program, any tapes and any order in which the parties go on.            *)
(***************************************************************************)

\* Every operation on shared numbers gives shares of what it is for: the masks that a
\* party adds are taken away once, whichever call made them (beaver_mul, powers_cached,
\* the operators of Sharetensor).
THEOREM OperationsAreRight == Spec => []OperationsAddUp
<1>1. IInv /\ VInv => OperationsAddUp
  BY OperationsRight
<1>2. QED BY <1>1, AlwaysIdeal, PTL

\* The shares that share_from gives out add up to the number, and those of all later
\* results to what the calls compute, if the masks of a number cannot sum up to more
\* than the number and the modulus.  (Five parties can draw such a sum.)
THEOREM SharesAlwaysAddUp ==
  ASSUME MasksFit
  PROVE  Spec => []SharesAddUp
<1>1. IInv /\ VInv => SharesAddUp
  BY SharesRight
<1>2. QED BY <1>1, AlwaysIdeal, PTL

\* Three parties have one mask for a number, which is below the modulus: their shares
\* always add up.
THEOREM ThreePartiesAddUp ==
  ASSUME N = 3
  PROVE  Spec => []SharesAddUp
<1>1. ASSUME NEW pr \in Programs, NEW i \in 1 .. Len(pr), pr[i].op = "share_from"
      PROVE  MaskFits(pr[i])
  <2>1. pr[i].data \in Residues
    BY <1>1, ProgramFacts DEF CallFacts
  <2>2. pr[i].data \in Nat /\ Modulus \in Nat /\ Draws \in Nat /\ Draws <= Modulus
    BY <2>1, WordAssumption DEF Residues
  <2>3. (N - 2) * (Draws - 1) = Draws - 1
    BY <2>2
  <2>4. QED BY <2>2, <2>3 DEF MaskFits
<1>2. MasksFit
  BY <1>1 DEF MasksFit
<1>3. QED BY <1>2, SharesAlwaysAddUp

\* A party that has called reveal has the number itself, at whatever later time.
THEOREM RevealsAreRight == Spec => []RevealedRight
<1>1. IInv /\ VInv => RevealedRight
  BY RevealsRight
<1>2. QED BY <1>1, AlwaysIdeal, PTL

\* A truncated number of K bits is the quotient by 2^F, or one more: the mask of K + V
\* bits that trunc reveals it under does not wrap at the modulus.
THEOREM TruncationsAreRight == Spec => []TruncatedRight
<1>1. IInv /\ VInv => TruncatedRight
  BY TruncatesRight
<1>2. QED BY <1>1, AlwaysIdeal, PTL

\* A partition that every party has is of the number its tensor has, although a party
\* may have taken it over from a call that others have not come to yet.
THEOREM PartitionsStayCoherent == Spec => []PartitionsCoherent
<1>1. IInv /\ VInv => PartitionsCoherent
  BY PartitionsRight
<1>2. QED BY <1>1, AlwaysIdeal, PTL

=============================================================================
