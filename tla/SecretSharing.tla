---------------------------- MODULE SecretSharing ----------------------------
(***************************************************************************)
(* Secret-shared tensors (types/sharetensor.codon, types/internal.codon):  *)
(* additive shares, Beaver multiplication, powers and truncation           *)
(* (mpc/comms.codon, arithmetic.codon, polynomial.codon, fp.codon) over    *)
(* random streams that pairs of parties share (mpc/randomness.codon).  A   *)
(* party blinds a value with numbers that the others draw for themselves,  *)
(* in their own time, from their own copies of the streams: no message     *)
(* says which draw is meant.  All parties run the same program; a call     *)
(* leaves every party its Sharetensor of the result.  A tensor has one     *)
(* number; TP(0), the empty list, stands for a partition it does not have. *)
(***************************************************************************)
EXTENDS ModularWords, SequencesExt

CONSTANTS
  N,         \* NUMBER_OF_PARTIES; party 0 is the trusted dealer, party 1 the hub
  Programs,  \* the programs the parties may run
  Period,    \* of a generator: then its numbers come again
  Tapes,     \* what the generators may draw: Tape[seed][position]
  K, V, F    \* bits of a value to truncate, of its statistical mask, of its fraction

ASSUME NAssumption == N \in Nat /\ N >= 3
TwoTo[n \in Nat] == IF n = 0 THEN 1 ELSE 2 * TwoTo[n - 1]

ASSUME BitsAssumption ==
  /\ K \in Nat /\ V \in Nat /\ F \in 0 .. K
  /\ TwoTo[K] + TwoTo[K + V] <= Modulus + 1
  /\ Modulus % 2 = 1   \* MPC_FIELD_SIZE: fixed-point numbers of the ring are left out

Parties == 0 .. N - 1
Computing == 1 .. N - 1

\* MPCRandomness: the seed of the generator that p shares with s, or has alone.
seed_of(p, s) == IF p < s THEN <<p, s>> ELSE <<s, p>>
Seeds == {seed_of(c[1], c[2]) : c \in Parties \X Parties}

ASSUME TapesAssumption ==
  /\ Period \in Nat \ {0}
  /\ \A t \in Tapes : t \in [Seeds -> [1 .. Period -> 0 .. Draws - 1]]

\* A call of a program has earlier results for operands.
CallOK(pr, i) ==
  LET c == pr[i]  before == 1 .. i - 1 IN
  \/ c.op = "share_from" /\ c.source \in Parties /\ c.data \in Residues
  \/ c.op \in {"add", "sub", "mul"} /\ c.x \in before /\ c.y \in before
  \/ c.op \in {"add_public", "mul_public"} /\ c.x \in before /\ c.a \in Residues
  \/ c.op \in {"reveal", "trunc"} /\ c.x \in before
  \/ c.op = "pow" /\ c.x \in before /\ c.power \in Nat /\ c.power >= 2
ASSUME ProgramsAssumption ==
  \A pr \in Programs :
    Len(pr) \in Nat /\ DOMAIN pr = 1 .. Len(pr) /\ \A i \in 1 .. Len(pr) : CallOK(pr, i)

VARIABLES
  prog,   \* the program, a sequence of calls
  tape,   \* tape[seed][n]: the n-th number a generator with that seed draws
  rng,    \* rng[p]: the state of p's MPCRandomness
  at,     \* at[p]: the call party p is in
  stage,  \* stage[p]: where in it: running, or in reveal
  result, \* result[p][k]: its Sharetensor of the k-th result
  held,   \* held[p]: the mask that the call of reveal it is in is for
  value,  \* value[p]: the value in reveal
  out,    \* out[p]: history, what its calls of reveal returned
  drawn,  \* drawn[p][s]: history, the <<call, mask of it>> p drew from stream s for
  wire    \* wire[c]: the values on link c; a list goes as its elements

vars == <<prog, tape, rng, at, stage, result, held, value, out, drawn, wire>>

Links == {c \in Parties \X Parties : c[1] # c[2]}

\* A sum that is reduced at every step, and one that is not.
SumMod(values) ==
  LET sum[i \in 0 .. Len(values)] == IF i = 0 THEN 0 ELSE add_mod(sum[i - 1], values[i])
  IN sum[Len(values)]
SumWords(values) ==
  LET sum[i \in 0 .. Len(values)] == IF i = 0 THEN 0 ELSE Add(sum[i - 1], values[i])
  IN sum[Len(values)]

-----------------------------------------------------------------------------
\* MPCRandomness.  A stream is named by the other party that has it, or by the
\* party itself for its private one.  One generator runs; prg_states keeps the
\* states of the others.

reset_streams(p) ==
  [running |-> [seed |-> seed_of(p, p), next |-> 1],
   prg_states |-> [s \in Parties |-> [seed |-> seed_of(p, s), next |-> 1]]]

switch_seed(g, p, s) ==
  LET states == [g.prg_states EXCEPT ![p] = g.running]
  IN [running |-> states[s], prg_states |-> states]

\* Mutant: the stream's state is not kept, so its numbers come again.
restore_seed_unsaved(g, p, s) == [running |-> g.prg_states[p], prg_states |-> g.prg_states]

restore_seed(g, p, s) ==
  LET states == [g.prg_states EXCEPT ![s] = g.running]
  IN [running |-> states[p], prg_states |-> states]

rand(g, n) == [g EXCEPT !.running.next = @ + n]
Top(g, n) == [i \in 1 .. n |-> tape[g.running.seed][1 + ((g.running.next + (i - 2)) % Period)]]

\* with seed_switch(ask.from): rand(), of ask.n numbers; what is the call and which of
\* its masks they are for.
DrawFrom(d, p, ask, what) ==
  LET g == switch_seed(d.rng, p, ask.from)
  IN [rng |-> restore_seed(rand(g, ask.n), p, ask.from),
      values |-> Append(d.values, Top(g, ask.n)),
      drawn |-> [d.drawn EXCEPT ![ask.from] = @ \o [i \in 1 .. ask.n |-> what]]]

\* The same for one ask after another.
Draw(p, asks, what) ==
  LET after[i \in 0 .. Len(asks)] ==
        IF i = 0 THEN [rng |-> rng[p], values |-> <<>>, drawn |-> drawn[p]]
        ELSE DrawFrom(after[i - 1], p, asks[i], what)
  IN after[Len(asks)]

Ask(streams, n) == [i \in DOMAIN streams |-> [from |-> streams[i], n |-> n]]

\* Party p draws n numbers from each of a sequence of streams.
Drawing(p, asks, what) ==
  LET d == Draw(p, asks, what) IN
  /\ rng' = [rng EXCEPT ![p] = d.rng]
  /\ drawn' = [drawn EXCEPT ![p] = d.drawn]
Drawn(p, asks) == Draw(p, asks, <<at[p], 0>>).values

NoDraw == UNCHANGED <<rng, drawn>>

-----------------------------------------------------------------------------

Init ==
  /\ prog \in Programs
  /\ tape \in Tapes
  /\ rng = [p \in Parties |-> reset_streams(p)]
  /\ at = [p \in Parties |-> 1]
  /\ stage = [p \in Parties |-> "run"]
  /\ result = [p \in Parties |-> <<>>]
  /\ held = [p \in Parties |-> <<>>]
  /\ value = [p \in Parties |-> 0]
  /\ out = [p \in Parties |-> <<>>]
  /\ drawn = [p \in Parties |-> [s \in Parties |-> <<>>]]
  /\ wire = [c \in Links |-> <<>>]

Finished(p) == at[p] > Len(prog)
Call(p) == prog[at[p]]
Calls(p, op) == ~ Finished(p) /\ stage[p] = "run" /\ Call(p).op = op

\* The operands of the call at party p.
X(p) == result[p][Call(p).x]
Y(p) == result[p][Call(p).y]

SendTo(p, q, values) == wire' = [wire EXCEPT ![<<p, q>>] = @ \o values]
Arrived(p, q, n) == Len(wire[<<p, q>>]) >= n
First(p, q, n) == SubSeq(wire[<<p, q>>], 1, n)
TakenFrom(p, q, n) == wire' = [wire EXCEPT ![<<p, q>>] = SubSeq(@, n + 1, Len(@))]

\* A Sharetensor that has no Beaver partition.
Sharetensor(v) == [share |-> v, x_r |-> <<>>, r |-> <<>>]
is_partitioned(t) == t.r # <<>>

\* The call returns the tensor t.
Returns(p, t) ==
  /\ result' = [result EXCEPT ![p] = Append(@, t)]
  /\ at' = [at EXCEPT ![p] = @ + 1]
  /\ UNCHANGED <<prog, tape, stage, held, value, out>>

-----------------------------------------------------------------------------
\* share_from: the source blinds its datum with a draw from the stream of every
\* other computing party, which keeps its draw as its share.  The masks are added
\* without a modulus.
Others(p) == IF p = 0 THEN [i \in 1 .. N - 1 |-> i]
             ELSE [i \in 1 .. N - 2 |-> IF i < p THEN i ELSE i + 1]
Firsts(draws) == [i \in DOMAIN draws |-> draws[i][1]]
Blinded(p, streams) == sub_mod(Call(p).data, SumWords(Firsts(Drawn(p, Ask(streams, 1)))))

ShareOwn(p) ==
  /\ Calls(p, "share_from") /\ Call(p).source = p /\ p # 0
  /\ Drawing(p, Ask(Others(p), 1), <<at[p], 0>>)
  /\ Returns(p, Sharetensor(Blinded(p, Others(p))))
  /\ UNCHANGED wire

\* Mutant: the dealer draws from the hub's stream as well, which the hub does not.
ShareDealersAll(p) ==
  /\ Calls(p, "share_from") /\ Call(p).source = p /\ p = 0
  /\ Drawing(p, Ask(Others(p), 1), <<at[p], 0>>)
  /\ SendTo(0, 1, <<Blinded(p, Others(p))>>)
  /\ Returns(p, Sharetensor(0))

\* The dealer keeps nothing: what the hub would have drawn is sent to it.
NotHub == [i \in 1 .. N - 2 |-> i + 1]

ShareDealers(p) ==
  /\ Calls(p, "share_from") /\ Call(p).source = p /\ p = 0
  /\ Drawing(p, Ask(NotHub, 1), <<at[p], 0>>)
  /\ SendTo(0, 1, <<Blinded(p, NotHub)>>)
  /\ Returns(p, Sharetensor(0))

ShareOfOther(p) ==
  LET source == Call(p).source IN
  /\ Calls(p, "share_from") /\ source # p
  /\ \/ /\ p = 1 /\ source = 0
        /\ Arrived(0, 1, 1)
        /\ TakenFrom(0, 1, 1)
        /\ Returns(p, Sharetensor(First(0, 1, 1)[1]))
        /\ NoDraw
     \/ /\ p = 0
        /\ Returns(p, Sharetensor(0))
        /\ NoDraw /\ UNCHANGED wire
     \/ /\ p # 0 /\ ~ (p = 1 /\ source = 0)
        /\ Drawing(p, Ask(<<source>>, 1), <<at[p], 0>>)
        /\ Returns(p, Sharetensor(Drawn(p, Ask(<<source>>, 1))[1][1]))
        /\ UNCHANGED wire

-----------------------------------------------------------------------------
\* Linear operations need no messages.  They carry the Beaver partitions of their
\* operands over, if all operands have one.

AddParts(a, b) == IF a # <<>> /\ b # <<>> THEN <<add_mod(a[1], b[1])>> ELSE <<>>

\* Mutant: the sum keeps the partition of its first term when the other has none.
SumKeeping(s, t) ==
  [share |-> add_mod(s.share, t.share),
   x_r |-> IF t.x_r = <<>> THEN s.x_r ELSE AddParts(s.x_r, t.x_r),
   r |-> IF t.r = <<>> THEN s.r ELSE AddParts(s.r, t.r)]

Sum(s, t) ==
  [share |-> add_mod(s.share, t.share),
   x_r |-> AddParts(s.x_r, t.x_r),
   r |-> AddParts(s.r, t.r)]

AddShares(p) ==
  /\ Calls(p, "add")
  /\ Returns(p, Sum(X(p), Y(p)))
  /\ UNCHANGED wire /\ NoDraw

\* neg_mod leaves Modulus for zero; the sum reduces it.
Negated(t) ==
  [share |-> neg_mod(t.share),
   x_r |-> IF t.x_r # <<>> THEN <<neg_mod(t.x_r[1])>> ELSE <<>>,
   r |-> IF t.r # <<>> THEN <<neg_mod(t.r[1])>> ELSE <<>>]

SubtractShares(p) ==
  /\ Calls(p, "sub")
  /\ Returns(p, Sum(X(p), Negated(Y(p))))
  /\ UNCHANGED wire /\ NoDraw

\* The hub alone adds a public number to its share; the revealed part of a partition
\* is every party's, so every party adds it there.
add_public(p, x, a) == IF p = 1 THEN add_mod(x, a) ELSE x

AddPublic(p) ==
  LET x == X(p) IN
  /\ Calls(p, "add_public")
  /\ Returns(p, [share |-> add_public(p, x.share, Call(p).a),
                 x_r |-> IF is_partitioned(x) THEN <<add_mod(x.x_r[1], Call(p).a)>> ELSE <<>>,
                 r |-> x.r])
  /\ UNCHANGED wire /\ NoDraw

MultiplyPublic(p) ==
  LET x == X(p)  times(part) == IF is_partitioned(x) THEN <<mul_mod(part[1], Call(p).a)>> ELSE part
  IN
  /\ Calls(p, "mul_public")
  /\ Returns(p, [share |-> mul_mod(x.share, Call(p).a), x_r |-> times(x.x_r), r |-> times(x.r)])
  /\ UNCHANGED wire /\ NoDraw

-----------------------------------------------------------------------------
\* reveal, by what it does between the computing parties (see Collectives): the
\* hub adds up their values and gives them the sum.
EnterReveal(p, v, mask) ==
  /\ value' = [value EXCEPT ![p] = v]
  /\ stage' = [stage EXCEPT ![p] = "reveal"]
  /\ held' = [held EXCEPT ![p] = mask]
  /\ UNCHANGED <<prog, tape, at, result, out>>

\* get_partitions of the operands: the first that has none is partitioned.
Bare(p) == ~ is_partitioned(X(p)) \/ (Call(p).op = "mul" /\ ~ is_partitioned(Y(p)))
Operand(p) == IF ~ is_partitioned(X(p)) THEN Call(p).x ELSE Call(p).y

low(c) == c % TwoTo[F]

\* a ^ n, one factor after another.
Pow(a, n) ==
  LET pow[i \in 0 .. n] == IF i = 0 THEN 1 % Modulus ELSE mul_mod(pow[i - 1], a)
  IN pow[n]

\* mod_pow(mod_inv(2), m); invpow_cache keeps it, of one modulus here.
InversePower == Pow((Modulus + 1) \div 2, F)

\* trunc with c revealed: with the low bits of the mask added and those of the masked
\* value taken away, the value is divisible.
Truncated(p, c) ==
  LET a == add_mod(X(p).share, held[p][1])
  IN mul_mod(IF p = 1 THEN sub_mod(a, low(c)) ELSE a, InversePower)

\* reveal returns v: to the program, to trunc, or to the partition of an operand.
LeaveReveal(p, v) ==
  LET op == Call(p).op IN
  /\ value' = [value EXCEPT ![p] = 0]
  /\ stage' = [stage EXCEPT ![p] = "run"]
  /\ held' = [held EXCEPT ![p] = <<>>]
  /\ out' = IF op = "reveal" THEN [out EXCEPT ![p] = Append(@, [call |-> at[p], value |-> v])]
            ELSE out
  /\ at' = IF op \in {"reveal", "trunc"} THEN [at EXCEPT ![p] = @ + 1] ELSE at
  /\ result' = [result EXCEPT ![p] =
       CASE op = "reveal" -> Append(@, Sharetensor(v))
         [] op = "trunc" -> Append(@, Sharetensor(Truncated(p, v)))
         [] OTHER -> [@ EXCEPT ![Operand(p)].x_r = <<v>>, ![Operand(p)].r = held[p]]]
  /\ UNCHANGED <<prog, tape>>

\* What a party sends when it enters reveal.
RevealSends(p, v) == IF p = 1 THEN UNCHANGED wire ELSE SendTo(p, 1, <<v>>)

\* Mutant: the hub sends its sum on before the last party's value is in it.
HubTotalShort == SumMod(<<value[1]>> \o [i \in 1 .. N - 3 |-> First(i + 1, 1, 1)[1]])

HubTotal == SumMod(<<value[1]>> \o [i \in 1 .. N - 2 |-> First(i + 1, 1, 1)[1]])

HubSums(p) ==
  /\ p = 1 /\ stage[1] = "reveal"
  /\ \A q \in 2 .. N - 1 : Arrived(q, 1, 1)
  /\ wire' = [c \in Links |->
       IF c[1] \in 2 .. N - 1 /\ c[2] = 1 THEN Tail(wire[c])
       ELSE IF c[1] = 1 /\ c[2] \in 2 .. N - 1 THEN Append(wire[c], HubTotal)
       ELSE wire[c]]
  /\ LeaveReveal(1, HubTotal)
  /\ NoDraw

TakeSum(p) ==
  /\ p >= 2 /\ stage[p] = "reveal"
  /\ Arrived(1, p, 1)
  /\ TakenFrom(1, p, 1)
  /\ LeaveReveal(p, First(1, p, 1)[1])
  /\ NoDraw

\* The program reveals a result; the dealer has its own value back.
RevealCall(p) ==
  LET v == X(p).share IN
  /\ Calls(p, "reveal")
  /\ IF p = 0
     THEN Returns(p, Sharetensor(v)) /\ UNCHANGED wire
     ELSE EnterReveal(p, v, <<>>) /\ RevealSends(p, v)
  /\ NoDraw

-----------------------------------------------------------------------------
\* What the dealer gives the computing parties: they draw numbers, n in a row, from
\* their stream with it, and the hub, which does not, gets what is missing.

\* values less the draws of the streams.
Missing(values, draws) ==
  [j \in DOMAIN values |->
     sub_mod(values[j], SumMod([i \in 1 .. Len(NotHub) |-> draws[i][j]]))]

DealtTo(p, n) == IF p = 1 THEN First(0, 1, n) ELSE Drawn(p, Ask(<<0>>, n))[1]

TakeDealt(p, n) ==
  IF p = 1 THEN Arrived(0, 1, n) /\ TakenFrom(0, 1, n) /\ NoDraw
  ELSE Drawing(p, Ask(<<0>>, n), <<at[p], 0>>) /\ UNCHANGED wire

\* __beaver_partition of the next operand: the dealer knows the sum of the masks,
\* the computing parties their own mask each and the operand less all of them.
Partitions(p) == ~ Finished(p) /\ stage[p] = "run" /\ Call(p).op \in {"mul", "pow"} /\ Bare(p)

\* Mutant: the dealer leaves out the hub, as it does where it shares a value.
PartitionDealerShort(p) ==
  LET k == Operand(p) IN
  /\ p = 0 /\ Partitions(p)
  /\ Drawing(p, Ask(NotHub, 1), <<at[p], k>>)
  /\ result' = [result EXCEPT ![p][k].x_r = <<0>>,
                              ![p][k].r = <<SumMod(Firsts(Drawn(p, Ask(NotHub, 1))))>>]
  /\ UNCHANGED <<prog, tape, at, stage, held, value, out, wire>>

PartitionDealer(p) ==
  LET k == Operand(p) IN
  /\ p = 0 /\ Partitions(p)
  /\ Drawing(p, Ask(Others(p), 1), <<at[p], k>>)
  /\ result' = [result EXCEPT ![p][k].x_r = <<0>>,
                              ![p][k].r = <<SumMod(Firsts(Drawn(p, Ask(Others(p), 1))))>>]
  /\ UNCHANGED <<prog, tape, at, stage, held, value, out, wire>>

Partition(p) ==
  LET k == Operand(p)
      mask == Drawn(p, Ask(<<0>>, 1))[1][1]
      v == sub_mod(result[p][k].share, mask)
  IN
  /\ p # 0 /\ Partitions(p)
  /\ Drawing(p, Ask(<<0>>, 1), <<at[p], k>>)
  /\ EnterReveal(p, v, <<mask>>) /\ RevealSends(p, v)

\* __beaver_mul: x * y = x_r * y_r + x_r * r_2 + r_1 * y_r + r_1 * r_2, the last
\* term the dealer's, the first the hub's.
\* Mutant: every party adds the first term.
beaver_mul_all(p, x, y) ==
  IF p = 0
  THEN mul_mod(x.r[1], y.r[1])
  ELSE add_mod(mul_mod(x.x_r[1], y.x_r[1]),
               add_mod(mul_mod(x.r[1], y.x_r[1]), mul_mod(x.x_r[1], y.r[1])))

beaver_mul(p, x, y) ==
  IF p = 0
  THEN mul_mod(x.r[1], y.r[1])
  ELSE LET cross == add_mod(mul_mod(x.r[1], y.x_r[1]), mul_mod(x.x_r[1], y.r[1]))
       IN IF p = 1 THEN add_mod(mul_mod(x.x_r[1], y.x_r[1]), cross) ELSE cross

\* __beaver_reconstruct: the dealer's term is shared among the computing parties.
BeaverReconstruct(p) ==
  /\ Calls(p, "mul") /\ ~ Bare(p)
  /\ LET xy == beaver_mul(p, X(p), Y(p)) IN
     IF p = 0
     THEN LET rest == Missing(<<xy>>, Drawn(p, Ask(NotHub, 1))) IN
          /\ Drawing(p, Ask(NotHub, 1), <<at[p], 0>>)
          /\ SendTo(0, 1, rest)
          /\ Returns(p, Sharetensor(rest[1]))
     ELSE /\ TakeDealt(p, 1)
          /\ Returns(p, Sharetensor(add_mod(xy, DealtTo(p, 1)[1])))

pascal_matrix[n \in Nat] ==
  [k \in Nat |->
     IF k > n THEN 0
     ELSE IF k = 0 \/ k = n THEN 1
     ELSE pascal_matrix[n - 1][k - 1] + pascal_matrix[n - 1][k]]

\* The terms of (x_r + r) ^ n that have a power of r; powers is r's, from the first.
RTerms(x, n, powers) ==
  [j \in 1 .. n |->
     IF j = n THEN powers[n]
     ELSE mul_mod(mul_mod(Pow(x.x_r[1], n - j), powers[j]), pascal_matrix[n][j])]

\* powers_cached, of two or more: the binomial theorem for x_r + r.  The dealer shares
\* the powers of its r, from the second; the first is shared already, and the hub alone
\* has the term without r.
powers_cached(p, x, n, r_pow) ==
  SumMod((IF p = 1 THEN <<Pow(x.x_r[1], n)>> ELSE <<>>) \o RTerms(x, n, x.r \o r_pow))

Power(p) ==
  LET n == Call(p).power IN
  /\ Calls(p, "pow") /\ ~ Bare(p)
  /\ IF p = 0
     THEN LET asks == Ask(NotHub, n - 1)
              r_pow == [j \in 1 .. n - 1 |-> Pow(X(p).r[1], j + 1)]
          IN
          /\ Drawing(p, asks, <<at[p], 0>>)
          /\ SendTo(0, 1, Missing(r_pow, Drawn(p, asks)))
          /\ Returns(p, Sharetensor(0))
     ELSE /\ TakeDealt(p, n - 1)
          /\ Returns(p, Sharetensor(powers_cached(p, X(p), n, DealtTo(p, n - 1))))

\* trunc, of a field's number: the dealer shares a random mask of the value and the low
\* bits of the mask; what it has itself of the value it keeps.
TruncateDealer(p) ==
  LET asks == <<[from |-> p, n |-> 1]>> \o Ask(NotHub, 2)
      draws == Drawn(p, asks)
      mask == Head(draws)[1] % TwoTo[K + V]
  IN
  /\ p = 0 /\ Calls(p, "trunc")
  /\ Drawing(p, asks, <<at[p], 0>>)
  /\ SendTo(0, 1, Missing(<<mask, low(mask)>>, Tail(draws)))
  /\ Returns(p, Sharetensor(X(p).share))

\* Mutant: a party takes the draws in the other order.
trunc_masks_swapped(dealt) == [r |-> dealt[2], r_part |-> dealt[1]]

trunc_masks(dealt) == [r |-> dealt[1], r_part |-> dealt[2]]

Truncate(p) ==
  LET masks == trunc_masks(DealtTo(p, 2))
      v == add_mod(X(p).share, masks.r)
  IN
  /\ p # 0 /\ Calls(p, "trunc")
  /\ IF p = 1
     THEN Arrived(0, 1, 2) /\ TakenFrom(0, 1, 2) /\ NoDraw
     ELSE Drawing(p, Ask(<<0>>, 2), <<at[p], 0>>) /\ SendTo(p, 1, <<v>>)
  /\ EnterReveal(p, v, <<masks.r_part>>)

Step(p) ==
  \/ ShareOwn(p) \/ ShareDealers(p) \/ ShareOfOther(p)
  \/ AddShares(p) \/ SubtractShares(p) \/ AddPublic(p) \/ MultiplyPublic(p)
  \/ RevealCall(p) \/ HubSums(p) \/ TakeSum(p)
  \/ PartitionDealer(p) \/ Partition(p) \/ BeaverReconstruct(p) \/ Power(p)
  \/ TruncateDealer(p) \/ Truncate(p)

Done == (\A p \in Parties : Finished(p)) /\ UNCHANGED vars

Next == Done \/ \E p \in Parties : Step(p)

Spec == Init /\ [][Next]_vars

-----------------------------------------------------------------------------

Sharetensors ==
  {t \in [share : Residues, x_r : Seq(Residues), r : Seq(Residues)] :
     Len(t.x_r) = Len(t.r) /\ Len(t.r) <= 1}

\* Every share, partition and message is reduced, which the next operation relies on.
TypeOK ==
  /\ at \in [Parties -> 1 .. Len(prog) + 1]
  /\ stage \in [Parties -> {"run", "reveal"}]
  /\ result \in [Parties -> Seq(Sharetensors)]
  /\ held \in [Parties -> Seq(Residues)]
  /\ value \in [Parties -> Residues]
  /\ wire \in [Links -> Seq(Residues)]

\* The k-th result, once every computing party has its share.
Shared(k) == \A p \in Computing : at[p] > k
Total(k) == SumMod([p \in Computing |-> result[p][k].share])

\* a ^ n, of the integers.
Raised(a, n) ==
  LET power[i \in 0 .. n] == IF i = 0 THEN 1 ELSE power[i - 1] * a
  IN power[n]

\* The computing parties' shares of a result add up to the operation's result on what
\* the operands' shares add up to, whoever is ahead of whom: each mask was added and
\* taken away exactly once.
SharesAddUp ==
  \A k \in 1 .. Len(prog) :
    Shared(k) =>
      LET c == prog[k] IN
      /\ c.op = "share_from" => Total(k) = c.data
      /\ c.op = "add" => Total(k) = (Total(c.x) + Total(c.y)) % Modulus
      /\ c.op = "sub" => Total(k) = (Total(c.x) - Total(c.y)) % Modulus
      /\ c.op = "add_public" => Total(k) = (Total(c.x) + c.a) % Modulus
      /\ c.op = "mul_public" => Total(k) = (Total(c.x) * c.a) % Modulus
      /\ c.op = "mul" => Total(k) = (Total(c.x) * Total(c.y)) % Modulus
      /\ c.op = "pow" => Total(k) = Raised(Total(c.x), c.power) % Modulus

\* trunc divides a number of K bits by 2^F and rounds it down or up.
TruncatedRight ==
  \A k \in 1 .. Len(prog) :
    Shared(k) /\ prog[k].op = "trunc" =>
      LET x == Total(prog[k].x) IN x < TwoTo[K] => Total(k) - x \div TwoTo[F] \in 0 .. 1

\* reveal returns the result itself.
RevealedRight ==
  \A p \in Computing : \A i \in 1 .. Len(out[p]) :
    out[p][i].value = Total(prog[out[p][i].call].x)

\* A partition, once everybody has it, is of the value that the tensor has: the
\* parties agree on the revealed part, the dealer's mask is the sum of theirs, and
\* what they add up to is what the shares add up to.  It may come from an earlier
\* multiplication, through any number of linear operations.
PartitionsCoherent ==
  \A k \in 1 .. Len(prog) :
    (\A p \in Parties : Len(result[p]) >= k /\ is_partitioned(result[p][k])) =>
      LET mask == SumMod([p \in Computing |-> result[p][k].r[1]])
          x_r == result[1][k].x_r
      IN
      /\ result[0][k].r[1] = mask
      /\ \A p \in Computing : result[p][k].x_r = x_r
      /\ add_mod(x_r[1], mask) = Total(k)

\* Two parties use the draws of their stream for the same things in the same order:
\* a party that runs ahead leaves the other the number that was meant for it.
StreamsPaired ==
  \A p, q \in Parties :
    p # q => IsPrefix(drawn[p][q], drawn[q][p]) \/ IsPrefix(drawn[q][p], drawn[p][q])

\* No number of a stream is drawn twice, and none is skipped: a mask that came again
\* would tell who sees both blinded values their difference.  (Switching between the
\* streams saves the state of the one that is left.)
MasksFresh ==
  \A p, s \in Parties : rng[p].prg_states[s] = [seed |-> seed_of(p, s),
                                               next |-> Len(drawn[p][s]) + 1]

\* When parties have ended, they are where the others are in every shared stream,
\* and nothing is left on the links: the next program starts in step.
EndsInStep ==
  (\A p \in Parties : Finished(p)) =>
    /\ \A p, q \in Parties : p # q => rng[p].prg_states[q] = rng[q].prg_states[p]
    /\ \A c \in Links : wire[c] = <<>>

=============================================================================
