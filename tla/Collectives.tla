----------------------------- MODULE Collectives -----------------------------
(***************************************************************************)
(* The collective operations of MPCComms (mpc/comms.codon).  All parties   *)
(* run the same program, a sequence of collectives; each party runs its    *)
(* own script of sends and receives for a call, and no message says which  *)
(* call it belongs to.  The parties talk over the streams of module Fifo,  *)
(* which the transport below implements.                                   *)
(***************************************************************************)
EXTENDS Integers, SequencesExt

CONSTANTS
  N,        \* NUMBER_OF_PARTIES; party 0 is the trusted dealer, party 1 the hub
  Calls,    \* the collectives a program is made of
  Length,   \* bound: calls of a program
  Buffers   \* jars a link may hold before a sender has to wait for its receiver

ASSUME NAssumption == N \in Nat /\ N >= 3
ASSUME BoundAssumption == Length \in Nat /\ Buffers \subseteq Nat

\* The calls that leave no message behind and wait for none that does not come: the
\* dealer neither broadcasts nor collects, it is the only target of reveal_at, and
\* sequential does not skip it.
Complete ==
  {[name |-> n] : n \in {"reveal", "reveal_to_all", "is_broadcast", "sync_lite", "sync_full"}}
    \cup {[name |-> n, party |-> p] : n \in {"broadcast_from", "collect_at"}, p \in 1 .. N - 1}
    \cup {[name |-> "collect", dealer |-> d, excluded |-> e] :
           d \in BOOLEAN, e \in SUBSET (0 .. N - 1)}
    \cup {[name |-> "reveal_at", party |-> 0], [name |-> "sequential", skip_dealer |-> FALSE]}

ASSUME CallsAssumption == Calls \subseteq Complete

VARIABLES
  prog,    \* the program
  buffer,  \* the size of the links' buffers in this run; 0: a send is a rendezvous
  at,      \* at[p]: the call party p is in
  pc,      \* pc[p]: the instruction of its script it is at
  value,   \* value[p]: the value it works on
  coll,    \* coll[p]: the list collect and collect_at build
  failed,  \* failed[p]: an assertion of sync_parties has ended its program
  result,  \* result[p]: history, what its calls returned
  sent,    \* the streams, see Fifo
  got

links == <<sent, got>>
vars == <<prog, buffer, at, pc, value, coll, failed, result, links>>

Parties == 0 .. N - 1
Links == {c \in Parties \X Parties : c[1] # c[2]}

\* A value is a sum of the parties' contributions: v[q] is how many times it holds
\* q's.  What is not made of contributions (0, T(), a token) is the zero value.
Values == [Parties -> Nat]
Zero == [q \in Parties |-> 0]
Own(p) == [Zero EXCEPT ![p] = 1]
Plus(v, w) == [q \in Parties |-> v[q] + w[q]]
SumOf(S) == [q \in Parties |-> IF q \in S THEN 1 ELSE 0]

\* A message: its value, and the call that sent it, which the receiver cannot see.
Messages == [call : 1 .. Length, value : Values]
Chan == INSTANCE Fifo WITH Items <- Messages

Pending(c) == Len(sent[c]) - Len(got[c])
NextMessage(c) == sent[c][Len(got[c]) + 1]

-----------------------------------------------------------------------------
\* Scripts.  A send is handed over, and returns when the link's buffer has room.

Send(q) == <<[do |-> "send", peer |-> q], [do |-> "flush", peer |-> q]>>
Receive(q, what) == <<[do |-> what, peer |-> q]>>
Local(what) == <<[do |-> what, peer |-> 0]>>
When(condition, script) == IF condition THEN script ELSE <<>>

\* for q in range(lo, hi + 1): body[q], and the same loop downwards.
Up(lo, hi, body) == FlattenSeq([i \in 1 .. hi + 1 - lo |-> body[lo + i - 1]])
Down(hi, lo, body) == FlattenSeq([i \in 1 .. hi + 1 - lo |-> body[hi - i + 1]])
SendToEach == [q \in Parties |-> Send(q)]
ReceiveFromEach(what) == [q \in Parties |-> Receive(q, what)]

\* Mutant: the hub takes all shares but the last party's.
RevealOneShort(p) ==
  CASE p = 0 -> <<>>
    [] p = 1 -> Up(2, N - 2, ReceiveFromEach("add")) \o Up(2, N - 1, SendToEach)
    [] OTHER -> Send(1) \o Receive(1, "take")

\* The hub adds up the computing parties' shares and sends the sum to each.
Reveal(p) ==
  CASE p = 0 -> <<>>
    [] p = 1 -> Up(2, N - 1, ReceiveFromEach("add")) \o Up(2, N - 1, SendToEach)
    [] OTHER -> Send(1) \o Receive(1, "take")

RevealToAll(p) ==
  Reveal(p) \o When(p = 1, Send(0)) \o When(p = 0, Receive(1, "take"))

\* The target waits for the computing parties; every other party sends.
RevealAt(p, target) ==
  IF p = target
  THEN Up(1, N - 1, [q \in Parties |-> When(q # p, Receive(q, "add"))])
  ELSE Send(target)

\* Mutants: the source sends to itself too; to the dealer, who does not receive.
BroadcastToSelf(p, source) ==
  CASE p = 0 -> Local("clear")
    [] p = source -> Up(1, N - 1, SendToEach)
    [] OTHER -> Receive(source, "take")

BroadcastToDealer(p, source) ==
  CASE p = 0 -> Local("clear")
    [] p = source -> Up(0, N - 1, [q \in Parties |-> When(q # source, Send(q))])
    [] OTHER -> Receive(source, "take")

Broadcast(p, source) ==
  CASE p = 0 -> Local("clear")
    [] p = source -> Up(1, N - 1, [q \in Parties |-> When(q # source, Send(q))])
    [] OTHER -> Receive(source, "take")

\* Mutants: an excluded party sends all the same; both parties send first.
CollectFromExcluded(p, dealer, excluded) ==
  LET Take(q) == When(q \notin excluded, Receive(q, "append"))
  IN IF p = 0 /\ ~ dealer
     THEN <<>>
     ELSE Up(IF dealer THEN 0 ELSE 1, p - 1, [q \in Parties |-> Take(q) \o Send(q)])
            \o When(p \notin excluded, Local("keep"))
            \o Up(p + 1, N - 1, [q \in Parties |-> Send(q) \o Take(q)])

CollectSendsFirst(p, dealer, excluded) ==
  LET gives == p \notin excluded
      Take(q) == When(q \notin excluded, Receive(q, "append"))
  IN IF p = 0 /\ ~ dealer
     THEN <<>>
     ELSE Up(IF dealer THEN 0 ELSE 1, p - 1, [q \in Parties |-> When(gives, Send(q)) \o Take(q)])
            \o When(gives, Local("keep"))
            \o Up(p + 1, N - 1, [q \in Parties |-> When(gives, Send(q)) \o Take(q)])

\* Each pair exchanges, the lower party sending first, peers in increasing order.
Collect(p, dealer, excluded) ==
  LET gives == p \notin excluded
      Take(q) == When(q \notin excluded, Receive(q, "append"))
  IN IF p = 0 /\ ~ dealer
     THEN <<>>
     ELSE Up(IF dealer THEN 0 ELSE 1, p - 1, [q \in Parties |-> Take(q) \o When(gives, Send(q))])
            \o When(gives, Local("keep"))
            \o Up(p + 1, N - 1, [q \in Parties |-> When(gives, Send(q)) \o Take(q)])

CollectAt(p, target) ==
  CASE p = 0 -> <<>>
    [] p = target ->
         Up(1, N - 1, [q \in Parties |-> IF q = p THEN Local("keep") ELSE Receive(q, "append")])
    [] OTHER -> Send(target)

IsBroadcast(p) == CollectAt(p, 1) \o Local("reduce") \o Broadcast(p, 1)

\* Mutant: the dealer answers each party at once.
SyncLiteEarly(p) ==
  Local("clear") \o
  IF p = 0
  THEN Up(1, N - 1, [q \in Parties |-> Receive(q, "check") \o Send(q)])
  ELSE Send(0) \o Receive(0, "check")

\* The control element replaces the value; each copy received is compared with it.
SyncLite(p) ==
  Local("clear") \o
  IF p = 0
  THEN Up(1, N - 1, ReceiveFromEach("check")) \o Up(1, N - 1, SendToEach)
  ELSE Send(0) \o Receive(0, "check")

SyncFull(p) ==
  Local("clear")
    \o Down(N - 1, p + 1, [q \in Parties |-> Receive(q, "check") \o Send(q)])
    \o Down(p - 1, 0, [q \in Parties |-> Send(q) \o Receive(q, "check")])

\* Mutant: the token is passed on before func is called.
SequentialEarly(p, skip_dealer) ==
  When(p > (IF skip_dealer THEN 1 ELSE 0), Receive(p - 1, "take"))
    \o When(p < N - 1, Send(p + 1))
    \o Local("func")

\* func is called in the order of the parties, a token goes from each to the next.
Sequential(p, skip_dealer) ==
  When(p > (IF skip_dealer THEN 1 ELSE 0), Receive(p - 1, "take"))
    \o Local("func")
    \o When(p < N - 1, Send(p + 1))

Script(c, p) ==
  CASE c.name = "reveal" -> Reveal(p)
    [] c.name = "reveal_to_all" -> RevealToAll(p)
    [] c.name = "reveal_at" -> RevealAt(p, c.party)
    [] c.name = "broadcast_from" -> Broadcast(p, c.party)
    [] c.name = "collect" -> Collect(p, c.dealer, c.excluded)
    [] c.name = "collect_at" -> CollectAt(p, c.party)
    [] c.name = "is_broadcast" -> IsBroadcast(p)
    [] c.name = "sync_lite" -> SyncLite(p)
    [] c.name = "sync_full" -> SyncFull(p)
    [] c.name = "sequential" -> Sequential(p, c.skip_dealer)

\* The scripts of all calls, and the instructions that receive.
Scripts == [c \in Calls |-> [p \in Parties |-> Script(c, p)]]
Receiving == {"add", "take", "append", "check"}

\* What a call returns: a list, a value, or nothing.
Returned(c, p) ==
  CASE c.name \in {"collect", "collect_at"} -> coll[p]
    [] c.name \in {"sync_lite", "sync_full", "sequential"} -> <<>>
    [] OTHER -> <<value[p]>>

-----------------------------------------------------------------------------

Init ==
  /\ prog \in [1 .. Length -> Calls]
  /\ buffer \in Buffers
  /\ at = [p \in Parties |-> 1]
  /\ pc = [p \in Parties |-> 1]
  /\ value = [p \in Parties |-> Own(p)]
  /\ coll = [p \in Parties |-> <<>>]
  /\ failed = [p \in Parties |-> FALSE]
  /\ result = [p \in Parties |-> <<>>]
  /\ Chan!Init

Finished(p) == at[p] > Length
Stopped(p) == Finished(p) \/ failed[p]

\* The script party p is in, and the instruction it is at.
Running(p) == Scripts[prog[at[p]]][p]
AtInstruction(p) == ~ Stopped(p) /\ pc[p] <= Len(Running(p))
Instruction(p) == Running(p)[pc[p]]

Advance(p) ==
  /\ pc' = [pc EXCEPT ![p] = @ + 1]
  /\ UNCHANGED <<prog, buffer, at, result>>

\* send_as_jar hands the value over ...
SendValue(p, i) ==
  /\ i.do = "send"
  /\ Chan!Put(<<p, i.peer>>, [call |-> at[p], value |-> value[p]])
  /\ Advance(p)
  /\ UNCHANGED <<value, coll, failed>>

\* ... and returns once what the receiver has not taken yet fits the buffer.
Flush(p, i) ==
  /\ i.do = "flush"
  /\ Pending(<<p, i.peer>>) <= buffer
  /\ Advance(p)
  /\ UNCHANGED <<value, coll, failed, links>>

\* receive_as_jar, and what the caller does with the message.
ReceiveValue(p, i) ==
  LET m == NextMessage(<<i.peer, p>>) IN
  /\ i.do \in {"add", "take", "append"}
  /\ Chan!Get(<<i.peer, p>>)
  /\ CASE i.do = "add" -> value' = [value EXCEPT ![p] = Plus(@, m.value)] /\ UNCHANGED coll
       [] i.do = "take" -> value' = [value EXCEPT ![p] = m.value] /\ UNCHANGED coll
       [] i.do = "append" -> coll' = [coll EXCEPT ![p] = Append(@, m.value)] /\ UNCHANGED value
  /\ Advance(p)
  /\ UNCHANGED failed

\* sync_parties asserts that it receives the control element it has drawn itself;
\* that is the case of a message of the same call, and of no other.
CheckControl(p, i) ==
  /\ i.do = "check"
  /\ Chan!Get(<<i.peer, p>>)
  /\ failed' = [failed EXCEPT ![p] = NextMessage(<<i.peer, p>>).call # at[p]]
  /\ Advance(p)
  /\ UNCHANGED <<value, coll>>

\* Instructions of one party alone.
Compute(p, i) ==
  /\ CASE i.do = "clear" -> value' = [value EXCEPT ![p] = Zero] /\ UNCHANGED coll
       [] i.do = "keep" -> coll' = [coll EXCEPT ![p] = Append(@, value[p])] /\ UNCHANGED value
       [] i.do = "reduce" ->
            value' = [value EXCEPT ![p] = FoldSeq(Plus, Zero, coll[p])] /\ UNCHANGED coll
       [] i.do = "func" -> UNCHANGED <<value, coll>>
       [] OTHER -> FALSE
  /\ Advance(p)
  /\ UNCHANGED <<failed, links>>

\* The call returns, and the program goes on with the next.
Return(p) ==
  /\ ~ Stopped(p)
  /\ pc[p] > Len(Running(p))
  /\ result' = [result EXCEPT ![p] = Append(@, Returned(prog[at[p]], p))]
  /\ at' = [at EXCEPT ![p] = @ + 1]
  /\ pc' = [pc EXCEPT ![p] = 1]
  /\ value' = [value EXCEPT ![p] = Own(p)]
  /\ coll' = [coll EXCEPT ![p] = <<>>]
  /\ UNCHANGED <<prog, buffer, failed, links>>

Execute(p, i) ==
  \/ SendValue(p, i)
  \/ Flush(p, i)
  \/ ReceiveValue(p, i)
  \/ CheckControl(p, i)
  \/ Compute(p, i)

Step(p) == Return(p) \/ (AtInstruction(p) /\ Execute(p, Instruction(p)))

\* The programs have ended.
Done == (\A p \in Parties : Finished(p)) /\ UNCHANGED vars

Next == Done \/ \E p \in Parties : Step(p)

Spec == Init /\ [][Next]_vars

\* A party's process keeps running whenever it can.
FairSpec == Spec /\ \A p \in Parties : WF_vars(Step(p))

-----------------------------------------------------------------------------

\* What is sent, kept and returned are values ...
Types ==
  /\ at \in [Parties -> 1 .. Length + 1]
  /\ pc \in [Parties -> Nat \ {0}]
  /\ value \in [Parties -> Values]
  /\ coll \in [Parties -> Seq(Values)]
  /\ failed \in [Parties -> BOOLEAN]
  /\ result \in [Parties -> Seq(Seq(Values))]
  /\ sent \in [Links -> Seq(Messages)]
  /\ got \in [Links -> Seq(Messages)]

\* ... and no party comes to send to itself or to wait for itself: there is no socket
\* for that, so each loop over the parties has to leave out the one that runs it.
TypeOK ==
  /\ Types
  /\ \A p \in Parties :
       AtInstruction(p) /\ Instruction(p).do \in {"send", "flush"} \cup Receiving =>
         Instruction(p).peer # p

\* Messages carry no call number, so everything rests on this: a party that waits
\* for a peer finds next a message the peer sent in the same call of the program.
CallsAligned ==
  \A p \in Parties :
    AtInstruction(p) /\ Instruction(p).do \in Receiving =>
      LET c == <<Instruction(p).peer, p>> IN
      Pending(c) > 0 => NextMessage(c).call = at[p]

\* What each collective is for: the sum of the computing parties' shares, the
\* source's value, or the parties' values in the order of the parties.
Computing == 1 .. N - 1

\* The values of the parties of a set, in the order of the parties.
InOrder(S) ==
  [i \in 1 .. Cardinality(S) |->
    Own(CHOOSE q \in {r \in S : Cardinality({m \in S : m <= r}) = i} : TRUE)]

Expected(c, p) ==
  CASE c.name = "reveal" -> <<IF p = 0 THEN Own(0) ELSE SumOf(Computing)>>
    [] c.name = "reveal_to_all" -> <<SumOf(Computing)>>
    [] c.name = "reveal_at" ->
         <<IF p = c.party THEN SumOf(Computing \cup {p}) ELSE Own(p)>>
    [] c.name = "is_broadcast" -> <<IF p = 0 THEN Zero ELSE SumOf(Computing)>>
    [] c.name = "broadcast_from" -> <<IF p = 0 THEN Zero ELSE Own(c.party)>>
    [] c.name = "collect" ->
         IF p = 0 /\ ~ c.dealer THEN <<>>
         ELSE InOrder((IF c.dealer THEN Parties ELSE Computing) \ c.excluded)
    [] c.name = "collect_at" ->
         IF p = c.party THEN InOrder(Computing) ELSE <<>>
    [] OTHER -> <<>>

ResultsRight ==
  \A p \in Parties : \A k \in 1 .. Len(result[p]) : result[p][k] = Expected(prog[k], p)

\* sync_parties is a barrier: no party is past it before every party is in it.
SyncIsBarrier ==
  \A p \in Parties, k \in 1 .. Length :
    prog[k].name \in {"sync_lite", "sync_full"} /\ at[p] > k =>
      \A q \in Parties : at[q] >= k

\* sequential runs func for one party at a time and in the order of the parties: when
\* it is a party's turn, or has been, every party before it has run func and is
\* through with it.
InFunc(p, k) == at[p] = k /\ AtInstruction(p) /\ Instruction(p).do = "func"
HasRunFunc(p, k) ==
  \/ at[p] > k
  \/ at[p] = k /\ \E i \in DOMAIN Running(p) : i < pc[p] /\ Running(p)[i].do = "func"

OneAtATime ==
  \A k \in 1 .. Length, p \in Parties, q \in Parties :
    prog[k].name = "sequential" /\ p < q /\ (InFunc(q, k) \/ HasRunFunc(q, k)) =>
      HasRunFunc(p, k) /\ ~ InFunc(p, k)

\* When the programs have ended no message is left for a program that goes on.
NothingLeft ==
  (\A p \in Parties : Finished(p)) => \A c \in Links : Pending(c) = 0

\* Every program ends, however little the links hold.
Terminates == <>(\A p \in Parties : Finished(p))

=============================================================================
