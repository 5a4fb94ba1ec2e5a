----------------------------- MODULE JarFraming -----------------------------
(***************************************************************************)
(* How MPCComms (mpc/comms.codon) sends a value: two jars, first the size  *)
(* of the pickled value in 8 bytes, then the pickle itself.  The receiver  *)
(* asks the transport for 8 bytes, and then for as many as they say.  The  *)
(* transport below is the stream of jars of module Fifo, which the file    *)
(* transport implements; this layer makes of it a stream of whole values.  *)
(***************************************************************************)
EXTENDS Naturals, Sequences

CONSTANTS
  Parties,   \* party numbers
  Links,     \* the ordered pairs <<from, to>> of parties
  Values,    \* what the parties send each other
  Size,      \* Size[v]: bytes of the pickle of v
  Quota,     \* bound: values sent per link
  Nobody     \* an idle party's operation

\* sizeof(int): the bytes of a size jar.  A value may have this size too.
IntSize == 8

ASSUME LinksAssumption == Links \subseteq Parties \X Parties
ASSUME SizeAssumption == Size \in [Values -> Nat]
ASSUME QuotaAssumption == Quota \in Nat

VARIABLES
  wire,   \* wire[c]: the jars put on link c, in order
  taken,  \* taken[c]: how many of them its receiver has taken
  op,     \* op[p]: what party p is in the middle of
  sent,   \* sent[c]: history, the values send_as_jar has sent on c
  got     \* got[c]: history, the values receive_as_jar has returned on c

vars == <<wire, taken, op, sent, got>>

\* Mutants: the size counts its own jar; the size jar holds the value itself.
SizeJarOfBoth(v) == [len |-> IntSize, content |-> Size[v] + IntSize]
SizeJarOfValue(v) == [len |-> IntSize, content |-> v]

SizeJar(v) == [len |-> IntSize, content |-> Size[v]]
DataJar(v) == [len |-> Size[v], content |-> v]
Jars == {SizeJar(v) : v \in Values} \cup {DataJar(v) : v \in Values}

Idle == [at |-> "idle", link |-> Nobody, arg |-> Nobody]

Ops ==
  {Idle}
    \cup [at : {"send_size", "send_data"}, link : Links, arg : Values]
    \cup [at : {"receive_size", "receive_data"}, link : Links, arg : Nat]

Init ==
  /\ wire = [c \in Links |-> <<>>]
  /\ taken = [c \in Links |-> 0]
  /\ op = [p \in Parties |-> Idle]
  /\ sent = [c \in Links |-> <<>>]
  /\ got = [c \in Links |-> <<>>]

\* Put and take a jar: what snd_jar and receive_jar of the transport do.  A receive takes the next
\* jar when it has the length that was asked for; otherwise it does not return.
PutJar(c, j) ==
  /\ wire' = [wire EXCEPT ![c] = Append(@, j)]
  /\ UNCHANGED taken

NextJar(c) == wire[c][taken[c] + 1]

\* Mutant: a jar is looked at and stays.
TakeJarKept(c, msg_len) ==
  /\ taken[c] < Len(wire[c])
  /\ NextJar(c).len = msg_len
  /\ UNCHANGED <<taken, wire>>

TakeJar(c, msg_len) ==
  /\ taken[c] < Len(wire[c])
  /\ NextJar(c).len = msg_len
  /\ taken' = [taken EXCEPT ![c] = @ + 1]
  /\ UNCHANGED wire

\* send_as_jar(v, to_pid) and receive_as_jar(from_pid) are called.
CallSend(p, c, v) ==
  /\ op[p] = Idle
  /\ c[1] = p
  /\ Len(sent[c]) < Quota
  /\ op' = [op EXCEPT ![p] = [at |-> "send_size", link |-> c, arg |-> v]]
  /\ UNCHANGED <<wire, taken, sent, got>>

CallReceive(p, c) ==
  /\ op[p] = Idle
  /\ c[2] = p
  /\ op' = [op EXCEPT ![p] = [at |-> "receive_size", link |-> c, arg |-> IntSize]]
  /\ UNCHANGED <<wire, taken, sent, got>>

\* send_jar_size.
SendSize(p) ==
  LET c == op[p].link IN
  /\ op[p].at = "send_size" /\ c[1] = p
  /\ PutJar(c, SizeJar(op[p].arg))
  /\ op' = [op EXCEPT ![p] = [at |-> "send_data", link |-> c, arg |-> op[p].arg]]
  /\ UNCHANGED <<sent, got>>

\* snd_jar of the pickle: the value is sent.
SendData(p) ==
  LET c == op[p].link IN
  /\ op[p].at = "send_data" /\ c[1] = p
  /\ PutJar(c, DataJar(op[p].arg))
  /\ op' = [op EXCEPT ![p] = Idle]
  /\ sent' = [sent EXCEPT ![c] = Append(@, op[p].arg)]
  /\ UNCHANGED got

\* receive_jar_size: what the 8 bytes hold is the length of the next jar.
ReceiveSize(p) ==
  LET c == op[p].link IN
  /\ op[p].at = "receive_size" /\ c[2] = p
  /\ TakeJar(c, op[p].arg)
  /\ op' = [op EXCEPT ![p] = [at |-> "receive_data", link |-> c, arg |-> NextJar(c).content]]
  /\ UNCHANGED <<sent, got>>

\* receive_jar of the pickle: the value is returned.
ReceiveData(p) ==
  LET c == op[p].link IN
  /\ op[p].at = "receive_data" /\ c[2] = p
  /\ TakeJar(c, op[p].arg)
  /\ op' = [op EXCEPT ![p] = Idle]
  /\ got' = [got EXCEPT ![c] = Append(@, NextJar(c).content)]
  /\ UNCHANGED sent

Step(p) == SendSize(p) \/ SendData(p) \/ ReceiveSize(p) \/ ReceiveData(p)

Call(p, c) == CallReceive(p, c) \/ \E v \in Values : CallSend(p, c, v)

Next == \E p \in Parties : Step(p) \/ \E c \in Links : Call(p, c)

Spec == Init /\ [][Next]_vars

-----------------------------------------------------------------------------

\* What is on a link are sizes and data of values, and what is returned are values.
TypeOK ==
  /\ wire \in [Links -> Seq(Jars)]
  /\ taken \in [Links -> Nat]
  /\ op \in [Parties -> Ops]
  /\ sent \in [Links -> Seq(Values)]
  /\ got \in [Links -> Seq(Values)]

\* A receiver that has been told a length finds next a pickle of that length, never
\* a size; one that waits for a size finds a size, although a pickle can be as long.
FramesAligned ==
  \A p \in Parties :
    LET c == op[p].link IN
    op[p].at \in {"receive_size", "receive_data"} /\ taken[c] < Len(wire[c]) =>
      \E v \in Values :
        \/ op[p].at = "receive_size" /\ NextJar(c) = SizeJar(v)
        \/ op[p].at = "receive_data" /\ NextJar(c) = DataJar(v) /\ Size[v] = op[p].arg

\* Why it holds, as an inductive invariant.  w carries the values of s, two jars each.
Carries(w, s) ==
  \A i \in 1 .. Len(s) : w[2 * i - 1] = SizeJar(s[i]) /\ w[2 * i] = DataJar(s[i])

\* The sender, or the receiver, of c is between the two jars of a value.
Sending(c) == op[c[1]].at = "send_data" /\ op[c[1]].link = c
Receiving(c) == op[c[2]].at = "receive_data" /\ op[c[2]].link = c

LinkOK(c) ==
  /\ Carries(wire[c], sent[c])
  /\ Len(wire[c]) = 2 * Len(sent[c]) + IF Sending(c) THEN 1 ELSE 0
  /\ Sending(c) => wire[c][Len(wire[c])] = SizeJar(op[c[1]].arg)
  /\ taken[c] = 2 * Len(got[c]) + IF Receiving(c) THEN 1 ELSE 0
  /\ taken[c] <= Len(wire[c])
  /\ Receiving(c) => op[c[2]].arg = wire[c][taken[c]].content
  /\ \A i \in 1 .. Len(got[c]) : got[c][i] = sent[c][i]

PartyOK(p) ==
  /\ op[p].at \in {"send_size", "send_data"} => op[p].link[1] = p
  /\ op[p].at \in {"receive_size", "receive_data"} => op[p].link[2] = p
  /\ op[p].at = "receive_size" => op[p].arg = IntSize

IInv ==
  /\ TypeOK
  /\ \A c \in Links : LinkOK(c)
  /\ \A p \in Parties : PartyOK(p)

\* This layer turns the stream of jars into the stream of values.
F == INSTANCE Fifo WITH Items <- Values
ImplementsFifo == F!Spec

=============================================================================
