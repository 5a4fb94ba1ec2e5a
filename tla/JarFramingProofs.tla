-------------------------- MODULE JarFramingProofs --------------------------
(***************************************************************************)
(* Framing keeps its alignment, and turns the stream of jars into the      *)
(* stream of values, for any parties, links, values and sizes; a value may *)
(* be as long as a size jar.                                               *)
(***************************************************************************)
EXTENDS JarFraming, TLAPS

USE LinksAssumption, SizeAssumption, QuotaAssumption

\* The two jars of a value.
LEMMA JarTypes ==
  ASSUME NEW v \in Values
  PROVE  /\ SizeJar(v) \in Jars /\ DataJar(v) \in Jars
         /\ SizeJar(v).len = IntSize /\ SizeJar(v).content = Size[v] /\ Size[v] \in Nat
         /\ DataJar(v).len = Size[v] /\ DataJar(v).content = v
  BY DEF SizeJar, DataJar, Jars

LEMMA SendOp ==
  ASSUME NEW o \in Ops, o.at \in {"send_size", "send_data"}
  PROVE  o.link \in Links /\ o.arg \in Values
  BY DEF Ops, Idle

LEMMA ReceiveOp ==
  ASSUME NEW o \in Ops, o.at \in {"receive_size", "receive_data"}
  PROVE  o.link \in Links /\ o.arg \in Nat
  BY DEF Ops, Idle

LEMMA OpIntro ==
  /\ Idle \in Ops
  /\ \A c \in Links, v \in Values :
       /\ [at |-> "send_size", link |-> c, arg |-> v] \in Ops
       /\ [at |-> "send_data", link |-> c, arg |-> v] \in Ops
  /\ \A c \in Links, k \in Nat :
       /\ [at |-> "receive_size", link |-> c, arg |-> k] \in Ops
       /\ [at |-> "receive_data", link |-> c, arg |-> k] \in Ops
  BY DEF Ops

\* Appending keeps what is there and adds the new element last.
LEMMA AppendFacts ==
  ASSUME NEW S, NEW s \in Seq(S), NEW e \in S
  PROVE  /\ Append(s, e) \in Seq(S)
         /\ Len(s) \in Nat
         /\ Len(Append(s, e)) = Len(s) + 1
         /\ \A i \in 1 .. Len(s) : Append(s, e)[i] = s[i]
         /\ Append(s, e)[Len(s) + 1] = e
  OBVIOUS

\* A size jar after whole values leaves them in place ...
LEMMA AppendSize ==
  ASSUME NEW w \in Seq(Jars), NEW s \in Seq(Values), NEW j \in Jars,
         Carries(w, s), Len(w) = 2 * Len(s)
  PROVE  /\ Carries(Append(w, j), s)
         /\ Len(Append(w, j)) = 2 * Len(s) + 1
         /\ Append(w, j)[2 * Len(s) + 1] = j
<1> DEFINE x == Append(w, j)
<1>1. Len(x) = Len(w) + 1 /\ (\A i \in 1 .. Len(w) : x[i] = w[i]) /\ x[Len(w) + 1] = j
  BY AppendFacts
<1>2. \A i \in 1 .. Len(s) : 2 * i - 1 \in 1 .. Len(w) /\ 2 * i \in 1 .. Len(w)
  OBVIOUS
<1> HIDE DEF x
<1>3. Carries(x, s)
  BY <1>1, <1>2 DEF Carries
<1>4. Len(x) = 2 * Len(s) + 1 /\ x[2 * Len(s) + 1] = j
  BY <1>1
<1> QED BY <1>3, <1>4 DEF x

\* ... and a pickle after the size jar completes one more.
LEMMA AppendData ==
  ASSUME NEW w \in Seq(Jars), NEW s \in Seq(Values), NEW v \in Values,
         Carries(w, s), Len(w) = 2 * Len(s) + 1, w[Len(w)] = SizeJar(v)
  PROVE  /\ Carries(Append(w, DataJar(v)), Append(s, v))
         /\ Len(Append(w, DataJar(v))) = 2 * Len(Append(s, v))
<1> DEFINE x == Append(w, DataJar(v))
           t == Append(s, v)
<1>0. DataJar(v) \in Jars
  BY JarTypes
<1>1. /\ Len(x) = Len(w) + 1
      /\ \A i \in 1 .. Len(w) : x[i] = w[i]
      /\ x[Len(w) + 1] = DataJar(v)
  BY <1>0, AppendFacts
<1>2. /\ Len(s) \in Nat
      /\ Len(t) = Len(s) + 1
      /\ \A i \in 1 .. Len(s) : t[i] = s[i]
      /\ t[Len(s) + 1] = v
  BY AppendFacts
<1> HIDE DEF x, t
<1>3. ASSUME NEW i \in 1 .. Len(s)
      PROVE  x[2 * i - 1] = SizeJar(t[i]) /\ x[2 * i] = DataJar(t[i])
  <2>1. 2 * i - 1 \in 1 .. Len(w) /\ 2 * i \in 1 .. Len(w)
    BY <1>2
  <2>2. x[2 * i - 1] = w[2 * i - 1] /\ x[2 * i] = w[2 * i] /\ t[i] = s[i]
    BY <1>1, <1>2, <2>1
  <2>3. w[2 * i - 1] = SizeJar(s[i]) /\ w[2 * i] = DataJar(s[i])
    BY DEF Carries
  <2> QED BY <2>2, <2>3
<1>4. /\ x[2 * (Len(s) + 1) - 1] = SizeJar(t[Len(s) + 1])
      /\ x[2 * (Len(s) + 1)] = DataJar(t[Len(s) + 1])
  <2>1. Len(w) = 2 * (Len(s) + 1) - 1 /\ Len(w) + 1 = 2 * (Len(s) + 1) /\ Len(w) \in 1 .. Len(w)
    BY <1>2
  <2> QED BY <1>1, <1>2, <2>1
<1>5. \A i \in 1 .. Len(t) : i \in 1 .. Len(s) \/ i = Len(s) + 1
  BY <1>2
<1>6. Carries(x, t)
  BY <1>3, <1>4, <1>5 DEF Carries
<1>7. Len(x) = 2 * Len(t)
  BY <1>1, <1>2
<1> QED BY <1>6, <1>7 DEF x, t

LEMMA InitIInv == Init => IInv
<1> SUFFICES ASSUME Init PROVE IInv
  OBVIOUS
<1>1. TypeOK
  BY OpIntro DEF Init, TypeOK
<1>2. \A c \in Links : LinkOK(c)
  BY DEF Init, LinkOK, Carries, Sending, Receiving, Idle
<1>3. \A p \in Parties : PartyOK(p)
  BY Zenon DEF Init, PartyOK, Idle
<1> QED BY <1>1, <1>2, <1>3 DEF IInv

-----------------------------------------------------------------------------

\* How much has gone through link c, by where its two parties are.
LEMMA LinkLengths ==
  ASSUME NEW c \in Links, LinkOK(c)
  PROVE  /\ Sending(c) => Len(wire[c]) = 2 * Len(sent[c]) + 1
         /\ ~ Sending(c) => Len(wire[c]) = 2 * Len(sent[c]) + 0
         /\ Receiving(c) => taken[c] = 2 * Len(got[c]) + 1
         /\ ~ Receiving(c) => taken[c] = 2 * Len(got[c]) + 0
         /\ taken[c] <= Len(wire[c])
  BY DEF LinkOK

\* What the invariant says of the state of link c.
LEMMA LinkTypes ==
  ASSUME TypeOK, NEW c \in Links, LinkOK(c)
  PROVE  /\ wire[c] \in Seq(Jars) /\ Len(wire[c]) \in Nat
         /\ sent[c] \in Seq(Values) /\ Len(sent[c]) \in Nat
         /\ got[c] \in Seq(Values) /\ Len(got[c]) \in Nat
         /\ taken[c] \in Nat
         /\ c[1] \in Parties /\ c[2] \in Parties
         /\ Len(got[c]) <= Len(sent[c])
         /\ Len(wire[c]) <= 2 * Len(sent[c]) + 1
         /\ taken[c] <= Len(wire[c])
<1>1. /\ wire[c] \in Seq(Jars) /\ sent[c] \in Seq(Values) /\ got[c] \in Seq(Values)
      /\ taken[c] \in Nat /\ c[1] \in Parties /\ c[2] \in Parties
  BY DEF TypeOK
<1>2. Len(wire[c]) \in Nat /\ Len(sent[c]) \in Nat /\ Len(got[c]) \in Nat
  BY <1>1
<1>3. Len(wire[c]) <= 2 * Len(sent[c]) + 1 /\ 2 * Len(got[c]) <= taken[c]
  <2>1. Len(wire[c]) = 2 * Len(sent[c]) + 1 \/ Len(wire[c]) = 2 * Len(sent[c]) + 0
    BY LinkLengths, Zenon
  <2>2. taken[c] = 2 * Len(got[c]) + 1 \/ taken[c] = 2 * Len(got[c]) + 0
    BY LinkLengths, Zenon
  <2> QED BY <1>1, <1>2, <2>1, <2>2
<1>4. taken[c] <= Len(wire[c])
  BY LinkLengths
<1> QED BY <1>1, <1>2, <1>3, <1>4

\* Between two values the next jar is a size ...
LEMMA NextIsSize ==
  ASSUME TypeOK, NEW c \in Links, LinkOK(c), PartyOK(c[1]),
         ~ Receiving(c), taken[c] < Len(wire[c])
  PROVE  \E v \in Values : NextJar(c) = SizeJar(v)
<1> DEFINE k == Len(got[c]) + 1
<1>0. taken[c] + 1 = 2 * k - 1 /\ k \in Nat
  BY LinkTypes, LinkLengths
<1>1. CASE k <= Len(sent[c])
  <2>1. k \in 1 .. Len(sent[c])
    BY <1>1, LinkTypes
  <2>2. wire[c][2 * k - 1] = SizeJar(sent[c][k])
    BY <2>1 DEF LinkOK, Carries
  <2>3. sent[c][k] \in Values
    BY <2>1, LinkTypes
  <2> QED BY <1>0, <2>2, <2>3 DEF NextJar
<1>2. CASE k > Len(sent[c])
  <2>1. Sending(c) /\ Len(wire[c]) = taken[c] + 1
    <3>1. taken[c] = 2 * Len(got[c])
      BY LinkTypes, LinkLengths
    <3>2. CASE ~ Sending(c)
      BY <1>2, <3>1, <3>2, LinkTypes, LinkLengths
    <3>3. CASE Sending(c)
      <4>1. Len(got[c]) = Len(sent[c])
        BY <1>2, LinkTypes
      <4>2. Len(wire[c]) = 2 * Len(sent[c]) + 1
        BY <3>3, LinkLengths
      <4> QED BY <3>1, <3>3, <4>1, <4>2
    <3> QED BY <3>2, <3>3
  <2>2. wire[c][Len(wire[c])] = SizeJar(op[c[1]].arg)
    BY <2>1 DEF LinkOK
  <2>3. op[c[1]] \in Ops
    BY LinkTypes DEF TypeOK
  <2>4. op[c[1]].arg \in Values
    BY <2>1, <2>3, SendOp DEF Sending
  <2> QED BY <2>1, <2>2, <2>4 DEF NextJar
<1> QED BY <1>0, <1>1, <1>2, LinkTypes

\* ... and after a size, the pickle it is the size of.
LEMMA NextIsData ==
  ASSUME TypeOK, NEW c \in Links, LinkOK(c), Receiving(c), taken[c] < Len(wire[c])
  PROVE  /\ Len(got[c]) + 1 \in 1 .. Len(sent[c])
         /\ NextJar(c) = DataJar(sent[c][Len(got[c]) + 1])
         /\ op[c[2]].arg = Size[sent[c][Len(got[c]) + 1]]
<1> DEFINE k == Len(got[c]) + 1
<1>1. taken[c] = 2 * k - 1 /\ k \in Nat /\ k >= 1
  BY LinkTypes, LinkLengths
<1>2. k \in 1 .. Len(sent[c])
  <2>1. 2 * k <= 2 * Len(sent[c]) + 1
    BY <1>1, LinkTypes
  <2> QED BY <1>1, <2>1, LinkTypes
<1>3. wire[c][2 * k - 1] = SizeJar(sent[c][k]) /\ wire[c][2 * k] = DataJar(sent[c][k])
  BY <1>2 DEF LinkOK, Carries
<1>4. NextJar(c) = DataJar(sent[c][k])
  BY <1>1, <1>3 DEF NextJar
<1>5. sent[c][k] \in Values
  BY <1>2, LinkTypes
<1>6. op[c[2]].arg = Size[sent[c][k]]
  BY <1>1, <1>3, <1>5, JarTypes DEF LinkOK
<1> QED BY <1>2, <1>4, <1>6

\* A step of party p leaves alone a link whose streams it does not touch and on
\* which p is between two jars neither before nor after.
LEMMA OtherLink ==
  ASSUME NEW p \in Parties, NEW d \in Links, LinkOK(d),
         wire'[d] = wire[d], taken'[d] = taken[d], sent'[d] = sent[d], got'[d] = got[d],
         \A q \in Parties : q # p => op'[q] = op[q],
         op[p].at \in {"send_data", "receive_data"} => op[p].link # d,
         op'[p].at \in {"send_data", "receive_data"} => op'[p].link # d
  PROVE  LinkOK(d)'
<1>1. d[1] \in Parties /\ d[2] \in Parties
  OBVIOUS
<1>2. /\ Sending(d)' <=> Sending(d)
      /\ Receiving(d)' <=> Receiving(d)
      /\ Sending(d) => op'[d[1]] = op[d[1]]
      /\ Receiving(d) => op'[d[2]] = op[d[2]]
  BY <1>1 DEF Sending, Receiving
<1> QED BY <1>2 DEF LinkOK, Carries

LEMMA OtherParty ==
  ASSUME NEW q \in Parties, PartyOK(q), op'[q] = op[q]
  PROVE  PartyOK(q)'
  BY DEF PartyOK

-----------------------------------------------------------------------------

\* A call moves no stream, and its caller is not between two jars.
LEMMA CallKeepsIInv ==
  ASSUME IInv, NEW p \in Parties, NEW o \in Ops,
         op[p].at = "idle", op' = [op EXCEPT ![p] = o],
         \/ o.at = "send_size" /\ o.link[1] = p
         \/ o.at = "receive_size" /\ o.link[2] = p /\ o.arg = IntSize,
         UNCHANGED <<wire, taken, sent, got>>
  PROVE  IInv'
<1>1. /\ TypeOK /\ op \in [Parties -> Ops]
      /\ op'[p] = o
      /\ \A q \in Parties : q # p => op'[q] = op[q]
  BY DEF IInv, TypeOK
<1>2. TypeOK'
  BY <1>1 DEF TypeOK
<1>3. ASSUME NEW d \in Links PROVE LinkOK(d)'
  BY <1>1, OtherLink DEF IInv
<1>4. ASSUME NEW q \in Parties PROVE PartyOK(q)'
  <2>1. CASE q = p
    BY <1>1, <2>1 DEF PartyOK
  <2>2. CASE q # p
    BY <1>1, <2>2, OtherParty DEF IInv
  <2> QED BY <2>1, <2>2
<1> QED BY <1>2, <1>3, <1>4 DEF IInv

\* The size jar is put on the wire.
LEMMA SendSizeKeepsIInv ==
  ASSUME IInv, NEW p \in Parties, SendSize(p)
  PROVE  IInv'
<1> PICK c \in Links, v \in Values : c = op[p].link /\ v = op[p].arg
  BY SendOp DEF IInv, TypeOK, SendSize
<1>1. TypeOK /\ op[p] \in Ops /\ LinkOK(c) /\ c[1] = p
  BY DEF IInv, TypeOK, SendSize
<1>2. /\ op' = [op EXCEPT ![p] = [at |-> "send_data", link |-> c, arg |-> v]]
      /\ wire' = [wire EXCEPT ![c] = Append(wire[c], SizeJar(v))]
      /\ UNCHANGED <<taken, sent, got>>
      /\ op[p].at = "send_size"
  BY DEF SendSize, PutJar
<1>3. /\ op'[p] = [at |-> "send_data", link |-> c, arg |-> v]
      /\ \A q \in Parties : q # p => op'[q] = op[q]
      /\ wire'[c] = Append(wire[c], SizeJar(v))
      /\ \A d \in Links : d # c => wire'[d] = wire[d]
  BY <1>1, <1>2 DEF TypeOK
<1>4. SizeJar(v) \in Jars
  BY <1>1, JarTypes
<1>5. TypeOK'
  <2>1. [at |-> "send_data", link |-> c, arg |-> v] \in Ops
    BY <1>1, OpIntro
  <2>2. op' \in [Parties -> Ops]
    BY <1>1, <1>2, <2>1 DEF TypeOK
  <2>3. wire' \in [Links -> Seq(Jars)]
    BY <1>1, <1>2, <1>4 DEF TypeOK
  <2> QED BY <1>1, <1>2, <2>2, <2>3 DEF TypeOK
<1>6. LinkOK(c)'
  <2>1. ~ Sending(c) /\ Sending(c)'
    BY <1>1, <1>2, <1>3 DEF Sending
  <2>2. Receiving(c)' <=> Receiving(c)
    BY <1>1, <1>2, <1>3, LinkTypes DEF Receiving
  <2>3. Receiving(c) => op'[c[2]] = op[c[2]]
    BY <1>1, <1>2, <1>3, LinkTypes DEF Receiving
  <2>4. Carries(wire[c], sent[c]) /\ Len(wire[c]) = 2 * Len(sent[c])
    BY <1>1, <2>1, LinkLengths, LinkTypes DEF LinkOK
  <2>5. /\ Carries(wire'[c], sent[c])
        /\ Len(wire'[c]) = 2 * Len(sent[c]) + 1
        /\ wire'[c][2 * Len(sent[c]) + 1] = SizeJar(v)
    <3>1. wire[c] \in Seq(Jars) /\ sent[c] \in Seq(Values)
      BY <1>1, LinkTypes
    <3>2. /\ Carries(Append(wire[c], SizeJar(v)), sent[c])
          /\ Len(Append(wire[c], SizeJar(v))) = 2 * Len(sent[c]) + 1
          /\ Append(wire[c], SizeJar(v))[2 * Len(sent[c]) + 1] = SizeJar(v)
      BY <1>4, <2>4, <3>1, AppendSize
    <3> QED BY <1>3, <3>2
  <2>6. \A i \in 1 .. Len(wire[c]) : wire'[c][i] = wire[c][i]
    BY <1>1, <1>3, <1>4, AppendFacts, LinkTypes
  <2>7. Receiving(c) => wire'[c][taken[c]] = wire[c][taken[c]]
    <3>1. Receiving(c) => taken[c] \in 1 .. Len(wire[c])
      BY <1>1, LinkLengths, LinkTypes
    <3> QED BY <2>6, <3>1
  <2>8. taken[c] <= Len(wire'[c])
    BY <1>1, <2>4, <2>5, LinkTypes
  <2>9. (Carries(wire[c], sent[c]))'
    BY <1>2, <2>5 DEF Carries
  <2>10. op'[c[1]].arg = v
    BY <1>1, <1>3
  <2> QED BY <1>1, <1>2, <2>1, <2>2, <2>3, <2>5, <2>7, <2>8, <2>9, <2>10 DEF LinkOK
<1>7. ASSUME NEW d \in Links, d # c PROVE LinkOK(d)'
  BY <1>2, <1>3, <1>7, OtherLink DEF IInv
<1>8. ASSUME NEW q \in Parties PROVE PartyOK(q)'
  <2>1. CASE q = p
    BY <1>1, <1>3, <2>1 DEF PartyOK
  <2>2. CASE q # p
    BY <1>3, <2>2, OtherParty DEF IInv
  <2> QED BY <2>1, <2>2
<1> QED BY <1>5, <1>6, <1>7, <1>8 DEF IInv

\* The pickle is put on the wire, and the value counts as sent.
LEMMA SendDataKeepsIInv ==
  ASSUME IInv, NEW p \in Parties, SendData(p)
  PROVE  IInv'
<1> PICK c \in Links, v \in Values : c = op[p].link /\ v = op[p].arg
  BY SendOp DEF IInv, TypeOK, SendData
<1>1. TypeOK /\ op[p] \in Ops /\ LinkOK(c) /\ c[1] = p
  BY DEF IInv, TypeOK, SendData
<1>2. /\ op' = [op EXCEPT ![p] = Idle]
      /\ wire' = [wire EXCEPT ![c] = Append(wire[c], DataJar(v))]
      /\ sent' = [sent EXCEPT ![c] = Append(sent[c], v)]
      /\ UNCHANGED <<taken, got>>
      /\ op[p].at = "send_data"
  BY DEF SendData, PutJar
<1>3. /\ op'[p] = Idle
      /\ \A q \in Parties : q # p => op'[q] = op[q]
      /\ wire'[c] = Append(wire[c], DataJar(v))
      /\ sent'[c] = Append(sent[c], v)
      /\ \A d \in Links : d # c => wire'[d] = wire[d] /\ sent'[d] = sent[d]
  BY <1>1, <1>2 DEF TypeOK
<1>4. DataJar(v) \in Jars
  BY JarTypes
<1>5. TypeOK'
  <2>1. op' \in [Parties -> Ops]
    BY <1>1, <1>2, OpIntro DEF TypeOK
  <2>2. wire' \in [Links -> Seq(Jars)]
    BY <1>1, <1>2, <1>4 DEF TypeOK
  <2>3. sent' \in [Links -> Seq(Values)]
    BY <1>1, <1>2 DEF TypeOK
  <2> QED BY <1>1, <1>2, <2>1, <2>2, <2>3 DEF TypeOK
<1>6. LinkOK(c)'
  <2>1. Sending(c) /\ ~ Sending(c)'
    BY <1>1, <1>2, <1>3 DEF Sending, Idle
  <2>2. Receiving(c)' <=> Receiving(c)
    BY <1>1, <1>2, <1>3, LinkTypes DEF Receiving, Idle
  <2>3. Receiving(c) => op'[c[2]] = op[c[2]]
    BY <1>1, <1>2, <1>3, LinkTypes DEF Receiving
  <2>4. /\ Carries(wire[c], sent[c])
        /\ Len(wire[c]) = 2 * Len(sent[c]) + 1
        /\ wire[c][Len(wire[c])] = SizeJar(v)
    BY <1>1, <2>1, LinkLengths DEF LinkOK
  <2>5. Carries(wire'[c], sent'[c]) /\ Len(wire'[c]) = 2 * Len(sent'[c])
    <3>1. wire[c] \in Seq(Jars) /\ sent[c] \in Seq(Values)
      BY <1>1, LinkTypes
    <3>2. /\ Carries(Append(wire[c], DataJar(v)), Append(sent[c], v))
          /\ Len(Append(wire[c], DataJar(v))) = 2 * Len(Append(sent[c], v))
      BY <2>4, <3>1, AppendData
    <3> QED BY <1>3, <3>2
  <2>6. /\ \A i \in 1 .. Len(wire[c]) : wire'[c][i] = wire[c][i]
        /\ Len(wire'[c]) = Len(wire[c]) + 1
    BY <1>1, <1>3, <1>4, AppendFacts, LinkTypes
  <2>7. Receiving(c) => wire'[c][taken[c]] = wire[c][taken[c]]
    <3>1. Receiving(c) => taken[c] \in 1 .. Len(wire[c])
      BY <1>1, LinkLengths, LinkTypes
    <3> QED BY <2>6, <3>1
  <2>8. taken[c] <= Len(wire'[c])
    BY <1>1, <2>6, LinkTypes
  <2>9. \A i \in 1 .. Len(got[c]) : got[c][i] = sent'[c][i]
    <3>1. \A i \in 1 .. Len(sent[c]) : sent'[c][i] = sent[c][i]
      BY <1>1, <1>3, AppendFacts, LinkTypes
    <3>2. \A i \in 1 .. Len(got[c]) : i \in 1 .. Len(sent[c])
      BY <1>1, LinkTypes
    <3> QED BY <1>1, <3>1, <3>2 DEF LinkOK
  <2>10. (Carries(wire[c], sent[c]))'
    BY <2>5 DEF Carries
  <2>11. Len(wire'[c]) = 2 * Len(sent'[c]) + 0
    <3>1. Len(sent'[c]) \in Nat
      BY <1>1, <1>3, AppendFacts, LinkTypes
    <3> QED BY <2>5, <3>1
  <2> QED BY <1>1, <1>2, <2>1, <2>2, <2>3, <2>7, <2>8, <2>9, <2>10, <2>11 DEF LinkOK
<1>7. ASSUME NEW d \in Links, d # c PROVE LinkOK(d)'
  <2>1. op[p].link # d /\ op'[p].at = "idle"
    BY <1>3, <1>7 DEF Idle
  <2>2. LinkOK(d) /\ wire'[d] = wire[d] /\ taken'[d] = taken[d] /\ sent'[d] = sent[d] /\ got'[d] = got[d]
    BY <1>2, <1>3, <1>7 DEF IInv
  <2> QED BY <1>3, <2>1, <2>2, OtherLink
<1>8. ASSUME NEW q \in Parties PROVE PartyOK(q)'
  <2>1. CASE q = p
    BY <1>3, <2>1 DEF PartyOK, Idle
  <2>2. CASE q # p
    BY <1>3, <2>2, OtherParty DEF IInv
  <2> QED BY <2>1, <2>2
<1> QED BY <1>5, <1>6, <1>7, <1>8 DEF IInv

\* The size of the next pickle is taken.
LEMMA ReceiveSizeKeepsIInv ==
  ASSUME IInv, NEW p \in Parties, ReceiveSize(p)
  PROVE  IInv'
<1> PICK c \in Links : c = op[p].link
  BY ReceiveOp DEF IInv, TypeOK, ReceiveSize
<1>1. /\ TypeOK /\ op[p] \in Ops /\ LinkOK(c) /\ c[2] = p
      /\ op[p].at = "receive_size" /\ taken[c] < Len(wire[c])
  BY DEF IInv, TypeOK, ReceiveSize, TakeJar
<1>2. ~ Receiving(c)
  BY <1>1 DEF Receiving
<1>3. PICK v \in Values : NextJar(c) = SizeJar(v)
  <2>1. PartyOK(c[1])
    BY <1>1, LinkTypes DEF IInv
  <2> QED BY <1>1, <1>2, <2>1, NextIsSize
<1>4. NextJar(c).content = Size[v] /\ Size[v] \in Nat
  BY <1>3, JarTypes
<1>5. /\ op' = [op EXCEPT ![p] = [at |-> "receive_data", link |-> c, arg |-> Size[v]]]
      /\ taken' = [taken EXCEPT ![c] = @ + 1]
      /\ UNCHANGED <<wire, sent, got>>
  BY <1>4 DEF ReceiveSize, TakeJar
<1>6. /\ op'[p] = [at |-> "receive_data", link |-> c, arg |-> Size[v]]
      /\ \A q \in Parties : q # p => op'[q] = op[q]
      /\ taken'[c] = taken[c] + 1
      /\ \A d \in Links : d # c => taken'[d] = taken[d]
  BY <1>1, <1>5 DEF TypeOK
<1>7. TypeOK'
  <2>1. [at |-> "receive_data", link |-> c, arg |-> Size[v]] \in Ops
    BY <1>4, OpIntro
  <2>2. op' \in [Parties -> Ops]
    BY <1>1, <1>5, <2>1 DEF TypeOK
  <2>3. taken' \in [Links -> Nat]
    BY <1>1, <1>5 DEF TypeOK
  <2> QED BY <1>1, <1>5, <2>2, <2>3 DEF TypeOK
<1>8. LinkOK(c)'
  <2>1. Receiving(c)' /\ op'[c[2]].arg = Size[v]
    BY <1>1, <1>6 DEF Receiving
  <2>2. Sending(c)' <=> Sending(c)
    <3>1. CASE c[1] = p
      BY <1>1, <1>6, <3>1 DEF Sending
    <3>2. CASE c[1] # p
      <4>1. op'[c[1]] = op[c[1]]
        BY <1>1, <1>6, <3>2, LinkTypes
      <4> QED BY <4>1 DEF Sending
    <3> QED BY <3>1, <3>2
  <2>3. Sending(c) => op'[c[1]] = op[c[1]]
    BY <1>1, <1>6, LinkTypes DEF Sending
  <2>4. taken'[c] = 2 * Len(got[c]) + 1
    BY <1>1, <1>2, <1>6, LinkLengths, LinkTypes
  <2>5. wire[c][taken'[c]].content = Size[v]
    BY <1>4, <1>6 DEF NextJar
  <2>6. taken'[c] <= Len(wire[c])
    BY <1>1, <1>6, LinkTypes
  <2> QED BY <1>1, <1>5, <2>1, <2>2, <2>3, <2>4, <2>5, <2>6 DEF LinkOK, Carries
<1>9. ASSUME NEW d \in Links, d # c PROVE LinkOK(d)'
  <2>1. op[p].link # d /\ op'[p].link # d
    BY <1>6, <1>9
  <2>2. LinkOK(d) /\ wire'[d] = wire[d] /\ taken'[d] = taken[d] /\ sent'[d] = sent[d] /\ got'[d] = got[d]
    BY <1>5, <1>6, <1>9 DEF IInv
  <2> QED BY <1>6, <2>1, <2>2, OtherLink
<1>10. ASSUME NEW q \in Parties PROVE PartyOK(q)'
  <2>1. CASE q = p
    BY <1>1, <1>6, <2>1 DEF PartyOK
  <2>2. CASE q # p
    BY <1>6, <2>2, OtherParty DEF IInv
  <2> QED BY <2>1, <2>2
<1> QED BY <1>7, <1>8, <1>9, <1>10 DEF IInv

\* The value that was sent is the value that is returned.
LEMMA ReceiveDataTakesNext ==
  ASSUME IInv, NEW p \in Parties, NEW c \in Links, c = op[p].link, ReceiveData(p)
  PROVE  /\ Receiving(c) /\ c[2] = p
         /\ Len(got[c]) + 1 \in 1 .. Len(sent[c])
         /\ got' = [got EXCEPT ![c] = Append(got[c], sent[c][Len(got[c]) + 1])]
         /\ taken' = [taken EXCEPT ![c] = taken[c] + 1]
         /\ taken[c] < Len(wire[c])
         /\ op' = [op EXCEPT ![p] = Idle]
         /\ UNCHANGED <<wire, sent>>
<1>1. /\ TypeOK /\ LinkOK(c) /\ Receiving(c) /\ c[2] = p /\ taken[c] < Len(wire[c])
      /\ got' = [got EXCEPT ![c] = Append(got[c], NextJar(c).content)]
      /\ taken' = [taken EXCEPT ![c] = taken[c] + 1]
      /\ op' = [op EXCEPT ![p] = Idle]
      /\ UNCHANGED <<wire, sent>>
  BY DEF IInv, TypeOK, ReceiveData, TakeJar, Receiving
<1>2. /\ Len(got[c]) + 1 \in 1 .. Len(sent[c])
      /\ NextJar(c) = DataJar(sent[c][Len(got[c]) + 1])
  BY <1>1, NextIsData
<1>3. NextJar(c).content = sent[c][Len(got[c]) + 1]
  <2>1. sent[c][Len(got[c]) + 1] \in Values
    BY <1>1, <1>2, LinkTypes
  <2> QED BY <1>2, <2>1, JarTypes
<1> QED BY <1>1, <1>2, <1>3

LEMMA ReceiveDataKeepsIInv ==
  ASSUME IInv, NEW p \in Parties, ReceiveData(p)
  PROVE  IInv'
<1> PICK c \in Links : c = op[p].link
  BY ReceiveOp DEF IInv, TypeOK, ReceiveData
<1> DEFINE k == Len(got[c]) + 1
<1>1. TypeOK /\ op[p] \in Ops /\ LinkOK(c)
  BY DEF IInv, TypeOK
<1>2. /\ Receiving(c) /\ c[2] = p /\ k \in 1 .. Len(sent[c])
      /\ got' = [got EXCEPT ![c] = Append(got[c], sent[c][k])]
      /\ taken' = [taken EXCEPT ![c] = taken[c] + 1]
      /\ taken[c] < Len(wire[c])
      /\ op' = [op EXCEPT ![p] = Idle]
      /\ UNCHANGED <<wire, sent>>
  BY ReceiveDataTakesNext
<1>3. /\ op'[p] = Idle
      /\ \A q \in Parties : q # p => op'[q] = op[q]
      /\ taken'[c] = taken[c] + 1
      /\ got'[c] = Append(got[c], sent[c][k])
      /\ \A d \in Links : d # c => taken'[d] = taken[d] /\ got'[d] = got[d]
  BY <1>1, <1>2 DEF TypeOK
<1>4. sent[c][k] \in Values
  BY <1>1, <1>2, LinkTypes
<1>5. /\ Len(got'[c]) = Len(got[c]) + 1
      /\ \A i \in 1 .. Len(got[c]) : got'[c][i] = got[c][i]
      /\ got'[c][k] = sent[c][k]
  BY <1>1, <1>3, <1>4, AppendFacts, LinkTypes
<1>6. TypeOK'
  <2>1. op' \in [Parties -> Ops]
    BY <1>1, <1>2, OpIntro DEF TypeOK
  <2>2. taken' \in [Links -> Nat]
    BY <1>1, <1>2 DEF TypeOK
  <2>3. got' \in [Links -> Seq(Values)]
    BY <1>1, <1>2, <1>4 DEF TypeOK
  <2> QED BY <1>1, <1>2, <2>1, <2>2, <2>3 DEF TypeOK
<1>7. LinkOK(c)'
  <2>1. ~ Receiving(c)'
    BY <1>2, <1>3 DEF Receiving, Idle
  <2>2. Sending(c)' <=> Sending(c)
    BY <1>1, <1>2, <1>3, LinkTypes DEF Sending, Receiving, Idle
  <2>3. Sending(c) => op'[c[1]] = op[c[1]]
    BY <1>1, <1>2, <1>3, LinkTypes DEF Sending, Receiving
  <2>4. taken'[c] = 2 * Len(got'[c]) + 0
    <3>1. taken[c] = 2 * Len(got[c]) + 1 /\ Len(got[c]) \in Nat
      BY <1>1, <1>2, LinkLengths, LinkTypes
    <3> QED BY <1>3, <1>5, <3>1
  <2>5. taken'[c] <= Len(wire[c])
    BY <1>1, <1>2, <1>3, LinkTypes
  <2>6. \A i \in 1 .. Len(got'[c]) : got'[c][i] = sent[c][i]
    <3>1. \A i \in 1 .. Len(got'[c]) : i \in 1 .. Len(got[c]) \/ i = k
      <4>1. Len(got[c]) \in Nat
        BY <1>1, LinkTypes
      <4> QED BY <1>5, <4>1
    <3> QED BY <1>1, <1>5, <3>1 DEF LinkOK
  <2> QED BY <1>1, <1>2, <2>1, <2>2, <2>3, <2>4, <2>5, <2>6 DEF LinkOK, Carries
<1>8. ASSUME NEW d \in Links, d # c PROVE LinkOK(d)'
  <2>1. op[p].link # d /\ op'[p].at = "idle"
    BY <1>3, <1>8 DEF Idle
  <2>2. LinkOK(d) /\ wire'[d] = wire[d] /\ taken'[d] = taken[d] /\ sent'[d] = sent[d] /\ got'[d] = got[d]
    BY <1>2, <1>3, <1>8 DEF IInv
  <2> QED BY <1>3, <2>1, <2>2, OtherLink
<1>9. ASSUME NEW q \in Parties PROVE PartyOK(q)'
  <2>1. CASE q = p
    BY <1>3, <2>1 DEF PartyOK, Idle
  <2>2. CASE q # p
    BY <1>3, <2>2, OtherParty DEF IInv
  <2> QED BY <2>1, <2>2
<1> QED BY <1>6, <1>7, <1>8, <1>9 DEF IInv

LEMMA NextIInv == IInv /\ [Next]_vars => IInv'
<1> SUFFICES ASSUME IInv, [Next]_vars PROVE IInv'
  OBVIOUS
<1>1. ASSUME NEW p \in Parties, NEW c \in Links, CallReceive(p, c) PROVE IInv'
  <2> DEFINE o == [at |-> "receive_size", link |-> c, arg |-> IntSize]
  <2>1. /\ o \in Ops /\ o.at = "receive_size" /\ o.link = c /\ o.arg = IntSize
    BY OpIntro DEF IntSize
  <2>2. /\ op[p].at = "idle" /\ op' = [op EXCEPT ![p] = o] /\ c[2] = p
        /\ UNCHANGED <<wire, taken, sent, got>>
    BY <1>1 DEF CallReceive, Idle
  <2> HIDE DEF o
  <2> QED BY <2>1, <2>2, CallKeepsIInv
<1>2. ASSUME NEW p \in Parties, NEW c \in Links, NEW v \in Values, CallSend(p, c, v) PROVE IInv'
  <2> DEFINE o == [at |-> "send_size", link |-> c, arg |-> v]
  <2>1. o \in Ops /\ o.at = "send_size" /\ o.link = c
    BY OpIntro
  <2>2. /\ op[p].at = "idle" /\ op' = [op EXCEPT ![p] = o] /\ c[1] = p
        /\ UNCHANGED <<wire, taken, sent, got>>
    BY <1>2 DEF CallSend, Idle
  <2> HIDE DEF o
  <2> QED BY <2>1, <2>2, CallKeepsIInv
<1>3. ASSUME NEW p \in Parties, Step(p) PROVE IInv'
  BY <1>3, SendSizeKeepsIInv, SendDataKeepsIInv, ReceiveSizeKeepsIInv, ReceiveDataKeepsIInv DEF Step
<1>4. CASE UNCHANGED vars
  BY <1>4 DEF vars, IInv, TypeOK, LinkOK, PartyOK, Carries, Sending, Receiving
<1> QED BY <1>1, <1>2, <1>3, <1>4 DEF Next, Call

LEMMA Inductive == Spec => []IInv
  BY InitIInv, NextIInv, PTL DEF Spec

-----------------------------------------------------------------------------

\* Every variable keeps its type.
THEOREM TypeCorrect == Spec => []TypeOK
<1>1. IInv => TypeOK
  BY DEF IInv
<1> QED BY <1>1, Inductive, PTL

\* A receiver never takes a size for a pickle or a pickle for a size.
THEOREM FramingStaysAligned == Spec => []FramesAligned
<1>1. IInv => FramesAligned
  <2> SUFFICES ASSUME IInv, NEW p \in Parties, NEW c \in Links, c = op[p].link,
                      op[p].at \in {"receive_size", "receive_data"}, taken[c] < Len(wire[c])
               PROVE  \E v \in Values :
                        \/ op[p].at = "receive_size" /\ NextJar(c) = SizeJar(v)
                        \/ /\ op[p].at = "receive_data"
                           /\ NextJar(c) = DataJar(v) /\ Size[v] = op[p].arg
    <3>1. \A p \in Parties :
             IInv /\ op[p].at \in {"receive_size", "receive_data"} => op[p].link \in Links
      BY ReceiveOp DEF IInv, TypeOK
    <3> QED BY <3>1, Zenon DEF FramesAligned
  <2>1. TypeOK /\ LinkOK(c) /\ PartyOK(p) /\ c[2] = p
    BY DEF IInv, PartyOK
  <2>2. CASE op[p].at = "receive_size"
    <3>1. ~ Receiving(c) /\ PartyOK(c[1])
      BY <2>1, <2>2, LinkTypes DEF Receiving, IInv
    <3> QED BY <2>1, <2>2, <3>1, NextIsSize
  <2>3. CASE op[p].at = "receive_data"
    <3>1. Receiving(c)
      BY <2>1, <2>3 DEF Receiving
    <3>2. /\ Len(got[c]) + 1 \in 1 .. Len(sent[c])
          /\ NextJar(c) = DataJar(sent[c][Len(got[c]) + 1])
          /\ op[p].arg = Size[sent[c][Len(got[c]) + 1]]
      BY <2>1, <3>1, NextIsData
    <3>3. sent[c][Len(got[c]) + 1] \in Values
      BY <2>1, <3>2, LinkTypes
    <3> QED BY <2>3, <3>2, <3>3
  <2> QED BY <2>2, <2>3
<1> QED BY <1>1, Inductive, PTL

\* The stream of jars, read two by two, is an in-order exactly-once stream of values.
THEOREM FramingImplementsFifo == Spec => ImplementsFifo
<1>1. Init => F!Init
  BY DEF Init, F!Init
<1>2. ASSUME IInv, [Next]_vars PROVE [F!Next]_F!vars
  <2>1. ASSUME NEW p \in Parties, NEW c \in Links, Call(p, c) PROVE UNCHANGED F!vars
    BY <2>1 DEF Call, CallSend, CallReceive, F!vars
  <2>2. ASSUME NEW p \in Parties, SendSize(p) \/ ReceiveSize(p) PROVE UNCHANGED F!vars
    BY <2>2 DEF SendSize, ReceiveSize, F!vars
  <2>3. ASSUME NEW p \in Parties, SendData(p) PROVE F!Next
    <3>1. op[p].link \in Links /\ op[p].arg \in Values
      BY <1>2, <2>3, SendOp DEF IInv, TypeOK, SendData
    <3>2. F!Put(op[p].link, op[p].arg)
      BY <2>3 DEF SendData, F!Put
    <3> QED BY <3>1, <3>2 DEF F!Next
  <2>4. ASSUME NEW p \in Parties, ReceiveData(p) PROVE F!Next
    <3>1. PICK c \in Links : c = op[p].link
      BY <1>2, <2>4, ReceiveOp DEF IInv, TypeOK, ReceiveData
    <3>2. /\ Len(got[c]) + 1 \in 1 .. Len(sent[c])
          /\ got' = [got EXCEPT ![c] = Append(got[c], sent[c][Len(got[c]) + 1])]
          /\ sent' = sent
      BY <1>2, <2>4, <3>1, ReceiveDataTakesNext
    <3>3. Len(got[c]) \in Nat /\ Len(sent[c]) \in Nat
      BY <1>2, LinkTypes DEF IInv
    <3>4. F!Get(c)
      BY <3>2, <3>3 DEF F!Get
    <3> QED BY <3>4 DEF F!Next
  <2>5. CASE UNCHANGED vars
    BY <2>5 DEF vars, F!vars
  <2> QED BY <1>2, <2>1, <2>2, <2>3, <2>4, <2>5 DEF Next, Step
<1> QED BY <1>1, <1>2, Inductive, PTL DEF Spec, ImplementsFifo, F!Spec

=============================================================================
