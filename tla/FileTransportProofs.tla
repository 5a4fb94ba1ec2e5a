------------------------ MODULE FileTransportProofs ------------------------
(***************************************************************************)
(* The file transport delivers in order, publishes each number once and    *)
(* implements the abstract stream, for any parties, links, jars and        *)
(* bounds.  One inductive invariant, IInv, gives all of it.                *)
(***************************************************************************)
EXTENDS FileTransport, TLAPS

USE LinksAssumption, SizeAssumption, BoundAssumption, MarkerAssumption, FileAssumption

LEMMA JarsType == \A b \in Bodies : Jar(b) \in Jars /\ Size[b] \in Nat
  BY DEF Jars, Jar

\* What an operation record holds while its party sends ...
LEMMA SendOp ==
  ASSUME NEW o \in Ops, o.at \in {"open", "write", "rename"}
  PROVE  o.link \in Links /\ o.arg \in Jars
  BY DEF Ops, Idle

\* ... and while it receives.
LEMMA ReceiveOp ==
  ASSUME NEW o \in Ops, o.at \in {"wait", "read"}
  PROVE  o.link \in Links /\ o.arg \in Nat
  BY DEF Ops, Idle

LEMMA OpIntro ==
  /\ Idle \in Ops
  /\ \A c \in Links, j \in Jars :
       /\ [at |-> "open", link |-> c, arg |-> j] \in Ops
       /\ [at |-> "write", link |-> c, arg |-> j] \in Ops
       /\ [at |-> "rename", link |-> c, arg |-> j] \in Ops
       /\ [at |-> "failed", link |-> c, arg |-> j] \in Ops
  /\ \A c \in Links, k \in Nat :
       /\ [at |-> "wait", link |-> c, arg |-> k] \in Ops
       /\ [at |-> "read", link |-> c, arg |-> k] \in Ops
  BY DEF Ops

Files == Jars \cup {NoFile, Partial}
Dirs == [Links -> [SeqNos -> Files]]

\* Storing one file leaves every other as it was.
LEMMA StoreFile ==
  ASSUME NEW d \in Dirs, NEW c \in Links, NEW n \in SeqNos, NEW f \in Files
  PROVE  /\ Store(d, c, n, f) \in Dirs
         /\ \A e \in Links, k \in SeqNos :
              Store(d, c, n, f)[e][k] = IF e = c /\ k = n THEN f ELSE d[e][k]
  BY DEF Store, Dirs

LEMMA FileTypes ==
  TypeOK => dir \in Dirs /\ view \in Dirs
  BY DEF TypeOK, Files, Dirs

\* Counters 0, no files, nobody in a call.
LEMMA InitIInv == Init => IInv
<1> SUFFICES ASSUME Init PROVE IInv
  OBVIOUS
<1>1. TypeOK
  BY OpIntro DEF Init, TypeOK, SeqNos
<1>2. LinkInv
  BY DEF Init, LinkInv, LinkOK, SeqNos
<1>3. OpInv
  BY DEF Init, OpInv, PartyOK, Idle
<1> QED BY <1>1, <1>2, <1>3 DEF IInv

LEMMA NextIInv == IInv /\ [Next]_vars => IInv'
<1> SUFFICES ASSUME IInv, [Next]_vars PROVE IInv'
  OBVIOUS
<1> USE DEF IInv
<1>1. ASSUME NEW p \in Parties, NEW c \in Links, NEW b \in Bodies, BeginSend(p, c, b)
      PROVE IInv'
  <2>1. TypeOK'
    BY <1>1, JarsType, OpIntro DEF BeginSend, TypeOK, files
  <2>2. LinkInv'
    BY <1>1 DEF BeginSend, LinkInv, LinkOK, files
  <2>3. OpInv'
    BY <1>1 DEF BeginSend, OpInv, PartyOK, TypeOK, SeqNos, files
  <2> QED BY <2>1, <2>2, <2>3
<1>2. ASSUME NEW p \in Parties, OpenTmp(p) PROVE IInv'
  <2>1. op[p].link \in Links
    BY <1>2, SendOp DEF OpenTmp, SendingAt, TypeOK
  <2>2. TypeOK'
    BY <1>2, <2>1, SendOp, OpIntro DEF OpenTmp, SendingAt, TypeOK, Goto
  <2>3. LinkInv'
    BY <1>2 DEF OpenTmp, LinkInv, LinkOK
  <2>4. OpInv'
    BY <1>2, <2>1 DEF OpenTmp, SendingAt, OpInv, PartyOK, TypeOK, Goto
  <2> QED BY <2>2, <2>3, <2>4
<1>3. ASSUME NEW p \in Parties, WriteTmp(p) PROVE IInv'
  <2>1. op[p].link \in Links /\ op[p].arg \in Jars
    BY <1>3, SendOp DEF WriteTmp, SendingAt, TypeOK
  <2>2. TypeOK'
    <3>1. PICK f \in {op[p].arg, Partial} : tmp' = [tmp EXCEPT ![op[p].link] = f]
      BY <1>3 DEF WriteTmp
    <3>2. tmp' \in [Links -> Jars \cup {NoFile, Partial}]
      BY <2>1, <3>1 DEF TypeOK
    <3>3. op' \in [Parties -> Ops]
      BY <1>3, <2>1, OpIntro DEF WriteTmp, SendingAt, TypeOK, Goto
    <3> QED BY <1>3, <3>2, <3>3 DEF WriteTmp, TypeOK
  <2>3. LinkInv'
    BY <1>3 DEF WriteTmp, LinkInv, LinkOK
  <2>4. OpInv'
    BY <1>3, <2>1 DEF WriteTmp, SendingAt, OpInv, PartyOK, TypeOK, Goto
  <2> QED BY <2>2, <2>3, <2>4
<1>4. ASSUME NEW p \in Parties, Rename(p) PROVE IInv'
  <2> DEFINE c == op[p].link
  <2> DEFINE n == send_seq[c]
  <2> DEFINE j == op[p].arg
  <2>1. c \in Links /\ c[1] = p /\ n \in SeqNos /\ n < MaxSeq /\ j \in Jars /\ tmp[c] \in {j, Partial}
    BY <1>4, SendOp DEF Rename, SendingAt, OpInv, PartyOK, TypeOK
  <2>2. /\ dir' = Store(dir, c, n, tmp[c])
        /\ tmp' = [tmp EXCEPT ![c] = NoFile]
        /\ send_seq' = [send_seq EXCEPT ![c] = n + 1]
        /\ sent' = [sent EXCEPT ![c] = Append(@, j)]
        /\ op' = [op EXCEPT ![p] = Idle]
        /\ recv_seq' = recv_seq /\ view' = view /\ got' = got
    BY <1>4 DEF Rename
  <2>3. /\ dir' \in Dirs
        /\ \A d \in Links, k \in SeqNos :
              dir'[d][k] = IF d = c /\ k = n THEN tmp[c] ELSE dir[d][k]
    <3>1. dir \in Dirs /\ tmp[c] \in Files
      BY <2>1, FileTypes DEF Files
    <3> QED BY <2>1, <2>2, <3>1, StoreFile
  <2>4. TypeOK'
    <3>1. dir' \in Dirs
      BY <2>3
    <3>2. n + 1 \in SeqNos
      BY <2>1 DEF SeqNos
    <3>3. sent' \in [Links -> Seq(Jars)]
      BY <2>1, <2>2 DEF TypeOK
    <3>4. op' \in [Parties -> Ops]
      BY <2>2, OpIntro DEF TypeOK
    <3>5. send_seq' \in [Links -> SeqNos] /\ tmp' \in [Links -> Jars \cup {NoFile, Partial}]
      BY <2>2, <3>2 DEF TypeOK
    <3> QED BY <2>2, <3>1, <3>3, <3>4, <3>5 DEF TypeOK, Files, Dirs
  <2>5. LinkInv'
    <3> SUFFICES ASSUME NEW d \in Links PROVE LinkOK(d)'
      BY DEF LinkInv
    <3>1. LinkOK(d)
      BY DEF LinkInv
    <3>2. CASE d = c
      <4>1. sent'[c] = Append(sent[c], j) /\ send_seq'[c] = n + 1 /\ sent[c] \in Seq(Jars)
        BY <2>1, <2>2 DEF TypeOK
      <4>2. \A k \in SeqNos : dir'[c][k] = IF k = n THEN tmp[c] ELSE dir[c][k]
        BY <2>1, <2>3
      <4>3. Len(sent'[c]) = n + 1 /\ sent'[c][n + 1] = j
        BY <2>1, <3>1, <3>2, <4>1 DEF LinkOK
      <4>4. \A k \in 1 .. n : sent'[c][k] = sent[c][k]
        BY <2>1, <3>1, <3>2, <4>1 DEF LinkOK
      <4>5. recv_seq[c] \in 0 .. n
        BY <2>1, <3>1, <3>2 DEF LinkOK, TypeOK, SeqNos
      <4>6. \A k \in SeqNos : k < n => k + 1 \in 1 .. n
        BY <2>1 DEF SeqNos
      <4>7. /\ Len(sent'[c]) = send_seq'[c] /\ Len(got'[c]) = recv_seq'[c]
            /\ recv_seq'[c] <= send_seq'[c]
        <5>1. Len(got[c]) = recv_seq[c] /\ got' = got /\ recv_seq' = recv_seq
          BY <2>2, <3>1, <3>2 DEF LinkOK
        <5>2. recv_seq[c] <= n + 1
          <6> HIDE DEF n
          <6>1. n \in Nat
            BY <2>1 DEF SeqNos
          <6> QED BY <4>5, <6>1
        <5> QED BY <4>1, <4>3, <5>1, <5>2
      <4>8. \A i \in 1 .. recv_seq'[c] : got'[c][i] = sent'[c][i]
        <5>1. \A i \in 1 .. recv_seq[c] : i \in 1 .. n
          BY <2>1, <4>5 DEF SeqNos
        <5> QED BY <2>2, <3>1, <3>2, <4>4, <5>1 DEF LinkOK
      <4>9. ASSUME NEW k \in SeqNos
            PROVE  /\ dir'[c][k] # NoFile => k < send_seq'[c] /\ dir'[c][k] \in {sent'[c][k + 1], Partial}
                   /\ view'[c][k] \in Jars => k < send_seq'[c] /\ view'[c][k] = sent'[c][k + 1]
        <5>1. /\ dir[c][k] # NoFile => k < n /\ dir[c][k] \in {sent[c][k + 1], Partial}
              /\ view[c][k] \in Jars => k < n /\ view[c][k] = sent[c][k + 1]
          BY <3>1, <3>2 DEF LinkOK
        <5>2. k < n => k < n + 1 /\ sent'[c][k + 1] = sent[c][k + 1]
          BY <2>1, <4>4, <4>6 DEF SeqNos
        <5>3. view'[c][k] = view[c][k] /\ send_seq'[c] = n + 1
          BY <2>2, <4>1
        <5>4. CASE k = n
          <6>1. dir'[c][k] = tmp[c] /\ sent'[c][k + 1] = j
            BY <4>2, <4>3, <5>4
          <6>2. dir'[c][k] \in {sent'[c][k + 1], Partial}
            <7> HIDE DEF c, j
            <7> QED BY <2>1, <6>1
          <6>3. k < n + 1 /\ view[c][k] \notin Jars
            BY <2>1, <5>1, <5>4 DEF SeqNos
          <6> QED BY <5>3, <6>2, <6>3
        <5>5. CASE k # n
          BY <4>2, <5>1, <5>2, <5>3, <5>5
        <5> QED BY <5>4, <5>5
      <4> QED BY <3>2, <4>7, <4>8, <4>9 DEF LinkOK
    <3>3. CASE d # c
      <4>1. \A k \in SeqNos : dir'[d][k] = dir[d][k]
        BY <2>3, <3>3
      <4>2. sent'[d] = sent[d] /\ send_seq'[d] = send_seq[d]
        BY <2>2, <3>3 DEF TypeOK
      <4> QED BY <2>2, <3>1, <4>1, <4>2 DEF LinkOK
    <3> QED BY <3>2, <3>3
  <2>6. OpInv'
    <3> SUFFICES ASSUME NEW q \in Parties PROVE PartyOK(q)'
      BY DEF OpInv
    <3>1. CASE q = p
      BY <2>1, <2>2, <3>1 DEF PartyOK, TypeOK, Idle
    <3>2. CASE q # p
      <4>1. op'[q] = op[q] /\ op[q] \in Ops /\ PartyOK(q)
        BY <2>2, <3>2 DEF TypeOK, OpInv
      <4>2. op[q].at \in {"open", "write", "rename"} => op[q].link \in Links /\ op[q].link # c
        BY <2>1, <3>2, <4>1, SendOp DEF PartyOK
      <4> QED BY <2>1, <2>2, <4>1, <4>2 DEF PartyOK, TypeOK
    <3> QED BY <3>1, <3>2
  <2> QED BY <2>4, <2>5, <2>6
<1>5. ASSUME NEW p \in Parties, SendFails(p) PROVE IInv'
  <2>1. TypeOK'
    BY <1>5, SendOp, OpIntro DEF SendFails, SendingAt, TypeOK, Goto, files
  <2>2. LinkInv'
    BY <1>5 DEF SendFails, LinkInv, LinkOK, files
  <2>3. OpInv'
    BY <1>5 DEF SendFails, OpInv, PartyOK, TypeOK, Goto, files
  <2> QED BY <2>1, <2>2, <2>3
<1>6. ASSUME NEW p \in Parties, NEW c \in Links, NEW b \in Bodies, BeginReceive(p, c, Size[b])
      PROVE IInv'
  <2>1. TypeOK'
    BY <1>6, JarsType, OpIntro DEF BeginReceive, TypeOK, files
  <2>2. LinkInv'
    BY <1>6 DEF BeginReceive, LinkInv, LinkOK, files
  <2>3. OpInv'
    BY <1>6 DEF BeginReceive, OpInv, PartyOK, TypeOK, SeqNos, files
  <2> QED BY <2>1, <2>2, <2>3
<1>7. ASSUME NEW p \in Parties, SeeFile(p) PROVE IInv'
  <2>1. TypeOK'
    BY <1>7, ReceiveOp, OpIntro DEF SeeFile, ReceivingAt, TypeOK, Goto, files
  <2>2. LinkInv'
    BY <1>7 DEF SeeFile, LinkInv, LinkOK, files
  <2>3. OpInv'
    BY <1>7 DEF SeeFile, ReceivingAt, OpInv, PartyOK, TypeOK, Goto, files
  <2> QED BY <2>1, <2>2, <2>3
<1>8. ASSUME NEW p \in Parties, ReadFile(p) PROVE IInv'
  <2> DEFINE c == op[p].link
  <2> DEFINE n == recv_seq[c]
  <2>1. c \in Links /\ c[2] = p /\ n \in SeqNos /\ n < MaxSeq /\ view[c][n] \in Jars
    BY <1>8, ReceiveOp DEF ReadFile, Complete, ReceivingAt, OpInv, PartyOK, TypeOK
  <2>2. /\ recv_seq' = [recv_seq EXCEPT ![c] = n + 1]
        /\ got' = [got EXCEPT ![c] = Append(@, view[c][n])]
        /\ op' = [op EXCEPT ![p] = Idle]
        /\ send_seq' = send_seq /\ tmp' = tmp /\ sent' = sent
        /\ Unlink(c, n)
    BY <1>8 DEF ReadFile, Complete
  <2>3. /\ dir' \in Dirs
        /\ view' \in Dirs
        /\ \A d \in Links, k \in SeqNos :
             /\ dir'[d][k] \in {dir[d][k], NoFile}
             /\ view'[d][k] \in {view[d][k], NoFile}
    <3>1. dir \in Dirs /\ view \in Dirs
      BY FileTypes
    <3>2. NoFile \in Files
      BY DEF Files
    <3>3. dir' \in {dir, Store(dir, c, n, NoFile)} /\ view' \in {view, Store(view, c, n, NoFile)}
      BY <2>2 DEF Unlink
    <3> QED BY <2>1, <3>1, <3>2, <3>3, StoreFile
  <2>4. TypeOK'
    <3>1. n + 1 \in SeqNos
      BY <2>1 DEF SeqNos
    <3>2. got' \in [Links -> Seq(Jars)] /\ recv_seq' \in [Links -> SeqNos]
      BY <2>1, <2>2, <3>1 DEF TypeOK
    <3>3. op' \in [Parties -> Ops]
      BY <2>2, OpIntro DEF TypeOK
    <3> QED BY <2>2, <2>3, <3>2, <3>3 DEF TypeOK, Files, Dirs
  <2>5. LinkInv'
    <3> SUFFICES ASSUME NEW d \in Links PROVE LinkOK(d)'
      BY DEF LinkInv
    <3>1. LinkOK(d)
      BY DEF LinkInv
    <3>2. /\ sent'[d] = sent[d] /\ send_seq'[d] = send_seq[d]
          /\ \A k \in SeqNos :
               /\ dir'[d][k] # NoFile => dir'[d][k] = dir[d][k]
               /\ view'[d][k] \in Jars => view'[d][k] = view[d][k]
      BY <2>2, <2>3
    <3>3. CASE d = c
      <4>1. got'[c] = Append(got[c], view[c][n]) /\ recv_seq'[c] = n + 1 /\ got[c] \in Seq(Jars)
        BY <2>1, <2>2 DEF TypeOK
      <4>2. n < send_seq[c] /\ view[c][n] = sent[c][n + 1] /\ Len(got[c]) = n
        BY <2>1, <3>1, <3>3 DEF LinkOK
      <4>3. Len(got'[c]) = n + 1 /\ got'[c][n + 1] = sent[c][n + 1]
        BY <2>1, <4>1, <4>2
      <4>4. \A i \in 1 .. n : got'[c][i] = sent[c][i]
        BY <2>1, <3>1, <3>3, <4>1, <4>2 DEF LinkOK
      <4>5. n \in Nat /\ send_seq[c] \in Nat
        BY <2>1 DEF TypeOK, SeqNos
      <4>6. n + 1 <= send_seq[c] /\ \A i \in 1 .. n + 1 : i \in 1 .. n \/ i = n + 1
        <5> HIDE DEF n
        <5> QED BY <4>2, <4>5
      <4>7. \A i \in 1 .. n + 1 : got'[c][i] = sent[c][i]
        BY <4>3, <4>4, <4>6
      <4>8. Len(sent'[c]) = send_seq'[c] /\ Len(got'[c]) = recv_seq'[c] /\ recv_seq'[c] <= send_seq'[c]
        BY <3>1, <3>2, <3>3, <4>1, <4>3, <4>6 DEF LinkOK
      <4>9. \A i \in 1 .. recv_seq'[c] : got'[c][i] = sent'[c][i]
        BY <3>2, <3>3, <4>1, <4>7
      <4>10. \A k \in SeqNos :
               /\ dir'[c][k] # NoFile => k < send_seq'[c] /\ dir'[c][k] \in {sent'[c][k + 1], Partial}
               /\ view'[c][k] \in Jars => k < send_seq'[c] /\ view'[c][k] = sent'[c][k + 1]
        BY <3>1, <3>2, <3>3 DEF LinkOK
      <4> QED BY <3>3, <4>8, <4>9, <4>10 DEF LinkOK
    <3>4. CASE d # c
      <4>1. got'[d] = got[d] /\ recv_seq'[d] = recv_seq[d]
        BY <2>2, <3>4 DEF TypeOK
      <4> QED BY <3>1, <3>2, <4>1 DEF LinkOK
    <3> QED BY <3>3, <3>4
  <2>6. OpInv'
    <3> SUFFICES ASSUME NEW q \in Parties PROVE PartyOK(q)'
      BY DEF OpInv
    <3>1. CASE q = p
      BY <2>1, <2>2, <3>1 DEF PartyOK, TypeOK, Idle
    <3>2. CASE q # p
      <4>1. op'[q] = op[q] /\ op[q] \in Ops /\ PartyOK(q)
        BY <2>2, <3>2 DEF TypeOK, OpInv
      <4>2. op[q].at \in {"wait", "read"} => op[q].link \in Links /\ op[q].link # c
        BY <2>1, <3>2, <4>1, ReceiveOp DEF PartyOK
      <4> QED BY <2>1, <2>2, <4>1, <4>2 DEF PartyOK, TypeOK
    <3> QED BY <3>1, <3>2
  <2> QED BY <2>4, <2>5, <2>6
<1>9. ASSUME NEW c \in Links, NEW n \in SeqNos, Sync(c, n) PROVE IInv'
  <2>1. PICK f \in {Partial, dir[c][n]} : view' = Store(view, c, n, f)
    BY <1>9 DEF Sync, StartSync, EndSync
  <2>2. UNCHANGED <<send_seq, recv_seq, tmp, dir, op, sent, got>>
    BY <1>9 DEF Sync, StartSync, EndSync
  <2>3. /\ view' \in Dirs
        /\ \A d \in Links, k \in SeqNos :
              view'[d][k] = IF d = c /\ k = n THEN f ELSE view[d][k]
    <3>1. view \in Dirs /\ f \in Files
      BY FileTypes DEF Files, Dirs
    <3> QED BY <2>1, <3>1, StoreFile
  <2>4. TypeOK'
    BY <2>2, <2>3 DEF TypeOK, Files, Dirs
  <2>5. LinkInv'
    <3> SUFFICES ASSUME NEW d \in Links PROVE LinkOK(d)'
      BY DEF LinkInv
    <3>1. LinkOK(d) /\ LinkOK(c)
      BY DEF LinkInv
    <3>2. ASSUME NEW k \in SeqNos, view'[d][k] \in Jars
          PROVE  k < send_seq[d] /\ view'[d][k] = sent[d][k + 1]
      <4>1. CASE d = c /\ k = n
        <5>1. view'[d][k] = dir[c][n] /\ dir[c][n] # NoFile /\ dir[c][n] # Partial
          BY <2>1, <2>3, <3>2, <4>1
        <5> QED BY <3>1, <4>1, <5>1 DEF LinkOK
      <4>2. CASE ~(d = c /\ k = n)
        BY <2>3, <3>1, <3>2, <4>2 DEF LinkOK
      <4> QED BY <4>1, <4>2
    <3> QED BY <2>2, <3>1, <3>2 DEF LinkOK
  <2>6. OpInv'
    BY <2>2 DEF OpInv, PartyOK
  <2> QED BY <2>4, <2>5, <2>6
<1>10. CASE UNCHANGED vars
  BY <1>10 DEF vars, files, TypeOK, LinkInv, LinkOK, OpInv, PartyOK
<1> QED
  BY <1>1, <1>2, <1>3, <1>4, <1>5, <1>6, <1>7, <1>8, <1>9, <1>10 DEF Next, Step, Call

\* The variables stay in their types: no counter passes its bound, no file is written
\* under a number out of range, and what receive_file returns is a whole jar.
THEOREM TypeCorrect == Spec => []TypeOK
<1>1. Spec => []IInv
  BY InitIInv, NextIInv, PTL DEF Spec
<1>2. IInv => TypeOK
  BY DEF IInv
<1> QED BY <1>1, <1>2, PTL

\* receive_file returns the jars of send_file in order, each exactly once and whole.
THEOREM InOrderDelivery == Spec => []DeliveredInOrder
<1>1. Spec => []IInv
  BY InitIInv, NextIInv, PTL DEF Spec
<1>2. IInv => DeliveredInOrder
  BY DEF IInv, TypeOK, LinkInv, LinkOK, DeliveredInOrder, SeqNos
<1> QED BY <1>1, <1>2, PTL

\* Only Rename and ReadFile touch the sender's directory; the first writes a number
\* that has no file, the second at most deletes the file it has just returned.
THEOREM NumbersUsedOnce == Spec => PublishedImmutable
<1> DEFINE Kept == \A c \in Links, n \in SeqNos :
                     \/ dir[c][n] = NoFile
                     \/ dir'[c][n] = dir[c][n]
                     \/ dir'[c][n] = NoFile /\ n < recv_seq'[c]
<1>1. IInv /\ [Next]_vars => Kept
  <2> SUFFICES ASSUME IInv, [Next]_vars PROVE Kept
    OBVIOUS
  <2>0. dir \in Dirs /\ NoFile \in Files
    BY FileTypes DEF IInv, Files
  <2>1. ASSUME NEW p \in Parties, Rename(p) PROVE Kept
    <3> DEFINE l == op[p].link
    <3>1. l \in Links /\ send_seq[l] \in SeqNos /\ tmp[l] \in Files /\ LinkOK(l)
      BY <2>1, SendOp DEF Rename, SendingAt, IInv, TypeOK, OpInv, PartyOK, LinkInv, Files
    <3>2. dir' = Store(dir, l, send_seq[l], tmp[l])
      BY <2>1 DEF Rename
    <3>3. dir[l][send_seq[l]] = NoFile
      BY <3>1 DEF LinkOK, SeqNos
    <3>4. \A c \in Links, n \in SeqNos :
            dir'[c][n] = IF c = l /\ n = send_seq[l] THEN tmp[l] ELSE dir[c][n]
      BY <2>0, <3>1, <3>2, StoreFile
    <3> QED BY <3>3, <3>4
  <2>2. ASSUME NEW p \in Parties, ReadFile(p) PROVE Kept
    <3> DEFINE l == op[p].link
    <3>1. l \in Links /\ recv_seq[l] \in SeqNos
      BY <2>2, ReceiveOp DEF ReadFile, Complete, ReceivingAt, IInv, TypeOK
    <3>2. dir' \in {dir, Store(dir, l, recv_seq[l], NoFile)}
      BY <2>2 DEF ReadFile, Complete, Unlink
    <3>3. recv_seq[l] < recv_seq'[l]
      BY <2>2, <3>1 DEF ReadFile, Complete, IInv, TypeOK, SeqNos
    <3>4. \A c \in Links, n \in SeqNos :
            dir'[c][n] = dir[c][n] \/ (dir'[c][n] = NoFile /\ c = l /\ n = recv_seq[l])
      <4>1. CASE dir' = dir
        BY <4>1
      <4>2. CASE dir' = Store(dir, l, recv_seq[l], NoFile)
        BY <2>0, <3>1, <4>2, StoreFile
      <4> QED BY <3>2, <4>1, <4>2
    <3> QED BY <3>3, <3>4
  <2>3. CASE dir' = dir
    BY <2>3
  <2> QED
    BY <2>1, <2>2, <2>3 DEF Next, Step, Call, Sync, BeginSend, OpenTmp, WriteTmp, SendFails,
       BeginReceive, SeeFile, StartSync, EndSync, files, vars
<1>2. Spec => []IInv
  BY InitIInv, NextIInv, PTL DEF Spec
<1> QED BY <1>1, <1>2, PTL DEF Spec, PublishedImmutable

\* The return of send_file is the stream's Put, that of receive_file its Get, all else
\* (temporary files, polling, copying, failures) is invisible to the layer above.
THEOREM FileTransportImplementsFifo == Spec => ImplementsFifo
<1>1. Init => F!Init
  BY DEF Init, F!Init
<1>2. IInv /\ [Next]_vars => [F!Next]_(F!vars)
  <2> SUFFICES ASSUME IInv, [Next]_vars PROVE [F!Next]_(F!vars)
    OBVIOUS
  <2>1. ASSUME NEW p \in Parties, Rename(p) PROVE F!Next
    <3> DEFINE l == op[p].link
    <3>1. l \in Links /\ op[p].arg \in Jars
      BY <2>1, SendOp DEF Rename, SendingAt, IInv, TypeOK, OpInv, PartyOK
    <3>2. F!Put(l, op[p].arg)
      BY <2>1 DEF Rename, F!Put
    <3> QED BY <3>1, <3>2 DEF F!Next
  <2>2. ASSUME NEW p \in Parties, ReadFile(p) PROVE F!Next
    <3> DEFINE l == op[p].link
    <3> DEFINE n == recv_seq[l]
    <3>1. l \in Links /\ n \in SeqNos /\ view[l][n] \in Jars
      BY <2>2, ReceiveOp DEF ReadFile, Complete, ReceivingAt, IInv, TypeOK
    <3>2. Len(got[l]) = n /\ n < Len(sent[l]) /\ view[l][n] = sent[l][n + 1]
      BY <3>1 DEF IInv, LinkInv, LinkOK
    <3>3. got' = [got EXCEPT ![l] = Append(@, view[l][n])] /\ sent' = sent
      BY <2>2 DEF ReadFile, Complete
    <3>4. F!Get(l)
      BY <3>1, <3>2, <3>3 DEF F!Get, IInv, TypeOK
    <3> QED BY <3>1, <3>4 DEF F!Next
  <2>3. CASE sent' = sent /\ got' = got
    BY <2>3 DEF F!vars
  <2> QED
    BY <2>1, <2>2, <2>3 DEF Next, Step, Call, Sync, BeginSend, OpenTmp, WriteTmp, SendFails,
       BeginReceive, SeeFile, StartSync, EndSync, files, vars
<1>3. Spec => []IInv
  BY InitIInv, NextIInv, PTL DEF Spec
<1> QED BY <1>1, <1>2, <1>3, PTL DEF Spec, ImplementsFifo, F!Spec

=============================================================================
