---------------------------- MODULE FileTransport ----------------------------
(***************************************************************************)
(* The file transport of Sequre (network/file_transport.codon): a jar sent *)
(* from one party to another is a numbered file in the sender's directory, *)
(* written under a temporary name and renamed; the receiver polls its copy *)
(* of that directory for the next number.  The two copies are the same     *)
(* directory on one host, and two directories that SyftBox synchronises    *)
(* between hosts: the synchroniser is external and may copy the files in   *)
(* any order and expose a partly copied one.                               *)
(***************************************************************************)
EXTENDS Naturals, Sequences

CONSTANTS
  Parties,   \* party numbers, 0 is the trusted dealer
  Links,     \* the ordered pairs <<from, to>> the program uses
  Bodies,    \* the contents of jars
  Size,      \* Size[b]: the number of bytes of body b
  MaxSeq,    \* bound: file numbers go up to this one
  Quota,     \* bound: link c carries at most Quota[c] jars in a run
  NoFile,    \* no file at a path
  Partial,   \* a file that does not hold all bytes of its jar
  Nobody     \* an idle party's operation

ASSUME LinksAssumption == Links \subseteq Parties \X Parties
ASSUME SizeAssumption == Size \in [Bodies -> Nat]
ASSUME BoundAssumption == MaxSeq \in Nat /\ Quota \in [Links -> 0 .. MaxSeq]
ASSUME MarkerAssumption == NoFile # Partial

\* The file format: an 8-byte length, then that many bytes.
Jar(b) == [len |-> Size[b], body |-> b]
Jars == {Jar(b) : b \in Bodies}

ASSUME FileAssumption == NoFile \notin Jars /\ Partial \notin Jars

SeqNos == 0 .. MaxSeq

VARIABLES
  send_seq,  \* send_seq[c]: number of the next jar the sender of c publishes
  recv_seq,  \* recv_seq[c]: number of the next jar the receiver of c reads
  tmp,       \* tmp[c]: the .tmp file of the sender of c
  dir,       \* dir[c][n]: file n of link c in the sender's own directory
  view,      \* view[c][n]: the copy of that file the receiver sees
  op,        \* op[p]: what party p is in the middle of
  sent,      \* sent[c]: history, the jars send_file has returned for on c
  got        \* got[c]: history, the jars receive_file returned on c

files == <<tmp, dir, view>>
vars == <<send_seq, recv_seq, files, op, sent, got>>

Idle == [at |-> "idle", link |-> Nobody, arg |-> Nobody]

Ops ==
  {Idle}
    \cup [at : {"open", "write", "rename"}, link : Links, arg : Jars]
    \cup [at : {"wait", "read"}, link : Links, arg : Nat]
    \cup [at : {"failed"}, link : Links, arg : Jars]

-----------------------------------------------------------------------------

\* register_channel in a fresh directory: both counters start at 0.
Init ==
  /\ send_seq = [c \in Links |-> 0]
  /\ recv_seq = [c \in Links |-> 0]
  /\ tmp = [c \in Links |-> NoFile]
  /\ dir = [c \in Links |-> [n \in SeqNos |-> NoFile]]
  /\ view = [c \in Links |-> [n \in SeqNos |-> NoFile]]
  /\ op = [p \in Parties |-> Idle]
  /\ sent = [c \in Links |-> <<>>]
  /\ got = [c \in Links |-> <<>>]

\* Party p is at step s of a send (its link's source) or a receive (its sink).
SendingAt(p, s) == op[p].at = s /\ op[p].link[1] = p
ReceivingAt(p, s) == op[p].at = s /\ op[p].link[2] = p

\* Mutant: the name of a file lacks its number.
StoreUnnumbered(d, c, n, f) == [d EXCEPT ![c][0] = f]

\* Directory d with f as file n of link c.
Store(d, c, n, f) == [d EXCEPT ![c][n] = f]

Goto(p, s) == op' = [op EXCEPT ![p] = [at |-> s, link |-> op[p].link, arg |-> op[p].arg]]

\* send_file is called: read the counter, name the file.
BeginSend(p, c, b) ==
  /\ op[p] = Idle
  /\ c[1] = p
  /\ send_seq[c] < Quota[c]
  /\ op' = [op EXCEPT ![p] = [at |-> "open", link |-> c, arg |-> Jar(b)]]
  /\ UNCHANGED <<send_seq, recv_seq, files, sent, got>>

\* open(tmp_path, "wb") creates or truncates the temporary file.
OpenTmp(p) ==
  /\ SendingAt(p, "open")
  /\ tmp' = [tmp EXCEPT ![op[p].link] = Partial]
  /\ Goto(p, "write")
  /\ UNCHANGED <<send_seq, recv_seq, dir, view, sent, got>>

\* Both fwrites, the flush and the close.  Nobody looks at their results: after an
\* error (a full disk) the file is short, and the send goes on all the same.
WriteTmp(p) ==
  /\ SendingAt(p, "write")
  /\ \E f \in {op[p].arg, Partial} : tmp' = [tmp EXCEPT ![op[p].link] = f]
  /\ Goto(p, "rename")
  /\ UNCHANGED <<send_seq, recv_seq, dir, view, sent, got>>

\* rename publishes the file under its number, as it is; then the counter advances
\* and send_file returns: to its caller the jar is sent.
Rename(p) ==
  LET c == op[p].link IN
  /\ SendingAt(p, "rename")
  /\ dir' = Store(dir, c, send_seq[c], tmp[c])
  /\ tmp' = [tmp EXCEPT ![c] = NoFile]
  /\ send_seq' = [send_seq EXCEPT ![c] = @ + 1]
  /\ sent' = [sent EXCEPT ![c] = Append(@, op[p].arg)]
  /\ op' = [op EXCEPT ![p] = Idle]
  /\ UNCHANGED <<recv_seq, view, got>>

\* open or rename fails: the exception ends the party's program.
SendFails(p) ==
  /\ SendingAt(p, "open") \/ SendingAt(p, "rename")
  /\ Goto(p, "failed")
  /\ UNCHANGED <<send_seq, recv_seq, files, sent, got>>

\* receive_file(sock_fd, msg_len) is called.
BeginReceive(p, c, msg_len) ==
  /\ op[p] = Idle
  /\ c[2] = p
  /\ recv_seq[c] < Quota[c]
  /\ op' = [op EXCEPT ![p] = [at |-> "wait", link |-> c, arg |-> msg_len]]
  /\ UNCHANGED <<send_seq, recv_seq, files, sent, got>>

\* Mutant: wait for the file a limited time only.
SeeFileOrGiveUp(p) ==
  LET c == op[p].link IN
  /\ ReceivingAt(p, "wait")
  /\ Goto(p, IF view[c][recv_seq[c]] # NoFile THEN "read" ELSE "failed")
  /\ UNCHANGED <<send_seq, recv_seq, files, sent, got>>

\* _wait_for_file: access() finds a file, whole or not.
SeeFile(p) ==
  LET c == op[p].link IN
  /\ ReceivingAt(p, "wait")
  /\ view[c][recv_seq[c]] # NoFile
  /\ Goto(p, "read")
  /\ UNCHANGED <<send_seq, recv_seq, files, sent, got>>

\* unlink(msg_path) unless FILE_TRANSPORT_KEEP.  The call hands a Codon string to
\* a C function that takes a char pointer, and ignores the result: whether the
\* file goes is up to the ABI.  It may stay; go from the receiver's copy only;
\* or go from both, which are one directory or kept alike by the synchroniser.
Unlink(c, n) ==
  \/ UNCHANGED <<dir, view>>
  \/ view' = Store(view, c, n, NoFile) /\ UNCHANGED dir
  \/ view' = Store(view, c, n, NoFile) /\ dir' = Store(dir, c, n, NoFile)

\* Mutant: whatever there is of the file is returned.
CompleteIfPresent(f, msg_len) == f # NoFile

\* The file announces the length the receiver expects, and has that many bytes.
Complete(f, msg_len) == f \in Jars /\ f.len = msg_len

\* A complete file is returned; the counter advances.  Any other file raises
\* IOError, which the loop catches and tries again: no step.
ReadFile(p) ==
  LET c == op[p].link
      n == recv_seq[c]
  IN
  /\ ReceivingAt(p, "read")
  /\ Complete(view[c][n], op[p].arg)
  /\ Unlink(c, n)
  /\ recv_seq' = [recv_seq EXCEPT ![c] = n + 1]
  /\ got' = [got EXCEPT ![c] = Append(@, view[c][n])]
  /\ op' = [op EXCEPT ![p] = Idle]
  /\ UNCHANGED <<send_seq, tmp, sent>>

\* External: the synchroniser starts to copy a file the receiver's side lacks or
\* holds in another version, an already consumed and deleted one included ...
StartSync(c, n) ==
  /\ view[c][n] \notin {Partial, dir[c][n]}
  /\ view' = Store(view, c, n, Partial)
  /\ UNCHANGED <<send_seq, recv_seq, tmp, dir, op, sent, got>>

\* ... and completes the copy.
EndSync(c, n) ==
  /\ view[c][n] = Partial
  /\ view' = Store(view, c, n, dir[c][n])
  /\ UNCHANGED <<send_seq, recv_seq, tmp, dir, op, sent, got>>

Step(p) ==
  \/ OpenTmp(p)
  \/ WriteTmp(p)
  \/ Rename(p)
  \/ SeeFile(p)
  \/ ReadFile(p)

Call(p, c) ==
  \/ \E b \in Bodies : BeginSend(p, c, b)
  \/ \E b \in Bodies : BeginReceive(p, c, Size[b])

Sync(c, n) == StartSync(c, n) \/ EndSync(c, n)

Next ==
  \/ \E p \in Parties : Step(p) \/ SendFails(p) \/ \E c \in Links : Call(p, c)
  \/ \E c \in Links, n \in SeqNos : Sync(c, n)

Spec == Init /\ [][Next]_vars

\* A party that runs keeps running, and its polling loop retries without end;
\* the synchroniser eventually copies every file.  A program need not make calls.
Fairness ==
  /\ \A p \in Parties : WF_vars(Step(p))
  /\ \A c \in Links, n \in SeqNos : WF_vars(Sync(c, n))

FairSpec == Spec /\ Fairness

-----------------------------------------------------------------------------

\* Counters stay in bounds, and what receive_file returns is a whole jar, although a
\* published file and its copy may be short.
TypeOK ==
  /\ send_seq \in [Links -> SeqNos]
  /\ recv_seq \in [Links -> SeqNos]
  /\ tmp \in [Links -> Jars \cup {NoFile, Partial}]
  /\ dir \in [Links -> [SeqNos -> Jars \cup {NoFile, Partial}]]
  /\ view \in [Links -> [SeqNos -> Jars \cup {NoFile, Partial}]]
  /\ op \in [Parties -> Ops]
  /\ sent \in [Links -> Seq(Jars)]
  /\ got \in [Links -> Seq(Jars)]

\* What the receiver has taken from a link is, jar for jar, what send_file was given:
\* none is skipped, repeated, out of order or torn, whatever order the files are
\* copied in, whether or not a consumed file is deleted or comes back, and although
\* a write may have failed unseen.
DeliveredInOrder ==
  \A c \in Links :
    /\ Len(got[c]) <= Len(sent[c])
    /\ \A i \in 1 .. Len(got[c]) : got[c][i] = sent[c][i]

\* Why it holds, as an inductive invariant.  The counters are the lengths of the
\* histories, and every file, original or copy, is the jar its number says or short.
LinkOK(c) ==
  /\ Len(sent[c]) = send_seq[c]
  /\ Len(got[c]) = recv_seq[c]
  /\ recv_seq[c] <= send_seq[c]
  /\ \A i \in 1 .. recv_seq[c] : got[c][i] = sent[c][i]
  /\ \A n \in SeqNos :
       /\ dir[c][n] # NoFile => n < send_seq[c] /\ dir[c][n] \in {sent[c][n + 1], Partial}
       /\ view[c][n] \in Jars => n < send_seq[c] /\ view[c][n] = sent[c][n + 1]

LinkInv == \A c \in Links : LinkOK(c)

\* A party sends on its own links and receives on its own, one call at a time;
\* what it is about to rename is its jar or short; its counter is in bounds.
PartyOK(p) ==
  /\ op[p].at \in {"open", "write", "rename"} =>
       op[p].link[1] = p /\ send_seq[op[p].link] < MaxSeq
  /\ op[p].at = "rename" => tmp[op[p].link] \in {op[p].arg, Partial}
  /\ op[p].at \in {"wait", "read"} =>
       op[p].link[2] = p /\ recv_seq[op[p].link] < MaxSeq

OpInv == \A p \in Parties : PartyOK(p)

IInv == TypeOK /\ LinkInv /\ OpInv

\* A published file is never replaced by another, and disappears only once it has
\* been received: a slow synchroniser can copy it late and still copies the same file.
PublishedImmutable ==
  [][\A c \in Links, n \in SeqNos :
       \/ dir[c][n] = NoFile
       \/ dir'[c][n] = dir[c][n]
       \/ dir'[c][n] = NoFile /\ n < recv_seq'[c]]_vars

\* A receiver that waits for the length of a file that was published whole gets it,
\* although a partly copied file can send the loop back any number of times.
ReceiveCompletes ==
  \A p \in Parties, c \in Links, n \in SeqNos :
    (/\ ReceivingAt(p, "wait") /\ op[p].link = c
     /\ recv_seq[c] = n
     /\ Complete(dir[c][n], op[p].arg)) ~> recv_seq[c] > n

\* The transport implements the in-order exactly-once stream of jars: one is put by
\* the return of send_file.  A stream does not promise that what is put is got.
F == INSTANCE Fifo WITH Items <- Jars
ImplementsFifo == F!Spec

=============================================================================
