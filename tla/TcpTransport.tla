---------------------------- MODULE TcpTransport ----------------------------
(***************************************************************************)
(* The socket transport (network/socket.codon, connect.codon and           *)
(* common.codon) from the set-up of the channels (mpc/comms.codon) to the  *)
(* closing of the sockets.  Of each pair of parties the lower listens on a *)
(* port of the pair's own and takes whoever connects; the higher tries     *)
(* until somebody listens.  A jar then goes over the connection in as many *)
(* pieces as the kernel takes and gives.                                   *)
(* TCP is external: a connection keeps the order of its bytes and loses    *)
(* none while both ends are open.  No other program listens on the ports.  *)
(***************************************************************************)
EXTENDS Integers, Sequences, FiniteSets

CONSTANTS
  N,                   \* NUMBER_OF_PARTIES
  COMMUNICATION_PORT,
  RETRY_CONNECT,       \* attempts of a party that is not patient, see World
  Programs,            \* what the parties do with the channels
  Worlds,              \* what may go wrong, see World
  Buffer,              \* bytes a connection holds
  Lowest,              \* bound: totalsent is not counted below
  NoOne

ASSUME NAssumption == N \in Nat /\ N >= 2
ASSUME PortAssumption == COMMUNICATION_PORT \in Nat
ASSUME NoOneAssumption == NoOne \notin 0 .. N - 1

Parties == 0 .. N - 1
Links == {c \in Parties \X Parties : c[1] # c[2]}

\* busy: ports that cannot be bound (an earlier run's connections linger on them);
\* patient: the attempts to connect are enough for any delay of a peer; stops: parties
\* may be killed.
World == [busy : SUBSET Nat, patient : BOOLEAN, stops : BOOLEAN]

\* A program is, for each party, a sequence of calls of snd_jar and receive_jar.
JarCall == [do : {"send", "receive"}, peer : Parties, msg_len : Nat \ {0}]

\* How many of the first i calls send to, or receive from, party q.
Count(calls, what, q, i) == Cardinality({j \in 1 .. i : calls[j].do = what /\ calls[j].peer = q})

\* What one party sends another the other asks for, jar for jar, with its length: the
\* framing sees to it (module JarFraming).
Matching(pr) ==
  \A p, q \in Parties :
    /\ Count(pr[p], "send", q, Len(pr[p])) = Count(pr[q], "receive", p, Len(pr[q]))
    /\ \A i \in 1 .. Len(pr[p]), j \in 1 .. Len(pr[q]) :
         /\ pr[p][i].do = "send" /\ pr[p][i].peer = q
         /\ pr[q][j].do = "receive" /\ pr[q][j].peer = p
         /\ Count(pr[p], "send", q, i) = Count(pr[q], "receive", p, j)
         => pr[p][i].msg_len = pr[q][j].msg_len

ASSUME ProgramsAssumption ==
  \A pr \in Programs :
    /\ pr \in [Parties -> Seq(JarCall)]
    /\ \A p \in Parties : \A i \in 1 .. Len(pr[p]) : pr[p][i].peer # p
    /\ Matching(pr)

ASSUME WorldsAssumption == Worlds \subseteq World
ASSUME BoundAssumption == RETRY_CONNECT \in Nat \ {0} /\ Buffer \in Nat \ {0} /\ Lowest \in Int

VARIABLES
  world,      \* what may go wrong
  prog,       \* the program
  stage,      \* stage[p]: where party p is
  pid,        \* pid[p]: the peer __setup_channels is at
  tries,      \* tries[p]: the attempts to connect to it that failed
  listener,   \* listener[n]: who listens on port n
  pending,    \* pending[n]: who has connected to it and is not accepted yet
  sockets,    \* sockets[p][q]: who is at the other end of p's socket for q
  reset,      \* reset[p]: the peers whose connection has reported an error to p
  at,         \* at[p]: the call of its program p is in
  totalsent,  \* totalsent[p]: as counted by snd_jar
  buffer,     \* buffer[p]: the bytes receive_jar has so far
  wire,       \* wire[c]: the bytes on their way from c[1] to c[2]
  sent, got   \* history, by link: the jars of calls of snd_jar, and those received

setup == <<pid, tries, listener, pending, sockets>>
transfer == <<reset, at, totalsent, buffer, wire, sent, got>>
vars == <<world, prog, stage, setup, transfer>>

-----------------------------------------------------------------------------
\* The ports.

Lower(p, q) == IF p < q THEN p ELSE q
Higher(p, q) == IF p < q THEN q ELSE p

\* Mutant: the ports of the pairs of a party do not differ.
port_of_lower(p, q) ==
  COMMUNICATION_PORT + (Lower(p, q) * N - (Lower(p, q) * (Lower(p, q) + 1)) \div 2)

port(p, q) ==
  LET min_pid == Lower(p, q)
      max_pid == Higher(p, q)
      offset_major == min_pid * N - (min_pid * (min_pid + 1)) \div 2
      offset_minor == max_pid - (IF p = max_pid THEN min_pid ELSE p)
  IN COMMUNICATION_PORT + offset_major + offset_minor

Ports == {port(c[1], c[2]) : c \in Links}

-----------------------------------------------------------------------------

\* Mutants: the loop does not leave out the party itself; it begins with the party after.
AfterWithSelf(p, q) == q + 1
AfterRound(p, q) ==
  IF q = -1 THEN (p + 1) % N ELSE IF (q + 1) % N = p THEN N ELSE (q + 1) % N

\* The loop over the peers leaves out the party itself.
After(p, q) == IF q + 1 = p THEN q + 2 ELSE q + 1

Init ==
  /\ world \in Worlds
  /\ prog \in Programs
  /\ stage = [p \in Parties |-> "setup"]
  /\ pid = [p \in Parties |-> After(p, -1)]
  /\ tries = [p \in Parties |-> 0]
  /\ listener = [n \in Ports |-> NoOne]
  /\ pending = [n \in Ports |-> <<>>]
  /\ sockets = [p \in Parties |-> [q \in Parties |-> NoOne]]
  /\ reset = [p \in Parties |-> {}]
  /\ at = [p \in Parties |-> 1]
  /\ totalsent = [p \in Parties |-> 0]
  /\ buffer = [p \in Parties |-> <<>>]
  /\ wire = [c \in Links |-> <<>>]
  /\ sent = [c \in Links |-> <<>>]
  /\ got = [c \in Links |-> <<>>]

Goto(p, s) == stage' = [stage EXCEPT ![p] = s]
Gone(p) == stage[p] \in {"closed", "raised", "stopped"}
Running(p) == ~ Gone(p)

\* p's process ends: what it listens on is closed with the rest of its sockets.
Leaves(p, how) ==
  /\ Goto(p, how)
  /\ listener' = [n \in Ports |-> IF listener[n] = p THEN NoOne ELSE listener[n]]
  /\ UNCHANGED <<world, prog, pid, tries, pending, sockets, transfer>>

\* The peer is connected: on to the next one, or to the program.
Connected(p, q) ==
  /\ sockets' = [sockets EXCEPT ![p][pid[p]] = q]
  /\ pid' = [pid EXCEPT ![p] = After(p, @)]
  /\ tries' = [tries EXCEPT ![p] = 0]
  /\ Goto(p, IF After(p, pid[p]) < N THEN "setup" ELSE "run")
  /\ UNCHANGED <<world, prog, transfer>>

\* open_channel: socket, bind, listen.  Who binds a port that is taken raises.
OpenChannel(p) ==
  LET n == port(p, pid[p]) IN
  /\ stage[p] = "setup" /\ p < pid[p]
  /\ \/ /\ n \notin world.busy /\ listener[n] = NoOne
        /\ listener' = [listener EXCEPT ![n] = p]
        /\ pending' = [pending EXCEPT ![n] = <<>>]
        /\ Goto(p, "accept")
        /\ UNCHANGED <<world, prog, pid, tries, sockets, transfer>>
     \/ /\ n \in world.busy \/ listener[n] # NoOne
        /\ Leaves(p, "raised")

\* accept_socket takes the first who has connected and closes the listening socket.
AcceptSocket(p) ==
  LET n == port(p, pid[p]) IN
  /\ stage[p] = "accept"
  /\ pending[n] # <<>>
  /\ Connected(p, Head(pending[n]))
  /\ listener' = [listener EXCEPT ![n] = NoOne]
  /\ pending' = [pending EXCEPT ![n] = <<>>]

\* connect: an attempt succeeds once the peer listens, before it accepts.
Connect(p) ==
  LET n == port(p, pid[p]) IN
  /\ stage[p] = "setup" /\ p > pid[p]
  /\ listener[n] # NoOne
  /\ Connected(p, listener[n])
  /\ pending' = [pending EXCEPT ![n] = Append(@, p)]
  /\ UNCHANGED listener

\* An attempt that is refused is repeated, until they have run out.
ConnectRefused(p) ==
  /\ stage[p] = "setup" /\ p > pid[p]
  /\ listener[port(p, pid[p])] = NoOne
  /\ ~ world.patient
  /\ \/ /\ tries[p] + 1 < RETRY_CONNECT
        /\ tries' = [tries EXCEPT ![p] = @ + 1]
        /\ UNCHANGED <<world, prog, stage, pid, listener, pending, sockets, transfer>>
     \/ /\ tries[p] + 1 = RETRY_CONNECT
        /\ Leaves(p, "raised")

-----------------------------------------------------------------------------
\* The program.

Finished(p) == at[p] > Len(prog[p])
Call(p) == prog[p][at[p]]
Out(p) == <<p, Call(p).peer>>   \* the link of the call that p is in
In(p) == <<Call(p).peer, p>>
Peer(p) == sockets[p][Call(p).peer]  \* who is really there
ToPeer(p) == <<p, Peer(p)>>
FromPeer(p) == <<Peer(p), p>>

\* The n-th jar of a link: its bytes can be told apart from any other.
Jar(n, msg_len) == [i \in 1 .. msg_len |-> <<n, i>>]
Sending(p) == sent[Out(p)][Len(sent[Out(p)])]

\* snd_jar or receive_jar is called.
BeginCall(p) ==
  /\ stage[p] = "run" /\ ~ Finished(p)
  /\ IF Call(p).do = "send"
     THEN /\ sent' = [sent EXCEPT ![Out(p)] = Append(@, Jar(Len(@) + 1, Call(p).msg_len))]
          /\ totalsent' = [totalsent EXCEPT ![p] = 0]
          /\ Goto(p, "send")
          /\ UNCHANGED buffer
     ELSE /\ buffer' = [buffer EXCEPT ![p] = <<>>]
          /\ Goto(p, "recv")
          /\ UNCHANGED <<sent, totalsent>>
  /\ UNCHANGED <<world, prog, setup, reset, at, wire, got>>

\* send takes some of the bytes that are left, as many as the connection still holds.
\* A peer that is gone does not keep the kernel from taking them.
\* Mutant: each piece is sent from the start of the jar.
SendFromStart(p) ==
  /\ stage[p] = "send" /\ totalsent[p] < Call(p).msg_len
  /\ Peer(p) \notin reset[p]
  /\ \E k \in 1 .. Call(p).msg_len - totalsent[p] :
       /\ Len(wire[ToPeer(p)]) + k <= Buffer
       /\ wire' = [wire EXCEPT ![ToPeer(p)] = @ \o SubSeq(Sending(p), 1, k)]
       /\ totalsent' = [totalsent EXCEPT ![p] = @ + k]
  /\ UNCHANGED <<world, prog, stage, setup, reset, at, buffer, sent, got>>

Send(p) ==
  /\ stage[p] = "send" /\ totalsent[p] < Call(p).msg_len
  /\ Peer(p) \notin reset[p]
  /\ \E k \in 1 .. Call(p).msg_len - totalsent[p] :
       /\ Len(wire[ToPeer(p)]) + k <= Buffer
       /\ wire' = [wire EXCEPT ![ToPeer(p)] = @ \o SubSeq(Sending(p), totalsent[p] + 1, totalsent[p] + k)]
       /\ totalsent' = [totalsent EXCEPT ![p] = @ + k]
  /\ UNCHANGED <<world, prog, stage, setup, reset, at, buffer, sent, got>>

\* Bytes that a gone peer has left unread, or was sent since, break the connection.
Broken(p) == Gone(Peer(p)) /\ wire[ToPeer(p)] # <<>>

\* send returns -1 (SIGPIPE is ignored by the launcher); the loop adds it and goes on.
SendError(p) ==
  /\ stage[p] = "send" /\ totalsent[p] < Call(p).msg_len
  /\ Peer(p) \in reset[p] \/ Broken(p)
  /\ reset' = [reset EXCEPT ![p] = @ \cup {Peer(p)}]
  /\ totalsent' = [totalsent EXCEPT ![p] = IF @ > Lowest THEN @ - 1 ELSE @]
  /\ UNCHANGED <<world, prog, stage, setup, at, buffer, wire, sent, got>>

SendReturns(p) ==
  /\ stage[p] = "send" /\ totalsent[p] >= Call(p).msg_len
  /\ at' = [at EXCEPT ![p] = @ + 1]
  /\ totalsent' = [totalsent EXCEPT ![p] = 0]
  /\ Goto(p, "run")
  /\ UNCHANGED <<world, prog, setup, reset, buffer, wire, sent, got>>

\* recv gives some of the bytes that are there, as many as are still asked for.
Receive(p) ==
  /\ stage[p] = "recv" /\ Len(buffer[p]) < Call(p).msg_len
  /\ Peer(p) \notin reset[p]
  /\ \E k \in 1 .. Call(p).msg_len - Len(buffer[p]) :
       /\ k <= Len(wire[FromPeer(p)])
       /\ buffer' = [buffer EXCEPT ![p] = @ \o SubSeq(wire[FromPeer(p)], 1, k)]
       /\ wire' = [wire EXCEPT ![FromPeer(p)] = SubSeq(@, k + 1, Len(@))]
  /\ UNCHANGED <<world, prog, stage, setup, reset, at, totalsent, sent, got>>

\* Mutant: only an error is looked for, and the end of the stream is not one.
ReceiveErrorOnly(p) ==
  /\ stage[p] = "recv" /\ Len(buffer[p]) < Call(p).msg_len
  /\ Peer(p) \in reset[p] \/ Broken(p)
  /\ Leaves(p, "raised")

\* recv returns 0 at the end of what a gone peer has sent, and -1 when the connection
\* is broken: both raise.
ReceiveFails(p) ==
  /\ stage[p] = "recv" /\ Len(buffer[p]) < Call(p).msg_len
  /\ Peer(p) \in reset[p] \/ Broken(p) \/ (Gone(Peer(p)) /\ wire[FromPeer(p)] = <<>>)
  /\ Leaves(p, "raised")

ReceiveReturns(p) ==
  /\ stage[p] = "recv" /\ Len(buffer[p]) >= Call(p).msg_len
  /\ got' = [got EXCEPT ![In(p)] = Append(@, buffer[p])]
  /\ buffer' = [buffer EXCEPT ![p] = <<>>]
  /\ at' = [at EXCEPT ![p] = @ + 1]
  /\ Goto(p, "run")
  /\ UNCHANGED <<world, prog, setup, reset, totalsent, wire, sent>>

\* Mutant: the sockets are closed with the last call still to come.
CleanUpEarly(p) ==
  /\ stage[p] = "run" /\ at[p] >= Len(prog[p])
  /\ Leaves(p, "closed")

\* clean_up closes all sockets.
CleanUp(p) ==
  /\ stage[p] = "run" /\ Finished(p)
  /\ Leaves(p, "closed")

\* The process is killed.
Stop(p) ==
  /\ world.stops
  /\ Running(p)
  /\ Leaves(p, "stopped")

Step(p) ==
  \/ OpenChannel(p) \/ AcceptSocket(p) \/ Connect(p) \/ ConnectRefused(p)
  \/ BeginCall(p) \/ Send(p) \/ SendError(p) \/ SendReturns(p)
  \/ Receive(p) \/ ReceiveFails(p) \/ ReceiveReturns(p)
  \/ CleanUp(p)

Next == \E p \in Parties : Step(p) \/ Stop(p)

Spec == Init /\ [][Next]_vars

\* A party's process runs on whenever it is not blocked.
Fairness == \A p \in Parties : WF_vars(Step(p))
FairSpec == Spec /\ Fairness

-----------------------------------------------------------------------------

Stages == {"setup", "accept", "run", "send", "recv", "closed", "raised", "stopped"}
Bytes == (Nat \ {0}) \X (Nat \ {0})

\* A party is at one of its peers; a listener is the lower of a pair.
TypeOK ==
  /\ world \in Worlds /\ prog \in Programs
  /\ stage \in [Parties -> Stages]
  /\ pid \in [Parties -> 0 .. N] /\ \A p \in Parties : pid[p] # p
  /\ tries \in [Parties -> 0 .. RETRY_CONNECT - 1]
  /\ listener \in [Ports -> Parties \cup {NoOne}]
  /\ pending \in [Ports -> Seq(Parties)]
  /\ sockets \in [Parties -> [Parties -> Parties \cup {NoOne}]]
  /\ reset \in [Parties -> SUBSET Parties]
  /\ at \in [Parties -> Nat \ {0}]
  /\ totalsent \in [Parties -> Int]
  /\ buffer \in [Parties -> Seq(Bytes)]
  /\ wire \in [Links -> Seq(Bytes)]
  /\ sent \in [Links -> Seq(Seq(Bytes))]
  /\ got \in [Links -> Seq(Seq(Bytes))]

\* Nobody asks who has connected, or who has accepted: it is the ports that see to it
\* that at the other end of a socket for a party is that party.
ChannelsMatch ==
  \A p, q \in Parties : sockets[p][q] \in {q, NoOne}

\* When nothing goes wrong from outside, nothing goes wrong: no port is bound twice,
\* no set-up and no closing takes a connection away from who still needs it.
Undisturbed == world.busy = {} /\ world.patient /\ ~ world.stops
NobodyRaises == Undisturbed => \A p \in Parties : stage[p] # "raised"

\* Parties listen and connect one peer after the other, each waiting for it: they do
\* not wait in a circle, and each gets to the end of its program.
ProgramsEnd == Undisturbed => <>(\A p \in Parties : stage[p] = "closed")

\* A party that waits for the bytes of one that is gone notices: it does not wait for
\* good, whatever the other had sent.
ReceiveNotices ==
  \A p \in Parties :
    (stage[p] = "recv" /\ Gone(Peer(p))) ~> (stage[p] # "recv")

\* Each channel is an in-order, exactly-once stream of whole jars, however the kernel
\* cuts them up and whoever dies.
JarCalls == UNION {{pr[p][i] : i \in DOMAIN pr[p]} : pr \in Programs, p \in Parties}
JarNumbers == UNION {DOMAIN pr[p] : pr \in Programs, p \in Parties}
Jars == {Jar(n, call.msg_len) : n \in JarNumbers, call \in JarCalls}
F == INSTANCE Fifo WITH Items <- Jars
ImplementsFifo == F!Spec

\* "Socket connection broken" is raised by who sends on a connection that is: it does
\* not go on sending for good.
BrokenSendRaises ==
  \A p \in Parties : (stage[p] = "send" /\ Peer(p) \in reset[p]) ~> (stage[p] # "send")

=============================================================================
