------------------------- MODULE TcpTransportProofs -------------------------
(***************************************************************************)
(* Theorems about TcpTransport, for any number of parties, ports,          *)
(* programs, and whatever goes wrong.                                      *)
(***************************************************************************)
EXTENDS TcpTransport, TLAPS, FiniteSetTheorems

-----------------------------------------------------------------------------
\* The ports of two pairs differ.

\* Of a number and the next, one is even.
LEMMA ProductEven ==
  ASSUME NEW a \in Nat
  PROVE  2 * ((a * (a + 1)) \div 2) = a * (a + 1)
<1>1. PICK k \in Nat : a = 2 * k \/ a = 2 * k + 1
  <2>1. a \div 2 \in Nat /\ (a = 2 * (a \div 2) \/ a = 2 * (a \div 2) + 1)
    BY SMT
  <2>2. QED BY <2>1
<1>2. \E t \in Nat : a * (a + 1) = 2 * t
  <2>1. CASE a = 2 * k
    <3>1. k * (2 * k + 1) \in Nat
      BY SMT
    <3>2. a * (a + 1) = 2 * (k * (2 * k + 1))
      BY <2>1, SMT
    <3>3. QED BY <3>1, <3>2
  <2>2. CASE a = 2 * k + 1
    <3>1. (2 * k + 1) * (k + 1) \in Nat
      BY SMT
    <3>2. a * (a + 1) = 2 * ((2 * k + 1) * (k + 1))
      BY <2>2, SMT
    <3>3. QED BY <3>1, <3>2
  <2>3. QED BY <1>1, <2>1, <2>2
<1>3. PICK t \in Nat : a * (a + 1) = 2 * t
  BY <1>2
<1>4. (2 * t) \div 2 = t
  BY SMT
<1>5. QED BY <1>3, <1>4

\* The port of a pair does not depend on who of the two asks.
LEMMA PortSymmetric ==
  ASSUME NEW p \in Parties, NEW q \in Parties, p # q
  PROVE  port(p, q) = port(q, p)
BY NAssumption DEF port, Lower, Higher, Parties

\* Twice the distance of a pair's port from the first one.
LEMMA PortTwice ==
  ASSUME NEW i \in Parties, NEW j \in Parties, i < j
  PROVE  /\ port(i, j) \in Int
         /\ 2 * (port(i, j) - COMMUNICATION_PORT) = 2 * (i * N) - i * (i + 1) + 2 * (j - i)
<1>1. i \in Nat /\ j \in Nat /\ N \in Nat /\ COMMUNICATION_PORT \in Nat
  BY NAssumption, PortAssumption DEF Parties
<1> DEFINE half == (i * (i + 1)) \div 2
<1>2. half \in Int /\ i * N \in Int /\ i * (i + 1) \in Int
  BY <1>1, SMT
<1>3. 2 * half = i * (i + 1)
  BY <1>1, ProductEven
<1>4. port(i, j) = COMMUNICATION_PORT + (i * N - half) + (j - i)
  BY <1>1 DEF port, Lower, Higher
<1> HIDE DEF half
<1>5. QED BY <1>1, <1>2, <1>3, <1>4, SMT

\* The pairs with a lower lower party have lower ports.
LEMMA PortsOrdered ==
  ASSUME NEW i \in Parties, NEW j \in Parties, NEW a \in Parties, NEW b \in Parties,
         i < j, a < b, i < a
  PROVE  port(i, j) < port(a, b)
<1>1. i \in Nat /\ j \in Nat /\ a \in Nat /\ b \in Nat /\ N \in Nat /\ j < N /\ b < N
  BY NAssumption DEF Parties
<1> DEFINE d == a - i
           m == N - i
<1>2. d \in Nat /\ m \in Nat /\ d >= 1 /\ m >= d + 2
  BY <1>1
<1>3. (d - 1) * (2 * m - d - 2) >= 0
  <2>1. d - 1 \in Nat /\ 2 * m - d - 2 \in Nat
    BY <1>2
  <2>2. \A x, y \in Nat : x * y >= 0
    BY SMT
  <2>3. QED BY <2>1, <2>2
<1>4. (2 * (a * N) - a * (a + 1) + 2 * (b - a)) - (2 * (i * N) - i * (i + 1) + 2 * (j - i))
        = (d - 1) * (2 * m - d - 2) + 2 * (b - a) + 2 * (N - 1 - j)
  BY <1>1, SMTT(30)
<1>5. 2 * (b - a) + 2 * (N - 1 - j) >= 2
  BY <1>1
<1>6. 2 * (a * N) - a * (a + 1) + 2 * (b - a) > 2 * (i * N) - i * (i + 1) + 2 * (j - i)
  <2> DEFINE u == 2 * (a * N) - a * (a + 1) + 2 * (b - a)
             v == 2 * (i * N) - i * (i + 1) + 2 * (j - i)
             w == (d - 1) * (2 * m - d - 2)
             z == 2 * (b - a) + 2 * (N - 1 - j)
  <2>1. u \in Int /\ v \in Int /\ w \in Int /\ z \in Int
    BY <1>1, <1>2, SMT
  <2>2. u - v = w + z
    BY <1>1, <1>2, <1>4, SMT
  <2>3. w >= 0 /\ z >= 2
    BY <1>3, <1>5
  <2> HIDE DEF u, v, w, z
  <2>4. u > v
    BY <2>1, <2>2, <2>3
  <2>5. QED BY <2>4 DEF u, v
<1>7. QED
  <2> DEFINE u == 2 * (a * N) - a * (a + 1) + 2 * (b - a)
             v == 2 * (i * N) - i * (i + 1) + 2 * (j - i)
  <2>1. u \in Int /\ v \in Int
    BY <1>1, SMT
  <2>2. port(i, j) \in Int /\ 2 * (port(i, j) - COMMUNICATION_PORT) = v
    BY PortTwice
  <2>3. port(a, b) \in Int /\ 2 * (port(a, b) - COMMUNICATION_PORT) = u
    BY PortTwice
  <2>4. u > v
    BY <1>6
  <2> HIDE DEF u, v
  <2>5. QED BY <2>1, <2>2, <2>3, <2>4, PortAssumption

\* A port belongs to one pair.
LEMMA PortsDistinct ==
  ASSUME NEW i \in Parties, NEW j \in Parties, NEW a \in Parties, NEW b \in Parties,
         i < j, a < b, port(i, j) = port(a, b)
  PROVE  i = a /\ j = b
<1>1. i \in Nat /\ j \in Nat /\ a \in Nat /\ b \in Nat
  BY NAssumption DEF Parties
<1>2. port(i, j) \in Int /\ port(a, b) \in Int
  BY PortTwice
<1>3. ~ (i < a)
  <2>1. SUFFICES ASSUME i < a PROVE FALSE
    OBVIOUS
  <2>2. port(i, j) < port(a, b)
    BY <2>1, PortsOrdered
  <2>3. QED BY <1>2, <2>2
<1>4. ~ (a < i)
  <2>1. SUFFICES ASSUME a < i PROVE FALSE
    OBVIOUS
  <2>2. port(a, b) < port(i, j)
    BY <2>1, PortsOrdered
  <2>3. QED BY <1>2, <2>2
<1>5. i = a
  BY <1>1, <1>3, <1>4
<1>6. 2 * (i * N) - i * (i + 1) + 2 * (j - i) = 2 * (i * N) - i * (i + 1) + 2 * (b - i)
  BY <1>5, PortTwice
<1>7. j = b
  <2> DEFINE u == 2 * (i * N) - i * (i + 1)
  <2>1. u \in Int
    BY <1>1, NAssumption, SMT
  <2>2. u + 2 * (j - i) = u + 2 * (b - i)
    BY <1>6
  <2> HIDE DEF u
  <2>3. QED BY <1>1, <2>1, <2>2
<1>8. QED BY <1>5, <1>7
-----------------------------------------------------------------------------
\* The set-up.

SetupType ==
  /\ stage \in [Parties -> Stages]
  /\ pid \in [Parties -> 0 .. N] /\ \A p \in Parties : pid[p] # p
  /\ listener \in [Ports -> Parties \cup {NoOne}]
  /\ pending \in [Ports -> Seq(Parties)]
  /\ sockets \in [Parties -> [Parties -> Parties \cup {NoOne}]]

\* A party in the set-up is at one of its peers, and listens for higher ones only.
AtAPeer ==
  \A p \in Parties : /\ stage[p] \in {"setup", "accept"} => pid[p] \in Parties
                     /\ stage[p] = "accept" => p < pid[p]

\* Who listens on a port waits for the peer it is at, and the port is theirs.
ListenersWait ==
  \A n \in Ports : listener[n] # NoOne =>
    /\ stage[listener[n]] = "accept"
    /\ n = port(listener[n], pid[listener[n]])

\* Who has connected to a port is the higher of the pair that it belongs to.
PendingRight ==
  \A n \in Ports : \A k \in 1 .. Len(pending[n]) :
    \E i \in Parties : i < pending[n][k] /\ n = port(i, pending[n][k])

\* ChannelsMatch is not inductive: what a socket is for is known when the connection
\* is made, from who listens and who waits where.
SetupInv == SetupType /\ AtAPeer /\ ListenersWait /\ PendingRight /\ ChannelsMatch

LEMMA PortOfPeer ==
  ASSUME NEW p \in Parties, NEW q \in Parties, p # q
  PROVE  port(p, q) \in Ports
<1>1. <<p, q>> \in Links
  BY DEF Links
<1>2. <<p, q>>[1] = p /\ <<p, q>>[2] = q
  OBVIOUS
<1>3. QED BY <1>1, <1>2 DEF Ports

LEMMA AfterType ==
  ASSUME NEW p \in Parties, NEW q \in Parties, q # p
  PROVE  /\ After(p, q) \in 0 .. N
         /\ After(p, q) # p
<1>1. N \in Nat /\ p \in 0 .. N - 1 /\ q \in 0 .. N - 1
  BY NAssumption DEF Parties
<1>2. q + 1 = p => q + 2 \in 0 .. N /\ q + 2 # p
  BY <1>1
<1>3. q + 1 # p => q + 1 \in 0 .. N /\ q + 1 # p
  BY <1>1
<1>4. QED BY <1>2, <1>3 DEF After

LEMMA SetupInit == Init => SetupInv
<1>1. SUFFICES ASSUME Init PROVE SetupInv
  OBVIOUS
<1>2. \A p \in Parties : After(p, -1) \in 0 .. N - 1 /\ After(p, -1) # p
  BY NAssumption DEF After, Parties
<1>3. SetupType
  BY <1>1, <1>2, NAssumption DEF Init, SetupType, Stages, Parties
<1>4. AtAPeer
  BY <1>1, <1>2 DEF Init, AtAPeer, Parties
<1>5. ListenersWait
  BY <1>1 DEF Init, ListenersWait
<1>6. PendingRight
  BY <1>1 DEF Init, PendingRight
<1>7. ChannelsMatch
  BY <1>1 DEF Init, ChannelsMatch
<1>8. QED BY <1>3, <1>4, <1>5, <1>6, <1>7 DEF SetupInv

\* A party whose process ends takes its listening socket with it.
LEMMA LeavesSetup ==
  ASSUME SetupInv, NEW p \in Parties, NEW how \in {"closed", "raised", "stopped"},
         Leaves(p, how)
  PROVE  SetupInv'
<1>1. /\ stage' = [stage EXCEPT ![p] = how]
      /\ listener' = [n \in Ports |-> IF listener[n] = p THEN NoOne ELSE listener[n]]
      /\ UNCHANGED <<pid, pending, sockets>>
  BY DEF Leaves, Goto
<1>2. SetupType'
  BY <1>1 DEF SetupInv, SetupType, Stages
<1>3. AtAPeer'
  BY <1>1 DEF SetupInv, SetupType, AtAPeer
<1>4. ListenersWait'
  BY <1>1 DEF SetupInv, SetupType, ListenersWait
<1>5. PendingRight' /\ ChannelsMatch'
  BY <1>1 DEF SetupInv, PendingRight, ChannelsMatch
<1>6. QED BY <1>2, <1>3, <1>4, <1>5 DEF SetupInv

\* A step of the program does not touch the set-up.
LEMMA ProgramSetup ==
  ASSUME SetupInv, NEW p \in Parties, NEW s \in {"run", "send", "recv"},
         stage[p] \notin {"setup", "accept"}, stage' = [stage EXCEPT ![p] = s],
         UNCHANGED setup
  PROVE  SetupInv'
<1>1. UNCHANGED <<pid, listener, pending, sockets>>
  BY DEF setup
<1>2. SetupType'
  BY <1>1 DEF SetupInv, SetupType, Stages
<1>3. AtAPeer'
  BY <1>1 DEF SetupInv, SetupType, AtAPeer
<1>4. ListenersWait'
  BY <1>1 DEF SetupInv, SetupType, ListenersWait
<1>5. PendingRight' /\ ChannelsMatch'
  BY <1>1 DEF SetupInv, PendingRight, ChannelsMatch
<1>6. QED BY <1>2, <1>3, <1>4, <1>5 DEF SetupInv

LEMMA OpenChannelSetup ==
  ASSUME SetupInv, NEW p \in Parties, OpenChannel(p)
  PROVE  SetupInv'
<1> DEFINE n == port(p, pid[p])
<1>1. stage[p] = "setup" /\ p < pid[p]
  BY DEF OpenChannel
<1>2. pid[p] \in Parties /\ n \in Ports
  BY <1>1, PortOfPeer DEF SetupInv, SetupType, AtAPeer
<1>3. CASE Leaves(p, "raised")
  BY <1>3, LeavesSetup
<1>4. CASE /\ listener[n] = NoOne
           /\ listener' = [listener EXCEPT ![n] = p]
           /\ pending' = [pending EXCEPT ![n] = <<>>]
           /\ stage' = [stage EXCEPT ![p] = "accept"]
           /\ UNCHANGED <<pid, sockets>>
  <2> HIDE DEF n
  <2>1. SetupType'
    BY <1>2, <1>4 DEF SetupInv, SetupType, Stages
  <2>2. AtAPeer'
    BY <1>1, <1>2, <1>4 DEF SetupInv, SetupType, AtAPeer
  <2>3. ListenersWait'
    <3>1. SUFFICES ASSUME NEW m \in Ports, listener'[m] # NoOne
                   PROVE  /\ stage'[listener'[m]] = "accept"
                          /\ m = port(listener'[m], pid[listener'[m]])
      BY <1>4 DEF ListenersWait
    <3>2. CASE m = n
      BY <1>2, <1>4, <3>2 DEF SetupInv, SetupType, n
    <3>3. CASE m # n
      BY <1>2, <1>4, <3>1, <3>3 DEF SetupInv, SetupType, ListenersWait
    <3>4. QED BY <3>2, <3>3
  <2>4. PendingRight'
    <3>1. SUFFICES ASSUME NEW m \in Ports, NEW k \in 1 .. Len(pending'[m])
                   PROVE  \E i \in Parties : i < pending'[m][k] /\ m = port(i, pending'[m][k])
      BY DEF PendingRight
    <3>2. m # n
      BY <1>2, <1>4, <3>1 DEF SetupInv, SetupType
    <3>3. pending'[m] = pending[m]
      BY <1>4, <3>2 DEF SetupInv, SetupType
    <3>4. QED BY <3>1, <3>3 DEF SetupInv, PendingRight
  <2>5. ChannelsMatch'
    BY <1>4 DEF SetupInv, ChannelsMatch
  <2>6. QED BY <2>1, <2>2, <2>3, <2>4, <2>5 DEF SetupInv
<1>5. QED BY <1>3, <1>4 DEF OpenChannel, Goto

\* A connection between p and its present peer ends the set-up of this pair for p.
LEMMA ConnectedSetup ==
  ASSUME SetupInv, NEW p \in Parties, stage[p] \in {"setup", "accept"}, Connected(p, pid[p])
  PROVE  /\ SetupType' <=> /\ listener' \in [Ports -> Parties \cup {NoOne}]
                           /\ pending' \in [Ports -> Seq(Parties)]
         /\ AtAPeer'
         /\ ChannelsMatch'
<1>1. /\ sockets' = [sockets EXCEPT ![p][pid[p]] = pid[p]]
      /\ pid' = [pid EXCEPT ![p] = After(p, pid[p])]
      /\ stage' = [stage EXCEPT ![p] = IF After(p, pid[p]) < N THEN "setup" ELSE "run"]
  BY DEF Connected, Goto, SetupInv, SetupType
<1>2. pid[p] \in Parties /\ pid[p] # p
  BY DEF SetupInv, SetupType, AtAPeer
<1>3. After(p, pid[p]) \in 0 .. N /\ After(p, pid[p]) # p
  BY <1>2, AfterType
<1>4. stage' \in [Parties -> Stages] /\ pid' \in [Parties -> 0 .. N] /\ \A q \in Parties : pid'[q] # q
  BY <1>1, <1>3 DEF SetupInv, SetupType, Stages
<1>5. sockets' \in [Parties -> [Parties -> Parties \cup {NoOne}]]
  BY <1>1, <1>2 DEF SetupInv, SetupType
<1>6. AtAPeer'
  BY <1>1, <1>3, NAssumption DEF SetupInv, SetupType, AtAPeer, Parties
<1>7. ChannelsMatch'
  BY <1>1, <1>2 DEF SetupInv, SetupType, ChannelsMatch
<1>8. QED BY <1>4, <1>5, <1>6, <1>7 DEF SetupType

LEMMA AcceptSocketSetup ==
  ASSUME SetupInv, NEW p \in Parties, AcceptSocket(p)
  PROVE  SetupInv'
<1> DEFINE n == port(p, pid[p])
<1>1. /\ stage[p] = "accept"
      /\ pending[n] # <<>>
      /\ Connected(p, Head(pending[n]))
      /\ listener' = [listener EXCEPT ![n] = NoOne]
      /\ pending' = [pending EXCEPT ![n] = <<>>]
  BY DEF AcceptSocket
<1>2. pid[p] \in Parties /\ p < pid[p] /\ n \in Ports
  BY <1>1, PortOfPeer DEF SetupInv, SetupType, AtAPeer
<1>3. Head(pending[n]) = pid[p]
  <2>1. pending[n] \in Seq(Parties)
    BY <1>2 DEF SetupInv, SetupType
  <2>2. 1 \in 1 .. Len(pending[n]) /\ Head(pending[n]) = pending[n][1] /\ pending[n][1] \in Parties
    BY <1>1, <2>1
  <2>3. PICK i \in Parties : i < pending[n][1] /\ n = port(i, pending[n][1])
    BY <1>2, <2>2 DEF SetupInv, PendingRight
  <2>4. QED BY <1>2, <2>2, <2>3, PortsDistinct
<1>4. /\ sockets' = [sockets EXCEPT ![p][pid[p]] = pid[p]]
      /\ pid' = [pid EXCEPT ![p] = After(p, pid[p])]
      /\ stage' = [stage EXCEPT ![p] = IF After(p, pid[p]) < N THEN "setup" ELSE "run"]
  BY <1>1, <1>3 DEF Connected, Goto
<1>5. Connected(p, pid[p])
  BY <1>1, <1>3
<1> HIDE DEF n
<1>6. listener' \in [Ports -> Parties \cup {NoOne}] /\ pending' \in [Ports -> Seq(Parties)]
  <2>1. listener \in [Ports -> Parties \cup {NoOne}] /\ pending \in [Ports -> Seq(Parties)]
    BY DEF SetupInv, SetupType
  <2>2. <<>> \in Seq(Parties)
    OBVIOUS
  <2>3. QED BY <1>1, <2>1, <2>2
<1>7. SetupType' /\ AtAPeer' /\ ChannelsMatch'
  BY <1>1, <1>5, <1>6, ConnectedSetup
<1>8. ListenersWait'
  <2>1. SUFFICES ASSUME NEW m \in Ports, listener'[m] # NoOne
                 PROVE  /\ stage'[listener'[m]] = "accept"
                        /\ m = port(listener'[m], pid'[listener'[m]])
    BY DEF ListenersWait
  <2>2. m # n /\ listener'[m] = listener[m] /\ listener[m] \in Parties
    BY <1>1, <1>2, <2>1 DEF SetupInv, SetupType
  <2>3. stage[listener[m]] = "accept" /\ m = port(listener[m], pid[listener[m]])
    BY <2>1, <2>2 DEF SetupInv, ListenersWait
  <2>4. listener[m] # p
    BY <2>2, <2>3 DEF n
  <2>5. QED BY <1>4, <2>2, <2>3, <2>4 DEF SetupInv, SetupType
<1>9. PendingRight'
  <2>1. SUFFICES ASSUME NEW m \in Ports, NEW k \in 1 .. Len(pending'[m])
                 PROVE  \E i \in Parties : i < pending'[m][k] /\ m = port(i, pending'[m][k])
    BY DEF PendingRight
  <2>2. m # n
    BY <1>1, <1>2, <2>1 DEF SetupInv, SetupType
  <2>3. pending'[m] = pending[m]
    BY <1>1, <2>2 DEF SetupInv, SetupType
  <2>4. QED BY <2>1, <2>3 DEF SetupInv, PendingRight
<1>10. QED BY <1>7, <1>8, <1>9 DEF SetupInv

LEMMA ConnectSetup ==
  ASSUME SetupInv, NEW p \in Parties, Connect(p)
  PROVE  SetupInv'
<1> DEFINE n == port(p, pid[p])
           i == listener[n]
<1>1. /\ stage[p] = "setup" /\ p > pid[p]
      /\ i # NoOne
      /\ Connected(p, i)
      /\ pending' = [pending EXCEPT ![n] = Append(@, p)]
      /\ UNCHANGED listener
  BY DEF Connect
<1>2. pid[p] \in Parties /\ pid[p] < p /\ n \in Ports
  BY <1>1, PortOfPeer, NAssumption DEF SetupInv, SetupType, AtAPeer, Parties
<1>3. i \in Parties /\ stage[i] = "accept" /\ n = port(i, pid[i])
  BY <1>1, <1>2 DEF SetupInv, SetupType, ListenersWait
<1>4. i < pid[i] /\ pid[i] \in Parties
  BY <1>3 DEF SetupInv, AtAPeer
<1>5. i = pid[p] /\ pid[i] = p
  <2>1. n = port(pid[p], p)
    BY <1>2, PortSymmetric, NAssumption DEF Parties
  <2>2. QED BY <1>2, <1>3, <1>4, <2>1, PortsDistinct
<1>6. /\ pid' = [pid EXCEPT ![p] = After(p, pid[p])]
      /\ stage' = [stage EXCEPT ![p] = IF After(p, pid[p]) < N THEN "setup" ELSE "run"]
  BY <1>1 DEF Connected, Goto
<1>7. Connected(p, pid[p])
  BY <1>1, <1>5
<1> HIDE DEF n, i
<1>8. listener' \in [Ports -> Parties \cup {NoOne}] /\ pending' \in [Ports -> Seq(Parties)]
  BY <1>1, <1>2 DEF SetupInv, SetupType
<1>9. SetupType' /\ AtAPeer' /\ ChannelsMatch'
  BY <1>1, <1>7, <1>8, ConnectedSetup
<1>10. ListenersWait'
  <2>1. SUFFICES ASSUME NEW m \in Ports, listener[m] # NoOne
                 PROVE  /\ stage'[listener[m]] = "accept"
                        /\ m = port(listener[m], pid'[listener[m]])
    BY <1>1 DEF ListenersWait
  <2>2. listener[m] \in Parties /\ stage[listener[m]] = "accept" /\ m = port(listener[m], pid[listener[m]])
    BY <2>1 DEF SetupInv, SetupType, ListenersWait
  <2>3. listener[m] # p
    BY <1>1, <2>2
  <2>4. QED BY <1>6, <2>2, <2>3 DEF SetupInv, SetupType
<1>11. PendingRight'
  <2>1. SUFFICES ASSUME NEW m \in Ports, NEW k \in 1 .. Len(pending'[m])
                 PROVE  \E j \in Parties : j < pending'[m][k] /\ m = port(j, pending'[m][k])
    BY DEF PendingRight
  <2>2. CASE m = n
    <3>1. pending[n] \in Seq(Parties) /\ pending'[n] = Append(pending[n], p)
      BY <1>1, <1>2 DEF SetupInv, SetupType
    <3>2. CASE k = Len(pending[n]) + 1
      <4>1. pending'[m][k] = p
        BY <2>2, <3>1, <3>2
      <4>2. i < p /\ n = port(i, p)
        BY <1>3, <1>4, <1>5
      <4>3. QED BY <1>3, <2>2, <4>1, <4>2
    <3>3. CASE k \in 1 .. Len(pending[n])
      <4>1. pending'[m][k] = pending[n][k]
        BY <2>2, <3>1, <3>3
      <4>2. \E j \in Parties : j < pending[n][k] /\ n = port(j, pending[n][k])
        BY <1>2, <3>3 DEF SetupInv, PendingRight
      <4>3. QED BY <2>2, <4>1, <4>2
    <3>4. QED BY <2>1, <2>2, <3>1, <3>2, <3>3
  <2>3. CASE m # n
    <3>1. pending'[m] = pending[m]
      BY <1>1, <2>3 DEF SetupInv, SetupType
    <3>2. QED BY <2>1, <3>1 DEF SetupInv, PendingRight
  <2>4. QED BY <2>2, <2>3
<1>12. QED BY <1>9, <1>10, <1>11 DEF SetupInv

LEMMA SetupNext == SetupInv /\ [Next]_vars => SetupInv'
<1>1. SUFFICES ASSUME SetupInv, [Next]_vars PROVE SetupInv'
  OBVIOUS
<1>2. CASE UNCHANGED vars
  <2>1. UNCHANGED <<stage, pid, listener, pending, sockets>>
    BY <1>2 DEF vars, setup
  <2>2. SetupType' /\ AtAPeer' /\ ListenersWait'
    BY <1>1, <2>1 DEF SetupInv, SetupType, AtAPeer, ListenersWait
  <2>3. PendingRight' /\ ChannelsMatch'
    BY <1>1, <2>1 DEF SetupInv, PendingRight, ChannelsMatch
  <2>4. QED BY <2>2, <2>3 DEF SetupInv
<1>3. ASSUME NEW p \in Parties, Step(p) \/ Stop(p) PROVE SetupInv'
  <2>1. CASE OpenChannel(p)
    BY <1>1, <2>1, OpenChannelSetup
  <2>2. CASE AcceptSocket(p)
    BY <1>1, <2>2, AcceptSocketSetup
  <2>3. CASE Connect(p)
    BY <1>1, <2>3, ConnectSetup
  <2>4. CASE ConnectRefused(p)
    <3>1. CASE Leaves(p, "raised")
      BY <1>1, <3>1, LeavesSetup
    <3>2. CASE UNCHANGED <<stage, pid, listener, pending, sockets>>
      <4>1. SetupType' /\ AtAPeer' /\ ListenersWait'
        BY <1>1, <3>2 DEF SetupInv, SetupType, AtAPeer, ListenersWait
      <4>2. PendingRight' /\ ChannelsMatch'
        BY <1>1, <3>2 DEF SetupInv, PendingRight, ChannelsMatch
      <4>3. QED BY <4>1, <4>2 DEF SetupInv
    <3>3. QED BY <2>4, <3>1, <3>2 DEF ConnectRefused
  <2>5. CASE BeginCall(p)
    <3>1. stage[p] = "run" /\ UNCHANGED setup
      BY <2>5 DEF BeginCall
    <3>2. \E s \in {"send", "recv"} : stage' = [stage EXCEPT ![p] = s]
      BY <2>5 DEF BeginCall, Goto
    <3>3. QED BY <1>1, <3>1, <3>2, ProgramSetup
  <2>6. CASE Send(p) \/ SendError(p) \/ Receive(p)
    <3>1. UNCHANGED <<stage, pid, listener, pending, sockets>>
      BY <2>6 DEF Send, SendError, Receive, setup
    <3>2. SetupType' /\ AtAPeer' /\ ListenersWait'
      BY <1>1, <3>1 DEF SetupInv, SetupType, AtAPeer, ListenersWait
    <3>3. PendingRight' /\ ChannelsMatch'
      BY <1>1, <3>1 DEF SetupInv, PendingRight, ChannelsMatch
    <3>4. QED BY <3>2, <3>3 DEF SetupInv
  <2>7. CASE SendReturns(p) \/ ReceiveReturns(p)
    <3>1. stage[p] \in {"send", "recv"} /\ UNCHANGED setup /\ stage' = [stage EXCEPT ![p] = "run"]
      BY <2>7 DEF SendReturns, ReceiveReturns, Goto
    <3>2. QED BY <1>1, <3>1, ProgramSetup
  <2>8. CASE ReceiveFails(p) \/ CleanUp(p) \/ Stop(p)
    <3>1. \E how \in {"closed", "raised", "stopped"} : Leaves(p, how)
      BY <2>8 DEF ReceiveFails, CleanUp, Stop
    <3>2. QED BY <1>1, <3>1, LeavesSetup
  <2>9. QED BY <1>3, <2>1, <2>2, <2>3, <2>4, <2>5, <2>6, <2>7, <2>8 DEF Step
<1>4. QED BY <1>1, <1>2, <1>3 DEF Next

\* At the other end of a socket for a party is that party (__setup_channels,
\* open_channel, accept_socket and connect): for any number of parties, whichever
\* ports are busy, whoever gives up or dies, and in whatever order they come.
THEOREM ChannelsRight == Spec => []ChannelsMatch
<1>1. SetupInv => ChannelsMatch
  BY DEF SetupInv
<1>2. QED BY <1>1, SetupInit, SetupNext, PTL DEF Spec

-----------------------------------------------------------------------------
(***************************************************************************)
(* That a channel of TcpTransport is a stream of whole jars, for any       *)
(* number of parties, programs that match, and connections that cut jars   *)
(* up as they like; and that nobody raises unless something goes wrong.    *)
(***************************************************************************)
-----------------------------------------------------------------------------
\* The invariant.

\* The process of p has not gone before its time.
Sound(p) == stage[p] \notin {"raised", "stopped"}

SendingOn(c) == stage[c[1]] = "send" /\ Out(c[1]) = c
ReceivingOn(c) == stage[c[2]] = "recv" /\ In(c[2]) = c

\* Who sends, sends the last jar of the link, and has sent fewer bytes than none only if
\* the connection has reported an error.
SendingRight(p) ==
  /\ sent[Out(p)] # <<>> /\ Sending(p) = Jar(Len(sent[Out(p)]), Call(p).msg_len)
  /\ totalsent[p] >= 0 \/ Call(p).peer \in reset[p]

\* In a call of a program a party does what the program says; a jar is not longer
\* than what is asked for.
CallsInv ==
  \A p \in Parties :
    /\ at[p] \in 1 .. Len(prog[p]) + 1
    /\ stage[p] = "send" => at[p] <= Len(prog[p]) /\ Call(p).do = "send" /\ SendingRight(p)
    /\ stage[p] = "recv" => /\ at[p] <= Len(prog[p]) /\ Call(p).do = "receive"
                            /\ Len(buffer[p]) <= Call(p).msg_len
    /\ stage[p] = "closed" => at[p] = Len(prog[p]) + 1

\* A party has a socket for each peer it is past, for all when its program runs.
SocketsInv ==
  \A p \in Parties :
    /\ stage[p] \in {"run", "send", "recv"} => pid[p] >= N
    /\ \A q \in Parties : q # p /\ q < pid[p] => sockets[p][q] = q

\* The calls of its program that p has begun, as far as its sends go.
Begun(p) == IF stage[p] = "send" THEN at[p] ELSE at[p] - 1

\* The jars of a link are counted by the calls of the programs.
CountsInv ==
  \A c \in Links :
    /\ Sound(c[1]) => Len(sent[c]) = Count(prog[c[1]], "send", c[2], Begun(c[1]))
    /\ Sound(c[2]) => Len(got[c]) = Count(prog[c[2]], "receive", c[1], at[c[2]] - 1)

\* i is the call of c[1]'s program that sends the n-th jar of link c.
SendsNth(c, n, i) ==
  /\ prog[c[1]][i].do = "send" /\ prog[c[1]][i].peer = c[2]
  /\ Count(prog[c[1]], "send", c[2], i) = n

JarsInv ==
  \A c \in Links : \A n \in 1 .. Len(sent[c]) :
    \E i \in 1 .. Len(prog[c[1]]) :
      SendsNth(c, n, i) /\ sent[c][n] = Jar(n, prog[c[1]][i].msg_len)

\* A connection reports an error only if the other end went before its time.
ResetInv == \A p \in Parties : \A q \in reset[p] : ~ Sound(q)

\* The bytes of a stream of L jars of lengths len, of which g are taken and of the next
\* the B bytes b, with the W bytes w on the way and rest bytes still to be sent: off[n]
\* bytes are before jar n.
Layout(L, len, g, B, b, W, w, rest, off) ==
  /\ off \in [1 .. L + 1 -> Nat]
  /\ \A n \in 1 .. L : off[n + 1] = off[n] + len[n]
  /\ \A m, n \in 1 .. L + 1 : m < n => off[m] + len[m] <= off[n]
  /\ g <= L
  /\ rest \in Nat /\ (rest > 0 => L > 0 /\ rest <= len[L])
  /\ off[g + 1] + B + W + rest = off[L + 1]
  /\ \A k \in 1 .. B : b[k] = <<g + 1, k>>
  /\ \A n \in 1 .. L : \A k \in 1 .. len[n] :
       \A i \in 1 .. W : i = off[n] + k - (off[g + 1] + B) => w[i] = <<n, k>>

Lengths(s) == [n \in 1 .. Len(s) |-> Len(s[n])]

\* The same of sequences: s of jars, b and w of bytes.
Stream(s, g, b, w, rest, off) ==
  Layout(Len(s), Lengths(s), g, Len(b), b, Len(w), w, rest, off)

Part(c) == IF ReceivingOn(c) THEN buffer[c[2]] ELSE <<>>
Rest(c) == IF SendingOn(c) THEN Call(c[1]).msg_len - totalsent[c[1]] ELSE 0

\* Whoever has not gone before its time finds its streams in order.
StreamOK(c, rest, off) ==
  /\ Stream(sent[c], Len(got[c]), Part(c), wire[c], rest, off)
  /\ Sound(c[1]) => rest = Rest(c)

StreamInv ==
  \A c \in Links : Sound(c[2]) =>
    \E rest \in Nat, off \in [1 .. Len(sent[c]) + 1 -> Nat] : StreamOK(c, rest, off)

\* The types of what the set-up does not use; with SetupType they are TypeOK.
DataType ==
  /\ world \in Worlds /\ prog \in Programs
  /\ tries \in [Parties -> 0 .. RETRY_CONNECT - 1]
  /\ reset \in [Parties -> SUBSET Parties]
  /\ at \in [Parties -> Nat \ {0}]
  /\ totalsent \in [Parties -> Int]
  /\ buffer \in [Parties -> Seq(Bytes)]
  /\ wire \in [Links -> Seq(Bytes)]
  /\ sent \in [Links -> Seq(Seq(Bytes))]
  /\ got \in [Links -> Seq(Seq(Bytes))]

DataInv == DataType /\ CallsInv /\ CountsInv /\ JarsInv /\ ResetInv /\ StreamInv

IInv == SetupInv /\ SocketsInv /\ DataInv

-----------------------------------------------------------------------------
\* Counting calls.

LEMMA CountType ==
  ASSUME NEW calls, NEW what, NEW q, NEW i \in Nat
  PROVE  /\ Count(calls, what, q, i) \in 0 .. i
         /\ IsFiniteSet({j \in 1 .. i : calls[j].do = what /\ calls[j].peer = q})
<1> DEFINE S == {j \in 1 .. i : calls[j].do = what /\ calls[j].peer = q}
<1>1. IsFiniteSet(1 .. i) /\ Cardinality(1 .. i) = i
  BY FS_Interval
<1>2. S \in SUBSET (1 .. i)
  OBVIOUS
<1>3. IsFiniteSet(S) /\ Cardinality(S) <= i
  BY <1>1, <1>2, FS_Subset
<1>4. Cardinality(S) \in Nat
  BY <1>3, FS_CardinalityType
<1>5. QED BY <1>3, <1>4 DEF Count

LEMMA CountStep ==
  ASSUME NEW calls, NEW what, NEW q, NEW i \in Nat \ {0}
  PROVE  Count(calls, what, q, i) =
           Count(calls, what, q, i - 1) + (IF calls[i].do = what /\ calls[i].peer = q THEN 1 ELSE 0)
<1> DEFINE S(m) == {j \in 1 .. m : calls[j].do = what /\ calls[j].peer = q}
<1>1. IsFiniteSet(S(i - 1)) /\ Cardinality(S(i - 1)) \in Nat
  <2>1. i - 1 \in Int /\ S(i - 1) \in SUBSET (1 .. i - 1)
    OBVIOUS
  <2>2. IsFiniteSet(1 .. i - 1)
    BY <2>1, FS_Interval
  <2>3. IsFiniteSet(S(i - 1))
    BY <2>1, <2>2, FS_Subset
  <2>4. QED BY <2>3, FS_CardinalityType
<1>2. CASE calls[i].do = what /\ calls[i].peer = q
  <2>1. S(i) = S(i - 1) \cup {i} /\ i \notin S(i - 1)
    BY <1>2
  <2>2. Cardinality(S(i - 1) \cup {i}) = Cardinality(S(i - 1)) + 1
    BY <1>1, <2>1, FS_AddElement
  <2>3. QED BY <1>2, <2>1, <2>2 DEF Count
<1>3. CASE ~ (calls[i].do = what /\ calls[i].peer = q)
  <2>1. S(i) = S(i - 1)
    BY <1>3
  <2>2. QED BY <1>1, <1>3, <2>1 DEF Count
<1>4. QED BY <1>2, <1>3

LEMMA CountGrows ==
  ASSUME NEW calls, NEW what, NEW q, NEW i \in Nat, NEW j \in Nat, i <= j
  PROVE  Count(calls, what, q, i) <= Count(calls, what, q, j)
<1> DEFINE S(m) == {k \in 1 .. m : calls[k].do = what /\ calls[k].peer = q}
<1>1. IsFiniteSet(S(j))
  <2>1. S(j) \in SUBSET (1 .. j) /\ IsFiniteSet(1 .. j)
    BY FS_Interval
  <2>2. QED BY <2>1, FS_Subset
<1>2. S(i) \in SUBSET S(j)
  OBVIOUS
<1>3. Cardinality(S(i)) <= Cardinality(S(j))
  BY <1>1, <1>2, FS_Subset
<1>4. QED BY <1>3 DEF Count

-----------------------------------------------------------------------------
\* What the operations do to a stream: first to its layout, which is arithmetic.

LEMMA LayoutTypes ==
  ASSUME NEW L \in Nat, NEW len \in [1 .. L -> Nat], NEW g \in Nat, NEW B \in Nat, NEW b,
         NEW W \in Nat, NEW w, NEW rest, NEW off, Layout(L, len, g, B, b, W, w, rest, off)
  PROVE  /\ \A n \in 1 .. L : off[n] \in Nat /\ len[n] \in Nat
         /\ g <= L /\ rest \in Nat
         /\ off[g + 1] \in Nat /\ off[L + 1] \in Nat
<1>1. off \in [1 .. L + 1 -> Nat] /\ g <= L /\ rest \in Nat
  BY DEF Layout
<1>2. g + 1 \in 1 .. L + 1 /\ L + 1 \in 1 .. L + 1 /\ \A n \in 1 .. L : n \in 1 .. L + 1
  BY <1>1
<1>3. QED BY <1>1, <1>2

\* A jar of J bytes, all of them still to be sent, is put on the link.
LEMMA LayoutPut ==
  ASSUME NEW L \in Nat, NEW len \in [1 .. L -> Nat], NEW g \in Nat, NEW B \in Nat, NEW b,
         NEW W \in Nat, NEW w, NEW off, Layout(L, len, g, B, b, W, w, 0, off),
         NEW J \in Nat, NEW len2, len2[L + 1] = J, \A n \in 1 .. L : len2[n] = len[n]
  PROVE  \E off2 \in [1 .. L + 2 -> Nat] : Layout(L + 1, len2, g, B, b, W, w, J, off2)
<1> DEFINE off2 == [n \in 1 .. L + 2 |-> IF n <= L + 1 THEN off[n] ELSE off[L + 1] + J]
<1>1. /\ \A n \in 1 .. L : off[n] \in Nat /\ len[n] \in Nat
      /\ g <= L
      /\ off[g + 1] \in Nat /\ off[L + 1] \in Nat
  BY LayoutTypes
<1>2. off[g + 1] + B + W + 0 = off[L + 1]
  BY DEF Layout
<1>3. \A n \in 1 .. L : off[n + 1] = off[n] + len[n]
  BY DEF Layout
<1>4. \A m, n \in 1 .. L + 1 : m < n => off[m] + len[m] <= off[n]
  BY DEF Layout
<1>5. /\ off2 \in [1 .. L + 2 -> Nat]
      /\ \A n \in 1 .. L + 1 : off2[n] = off[n]
      /\ off2[L + 2] = off[L + 1] + J
  <2>1. off \in [1 .. L + 1 -> Nat]
    BY DEF Layout
  <2>2. \A n \in 1 .. L + 2 : n <= L + 1 => n \in 1 .. L + 1
    OBVIOUS
  <2>3. QED BY <1>1, <2>1, <2>2
<1> HIDE DEF off2
<1>6. ASSUME NEW n \in 1 .. L + 1 PROVE off2[n + 1] = off2[n] + len2[n]
  <2>1. CASE n = L + 1
    BY <1>5, <2>1
  <2>2. CASE n # L + 1
    <3>1. n \in 1 .. L /\ n + 1 \in 1 .. L + 1
      BY <2>2
    <3>2. QED BY <1>3, <1>5, <3>1
  <2>3. QED BY <2>1, <2>2
<1>7. ASSUME NEW m \in 1 .. L + 2, NEW n \in 1 .. L + 2, m < n PROVE off2[m] + len2[m] <= off2[n]
  <2>1. CASE n # L + 2
    <3>1. m \in 1 .. L /\ m \in 1 .. L + 1 /\ n \in 1 .. L + 1
      BY <1>7, <2>1
    <3>2. off[m] + len[m] <= off[n]
      BY <1>4, <1>7, <3>1
    <3>3. QED BY <1>5, <3>1, <3>2
  <2>2. CASE n = L + 2 /\ m = L + 1
    <3>1. off2[m] = off[L + 1]
      BY <1>5, <2>2
    <3>2. QED BY <1>1, <1>5, <2>2, <3>1
  <2>3. CASE n = L + 2 /\ m # L + 1
    <3>1. m \in 1 .. L /\ m \in 1 .. L + 1 /\ L + 1 \in 1 .. L + 1 /\ m < L + 1
      BY <1>7, <2>3
    <3>2. off[m] + len[m] <= off[L + 1]
      BY <1>4, <3>1
    <3>3. off2[m] + len2[m] <= off[L + 1]
      BY <1>5, <3>1, <3>2
    <3>4. off2[m] + len2[m] \in Nat /\ off2[n] = off[L + 1] + J
      <4>1. off2[m] = off[m] /\ len2[m] = len[m] /\ off2[n] = off[L + 1] + J
        BY <1>5, <2>3, <3>1
      <4>2. off[m] \in Nat /\ len[m] \in Nat
        BY <1>1, <3>1
      <4>3. QED BY <4>1, <4>2
    <3>5. QED
      <4> DEFINE u == off2[m] + len2[m]
                 v == off[L + 1]
      <4>1. u \in Nat /\ v \in Nat /\ u <= v /\ off2[n] = v + J
        BY <1>1, <3>3, <3>4
      <4> HIDE DEF u, v
      <4>2. u <= off2[n]
        BY <4>1
      <4>3. QED BY <4>2 DEF u
  <2>4. QED BY <2>1, <2>2, <2>3
<1>8. off2[g + 1] = off[g + 1]
  <2>1. g + 1 \in 1 .. L + 1
    BY <1>1
  <2>2. QED BY <1>5, <2>1
<1>9. ASSUME NEW n \in 1 .. L + 1, NEW k \in 1 .. len2[n], NEW i \in 1 .. W,
             i = off2[n] + k - (off2[g + 1] + B)
      PROVE  w[i] = <<n, k>>
  <2>1. n # L + 1
    <3>1. SUFFICES ASSUME n = L + 1 PROVE FALSE
      OBVIOUS
    <3>2. k \in Nat /\ k >= 1
      BY <3>1
    <3>3. off2[n] = off[L + 1]
      BY <1>5, <3>1
    <3> DEFINE a == off[g + 1]
               z == off[L + 1]
    <3>4. a \in Nat /\ z \in Nat /\ a + B + W = z /\ i = z + k - (a + B) /\ i <= W /\ i \in Int
      BY <1>1, <1>2, <1>8, <1>9, <3>3
    <3> HIDE DEF a, z
    <3>5. QED BY <3>2, <3>4
  <2>2. n \in 1 .. L
    BY <2>1
  <2>3. k \in 1 .. len[n] /\ off2[n] = off[n]
    BY <1>5, <2>2
  <2>4. QED BY <1>8, <1>9, <2>2, <2>3 DEF Layout
<1>10. off2[g + 1] + B + W + J = off2[L + 2]
  <2> DEFINE a == off[g + 1]
             z == off[L + 1]
  <2>1. a \in Nat /\ z \in Nat /\ a + B + W + 0 = z
    BY <1>1, <1>2
  <2> HIDE DEF a, z
  <2>2. a + B + W + J = z + J
    BY <2>1
  <2>3. QED BY <1>5, <1>8, <2>2 DEF a, z
<1>11. \A k \in 1 .. B : b[k] = <<g + 1, k>>
  BY DEF Layout
<1>12. g <= L + 1 /\ (L + 1) + 1 = L + 2 /\ (J > 0 => L + 1 > 0 /\ J <= len2[L + 1])
  BY <1>1
<1>13. Layout(L + 1, len2, g, B, b, W, w, J, off2)
  BY <1>5, <1>6, <1>7, <1>9, <1>10, <1>11, <1>12 DEF Layout
<1>14. QED BY <1>5, <1>13

\* k more bytes of the jar that was put last are on the way.
LEMMA LayoutSend ==
  ASSUME NEW L \in Nat \ {0}, NEW len \in [1 .. L -> Nat], NEW g \in Nat, NEW B \in Nat, NEW b,
         NEW W \in Nat, NEW w, NEW rest \in Nat, NEW off, Layout(L, len, g, B, b, W, w, rest, off),
         NEW k \in 1 .. rest, NEW w2, \A i \in 1 .. W : w2[i] = w[i],
         \A i \in 1 .. k : w2[W + i] = <<L, len[L] - rest + i>>
  PROVE  Layout(L, len, g, B, b, W + k, w2, rest - k, off)
<1>1. /\ \A n \in 1 .. L : off[n] \in Nat /\ len[n] \in Nat
      /\ g <= L
      /\ off[g + 1] \in Nat /\ off[L + 1] \in Nat
  BY LayoutTypes
<1>2. /\ off[g + 1] + B + W + rest = off[L + 1]
      /\ off[L + 1] = off[L] + len[L]
      /\ off[L] \in Nat /\ len[L] \in Nat
  BY <1>1 DEF Layout
<1>3. k \in Nat /\ k >= 1 /\ k <= rest /\ rest <= len[L]
  BY DEF Layout
<1> DEFINE a == off[g + 1]
           z == off[L]
           m == len[L]
<1>4. a \in Nat /\ z \in Nat /\ m \in Nat /\ a + B + W + rest = z + m
  BY <1>1, <1>2
<1>5. ASSUME NEW n \in 1 .. L, NEW j \in 1 .. len[n], NEW i \in 1 .. W + k,
             i = off[n] + j - (off[g + 1] + B)
      PROVE  w2[i] = <<n, j>>
  <2>1. off[n] \in Nat /\ len[n] \in Nat /\ j \in Nat /\ j >= 1 /\ j <= len[n]
        /\ i \in Nat /\ i >= 1 /\ i <= W + k
    BY <1>1, <1>3
  <2>2. CASE i <= W
    <3>1. i \in 1 .. W
      BY <2>1, <2>2
    <3>2. w[i] = <<n, j>>
      BY <1>5, <3>1 DEF Layout
    <3>3. QED BY <3>1, <3>2
  <2>3. CASE i > W
    <3>1. n = L
      <4>1. SUFFICES ASSUME n < L PROVE FALSE
        OBVIOUS
      <4>2. off[n] + len[n] <= off[L]
        BY <4>1 DEF Layout
      <4> DEFINE y == off[n]
                 d == len[n]
      <4>3. y \in Nat /\ d \in Nat /\ j <= d /\ i = y + j - (a + B) /\ y + d <= z /\ rest <= m
        BY <1>3, <1>5, <2>1, <4>2
      <4> HIDE DEF a, z, m, y, d
      <4>4. QED BY <1>4, <2>1, <2>3, <4>3
    <3>2. i - W \in 1 .. k /\ len[L] - rest + (i - W) = j
      <4>1. i = z + j - (a + B) /\ j <= m
        BY <1>5, <2>1, <3>1
      <4>2. m - rest + (i - W) = j /\ i - W >= 1 /\ i - W <= k /\ i - W \in Int
        <5> HIDE DEF a, z, m
        <5>1. QED BY <1>3, <1>4, <2>1, <2>3, <4>1
      <4>3. QED BY <1>3, <4>2
    <3>3. w2[W + (i - W)] = <<L, len[L] - rest + (i - W)>>
      BY <3>2
    <3>4. W + (i - W) = i
      BY <2>1
    <3>5. QED BY <3>1, <3>2, <3>3, <3>4
  <2>4. i <= W \/ i > W
    BY <2>1
  <2>5. QED BY <2>2, <2>3, <2>4
<1>6. off[g + 1] + B + (W + k) + (rest - k) = off[L + 1]
  <2>1. a + B + (W + k) + (rest - k) = z + m
    <3> HIDE DEF a, z, m
    <3>1. QED BY <1>3, <1>4
  <2>2. QED BY <1>2, <2>1
<1>7. rest - k \in Nat /\ (rest - k > 0 => L > 0 /\ rest - k <= len[L])
  BY <1>2, <1>3
<1>8. QED BY <1>5, <1>6, <1>7 DEF Layout

\* If bytes are on the way, or some of a jar are taken, that jar was put.
LEMMA LayoutAhead ==
  ASSUME NEW L \in Nat, NEW len \in [1 .. L -> Nat], NEW g \in Nat, NEW B \in Nat, NEW b,
         NEW W \in Nat, NEW w, NEW rest \in Nat, NEW off, Layout(L, len, g, B, b, W, w, rest, off),
         B + W + rest > 0
  PROVE  g < L
<1>1. g <= L /\ off[g + 1] \in Nat /\ off[L + 1] \in Nat
  BY LayoutTypes
<1>2. off[g + 1] + B + W + rest = off[L + 1]
  BY DEF Layout
<1>3. QED BY <1>1, <1>2

\* When a jar is not all taken and nothing of it is on the way, its sender is at it.
LEMMA LayoutBehind ==
  ASSUME NEW L \in Nat, NEW len \in [1 .. L -> Nat], NEW g \in Nat, NEW B \in Nat, NEW b,
         NEW w, NEW rest \in Nat, NEW off, Layout(L, len, g, B, b, 0, w, rest, off),
         g < L, B < len[g + 1]
  PROVE  rest > 0
<1>0. /\ \A n \in 1 .. L : off[n] \in Nat /\ len[n] \in Nat
      /\ off[g + 1] \in Nat /\ off[L + 1] \in Nat
  <2>1. 0 \in Nat
    OBVIOUS
  <2>2. QED BY <2>1, LayoutTypes
<1>1. off[g + 1] \in Nat /\ off[L + 1] \in Nat /\ g + 1 \in 1 .. L /\ len[g + 1] \in Nat
  <2>1. g + 1 \in 1 .. L
    OBVIOUS
  <2>2. QED BY <1>0, <2>1
<1>2. off[g + 1] + B + 0 + rest = off[L + 1]
  BY DEF Layout
<1>3. off[g + 1] + len[g + 1] <= off[L + 1]
  <2>1. g + 1 \in 1 .. L + 1 /\ L + 1 \in 1 .. L + 1 /\ g + 1 < L + 1
    BY <1>1
  <2>2. QED BY <2>1 DEF Layout
<1>4. QED BY <1>1, <1>2, <1>3

\* The n entries of u after the first i are those of v after the first j.
Agree(u, i, v, j, n) == \A m \in 1 .. n : u[i + m] = v[j + m]

\* k bytes of the next jar are taken.
LEMMA LayoutReceive ==
  ASSUME NEW L \in Nat, NEW len \in [1 .. L -> Nat], NEW g \in Nat, NEW B \in Nat, NEW b,
         NEW W \in Nat, NEW w, NEW rest \in Nat, NEW off, Layout(L, len, g, B, b, W, w, rest, off),
         NEW k \in 1 .. W, g < L, NEW B2, B2 = B + k, B2 <= len[g + 1],
         NEW b2, Agree(b2, 0, b, 0, B), Agree(b2, B, w, 0, k),
         NEW W2, W2 = W - k, NEW w2, Agree(w2, 0, w, k, W2)
  PROVE  Layout(L, len, g, B2, b2, W2, w2, rest, off)
<1>01. \A i \in 1 .. B : b2[i] = b[i]
  <2>1. \A i \in 1 .. B : b2[0 + i] = b[0 + i] /\ 0 + i = i
    BY DEF Agree
  <2>2. QED BY <2>1
<1>02. \A i \in 1 .. k : b2[B + i] = w[i]
  <2>1. \A i \in 1 .. k : b2[B + i] = w[0 + i] /\ 0 + i = i
    BY DEF Agree
  <2>2. QED BY <2>1
<1>03. \A i \in 1 .. W - k : w2[i] = w[k + i]
  <2>1. \A i \in 1 .. W - k : w2[0 + i] = w[k + i] /\ 0 + i = i
    BY DEF Agree
  <2>2. QED BY <2>1
<1>0. /\ \A n \in 1 .. L : off[n] \in Nat /\ len[n] \in Nat
      /\ off[g + 1] \in Nat /\ off[L + 1] \in Nat
  BY LayoutTypes
<1>1. /\ g + 1 \in 1 .. L /\ off[g + 1] \in Nat /\ len[g + 1] \in Nat /\ off[L + 1] \in Nat
      /\ k \in Nat /\ k >= 1 /\ k <= W
  <2>1. g + 1 \in 1 .. L
    OBVIOUS
  <2>2. QED BY <1>0, <2>1
<1>2. off[g + 1] + B + W + rest = off[L + 1]
  BY DEF Layout
<1>3. ASSUME NEW j \in 1 .. B + k PROVE b2[j] = <<g + 1, j>>
  <2>1. j \in Nat /\ j >= 1 /\ j <= B + k
    BY <1>1
  <2>2. CASE j <= B
    <3>1. j \in 1 .. B
      BY <2>1, <2>2
    <3>2. QED BY <1>01, <3>1 DEF Layout
  <2>3. CASE j > B
    <3> DEFINE i == j - B
    <3>1. i \in 1 .. k /\ i \in 1 .. W /\ j \in 1 .. len[g + 1] /\ B + i = j
      <4> DEFINE d == len[g + 1]
      <4>1. d \in Nat /\ B + k <= d
        BY <1>1
      <4> HIDE DEF d
      <4>2. i \in Nat /\ i >= 1 /\ i <= k /\ B + i = j
        BY <1>1, <2>1, <2>3
      <4>3. j <= d
        BY <1>1, <2>1, <4>1
      <4> HIDE DEF i
      <4>4. i <= W /\ k \in Nat /\ W \in Nat
        BY <1>1, <4>2
      <4>5. i \in 1 .. k /\ i \in 1 .. W
        BY <4>2, <4>4
      <4>6. j \in 1 .. d
        BY <2>1, <4>1, <4>3
      <4>7. QED BY <4>2, <4>5, <4>6 DEF d
    <3>2. i = off[g + 1] + j - (off[g + 1] + B)
      <4> DEFINE a == off[g + 1]
      <4>1. a \in Nat
        BY <1>1
      <4> HIDE DEF a
      <4>2. i = a + j - (a + B)
        BY <2>1, <4>1
      <4>3. QED BY <4>2 DEF a
    <3> HIDE DEF i
    <3>3. w[i] = <<g + 1, j>>
      BY <1>1, <3>1, <3>2 DEF Layout
    <3>4. b2[B + i] = w[i]
      BY <1>02, <3>1
    <3>5. QED BY <3>1, <3>3, <3>4
  <2>4. j <= B \/ j > B
    BY <2>1
  <2>5. QED BY <2>2, <2>3, <2>4
<1>4. ASSUME NEW n \in 1 .. L, NEW j \in 1 .. len[n], NEW i \in 1 .. W - k,
             i = off[n] + j - (off[g + 1] + (B + k))
      PROVE  w2[i] = <<n, j>>
  <2>1. off[n] \in Nat /\ len[n] \in Nat /\ j \in Nat /\ i \in Nat /\ i >= 1 /\ i <= W - k
    BY <1>0, <1>1
  <2>2. k + i \in 1 .. W /\ k + i = off[n] + j - (off[g + 1] + B)
    <3> DEFINE a == off[g + 1]
               y == off[n]
    <3>1. a \in Nat /\ y \in Nat /\ i = y + j - (a + (B + k))
      BY <1>1, <1>4, <2>1
    <3> HIDE DEF a, y
    <3>2. k + i \in 1 .. W /\ k + i = y + j - (a + B)
      BY <1>1, <2>1, <3>1
    <3>3. QED BY <3>2 DEF a, y
  <2>3. w[k + i] = <<n, j>>
    BY <2>2 DEF Layout
  <2>4. QED BY <1>03, <2>1, <2>3
<1>5. off[g + 1] + (B + k) + (W - k) + rest = off[L + 1]
  BY <1>1, <1>2
<1>6. Layout(L, len, g, B + k, b2, W - k, w2, rest, off)
  BY <1>3, <1>4, <1>5 DEF Layout
<1>7. QED BY <1>6

\* The next jar is taken whole, and the one after it is next.
LEMMA LayoutReturn ==
  ASSUME NEW L \in Nat, NEW len \in [1 .. L -> Nat], NEW g \in Nat, NEW B \in Nat, NEW b,
         NEW W \in Nat, NEW w, NEW rest \in Nat, NEW off, Layout(L, len, g, B, b, W, w, rest, off),
         g < L, B = len[g + 1], NEW b2
  PROVE  Layout(L, len, g + 1, 0, b2, W, w, rest, off)
<1>0. off[g + 1] \in Nat /\ off[L + 1] \in Nat
  BY LayoutTypes
<1>1. g + 1 \in 1 .. L /\ off[g + 1] \in Nat /\ off[L + 1] \in Nat /\ g + 1 <= L
  BY <1>0
<1>2. off[(g + 1) + 1] = off[g + 1] + B
  BY <1>1 DEF Layout
<1>3. off[g + 1] + B + W + rest = off[L + 1]
  BY DEF Layout
<1>4. off[(g + 1) + 1] + 0 + W + rest = off[L + 1]
  BY <1>1, <1>2, <1>3
<1>5. ASSUME NEW n \in 1 .. L, NEW j \in 1 .. len[n], NEW i \in 1 .. W,
              i = off[n] + j - (off[(g + 1) + 1] + 0)
       PROVE  w[i] = <<n, j>>
  <2>1. i = off[n] + j - (off[g + 1] + B)
    BY <1>1, <1>2, <1>5
  <2>2. QED BY <2>1 DEF Layout
<1>6. \A j \in 1 .. 0 : b2[j] = <<(g + 1) + 1, j>>
  OBVIOUS
<1>7. QED BY <1>1, <1>4, <1>5, <1>6 DEF Layout

\* Then to the sequences themselves.

LEMMA LengthsType ==
  ASSUME NEW s \in Seq(Seq(Bytes))
  PROVE  Len(s) \in Nat /\ Lengths(s) \in [1 .. Len(s) -> Nat]
<1>1. \A n \in 1 .. Len(s) : s[n] \in Seq(Bytes)
  OBVIOUS
<1>2. \A n \in 1 .. Len(s) : Len(s[n]) \in Nat
  BY <1>1
<1>3. QED BY <1>2 DEF Lengths

LEMMA StreamPut ==
  ASSUME NEW s \in Seq(Seq(Bytes)), NEW g \in Nat, NEW b \in Seq(Bytes), NEW w \in Seq(Bytes),
         NEW off, Stream(s, g, b, w, 0, off), NEW x \in Seq(Bytes)
  PROVE  \E off2 \in [1 .. Len(Append(s, x)) + 1 -> Nat] : Stream(Append(s, x), g, b, w, Len(x), off2)
<1> DEFINE s2 == Append(s, x)
           L == Len(s)
<1>1. L \in Nat /\ Lengths(s) \in [1 .. L -> Nat] /\ Len(b) \in Nat /\ Len(w) \in Nat /\ Len(x) \in Nat
  BY LengthsType
<1>2. Len(s2) = L + 1 /\ s2[L + 1] = x /\ \A n \in 1 .. L : s2[n] = s[n]
  OBVIOUS
<1>3. Lengths(s2)[L + 1] = Len(x)
  <2>1. L + 1 \in 1 .. Len(s2)
    BY <1>1, <1>2
  <2> HIDE DEF s2, L
  <2>2. QED BY <1>2, <2>1 DEF Lengths
<1>4. \A n \in 1 .. L : Lengths(s2)[n] = Lengths(s)[n]
  <2>1. \A n \in 1 .. L : n \in 1 .. Len(s2)
    BY <1>1, <1>2
  <2> HIDE DEF s2
  <2>2. QED BY <1>2, <2>1 DEF Lengths
<1>5. Layout(L, Lengths(s), g, Len(b), b, Len(w), w, 0, off)
  BY DEF Stream
<1>6. \E off2 \in [1 .. L + 2 -> Nat] : Layout(L + 1, Lengths(s2), g, Len(b), b, Len(w), w, Len(x), off2)
  <2> DEFINE len == Lengths(s)
             len2 == Lengths(s2)
             J == Len(x)
             B == Len(b)
             W == Len(w)
  <2>1. /\ L \in Nat /\ len \in [1 .. L -> Nat] /\ B \in Nat /\ W \in Nat /\ J \in Nat
        /\ Layout(L, len, g, B, b, W, w, 0, off)
        /\ len2[L + 1] = J /\ \A n \in 1 .. L : len2[n] = len[n]
    BY <1>1, <1>3, <1>4, <1>5
  <2> HIDE DEF L, len, len2, J, B, W, s2
  <2>2. \E off2 \in [1 .. L + 2 -> Nat] : Layout(L + 1, len2, g, B, b, W, w, J, off2)
    BY <2>1, LayoutPut
  <2>3. QED BY <2>2 DEF len2, J, B, W
<1>7. Len(s2) + 1 = L + 2
  BY <1>1, <1>2
<1> HIDE DEF s2, L
<1>8. \E off2 \in [1 .. Len(s2) + 1 -> Nat] : Stream(s2, g, b, w, Len(x), off2)
  BY <1>2, <1>6, <1>7 DEF Stream
<1>9. QED BY <1>8 DEF s2

LEMMA BytesJoined ==
  ASSUME NEW u \in Seq(Bytes), NEW v \in Seq(Bytes)
  PROVE  /\ u \o v \in Seq(Bytes) /\ Len(u \o v) = Len(u) + Len(v)
         /\ \A i \in 1 .. Len(u) : (u \o v)[i] = u[i]
         /\ \A i \in 1 .. Len(v) : (u \o v)[Len(u) + i] = v[i]
OBVIOUS

LEMMA BytesCut ==
  ASSUME NEW u \in Seq(Bytes), NEW k \in 1 .. Len(u)
  PROVE  /\ SubSeq(u, 1, k) \in Seq(Bytes) /\ Len(SubSeq(u, 1, k)) = k
         /\ \A i \in 1 .. k : SubSeq(u, 1, k)[i] = u[i]
         /\ SubSeq(u, k + 1, Len(u)) \in Seq(Bytes)
         /\ Len(SubSeq(u, k + 1, Len(u))) = Len(u) - k
         /\ \A i \in 1 .. Len(u) - k : SubSeq(u, k + 1, Len(u))[i] = u[k + i]
<1>1. k \in Nat /\ k >= 1 /\ k <= Len(u) /\ Len(u) \in Nat
  OBVIOUS
<1>2. SubSeq(u, 1, k) \in Seq(Bytes) /\ Len(SubSeq(u, 1, k)) = k
  BY <1>1
<1>3. \A i \in 1 .. k : SubSeq(u, 1, k)[i] = u[i]
  BY <1>1
<1>4. SubSeq(u, k + 1, Len(u)) \in Seq(Bytes)
  BY <1>1
<1>5. Len(SubSeq(u, k + 1, Len(u))) = Len(u) - k
  BY <1>1
<1>6. \A i \in 1 .. Len(u) - k : SubSeq(u, k + 1, Len(u))[i] = u[k + i]
  BY <1>1
<1>7. QED BY <1>2, <1>3, <1>4, <1>5, <1>6

LEMMA StreamSend ==
  ASSUME NEW s \in Seq(Seq(Bytes)), NEW g \in Nat, NEW b \in Seq(Bytes), NEW w \in Seq(Bytes),
         NEW rest \in Nat, NEW off, Stream(s, g, b, w, rest, off), NEW k \in 1 .. rest,
         NEW m \in Nat, s[Len(s)] = Jar(Len(s), m), NEW t \in Nat, rest = m - t
  PROVE  Stream(s, g, b, w \o SubSeq(s[Len(s)], t + 1, t + k), rest - k, off)
<1> DEFINE L == Len(s)
           jar == s[Len(s)]
           x == SubSeq(jar, t + 1, t + k)
           w2 == w \o x
           len == Lengths(s)
           B == Len(b)
           W == Len(w)
<1>1. L \in Nat /\ len \in [1 .. L -> Nat] /\ B \in Nat /\ W \in Nat
  BY LengthsType
<1>2. Layout(L, len, g, B, b, W, w, rest, off)
  BY DEF Stream
<1>3. L \in Nat \ {0}
  <2>1. rest > 0
    OBVIOUS
  <2> HIDE DEF L
  <2>2. QED BY <1>1, <1>2, <2>1 DEF Layout
<1>4. jar \in Seq(Bytes) /\ Len(jar) = m /\ \A i \in 1 .. m : jar[i] = <<L, i>>
  <2>1. jar \in Seq(Bytes)
    BY <1>3
  <2>2. jar = [i \in 1 .. m |-> <<L, i>>]
    BY DEF Jar
  <2>3. QED BY <2>1, <2>2
<1>5. len[L] = m
  BY <1>3, <1>4 DEF Lengths
<1>6. t + 1 \in Nat /\ t + k <= m /\ k \in Nat /\ k >= 1
  OBVIOUS
<1>7. x \in Seq(Bytes) /\ Len(x) = k /\ \A i \in 1 .. k : x[i] = <<L, t + i>>
  <2>1. x \in Seq(Bytes) /\ Len(x) = k /\ \A i \in 1 .. k : x[i] = jar[t + i]
    <3> HIDE DEF jar
    <3>1. QED BY <1>4, <1>6
  <2>2. \A i \in 1 .. k : t + i \in 1 .. m
    BY <1>6
  <2>3. QED BY <1>4, <2>1, <2>2
<1>8. Len(w2) = W + k /\ (\A i \in 1 .. W : w2[i] = w[i]) /\ \A i \in 1 .. k : w2[W + i] = x[i]
  <2>1. w \in Seq(Bytes) /\ x \in Seq(Bytes) /\ Len(x) = k
    BY <1>7
  <2> HIDE DEF x
  <2>2. QED BY <2>1, BytesJoined
<1>9. \A i \in 1 .. k : w2[W + i] = <<L, len[L] - rest + i>>
  <2>1. len[L] - rest = t
    BY <1>5
  <2> HIDE DEF w2, W, L, len
  <2>2. QED BY <1>7, <1>8, <2>1
<1>10. Layout(L, len, g, B, b, W + k, w2, rest - k, off)
  <2> HIDE DEF L, jar, x, w2, len, B, W
  <2>1. QED BY <1>1, <1>2, <1>3, <1>8, <1>9, LayoutSend
<1>11. QED BY <1>8, <1>10 DEF Stream

LEMMA StreamReceive ==
  ASSUME NEW s \in Seq(Seq(Bytes)), NEW g \in Nat, NEW b \in Seq(Bytes), NEW w \in Seq(Bytes),
         NEW rest \in Nat, NEW off, Stream(s, g, b, w, rest, off), NEW k \in 1 .. Len(w),
         g < Len(s), Len(b) + k <= Len(s[g + 1])
  PROVE  Stream(s, g, b \o SubSeq(w, 1, k), SubSeq(w, k + 1, Len(w)), rest, off)
<1> DEFINE L == Len(s)
           len == Lengths(s)
           B == Len(b)
           W == Len(w)
           x == SubSeq(w, 1, k)
           b2 == b \o x
           w2 == SubSeq(w, k + 1, Len(w))
<1>1. L \in Nat /\ len \in [1 .. L -> Nat] /\ B \in Nat /\ W \in Nat
  BY LengthsType
<1>2. Layout(L, len, g, B, b, W, w, rest, off)
  BY DEF Stream
<1>3. x \in Seq(Bytes) /\ Len(x) = k /\ \A i \in 1 .. k : x[i] = w[i]
  BY BytesCut
<1>4. Len(b2) = B + k /\ (\A i \in 1 .. B : b2[i] = b[i]) /\ \A i \in 1 .. k : b2[B + i] = x[i]
  <2>1. b \in Seq(Bytes) /\ x \in Seq(Bytes) /\ Len(x) = k
    BY <1>3
  <2> HIDE DEF x
  <2>2. QED BY <2>1, BytesJoined
<1>5. Len(w2) = W - k /\ \A i \in 1 .. W - k : w2[i] = w[k + i]
  BY BytesCut
<1>6. B + k <= len[g + 1]
  <2>1. g + 1 \in 1 .. Len(s)
    BY <1>1
  <2>2. QED BY <2>1 DEF Lengths
<1>7. \A i \in 1 .. k : b2[B + i] = w[i]
  BY <1>3, <1>4
<1>8. Layout(L, len, g, Len(b2), b2, Len(w2), w2, rest, off)
  <2> DEFINE B2 == Len(b2)
             W2 == Len(w2)
  <2>1. /\ L \in Nat /\ len \in [1 .. L -> Nat] /\ B \in Nat /\ W \in Nat
        /\ Layout(L, len, g, B, b, W, w, rest, off)
        /\ k \in 1 .. W /\ g < L /\ B2 = B + k /\ B2 <= len[g + 1]
        /\ W2 = W - k
    BY <1>1, <1>2, <1>4, <1>5, <1>6
  <2>2. Agree(b2, 0, b, 0, B) /\ Agree(b2, B, w, 0, k) /\ Agree(w2, 0, w, k, W2)
    <3>1. W2 = W - k
      BY <1>5
    <3> HIDE DEF b2, w2, B, W, W2, x
    <3>2. Agree(b2, 0, b, 0, B)
      BY <1>1, <1>4 DEF Agree
    <3>3. Agree(b2, B, w, 0, k)
      BY <1>7 DEF Agree
    <3>4. Agree(w2, 0, w, k, W2)
      BY <1>5, <3>1 DEF Agree
    <3>5. QED BY <3>2, <3>3, <3>4
  <2> HIDE DEF L, len, B, W, x, b2, w2, B2, W2
  <2>3. Layout(L, len, g, B2, b2, W2, w2, rest, off)
    BY <2>1, <2>2, LayoutReceive
  <2>4. QED BY <2>3 DEF B2, W2
<1>9. QED BY <1>8 DEF Stream

\* When as many bytes are taken as the next jar has, they are that jar.
LEMMA StreamReturn ==
  ASSUME NEW s \in Seq(Seq(Bytes)), NEW g \in Nat, NEW b \in Seq(Bytes), NEW w \in Seq(Bytes),
         NEW rest \in Nat, NEW off, Stream(s, g, b, w, rest, off), NEW m \in Nat,
         g < Len(s), s[g + 1] = Jar(g + 1, m), Len(b) = m
  PROVE  /\ Stream(s, g + 1, <<>>, w, rest, off)
         /\ b = s[g + 1]
<1>1. b = s[g + 1]
  <2>1. \A k \in 1 .. Len(b) : b[k] = <<g + 1, k>>
    BY DEF Stream, Layout
  <2>2. b = [i \in 1 .. Len(b) |-> b[i]]
    OBVIOUS
  <2>3. QED BY <2>1, <2>2 DEF Jar
<1>2. Stream(s, g + 1, <<>>, w, rest, off)
  <2> DEFINE L == Len(s)
             len == Lengths(s)
             B == Len(b)
             W == Len(w)
             e == <<>>
  <2>1. L \in Nat /\ len \in [1 .. L -> Nat] /\ B \in Nat /\ W \in Nat /\ Len(<<>>) = 0
    BY LengthsType
  <2>2. Layout(L, len, g, B, b, W, w, rest, off) /\ g < L
    BY DEF Stream
  <2>3. B = len[g + 1]
    <3>1. g + 1 \in 1 .. Len(s)
      BY <2>1
    <3>2. QED BY <1>1, <3>1 DEF Lengths
  <2>4. Layout(L, len, g + 1, 0, <<>>, W, w, rest, off)
    <3> HIDE DEF L, len, B, W
    <3>1. QED BY <2>1, <2>2, <2>3, LayoutReturn
  <2>5. QED BY <2>1, <2>4 DEF Stream
<1>3. QED BY <1>1, <1>2

LEMMA StreamAhead ==
  ASSUME NEW s \in Seq(Seq(Bytes)), NEW g \in Nat, NEW b \in Seq(Bytes), NEW w \in Seq(Bytes),
         NEW rest \in Nat, NEW off, Stream(s, g, b, w, rest, off),
         b # <<>> \/ w # <<>> \/ rest > 0
  PROVE  g < Len(s)
<1> DEFINE L == Len(s)
           len == Lengths(s)
           B == Len(b)
           W == Len(w)
<1>1. L \in Nat /\ len \in [1 .. L -> Nat] /\ B \in Nat /\ W \in Nat
  BY LengthsType
<1>2. Layout(L, len, g, B, b, W, w, rest, off)
  BY DEF Stream
<1>3. B > 0 \/ W > 0 \/ rest > 0
  OBVIOUS
<1> HIDE DEF L, len, B, W
<1>4. B + W + rest > 0
  BY <1>1, <1>3
<1>5. g < L
  BY <1>1, <1>2, <1>4, LayoutAhead
<1>6. QED BY <1>5 DEF L

LEMMA StreamBehind ==
  ASSUME NEW s \in Seq(Seq(Bytes)), NEW g \in Nat, NEW b \in Seq(Bytes), NEW rest \in Nat, NEW off,
         Stream(s, g, b, <<>>, rest, off), g < Len(s), Len(b) < Len(s[g + 1])
  PROVE  rest > 0
<1> DEFINE L == Len(s)
           len == Lengths(s)
           B == Len(b)
<1>1. L \in Nat /\ len \in [1 .. L -> Nat] /\ B \in Nat /\ g < L
  BY LengthsType
<1>2. Layout(L, len, g, B, b, 0, <<>>, rest, off)
  BY DEF Stream
<1>3. B < len[g + 1]
  <2>1. g + 1 \in 1 .. Len(s)
    BY <1>1
  <2>2. QED BY <2>1 DEF Lengths
<1> HIDE DEF L, len, B
<1>4. QED BY <1>1, <1>2, <1>3, LayoutBehind

-----------------------------------------------------------------------------
\* What the invariant says of a party, of its call and of a link.

LEMMA LinkEnds ==
  ASSUME NEW c \in Links
  PROVE  c[1] \in Parties /\ c[2] \in Parties /\ c[1] # c[2] /\ c = <<c[1], c[2]>>
BY DEF Links

LEMMA ProgType ==
  ASSUME DataType, NEW p \in Parties
  PROVE  /\ Len(prog[p]) \in Nat
         /\ \A i \in 1 .. Len(prog[p]) :
              /\ prog[p][i].do \in {"send", "receive"}
              /\ prog[p][i].peer \in Parties /\ prog[p][i].peer # p
              /\ prog[p][i].msg_len \in Nat \ {0}
         /\ Matching(prog)
<1>1. prog \in Programs
  BY DEF DataType
<1>2. prog \in [Parties -> Seq(JarCall)] /\ Matching(prog) /\ \A i \in 1 .. Len(prog[p]) : prog[p][i].peer # p
  BY <1>1, ProgramsAssumption
<1>3. prog[p] \in Seq(JarCall)
  BY <1>2
<1>4. Len(prog[p]) \in Nat /\ \A i \in 1 .. Len(prog[p]) : prog[p][i] \in JarCall
  BY <1>3
<1>5. QED BY <1>2, <1>4 DEF JarCall

LEMMA CallType ==
  ASSUME DataType, NEW p \in Parties, at[p] \in 1 .. Len(prog[p])
  PROVE  /\ Call(p).do \in {"send", "receive"}
         /\ Call(p).peer \in Parties /\ Call(p).peer # p /\ Call(p).msg_len \in Nat \ {0}
         /\ Out(p) \in Links /\ Out(p)[1] = p /\ Out(p)[2] = Call(p).peer
         /\ In(p) \in Links /\ In(p)[1] = Call(p).peer /\ In(p)[2] = p
<1>1. /\ Call(p).do \in {"send", "receive"}
      /\ Call(p).peer \in Parties /\ Call(p).peer # p /\ Call(p).msg_len \in Nat \ {0}
  BY ProgType DEF Call
<1>2. Out(p) = <<p, Call(p).peer>> /\ In(p) = <<Call(p).peer, p>>
  BY DEF Out, In
<1>3. Out(p) \in Links /\ In(p) \in Links
  BY <1>1, <1>2 DEF Links
<1>4. QED BY <1>1, <1>2, <1>3

\* A party that is in its program has the right peer at each socket.
LEMMA PeerRight ==
  ASSUME SetupInv, SocketsInv, DataType, NEW p \in Parties, at[p] \in 1 .. Len(prog[p]),
         stage[p] \in {"run", "send", "recv"}
  PROVE  Peer(p) = Call(p).peer /\ ToPeer(p) = Out(p) /\ FromPeer(p) = In(p)
<1>1. Call(p).peer \in Parties /\ Call(p).peer # p
  BY CallType
<1>2. pid[p] >= N /\ pid[p] \in 0 .. N
  BY DEF SocketsInv, SetupInv, SetupType
<1>3. Call(p).peer < pid[p]
  BY <1>1, <1>2, NAssumption DEF Parties
<1>4. Peer(p) = Call(p).peer
  BY <1>1, <1>3 DEF SocketsInv, Peer
<1>5. QED BY <1>4 DEF ToPeer, FromPeer, Out, In

LEMMA StreamTypes ==
  ASSUME DataType, NEW c \in Links
  PROVE  /\ sent[c] \in Seq(Seq(Bytes)) /\ Len(got[c]) \in Nat
         /\ Part(c) \in Seq(Bytes) /\ wire[c] \in Seq(Bytes)
<1>1. sent[c] \in Seq(Seq(Bytes)) /\ got[c] \in Seq(Seq(Bytes)) /\ wire[c] \in Seq(Bytes)
  BY DEF DataType
<1>2. buffer[c[2]] \in Seq(Bytes) /\ <<>> \in Seq(Bytes)
  BY LinkEnds DEF DataType
<1>3. QED BY <1>1, <1>2 DEF Part

\* The stream of a link that a step does not touch, and whose sender and receiver it
\* leaves where they are in their calls, stays in order.
LEMMA StreamKept ==
  ASSUME StreamInv, NEW d \in Links, Sound(d[2]),
         sent'[d] = sent[d], Len(got'[d]) = Len(got[d]), wire'[d] = wire[d],
         Part(d)' = Part(d), Sound(d[1])' => Sound(d[1]) /\ Rest(d)' = Rest(d)
  PROVE  (\E rest \in Nat, off \in [1 .. Len(sent[d]) + 1 -> Nat] : StreamOK(d, rest, off))'
<1>1. PICK rest \in Nat, off \in [1 .. Len(sent[d]) + 1 -> Nat] : StreamOK(d, rest, off)
  BY DEF StreamInv
<1>2. Stream(sent'[d], Len(got'[d]), Part(d)', wire'[d], rest, off)
  BY <1>1 DEF StreamOK
<1>3. Sound(d[1])' => rest = Rest(d)'
  BY <1>1 DEF StreamOK
<1>4. StreamOK(d, rest, off)'
  BY <1>2, <1>3 DEF StreamOK
<1>5. QED BY <1>1, <1>4

-----------------------------------------------------------------------------
\* The invariant holds at first, and each operation keeps it.

LEMMA DataInit == Init => DataInv
<1>1. SUFFICES ASSUME Init PROVE DataInv
  OBVIOUS
<1>2. /\ stage = [p \in Parties |-> "setup"] /\ at = [p \in Parties |-> 1]
      /\ reset = [p \in Parties |-> {}] /\ world \in Worlds /\ prog \in Programs
      /\ tries = [p \in Parties |-> 0] /\ totalsent = [p \in Parties |-> 0]
      /\ buffer = [p \in Parties |-> <<>>] /\ wire = [c \in Links |-> <<>>]
      /\ sent = [c \in Links |-> <<>>] /\ got = [c \in Links |-> <<>>]
  BY <1>1 DEF Init
<1>3. DataType
  <2>1. RETRY_CONNECT \in Nat \ {0}
    BY BoundAssumption
  <2>2. tries \in [Parties -> 0 .. RETRY_CONNECT - 1]
    BY <1>2, <2>1
  <2>3. buffer \in [Parties -> Seq(Bytes)] /\ wire \in [Links -> Seq(Bytes)]
    BY <1>2
  <2>4. sent \in [Links -> Seq(Seq(Bytes))] /\ got \in [Links -> Seq(Seq(Bytes))]
    BY <1>2
  <2>5. reset \in [Parties -> SUBSET Parties] /\ at \in [Parties -> Nat \ {0}] /\ totalsent \in [Parties -> Int]
    BY <1>2
  <2>6. QED BY <1>2, <2>2, <2>3, <2>4, <2>5 DEF DataType
<1>4. CallsInv
  <2>1. SUFFICES ASSUME NEW p \in Parties
                 PROVE  at[p] \in 1 .. Len(prog[p]) + 1 /\ stage[p] = "setup"
    BY DEF CallsInv
  <2>2. Len(prog[p]) \in Nat
    BY <1>3, ProgType
  <2>3. QED BY <1>2, <2>2
<1>5. CountsInv
  <2>1. SUFFICES ASSUME NEW c \in Links
                 PROVE  /\ Len(sent[c]) = Count(prog[c[1]], "send", c[2], Begun(c[1]))
                        /\ Len(got[c]) = Count(prog[c[2]], "receive", c[1], at[c[2]] - 1)
    BY DEF CountsInv
  <2>2. Len(sent[c]) = 0 /\ Len(got[c]) = 0 /\ Begun(c[1]) = 0 /\ at[c[2]] - 1 = 0
    BY <1>2, LinkEnds DEF Begun
  <2>3. /\ Count(prog[c[1]], "send", c[2], 0) \in 0 .. 0
        /\ Count(prog[c[2]], "receive", c[1], 0) \in 0 .. 0
    BY CountType
  <2>4. QED BY <2>2, <2>3
<1>6. JarsInv
  <2>1. \A c \in Links : Len(sent[c]) = 0
    BY <1>2
  <2>2. QED BY <2>1 DEF JarsInv
<1>7. ResetInv
  BY <1>2 DEF ResetInv
<1>8. StreamInv
  <2>1. SUFFICES ASSUME NEW c \in Links
                 PROVE  \E rest \in Nat, off \in [1 .. Len(sent[c]) + 1 -> Nat] : StreamOK(c, rest, off)
    BY DEF StreamInv
  <2> DEFINE off == [n \in 1 .. 1 |-> 0]
  <2>2. sent[c] = <<>> /\ got[c] = <<>> /\ wire[c] = <<>> /\ Part(c) = <<>> /\ Rest(c) = 0
    BY <1>2, LinkEnds DEF Part, Rest, ReceivingOn, SendingOn
  <2>3. Layout(0, Lengths(<<>>), 0, 0, <<>>, 0, <<>>, 0, off)
    BY DEF Layout
  <2>4. Stream(<<>>, 0, <<>>, <<>>, 0, off)
    <3> HIDE DEF off
    <3>1. Len(<<>>) = 0
      OBVIOUS
    <3>2. QED BY <2>3, <3>1 DEF Stream
  <2>5. StreamOK(c, 0, off)
    BY <2>2, <2>4 DEF StreamOK
  <2>6. off \in [1 .. Len(sent[c]) + 1 -> Nat]
    BY <2>2
  <2> HIDE DEF off
  <2>7. QED BY <2>5, <2>6
<1>9. QED BY <1>3, <1>4, <1>5, <1>6, <1>7, <1>8 DEF DataInv

\* A step of the set-up, or the end of a process.
LEMMA StageData ==
  ASSUME DataInv, stage \in [Parties -> Stages], NEW p \in Parties, NEW s,
         stage' = [stage EXCEPT ![p] = s],
         \/ s \in {"raised", "stopped"}
         \/ /\ stage[p] \in {"setup", "accept", "run"} /\ s \in {"setup", "accept", "run", "closed"}
            /\ s = "closed" => at[p] = Len(prog[p]) + 1,
         UNCHANGED <<world, prog, transfer>>,
         tries' \in [Parties -> 0 .. RETRY_CONNECT - 1]
  PROVE  DataInv'
<1>1. UNCHANGED <<world, prog, reset, at, totalsent, buffer, wire, sent, got>>
  BY DEF transfer
<1>2. stage'[p] = s /\ \A q \in Parties \ {p} : stage'[q] = stage[q]
  OBVIOUS
<1>3. \A q \in Parties : Sound(q)' => Sound(q)
  BY <1>2 DEF Sound
<1>4. DataType'
  BY <1>1 DEF DataInv, DataType
<1>5. CallsInv'
  <2>1. \A q \in Parties : Call(q)' = Call(q) /\ (SendingRight(q)' <=> SendingRight(q))
    BY <1>1 DEF SendingRight, Sending, Out, Call
  <2>2. QED BY <1>1, <1>2, <2>1 DEF DataInv, CallsInv
<1>6. \A q \in Parties : Sound(q)' => Begun(q)' = Begun(q)
  BY <1>1, <1>2 DEF Sound, Begun
<1>7. CountsInv'
  BY <1>1, <1>3, <1>6, LinkEnds DEF DataInv, CountsInv
<1>8. JarsInv'
  BY <1>1 DEF DataInv, JarsInv, SendsNth
<1>9. ResetInv'
  BY <1>1, <1>3 DEF DataInv, DataType, ResetInv
<1>10. StreamInv'
  <2>1. SUFFICES ASSUME NEW d \in Links, Sound(d[2])'
                 PROVE (\E rest \in Nat, off \in [1 .. Len(sent[d]) + 1 -> Nat] : StreamOK(d, rest, off))'
    BY DEF StreamInv
  <2>2. Sound(d[2])
    BY <1>3, <2>1, LinkEnds
  <2>3. Part(d)' = Part(d)
    <3>1. d[2] # p => stage'[d[2]] = stage[d[2]]
      BY <1>2, LinkEnds
    <3>2. d[2] = p => stage[p] # "recv" /\ stage'[p] # "recv"
      BY <1>2, <2>1 DEF Sound
    <3>3. ReceivingOn(d)' <=> ReceivingOn(d)
      BY <1>1, <3>1, <3>2 DEF ReceivingOn, In, Call
    <3>4. QED BY <1>1, <3>3 DEF Part
  <2>4. ASSUME Sound(d[1])' PROVE Sound(d[1]) /\ Rest(d)' = Rest(d)
    <3>1. d[1] # p => stage'[d[1]] = stage[d[1]]
      BY <1>2, LinkEnds
    <3>2. d[1] = p => stage[p] # "send" /\ stage'[p] # "send"
      BY <1>2, <2>4 DEF Sound
    <3>3. SendingOn(d)' <=> SendingOn(d)
      BY <1>1, <3>1, <3>2 DEF SendingOn, Out, Call
    <3>4. QED BY <1>1, <1>3, <2>4, <3>3, LinkEnds DEF Rest, Call
  <2>5. QED BY <1>1, <2>2, <2>3, <2>4, StreamKept DEF DataInv
<1>11. QED BY <1>4, <1>5, <1>7, <1>8, <1>9, <1>10 DEF DataInv

LEMMA JarType ==
  ASSUME NEW n \in Nat \ {0}, NEW m \in Nat
  PROVE  Jar(n, m) \in Seq(Bytes) /\ Len(Jar(n, m)) = m
<1>1. \A i \in 1 .. m : <<n, i>> \in Bytes
  BY DEF Bytes
<1>2. [i \in 1 .. m |-> <<n, i>>] \in Seq(Bytes) /\ Len([i \in 1 .. m |-> <<n, i>>]) = m
  BY <1>1
<1>3. QED BY <1>2 DEF Jar

\* snd_jar is called.
LEMMA BeginSendData ==
  ASSUME DataInv, stage \in [Parties -> Stages], NEW p \in Parties, stage[p] = "run",
         ~ Finished(p), Call(p).do = "send",
         sent' = [sent EXCEPT ![Out(p)] = Append(@, Jar(Len(@) + 1, Call(p).msg_len))],
         totalsent' = [totalsent EXCEPT ![p] = 0], stage' = [stage EXCEPT ![p] = "send"],
         UNCHANGED <<world, prog, tries, reset, at, buffer, wire, got>>
  PROVE  DataInv'
<1> DEFINE c == Out(p)
           jar == Jar(Len(sent[c]) + 1, Call(p).msg_len)
<1>1. at[p] \in 1 .. Len(prog[p])
  <2>1. at[p] \in 1 .. Len(prog[p]) + 1 /\ Len(prog[p]) \in Nat
    BY ProgType DEF DataInv, CallsInv
  <2>2. ~ (at[p] > Len(prog[p]))
    BY DEF Finished
  <2>3. QED BY <2>1, <2>2
<1>2. /\ c \in Links /\ c[1] = p /\ c[2] = Call(p).peer /\ c[2] \in Parties /\ c[2] # p
      /\ Call(p).msg_len \in Nat \ {0}
  BY <1>1, CallType DEF DataInv
<1> PICK m \in Nat \ {0} : m = Call(p).msg_len
  BY <1>2
<1>3. sent[c] \in Seq(Seq(Bytes)) /\ Len(sent[c]) \in Nat
  BY <1>2 DEF DataInv, DataType
<1>4. jar \in Seq(Bytes) /\ Len(jar) = m
  <2> DEFINE n == Len(sent[c]) + 1
  <2>1. n \in Nat \ {0} /\ m \in Nat /\ jar = Jar(n, m)
    BY <1>3
  <2> HIDE DEF n, jar
  <2>2. QED BY <2>1, JarType
<1>5. sent'[c] = Append(sent[c], jar) /\ \A d \in Links \ {c} : sent'[d] = sent[d]
  BY <1>2 DEF DataInv, DataType
<1>6. stage'[p] = "send" /\ \A q \in Parties \ {p} : stage'[q] = stage[q]
  OBVIOUS
<1>7. totalsent'[p] = 0 /\ \A q \in Parties \ {p} : totalsent'[q] = totalsent[q]
  BY DEF DataInv, DataType
<1>8. \A q \in Parties : Sound(q)' <=> Sound(q)
  BY <1>6 DEF Sound
<1> HIDE DEF jar, c
<1>9. DataType'
  <2>1. Append(sent[c], jar) \in Seq(Seq(Bytes))
    BY <1>3, <1>4
  <2>2. sent' = [sent EXCEPT ![c] = Append(sent[c], jar)]
    BY DEF c, jar
  <2>3. sent' \in [Links -> Seq(Seq(Bytes))]
    BY <2>1, <2>2 DEF DataInv, DataType
  <2>4. totalsent' \in [Parties -> Int]
    BY DEF DataInv, DataType
  <2>5. QED BY <2>3, <2>4 DEF DataInv, DataType
<1>10. CallsInv'
  <2>1. \A q \in Parties : Call(q)' = Call(q) /\ Out(q)' = Out(q)
    BY DEF Out, Call
  <2>2. ASSUME NEW q \in Parties, q # p, at[q] <= Len(prog[q]) PROVE SendingRight(q)' <=> SendingRight(q)
    <3>1. at[q] \in 1 .. Len(prog[q])
      BY <2>2, ProgType DEF DataInv, CallsInv
    <3>2. Out(q) \in Links /\ Out(q)[1] = q
      BY <3>1, CallType DEF DataInv
    <3>3. sent'[Out(q)] = sent[Out(q)]
      BY <1>2, <1>5, <2>2, <3>2
    <3>4. QED BY <1>7, <2>1, <2>2, <3>3 DEF SendingRight, Sending
  <2>3. SendingRight(p)'
    <3>1. sent'[c] # <<>> /\ Len(sent'[c]) = Len(sent[c]) + 1 /\ sent'[c][Len(sent'[c])] = jar
      <4>1. Len(sent'[c]) = Len(sent[c]) + 1
        BY <1>3, <1>4, <1>5
      <4>2. sent'[c][Len(sent[c]) + 1] = jar
        BY <1>3, <1>4, <1>5
      <4>3. sent'[c] # <<>>
        BY <1>3, <4>1
      <4>4. QED BY <4>1, <4>2, <4>3
    <3>2. Out(p)' = c /\ Call(p)'.msg_len = m
      BY <2>1 DEF c
    <3>3. Sending(p)' = jar /\ jar = Jar(Len(sent'[c]), m)
      BY <3>1, <3>2 DEF Sending, jar
    <3>4. QED BY <1>7, <3>1, <3>2, <3>3 DEF SendingRight
  <2>4. QED BY <1>1, <1>6, <2>1, <2>2, <2>3 DEF DataInv, CallsInv
<1>11. CountsInv'
  <2>1. SUFFICES ASSUME NEW d \in Links
                 PROVE  /\ Sound(d[1]) => Len(sent'[d]) = Count(prog[d[1]], "send", d[2], Begun(d[1])')
                        /\ Sound(d[2]) => Len(got[d]) = Count(prog[d[2]], "receive", d[1], at[d[2]] - 1)
    BY <1>8, LinkEnds DEF CountsInv
  <2>2. Sound(d[2]) => Len(got[d]) = Count(prog[d[2]], "receive", d[1], at[d[2]] - 1)
    BY DEF DataInv, CountsInv
  <2>3. CASE d[1] # p
    <3>1. Begun(d[1])' = Begun(d[1])
      BY <1>6, <2>3, LinkEnds DEF Begun
    <3>2. sent'[d] = sent[d]
      BY <1>2, <1>5, <2>3
    <3>3. QED BY <2>2, <3>1, <3>2 DEF DataInv, CountsInv
  <2>4. CASE d[1] = p
    <3>1. Begun(p)' = at[p] /\ Begun(p) = at[p] - 1
      BY <1>6 DEF Begun
    <3>2. Sound(p)
      BY DEF Sound
    <3>3. Len(sent[d]) = Count(prog[p], "send", d[2], at[p] - 1)
      BY <2>4, <3>1, <3>2 DEF DataInv, CountsInv
    <3>4. at[p] \in Nat \ {0}
      BY <1>1
    <3>5. Count(prog[p], "send", d[2], at[p]) =
            Count(prog[p], "send", d[2], at[p] - 1) + (IF d[2] = c[2] THEN 1 ELSE 0)
      BY <1>2, <3>4, CountStep DEF Call
    <3>6. CASE d = c
      <4>1. Len(sent'[d]) = Len(sent[d]) + 1
        BY <1>3, <1>4, <1>5, <3>6
      <4>2. QED BY <2>2, <2>4, <3>1, <3>3, <3>5, <3>6, <4>1
    <3>7. CASE d # c
      <4>1. d[2] # c[2]
        BY <1>2, <2>4, <3>7, LinkEnds
      <4>2. sent'[d] = sent[d]
        BY <1>5, <3>7
      <4>3. Count(prog[p], "send", d[2], at[p] - 1) \in Nat
        <5> DEFINE i == at[p] - 1
        <5>1. i \in Nat
          BY <3>4
        <5> HIDE DEF i
        <5>2. Count(prog[p], "send", d[2], i) \in 0 .. i
          BY <5>1, CountType
        <5>3. Count(prog[p], "send", d[2], i) \in Nat
          BY <5>1, <5>2
        <5>4. QED BY <5>3 DEF i
      <4>4. Count(prog[p], "send", d[2], at[p]) = Count(prog[p], "send", d[2], at[p] - 1)
        <5> DEFINE u == Count(prog[p], "send", d[2], at[p] - 1)
        <5> HIDE DEF u
        <5>1. QED BY <3>5, <4>1, <4>3 DEF u
      <4>5. QED BY <2>2, <2>4, <3>1, <3>3, <4>2, <4>4
    <3>8. QED BY <3>6, <3>7
  <2>5. QED BY <2>3, <2>4
<1>12. JarsInv'
  <2>1. SUFFICES ASSUME NEW d \in Links, NEW n \in 1 .. Len(sent'[d])
                 PROVE  \E i \in 1 .. Len(prog[d[1]]) :
                          SendsNth(d, n, i) /\ sent'[d][n] = Jar(n, prog[d[1]][i].msg_len)
    BY DEF JarsInv, SendsNth
  <2>2. CASE d # c \/ n # Len(sent[c]) + 1
    <3>1. n \in 1 .. Len(sent[d]) /\ sent'[d][n] = sent[d][n]
      BY <1>3, <1>4, <1>5, <2>2
    <3>2. QED BY <3>1 DEF DataInv, JarsInv
  <2>3. CASE d = c /\ n = Len(sent[c]) + 1
    <3>1. sent'[d][n] = jar
      BY <1>3, <1>4, <1>5, <2>3
    <3>2. Sound(p) /\ Begun(p) = at[p] - 1
      BY DEF Sound, Begun
    <3>3. Len(sent[c]) = Count(prog[p], "send", c[2], at[p] - 1)
      BY <1>2, <3>2 DEF DataInv, CountsInv
    <3>4. Count(prog[p], "send", c[2], at[p]) = Count(prog[p], "send", c[2], at[p] - 1) + 1
      <4>1. at[p] \in Nat \ {0}
        BY <1>1
      <4>2. QED BY <1>2, <4>1, CountStep DEF Call
    <3>5. SendsNth(d, n, at[p])
      BY <1>2, <2>3, <3>3, <3>4 DEF SendsNth, Call
    <3>6. jar = Jar(n, prog[d[1]][at[p]].msg_len)
      BY <1>2, <2>3 DEF jar, Call
    <3>7. QED BY <1>1, <1>2, <2>3, <3>1, <3>5, <3>6
  <2>4. QED BY <2>2, <2>3
<1>13. ResetInv'
  BY <1>8 DEF DataInv, DataType, ResetInv
<1>14. StreamInv'
  <2>1. SUFFICES ASSUME NEW d \in Links, Sound(d[2])'
                 PROVE (\E rest \in Nat, off \in [1 .. Len(sent[d]) + 1 -> Nat] : StreamOK(d, rest, off))'
    BY DEF StreamInv
  <2>2. Sound(d[2])
    BY <1>8, <2>1, LinkEnds
  <2>3. Part(d)' = Part(d)
    BY <1>6, LinkEnds DEF Part, ReceivingOn, In, Call
  <2>4. CASE d # c
    <3>1. sent'[d] = sent[d]
      BY <1>5, <2>4
    <3>2. Rest(d)' = Rest(d)
      <4>1. CASE d[1] = p
        BY <1>6, <2>4, <4>1 DEF Rest, SendingOn, Out, Call, c
      <4>2. CASE d[1] # p
        BY <1>6, <1>7, <4>2, LinkEnds DEF Rest, SendingOn, Out, Call
      <4>3. QED BY <4>1, <4>2
    <3>3. QED BY <1>8, <2>2, <2>3, <3>1, <3>2, LinkEnds, StreamKept DEF DataInv
  <2>5. CASE d = c
    <3>1. PICK rest \in Nat, off \in [1 .. Len(sent[c]) + 1 -> Nat] : StreamOK(c, rest, off)
      BY <2>2, <2>5 DEF DataInv, StreamInv
    <3>2. rest = 0
      BY <1>2, <3>1 DEF StreamOK, Rest, SendingOn, Sound
    <3>3. Stream(sent[c], Len(got[c]), Part(c), wire[c], 0, off)
      BY <3>1, <3>2 DEF StreamOK
    <3>4. sent[c] \in Seq(Seq(Bytes)) /\ Len(got[c]) \in Nat /\ Part(c) \in Seq(Bytes) /\ wire[c] \in Seq(Bytes)
      BY <1>2, StreamTypes DEF DataInv
    <3>5. PICK off2 \in [1 .. Len(Append(sent[c], jar)) + 1 -> Nat] :
                 Stream(Append(sent[c], jar), Len(got[c]), Part(c), wire[c], Len(jar), off2)
      BY <1>4, <3>3, <3>4, StreamPut
    <3>6. Rest(d)' = m
      <4>1. SendingOn(d)'
        BY <1>2, <1>6, <2>5 DEF SendingOn, Out, Call, c
      <4>2. Call(p)' = Call(p)
        BY DEF Call
      <4>3. Rest(d)' = Call(p)'.msg_len - totalsent'[p]
        BY <1>2, <2>5, <4>1 DEF Rest
      <4>4. QED BY <1>7, <4>2, <4>3
    <3>7. StreamOK(d, m, off2)'
      <4>1. Stream(sent'[d], Len(got'[d]), Part(d)', wire'[d], m, off2)
        BY <1>4, <1>5, <2>3, <2>5, <3>5
      <4>2. QED BY <3>6, <4>1 DEF StreamOK
    <3>8. m \in Nat /\ off2 \in [1 .. Len(sent'[d]) + 1 -> Nat]
      BY <1>5, <2>5, <3>5
    <3>9. QED BY <3>7, <3>8
  <2>6. QED BY <2>4, <2>5
<1>15. QED BY <1>9, <1>10, <1>11, <1>12, <1>13, <1>14 DEF DataInv

\* receive_jar is called.
LEMMA BeginReceiveData ==
  ASSUME DataInv, stage \in [Parties -> Stages], NEW p \in Parties, stage[p] = "run",
         ~ Finished(p), Call(p).do = "receive",
         buffer' = [buffer EXCEPT ![p] = <<>>], stage' = [stage EXCEPT ![p] = "recv"],
         UNCHANGED <<world, prog, tries, reset, at, totalsent, wire, sent, got>>
  PROVE  DataInv'
<1>1. at[p] \in 1 .. Len(prog[p])
  <2>1. at[p] \in 1 .. Len(prog[p]) + 1 /\ Len(prog[p]) \in Nat
    BY ProgType DEF DataInv, CallsInv
  <2>2. ~ (at[p] > Len(prog[p]))
    BY DEF Finished
  <2>3. QED BY <2>1, <2>2
<1>2. stage'[p] = "recv" /\ \A q \in Parties \ {p} : stage'[q] = stage[q]
  OBVIOUS
<1>3. buffer'[p] = <<>> /\ \A q \in Parties \ {p} : buffer'[q] = buffer[q]
  BY DEF DataInv, DataType
<1>4. \A q \in Parties : (Sound(q)' <=> Sound(q)) /\ Begun(q)' = Begun(q)
  BY <1>2 DEF Sound, Begun
<1>5. DataType'
  <2>1. buffer' \in [Parties -> Seq(Bytes)]
    BY DEF DataInv, DataType
  <2>2. QED BY <2>1 DEF DataInv, DataType
<1>6. CallsInv'
  <2>1. \A q \in Parties : Call(q)' = Call(q) /\ (SendingRight(q)' <=> SendingRight(q))
    BY DEF SendingRight, Sending, Out, Call
  <2>2. Call(p).msg_len \in Nat
    BY <1>1, CallType DEF DataInv
  <2>3. QED BY <1>1, <1>2, <1>3, <2>1, <2>2 DEF DataInv, CallsInv
<1>7. CountsInv'
  BY <1>4, LinkEnds DEF DataInv, CountsInv
<1>8. JarsInv'
  BY DEF DataInv, JarsInv, SendsNth
<1>9. ResetInv'
  BY <1>4 DEF DataInv, DataType, ResetInv
<1>10. StreamInv'
  <2>1. SUFFICES ASSUME NEW d \in Links, Sound(d[2])'
                 PROVE (\E rest \in Nat, off \in [1 .. Len(sent[d]) + 1 -> Nat] : StreamOK(d, rest, off))'
    BY DEF StreamInv
  <2>2. Sound(d[2])
    BY <1>4, <2>1, LinkEnds
  <2>3. Part(d)' = Part(d)
    <3>1. CASE d[2] = p
      BY <1>2, <1>3, <3>1 DEF Part, ReceivingOn
    <3>2. CASE d[2] # p
      BY <1>2, <1>3, <3>2, LinkEnds DEF Part, ReceivingOn, In, Call
    <3>3. QED BY <3>1, <3>2
  <2>4. Rest(d)' = Rest(d)
    BY <1>2, LinkEnds DEF Rest, SendingOn, Out, Call
  <2>5. QED BY <1>4, <2>2, <2>3, <2>4, LinkEnds, StreamKept DEF DataInv
<1>11. QED BY <1>5, <1>6, <1>7, <1>8, <1>9, <1>10 DEF DataInv

\* A party that has closed its sockets has taken what there was for it.
LEMMA ClosedTaken ==
  ASSUME DataInv, NEW c \in Links, stage[c[2]] = "closed", Sound(c[1])
  PROVE  Len(got[c]) >= Len(sent[c]) /\ wire[c] = <<>> /\ Rest(c) = 0
<1>1. c[1] \in Parties /\ c[2] \in Parties
  BY LinkEnds
<1> DEFINE p == c[1]
           q == c[2]
           n == Len(prog[p])
<1>2. Sound(q) /\ at[q] = Len(prog[q]) + 1 /\ Len(prog[q]) \in Nat /\ n \in Nat
  BY <1>1, ProgType DEF Sound, DataInv, CallsInv
<1>3. Len(got[c]) = Count(prog[q], "receive", p, Len(prog[q]))
  <2>1. at[q] - 1 = Len(prog[q])
    BY <1>2
  <2>2. Len(got[c]) = Count(prog[q], "receive", p, at[q] - 1)
    BY <1>2 DEF DataInv, CountsInv
  <2>3. QED BY <2>1, <2>2
<1>4. Count(prog[p], "send", q, n) = Count(prog[q], "receive", p, Len(prog[q]))
  BY <1>1, ProgType DEF DataInv, Matching
<1>5. Begun(p) \in Nat /\ Begun(p) <= n
  <2>1. at[p] \in 1 .. n + 1 /\ (stage[p] = "send" => at[p] <= n)
    BY <1>1 DEF DataInv, CallsInv
  <2>2. QED BY <1>2, <2>1 DEF Begun
<1>6. Len(sent[c]) <= Len(got[c])
  <2>1. Len(sent[c]) = Count(prog[p], "send", q, Begun(p))
    BY DEF DataInv, CountsInv
  <2>2. Count(prog[p], "send", q, Begun(p)) <= Count(prog[p], "send", q, n)
    BY <1>2, <1>5, CountGrows
  <2>3. QED BY <1>3, <1>4, <2>1, <2>2
<1>7. PICK rest \in Nat, off \in [1 .. Len(sent[c]) + 1 -> Nat] : StreamOK(c, rest, off)
  BY <1>2 DEF DataInv, StreamInv
<1>8. rest = Rest(c) /\ Stream(sent[c], Len(got[c]), Part(c), wire[c], rest, off)
  BY <1>7 DEF StreamOK
<1>9. /\ sent[c] \in Seq(Seq(Bytes)) /\ Len(got[c]) \in Nat
      /\ Part(c) \in Seq(Bytes) /\ wire[c] \in Seq(Bytes)
  BY StreamTypes DEF DataInv
<1>10. Len(sent[c]) \in Nat /\ ~ (Len(got[c]) < Len(sent[c]))
  BY <1>6, <1>9
<1>11. ~ (wire[c] # <<>> \/ rest > 0)
  BY <1>8, <1>9, <1>10, StreamAhead
<1>12. rest = 0
  BY <1>11
<1>13. QED BY <1>6, <1>8, <1>9, <1>11, <1>12

\* The jar that p waits for, once it is put, is as long as p asks.
LEMMA NextJar ==
  ASSUME DataInv, NEW p \in Parties, stage[p] = "recv", Len(got[In(p)]) < Len(sent[In(p)])
  PROVE  sent[In(p)][Len(got[In(p)]) + 1] = Jar(Len(got[In(p)]) + 1, Call(p).msg_len)
<1>1. at[p] \in 1 .. Len(prog[p]) /\ Call(p).do = "receive"
  BY ProgType DEF DataInv, CallsInv
<1> DEFINE c == In(p)
           n == Len(got[c]) + 1
<1>2. c \in Links /\ c[1] = Call(p).peer /\ c[2] = p /\ c[1] \in Parties
  BY <1>1, CallType DEF DataInv
<1>3. Len(got[c]) \in Nat /\ Len(sent[c]) \in Nat
  <2>1. sent[c] \in Seq(Seq(Bytes)) /\ Len(got[c]) \in Nat
    BY <1>2, StreamTypes DEF DataInv
  <2>2. QED BY <2>1
<1>4. n \in 1 .. Len(sent[c])
  BY <1>3
<1>5. Count(prog[p], "receive", c[1], at[p]) = n
  <2>1. Len(got[c]) = Count(prog[p], "receive", c[1], at[p] - 1)
    BY <1>2 DEF DataInv, CountsInv, Sound
  <2>2. at[p] \in Nat \ {0}
    BY <1>1
  <2>3. Count(prog[p], "receive", c[1], at[p]) = Count(prog[p], "receive", c[1], at[p] - 1) + 1
    BY <1>1, <1>2, <2>2, CountStep DEF Call
  <2>4. QED BY <2>1, <2>3
<1> HIDE DEF n, c
<1>6. PICK i \in 1 .. Len(prog[c[1]]) : SendsNth(c, n, i) /\ sent[c][n] = Jar(n, prog[c[1]][i].msg_len)
  BY <1>2, <1>4 DEF DataInv, JarsInv
<1>7. prog[c[1]][i].msg_len = prog[p][at[p]].msg_len
  <2>1. Matching(prog)
    BY <1>2, ProgType DEF DataInv
  <2>2. /\ prog[c[1]][i].do = "send" /\ prog[c[1]][i].peer = p
        /\ prog[p][at[p]].do = "receive" /\ prog[p][at[p]].peer = c[1]
        /\ Count(prog[c[1]], "send", p, i) = Count(prog[p], "receive", c[1], at[p])
    BY <1>1, <1>2, <1>5, <1>6 DEF SendsNth, Call
  <2>3. QED BY <1>1, <1>2, <2>1, <2>2 DEF Matching
<1>8. QED BY <1>6, <1>7 DEF n, c, Call

\* What send has still to do, when whoever receives has not gone before its time.
LEMMA SendData ==
  ASSUME SetupInv, SocketsInv, DataInv, NEW p \in Parties, Send(p)
  PROVE  DataInv'
<1>1. stage[p] = "send" /\ at[p] \in 1 .. Len(prog[p]) /\ Call(p).do = "send" /\ SendingRight(p)
  BY ProgType DEF Send, DataInv, CallsInv
<1> DEFINE c == Out(p)
<1>2. /\ c \in Links /\ c[1] = p /\ c[2] = Call(p).peer /\ c[2] \in Parties /\ c[2] # p
      /\ Call(p).msg_len \in Nat \ {0}
  BY <1>1, CallType DEF DataInv
<1>3. Peer(p) = Call(p).peer /\ ToPeer(p) = c
  BY <1>1, PeerRight DEF DataInv
<1> PICK m \in Nat \ {0}, t \in Int : m = Call(p).msg_len /\ t = totalsent[p]
  BY <1>2 DEF DataInv, DataType
<1> DEFINE s == sent[c]
           jar == s[Len(s)]
<1>4. s \in Seq(Seq(Bytes)) /\ s # <<>> /\ jar = Jar(Len(s), m)
  BY <1>1, <1>2 DEF SendingRight, Sending, DataInv, DataType
<1>5. jar \in Seq(Bytes) /\ Len(jar) = m
  <2> DEFINE n == Len(s)
  <2>1. n \in Nat \ {0} /\ jar = Jar(n, m)
    BY <1>4
  <2> HIDE DEF n, jar
  <2>2. QED BY <2>1, JarType
<1>6. t < m /\ t >= 0
  BY <1>1, <1>3 DEF Send, SendingRight
<1>7. PICK k \in 1 .. m - t :
        /\ wire' = [wire EXCEPT ![c] = @ \o SubSeq(jar, t + 1, t + k)]
        /\ totalsent' = [totalsent EXCEPT ![p] = @ + k]
  BY <1>3 DEF Send, Sending
<1>8. UNCHANGED <<world, prog, stage, tries, reset, at, buffer, sent, got>>
  BY DEF Send, setup
<1> DEFINE x == SubSeq(jar, t + 1, t + k)
<1>9. x \in Seq(Bytes)
  <2>1. t + 1 \in Nat /\ t + k <= m /\ t + 1 >= 1 /\ t + k \in Nat
    BY <1>6
  <2> HIDE DEF jar
  <2>2. QED BY <1>5, <2>1
<1>10. wire[c] \in Seq(Bytes)
  BY <1>2 DEF DataInv, DataType
<1> HIDE DEF jar, x, s, c
<1>11. wire'[c] = wire[c] \o x /\ \A d \in Links \ {c} : wire'[d] = wire[d]
  BY <1>2, <1>7 DEF DataInv, DataType, x
<1>12. totalsent'[p] = t + k /\ \A q \in Parties \ {p} : totalsent'[q] = totalsent[q]
  BY <1>7 DEF DataInv, DataType
<1>13. DataType'
  <2>1. wire[c] \o x \in Seq(Bytes)
    BY <1>9, <1>10
  <2>2. wire' = [wire EXCEPT ![c] = wire[c] \o x]
    BY <1>7 DEF x
  <2>3. wire' \in [Links -> Seq(Bytes)]
    BY <2>1, <2>2 DEF DataInv, DataType
  <2>4. totalsent' \in [Parties -> Int]
    BY <1>7 DEF DataInv, DataType
  <2>5. QED BY <1>8, <2>3, <2>4 DEF DataInv, DataType
<1>14. CallsInv'
  <2>1. \A q \in Parties : Call(q)' = Call(q) /\ Out(q)' = Out(q) /\ Sending(q)' = Sending(q)
    BY <1>8 DEF Sending, Out, Call
  <2>2. totalsent'[p] >= 0
    BY <1>6, <1>12
  <2>3. \A q \in Parties : SendingRight(q) => SendingRight(q)'
    BY <1>8, <1>12, <2>1, <2>2 DEF SendingRight
  <2>4. QED BY <1>8, <2>1, <2>3 DEF DataInv, CallsInv
<1>15. CountsInv' /\ JarsInv' /\ ResetInv'
  BY <1>8 DEF DataInv, CountsInv, Sound, Begun, JarsInv, SendsNth, ResetInv
<1>16. StreamInv'
  <2>1. SUFFICES ASSUME NEW d \in Links, Sound(d[2])'
                 PROVE (\E rest \in Nat, off \in [1 .. Len(sent[d]) + 1 -> Nat] : StreamOK(d, rest, off))'
    BY DEF StreamInv
  <2>2. \A q \in Parties : (Sound(q)' <=> Sound(q)) /\ Call(q)' = Call(q) /\ Out(q)' = Out(q)
    BY <1>8 DEF Sound, Call, Out
  <2>3. Sound(d[2])
    BY <2>1, <2>2, LinkEnds
  <2>4. Part(d)' = Part(d)
    BY <1>8 DEF Part, ReceivingOn, In, Call
  <2>5. CASE d # c
    <3>1. Rest(d)' = Rest(d)
      <4>1. CASE d[1] = p
        BY <2>2, <2>5, <4>1 DEF Rest, SendingOn, c
      <4>2. CASE d[1] # p
        BY <1>8, <1>12, <2>2, <4>2, LinkEnds DEF Rest, SendingOn
      <4>3. QED BY <4>1, <4>2
    <3>2. wire'[d] = wire[d]
      BY <1>11, <2>5
    <3>3. QED BY <1>8, <2>2, <2>3, <2>4, <3>1, <3>2, LinkEnds, StreamKept DEF DataInv
  <2>6. CASE d = c
    <3>1. PICK rest \in Nat, off \in [1 .. Len(s) + 1 -> Nat] : StreamOK(c, rest, off)
      BY <2>3, <2>6 DEF DataInv, StreamInv, s
    <3>2. rest = m - t
      <4>1. Sound(c[1]) /\ SendingOn(c)
        BY <1>1, <1>2 DEF Sound, SendingOn, c
      <4>2. Rest(c) = m - t
        BY <1>2, <4>1 DEF Rest
      <4>3. QED BY <3>1, <4>1, <4>2 DEF StreamOK
    <3>3. Stream(s, Len(got[c]), Part(c), wire[c], rest, off)
      BY <3>1 DEF StreamOK, s
    <3>4. Len(got[c]) \in Nat /\ Part(c) \in Seq(Bytes)
      BY <1>2, StreamTypes DEF DataInv
    <3>5. Stream(s, Len(got[c]), Part(c), wire[c] \o x, rest - k, off)
      <4>1. t \in Nat
        BY <1>6
      <4>2. k \in 1 .. rest /\ s[Len(s)] = Jar(Len(s), m)
        BY <1>4, <3>2 DEF jar
      <4>3. x = SubSeq(s[Len(s)], t + 1, t + k)
        BY DEF x, jar
      <4>4. QED BY <1>4, <1>10, <3>2, <3>3, <3>4, <4>1, <4>2, <4>3, StreamSend
    <3>6. rest - k \in Nat
      BY <1>6, <3>2
    <3> PICK r \in Nat : r = rest - k
      BY <3>6
    <3>7. Rest(d)' = r
      <4>1. SendingOn(d)'
        BY <1>1, <1>2, <1>8, <2>2, <2>6 DEF SendingOn, c
      <4>2. Rest(d)' = Call(p)'.msg_len - totalsent'[p]
        BY <1>2, <2>6, <4>1 DEF Rest
      <4>3. QED BY <1>12, <2>2, <3>2, <4>2
    <3>8. Stream(sent'[d], Len(got'[d]), Part(d)', wire'[d], r, off)
      BY <1>8, <1>11, <2>4, <2>6, <3>5 DEF s
    <3>9. StreamOK(d, r, off)'
      BY <3>7, <3>8 DEF StreamOK
    <3>10. off \in [1 .. Len(sent'[d]) + 1 -> Nat]
      BY <1>8, <2>6 DEF s
    <3>11. QED BY <3>9, <3>10
  <2>7. QED BY <2>5, <2>6
<1>17. QED BY <1>13, <1>14, <1>15, <1>16 DEF DataInv

\* An error is only reported when whoever receives is gone before its time.
LEMMA SendErrorData ==
  ASSUME SetupInv, SocketsInv, DataInv, NEW p \in Parties, SendError(p)
  PROVE  DataInv'
<1>1. stage[p] = "send" /\ at[p] \in 1 .. Len(prog[p]) /\ Call(p).do = "send" /\ SendingRight(p)
  BY ProgType DEF SendError, DataInv, CallsInv
<1> DEFINE c == Out(p)
           q == Call(p).peer
<1>2. c \in Links /\ c[1] = p /\ c[2] = q /\ q \in Parties /\ q # p
  BY <1>1, CallType DEF DataInv
<1>3. Peer(p) = q /\ ToPeer(p) = c
  BY <1>1, PeerRight DEF DataInv
<1>4. ~ Sound(q)
  <2>1. CASE q \in reset[p]
    BY <2>1 DEF DataInv, ResetInv
  <2>2. CASE Broken(p)
    <3>1. stage[q] \in {"closed", "raised", "stopped"} /\ wire[c] # <<>>
      BY <1>3, <2>2 DEF Broken, Gone
    <3>2. Sound(c[1])
      BY <1>1, <1>2 DEF Sound
    <3>3. stage[q] # "closed"
      BY <1>2, <3>1, <3>2, ClosedTaken
    <3>4. QED BY <3>1, <3>3 DEF Sound
  <2>3. QED BY <1>3, <2>1, <2>2 DEF SendError
<1>5. UNCHANGED <<world, prog, stage, tries, at, buffer, wire, sent, got>>
  BY DEF SendError, setup
<1>6. /\ reset' = [reset EXCEPT ![p] = @ \cup {q}]
      /\ totalsent' = [totalsent EXCEPT ![p] = IF @ > Lowest THEN @ - 1 ELSE @]
  BY <1>3 DEF SendError
<1>7. \A a \in Parties : (Sound(a)' <=> Sound(a)) /\ Call(a)' = Call(a) /\ Out(a)' = Out(a)
                         /\ Sending(a)' = Sending(a)
  BY <1>5 DEF Sound, Sending, Call, Out
<1> HIDE DEF c, q
<1>8. reset'[p] = reset[p] \cup {q} /\ \A a \in Parties \ {p} : reset'[a] = reset[a] /\ totalsent'[a] = totalsent[a]
  BY <1>6 DEF DataInv, DataType
<1>9. DataType'
  <2>1. reset' \in [Parties -> SUBSET Parties]
    BY <1>2, <1>6 DEF DataInv, DataType
  <2>2. totalsent' \in [Parties -> Int]
    BY <1>6 DEF DataInv, DataType
  <2>3. QED BY <1>5, <2>1, <2>2 DEF DataInv, DataType
<1>10. CallsInv'
  <2>1. \A a \in Parties : SendingRight(a) => SendingRight(a)'
    BY <1>5, <1>7, <1>8 DEF SendingRight, q
  <2>2. QED BY <1>5, <1>7, <2>1 DEF DataInv, CallsInv
<1>11. CountsInv' /\ JarsInv'
  BY <1>5 DEF DataInv, CountsInv, Sound, Begun, JarsInv, SendsNth
<1>12. ResetInv'
  <2>1. SUFFICES ASSUME NEW a \in Parties, NEW b \in reset'[a] PROVE ~ Sound(b)'
    BY DEF ResetInv
  <2>2. b \in Parties /\ ~ Sound(b)
    <3>1. CASE a = p /\ b = q
      BY <1>2, <1>4, <3>1
    <3>2. CASE b \in reset[a]
      BY <3>2 DEF DataInv, DataType, ResetInv
    <3>3. QED BY <1>8, <2>1, <3>1, <3>2
  <2>3. QED BY <1>7, <2>2
<1>13. StreamInv'
  <2>1. SUFFICES ASSUME NEW d \in Links, Sound(d[2])'
                 PROVE (\E rest \in Nat, off \in [1 .. Len(sent[d]) + 1 -> Nat] : StreamOK(d, rest, off))'
    BY DEF StreamInv
  <2>2. Sound(d[2]) /\ d # c
    BY <1>2, <1>4, <1>7, <2>1, LinkEnds
  <2>3. Part(d)' = Part(d)
    BY <1>5 DEF Part, ReceivingOn, In, Call
  <2>4. Rest(d)' = Rest(d)
    <3>1. CASE d[1] = p
      BY <1>7, <2>2, <3>1 DEF Rest, SendingOn, c
    <3>2. CASE d[1] # p
      BY <1>5, <1>7, <1>8, <3>2, LinkEnds DEF Rest, SendingOn
    <3>3. QED BY <3>1, <3>2
  <2>5. QED BY <1>5, <1>7, <2>2, <2>3, <2>4, LinkEnds, StreamKept DEF DataInv
<1>14. QED BY <1>9, <1>10, <1>11, <1>12, <1>13 DEF DataInv

LEMMA SendReturnsData ==
  ASSUME DataInv, stage \in [Parties -> Stages], NEW p \in Parties, SendReturns(p)
  PROVE  DataInv'
<1>1. stage[p] = "send" /\ at[p] \in 1 .. Len(prog[p]) /\ Call(p).do = "send"
  BY ProgType DEF SendReturns, DataInv, CallsInv
<1> DEFINE c == Out(p)
<1>2. c \in Links /\ c[1] = p /\ c[2] = Call(p).peer /\ Call(p).msg_len \in Nat \ {0}
  BY <1>1, CallType DEF DataInv
<1>3. UNCHANGED <<world, prog, tries, reset, buffer, wire, sent, got>>
  BY DEF SendReturns, setup
<1>4. /\ at' = [at EXCEPT ![p] = @ + 1] /\ totalsent' = [totalsent EXCEPT ![p] = 0]
      /\ stage' = [stage EXCEPT ![p] = "run"] /\ totalsent[p] >= Call(p).msg_len
  BY DEF SendReturns, Goto
<1>5. \A a \in Parties \ {p} : /\ at'[a] = at[a] /\ totalsent'[a] = totalsent[a] /\ stage'[a] = stage[a]
                               /\ Call(a)' = Call(a) /\ Out(a)' = Out(a) /\ In(a)' = In(a)
  <2>1. \A a \in Parties \ {p} : at'[a] = at[a] /\ totalsent'[a] = totalsent[a] /\ stage'[a] = stage[a]
    BY <1>4 DEF DataInv, DataType
  <2>2. QED BY <1>3, <2>1 DEF Call, Out, In
<1>6. stage'[p] = "run" /\ at'[p] = at[p] + 1 /\ at[p] \in Nat
  <2>1. at'[p] = at[p] + 1
    BY <1>4 DEF DataInv, DataType
  <2>2. QED BY <1>1, <1>4, <2>1
<1>7. \A a \in Parties : (Sound(a)' <=> Sound(a)) /\ Begun(a)' = Begun(a)
  BY <1>1, <1>5, <1>6 DEF Sound, Begun
<1> HIDE DEF c
<1>8. DataType'
  <2>1. totalsent' \in [Parties -> Int]
    BY <1>4 DEF DataInv, DataType
  <2>2. at' \in [Parties -> Nat \ {0}]
    BY <1>4 DEF DataInv, DataType
  <2>3. QED BY <1>3, <2>1, <2>2 DEF DataInv, DataType
<1>9. CallsInv'
  <2>1. \A a \in Parties \ {p} : SendingRight(a)' <=> SendingRight(a)
    BY <1>3, <1>5 DEF SendingRight, Sending
  <2>2. at'[p] \in 1 .. Len(prog'[p]) + 1
    <3>1. Len(prog[p]) \in Nat
      BY ProgType DEF DataInv
    <3>2. QED BY <1>1, <1>3, <1>6, <3>1
  <2>3. QED BY <1>3, <1>5, <1>6, <2>1, <2>2 DEF DataInv, CallsInv
<1>10. CountsInv'
  <2>1. SUFFICES ASSUME NEW d \in Links
                 PROVE  /\ Sound(d[1]) => Len(sent[d]) = Count(prog[d[1]], "send", d[2], Begun(d[1]))
                        /\ Sound(d[2]) => Len(got[d]) = Count(prog[d[2]], "receive", d[1], at'[d[2]] - 1)
    BY <1>3, <1>7, LinkEnds DEF CountsInv
  <2>2. CASE d[2] # p
    BY <1>5, <2>2, LinkEnds DEF DataInv, CountsInv
  <2>3. CASE d[2] = p
    <3>1. Sound(p) => Len(got[d]) = Count(prog[p], "receive", d[1], at[p] - 1)
      BY <2>3 DEF DataInv, CountsInv
    <3>2. Count(prog[p], "receive", d[1], at[p]) = Count(prog[p], "receive", d[1], at[p] - 1)
      <4>1. at[p] \in Nat \ {0} /\ at[p] - 1 \in Nat
        BY <1>1
      <4>2. Count(prog[p], "receive", d[1], at[p]) = Count(prog[p], "receive", d[1], at[p] - 1) + 0
        BY <1>1, <4>1, CountStep DEF Call
      <4>3. Count(prog[p], "receive", d[1], at[p] - 1) \in Nat
        <5> DEFINE i == at[p] - 1
        <5>1. i \in Nat
          BY <4>1
        <5> HIDE DEF i
        <5>2. Count(prog[p], "receive", d[1], i) \in 0 .. i
          BY <5>1, CountType
        <5>3. Count(prog[p], "receive", d[1], i) \in Nat
          BY <5>1, <5>2
        <5>4. QED BY <5>3 DEF i
      <4>4. QED BY <4>2, <4>3
    <3>3. at'[p] - 1 = at[p]
      BY <1>6
    <3>4. QED BY <2>3, <3>1, <3>2, <3>3 DEF DataInv, CountsInv
  <2>4. QED BY <2>2, <2>3
<1>11. JarsInv'
  BY <1>3 DEF DataInv, JarsInv, SendsNth
<1>12. ResetInv'
  BY <1>3, <1>7 DEF DataInv, DataType, ResetInv
<1>13. StreamInv'
  <2>1. SUFFICES ASSUME NEW d \in Links, Sound(d[2])'
                 PROVE (\E rest \in Nat, off \in [1 .. Len(sent[d]) + 1 -> Nat] : StreamOK(d, rest, off))'
    BY DEF StreamInv
  <2>2. Sound(d[2])
    BY <1>7, <2>1, LinkEnds
  <2>3. Part(d)' = Part(d)
    <3>1. CASE d[2] = p
      BY <1>1, <1>6, <3>1 DEF Part, ReceivingOn
    <3>2. CASE d[2] # p
      BY <1>3, <1>5, <3>2, LinkEnds DEF Part, ReceivingOn
    <3>3. QED BY <3>1, <3>2
  <2>4. Rest(d)' = Rest(d)
    <3>1. CASE d[1] # p
      BY <1>5, <3>1, LinkEnds DEF Rest, SendingOn
    <3>2. CASE d[1] = p /\ d # c
      BY <1>6, <3>2 DEF Rest, SendingOn, c
    <3>3. CASE d = c
      <4>1. PICK rest \in Nat, off \in [1 .. Len(sent[d]) + 1 -> Nat] : StreamOK(d, rest, off)
        BY <2>2 DEF DataInv, StreamInv
      <4>2. Sound(p) /\ SendingOn(d)
        BY <1>1, <1>2, <3>3 DEF Sound, SendingOn, c
      <4>3. rest = Rest(d) /\ Rest(d) = Call(p).msg_len - totalsent[p]
        BY <1>2, <3>3, <4>1, <4>2 DEF StreamOK, Rest
      <4>4. totalsent[p] \in Int
        BY DEF DataInv, DataType
      <4>5. Rest(d) = 0
        BY <1>2, <1>4, <4>3, <4>4
      <4>6. Rest(d)' = 0
        BY <1>2, <1>6, <3>3 DEF Rest, SendingOn
      <4>7. QED BY <4>5, <4>6
    <3>4. QED BY <3>1, <3>2, <3>3
  <2>5. QED BY <1>3, <1>7, <2>2, <2>3, <2>4, LinkEnds, StreamKept DEF DataInv
<1>14. QED BY <1>8, <1>9, <1>10, <1>11, <1>12, <1>13 DEF DataInv

LEMMA ReceiveData ==
  ASSUME SetupInv, SocketsInv, DataInv, NEW p \in Parties, Receive(p)
  PROVE  DataInv'
<1>1. /\ stage[p] = "recv" /\ at[p] \in 1 .. Len(prog[p])
      /\ Len(buffer[p]) <= Call(p).msg_len /\ Len(buffer[p]) < Call(p).msg_len
  BY ProgType DEF Receive, DataInv, CallsInv
<1> DEFINE c == In(p)
<1>2. /\ c \in Links /\ c[1] = Call(p).peer /\ c[2] = p /\ c[1] # p
      /\ Call(p).msg_len \in Nat \ {0}
  BY <1>1, CallType DEF DataInv
<1>3. FromPeer(p) = c
  BY <1>1, PeerRight DEF DataInv
<1> PICK m \in Nat \ {0} : m = Call(p).msg_len
  BY <1>2
<1> DEFINE b == buffer[p]
           w == wire[c]
<1>4. b \in Seq(Bytes) /\ w \in Seq(Bytes) /\ Len(b) \in Nat /\ Len(w) \in Nat
  BY <1>2 DEF DataInv, DataType
<1>5. PICK k \in 1 .. m - Len(b) :
        /\ k <= Len(w)
        /\ buffer' = [buffer EXCEPT ![p] = @ \o SubSeq(w, 1, k)]
        /\ wire' = [wire EXCEPT ![c] = SubSeq(@, k + 1, Len(@))]
  BY <1>3 DEF Receive
<1>6. k \in 1 .. Len(w) /\ Len(b) + k <= m
  BY <1>1, <1>4, <1>5
<1>7. UNCHANGED <<world, prog, stage, tries, reset, at, totalsent, sent, got>>
  BY DEF Receive, setup
<1> DEFINE x == SubSeq(w, 1, k)
           y == SubSeq(w, k + 1, Len(w))
<1>8. x \in Seq(Bytes) /\ Len(x) = k /\ y \in Seq(Bytes)
  <2> HIDE DEF w
  <2>1. QED BY <1>4, <1>6, BytesCut
<1>9. /\ buffer'[p] = b \o x /\ \A q \in Parties \ {p} : buffer'[q] = buffer[q]
      /\ wire'[c] = y /\ \A d \in Links \ {c} : wire'[d] = wire[d]
  BY <1>2, <1>5 DEF DataInv, DataType
<1>10. b \o x \in Seq(Bytes) /\ Len(b \o x) = Len(b) + k
  <2> HIDE DEF b, x
  <2>1. QED BY <1>4, <1>8, BytesJoined
<1>11. \A q \in Parties : /\ (Sound(q)' <=> Sound(q)) /\ Call(q)' = Call(q)
                          /\ Out(q)' = Out(q) /\ In(q)' = In(q)
  BY <1>7 DEF Sound, Call, Out, In
<1>12. buffer' = [buffer EXCEPT ![p] = b \o x] /\ wire' = [wire EXCEPT ![c] = y]
  BY <1>5
<1> HIDE DEF b, w, x, y, c
<1>13. DataType'
  <2>1. buffer' \in [Parties -> Seq(Bytes)]
    BY <1>10, <1>12 DEF DataInv, DataType
  <2>2. wire' \in [Links -> Seq(Bytes)]
    BY <1>8, <1>12 DEF DataInv, DataType
  <2>3. QED BY <1>7, <2>1, <2>2 DEF DataInv, DataType
<1>14. CallsInv'
  <2>1. \A q \in Parties : SendingRight(q)' <=> SendingRight(q)
    BY <1>7 DEF SendingRight, Sending, Out, Call
  <2>2. Len(buffer'[p]) <= Call(p)'.msg_len
    BY <1>6, <1>9, <1>10, <1>11
  <2>3. QED BY <1>7, <1>9, <1>11, <2>1, <2>2 DEF DataInv, CallsInv
<1>15. CountsInv' /\ JarsInv' /\ ResetInv'
  BY <1>7 DEF DataInv, CountsInv, Sound, Begun, JarsInv, SendsNth, ResetInv
<1>16. StreamInv'
  <2>1. SUFFICES ASSUME NEW d \in Links, Sound(d[2])'
                 PROVE (\E rest \in Nat, off \in [1 .. Len(sent[d]) + 1 -> Nat] : StreamOK(d, rest, off))'
    BY DEF StreamInv
  <2>2. Sound(d[2])
    BY <1>11, <2>1, LinkEnds
  <2>3. Rest(d)' = Rest(d)
    BY <1>7, <1>11, LinkEnds DEF Rest, SendingOn
  <2>4. CASE d # c
    <3>1. Part(d)' = Part(d)
      <4>1. CASE d[2] = p
        BY <1>11, <2>4, <4>1 DEF Part, ReceivingOn, c
      <4>2. CASE d[2] # p
        BY <1>7, <1>9, <1>11, <4>2, LinkEnds DEF Part, ReceivingOn
      <4>3. QED BY <4>1, <4>2
    <3>2. wire'[d] = wire[d]
      BY <1>9, <2>4
    <3>3. QED BY <1>7, <1>11, <2>2, <2>3, <3>1, <3>2, LinkEnds, StreamKept DEF DataInv
  <2>5. CASE d = c
    <3>1. PICK rest \in Nat, off \in [1 .. Len(sent[c]) + 1 -> Nat] : StreamOK(c, rest, off)
      BY <2>2, <2>5 DEF DataInv, StreamInv
    <3>2. Part(c) = b /\ Part(d)' = b \o x
      BY <1>1, <1>2, <1>7, <1>9, <1>11, <2>5 DEF Part, ReceivingOn, c, b
    <3> DEFINE s == sent[c]
               g == Len(got[c])
    <3>3. Stream(s, g, b, w, rest, off)
      BY <3>1, <3>2 DEF StreamOK, w
    <3>4. s \in Seq(Seq(Bytes)) /\ g \in Nat
      BY <1>2, StreamTypes DEF DataInv
    <3>5. w # <<>>
      BY <1>6
    <3>6. g < Len(s)
      <4> HIDE DEF s, g
      <4>1. QED BY <1>4, <3>3, <3>4, <3>5, StreamAhead
    <3>7. Len(s[g + 1]) = m
      <4>1. s[g + 1] = Jar(g + 1, m)
        BY <1>1, <3>6, NextJar DEF c
      <4> DEFINE n == g + 1
      <4>2. n \in Nat \ {0} /\ s[n] = Jar(n, m)
        BY <3>4, <4>1
      <4> HIDE DEF n
      <4>3. Len(s[n]) = m
        BY <4>2, JarType
      <4>4. QED BY <4>3 DEF n
    <3>8. Stream(s, g, b \o x, y, rest, off)
      <4>1. Len(b) + k <= Len(s[g + 1])
        BY <1>6, <3>7
      <4>2. x = SubSeq(w, 1, k) /\ y = SubSeq(w, k + 1, Len(w))
        BY DEF x, y
      <4> HIDE DEF s, g
      <4>3. QED BY <1>4, <1>6, <3>3, <3>4, <3>6, <4>1, <4>2, StreamReceive
    <3>9. Stream(sent'[d], Len(got'[d]), Part(d)', wire'[d], rest, off)
      BY <1>7, <1>9, <2>5, <3>2, <3>8
    <3>10. Sound(d[1])' => rest = Rest(d)'
      BY <1>11, <2>3, <2>5, <3>1, LinkEnds DEF StreamOK
    <3>11. StreamOK(d, rest, off)'
      BY <3>9, <3>10 DEF StreamOK
    <3>12. off \in [1 .. Len(sent'[d]) + 1 -> Nat]
      BY <1>7, <2>5
    <3>13. QED BY <3>11, <3>12
  <2>6. QED BY <2>4, <2>5
<1>17. QED BY <1>13, <1>14, <1>15, <1>16 DEF DataInv

\* receive_jar returns the jar that is next.
LEMMA JarTaken ==
  ASSUME DataInv, NEW p \in Parties, ReceiveReturns(p)
  PROVE  /\ In(p) \in Links
         /\ Len(got[In(p)]) < Len(sent[In(p)])
         /\ buffer[p] = sent[In(p)][Len(got[In(p)]) + 1]
         /\ \E rest \in Nat, off \in [1 .. Len(sent[In(p)]) + 1 -> Nat] :
              /\ Stream(sent[In(p)], Len(got[In(p)]) + 1, <<>>, wire[In(p)], rest, off)
              /\ Sound(In(p)[1]) => rest = Rest(In(p))
<1>1. /\ stage[p] = "recv" /\ at[p] \in 1 .. Len(prog[p])
      /\ Len(buffer[p]) <= Call(p).msg_len /\ Len(buffer[p]) >= Call(p).msg_len
  BY ProgType DEF ReceiveReturns, DataInv, CallsInv
<1> DEFINE c == In(p)
           b == buffer[p]
           w == wire[c]
           s == sent[c]
           g == Len(got[c])
<1>2. c \in Links /\ c[2] = p /\ Call(p).msg_len \in Nat \ {0}
  BY <1>1, CallType DEF DataInv
<1> PICK m \in Nat \ {0} : m = Call(p).msg_len
  BY <1>2
<1>3. s \in Seq(Seq(Bytes)) /\ g \in Nat /\ w \in Seq(Bytes) /\ b \in Seq(Bytes)
  BY <1>2, StreamTypes DEF DataInv, DataType
<1>4. Len(b) = m /\ b # <<>>
  <2>1. Len(b) \in Nat
    BY <1>3
  <2>2. Len(b) = m
    BY <1>1, <2>1
  <2>3. QED BY <2>2
<1>5. Sound(c[2])
  BY <1>1, <1>2 DEF Sound
<1>6. PICK rest \in Nat, off \in [1 .. Len(s) + 1 -> Nat] : StreamOK(c, rest, off)
  BY <1>2, <1>5 DEF DataInv, StreamInv
<1>7. Part(c) = b
  BY <1>1, <1>2 DEF Part, ReceivingOn
<1>8. Stream(s, g, b, w, rest, off) /\ (Sound(c[1]) => rest = Rest(c))
  BY <1>6, <1>7 DEF StreamOK
<1>9. g < Len(s)
  <2> HIDE DEF s, g, b, w
  <2>1. QED BY <1>3, <1>4, <1>8, StreamAhead
<1>10. s[g + 1] = Jar(g + 1, m)
  BY <1>1, <1>9, NextJar
<1>11. Stream(s, g + 1, <<>>, w, rest, off) /\ b = s[g + 1]
  <2>1. m \in Nat
    OBVIOUS
  <2> HIDE DEF s, g, b, w
  <2>2. QED BY <1>3, <1>4, <1>8, <1>9, <1>10, <2>1, StreamReturn
<1>12. QED BY <1>2, <1>6, <1>8, <1>9, <1>11

LEMMA ReceiveReturnsData ==
  ASSUME DataInv, stage \in [Parties -> Stages], NEW p \in Parties, ReceiveReturns(p)
  PROVE  DataInv'
<1>1. stage[p] = "recv" /\ at[p] \in 1 .. Len(prog[p]) /\ Call(p).do = "receive"
  BY ProgType DEF ReceiveReturns, DataInv, CallsInv
<1> DEFINE c == In(p)
<1>2. c \in Links /\ c[1] = Call(p).peer /\ c[2] = p /\ c[1] # p
  BY <1>1, CallType DEF DataInv
<1>3. UNCHANGED <<world, prog, tries, reset, totalsent, wire, sent>>
  BY DEF ReceiveReturns, setup
<1>4. /\ at' = [at EXCEPT ![p] = @ + 1] /\ buffer' = [buffer EXCEPT ![p] = <<>>]
      /\ stage' = [stage EXCEPT ![p] = "run"] /\ got' = [got EXCEPT ![c] = Append(@, buffer[p])]
  BY DEF ReceiveReturns, Goto
<1>5. \A a \in Parties \ {p} : /\ at'[a] = at[a] /\ buffer'[a] = buffer[a] /\ stage'[a] = stage[a]
                               /\ Call(a)' = Call(a) /\ Out(a)' = Out(a) /\ In(a)' = In(a)
  <2>1. \A a \in Parties \ {p} : at'[a] = at[a] /\ buffer'[a] = buffer[a] /\ stage'[a] = stage[a]
    BY <1>4 DEF DataInv, DataType
  <2>2. QED BY <1>3, <2>1 DEF Call, Out, In
<1>6. stage'[p] = "run" /\ at'[p] = at[p] + 1 /\ at[p] \in Nat /\ buffer'[p] = <<>>
  <2>1. at'[p] = at[p] + 1 /\ buffer'[p] = <<>>
    BY <1>4 DEF DataInv, DataType
  <2>2. QED BY <1>1, <1>4, <2>1
<1>7. /\ \A a \in Parties : Sound(a)' <=> Sound(a)
      /\ \A a \in Parties \ {p} : Begun(a)' = Begun(a)
      /\ Begun(p) = at[p] - 1 /\ Begun(p)' = at[p]
  BY <1>1, <1>5, <1>6 DEF Sound, Begun
<1>8. got[c] \in Seq(Seq(Bytes)) /\ buffer[p] \in Seq(Bytes)
  BY <1>2 DEF DataInv, DataType
<1> HIDE DEF c
<1>9. /\ got'[c] = Append(got[c], buffer[p]) /\ Len(got'[c]) = Len(got[c]) + 1
      /\ \A d \in Links \ {c} : got'[d] = got[d]
  <2>1. got'[c] = Append(got[c], buffer[p]) /\ \A d \in Links \ {c} : got'[d] = got[d]
    BY <1>2, <1>4 DEF DataInv, DataType
  <2>2. Len(Append(got[c], buffer[p])) = Len(got[c]) + 1
    BY <1>8
  <2>3. QED BY <2>1, <2>2
<1>10. DataType'
  <2>1. buffer' \in [Parties -> Seq(Bytes)] /\ at' \in [Parties -> Nat \ {0}]
    BY <1>4 DEF DataInv, DataType
  <2>2. Append(got[c], buffer[p]) \in Seq(Seq(Bytes))
    BY <1>8
  <2>3. got' = [got EXCEPT ![c] = Append(got[c], buffer[p])]
    BY <1>4
  <2>4. got' \in [Links -> Seq(Seq(Bytes))]
    BY <2>2, <2>3 DEF DataInv, DataType
  <2>5. QED BY <1>3, <2>1, <2>4 DEF DataInv, DataType
<1>11. CallsInv'
  <2>1. \A a \in Parties \ {p} : SendingRight(a)' <=> SendingRight(a)
    BY <1>3, <1>5 DEF SendingRight, Sending
  <2>2. at'[p] \in 1 .. Len(prog'[p]) + 1
    <3>1. Len(prog[p]) \in Nat
      BY ProgType DEF DataInv
    <3>2. QED BY <1>1, <1>3, <1>6, <3>1
  <2>3. QED BY <1>3, <1>5, <1>6, <2>1, <2>2 DEF DataInv, CallsInv
<1>12. CountsInv'
  <2>1. SUFFICES ASSUME NEW d \in Links
                 PROVE  /\ Sound(d[1]) => Len(sent[d]) = Count(prog[d[1]], "send", d[2], Begun(d[1])')
                        /\ Sound(d[2]) => Len(got'[d]) = Count(prog[d[2]], "receive", d[1], at'[d[2]] - 1)
    BY <1>3, <1>7, LinkEnds DEF CountsInv
  <2>0. Sound(d[1]) => Len(sent[d]) = Count(prog[d[1]], "send", d[2], Begun(d[1])')
    <3>1. CASE d[1] # p
      BY <1>7, <3>1, LinkEnds DEF DataInv, CountsInv
    <3>2. CASE d[1] = p
      <4>1. Sound(p) => Len(sent[d]) = Count(prog[p], "send", d[2], at[p] - 1)
        BY <1>7, <3>2 DEF DataInv, CountsInv
      <4>2. Count(prog[p], "send", d[2], at[p]) = Count(prog[p], "send", d[2], at[p] - 1)
        <5> DEFINE i == at[p] - 1
                   u == Count(prog[p], "send", d[2], i)
        <5>1. i \in Nat /\ at[p] \in Nat \ {0}
          BY <1>1
        <5>2. Count(prog[p], "send", d[2], at[p]) = u + 0
          BY <1>1, <5>1, CountStep DEF Call
        <5> HIDE DEF i
        <5>3. u \in 0 .. i
          BY <5>1, CountType
        <5> HIDE DEF u
        <5>4. u + 0 = u
          BY <5>1, <5>3
        <5>5. QED BY <5>2, <5>4 DEF u, i
      <4>3. QED BY <1>7, <3>2, <4>1, <4>2
    <3>3. QED BY <3>1, <3>2
  <2>2. CASE d[2] # p
    <3>1. d # c /\ got'[d] = got[d]
      BY <1>2, <1>9, <2>2
    <3>2. QED BY <1>5, <2>0, <2>2, <3>1, LinkEnds DEF DataInv, CountsInv
  <2>3. CASE d[2] = p
    <3>1. Len(got[d]) = Count(prog[p], "receive", d[1], at[p] - 1)
      BY <1>1, <2>3 DEF DataInv, CountsInv, Sound
    <3>2. Count(prog[p], "receive", d[1], at[p]) =
            Count(prog[p], "receive", d[1], at[p] - 1) + (IF d[1] = c[1] THEN 1 ELSE 0)
      <4>1. at[p] \in Nat \ {0}
        BY <1>1
      <4>2. QED BY <1>1, <1>2, <4>1, CountStep DEF Call
    <3>3. at'[p] - 1 = at[p]
      BY <1>6
    <3>4. Len(got'[d]) = Len(got[d]) + (IF d[1] = c[1] THEN 1 ELSE 0)
      <4>1. CASE d = c
        BY <1>9, <4>1
      <4>2. CASE d # c
        <5>1. got'[d] = got[d]
          BY <1>9, <4>2
        <5>2. d[1] # c[1]
          BY <1>2, <2>3, <4>2, LinkEnds
        <5>3. Len(got[d]) \in Nat
          BY StreamTypes DEF DataInv
        <5>4. QED BY <5>1, <5>2, <5>3
      <4>3. QED BY <4>1, <4>2
    <3>5. Len(got'[d]) = Count(prog[p], "receive", d[1], at'[p] - 1)
      BY <3>1, <3>2, <3>3, <3>4
    <3>6. QED BY <2>0, <2>3, <3>5
  <2>4. QED BY <2>2, <2>3
<1>13. JarsInv'
  BY <1>3 DEF DataInv, JarsInv, SendsNth
<1>14. ResetInv'
  BY <1>3, <1>7 DEF DataInv, DataType, ResetInv
<1>15. StreamInv'
  <2>1. SUFFICES ASSUME NEW d \in Links, Sound(d[2])'
                 PROVE (\E rest \in Nat, off \in [1 .. Len(sent[d]) + 1 -> Nat] : StreamOK(d, rest, off))'
    BY DEF StreamInv
  <2>2. Sound(d[2])
    BY <1>7, <2>1, LinkEnds
  <2>3. Rest(d)' = Rest(d)
    <3>1. CASE d[1] # p
      BY <1>3, <1>5, <3>1, LinkEnds DEF Rest, SendingOn
    <3>2. CASE d[1] = p
      BY <1>1, <1>6, <3>2 DEF Rest, SendingOn
    <3>3. QED BY <3>1, <3>2
  <2>4. CASE d # c
    <3>1. Part(d)' = Part(d)
      <4>1. CASE d[2] = p
        BY <1>6, <2>4, <4>1 DEF Part, ReceivingOn, c
      <4>2. CASE d[2] # p
        BY <1>5, <4>2, LinkEnds DEF Part, ReceivingOn
      <4>3. QED BY <4>1, <4>2
    <3>2. got'[d] = got[d]
      BY <1>9, <2>4
    <3>3. QED BY <1>3, <1>7, <2>2, <2>3, <3>1, <3>2, LinkEnds, StreamKept DEF DataInv
  <2>5. CASE d = c
    <3>1. PICK rest \in Nat, off \in [1 .. Len(sent[c]) + 1 -> Nat] :
                 /\ Stream(sent[c], Len(got[c]) + 1, <<>>, wire[c], rest, off)
                 /\ Sound(c[1]) => rest = Rest(c)
      BY JarTaken DEF c
    <3>2. Part(d)' = <<>>
      BY <1>2, <1>6, <2>5 DEF Part, ReceivingOn
    <3>3. Stream(sent'[d], Len(got'[d]), Part(d)', wire'[d], rest, off)
      BY <1>3, <1>9, <2>5, <3>1, <3>2
    <3>4. Sound(d[1])' => rest = Rest(d)'
      BY <1>7, <2>3, <2>5, <3>1, LinkEnds
    <3>5. StreamOK(d, rest, off)'
      BY <3>3, <3>4 DEF StreamOK
    <3>6. off \in [1 .. Len(sent'[d]) + 1 -> Nat]
      BY <1>3, <2>5
    <3>7. QED BY <3>5, <3>6
  <2>6. QED BY <2>4, <2>5
<1>16. QED BY <1>10, <1>11, <1>12, <1>13, <1>14, <1>15 DEF DataInv

-----------------------------------------------------------------------------
\* The steps.

LEMMA SocketsInit == Init => SocketsInv
<1>1. SUFFICES ASSUME Init, NEW p \in Parties
               PROVE  /\ stage[p] = "setup"
                      /\ \A q \in Parties : q # p => ~ (q < pid[p])
  BY DEF SocketsInv
<1>2. stage[p] = "setup" /\ pid[p] = After(p, -1)
  BY <1>1 DEF Init
<1>3. QED BY <1>2, NAssumption DEF After, Parties

\* Once the connection to its present peer is made, p has the sockets up to the next.
LEMMA ConnectedSockets ==
  ASSUME SetupInv, SocketsInv, NEW p \in Parties, NEW q \in Parties,
         stage[p] \in {"setup", "accept"}, Connected(p, q), ChannelsMatch'
  PROVE  SocketsInv'
<1> DEFINE x == pid[p]
<1>1. x \in Parties /\ x # p
  BY DEF SetupInv, SetupType, AtAPeer
<1>2. /\ sockets' = [sockets EXCEPT ![p][x] = q]
      /\ pid' = [pid EXCEPT ![p] = After(p, x)]
      /\ stage' = [stage EXCEPT ![p] = IF After(p, x) < N THEN "setup" ELSE "run"]
  BY DEF Connected, Goto, SetupInv, SetupType
<1>3. /\ sockets'[p][x] = q /\ \A a \in Parties : a # x => sockets'[p][a] = sockets[p][a]
      /\ \A a \in Parties : a # p => sockets'[a] = sockets[a] /\ pid'[a] = pid[a] /\ stage'[a] = stage[a]
      /\ pid'[p] = After(p, x)
      /\ stage'[p] = IF After(p, x) < N THEN "setup" ELSE "run"
  BY <1>1, <1>2 DEF SetupInv, SetupType
<1> HIDE DEF x
<1>4. q = x
  <2>1. sockets'[p][x] \in {x, NoOne}
    BY <1>1 DEF ChannelsMatch
  <2>2. q # NoOne
    BY NoOneAssumption DEF Parties
  <2>3. QED BY <1>3, <2>1, <2>2
<1>5. After(p, x) \in 0 .. N
  BY <1>1, AfterType
<1>6. ASSUME NEW a \in Parties, a # p, a < After(p, x) PROVE a = x \/ a < x
  BY <1>1, <1>6, NAssumption DEF After, Parties
<1>7. \A a \in Parties : a # p /\ a < pid'[p] => sockets'[p][a] = a
  <2>1. SUFFICES ASSUME NEW a \in Parties, a # p, a < pid'[p] PROVE sockets'[p][a] = a
    OBVIOUS
  <2>2. a = x \/ a < x
    BY <1>3, <1>6, <2>1
  <2>3. CASE a = x
    BY <1>3, <1>4, <2>3
  <2>4. CASE a # x /\ a < x
    <3>1. sockets[p][a] = a
      BY <2>1, <2>4 DEF SocketsInv, x
    <3>2. QED BY <1>3, <2>4, <3>1
  <2>5. QED BY <2>2, <2>3, <2>4
<1>8. stage'[p] \in {"run", "send", "recv"} => pid'[p] >= N
  BY <1>3, <1>5, NAssumption
<1>9. QED BY <1>3, <1>7, <1>8 DEF SocketsInv

\* Any other step leaves the sockets alone.
LEMMA SocketsKept ==
  ASSUME SocketsInv, UNCHANGED <<pid, sockets>>,
         \A p \in Parties : stage'[p] \in {"run", "send", "recv"} => stage[p] \in {"run", "send", "recv"}
  PROVE  SocketsInv'
BY DEF SocketsInv

\* Each operation, with what it needs of the invariant.
LEMMA LeavesData ==
  ASSUME SetupInv, DataInv, NEW p \in Parties, NEW how, Leaves(p, how),
         how \in {"raised", "stopped"} \/ (how = "closed" /\ stage[p] = "run" /\ Finished(p))
  PROVE  DataInv' /\ (SocketsInv => SocketsInv')
<1>1. /\ stage' = [stage EXCEPT ![p] = how] /\ UNCHANGED <<world, prog, transfer>> /\ UNCHANGED <<pid, tries, sockets>>
      /\ stage \in [Parties -> Stages]
  BY DEF Leaves, Goto, SetupInv, SetupType
<1>2. how = "closed" => at[p] = Len(prog[p]) + 1
  <2>1. at[p] \in 1 .. Len(prog[p]) + 1 /\ Len(prog[p]) \in Nat
    BY ProgType DEF DataInv, CallsInv
  <2>2. how = "closed" => at[p] > Len(prog[p])
    BY DEF Finished
  <2>3. QED BY <2>1, <2>2
<1>3. tries' \in [Parties -> 0 .. RETRY_CONNECT - 1]
  BY <1>1 DEF DataInv, DataType
<1>4. DataInv'
  BY <1>1, <1>2, <1>3, StageData
<1>5. \A q \in Parties : stage'[q] \in {"run", "send", "recv"} => stage[q] \in {"run", "send", "recv"}
  BY <1>1
<1>6. QED BY <1>1, <1>4, <1>5, SocketsKept

LEMMA OpenChannelData ==
  ASSUME SetupInv, DataInv, NEW p \in Parties, OpenChannel(p)
  PROVE  DataInv' /\ (SocketsInv => SocketsInv')
<1>1. CASE Leaves(p, "raised")
  BY <1>1, LeavesData
<1>2. CASE /\ stage' = [stage EXCEPT ![p] = "accept"]
           /\ UNCHANGED <<world, prog, pid, tries, sockets, transfer>>
  <2>1. stage \in [Parties -> Stages] /\ stage[p] = "setup"
    BY DEF OpenChannel, SetupInv, SetupType
  <2>2. tries' \in [Parties -> 0 .. RETRY_CONNECT - 1]
    BY <1>2 DEF DataInv, DataType
  <2>3. DataInv'
    BY <1>2, <2>1, <2>2, StageData
  <2>4. \A q \in Parties : stage'[q] \in {"run", "send", "recv"} => stage[q] \in {"run", "send", "recv"}
    BY <1>2, <2>1
  <2>5. QED BY <1>2, <2>3, <2>4, SocketsKept
<1>3. QED BY <1>1, <1>2 DEF OpenChannel, Goto

LEMMA ConnectedData ==
  ASSUME SetupInv, DataInv, NEW p \in Parties, NEW q, stage[p] \in {"setup", "accept"}, Connected(p, q)
  PROVE  DataInv'
<1> DEFINE s == IF After(p, pid[p]) < N THEN "setup" ELSE "run"
<1>1. /\ stage' = [stage EXCEPT ![p] = s] /\ UNCHANGED <<world, prog, transfer>>
      /\ tries' = [tries EXCEPT ![p] = 0] /\ stage \in [Parties -> Stages]
  BY DEF Connected, Goto, SetupInv, SetupType
<1>2. tries' \in [Parties -> 0 .. RETRY_CONNECT - 1]
  BY <1>1, BoundAssumption DEF DataInv, DataType
<1>3. s \in {"setup", "run"}
  OBVIOUS
<1> HIDE DEF s
<1>4. QED BY <1>1, <1>2, <1>3, StageData

LEMMA AcceptSocketData ==
  ASSUME SetupInv, SocketsInv, DataInv, NEW p \in Parties, AcceptSocket(p), ChannelsMatch'
  PROVE  DataInv' /\ SocketsInv'
<1> DEFINE n == port(p, pid[p])
           q == Head(pending[n])
<1>1. stage[p] = "accept" /\ pending[n] # <<>> /\ Connected(p, q)
  BY DEF AcceptSocket
<1>2. pid[p] \in Parties /\ p < pid[p] /\ n \in Ports
  BY <1>1, PortOfPeer DEF SetupInv, SetupType, AtAPeer
<1>3. q \in Parties
  <2>1. pending[n] \in Seq(Parties)
    BY <1>2 DEF SetupInv, SetupType
  <2> HIDE DEF n
  <2>2. QED BY <1>1, <2>1
<1> HIDE DEF n, q
<1>4. QED BY <1>1, <1>3, ConnectedData, ConnectedSockets

LEMMA ConnectData ==
  ASSUME SetupInv, SocketsInv, DataInv, NEW p \in Parties, Connect(p), ChannelsMatch'
  PROVE  DataInv' /\ SocketsInv'
<1> DEFINE n == port(p, pid[p])
           q == listener[n]
<1>1. stage[p] = "setup" /\ q # NoOne /\ Connected(p, q)
  BY DEF Connect
<1>2. pid[p] \in Parties /\ p # pid[p] /\ n \in Ports
  BY <1>1, PortOfPeer DEF SetupInv, SetupType, AtAPeer
<1>3. q \in Parties
  BY <1>1, <1>2 DEF SetupInv, SetupType
<1> HIDE DEF n, q
<1>4. QED BY <1>1, <1>3, ConnectedData, ConnectedSockets

LEMMA ConnectRefusedData ==
  ASSUME SetupInv, DataInv, NEW p \in Parties, ConnectRefused(p)
  PROVE  DataInv' /\ (SocketsInv => SocketsInv')
<1>1. CASE Leaves(p, "raised")
  BY <1>1, LeavesData
<1>2. CASE /\ tries[p] + 1 < RETRY_CONNECT /\ tries' = [tries EXCEPT ![p] = @ + 1]
           /\ UNCHANGED <<world, prog, stage, pid, sockets, transfer>>
  <2>1. stage \in [Parties -> Stages] /\ stage[p] = "setup"
    BY DEF ConnectRefused, SetupInv, SetupType
  <2>2. tries' \in [Parties -> 0 .. RETRY_CONNECT - 1]
    <3>1. tries \in [Parties -> 0 .. RETRY_CONNECT - 1] /\ RETRY_CONNECT \in Nat
      BY BoundAssumption DEF DataInv, DataType
    <3>2. tries[p] + 1 \in 0 .. RETRY_CONNECT - 1
      BY <1>2, <3>1
    <3>3. QED BY <1>2, <3>1, <3>2
  <2>3. stage' = [stage EXCEPT ![p] = "setup"]
    BY <1>2, <2>1
  <2>4. DataInv'
    BY <1>2, <2>1, <2>2, <2>3, StageData
  <2>5. QED BY <1>2, <2>4, SocketsKept
<1>3. QED BY <1>1, <1>2 DEF ConnectRefused

LEMMA BeginCallData ==
  ASSUME SetupInv, DataInv, NEW p \in Parties, BeginCall(p)
  PROVE  DataInv' /\ (SocketsInv => SocketsInv')
<1>1. /\ stage[p] = "run" /\ ~ Finished(p) /\ stage \in [Parties -> Stages]
      /\ UNCHANGED <<world, prog, pid, tries, sockets, reset, at, wire, got>>
  BY DEF BeginCall, setup, SetupInv, SetupType
<1>2. CASE Call(p).do = "send"
  <2>1. /\ sent' = [sent EXCEPT ![Out(p)] = Append(@, Jar(Len(@) + 1, Call(p).msg_len))]
        /\ totalsent' = [totalsent EXCEPT ![p] = 0] /\ stage' = [stage EXCEPT ![p] = "send"]
        /\ UNCHANGED buffer
    BY <1>2 DEF BeginCall, Goto
  <2>2. DataInv'
    BY <1>1, <1>2, <2>1, BeginSendData
  <2>3. QED BY <1>1, <2>1, <2>2, SocketsKept
<1>3. CASE Call(p).do # "send"
  <2>1. /\ buffer' = [buffer EXCEPT ![p] = <<>>] /\ stage' = [stage EXCEPT ![p] = "recv"]
        /\ UNCHANGED <<sent, totalsent>>
    BY <1>3 DEF BeginCall, Goto
  <2>2. Call(p).do = "receive"
    <3>1. at[p] \in 1 .. Len(prog[p]) + 1 /\ Len(prog[p]) \in Nat /\ ~ (at[p] > Len(prog[p]))
      BY <1>1, ProgType DEF DataInv, CallsInv, Finished
    <3>2. at[p] \in 1 .. Len(prog[p])
      BY <3>1
    <3>3. QED BY <1>3, <3>2, CallType DEF DataInv
  <2>3. DataInv'
    BY <1>1, <2>1, <2>2, BeginReceiveData
  <2>4. QED BY <1>1, <2>1, <2>3, SocketsKept
<1>4. QED BY <1>2, <1>3

LEMMA StreamInit == Init => IInv
BY SetupInit, SocketsInit, DataInit DEF IInv

LEMMA StreamNext == IInv /\ [Next]_vars => IInv'
<1>1. SUFFICES ASSUME IInv, [Next]_vars PROVE DataInv' /\ SocketsInv'
  BY SetupNext DEF IInv
<1>2. SetupInv /\ SocketsInv /\ DataInv /\ ChannelsMatch' /\ stage \in [Parties -> Stages]
  BY <1>1, SetupNext DEF IInv, SetupInv, SetupType
<1>3. CASE UNCHANGED vars
  <2>1. /\ UNCHANGED <<world, prog, stage, pid, tries, sockets>>
        /\ UNCHANGED <<reset, at, totalsent, buffer, wire, sent, got>>
    BY <1>3 DEF vars, setup, transfer
  <2>2. DataType' /\ CountsInv' /\ JarsInv' /\ ResetInv'
    <3>1. DataType' /\ ResetInv'
      BY <1>2, <2>1 DEF DataInv, DataType, Sound, ResetInv
    <3>2. CountsInv'
      BY <1>2, <2>1 DEF DataInv, CountsInv, Begun, Sound
    <3>3. JarsInv'
      BY <1>2, <2>1 DEF DataInv, JarsInv, SendsNth
    <3>4. QED BY <3>1, <3>2, <3>3
  <2>3. StreamInv'
    BY <1>2, <2>1 DEF DataInv, StreamInv, StreamOK, Sound, Part, Rest, SendingOn, ReceivingOn, Out, In, Call
  <2>4. CallsInv'
    <3>1. \A p \in Parties : Call(p)' = Call(p) /\ (SendingRight(p)' <=> SendingRight(p))
      BY <2>1 DEF SendingRight, Sending, Out, Call
    <3>2. QED BY <1>2, <2>1, <3>1 DEF DataInv, CallsInv
  <2>5. SocketsInv'
    BY <1>2, <2>1 DEF SocketsInv
  <2>6. QED BY <2>2, <2>3, <2>4, <2>5 DEF DataInv
<1>4. ASSUME NEW p \in Parties, Step(p) \/ Stop(p) PROVE DataInv' /\ SocketsInv'
  <2>1. CASE OpenChannel(p)
    BY <1>2, <2>1, OpenChannelData
  <2>2. CASE AcceptSocket(p)
    BY <1>2, <2>2, AcceptSocketData
  <2>3. CASE Connect(p)
    BY <1>2, <2>3, ConnectData
  <2>4. CASE ConnectRefused(p)
    BY <1>2, <2>4, ConnectRefusedData
  <2>5. CASE BeginCall(p)
    BY <1>2, <2>5, BeginCallData
  <2>6. CASE Send(p)
    <3>1. UNCHANGED <<stage, pid, sockets>>
      BY <2>6 DEF Send, setup
    <3>2. QED BY <1>2, <2>6, <3>1, SendData, SocketsKept
  <2>7. CASE SendError(p)
    <3>1. UNCHANGED <<stage, pid, sockets>>
      BY <2>7 DEF SendError, setup
    <3>2. QED BY <1>2, <2>7, <3>1, SendErrorData, SocketsKept
  <2>8. CASE SendReturns(p)
    <3>1. stage[p] = "send" /\ stage' = [stage EXCEPT ![p] = "run"] /\ UNCHANGED <<pid, sockets>>
      BY <2>8 DEF SendReturns, Goto, setup
    <3>2. QED BY <1>2, <2>8, <3>1, SendReturnsData, SocketsKept
  <2>9. CASE Receive(p)
    <3>1. UNCHANGED <<stage, pid, sockets>>
      BY <2>9 DEF Receive, setup
    <3>2. QED BY <1>2, <2>9, <3>1, ReceiveData, SocketsKept
  <2>10. CASE ReceiveReturns(p)
    <3>1. stage[p] = "recv" /\ stage' = [stage EXCEPT ![p] = "run"] /\ UNCHANGED <<pid, sockets>>
      BY <2>10 DEF ReceiveReturns, Goto, setup
    <3>2. QED BY <1>2, <2>10, <3>1, ReceiveReturnsData, SocketsKept
  <2>11. CASE ReceiveFails(p) \/ Stop(p)
    <3>1. \E how \in {"raised", "stopped"} : Leaves(p, how)
      BY <2>11 DEF ReceiveFails, Stop
    <3>2. QED BY <1>2, <3>1, LeavesData
  <2>12. CASE CleanUp(p)
    <3>1. stage[p] = "run" /\ Finished(p) /\ Leaves(p, "closed")
      BY <2>12 DEF CleanUp
    <3>2. QED BY <1>2, <3>1, LeavesData
  <2>13. QED
    BY <1>4, <2>1, <2>2, <2>3, <2>4, <2>5, <2>6, <2>7, <2>8, <2>9, <2>10, <2>11, <2>12 DEF Step
<1>5. QED BY <1>1, <1>3, <1>4 DEF Next

\* The types, for any number of parties and whatever goes wrong: in particular no
\* piece of a jar is cut from beyond its ends, although the loop of snd_jar counts an
\* error as one byte less than nothing sent.
THEOREM TypeCorrect == Spec => []TypeOK
<1>1. IInv => TypeOK
  BY DEF IInv, SetupInv, SetupType, DataInv, DataType, TypeOK
<1>2. QED BY <1>1, StreamInit, StreamNext, PTL DEF Spec

-----------------------------------------------------------------------------
\* The stream.

LEMMA JarPut ==
  ASSUME DataInv, NEW p \in Parties, BeginCall(p), Call(p).do = "send"
  PROVE  /\ Out(p) \in Links
         /\ Jar(Len(sent[Out(p)]) + 1, Call(p).msg_len) \in Jars
<1>1. stage[p] = "run" /\ at[p] \in 1 .. Len(prog[p]) /\ Len(prog[p]) \in Nat
  <2>1. at[p] \in 1 .. Len(prog[p]) + 1 /\ Len(prog[p]) \in Nat
    BY ProgType DEF DataInv, CallsInv
  <2>2. stage[p] = "run" /\ ~ (at[p] > Len(prog[p]))
    BY DEF BeginCall, Finished
  <2>3. QED BY <2>1, <2>2
<1> DEFINE c == Out(p)
           n == Len(sent[c]) + 1
<1>2. c \in Links /\ c[1] = p /\ c[2] = Call(p).peer
  BY <1>1, CallType DEF DataInv
<1>3. prog \in Programs /\ prog[p] \in Seq(JarCall)
  BY ProgramsAssumption DEF DataInv, DataType
<1>4. DOMAIN prog[p] = 1 .. Len(prog[p])
  BY <1>3
<1>5. n \in 1 .. Len(prog[p])
  <2>1. Len(sent[c]) = Count(prog[p], "send", c[2], at[p] - 1)
    BY <1>1, <1>2 DEF DataInv, CountsInv, Sound, Begun
  <2> DEFINE i == at[p] - 1
  <2>2. i \in Nat /\ i + 1 <= Len(prog[p])
    BY <1>1
  <2>3. Len(sent[c]) \in 0 .. i
    <3> HIDE DEF i
    <3>1. Count(prog[p], "send", c[2], i) \in 0 .. i
      BY <2>2, CountType
    <3>2. QED BY <2>1, <3>1 DEF i
  <2> HIDE DEF i, c
  <2>4. QED BY <1>1, <2>2, <2>3
<1>6. n \in JarNumbers
  <2>1. n \in DOMAIN prog[p]
    BY <1>4, <1>5
  <2> HIDE DEF n
  <2>2. QED BY <1>3, <2>1 DEF JarNumbers
<1>7. Call(p) \in JarCalls
  <2>1. at[p] \in DOMAIN prog[p]
    BY <1>1, <1>4
  <2> DEFINE own == {prog[p][i] : i \in DOMAIN prog[p]}
  <2>2. Call(p) \in own
    BY <2>1 DEF Call
  <2>3. own \in {{pr[r][i] : i \in DOMAIN pr[r]} : pr \in Programs, r \in Parties}
    BY <1>3
  <2> HIDE DEF own
  <2>4. QED BY <2>2, <2>3 DEF JarCalls
<1>8. Jar(n, Call(p).msg_len) \in Jars
  <2> HIDE DEF n
  <2>1. QED BY <1>6, <1>7 DEF Jars
<1>9. QED BY <1>2, <1>8

\* Each channel is an in-order, exactly-once stream of whole jars (snd_jar and
\* receive_jar): for any number of parties and matching programs, in whatever pieces
\* the connections take and give the bytes, and whoever is killed, gives up or raises.
THEOREM TcpImplementsFifo == Spec => ImplementsFifo
<1>1. Init => F!Init
  BY DEF Init, F!Init
<1>2. IInv /\ [Next]_vars => [F!Next]_(F!vars)
  <2>1. SUFFICES ASSUME IInv, [Next]_vars PROVE F!Next \/ UNCHANGED <<sent, got>>
    BY DEF F!vars
  <2>2. DataInv
    BY <2>1 DEF IInv
  <2>3. CASE UNCHANGED vars
    BY <2>3 DEF vars, transfer
  <2>4. ASSUME NEW p \in Parties, Step(p) \/ Stop(p) PROVE F!Next \/ UNCHANGED <<sent, got>>
    <3>1. CASE BeginCall(p)
      <4>1. CASE Call(p).do = "send"
        <5>1. Out(p) \in Links /\ Jar(Len(sent[Out(p)]) + 1, Call(p).msg_len) \in Jars
          BY <2>2, <3>1, <4>1, JarPut
        <5>2. F!Put(Out(p), Jar(Len(sent[Out(p)]) + 1, Call(p).msg_len))
          BY <3>1, <4>1 DEF BeginCall, F!Put
        <5>3. QED BY <5>1, <5>2 DEF F!Next
      <4>2. CASE Call(p).do # "send"
        BY <3>1, <4>2 DEF BeginCall
      <4>3. QED BY <4>1, <4>2
    <3>2. CASE ReceiveReturns(p)
      <4>1. /\ In(p) \in Links /\ Len(got[In(p)]) < Len(sent[In(p)])
            /\ buffer[p] = sent[In(p)][Len(got[In(p)]) + 1]
        BY <2>2, <3>2, JarTaken
      <4>2. F!Get(In(p))
        BY <3>2, <4>1 DEF ReceiveReturns, F!Get
      <4>3. QED BY <4>1, <4>2 DEF F!Next
    <3>3. CASE OpenChannel(p) \/ AcceptSocket(p) \/ Connect(p) \/ ConnectRefused(p)
      BY <3>3 DEF OpenChannel, AcceptSocket, Connect, ConnectRefused, Connected, Leaves, transfer
    <3>4. CASE Send(p) \/ SendError(p) \/ SendReturns(p) \/ Receive(p)
      BY <3>4 DEF Send, SendError, SendReturns, Receive
    <3>5. CASE ReceiveFails(p) \/ CleanUp(p) \/ Stop(p)
      BY <3>5 DEF ReceiveFails, CleanUp, Stop, Leaves, transfer
    <3>6. QED BY <2>4, <3>1, <3>2, <3>3, <3>4, <3>5 DEF Step
  <2>5. QED BY <2>1, <2>3, <2>4 DEF Next
<1>3. QED BY <1>1, <1>2, StreamInit, StreamNext, PTL DEF Spec, ImplementsFifo, F!Spec

-----------------------------------------------------------------------------
\* When nothing goes wrong from outside.

AllSound == Undisturbed => \A p \in Parties : Sound(p)

\* A port is free when its party gets to it.
LEMMA PortFree ==
  ASSUME SetupInv, NEW p \in Parties, stage[p] = "setup", p < pid[p]
  PROVE  listener[port(p, pid[p])] = NoOne
<1> DEFINE n == port(p, pid[p])
           i == listener[n]
<1>1. pid[p] \in Parties /\ n \in Ports
  BY PortOfPeer DEF SetupInv, SetupType, AtAPeer
<1>2. SUFFICES ASSUME i # NoOne PROVE FALSE
  OBVIOUS
<1>3. i \in Parties /\ stage[i] = "accept" /\ n = port(i, pid[i])
  BY <1>1, <1>2 DEF SetupInv, SetupType, ListenersWait
<1>4. i < pid[i] /\ pid[i] \in Parties
  BY <1>3 DEF SetupInv, AtAPeer
<1>5. i = p
  BY <1>1, <1>3, <1>4, PortsDistinct
<1>6. QED BY <1>3, <1>5

\* Who is received from has not closed its sockets before all is sent.
LEMMA ReceiveSucceeds ==
  ASSUME IInv, AllSound, Undisturbed, NEW p \in Parties
  PROVE  ~ ReceiveFails(p)
<1>1. SUFFICES ASSUME ReceiveFails(p) PROVE FALSE
  OBVIOUS
<1>2. SetupInv /\ SocketsInv /\ DataInv /\ \A q \in Parties : Sound(q)
  BY DEF IInv, AllSound
<1>3. /\ stage[p] = "recv" /\ at[p] \in 1 .. Len(prog[p]) /\ Call(p).do = "receive"
      /\ Len(buffer[p]) < Call(p).msg_len
  BY <1>1, <1>2, ProgType DEF ReceiveFails, DataInv, CallsInv
<1> DEFINE c == In(p)
           q == Call(p).peer
<1>4. /\ c \in Links /\ c[1] = q /\ c[2] = p /\ q \in Parties
      /\ Out(p) \in Links /\ Out(p)[1] = p /\ Out(p)[2] = q /\ Call(p).msg_len \in Nat \ {0}
  BY <1>2, <1>3, CallType DEF DataInv
<1>5. Peer(p) = q /\ ToPeer(p) = Out(p) /\ FromPeer(p) = c
  BY <1>2, <1>3, PeerRight DEF DataInv
<1> HIDE DEF c, q
<1>6. q \notin reset[p]
  BY <1>2, <1>4 DEF DataInv, ResetInv
<1>7. ASSUME Gone(q) PROVE stage[q] = "closed"
  BY <1>2, <1>4, <1>7 DEF Gone, Sound
<1>8. ~ Broken(p)
  BY <1>2, <1>4, <1>5, <1>7, ClosedTaken DEF Broken
<1>9. stage[q] = "closed" /\ wire[c] = <<>>
  BY <1>1, <1>5, <1>6, <1>7, <1>8 DEF ReceiveFails
<1>10. Len(got[c]) < Len(sent[c])
  <2> DEFINE n == Len(prog[q])
             r == Len(prog[p])
  <2>1. n \in Nat /\ r \in Nat /\ Matching(prog)
    BY <1>2, <1>4, ProgType DEF DataInv
  <2>2. Begun(q) = n
    <3>1. at[q] = n + 1
      BY <1>2, <1>4, <1>9 DEF DataInv, CallsInv
    <3>2. QED BY <1>9, <2>1, <3>1 DEF Begun
  <2>3. Len(sent[c]) = Count(prog[q], "send", p, n)
    BY <1>2, <1>4, <2>2 DEF DataInv, CountsInv
  <2>4. Count(prog[q], "send", p, n) = Count(prog[p], "receive", q, r)
    BY <1>4, <2>1 DEF Matching
  <2>5. Len(got[c]) = Count(prog[p], "receive", q, at[p] - 1)
    BY <1>2, <1>4 DEF DataInv, CountsInv
  <2>6. at[p] \in Nat \ {0} /\ at[p] <= r
    BY <1>3, <2>1
  <2>7. Count(prog[p], "receive", q, at[p]) = Count(prog[p], "receive", q, at[p] - 1) + 1
    BY <1>3, <2>6, CountStep DEF Call, q
  <2>8. Count(prog[p], "receive", q, at[p]) <= Count(prog[p], "receive", q, r)
    BY <2>1, <2>6, CountGrows
  <2>9. Len(got[c]) \in Nat /\ Len(sent[c]) \in Nat
    <3>1. sent[c] \in Seq(Seq(Bytes)) /\ Len(got[c]) \in Nat
      BY <1>2, <1>4, StreamTypes DEF DataInv
    <3>2. QED BY <3>1
  <2>10. Len(got[c]) + 1 <= Len(sent[c])
    BY <2>3, <2>4, <2>5, <2>7, <2>8
  <2>11. QED BY <2>9, <2>10
<1>11. PICK rest \in Nat, off \in [1 .. Len(sent[c]) + 1 -> Nat] : StreamOK(c, rest, off)
  BY <1>2, <1>4 DEF DataInv, StreamInv
<1>12. rest = 0
  <2>1. Rest(c) = 0
    BY <1>4, <1>9 DEF Rest, SendingOn
  <2>2. QED BY <1>2, <1>4, <1>11, <2>1 DEF StreamOK
<1>13. Part(c) = buffer[p]
  BY <1>3, <1>4 DEF Part, ReceivingOn, c
<1> DEFINE s == sent[c]
           g == Len(got[c])
           b == buffer[p]
<1>14. Stream(s, g, b, <<>>, rest, off)
  BY <1>9, <1>11, <1>13 DEF StreamOK
<1>15. s \in Seq(Seq(Bytes)) /\ g \in Nat /\ b \in Seq(Bytes)
  BY <1>2, <1>4, StreamTypes DEF DataInv, DataType
<1>16. Len(b) < Len(s[g + 1])
  <2>1. s[g + 1] = Jar(g + 1, Call(p).msg_len)
    BY <1>2, <1>3, <1>10, NextJar DEF c
  <2> DEFINE n == g + 1
             m == Call(p).msg_len
  <2>2. n \in Nat \ {0} /\ m \in Nat /\ s[n] = Jar(n, m)
    BY <1>4, <1>15, <2>1
  <2> HIDE DEF n, m
  <2>3. Len(s[n]) = m
    BY <2>2, JarType
  <2>4. QED BY <1>3, <2>3 DEF n, m
<1>17. g < Len(s)
  BY <1>10
<1> HIDE DEF s, g, b
<1>18. rest > 0
  BY <1>14, <1>15, <1>16, <1>17, StreamBehind
<1>19. QED BY <1>12, <1>18

LEMMA SoundNext == IInv /\ AllSound /\ [Next]_vars => AllSound'
<1>1. SUFFICES ASSUME IInv, AllSound, [Next]_vars, Undisturbed', NEW q \in Parties PROVE Sound(q)'
  BY DEF AllSound
<1>2. SetupInv /\ stage \in [Parties -> Stages]
  BY <1>1 DEF IInv, SetupInv, SetupType
<1>3. CASE UNCHANGED vars
  BY <1>1, <1>3 DEF vars, AllSound, Undisturbed, Sound
<1>4. ASSUME NEW p \in Parties, Step(p) \/ Stop(p) PROVE Sound(q)'
  <2>1. world' = world
    BY <1>4 DEF Step, Stop, OpenChannel, AcceptSocket, Connect, ConnectRefused, Connected, Leaves,
                BeginCall, Send, SendError, SendReturns, Receive, ReceiveFails, ReceiveReturns, CleanUp
  <2>2. Undisturbed /\ Sound(q)
    BY <1>1, <2>1 DEF Undisturbed, AllSound
  <2>3. CASE OpenChannel(p)
    <3>1. stage[p] = "setup" /\ p < pid[p] /\ port(p, pid[p]) \notin world.busy
      BY <2>2, <2>3 DEF OpenChannel, Undisturbed
    <3>2. listener[port(p, pid[p])] = NoOne
      BY <1>2, <3>1, PortFree
    <3>3. stage' = [stage EXCEPT ![p] = "accept"]
      BY <2>3, <3>1, <3>2 DEF OpenChannel, Goto
    <3>4. QED BY <1>2, <2>2, <3>3 DEF Sound
  <2>4. CASE AcceptSocket(p) \/ Connect(p)
    <3>1. \E s \in {"setup", "run"} : stage' = [stage EXCEPT ![p] = s]
      BY <2>4 DEF AcceptSocket, Connect, Connected, Goto
    <3>2. QED BY <1>2, <2>2, <3>1 DEF Sound
  <2>5. CASE ConnectRefused(p) \/ Stop(p)
    BY <2>2, <2>5 DEF ConnectRefused, Stop, Undisturbed
  <2>6. CASE BeginCall(p)
    <3>1. \E s \in {"send", "recv"} : stage' = [stage EXCEPT ![p] = s]
      BY <2>6 DEF BeginCall, Goto
    <3>2. QED BY <1>2, <2>2, <3>1 DEF Sound
  <2>7. CASE Send(p) \/ SendError(p) \/ Receive(p)
    <3>1. stage' = stage
      BY <2>7 DEF Send, SendError, Receive
    <3>2. QED BY <2>2, <3>1 DEF Sound
  <2>8. CASE SendReturns(p) \/ ReceiveReturns(p)
    <3>1. stage' = [stage EXCEPT ![p] = "run"]
      BY <2>8 DEF SendReturns, ReceiveReturns, Goto
    <3>2. QED BY <1>2, <2>2, <3>1 DEF Sound
  <2>9. CASE ReceiveFails(p)
    BY <1>1, <2>2, <2>9, ReceiveSucceeds
  <2>10. CASE CleanUp(p)
    <3>1. stage' = [stage EXCEPT ![p] = "closed"]
      BY <2>10 DEF CleanUp, Leaves, Goto
    <3>2. QED BY <1>2, <2>2, <3>1 DEF Sound
  <2>11. QED
    BY <1>4, <2>3, <2>4, <2>5, <2>6, <2>7, <2>8, <2>9, <2>10 DEF Step
<1>5. QED BY <1>1, <1>3, <1>4 DEF Next

\* When no port is busy, the attempts to connect suffice and nobody is killed, nobody
\* raises (open_channel, connect and receive_jar): no port is asked for twice, and no
\* party closes its sockets while another still waits for bytes or has bytes for it.
THEOREM NobodyFails == Spec => []NobodyRaises
<1>1. Init => AllSound
  BY DEF Init, AllSound, Sound
<1>2. AllSound => NobodyRaises
  BY DEF AllSound, NobodyRaises, Sound
<1>3. QED BY <1>1, <1>2, StreamInit, StreamNext, SoundNext, PTL DEF Spec

=============================================================================
