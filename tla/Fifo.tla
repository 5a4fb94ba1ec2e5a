-------------------------------- MODULE Fifo --------------------------------
(***************************************************************************)
(* What every layer of the transport promises the layer above it: between  *)
(* each ordered pair of parties an in-order, exactly-once stream.  The     *)
(* file transport and the TCP transport implement it with jars as items,   *)
(* the framing of send_as_jar/receive_as_jar implements it again with      *)
(* whole messages.                                                         *)
(***************************************************************************)
EXTENDS Naturals, Sequences

CONSTANTS
  Links,  \* the ordered pairs <<from, to>> of parties that are connected
  Items   \* what travels on a link

VARIABLES
  sent,   \* sent[c]: every item ever put on link c, in order
  got     \* got[c]: every item its receiver has taken from c, in order

vars == <<sent, got>>

Init ==
  /\ sent = [c \in Links |-> <<>>]
  /\ got = [c \in Links |-> <<>>]

Put(c, m) ==
  /\ sent' = [sent EXCEPT ![c] = Append(@, m)]
  /\ UNCHANGED got

Get(c) ==
  /\ Len(got[c]) < Len(sent[c])
  /\ got' = [got EXCEPT ![c] = Append(@, sent[c][Len(@) + 1])]
  /\ UNCHANGED sent

Next == \E c \in Links : Get(c) \/ \E m \in Items : Put(c, m)

Spec == Init /\ [][Next]_vars

=============================================================================
