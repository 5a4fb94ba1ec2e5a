-------------------------- MODULE FileTransportRerun --------------------------
(***************************************************************************)
(* The file transport across runs of the program.  The counters live in    *)
(* the memory of the parties and start again at 0; the message directories *)
(* are not emptied, by the program or by register_channel.                 *)
(***************************************************************************)
EXTENDS FileTransport

CONSTANT MaxRuns  \* bound: how often the program is started

VARIABLE run      \* which run of the program this is

rerunVars == <<vars, run>>

InitRerun == Init /\ run = 1

\* The parties have ended, or were stopped in the middle of anything, and the
\* program is started again in the same directories: register_channel sets both
\* counters of every channel to 0.  The histories are those of the new run.
Rerun ==
  /\ run < MaxRuns
  /\ run' = run + 1
  /\ send_seq' = [c \in Links |-> 0]
  /\ recv_seq' = [c \in Links |-> 0]
  /\ op' = [p \in Parties |-> Idle]
  /\ sent' = [c \in Links |-> <<>>]
  /\ got' = [c \in Links |-> <<>>]
  /\ UNCHANGED files

NextRerun ==
  \/ Next /\ UNCHANGED run
  \/ Rerun

SpecRerun == InitRerun /\ [][NextRerun]_rerunVars

=============================================================================
