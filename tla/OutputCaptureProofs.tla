------------------------ MODULE OutputCaptureProofs ------------------------
(***************************************************************************)
(* Theorems about OutputCapture, for any number of parties, any programs,  *)
(* buffers and pipes of any size.                                          *)
(***************************************************************************)
EXTENDS OutputCapture, FiniteSetTheorems, TLAPS

USE NAssumption, ProgramsAssumption, WorldsAssumption

LEMMA CallerProcess == Caller \in Processes
  BY DEF Caller, Processes

LEMMA PrintStep ==
  ASSUME NEW x \in Steps, x.do = "print"
  PROVE  x.to \in Streams
  BY DEF Steps, PrintTo, Fork, Sync, Wait, Raise

LEMMA ForkStep ==
  ASSUME NEW x \in Steps, x.do = "fork"
  PROVE  x.party \in Processes
  BY DEF Steps, PrintTo, Fork, Sync, Wait, Raise

LEMMA RaiseStep == Raise \in Steps /\ Raise.do # "fork"
  BY DEF Steps, Raise

\* What is left of a sequence, by index.
LEMMA TailFacts ==
  ASSUME NEW S, NEW s \in Seq(S), s # <<>>
  PROVE  /\ Head(s) = s[1] /\ Head(s) \in S /\ 1 \in 1 .. Len(s)
         /\ Tail(s) \in Seq(S)
         /\ Len(Tail(s)) = Len(s) - 1
         /\ \A i \in 1 .. Len(Tail(s)) : Tail(s)[i] = s[i + 1] /\ i + 1 \in 1 .. Len(s)
  OBVIOUS

LEMMA AppendFacts ==
  ASSUME NEW S, NEW s \in Seq(S), NEW e \in S
  PROVE  /\ Append(s, e) \in Seq(S)
         /\ \A i \in 1 .. Len(Append(s, e)) : Append(s, e)[i] = e \/ (i \in 1 .. Len(s) /\ Append(s, e)[i] = s[i])
  OBVIOUS

-----------------------------------------------------------------------------

\* Where descriptors 1 and 2 can lead to.
Terminal == [s \in Streams |-> "terminal"]
Silent == [s \in Streams |-> IF s = "err" THEN "null" ELSE "terminal"]
Piped == [s \in Streams |-> s]

\* At each stage the descriptors of a process are known.
Placed(p) ==
  /\ stage[p] \in {"called", "restored", "returned", "exited"} =>
       fd[p] = Terminal /\ extra[p] = {}
  /\ stage[p] \in {"compile", "compiled"} =>
       /\ fd[p] = IF world.quiet THEN Silent ELSE Terminal
       /\ extra[p] = IF world.quiet THEN {"saved_fd"} ELSE {}
  /\ stage[p] \in {"run", "flush"} =>
       /\ fd[p] = IF world.pipes THEN Piped ELSE Terminal
       /\ extra[p] = IF world.pipes THEN CaptureFds ELSE {}
  /\ stage[p] = "flush" => world.pipes
  /\ stage[p] = "read_out" => fd[p] = Terminal /\ extra[p] = {"out_r", "err_r"}
  /\ stage[p] = "read_err" => fd[p] = Terminal /\ extra[p] = {"err_r"}
FilesInv == \A p \in Processes : Placed(p)

\* What is still to be forked is not there yet.
ForkAt(p, i) == todo[p][i].do = "fork"
TodoInv ==
  /\ todo \in [Processes -> Seq(Steps)]
  /\ \A p \in Processes : \A i \in 1 .. Len(todo[p]) :
       ForkAt(p, i) => stage[todo[p][i].party] = "absent" /\ p = Caller
  /\ \A p \in Processes : \A i, j \in 1 .. Len(todo[p]) :
       ForkAt(p, i) /\ ForkAt(p, j) /\ todo[p][i].party = todo[p][j].party => i = j

\* Until the program runs, the caller's process is alone and nothing has been printed.
Early(p) == stage[p] \in {"called", "compile", "compiled", "restored"}
EarlyInv ==
  \A p \in Processes : Early(p) =>
    /\ \A s \in Streams : pipe[s] = <<>>
    /\ \A q \in Processes : stdio[q] = <<>> /\ (q # p => stage[q] = "absent")

\* What p has printed is not in pipe s, but for copies.
Clean(p, s) == \A i \in 1 .. Len(pipe[s]) : pipe[s][i].by = p => pipe[s][i] \in copied

\* What is in a buffer is of its process, but for copies.  A process that has flushed has
\* nothing in its buffer; when it has read a pipe, nothing of its own is there.
DrainInv ==
  /\ \A p \in Processes : \A i \in 1 .. Len(stdio[p]) :
       stdio[p][i].by = p \/ stdio[p][i] \in copied
  /\ \A p \in Processes :
       world.pipes =>
         /\ stage[p] \in {"read_out", "read_err", "returned", "exited"} => stdio[p] = <<>>
         /\ stage[p] \in {"read_err", "returned", "exited"} => Clean(p, "out")
         /\ stage[p] \in {"returned", "exited"} => Clean(p, "err")

IInv == TypeOK /\ TodoInv /\ FilesInv /\ EarlyInv /\ DrainInv

LEMMA InvImplies == IInv => CallerRestored /\ ProgramHeard /\ DrainedOnReturn
<1>1. SUFFICES ASSUME IInv PROVE CallerRestored /\ ProgramHeard /\ DrainedOnReturn
  OBVIOUS
<1>2. CallerRestored
  BY <1>1 DEF IInv, FilesInv, Placed, CallerRestored, Terminal
<1>3. ProgramHeard
  <2>1. SUFFICES ASSUME NEW p \in Processes, stage[p] \in {"run", "flush"}
                 PROVE  fd[p] = [s \in Streams |-> IF world.pipes THEN s ELSE "terminal"]
    BY DEF ProgramHeard
  <2>2. fd[p] = IF world.pipes THEN Piped ELSE Terminal
    BY <1>1, <2>1 DEF IInv, FilesInv, Placed
  <2>3. CASE world.pipes
    BY <2>2, <2>3 DEF Piped
  <2>4. CASE ~ world.pipes
    BY <2>2, <2>4 DEF Terminal
  <2>5. QED BY <2>3, <2>4
<1>4. DrainedOnReturn
  <2>1. SUFFICES ASSUME NEW p \in Processes, stage[p] \in {"returned", "exited"}, world.pipes
                 PROVE  /\ stdio[p] = <<>>
                        /\ \A s \in Streams : \A i \in DOMAIN pipe[s] :
                             pipe[s][i].by = p => pipe[s][i] \in copied
    BY DEF DrainedOnReturn
  <2>2. stdio[p] = <<>> /\ Clean(p, "out") /\ Clean(p, "err")
    BY <1>1, <2>1 DEF IInv, DrainInv
  <2>3. \A s \in Streams : pipe[s] \in Seq(Chunks)
    BY <1>1 DEF IInv, TypeOK
  <2>4. \A s \in Streams : DOMAIN pipe[s] = 1 .. Len(pipe[s])
    BY <2>3
  <2>5. QED BY <2>2, <2>4 DEF Clean, Streams
<1>5. QED BY <1>2, <1>3, <1>4

LEMMA InitInv == Init => IInv
<1>1. SUFFICES ASSUME Init PROVE IInv
  OBVIOUS
<1>2. TypeOK
  BY <1>1 DEF Init, TypeOK, Stages, Streams, CaptureFds, Caller, Processes
<1>3. TodoInv
  <2>1. prog \in Programs /\ prog.main \in Seq(Steps)
    BY <1>1 DEF Init, Program
  <2>2. todo \in [Processes -> Seq(Steps)]
    BY <1>1, <2>1 DEF Init
  <2>3. \A p \in Processes : todo[p] = IF p = Caller THEN prog.main ELSE <<>>
    BY <1>1 DEF Init
  <2>4. \A p \in Processes : \A i \in 1 .. Len(todo[p]) :
          ForkAt(p, i) => stage[todo[p][i].party] = "absent" /\ p = Caller
    <3>1. SUFFICES ASSUME NEW p \in Processes, NEW i \in 1 .. Len(todo[p]), ForkAt(p, i)
                   PROVE  stage[todo[p][i].party] = "absent" /\ p = Caller
      OBVIOUS
    <3>2. p = Caller
      BY <2>3, <3>1
    <3>3. todo[p][i] \in Steps
      BY <2>2, <3>1
    <3>4. todo[p][i].party \in Processes \ {Caller}
      BY <3>1, <3>3 DEF ForkAt, Steps, PrintTo, Fork, Sync, Wait, Raise
    <3>5. QED BY <1>1, <3>2, <3>4 DEF Init
  <2>5. \A p \in Processes : \A i, j \in 1 .. Len(todo[p]) :
          ForkAt(p, i) /\ ForkAt(p, j) /\ todo[p][i].party = todo[p][j].party => i = j
    BY <2>1, <2>3 DEF ForkAt
  <2>6. QED BY <2>2, <2>4, <2>5 DEF TodoInv
<1>4. FilesInv
  BY <1>1 DEF Init, FilesInv, Placed, Terminal
<1>5. EarlyInv
  BY <1>1 DEF Init, EarlyInv, Early
<1>6. DrainInv
  BY <1>1 DEF Init, DrainInv
<1>7. QED BY <1>2, <1>3, <1>4, <1>5, <1>6 DEF IInv
-----------------------------------------------------------------------------
\* What a step leaves as it is.

\* A step of p changes the stage of p alone ...
Moves(p, s) == stage' = [stage EXCEPT ![p] = s]

\* ... and no descriptors but those of p.
OthersFiles(p) == \A q \in Processes \ {p} : fd'[q] = fd[q] /\ extra'[q] = extra[q]

LEMMA MovesFacts ==
  ASSUME TypeOK, NEW p \in Processes, NEW s \in Stages, Moves(p, s)
  PROVE  /\ stage' \in [Processes -> Stages]
         /\ stage'[p] = s
         /\ \A q \in Processes \ {p} : stage'[q] = stage[q]
  BY DEF TypeOK, Moves

LEMMA TodoKept ==
  ASSUME IInv, NEW p \in Processes, NEW s \in Stages, Moves(p, s), stage[p] # "absent",
         UNCHANGED todo
  PROVE  TodoInv'
<1>1. \A q \in Processes \ {p} : stage'[q] = stage[q]
  BY MovesFacts DEF IInv
<1>2. TodoInv
  BY DEF IInv
<1>3. \A q \in Processes : \A i \in 1 .. Len(todo[q]) :
        ForkAt(q, i) => stage'[todo[q][i].party] = "absent" /\ q = Caller
  <2>1. SUFFICES ASSUME NEW q \in Processes, NEW i \in 1 .. Len(todo[q]), ForkAt(q, i)
                 PROVE  stage'[todo[q][i].party] = "absent" /\ q = Caller
    OBVIOUS
  <2>2. stage[todo[q][i].party] = "absent" /\ q = Caller
    BY <1>2, <2>1 DEF TodoInv
  <2>3. todo[q][i] \in Steps
    BY <1>2, <2>1 DEF TodoInv
  <2>4. todo[q][i].party \in Processes
    BY <2>1, <2>3, ForkStep DEF ForkAt
  <2>5. QED BY <1>1, <2>2, <2>4
<1>4. QED BY <1>2, <1>3 DEF TodoInv, ForkAt

LEMMA TodoDone ==
  ASSUME IInv, NEW p \in Processes, UNCHANGED stage, todo[p] # <<>>, Done(p)
  PROVE  TodoInv'
<1>1. todo \in [Processes -> Seq(Steps)]
  BY DEF IInv, TodoInv
<1>2. todo' = [todo EXCEPT ![p] = Tail(todo[p])]
  BY DEF Done
<1>3. /\ Tail(todo[p]) \in Seq(Steps)
      /\ \A i \in 1 .. Len(Tail(todo[p])) :
           Tail(todo[p])[i] = todo[p][i + 1] /\ i + 1 \in 1 .. Len(todo[p])
  BY <1>1, TailFacts
<1>4. todo' \in [Processes -> Seq(Steps)]
  BY <1>1, <1>2, <1>3
<1>5. \A q \in Processes : \A i \in 1 .. Len(todo'[q]) :
        ForkAt(q, i)' => stage'[todo'[q][i].party] = "absent" /\ q = Caller
  <2>1. SUFFICES ASSUME NEW q \in Processes, NEW i \in 1 .. Len(todo'[q]), ForkAt(q, i)'
                 PROVE  stage[todo'[q][i].party] = "absent" /\ q = Caller
    OBVIOUS
  <2>2. CASE q = p
    <3>1. todo'[q][i] = todo[q][i + 1] /\ i + 1 \in 1 .. Len(todo[q])
      BY <1>1, <1>2, <1>3, <2>1, <2>2
    <3>2. QED BY <2>1, <3>1 DEF IInv, TodoInv, ForkAt
  <2>3. CASE q # p
    BY <1>1, <1>2, <2>1, <2>3 DEF IInv, TodoInv, ForkAt
  <2>4. QED BY <2>2, <2>3
<1>6. \A q \in Processes : \A i, j \in 1 .. Len(todo'[q]) :
        ForkAt(q, i)' /\ ForkAt(q, j)' /\ todo'[q][i].party = todo'[q][j].party => i = j
  <2>1. SUFFICES ASSUME NEW q \in Processes,
                        NEW i \in 1 .. Len(todo'[q]), NEW j \in 1 .. Len(todo'[q]),
                        ForkAt(q, i)', ForkAt(q, j)', todo'[q][i].party = todo'[q][j].party
                 PROVE  i = j
    OBVIOUS
  <2>2. CASE q = p
    <3>1. /\ todo'[q][i] = todo[q][i + 1] /\ i + 1 \in 1 .. Len(todo[q])
          /\ todo'[q][j] = todo[q][j + 1] /\ j + 1 \in 1 .. Len(todo[q])
      BY <1>1, <1>2, <1>3, <2>1, <2>2
    <3>2. i + 1 = j + 1
      BY <2>1, <3>1 DEF IInv, TodoInv, ForkAt
    <3>3. QED BY <3>2
  <2>3. CASE q # p
    BY <1>1, <1>2, <2>1, <2>3 DEF IInv, TodoInv, ForkAt
  <2>4. QED BY <2>2, <2>3
<1>7. QED BY <1>4, <1>5, <1>6 DEF TodoInv

LEMMA FilesKept ==
  ASSUME IInv, NEW p \in Processes, OthersFiles(p), UNCHANGED world,
         \A q \in Processes \ {p} : stage'[q] = stage[q], Placed(p)'
  PROVE  FilesInv'
<1>1. \A q \in Processes \ {p} : Placed(q)'
  BY DEF IInv, FilesInv, Placed, OthersFiles
<1>2. QED BY <1>1 DEF FilesInv

\* Once one process is past the start nobody is at the start.
LEMMA NobodyEarly ==
  ASSUME IInv, NEW p \in Processes, ~ Early(p), stage[p] # "absent"
  PROVE  \A q \in Processes : ~ Early(q)
  BY DEF IInv, EarlyInv

LEMMA EarlyKept ==
  ASSUME IInv, NEW p \in Processes, ~ Early(p), stage[p] # "absent",
         \A q \in Processes : stage'[q] = stage[q] \/ stage'[q] \notin {"called", "compile", "compiled", "restored"}
  PROVE  EarlyInv'
<1>1. \A q \in Processes : ~ Early(q)
  BY NobodyEarly
<1>2. \A q \in Processes : ~ Early(q)'
  BY <1>1 DEF Early
<1>3. QED BY <1>2 DEF EarlyInv

\* A step of the start, which prints nothing to the pipes.
LEMMA EarlyStep ==
  ASSUME IInv, NEW p \in Processes, Early(p), NEW s \in Stages, Moves(p, s),
         UNCHANGED <<pipe, stdio, copied>>
  PROVE  EarlyInv' /\ DrainInv'
<1>1. /\ \A t \in Streams : pipe[t] = <<>>
      /\ \A q \in Processes : stdio[q] = <<>> /\ (q # p => stage[q] = "absent")
  BY DEF IInv, EarlyInv
<1>2. \A q \in Processes \ {p} : stage'[q] = "absent"
  BY <1>1, MovesFacts DEF IInv
<1>3. EarlyInv'
  BY <1>1, <1>2 DEF EarlyInv, Early
<1>4. \A q \in Processes, t \in Streams : Clean(q, t)'
  BY <1>1 DEF Clean
<1>5. DrainInv'
  BY <1>1, <1>4 DEF DrainInv, Streams
<1>6. QED BY <1>3, <1>5

\* Writing a chunk: it goes to the end of one pipe, or of none.
Gets(s, c) == pipe'[s] = pipe[s] \/ pipe'[s] = Append(pipe[s], c)

LEMMA WriteFacts ==
  ASSUME TypeOK, NEW p \in Processes, NEW s \in Streams, NEW c \in Chunks, Write(p, s, c)
  PROVE  /\ pipe' \in [Streams -> Seq(Chunks)]
         /\ terminal' \in Seq(Chunks)
         /\ \A t \in Streams : Gets(t, c)
<1>1. pipe \in [Streams -> Seq(Chunks)] /\ terminal \in Seq(Chunks)
  BY DEF TypeOK
<1>2. \A t \in Streams : Append(pipe[t], c) \in Seq(Chunks)
  BY <1>1
<1>3. Append(terminal, c) \in Seq(Chunks)
  BY <1>1
<1>4. CASE terminal' = Append(terminal, c) /\ UNCHANGED pipe
  BY <1>1, <1>3, <1>4 DEF Gets
<1>5. CASE UNCHANGED <<terminal, pipe>>
  BY <1>1, <1>5 DEF Gets
<1>6. ASSUME NEW t \in Streams, pipe' = [pipe EXCEPT ![t] = Append(@, c)], UNCHANGED terminal
      PROVE  /\ pipe' \in [Streams -> Seq(Chunks)]
             /\ terminal' \in Seq(Chunks)
             /\ \A u \in Streams : Gets(u, c)
  BY <1>1, <1>2, <1>6 DEF Gets
<1>7. QED BY <1>4, <1>5, <1>6 DEF Write

\* A pipe that has nothing of q, but for copies, stays so when another process writes.
LEMMA CleanKept ==
  ASSUME TypeOK, NEW q \in Processes, NEW s \in Streams, NEW c \in Chunks,
         Clean(q, s), Gets(s, c), c.by # q \/ c \in copied, copied \subseteq copied'
  PROVE  Clean(q, s)'
<1>1. pipe[s] \in Seq(Chunks)
  BY DEF TypeOK
<1>2. \A i \in 1 .. Len(Append(pipe[s], c)) :
        Append(pipe[s], c)[i] = c \/ (i \in 1 .. Len(pipe[s]) /\ Append(pipe[s], c)[i] = pipe[s][i])
  BY <1>1, AppendFacts
<1>3. CASE pipe'[s] = pipe[s]
  BY <1>3 DEF Clean
<1>4. CASE pipe'[s] = Append(pipe[s], c)
  BY <1>2, <1>4 DEF Clean
<1>5. QED BY <1>3, <1>4 DEF Gets

\* While p runs its program it may write what is its own, or copied.
LEMMA DrainKept ==
  ASSUME IInv, NEW p \in Processes, stage[p] \in {"run", "flush"}, UNCHANGED <<world, copied>>,
         NEW s \in {"run", "flush", "dead"}, Moves(p, s),
         NEW c \in Chunks, c.by = p \/ c \in copied, \A t \in Streams : Gets(t, c),
         \A q \in Processes \ {p} : stdio'[q] = stdio[q],
         \A i \in 1 .. Len(stdio'[p]) : stdio'[p][i].by = p \/ stdio'[p][i] \in copied
  PROVE  DrainInv'
<1>1. s \in Stages
  BY DEF Stages
<1>2. stage'[p] = s /\ \A q \in Processes \ {p} : stage'[q] = stage[q]
  BY <1>1, MovesFacts DEF IInv
<1>3. \A q \in Processes : \A i \in 1 .. Len(stdio'[q]) :
        stdio'[q][i].by = q \/ stdio'[q][i] \in copied'
  BY DEF IInv, DrainInv
<1>4. ASSUME NEW q \in Processes, world.pipes
      PROVE  /\ stage'[q] \in {"read_out", "read_err", "returned", "exited"} => stdio'[q] = <<>>
             /\ stage'[q] \in {"read_err", "returned", "exited"} => Clean(q, "out")'
             /\ stage'[q] \in {"returned", "exited"} => Clean(q, "err")'
  <2>1. CASE q = p
    BY <1>2, <2>1
  <2>2. CASE q # p
    <3>1. /\ stage[q] \in {"read_out", "read_err", "returned", "exited"} => stdio[q] = <<>>
          /\ stage[q] \in {"read_err", "returned", "exited"} => Clean(q, "out")
          /\ stage[q] \in {"returned", "exited"} => Clean(q, "err")
      BY <1>4 DEF IInv, DrainInv
    <3>2. c.by # q \/ c \in copied
      BY <2>2
    <3>3. \A t \in Streams : Clean(q, t) => Clean(q, t)'
      BY <3>2, CleanKept DEF IInv
    <3>4. "out" \in Streams /\ "err" \in Streams
      BY DEF Streams
    <3>5. QED BY <1>2, <2>2, <3>1, <3>3, <3>4
  <2>3. QED BY <2>1, <2>2
<1>5. QED BY <1>3, <1>4 DEF DrainInv

-----------------------------------------------------------------------------
\* One lemma for each action.

LEMMA SuppressInv == ASSUME IInv, NEW p \in Processes, Suppress(p) PROVE IInv'
<1>1. /\ "compile" \in Stages /\ Moves(p, "compile") /\ stage[p] = "called" /\ Early(p)
      /\ UNCHANGED <<world, prog, todo, data, met, printed, copied>>
  BY DEF Suppress, Goto, Moves, Stages, Early
<1>2. TypeOK /\ fd[p] = Terminal /\ extra[p] = {}
  BY <1>1 DEF IInv, FilesInv, Placed
<1>3. stage' \in [Processes -> Stages] /\ stage'[p] = "compile" /\ \A q \in Processes \ {p} : stage'[q] = stage[q]
  BY <1>1, <1>2, MovesFacts
<1>4. /\ fd' \in [Processes -> [Streams -> {"terminal", "null"} \cup Streams]]
      /\ extra' \in [Processes -> SUBSET (CaptureFds \cup {"saved_fd"})]
      /\ saved' \in [Processes -> [{"saved_fd", "saved_out", "saved_err"} -> {"terminal"}]]
      /\ fd'[p] = (IF world.quiet THEN Silent ELSE Terminal)
      /\ extra'[p] = IF world.quiet THEN {"saved_fd"} ELSE {}
      /\ OthersFiles(p)
  <2>1. CASE world.quiet
    <3>1. /\ saved' = [saved EXCEPT ![p].saved_fd = "terminal"]
          /\ extra' = [extra EXCEPT ![p] = {"saved_fd"}]
          /\ fd' = [fd EXCEPT ![p] = Silent]
      BY <1>2, <2>1 DEF Suppress, Terminal, Silent, Streams, TypeOK
    <3>2. Silent \in [Streams -> {"terminal", "null"} \cup Streams]
      BY DEF Silent
    <3>3. saved' \in [Processes -> [{"saved_fd", "saved_out", "saved_err"} -> {"terminal"}]]
      BY <1>2, <3>1 DEF TypeOK
    <3>4. QED BY <1>2, <2>1, <3>1, <3>2, <3>3 DEF TypeOK, OthersFiles
  <2>2. CASE ~ world.quiet
    BY <1>2, <2>2 DEF Suppress, files, TypeOK, OthersFiles
  <2>3. QED BY <2>1, <2>2
<1>5. TypeOK'
  BY <1>1, <1>2, <1>3, <1>4 DEF TypeOK, data
<1>6. TodoInv'
  BY <1>1, TodoKept
<1>7. FilesInv'
  <2>1. Placed(p)'
    BY <1>1, <1>3, <1>4 DEF Placed
  <2>2. QED BY <1>1, <1>3, <1>4, <2>1, FilesKept
<1>8. EarlyInv' /\ DrainInv'
  BY <1>1, EarlyStep DEF data
<1>9. QED BY <1>5, <1>6, <1>7, <1>8 DEF IInv

\* Descriptor 2 is back, wherever the destructor or restore() has run.
LEMMA RestoredFacts ==
  ASSUME IInv, NEW p \in Processes, stage[p] \in {"compile", "compiled"}, Restored(p)
  PROVE  /\ fd' \in [Processes -> [Streams -> {"terminal", "null"} \cup Streams]]
         /\ extra' \in [Processes -> SUBSET (CaptureFds \cup {"saved_fd"})]
         /\ saved' = saved
         /\ fd'[p] = Terminal /\ extra'[p] = {}
         /\ OthersFiles(p)
<1>1. /\ TypeOK
      /\ fd[p] = IF world.quiet THEN Silent ELSE Terminal
      /\ extra[p] = IF world.quiet THEN {"saved_fd"} ELSE {}
  BY DEF IInv, FilesInv, Placed
<1>2. CASE world.quiet
  <2>1. saved[p].saved_fd = "terminal"
    BY <1>1 DEF TypeOK
  <2>2. [Silent EXCEPT !.err = "terminal"] = Terminal
    BY DEF Silent, Terminal, Streams
  <2>3. fd' = [fd EXCEPT ![p] = Terminal] /\ extra' = [extra EXCEPT ![p] = {}] /\ saved' = saved
    BY <1>1, <1>2, <2>1, <2>2 DEF Restored, TypeOK
  <2>4. Terminal \in [Streams -> {"terminal", "null"} \cup Streams]
    BY DEF Terminal
  <2>5. QED BY <1>1, <2>3, <2>4 DEF TypeOK, OthersFiles
<1>3. CASE ~ world.quiet
  BY <1>1, <1>3 DEF Restored, files, TypeOK, OthersFiles
<1>4. QED BY <1>2, <1>3

LEMMA CompileInv == ASSUME IInv, NEW p \in Processes, Compile(p) PROVE IInv'
<1> DEFINE to == IF world.compiles /\ world.runs THEN "compiled" ELSE "returned"
<1>1. /\ to \in Stages /\ Moves(p, to) /\ stage[p] = "compile" /\ Early(p)
      /\ UNCHANGED <<world, prog, todo, stdio, result, met, printed, copied>>
  BY DEF Compile, Goto, Moves, Stages, Early
<1>2. /\ TypeOK
      /\ fd[p] = IF world.quiet THEN Silent ELSE Terminal
      /\ extra[p] = IF world.quiet THEN {"saved_fd"} ELSE {}
  BY <1>1 DEF IInv, FilesInv, Placed
<1>3. stage' \in [Processes -> Stages] /\ stage'[p] = to /\ \A q \in Processes \ {p} : stage'[q] = stage[q]
  BY <1>1, <1>2, MovesFacts
<1>4. terminal' \in Seq(Chunks) /\ UNCHANGED pipe
  <2>1. fd[p]["err"] \in {"terminal", "null"}
    BY <1>2 DEF Silent, Terminal, Streams
  <2>2. Diagnostic \in Chunks
    BY DEF Diagnostic, Chunks, Streams
  <2>3. Write(p, "err", Diagnostic)
    BY DEF Compile
  <2>4. UNCHANGED pipe
    BY <2>1, <2>3 DEF Write, Streams
  <2>5. "err" \in Streams
    BY DEF Streams
  <2>6. QED BY <1>2, <2>2, <2>3, <2>4, <2>5, WriteFacts
<1>5. /\ fd' \in [Processes -> [Streams -> {"terminal", "null"} \cup Streams]]
      /\ extra' \in [Processes -> SUBSET (CaptureFds \cup {"saved_fd"})]
      /\ saved' = saved
      /\ OthersFiles(p)
      /\ Placed(p)'
  <2>1. CASE world.compiles /\ world.runs
    <3>1. UNCHANGED files /\ stage'[p] = "compiled"
      BY <1>3, <2>1 DEF Compile
    <3>2. QED BY <1>1, <1>2, <3>1 DEF files, TypeOK, OthersFiles, Placed
  <2>2. CASE ~ (world.compiles /\ world.runs)
    <3>1. Restored(p) /\ stage'[p] = "returned"
      BY <1>3, <2>2 DEF Compile
    <3>2. QED BY <1>1, <3>1, RestoredFacts DEF Placed
  <2>3. QED BY <2>1, <2>2
<1>6. TypeOK'
  BY <1>1, <1>2, <1>3, <1>4, <1>5 DEF TypeOK
<1> HIDE DEF to
<1>7. TodoInv'
  BY <1>1, TodoKept
<1>8. FilesInv'
  BY <1>1, <1>3, <1>5, FilesKept
<1>9. EarlyInv' /\ DrainInv'
  BY <1>1, <1>4, EarlyStep
<1>10. QED BY <1>6, <1>7, <1>8, <1>9 DEF IInv

LEMMA RestoreInv == ASSUME IInv, NEW p \in Processes, Restore(p) PROVE IInv'
<1>1. /\ "restored" \in Stages /\ Moves(p, "restored") /\ stage[p] = "compiled" /\ Early(p)
      /\ UNCHANGED <<world, prog, todo, data, met, printed, copied>> /\ Restored(p)
  BY DEF Restore, Goto, Moves, Stages, Early
<1>2. TypeOK
  BY DEF IInv
<1>3. stage' \in [Processes -> Stages] /\ stage'[p] = "restored" /\ \A q \in Processes \ {p} : stage'[q] = stage[q]
  BY <1>1, <1>2, MovesFacts
<1>4. /\ fd' \in [Processes -> [Streams -> {"terminal", "null"} \cup Streams]]
      /\ extra' \in [Processes -> SUBSET (CaptureFds \cup {"saved_fd"})]
      /\ saved' = saved
      /\ fd'[p] = Terminal /\ extra'[p] = {}
      /\ OthersFiles(p)
  BY <1>1, RestoredFacts
<1>5. TypeOK'
  BY <1>1, <1>2, <1>3, <1>4 DEF TypeOK, data
<1>6. TodoInv'
  BY <1>1, TodoKept
<1>7. FilesInv'
  <2>1. Placed(p)'
    BY <1>3, <1>4 DEF Placed
  <2>2. QED BY <1>1, <1>3, <1>4, <2>1, FilesKept
<1>8. EarlyInv' /\ DrainInv'
  BY <1>1, EarlyStep DEF data
<1>9. QED BY <1>5, <1>6, <1>7, <1>8 DEF IInv

LEMMA StartInv == ASSUME IInv, NEW p \in Processes, Start(p) PROVE IInv'
<1>1. /\ "run" \in Stages /\ Moves(p, "run") /\ stage[p] = "restored" /\ Early(p)
      /\ UNCHANGED <<world, prog, todo, data, met, printed, copied>>
  BY DEF Start, Goto, Moves, Stages, Early
<1>2. TypeOK /\ fd[p] = Terminal /\ extra[p] = {}
  BY <1>1 DEF IInv, FilesInv, Placed
<1>3. stage' \in [Processes -> Stages] /\ stage'[p] = "run" /\ \A q \in Processes \ {p} : stage'[q] = stage[q]
  BY <1>1, <1>2, MovesFacts
<1>4. /\ fd' \in [Processes -> [Streams -> {"terminal", "null"} \cup Streams]]
      /\ extra' \in [Processes -> SUBSET (CaptureFds \cup {"saved_fd"})]
      /\ saved' \in [Processes -> [{"saved_fd", "saved_out", "saved_err"} -> {"terminal"}]]
      /\ fd'[p] = (IF world.pipes THEN Piped ELSE Terminal)
      /\ extra'[p] = IF world.pipes THEN CaptureFds ELSE {}
      /\ OthersFiles(p)
  <2>1. CASE world.pipes
    <3>1. /\ saved' = [saved EXCEPT ![p].saved_out = "terminal", ![p].saved_err = "terminal"]
          /\ extra' = [extra EXCEPT ![p] = CaptureFds]
          /\ fd' = [fd EXCEPT ![p] = Piped]
      <4>1. fd[p].out = "terminal" /\ fd[p].err = "terminal"
        BY <1>2 DEF Terminal, Streams
      <4>2. extra[p] \cup CaptureFds = CaptureFds
        BY <1>2
      <4>3. QED BY <1>1, <2>1, <4>1, <4>2 DEF Start, Piped
    <3>2. Piped \in [Streams -> {"terminal", "null"} \cup Streams]
      BY DEF Piped
    <3>3. saved' \in [Processes -> [{"saved_fd", "saved_out", "saved_err"} -> {"terminal"}]]
      BY <1>2, <3>1 DEF TypeOK
    <3>4. QED BY <1>2, <2>1, <3>1, <3>2, <3>3 DEF TypeOK, OthersFiles
  <2>2. CASE ~ world.pipes
    BY <1>2, <2>2 DEF Start, files, TypeOK, OthersFiles
  <2>3. QED BY <2>1, <2>2
<1>5. TypeOK'
  BY <1>1, <1>2, <1>3, <1>4 DEF TypeOK, data
<1>6. TodoInv'
  BY <1>1, TodoKept
<1>7. FilesInv'
  <2>1. Placed(p)'
    BY <1>1, <1>3, <1>4 DEF Placed
  <2>2. QED BY <1>1, <1>3, <1>4, <2>1, FilesKept
<1>8. EarlyInv' /\ DrainInv'
  BY <1>1, EarlyStep DEF data
<1>9. QED BY <1>5, <1>6, <1>7, <1>8 DEF IInv

-----------------------------------------------------------------------------
\* The program's steps.

LEMMA RunFacts ==
  ASSUME IInv, NEW p \in Processes, stage[p] \in {"run", "flush"}
  PROVE  ~ Early(p) /\ stage[p] # "absent" /\ (UNCHANGED stage => Moves(p, stage[p]))
  BY DEF IInv, TypeOK, Early, Moves

LEMMA ChunkType ==
  ASSUME TypeOK, NEW p \in Processes, NEW s \in Streams
  PROVE  Chunk(p, s) \in Chunks /\ Chunk(p, s).by = p
  BY DEF TypeOK, Chunk, Chunks

LEMMA PrintInv == ASSUME IInv, NEW p \in Processes, PrintChunk(p) PROVE IInv'
<1> DEFINE s == Head(todo[p]).to
           c == Chunk(p, s)
<1>1. /\ stage[p] = "run" /\ todo[p] # <<>> /\ Head(todo[p]).do = "print"
      /\ UNCHANGED <<world, prog, stage, files, result, met, copied>> /\ Done(p)
      /\ printed' = [printed EXCEPT ![p] = @ + 1]
  BY DEF PrintChunk, Does
<1>2. TypeOK /\ todo \in [Processes -> Seq(Steps)]
  BY DEF IInv, TodoInv
<1>3. s \in Streams
  BY <1>1, <1>2, TailFacts, PrintStep
<1>4. c \in Chunks /\ c.by = p
  BY <1>2, <1>3, ChunkType
<1>5. \/ s = "out" /\ stdio' = [stdio EXCEPT ![p] = Append(stdio[p], c)] /\ UNCHANGED <<pipe, terminal>>
      \/ Write(p, s, c) /\ UNCHANGED stdio
  BY DEF PrintChunk
<1> HIDE DEF s, c
<1>6. /\ pipe' \in [Streams -> Seq(Chunks)] /\ terminal' \in Seq(Chunks)
      /\ \A t \in Streams : Gets(t, c)
  BY <1>2, <1>3, <1>4, <1>5, WriteFacts DEF TypeOK, Gets
<1>7. stdio[p] \in Seq(Chunks)
  BY <1>2 DEF TypeOK
<1>8. /\ stdio' \in [Processes -> Seq(Chunks)]
      /\ \A q \in Processes \ {p} : stdio'[q] = stdio[q]
      /\ stdio'[p] = stdio[p] \/ stdio'[p] = Append(stdio[p], c)
  <2>1. Append(stdio[p], c) \in Seq(Chunks)
    BY <1>4, <1>7
  <2>2. QED BY <1>2, <1>5, <2>1 DEF TypeOK
<1>9. \A i \in 1 .. Len(stdio'[p]) : stdio'[p][i].by = p \/ stdio'[p][i] \in copied
  <2>1. \A i \in 1 .. Len(stdio[p]) : stdio[p][i].by = p \/ stdio[p][i] \in copied
    BY DEF IInv, DrainInv
  <2>2. QED BY <1>4, <1>7, <1>8, <2>1, AppendFacts
<1>10. TypeOK'
  <2>1. printed' \in [Processes -> Nat]
    BY <1>1, <1>2 DEF TypeOK
  <2>2. QED BY <1>1, <1>2, <1>6, <1>8, <2>1 DEF TypeOK, files
<1>11. TodoInv'
  BY <1>1, TodoDone
<1>12. FilesInv'
  BY <1>1 DEF IInv, FilesInv, Placed, files
<1>13. EarlyInv'
  BY <1>1, RunFacts, EarlyKept
<1>14. DrainInv'
  <2>1. Moves(p, "run")
    BY <1>1, RunFacts
  <2>2. QED BY <1>1, <1>4, <1>6, <1>8, <1>9, <2>1, DrainKept
<1>15. QED BY <1>10, <1>11, <1>12, <1>13, <1>14 DEF IInv

LEMMA FlushInv == ASSUME IInv, NEW p \in Processes, Flush(p) PROVE IInv'
<1> DEFINE c == Head(stdio[p])
<1>1. /\ stage[p] \in {"run", "flush"} /\ Write(p, "out", c)
      /\ stdio' = [stdio EXCEPT ![p] = Tail(stdio[p])]
      /\ UNCHANGED <<world, prog, stage, todo, files, result, met, printed, copied>>
  BY DEF Flush, Does
<1>2. TypeOK /\ stdio[p] \in Seq(Chunks)
  BY DEF IInv, TypeOK
<1>3. stdio[p] # <<>>
  BY BoundAssumption DEF Flush
<1>4. /\ c = stdio[p][1] /\ c \in Chunks /\ 1 \in 1 .. Len(stdio[p])
      /\ Tail(stdio[p]) \in Seq(Chunks)
      /\ \A i \in 1 .. Len(Tail(stdio[p])) :
           Tail(stdio[p])[i] = stdio[p][i + 1] /\ i + 1 \in 1 .. Len(stdio[p])
  BY <1>2, <1>3, TailFacts
<1> HIDE DEF c
<1>5. \A i \in 1 .. Len(stdio[p]) : stdio[p][i].by = p \/ stdio[p][i] \in copied
  BY DEF IInv, DrainInv
<1>6. c.by = p \/ c \in copied
  BY <1>4, <1>5
<1>7. /\ pipe' \in [Streams -> Seq(Chunks)] /\ terminal' \in Seq(Chunks)
      /\ \A t \in Streams : Gets(t, c)
  <2>1. "out" \in Streams
    BY DEF Streams
  <2>2. QED BY <1>1, <1>2, <1>4, <2>1, WriteFacts
<1>8. /\ stdio' \in [Processes -> Seq(Chunks)]
      /\ \A q \in Processes \ {p} : stdio'[q] = stdio[q]
      /\ stdio'[p] = Tail(stdio[p])
  BY <1>1, <1>2, <1>4 DEF TypeOK
<1>9. \A i \in 1 .. Len(stdio'[p]) : stdio'[p][i].by = p \/ stdio'[p][i] \in copied
  BY <1>4, <1>5, <1>8
<1>10. Moves(p, stage[p]) /\ ~ Early(p) /\ stage[p] # "absent" /\ stage[p] \in Stages
  BY <1>1, <1>2, RunFacts DEF TypeOK
<1>11. TypeOK'
  BY <1>1, <1>2, <1>7, <1>8 DEF TypeOK, files
<1>12. TodoInv'
  BY <1>1, <1>10, TodoKept
<1>13. FilesInv'
  BY <1>1 DEF IInv, FilesInv, Placed, files
<1>14. EarlyInv'
  BY <1>1, <1>10, EarlyKept
<1>15. DrainInv'
  <2>1. ASSUME NEW s \in {"run", "flush", "dead"}, s = stage[p] PROVE Moves(p, s)
    BY <1>10, <2>1 DEF Moves
  <2>2. QED BY <1>1, <1>4, <1>6, <1>7, <1>8, <1>9, <2>1, DrainKept
<1>16. QED BY <1>11, <1>12, <1>13, <1>14, <1>15 DEF IInv

LEMMA RaiseInv == ASSUME IInv, NEW p \in Processes, RaiseUncaught(p) PROVE IInv'
<1> DEFINE c == Chunk(p, "err")
<1>1. /\ stage[p] = "run" /\ Write(p, "err", c) /\ Moves(p, "dead") /\ "dead" \in Stages
      /\ stdio' = [stdio EXCEPT ![p] = <<>>] /\ extra' = [extra EXCEPT ![p] = {}]
      /\ printed' = [printed EXCEPT ![p] = @ + 1]
      /\ UNCHANGED <<world, prog, todo, fd, saved, result, met, copied>>
  BY DEF RaiseUncaught, Does, Goto, Moves, Stages
<1>2. TypeOK /\ "err" \in Streams
  BY DEF IInv, Streams
<1>3. c \in Chunks /\ c.by = p
  BY <1>2, ChunkType
<1> HIDE DEF c
<1>4. /\ pipe' \in [Streams -> Seq(Chunks)] /\ terminal' \in Seq(Chunks)
      /\ \A t \in Streams : Gets(t, c)
  BY <1>1, <1>2, <1>3, WriteFacts
<1>5. /\ stdio' \in [Processes -> Seq(Chunks)]
      /\ \A q \in Processes \ {p} : stdio'[q] = stdio[q]
      /\ \A i \in 1 .. Len(stdio'[p]) : stdio'[p][i].by = p \/ stdio'[p][i] \in copied
  <2>1. <<>> \in Seq(Chunks)
    OBVIOUS
  <2>2. QED BY <1>1, <1>2, <2>1 DEF TypeOK
<1>6. stage' \in [Processes -> Stages] /\ stage'[p] = "dead" /\ \A q \in Processes \ {p} : stage'[q] = stage[q]
  BY <1>1, <1>2, MovesFacts
<1>7. ~ Early(p) /\ stage[p] # "absent"
  BY <1>1, RunFacts
<1>8. TypeOK'
  <2>1. printed' \in [Processes -> Nat] /\ extra' \in [Processes -> SUBSET (CaptureFds \cup {"saved_fd"})]
    BY <1>1, <1>2 DEF TypeOK
  <2>2. QED BY <1>1, <1>2, <1>4, <1>5, <1>6, <2>1 DEF TypeOK
<1>9. TodoInv'
  BY <1>1, <1>7, TodoKept
<1>10. FilesInv'
  <2>1. OthersFiles(p)
    BY <1>1, <1>2 DEF OthersFiles, TypeOK
  <2>2. Placed(p)'
    BY <1>6 DEF Placed
  <2>3. QED BY <1>1, <1>6, <2>1, <2>2, FilesKept
<1>11. EarlyInv'
  BY <1>6, <1>7, EarlyKept
<1>12. DrainInv'
  BY <1>1, <1>3, <1>4, <1>5, DrainKept
<1>13. QED BY <1>8, <1>9, <1>10, <1>11, <1>12 DEF IInv

\* Where nothing is written, meeting and waiting change what is to do alone.
LEMMA OnlyTodo ==
  ASSUME IInv, UNCHANGED <<world, prog, stage, files, data, printed, copied>>,
         met' \subseteq Processes, TodoInv'
  PROVE  IInv'
<1>1. TypeOK'
  BY DEF IInv, TypeOK, files, data
<1>2. FilesInv'
  BY DEF IInv, FilesInv, Placed, files
<1>3. EarlyInv'
  BY DEF IInv, EarlyInv, Early, data
<1>4. DrainInv'
  BY DEF IInv, DrainInv, Clean, data
<1>5. QED BY <1>1, <1>2, <1>3, <1>4 DEF IInv

LEMMA SyncInv == ASSUME IInv, NEW p \in Processes, SyncParties(p) PROVE IInv'
<1>1. /\ stage[p] = "run" /\ todo[p] # <<>>
      /\ UNCHANGED <<world, prog, stage, files, data, printed, copied>>
  BY DEF SyncParties, Does
<1>2. TypeOK /\ TodoInv
  BY DEF IInv
<1>3. met' \subseteq Processes
  BY <1>2 DEF SyncParties, TypeOK
<1>4. TodoInv'
  <2>1. CASE UNCHANGED todo
    BY <1>1, <1>2, <2>1 DEF TodoInv, ForkAt
  <2>2. CASE Done(p)
    BY <1>1, <2>2, TodoDone
  <2>3. CASE todo' = [todo EXCEPT ![p] = <<Raise>>]
    <3>1. <<Raise>> \in Seq(Steps) /\ Len(<<Raise>>) = 1 /\ <<Raise>>[1].do # "fork"
      BY RaiseStep
    <3>2. todo' \in [Processes -> Seq(Steps)] /\ todo'[p] = <<Raise>> /\ \A q \in Processes \ {p} : todo'[q] = todo[q]
      BY <1>2, <2>3, <3>1 DEF TodoInv
    <3>3. \A i \in 1 .. Len(todo'[p]) : ~ ForkAt(p, i)'
      <4>1. \A i \in 1 .. 1 : i = 1
        OBVIOUS
      <4>2. QED BY <3>1, <3>2, <4>1 DEF ForkAt
    <3>4. ASSUME NEW q \in Processes \ {p}, NEW i \in 1 .. Len(todo'[q])
          PROVE  ForkAt(q, i)' => stage'[todo'[q][i].party] = "absent" /\ q = Caller
      BY <1>1, <1>2, <3>2 DEF TodoInv, ForkAt
    <3>5. ASSUME NEW q \in Processes \ {p}, NEW i \in 1 .. Len(todo'[q]), NEW j \in 1 .. Len(todo'[q])
          PROVE  ForkAt(q, i)' /\ ForkAt(q, j)' /\ todo'[q][i].party = todo'[q][j].party => i = j
      BY <1>2, <3>2 DEF TodoInv, ForkAt
    <3>6. QED BY <3>2, <3>3, <3>4, <3>5 DEF TodoInv
  <2>4. QED BY <2>1, <2>2, <2>3 DEF SyncParties
<1>5. QED BY <1>1, <1>3, <1>4, OnlyTodo

LEMMA WaitInv == ASSUME IInv, NEW p \in Processes, WaitForChild(p) PROVE IInv'
<1>1. TodoInv'
  BY TodoDone DEF WaitForChild, Does
<1>2. met' \subseteq Processes
  BY DEF WaitForChild, IInv, TypeOK
<1>3. QED BY <1>1, <1>2, OnlyTodo DEF WaitForChild

LEMMA ForkInv ==
  ASSUME IInv, NEW p \in Processes, ForkParty(p),
         NEW q \in Processes, q = Head(todo[p]).party
  PROVE  IInv'
<1>1. /\ stage[p] = "run" /\ todo[p] # <<>> /\ Head(todo[p]).do = "fork"
      /\ stage' = [stage EXCEPT ![q] = "run"]
      /\ todo' = [todo EXCEPT ![p] = Tail(todo[p]), ![q] = prog.party[q]]
      /\ fd' = [fd EXCEPT ![q] = fd[p]] /\ extra' = [extra EXCEPT ![q] = extra[p]]
      /\ saved' = [saved EXCEPT ![q] = saved[p]] /\ stdio' = [stdio EXCEPT ![q] = stdio[p]]
      /\ copied' = copied \cup {stdio[p][i] : i \in DOMAIN stdio[p]}
      /\ UNCHANGED <<world, prog, pipe, result, terminal, met, printed>>
  BY DEF ForkParty, Does
<1>2. TypeOK /\ TodoInv /\ todo[p] \in Seq(Steps)
  BY DEF IInv, TodoInv
<1>3. /\ Head(todo[p]) = todo[p][1] /\ Head(todo[p]) \in Steps /\ 1 \in 1 .. Len(todo[p])
      /\ Tail(todo[p]) \in Seq(Steps)
      /\ \A i \in 1 .. Len(Tail(todo[p])) : Tail(todo[p])[i] = todo[p][i + 1] /\ i + 1 \in 1 .. Len(todo[p])
  BY <1>1, <1>2, TailFacts
<1>4. ForkAt(p, 1) /\ q = todo[p][1].party
  BY <1>1, <1>3 DEF ForkAt
<1>5. stage[q] = "absent" /\ p = Caller /\ q # p
  BY <1>1, <1>2, <1>3, <1>4 DEF TodoInv
<1>6. /\ prog.party[q] \in Seq(Steps)
      /\ \A i \in 1 .. Len(prog.party[q]) : prog.party[q][i].do # "fork"
  BY <1>2, <1>4 DEF TypeOK, Program
<1>7. /\ stage' \in [Processes -> Stages] /\ stage'[q] = "run"
      /\ \A r \in Processes \ {q} : stage'[r] = stage[r]
  BY <1>1, <1>2, <1>4 DEF TypeOK, Stages
<1>8. /\ todo' \in [Processes -> Seq(Steps)] /\ todo'[p] = Tail(todo[p]) /\ todo'[q] = prog.party[q]
      /\ \A r \in Processes \ {p, q} : todo'[r] = todo[r]
  BY <1>1, <1>2, <1>3, <1>4, <1>5, <1>6 DEF TodoInv
<1>9. stdio[p] \in Seq(Chunks) /\ DOMAIN stdio[p] = 1 .. Len(stdio[p])
  BY <1>2 DEF TypeOK
<1>10. TypeOK'
  <2>1. copied' \subseteq Chunks
    BY <1>1, <1>2, <1>9 DEF TypeOK
  <2>2. stdio' \in [Processes -> Seq(Chunks)]
    BY <1>1, <1>2, <1>9 DEF TypeOK
  <2>3. fd' \in [Processes -> [Streams -> {"terminal", "null"} \cup Streams]]
    BY <1>1, <1>2 DEF TypeOK
  <2>4. /\ extra' \in [Processes -> SUBSET (CaptureFds \cup {"saved_fd"})]
        /\ saved' \in [Processes -> [{"saved_fd", "saved_out", "saved_err"} -> {"terminal"}]]
    BY <1>1, <1>2 DEF TypeOK
  <2>5. QED BY <1>1, <1>2, <1>7, <2>1, <2>2, <2>3, <2>4 DEF TypeOK
<1>11. TodoInv'
  <2>1. ASSUME NEW r \in Processes, NEW i \in 1 .. Len(todo'[r]), ForkAt(r, i)'
        PROVE  stage'[todo'[r][i].party] = "absent" /\ r = Caller
    <3>1. CASE r = p
      <4>1. todo'[r][i] = todo[p][i + 1] /\ i + 1 \in 1 .. Len(todo[p]) /\ i + 1 # 1
        <5>1. i \in 1 .. Len(Tail(todo[p]))
          BY <1>8, <3>1
        <5>2. i + 1 # 1
          BY <5>1
        <5>3. Tail(todo[p])[i] = todo[p][i + 1] /\ i + 1 \in 1 .. Len(todo[p])
          BY <1>3, <5>1
        <5>4. QED BY <1>8, <3>1, <5>2, <5>3
      <4>2. ForkAt(p, i + 1)
        BY <2>1, <4>1 DEF ForkAt
      <4>3. stage[todo[p][i + 1].party] = "absent" /\ todo[p][i + 1].party # q
        BY <1>2, <1>3, <1>4, <4>1, <4>2 DEF TodoInv
      <4>4. todo[p][i + 1] \in Steps
        BY <1>2, <4>1
      <4>5. todo[p][i + 1].party \in Processes
        BY <4>2, <4>4, ForkStep DEF ForkAt
      <4>6. QED BY <1>5, <1>7, <3>1, <4>1, <4>3, <4>5
    <3>2. CASE r = q
      BY <1>6, <1>8, <2>1, <3>2 DEF ForkAt
    <3>3. CASE r # p /\ r # q
      BY <1>2, <1>5, <1>8, <2>1, <3>3 DEF TodoInv, ForkAt
    <3>4. QED BY <3>1, <3>2, <3>3
  <2>2. ASSUME NEW r \in Processes, NEW i \in 1 .. Len(todo'[r]), NEW j \in 1 .. Len(todo'[r]),
               ForkAt(r, i)', ForkAt(r, j)', todo'[r][i].party = todo'[r][j].party
        PROVE  i = j
    <3>1. r = p
      BY <1>5, <2>1, <2>2
    <3>2. /\ todo'[r][i] = todo[p][i + 1] /\ i + 1 \in 1 .. Len(todo[p])
          /\ todo'[r][j] = todo[p][j + 1] /\ j + 1 \in 1 .. Len(todo[p])
      BY <1>3, <1>8, <2>2, <3>1
    <3>3. i + 1 = j + 1
      BY <1>2, <2>2, <3>2 DEF TodoInv, ForkAt
    <3>4. QED BY <3>3
  <2>3. QED BY <1>8, <2>1, <2>2 DEF TodoInv
<1>12. FilesInv'
  <2>1. Placed(p)
    BY DEF IInv, FilesInv
  <2>2. fd'[q] = fd[p] /\ extra'[q] = extra[p]
    BY <1>1, <1>2, <1>4 DEF TypeOK
  <2>3. Placed(q)'
    <3>1. /\ fd[p] = IF world.pipes THEN Piped ELSE Terminal
          /\ extra[p] = IF world.pipes THEN CaptureFds ELSE {}
      BY <1>1, <2>1 DEF Placed
    <3>2. QED BY <1>1, <1>7, <2>2, <3>1 DEF Placed
  <2>4. OthersFiles(q)
    BY <1>1, <1>2 DEF OthersFiles, TypeOK
  <2>5. QED BY <1>1, <1>4, <1>7, <2>3, <2>4, FilesKept
<1>13. EarlyInv'
  BY <1>1, <1>4, <1>7, RunFacts, EarlyKept
<1>14. DrainInv'
  <2>1. /\ stdio'[q] = stdio[p] /\ \A r \in Processes \ {q} : stdio'[r] = stdio[r]
        /\ copied \subseteq copied'
    BY <1>1, <1>2, <1>4 DEF TypeOK
  <2>2. \A i \in 1 .. Len(stdio'[q]) : stdio'[q][i] \in copied'
    BY <1>1, <1>9, <2>1
  <2>3. ASSUME NEW r \in Processes, NEW i \in 1 .. Len(stdio'[r])
        PROVE  stdio'[r][i].by = r \/ stdio'[r][i] \in copied'
    BY <2>1, <2>2 DEF IInv, DrainInv
  <2>4. \A r \in Processes, s \in Streams : Clean(r, s) => Clean(r, s)'
    BY <1>1, <2>1 DEF Clean
  <2>5. ASSUME NEW r \in Processes, world.pipes
        PROVE  /\ stage'[r] \in {"read_out", "read_err", "returned", "exited"} => stdio'[r] = <<>>
               /\ stage'[r] \in {"read_err", "returned", "exited"} => Clean(r, "out")'
               /\ stage'[r] \in {"returned", "exited"} => Clean(r, "err")'
    <3>1. CASE r = q
      BY <1>7, <3>1
    <3>2. CASE r # q
      BY <1>7, <2>1, <2>4, <2>5, <3>2 DEF IInv, DrainInv, Streams
    <3>3. QED BY <3>1, <3>2
  <2>6. QED BY <1>1, <2>3, <2>5 DEF DrainInv
<1>15. QED BY <1>10, <1>11, <1>12, <1>13, <1>14 DEF IInv

-----------------------------------------------------------------------------
\* The end of the capture.

\* Where nothing is printed: the stage alone changes, and p is as clean as it says.
LEMMA DrainStage ==
  ASSUME IInv, NEW p \in Processes, NEW s \in Stages, Moves(p, s),
         UNCHANGED <<world, pipe, copied>>,
         \A q \in Processes \ {p} : stdio'[q] = stdio[q],
         stdio'[p] = stdio[p] \/ stdio'[p] = <<>>,
         world.pipes =>
           /\ s \in {"read_out", "read_err", "returned", "exited"} => stdio'[p] = <<>>
           /\ s \in {"read_err", "returned", "exited"} => Clean(p, "out")
           /\ s \in {"returned", "exited"} => Clean(p, "err")
  PROVE  DrainInv'
<1>1. stage'[p] = s /\ \A q \in Processes \ {p} : stage'[q] = stage[q]
  BY MovesFacts DEF IInv
<1>2. \A q \in Processes : \A i \in 1 .. Len(stdio'[q]) :
        stdio'[q][i].by = q \/ stdio'[q][i] \in copied'
  BY DEF IInv, DrainInv
<1>3. \A q \in Processes, t \in Streams : Clean(q, t) => Clean(q, t)'
  BY DEF Clean
<1>4. ASSUME NEW q \in Processes, world.pipes
      PROVE  /\ stage'[q] \in {"read_out", "read_err", "returned", "exited"} => stdio'[q] = <<>>
             /\ stage'[q] \in {"read_err", "returned", "exited"} => Clean(q, "out")'
             /\ stage'[q] \in {"returned", "exited"} => Clean(q, "err")'
  <2>1. CASE q = p
    BY <1>1, <1>3, <1>4, <2>1 DEF Streams
  <2>2. CASE q # p
    BY <1>1, <1>3, <1>4, <2>2 DEF IInv, DrainInv, Streams
  <2>3. QED BY <2>1, <2>2
<1>5. QED BY <1>2, <1>4 DEF DrainInv

LEMMA EndProgramInv == ASSUME IInv, NEW p \in Processes, EndProgram(p) PROVE IInv'
<1> DEFINE to == IF Capturing(p) THEN "flush" ELSE "returned"
<1>1. /\ to \in Stages /\ Moves(p, to) /\ stage[p] = "run"
      /\ UNCHANGED <<world, prog, todo, files, data, met, printed, copied>>
  BY DEF EndProgram, Goto, Moves, Stages
<1>2. /\ TypeOK /\ ~ Early(p) /\ stage[p] # "absent"
      /\ fd[p] = IF world.pipes THEN Piped ELSE Terminal
      /\ extra[p] = IF world.pipes THEN CaptureFds ELSE {}
  BY <1>1 DEF IInv, FilesInv, Placed, Early
<1>3. to = IF world.pipes THEN "flush" ELSE "returned"
  BY <1>2 DEF Capturing, CaptureFds
<1>4. stage' \in [Processes -> Stages] /\ stage'[p] = to /\ \A q \in Processes \ {p} : stage'[q] = stage[q]
  BY <1>1, <1>2, MovesFacts
<1> HIDE DEF to
<1>5. TypeOK'
  BY <1>1, <1>2, <1>4 DEF TypeOK, files, data
<1>6. TodoInv'
  BY <1>1, <1>2, TodoKept
<1>7. FilesInv'
  <2>1. Placed(p)'
    BY <1>1, <1>2, <1>3, <1>4 DEF Placed, files
  <2>2. OthersFiles(p)
    BY <1>1 DEF OthersFiles, files
  <2>3. QED BY <1>1, <1>4, <2>1, <2>2, FilesKept
<1>8. EarlyInv'
  BY <1>2, <1>3, <1>4, EarlyKept
<1>9. DrainInv'
  <2>1. ASSUME NEW s \in Stages, s = to PROVE Moves(p, s)
    BY <1>1, <2>1 DEF Moves
  <2>2. QED BY <1>1, <1>3, <2>1, DrainStage DEF data
<1>10. QED BY <1>5, <1>6, <1>7, <1>8, <1>9 DEF IInv

LEMMA RestoreFdsInv == ASSUME IInv, NEW p \in Processes, RestoreFds(p) PROVE IInv'
<1>1. /\ "read_out" \in Stages /\ Moves(p, "read_out") /\ stage[p] = "flush" /\ stdio[p] = <<>>
      /\ fd' = [fd EXCEPT ![p] = [out |-> saved[p].saved_out, err |-> saved[p].saved_err]]
      /\ extra' = [extra EXCEPT ![p] = extra[p] \ {"saved_out", "saved_err", "out_w", "err_w"}]
      /\ UNCHANGED <<world, prog, todo, saved, data, met, printed, copied>>
  BY DEF RestoreFds, PutBack, Goto, Moves, Stages
<1>2. /\ TypeOK /\ ~ Early(p) /\ stage[p] # "absent"
      /\ extra[p] = CaptureFds
  BY <1>1 DEF IInv, FilesInv, Placed, Early
<1>3. stage' \in [Processes -> Stages] /\ stage'[p] = "read_out" /\ \A q \in Processes \ {p} : stage'[q] = stage[q]
  BY <1>1, <1>2, MovesFacts
<1>4. /\ fd' = [fd EXCEPT ![p] = Terminal]
      /\ extra' = [extra EXCEPT ![p] = {"out_r", "err_r"}]
  <2>1. saved[p].saved_out = "terminal" /\ saved[p].saved_err = "terminal"
    BY <1>2 DEF TypeOK
  <2>2. [out |-> "terminal", err |-> "terminal"] = Terminal
    BY DEF Terminal, Streams
  <2>3. QED BY <1>1, <1>2, <2>1, <2>2 DEF CaptureFds
<1>5. /\ fd' \in [Processes -> [Streams -> {"terminal", "null"} \cup Streams]]
      /\ extra' \in [Processes -> SUBSET (CaptureFds \cup {"saved_fd"})]
      /\ OthersFiles(p) /\ fd'[p] = Terminal /\ extra'[p] = {"out_r", "err_r"}
  <2>1. Terminal \in [Streams -> {"terminal", "null"} \cup Streams]
    BY DEF Terminal
  <2>2. {"out_r", "err_r"} \subseteq CaptureFds
    BY DEF CaptureFds
  <2>3. QED BY <1>2, <1>4, <2>1, <2>2 DEF TypeOK, OthersFiles
<1>6. TypeOK'
  BY <1>1, <1>2, <1>3, <1>5 DEF TypeOK, data
<1>7. TodoInv'
  BY <1>1, <1>2, TodoKept
<1>8. FilesInv'
  <2>1. Placed(p)'
    BY <1>3, <1>5 DEF Placed
  <2>2. QED BY <1>1, <1>3, <1>5, <2>1, FilesKept
<1>9. EarlyInv'
  BY <1>2, <1>3, EarlyKept
<1>10. DrainInv'
  BY <1>1, DrainStage DEF data
<1>11. QED BY <1>6, <1>7, <1>8, <1>9, <1>10 DEF IInv

LEMMA ReadPipeInv ==
  ASSUME IInv, NEW p \in Processes, NEW s \in Streams, ReadPipe(p, s) PROVE IInv'
<1>1. /\ stage[p] \in {"read_out", "read_err"} /\ pipe[s] # <<>>
      /\ result' = [result EXCEPT ![p] = Append(result[p], Head(pipe[s]))]
      /\ pipe' = [pipe EXCEPT ![s] = Tail(pipe[s])]
      /\ UNCHANGED <<world, prog, stage, todo, files, stdio, terminal, met, printed, copied>>
  BY DEF ReadPipe, Reads
<1>2. TypeOK /\ pipe[s] \in Seq(Chunks) /\ ~ Early(p) /\ stage[p] # "absent"
  BY <1>1 DEF IInv, TypeOK, Early
<1>3. /\ Head(pipe[s]) \in Chunks /\ Tail(pipe[s]) \in Seq(Chunks)
      /\ \A i \in 1 .. Len(Tail(pipe[s])) : Tail(pipe[s])[i] = pipe[s][i + 1] /\ i + 1 \in 1 .. Len(pipe[s])
  BY <1>1, <1>2, TailFacts
<1>4. TypeOK'
  <2>1. Append(result[p], Head(pipe[s])) \in Seq(Chunks)
    BY <1>2, <1>3 DEF TypeOK
  <2>2. result' \in [Processes -> Seq(Chunks)] /\ pipe' \in [Streams -> Seq(Chunks)]
    BY <1>1, <1>2, <1>3, <2>1 DEF TypeOK
  <2>3. QED BY <1>1, <1>2, <2>2 DEF TypeOK, files
<1>5. TodoInv'
  BY <1>1 DEF IInv, TodoInv, ForkAt
<1>6. FilesInv'
  BY <1>1 DEF IInv, FilesInv, Placed, files
<1>7. EarlyInv'
  BY <1>1, <1>2, EarlyKept
<1>8. DrainInv'
  <2>1. ASSUME NEW q \in Processes, NEW t \in Streams, Clean(q, t) PROVE Clean(q, t)'
    <3>1. CASE t = s
      <4>1. pipe'[t] = Tail(pipe[s])
        BY <1>1, <1>2, <3>1 DEF TypeOK
      <4>2. QED BY <1>1, <1>3, <2>1, <3>1, <4>1 DEF Clean
    <3>2. CASE t # s
      BY <1>1, <1>2, <2>1, <3>2 DEF Clean, TypeOK
    <3>3. QED BY <3>1, <3>2
  <2>2. QED BY <1>1, <2>1 DEF IInv, DrainInv, Streams
<1>9. QED BY <1>4, <1>5, <1>6, <1>7, <1>8 DEF IInv

LEMMA PipeEmptyInv ==
  ASSUME IInv, NEW p \in Processes, NEW s \in Streams, PipeEmpty(p, s) PROVE IInv'
<1> DEFINE to == IF s = "out" THEN "read_err" ELSE "returned"
<1>1. /\ to \in Stages /\ Moves(p, to) /\ stage[p] = (IF s = "out" THEN "read_out" ELSE "read_err")
      /\ pipe[s] = <<>>
      /\ extra' = [extra EXCEPT ![p] = extra[p] \ {IF s = "out" THEN "out_r" ELSE "err_r"}]
      /\ UNCHANGED <<world, prog, todo, fd, saved, data, met, printed, copied>>
  BY DEF PipeEmpty, Reads, Drained, Goto, Moves, Stages
<1>2. /\ TypeOK /\ ~ Early(p) /\ stage[p] # "absent" /\ fd[p] = Terminal
      /\ extra[p] = IF s = "out" THEN {"out_r", "err_r"} ELSE {"err_r"}
  BY <1>1 DEF IInv, FilesInv, Placed, Early
<1>3. stage' \in [Processes -> Stages] /\ stage'[p] = to /\ \A q \in Processes \ {p} : stage'[q] = stage[q]
  BY <1>1, <1>2, MovesFacts
<1>4. /\ extra' \in [Processes -> SUBSET (CaptureFds \cup {"saved_fd"})]
      /\ OthersFiles(p) /\ fd'[p] = Terminal
      /\ extra'[p] = IF s = "out" THEN {"err_r"} ELSE {}
  BY <1>1, <1>2 DEF TypeOK, OthersFiles
<1>5. TypeOK'
  BY <1>1, <1>2, <1>3, <1>4 DEF TypeOK, data
<1>6. FilesInv'
  <2>1. Placed(p)'
    BY <1>3, <1>4 DEF Placed
  <2>2. QED BY <1>1, <1>3, <1>4, <2>1, FilesKept
<1>7. EarlyInv'
  BY <1>2, <1>3, EarlyKept
<1>8. world.pipes => stdio[p] = <<>> /\ Clean(p, s) /\ (s # "out" => Clean(p, "out"))
  BY <1>1 DEF IInv, DrainInv, Clean
<1>9. s = "out" \/ s = "err"
  BY DEF Streams
<1> HIDE DEF to
<1>10. TodoInv'
  BY <1>1, <1>2, TodoKept
<1>11. DrainInv'
  <2>1. ASSUME NEW t \in Stages, t = to PROVE Moves(p, t)
    BY <1>1, <2>1 DEF Moves
  <2>2. to = IF s = "out" THEN "read_err" ELSE "returned"
    BY DEF to
  <2>3. QED BY <1>1, <1>8, <1>9, <2>1, <2>2, DrainStage DEF data
<1>12. QED BY <1>5, <1>6, <1>7, <1>10, <1>11 DEF IInv

LEMMA ExitInv == ASSUME IInv, NEW p \in Processes, Exit(p) PROVE IInv'
<1>1. /\ "exited" \in Stages /\ Moves(p, "exited") /\ stage[p] = "returned"
      /\ terminal' = terminal \o result[p] \o stdio[p]
      /\ stdio' = [stdio EXCEPT ![p] = <<>>]
      /\ UNCHANGED <<world, prog, todo, files, pipe, result, met, printed, copied>>
  BY DEF Exit, Goto, Moves, Stages
<1>2. /\ TypeOK /\ ~ Early(p) /\ stage[p] # "absent" /\ fd[p] = Terminal /\ extra[p] = {}
  BY <1>1 DEF IInv, FilesInv, Placed, Early
<1>3. stage' \in [Processes -> Stages] /\ stage'[p] = "exited" /\ \A q \in Processes \ {p} : stage'[q] = stage[q]
  BY <1>1, <1>2, MovesFacts
<1>4. stdio' \in [Processes -> Seq(Chunks)] /\ stdio'[p] = <<>> /\ \A q \in Processes \ {p} : stdio'[q] = stdio[q]
  <2>1. <<>> \in Seq(Chunks)
    OBVIOUS
  <2>2. QED BY <1>1, <1>2, <2>1 DEF TypeOK
<1>5. TypeOK'
  <2>1. terminal' \in Seq(Chunks)
    BY <1>1, <1>2 DEF TypeOK
  <2>2. QED BY <1>1, <1>2, <1>3, <1>4, <2>1 DEF TypeOK, files
<1>6. TodoInv'
  BY <1>1, <1>2, TodoKept
<1>7. FilesInv'
  <2>1. Placed(p)'
    BY <1>1, <1>2, <1>3 DEF Placed, files
  <2>2. OthersFiles(p)
    BY <1>1 DEF OthersFiles, files
  <2>3. QED BY <1>1, <1>3, <2>1, <2>2, FilesKept
<1>8. EarlyInv'
  BY <1>2, <1>3, EarlyKept
<1>9. DrainInv'
  <2>1. world.pipes => Clean(p, "out") /\ Clean(p, "err")
    BY <1>1 DEF IInv, DrainInv
  <2>2. QED BY <1>1, <1>4, <2>1, DrainStage
<1>10. QED BY <1>5, <1>6, <1>7, <1>8, <1>9 DEF IInv

-----------------------------------------------------------------------------

LEMMA NextInv == IInv /\ [Next]_vars => IInv'
<1>1. SUFFICES ASSUME IInv, [Next]_vars PROVE IInv'
  OBVIOUS
<1>2. CASE UNCHANGED vars
  <2>1. TodoInv' /\ met' \subseteq Processes
    BY <1>1, <1>2 DEF vars, IInv, TodoInv, ForkAt, TypeOK
  <2>2. QED BY <1>1, <1>2, <2>1, OnlyTodo DEF vars
<1>3. ASSUME NEW p \in Processes, Step(p) PROVE IInv'
  <2>1. ASSUME ForkParty(p) PROVE IInv'
    <3>1. Head(todo[p]) \in Steps /\ Head(todo[p]).do = "fork"
      BY <1>1, <2>1, TailFacts DEF IInv, TodoInv, ForkParty, Does
    <3>2. PICK q \in Processes : q = Head(todo[p]).party
      BY <3>1, ForkStep
    <3>3. QED BY <1>1, <2>1, <3>2, ForkInv
  <2>2. QED
    BY <1>1, <1>3, <2>1, SuppressInv, CompileInv, RestoreInv, StartInv, PrintInv, FlushInv,
       SyncInv, WaitInv, RaiseInv, EndProgramInv, RestoreFdsInv, ReadPipeInv, PipeEmptyInv,
       ExitInv DEF Step
<1>4. QED BY <1>1, <1>2, <1>3 DEF Next

LEMMA Invariant == Spec => []IInv
  BY InitInv, NextInv, PTL DEF Spec

\* Every variable keeps its type.
THEOREM TypeCorrect == Spec => []TypeOK
<1>1. IInv => TypeOK
  BY DEF IInv
<1>2. QED BY <1>1, Invariant, PTL

\* sy_codon_run gives stdout and stderr back and leaves no descriptor open, in whichever
\* process and by whichever way it returns.
THEOREM OutputRestored == Spec => []CallerRestored
  BY Invariant, InvImplies, PTL

\* The silence ends before the program runs.
THEOREM SilenceEnds == Spec => []ProgramHeard
  BY Invariant, InvImplies, PTL

\* A process that returns leaves nothing of its own in its buffer or in the pipes, for
\* any number of parties that print, fork and read at the same time.
THEOREM OutputDrained == Spec => []DrainedOnReturn
  BY Invariant, InvImplies, PTL

-----------------------------------------------------------------------------
\* Where chunks are: in boxes, which are the buffers, the results until they are shown, the
\* pipes and the terminal.  A place is a box and an index into it.

Sinks == ({"pipe"} \X Streams) \cup {<<"terminal", 0>>}
Boxes == ({"stdio", "result"} \X Processes) \cup Sinks
Fillings == [Boxes -> Seq(Chunks)]

PlacesOf(B) == UNION {{b} \X (1 .. Len(B[b])) : b \in DOMAIN B}
AtPlaceOf(B, x) == B[x[1]][x[2]]

Holds(B, c) == \E x \in PlacesOf(B) : AtPlaceOf(B, x) = c

\* No chunk is in two places, but those of K.
AtMostOnce(B, K) ==
  \A x, y \in PlacesOf(B) : AtPlaceOf(B, x) = AtPlaceOf(B, y) /\ AtPlaceOf(B, x) \notin K => x = y

\* C has the chunks of B, each at a place that was one place before.
Rearranged(B, C) ==
  \E G \in [PlacesOf(C) -> PlacesOf(B)] :
    /\ \A x \in PlacesOf(C) : AtPlaceOf(C, x) = AtPlaceOf(B, G[x])
    /\ \A x, y \in PlacesOf(C) : G[x] = G[y] => x = y
    /\ \A y \in PlacesOf(B) : \E x \in PlacesOf(C) : G[x] = y

LEMMA RearrangedKeeps ==
  ASSUME NEW B, NEW C, Rearranged(B, C)
  PROVE  /\ \A c : Holds(B, c) <=> Holds(C, c)
         /\ \A K : AtMostOnce(B, K) => AtMostOnce(C, K)
<1>1. PICK G \in [PlacesOf(C) -> PlacesOf(B)] :
        /\ \A x \in PlacesOf(C) : AtPlaceOf(C, x) = AtPlaceOf(B, G[x])
        /\ \A x, y \in PlacesOf(C) : G[x] = G[y] => x = y
        /\ \A y \in PlacesOf(B) : \E x \in PlacesOf(C) : G[x] = y
  BY DEF Rearranged
<1>2. \A x \in PlacesOf(C) : G[x] \in PlacesOf(B)
  BY <1>1
<1>3. ASSUME NEW c PROVE Holds(B, c) <=> Holds(C, c)
  <2>1. ASSUME Holds(B, c) PROVE Holds(C, c)
    <3>1. PICK y \in PlacesOf(B) : AtPlaceOf(B, y) = c
      BY <2>1 DEF Holds
    <3>2. PICK x \in PlacesOf(C) : G[x] = y
      BY <1>1
    <3>3. AtPlaceOf(C, x) = c
      BY <1>1, <3>1, <3>2
    <3>4. QED BY <3>3 DEF Holds
  <2>2. ASSUME Holds(C, c) PROVE Holds(B, c)
    <3>1. PICK x \in PlacesOf(C) : AtPlaceOf(C, x) = c
      BY <2>2 DEF Holds
    <3>2. AtPlaceOf(B, G[x]) = c
      BY <1>1, <3>1
    <3>3. QED BY <1>2, <3>2 DEF Holds
  <2>3. QED BY <2>1, <2>2
<1>4. ASSUME NEW K, AtMostOnce(B, K) PROVE AtMostOnce(C, K)
  <2>1. SUFFICES ASSUME NEW x \in PlacesOf(C), NEW y \in PlacesOf(C),
                        AtPlaceOf(C, x) = AtPlaceOf(C, y), AtPlaceOf(C, x) \notin K
                 PROVE  x = y
    BY DEF AtMostOnce
  <2>2. /\ AtPlaceOf(C, x) = AtPlaceOf(B, G[x]) /\ G[x] \in PlacesOf(B)
        /\ AtPlaceOf(C, y) = AtPlaceOf(B, G[y]) /\ G[y] \in PlacesOf(B)
    BY <1>1, <1>2
  <2>3. G[x] = G[y]
    BY <1>4, <2>1, <2>2 DEF AtMostOnce
  <2>4. QED BY <1>1, <2>3
<1>5. QED BY <1>3, <1>4

LEMMA FillingIs ==
  ASSUME NEW B \in Fillings
  PROVE  DOMAIN B = Boxes /\ \A b \in Boxes : B[b] \in Seq(Chunks) /\ Len(B[b]) \in Nat
  BY DEF Fillings

\* A place, by its box and its index.
LEMMA PlaceIs ==
  ASSUME NEW B \in Fillings
  PROVE  /\ \A b \in Boxes : \A i \in 1 .. Len(B[b]) :
              <<b, i>> \in PlacesOf(B) /\ AtPlaceOf(B, <<b, i>>) = B[b][i]
         /\ \A x \in PlacesOf(B) :
              /\ x = <<x[1], x[2]>> /\ x[1] \in Boxes /\ x[2] \in Nat /\ x[2] \in 1 .. Len(B[x[1]])
              /\ AtPlaceOf(B, x) = B[x[1]][x[2]] /\ AtPlaceOf(B, x) \in Chunks
<1>1. DOMAIN B = Boxes /\ \A b \in Boxes : B[b] \in Seq(Chunks) /\ Len(B[b]) \in Nat
  BY FillingIs
<1>2. ASSUME NEW b \in Boxes, NEW i \in 1 .. Len(B[b])
      PROVE  <<b, i>> \in PlacesOf(B) /\ AtPlaceOf(B, <<b, i>>) = B[b][i]
  BY <1>1 DEF PlacesOf, AtPlaceOf
<1>3. ASSUME NEW x \in PlacesOf(B)
      PROVE  /\ x = <<x[1], x[2]>> /\ x[1] \in Boxes /\ x[2] \in Nat /\ x[2] \in 1 .. Len(B[x[1]])
             /\ AtPlaceOf(B, x) = B[x[1]][x[2]] /\ AtPlaceOf(B, x) \in Chunks
  <2>1. PICK b \in Boxes : x \in {b} \X (1 .. Len(B[b]))
    BY <1>1 DEF PlacesOf
  <2>2. x[1] = b /\ x[2] \in 1 .. Len(B[b]) /\ x = <<x[1], x[2]>>
    BY <2>1
  <2>3. B[x[1]] \in Seq(Chunks) /\ x[2] \in Nat
    BY <1>1, <2>2
  <2>4. B[x[1]][x[2]] \in Chunks
    BY <2>2, <2>3
  <2>5. QED BY <2>2, <2>3, <2>4 DEF AtPlaceOf
<1>4. QED BY <1>2, <1>3

\* The first chunk of box a goes to the end of box d.
Moved(B, C, a, d) ==
  /\ B[a] # <<>> /\ a # d
  /\ C[a] = Tail(B[a])
  /\ C[d] = Append(B[d], Head(B[a]))
  /\ \A b \in DOMAIN B \ {a, d} : C[b] = B[b]

LEMMA MovedIs ==
  ASSUME NEW B \in Fillings, NEW C \in Fillings,
         NEW a \in Boxes, NEW d \in Boxes, Moved(B, C, a, d)
  PROVE  Rearranged(B, C)
<1> DEFINE G == [x \in PlacesOf(C) |->
                  IF x[1] = a THEN <<a, x[2] + 1>>
                  ELSE IF x[1] = d /\ x[2] = Len(B[d]) + 1 THEN <<a, 1>> ELSE x]
<1>1. /\ B[a] # <<>> /\ a # d /\ B[a] \in Seq(Chunks) /\ B[d] \in Seq(Chunks)
      /\ C[a] = Tail(B[a])
      /\ C[d] = Append(B[d], Head(B[a]))
      /\ \A b \in Boxes \ {a, d} : C[b] = B[b]
  BY FillingIs DEF Moved
<1>2. /\ Head(B[a]) = B[a][1] /\ Head(B[a]) \in Chunks /\ 1 \in 1 .. Len(B[a])
      /\ Len(C[a]) = Len(B[a]) - 1
      /\ \A i \in 1 .. Len(C[a]) : C[a][i] = B[a][i + 1] /\ i + 1 \in 1 .. Len(B[a])
  BY <1>1, TailFacts
<1>3. /\ Len(B[d]) \in Nat /\ Len(C[d]) = Len(B[d]) + 1
      /\ C[d][Len(B[d]) + 1] = B[a][1]
      /\ \A i \in 1 .. Len(B[d]) : C[d][i] = B[d][i]
  BY <1>1, <1>2
<1>4. ASSUME NEW x \in PlacesOf(C)
      PROVE  G[x] \in PlacesOf(B) /\ AtPlaceOf(C, x) = AtPlaceOf(B, G[x])
  <2>1. /\ x = <<x[1], x[2]>> /\ x[1] \in Boxes /\ x[2] \in Nat /\ x[2] \in 1 .. Len(C[x[1]])
        /\ AtPlaceOf(C, x) = C[x[1]][x[2]]
    BY <1>4, PlaceIs
  <2>2. CASE x[1] = a
    <3>1. G[x] = <<a, x[2] + 1>>
      BY <2>2
    <3>2. C[a][x[2]] = B[a][x[2] + 1] /\ x[2] + 1 \in 1 .. Len(B[a])
      BY <1>2, <2>1, <2>2
    <3>3. QED BY <2>1, <2>2, <3>1, <3>2, PlaceIs
  <2>3. CASE x[1] = d /\ x[2] = Len(B[d]) + 1
    <3>1. G[x] = <<a, 1>>
      BY <1>1, <2>3
    <3>2. QED BY <1>2, <1>3, <2>1, <2>3, <3>1, PlaceIs
  <2>4. CASE x[1] = d /\ x[2] # Len(B[d]) + 1
    <3>1. G[x] = x
      BY <1>1, <2>4
    <3>2. x[2] \in 1 .. Len(B[d])
      BY <1>3, <2>1, <2>4
    <3>3. <<d, x[2]>> \in PlacesOf(B) /\ AtPlaceOf(B, <<d, x[2]>>) = B[d][x[2]]
      BY <3>2, PlaceIs
    <3>4. QED BY <1>3, <2>1, <2>4, <3>1, <3>2, <3>3
  <2>5. CASE x[1] \notin {a, d}
    <3>1. G[x] = x /\ C[x[1]] = B[x[1]]
      BY <1>1, <2>1, <2>5
    <3>2. <<x[1], x[2]>> \in PlacesOf(B) /\ AtPlaceOf(B, <<x[1], x[2]>>) = B[x[1]][x[2]]
      BY <2>1, <3>1, PlaceIs
    <3>3. QED BY <2>1, <3>1, <3>2
  <2>6. QED BY <2>2, <2>3, <2>4, <2>5
<1>5. ASSUME NEW x \in PlacesOf(C), NEW y \in PlacesOf(C), G[x] = G[y] PROVE x = y
  <2>1. /\ x = <<x[1], x[2]>> /\ x[2] \in Nat /\ x[2] \in 1 .. Len(C[x[1]])
        /\ y = <<y[1], y[2]>> /\ y[2] \in Nat /\ y[2] \in 1 .. Len(C[y[1]])
    BY PlaceIs
  <2>2. /\ G[x] = IF x[1] = a THEN <<a, x[2] + 1>>
                  ELSE IF x[1] = d /\ x[2] = Len(B[d]) + 1 THEN <<a, 1>> ELSE x
        /\ G[y] = IF y[1] = a THEN <<a, y[2] + 1>>
                  ELSE IF y[1] = d /\ y[2] = Len(B[d]) + 1 THEN <<a, 1>> ELSE y
    OBVIOUS
  <2>3. x[2] + 1 # 1 /\ y[2] + 1 # 1
    <3>1. x[2] >= 1 /\ y[2] >= 1
      BY <1>1, <2>1
    <3>2. QED BY <2>1, <3>1
  <2>4. /\ x[1] = a => G[x] = <<a, x[2] + 1>>
        /\ y[1] = a => G[y] = <<a, y[2] + 1>>
        /\ x[1] # a => (G[x] = <<a, 1>> /\ x = <<d, Len(B[d]) + 1>>) \/ G[x] = x
        /\ y[1] # a => (G[y] = <<a, 1>> /\ y = <<d, Len(B[d]) + 1>>) \/ G[y] = y
    BY <2>1, <2>2
  <2> HIDE DEF G
  <2>5. CASE x[1] = a /\ y[1] = a
    <3>1. <<a, x[2] + 1>> = <<a, y[2] + 1>>
      BY <1>5, <2>4, <2>5
    <3>2. x[2] + 1 = y[2] + 1
      BY <3>1
    <3>3. x[2] = y[2]
      BY <2>1, <3>2
    <3>4. QED BY <2>1, <2>5, <3>3
  <2>6. CASE x[1] = a /\ y[1] # a
    <3>1. <<a, x[2] + 1>> = <<a, 1>> \/ <<a, x[2] + 1>> = y
      BY <1>5, <2>4, <2>6
    <3>2. <<a, x[2] + 1>> # <<a, 1>>
      BY <2>3
    <3>3. <<a, x[2] + 1>> = y
      BY <3>1, <3>2
    <3>4. QED BY <2>6, <3>3
  <2>7. CASE x[1] # a /\ y[1] = a
    <3>1. <<a, y[2] + 1>> = <<a, 1>> \/ <<a, y[2] + 1>> = x
      BY <1>5, <2>4, <2>7
    <3>2. <<a, y[2] + 1>> # <<a, 1>>
      BY <2>3
    <3>3. <<a, y[2] + 1>> = x
      BY <3>1, <3>2
    <3>4. QED BY <2>7, <3>3
  <2>8. CASE x[1] # a /\ y[1] # a
    <3>1. x # <<a, 1>> /\ y # <<a, 1>>
      BY <2>8
    <3>2. QED BY <1>5, <2>4, <2>8, <3>1
  <2>9. QED BY <2>5, <2>6, <2>7, <2>8
<1>6. ASSUME NEW y \in PlacesOf(B) PROVE \E x \in PlacesOf(C) : G[x] = y
  <2>1. y = <<y[1], y[2]>> /\ y[1] \in Boxes /\ y[2] \in Nat /\ y[2] \in 1 .. Len(B[y[1]])
    BY PlaceIs
  <2>2. CASE y[1] = a /\ y[2] = 1
    <3>1. <<d, Len(B[d]) + 1>> \in PlacesOf(C)
      BY <1>3, PlaceIs
    <3>2. G[<<d, Len(B[d]) + 1>>] = <<a, 1>>
      BY <1>1, <3>1
    <3>3. QED BY <2>1, <2>2, <3>1, <3>2
  <2>3. CASE y[1] = a /\ y[2] # 1
    <3>1. y[2] - 1 \in 1 .. Len(C[a]) /\ (y[2] - 1) + 1 = y[2]
      BY <1>1, <1>2, <2>1, <2>3
    <3>2. <<a, y[2] - 1>> \in PlacesOf(C)
      BY <3>1, PlaceIs
    <3>3. G[<<a, y[2] - 1>>] = <<a, (y[2] - 1) + 1>>
      BY <3>2
    <3>4. QED BY <2>1, <2>3, <3>1, <3>2, <3>3
  <2>4. CASE y[1] = d
    <3>1. y[2] \in 1 .. Len(C[d]) /\ y[2] # Len(B[d]) + 1
      BY <1>3, <2>1, <2>4
    <3>2. <<d, y[2]>> \in PlacesOf(C)
      BY <3>1, PlaceIs
    <3>3. G[<<d, y[2]>>] = <<d, y[2]>>
      BY <1>1, <3>1, <3>2
    <3>4. QED BY <2>1, <2>4, <3>2, <3>3
  <2>5. CASE y[1] \notin {a, d}
    <3>1. C[y[1]] = B[y[1]]
      BY <1>1, <2>1, <2>5
    <3>2. <<y[1], y[2]>> \in PlacesOf(C)
      BY <2>1, <3>1, PlaceIs
    <3>3. G[<<y[1], y[2]>>] = <<y[1], y[2]>>
      BY <2>5, <3>2
    <3>4. QED BY <2>1, <3>2, <3>3
  <2>6. QED BY <2>2, <2>3, <2>4, <2>5
<1>7. G \in [PlacesOf(C) -> PlacesOf(B)]
  BY <1>4
<1> HIDE DEF G
<1>8. QED BY <1>4, <1>5, <1>6, <1>7 DEF Rearranged

\* All that is in box r goes to the end of box t.
Joined(B, C, r, t) ==
  /\ r # t
  /\ C[r] = <<>>
  /\ C[t] = B[t] \o B[r]
  /\ \A b \in DOMAIN B \ {r, t} : C[b] = B[b]

LEMMA JoinFacts ==
  ASSUME NEW s \in Seq(Chunks), NEW t \in Seq(Chunks)
  PROVE  /\ s \o t \in Seq(Chunks)
         /\ Len(s \o t) = Len(s) + Len(t)
         /\ \A i \in 1 .. Len(s) : (s \o t)[i] = s[i]
         /\ \A i \in 1 .. Len(t) : (s \o t)[Len(s) + i] = t[i]
  OBVIOUS

LEMMA JoinedIs ==
  ASSUME NEW B \in Fillings, NEW C \in Fillings,
         NEW r \in Boxes, NEW t \in Boxes, Joined(B, C, r, t)
  PROVE  Rearranged(B, C)
<1> DEFINE n == Len(B[t])
           G == [x \in PlacesOf(C) |->
                  IF x[1] = t /\ x[2] > n THEN <<r, x[2] - n>> ELSE x]
<1>1. /\ r # t /\ B[r] \in Seq(Chunks) /\ B[t] \in Seq(Chunks) /\ n \in Nat /\ Len(B[r]) \in Nat
      /\ C[r] = <<>> /\ Len(C[r]) = 0
      /\ C[t] = B[t] \o B[r]
      /\ \A b \in Boxes \ {r, t} : C[b] = B[b]
  BY FillingIs DEF Joined
<1>2. /\ Len(C[t]) = n + Len(B[r])
      /\ \A i \in 1 .. n : C[t][i] = B[t][i]
      /\ \A i \in 1 .. Len(B[r]) : C[t][n + i] = B[r][i]
  <2>1. /\ Len(B[t] \o B[r]) = Len(B[t]) + Len(B[r])
        /\ \A i \in 1 .. Len(B[t]) : (B[t] \o B[r])[i] = B[t][i]
        /\ \A i \in 1 .. Len(B[r]) : (B[t] \o B[r])[Len(B[t]) + i] = B[r][i]
    <3>1. B[t] \in Seq(Chunks) /\ B[r] \in Seq(Chunks)
      BY <1>1
    <3>2. QED BY <3>1, JoinFacts
  <2>2. QED BY <1>1, <2>1
<1> HIDE DEF n
<1>3. ASSUME NEW x \in PlacesOf(C)
      PROVE  /\ x[1] \in Boxes /\ x[1] # r
             /\ x = <<x[1], x[2]>> /\ x[2] \in Nat /\ x[2] \in 1 .. Len(C[x[1]])
             /\ AtPlaceOf(C, x) = C[x[1]][x[2]]
             /\ x[1] = t /\ x[2] > n => x[2] - n \in 1 .. Len(B[r]) /\ x[2] = n + (x[2] - n)
             /\ x[1] = t /\ ~ x[2] > n => x[2] \in 1 .. n
  <2>1. /\ x[1] \in Boxes
        /\ x = <<x[1], x[2]>> /\ x[2] \in Nat /\ x[2] \in 1 .. Len(C[x[1]])
        /\ AtPlaceOf(C, x) = C[x[1]][x[2]]
    BY PlaceIs
  <2>2. x[1] # r
    <3>1. ASSUME x[1] = r PROVE FALSE
      <4>1. x[2] \in 1 .. 0
        BY <1>1, <2>1, <3>1
      <4>2. QED BY <4>1
    <3>2. QED BY <3>1
  <2>3. x[1] = t => x[2] \in 1 .. n + Len(B[r])
    BY <1>2, <2>1
  <2>4. n \in Nat /\ Len(B[r]) \in Nat /\ x[2] \in Nat
    BY <1>1, <2>1
  <2>5. x[1] = t /\ x[2] > n => x[2] - n \in 1 .. Len(B[r]) /\ x[2] = n + (x[2] - n)
    BY <2>3, <2>4
  <2>6. x[1] = t /\ ~ x[2] > n => x[2] \in 1 .. n
    BY <2>3, <2>4
  <2>7. QED BY <2>1, <2>2, <2>5, <2>6
<1>4. ASSUME NEW x \in PlacesOf(C)
      PROVE  G[x] \in PlacesOf(B) /\ AtPlaceOf(C, x) = AtPlaceOf(B, G[x])
  <2>1. CASE x[1] = t /\ x[2] > n
    <3>1. G[x] = <<r, x[2] - n>>
      BY <2>1
    <3>2. x[2] - n \in 1 .. Len(B[r]) /\ x[2] = n + (x[2] - n)
      BY <1>3, <2>1
    <3>3. C[t][x[2]] = B[r][x[2] - n]
      BY <1>2, <3>2
    <3>4. QED BY <1>3, <2>1, <3>1, <3>2, <3>3, PlaceIs
  <2>2. CASE x[1] = t /\ ~ x[2] > n
    <3>1. G[x] = x
      BY <2>2
    <3>2. x[2] \in 1 .. Len(B[t])
      BY <1>3, <2>2 DEF n
    <3>3. <<t, x[2]>> \in PlacesOf(B) /\ AtPlaceOf(B, <<t, x[2]>>) = B[t][x[2]]
      BY <3>2, PlaceIs
    <3>4. QED BY <1>2, <1>3, <2>2, <3>1, <3>3
  <2>3. CASE x[1] # t
    <3>1. G[x] = x /\ C[x[1]] = B[x[1]]
      BY <1>1, <1>3, <2>3
    <3>2. <<x[1], x[2]>> \in PlacesOf(B) /\ AtPlaceOf(B, <<x[1], x[2]>>) = B[x[1]][x[2]]
      BY <1>3, <3>1, PlaceIs
    <3>3. QED BY <1>3, <3>1, <3>2
  <2>4. QED BY <2>1, <2>2, <2>3
<1>5. ASSUME NEW x \in PlacesOf(C), NEW y \in PlacesOf(C), G[x] = G[y] PROVE x = y
  <2>1. /\ G[x] = IF x[1] = t /\ x[2] > n THEN <<r, x[2] - n>> ELSE x
        /\ G[y] = IF y[1] = t /\ y[2] > n THEN <<r, y[2] - n>> ELSE y
    OBVIOUS
  <2> HIDE DEF G
  <2>2. CASE x[1] = t /\ x[2] > n /\ y[1] = t /\ y[2] > n
    <3>1. <<r, x[2] - n>> = <<r, y[2] - n>>
      BY <1>5, <2>1, <2>2
    <3>2. x[2] - n = y[2] - n /\ x[2] = n + (x[2] - n) /\ y[2] = n + (y[2] - n)
      BY <1>3, <2>2, <3>1
    <3>3. x = <<x[1], x[2]>> /\ y = <<y[1], y[2]>>
      BY <1>3
    <3>4. x[2] = y[2]
      BY <3>2
    <3>5. QED BY <2>2, <3>3, <3>4
  <2>3. CASE ~ (x[1] = t /\ x[2] > n) /\ ~ (y[1] = t /\ y[2] > n)
    BY <1>5, <2>1, <2>3
  <2>4. CASE x[1] = t /\ x[2] > n /\ ~ (y[1] = t /\ y[2] > n)
    <3>1. y = <<r, x[2] - n>>
      BY <1>5, <2>1, <2>4
    <3>2. QED BY <1>3, <3>1
  <2>5. CASE ~ (x[1] = t /\ x[2] > n) /\ y[1] = t /\ y[2] > n
    <3>1. x = <<r, y[2] - n>>
      BY <1>5, <2>1, <2>5
    <3>2. QED BY <1>3, <3>1
  <2>6. QED BY <2>2, <2>3, <2>4, <2>5
<1>6. ASSUME NEW y \in PlacesOf(B) PROVE \E x \in PlacesOf(C) : G[x] = y
  <2>1. y = <<y[1], y[2]>> /\ y[1] \in Boxes /\ y[2] \in Nat /\ y[2] \in 1 .. Len(B[y[1]])
    BY PlaceIs
  <2>2. CASE y[1] = r
    <3>1. n + y[2] \in 1 .. Len(C[t]) /\ n + y[2] > n /\ (n + y[2]) - n = y[2]
      BY <1>1, <1>2, <2>1, <2>2
    <3>2. <<t, n + y[2]>> \in PlacesOf(C)
      BY <3>1, PlaceIs
    <3>3. G[<<t, n + y[2]>>] = <<r, (n + y[2]) - n>>
      BY <3>1, <3>2
    <3>4. QED BY <2>1, <2>2, <3>1, <3>2, <3>3
  <2>3. CASE y[1] = t
    <3>1. y[2] \in 1 .. Len(C[t]) /\ ~ y[2] > n
      <4>1. y[2] \in 1 .. n
        BY <2>1, <2>3 DEF n
      <4>2. QED BY <1>1, <1>2, <4>1
    <3>2. <<t, y[2]>> \in PlacesOf(C)
      BY <3>1, PlaceIs
    <3>3. G[<<t, y[2]>>] = <<t, y[2]>>
      BY <3>1, <3>2
    <3>4. QED BY <2>1, <2>3, <3>2, <3>3
  <2>4. CASE y[1] \notin {r, t}
    <3>1. C[y[1]] = B[y[1]]
      BY <1>1, <2>1, <2>4
    <3>2. <<y[1], y[2]>> \in PlacesOf(C)
      BY <2>1, <3>1, PlaceIs
    <3>3. G[<<y[1], y[2]>>] = <<y[1], y[2]>>
      BY <2>4, <3>2
    <3>4. QED BY <2>1, <3>2, <3>3
  <2>5. QED BY <2>2, <2>3, <2>4
<1>7. G \in [PlacesOf(C) -> PlacesOf(B)]
  BY <1>4
<1> HIDE DEF G
<1>8. QED BY <1>4, <1>5, <1>6, <1>7 DEF Rearranged

\* A chunk is added at the end of box d.
Added(B, C, d, e) ==
  /\ C[d] = Append(B[d], e)
  /\ \A b \in DOMAIN B \ {d} : C[b] = B[b]

LEMMA AddedIs ==
  ASSUME NEW B \in Fillings, NEW C \in Fillings,
         NEW d \in Boxes, NEW e \in Chunks, Added(B, C, d, e)
  PROVE  /\ \A c : Holds(C, c) <=> Holds(B, c) \/ c = e
         /\ \A K : AtMostOnce(B, K) /\ (e \in K \/ ~ Holds(B, e)) => AtMostOnce(C, K)
<1> DEFINE n == Len(B[d])
<1>1. /\ B[d] \in Seq(Chunks) /\ n \in Nat /\ C[d] = Append(B[d], e)
      /\ \A b \in Boxes \ {d} : C[b] = B[b]
  BY FillingIs DEF Added
<1>2. Len(C[d]) = n + 1 /\ C[d][n + 1] = e /\ \A i \in 1 .. n : C[d][i] = B[d][i]
  BY <1>1
<1>3. <<d, n + 1>> \in PlacesOf(C) /\ AtPlaceOf(C, <<d, n + 1>>) = e
  BY <1>1, <1>2, PlaceIs
<1>4. ASSUME NEW x \in PlacesOf(B) PROVE x \in PlacesOf(C) /\ AtPlaceOf(C, x) = AtPlaceOf(B, x)
  <2>1. /\ x = <<x[1], x[2]>> /\ x[1] \in Boxes /\ x[2] \in 1 .. Len(B[x[1]])
        /\ AtPlaceOf(B, x) = B[x[1]][x[2]]
    BY PlaceIs
  <2>2. x[2] \in 1 .. Len(C[x[1]]) /\ C[x[1]][x[2]] = B[x[1]][x[2]]
    <3>1. CASE x[1] = d
      BY <1>1, <1>2, <2>1, <3>1
    <3>2. CASE x[1] # d
      BY <1>1, <2>1, <3>2
    <3>3. QED BY <3>1, <3>2
  <2>3. <<x[1], x[2]>> \in PlacesOf(C) /\ AtPlaceOf(C, <<x[1], x[2]>>) = C[x[1]][x[2]]
    BY <2>1, <2>2, PlaceIs
  <2>4. QED BY <2>1, <2>2, <2>3
<1>5. ASSUME NEW x \in PlacesOf(C), x # <<d, n + 1>> PROVE x \in PlacesOf(B)
  <2>1. x = <<x[1], x[2]>> /\ x[1] \in Boxes /\ x[2] \in Nat /\ x[2] \in 1 .. Len(C[x[1]])
    BY PlaceIs
  <2>2. x[2] \in 1 .. Len(B[x[1]])
    <3>1. CASE x[1] = d
      <4>1. x[2] # n + 1
        BY <1>5, <2>1, <3>1
      <4>2. QED BY <1>1, <1>2, <2>1, <3>1, <4>1
    <3>2. CASE x[1] # d
      BY <1>1, <2>1, <3>2
    <3>3. QED BY <3>1, <3>2
  <2>3. <<x[1], x[2]>> \in PlacesOf(B)
    BY <2>1, <2>2, PlaceIs
  <2>4. QED BY <2>1, <2>3
<1> HIDE DEF n
<1>6. ASSUME NEW c PROVE Holds(C, c) <=> Holds(B, c) \/ c = e
  BY <1>3, <1>4, <1>5 DEF Holds
<1>7. ASSUME NEW K, AtMostOnce(B, K), e \in K \/ ~ Holds(B, e) PROVE AtMostOnce(C, K)
  <2>1. SUFFICES ASSUME NEW x \in PlacesOf(C), NEW y \in PlacesOf(C),
                        AtPlaceOf(C, x) = AtPlaceOf(C, y), AtPlaceOf(C, x) \notin K
                 PROVE  x = y
    BY DEF AtMostOnce
  <2>2. CASE x # <<d, n + 1>> /\ y # <<d, n + 1>>
    <3>1. x \in PlacesOf(B) /\ y \in PlacesOf(B)
      BY <1>5, <2>2
    <3>2. AtPlaceOf(B, x) = AtPlaceOf(C, x) /\ AtPlaceOf(B, y) = AtPlaceOf(C, y)
      BY <1>4, <3>1
    <3>3. QED BY <1>7, <2>1, <3>1, <3>2 DEF AtMostOnce
  <2>3. CASE x = <<d, n + 1>> /\ y # <<d, n + 1>>
    <3>1. y \in PlacesOf(B) /\ AtPlaceOf(B, y) = e
      BY <1>3, <1>4, <1>5, <2>1, <2>3
    <3>2. QED BY <1>3, <1>7, <2>1, <2>3, <3>1 DEF Holds
  <2>4. CASE x # <<d, n + 1>> /\ y = <<d, n + 1>>
    <3>1. x \in PlacesOf(B) /\ AtPlaceOf(B, x) = e
      BY <1>3, <1>4, <1>5, <2>1, <2>4
    <3>2. QED BY <1>3, <1>7, <2>1, <2>4, <3>1 DEF Holds
  <2>5. QED BY <2>2, <2>3, <2>4
<1>8. QED BY <1>6, <1>7

\* What is in box a is copied to the empty box d.
Copied(B, C, a, d) ==
  /\ B[d] = <<>>
  /\ C[d] = B[a]
  /\ \A b \in DOMAIN B \ {d} : C[b] = B[b]

LEMMA CopiedIs ==
  ASSUME NEW B \in Fillings, NEW C \in Fillings,
         NEW a \in Boxes, NEW d \in Boxes, Copied(B, C, a, d)
  PROVE  /\ \A c : Holds(B, c) <=> Holds(C, c)
         /\ \A K : AtMostOnce(B, K) => AtMostOnce(C, K \cup {B[a][i] : i \in DOMAIN B[a]})
<1> DEFINE L == {B[a][i] : i \in DOMAIN B[a]}
<1>1. /\ B[d] = <<>> /\ Len(B[d]) = 0 /\ C[d] = B[a] /\ B[a] \in Seq(Chunks)
      /\ DOMAIN B[a] = 1 .. Len(B[a])
      /\ \A b \in Boxes \ {d} : C[b] = B[b]
  BY FillingIs DEF Copied
<1>2. ASSUME NEW x \in PlacesOf(B) PROVE x \in PlacesOf(C) /\ AtPlaceOf(C, x) = AtPlaceOf(B, x)
  <2>1. /\ x = <<x[1], x[2]>> /\ x[1] \in Boxes /\ x[2] \in 1 .. Len(B[x[1]])
        /\ AtPlaceOf(B, x) = B[x[1]][x[2]]
    BY PlaceIs
  <2>2. x[1] # d
    <3>1. ASSUME x[1] = d PROVE FALSE
      <4>1. x[2] \in 1 .. 0
        BY <1>1, <2>1, <3>1
      <4>2. QED BY <4>1
    <3>2. QED BY <3>1
  <2>3. C[x[1]] = B[x[1]]
    BY <1>1, <2>1, <2>2
  <2>4. <<x[1], x[2]>> \in PlacesOf(C) /\ AtPlaceOf(C, <<x[1], x[2]>>) = C[x[1]][x[2]]
    BY <2>1, <2>3, PlaceIs
  <2>5. QED BY <2>1, <2>3, <2>4
<1>3. ASSUME NEW x \in PlacesOf(C), x[1] # d
      PROVE  x \in PlacesOf(B)
  <2>1. x = <<x[1], x[2]>> /\ x[1] \in Boxes /\ x[2] \in 1 .. Len(C[x[1]])
    BY PlaceIs
  <2>2. x[2] \in 1 .. Len(B[x[1]])
    BY <1>1, <1>3, <2>1
  <2>3. <<x[1], x[2]>> \in PlacesOf(B)
    BY <2>1, <2>2, PlaceIs
  <2>4. QED BY <2>1, <2>3
<1>4. ASSUME NEW x \in PlacesOf(C), x[1] = d
      PROVE  AtPlaceOf(C, x) \in L /\ Holds(B, AtPlaceOf(C, x))
  <2>1. x[2] \in 1 .. Len(C[x[1]]) /\ AtPlaceOf(C, x) = C[x[1]][x[2]]
    BY PlaceIs
  <2>2. x[2] \in 1 .. Len(B[a]) /\ AtPlaceOf(C, x) = B[a][x[2]]
    BY <1>1, <1>4, <2>1
  <2>3. <<a, x[2]>> \in PlacesOf(B) /\ AtPlaceOf(B, <<a, x[2]>>) = B[a][x[2]]
    BY <2>2, PlaceIs
  <2>4. AtPlaceOf(C, x) \in L
    BY <1>1, <2>2
  <2>5. QED BY <2>2, <2>3, <2>4 DEF Holds
<1> HIDE DEF L
<1>5. ASSUME NEW c PROVE Holds(B, c) <=> Holds(C, c)
  <2>1. ASSUME Holds(B, c) PROVE Holds(C, c)
    BY <1>2, <2>1 DEF Holds
  <2>2. ASSUME Holds(C, c) PROVE Holds(B, c)
    <3>1. PICK x \in PlacesOf(C) : AtPlaceOf(C, x) = c
      BY <2>2 DEF Holds
    <3>2. CASE x[1] = d
      BY <1>4, <3>1, <3>2
    <3>3. CASE x[1] # d
      <4>1. x \in PlacesOf(B) /\ AtPlaceOf(B, x) = c
        BY <1>2, <1>3, <3>1, <3>3
      <4>2. QED BY <4>1 DEF Holds
    <3>4. QED BY <3>2, <3>3
  <2>3. QED BY <2>1, <2>2
<1>6. ASSUME NEW K, AtMostOnce(B, K) PROVE AtMostOnce(C, K \cup L)
  <2>1. SUFFICES ASSUME NEW x \in PlacesOf(C), NEW y \in PlacesOf(C),
                        AtPlaceOf(C, x) = AtPlaceOf(C, y), AtPlaceOf(C, x) \notin K \cup L
                 PROVE  x = y
    BY DEF AtMostOnce
  <2>2. x[1] # d /\ y[1] # d
    BY <1>4, <2>1
  <2>3. /\ x \in PlacesOf(B) /\ AtPlaceOf(B, x) = AtPlaceOf(C, x)
        /\ y \in PlacesOf(B) /\ AtPlaceOf(B, y) = AtPlaceOf(C, y)
    BY <1>2, <1>3, <2>2
  <2>4. QED BY <1>6, <2>1, <2>3 DEF AtMostOnce
<1>7. QED BY <1>5, <1>6 DEF L

-----------------------------------------------------------------------------
\* What is in a box, given the buffers, the pipes, the results, the stages and the terminal.
InBox(b, sd, pp, rs, st, tm) ==
  CASE b[1] = "stdio" -> sd[b[2]]
    [] b[1] = "result" -> (IF st[b[2]] = "exited" THEN <<>> ELSE rs[b[2]])
    [] b[1] = "pipe" -> pp[b[2]]
    [] b[1] = "terminal" -> tm

BoxOf(sd, pp, rs, st, tm) == [b \in Boxes |-> InBox(b, sd, pp, rs, st, tm)]

\* What the boxes hold.
Contents == BoxOf(stdio, pipe, result, stage, terminal)

\* No chunk is there that has not been printed yet, and each that has is somewhere.
Numbered(B, pr) ==
  \A x \in PlacesOf(B) :
    AtPlaceOf(B, x).by \in Processes => AtPlaceOf(B, x).n <= pr[AtPlaceOf(B, x).by]
Present(B, pr) ==
  \A p \in Processes : \A n \in 1 .. pr[p] :
    \E s \in Streams : Holds(B, [by |-> p, n |-> n, to |-> s])

\* As long as nobody has died, what is in a pipe has a process that is going to read it.
NobodyDead == \A q \in Processes : stage[q] # "dead"
Emptying(s) == {"run", "flush", "read_out"} \cup (IF s = "err" THEN {"read_err"} ELSE {})
PipesRead ==
  \A s \in Streams : pipe[s] # <<>> => \E q \in Processes : stage[q] \in Emptying(s)

\* The strengthening of OutputOnce.
OnceInv ==
  /\ Numbered(Contents, printed)
  /\ NobodyDead =>
       /\ AtMostOnce(Contents, copied \cup {Diagnostic})
       /\ Present(Contents, printed)
       /\ PipesRead
  /\ world.pipes \/ \A s \in Streams : pipe[s] = <<>>
  /\ \A p \in Processes : stage[p] \in {"absent", "exited"} => stdio[p] = <<>>
  /\ \A p \in Processes : stage[p] = "absent" => result[p] = <<>>

\* What is where.
Filled(B, sd, pp, rs, st, tm) ==
  /\ B \in Fillings
  /\ \A p \in Processes :
       /\ B[<<"stdio", p>>] = sd[p]
       /\ B[<<"result", p>>] = IF st[p] = "exited" THEN <<>> ELSE rs[p]
  /\ \A s \in Streams : B[<<"pipe", s>>] = pp[s]
  /\ B[<<"terminal", 0>>] = tm

LEMMA BoxOfIs ==
  ASSUME NEW sd \in [Processes -> Seq(Chunks)], NEW pp \in [Streams -> Seq(Chunks)],
         NEW rs \in [Processes -> Seq(Chunks)], NEW st, NEW tm \in Seq(Chunks)
  PROVE  Filled(BoxOf(sd, pp, rs, st, tm), sd, pp, rs, st, tm)
<1> DEFINE B == BoxOf(sd, pp, rs, st, tm)
<1>1. Sinks \subseteq Boxes
  BY DEF Boxes
<1>2. ASSUME NEW p \in Processes
      PROVE  /\ <<"stdio", p>> \in Boxes \ Sinks /\ B[<<"stdio", p>>] = sd[p]
             /\ <<"result", p>> \in Boxes \ Sinks
             /\ B[<<"result", p>>] = IF st[p] = "exited" THEN <<>> ELSE rs[p]
  <2>1. <<"stdio", p>> \in Boxes \ Sinks /\ <<"result", p>> \in Boxes \ Sinks
    BY DEF Boxes, Sinks
  <2>2. QED BY <2>1 DEF BoxOf, InBox
<1>3. ASSUME NEW s \in Streams PROVE <<"pipe", s>> \in Sinks /\ B[<<"pipe", s>>] = pp[s]
  <2>1. <<"pipe", s>> \in Sinks
    BY DEF Sinks
  <2>2. QED BY <1>1, <2>1 DEF BoxOf, InBox
<1>4. <<"terminal", 0>> \in Sinks /\ B[<<"terminal", 0>>] = tm
  <2>1. <<"terminal", 0>> \in Sinks
    BY DEF Sinks
  <2>2. QED BY <1>1, <2>1 DEF BoxOf, InBox
<1>5. ASSUME NEW b \in Boxes PROVE B[b] \in Seq(Chunks)
  <2>1. CASE b \in {"stdio", "result"} \X Processes
    <3>1. PICK k \in {"stdio", "result"}, p \in Processes : b = <<k, p>>
      BY <2>1
    <3>2. <<>> \in Seq(Chunks) /\ sd[p] \in Seq(Chunks) /\ rs[p] \in Seq(Chunks)
      OBVIOUS
    <3>3. B[<<"stdio", p>>] = sd[p] /\ B[<<"result", p>>] = IF st[p] = "exited" THEN <<>> ELSE rs[p]
      BY <1>2
    <3>4. QED BY <3>1, <3>2, <3>3
  <2>2. CASE b \in {"pipe"} \X Streams
    <3>1. PICK s \in Streams : b = <<"pipe", s>>
      BY <2>2
    <3>2. QED BY <1>3, <3>1
  <2>3. CASE b = <<"terminal", 0>>
    BY <1>4, <2>3
  <2>4. QED BY <2>1, <2>2, <2>3 DEF Boxes, Sinks
<1>6. B \in Fillings
  <2>1. B = [b \in Boxes |-> InBox(b, sd, pp, rs, st, tm)]
    BY DEF BoxOf
  <2> HIDE DEF B
  <2>2. \A b \in Boxes : InBox(b, sd, pp, rs, st, tm) \in Seq(Chunks)
    BY <1>5, <2>1
  <2>3. QED BY <2>1, <2>2 DEF Fillings
<1> HIDE DEF B
<1>7. Filled(B, sd, pp, rs, st, tm)
  BY <1>2, <1>3, <1>4, <1>6 DEF Filled
<1>8. QED BY <1>7 DEF B

LEMMA BoxIs ==
  ASSUME NEW b \in Boxes
  PROVE  \/ \E p \in Processes : b = <<"stdio", p>>
         \/ \E p \in Processes : b = <<"result", p>>
         \/ \E s \in Streams : b = <<"pipe", s>>
         \/ b = <<"terminal", 0>>
  BY DEF Boxes, Sinks

\* Two fillings of the boxes that differ in those of X alone.
SameBut(B, C, X) ==
  /\ \A p \in Processes : <<"stdio", p>> \notin X => C[<<"stdio", p>>] = B[<<"stdio", p>>]
  /\ \A p \in Processes : <<"result", p>> \notin X => C[<<"result", p>>] = B[<<"result", p>>]
  /\ \A s \in Streams : <<"pipe", s>> \notin X => C[<<"pipe", s>>] = B[<<"pipe", s>>]
  /\ <<"terminal", 0>> \notin X => C[<<"terminal", 0>>] = B[<<"terminal", 0>>]

LEMMA SameElsewhere ==
  ASSUME NEW B \in Fillings, NEW C \in Fillings, NEW X, SameBut(B, C, X)
  PROVE  \A b \in DOMAIN B \ X : C[b] = B[b]
<1>1. ASSUME NEW b \in Boxes, b \notin X PROVE C[b] = B[b]
  <2>1. ASSUME NEW p \in Processes, b = <<"stdio", p>> PROVE C[b] = B[b]
    BY <1>1, <2>1 DEF SameBut
  <2>2. ASSUME NEW p \in Processes, b = <<"result", p>> PROVE C[b] = B[b]
    BY <1>1, <2>2 DEF SameBut
  <2>3. ASSUME NEW s \in Streams, b = <<"pipe", s>> PROVE C[b] = B[b]
    BY <1>1, <2>3 DEF SameBut
  <2>4. ASSUME b = <<"terminal", 0>> PROVE C[b] = B[b]
    BY <1>1, <2>4 DEF SameBut
  <2>5. QED BY <2>1, <2>2, <2>3, <2>4, BoxIs
<1>2. QED BY <1>1, FillingIs

\* ContentsRight says it for each box.
ContentsRight == Filled(Contents, stdio, pipe, result, stage, terminal)

LEMMA ContentsAre == TypeOK => ContentsRight
  BY BoxOfIs DEF ContentsRight, Contents, TypeOK

LEMMA ContentsAreNext == TypeOK' => ContentsRight'
  BY BoxOfIs DEF ContentsRight, Contents, TypeOK

LEMMA BoxNames ==
  /\ \A p \in Processes : <<"stdio", p>> \in Boxes \ Sinks /\ <<"result", p>> \in Boxes \ Sinks
  /\ \A s \in Streams : <<"pipe", s>> \in Sinks
  /\ <<"terminal", 0>> \in Sinks /\ Sinks \subseteq Boxes
  BY DEF Boxes, Sinks

-----------------------------------------------------------------------------
\* What the steps do to the numbers of the chunks.

LEMMA NumberedIs ==
  ASSUME NEW B, NEW pr
  PROVE  Numbered(B, pr) <=> \A c : Holds(B, c) /\ c.by \in Processes => c.n <= pr[c.by]
  BY DEF Numbered, Holds

LEMMA RearrangedOnce ==
  ASSUME NEW B, NEW C, NEW pr, NEW K, Rearranged(B, C)
  PROVE  /\ Numbered(B, pr) => Numbered(C, pr)
         /\ AtMostOnce(B, K) => AtMostOnce(C, K)
         /\ Present(B, pr) => Present(C, pr)
<1>1. /\ \A c : Holds(B, c) <=> Holds(C, c)
      /\ AtMostOnce(B, K) => AtMostOnce(C, K)
  BY RearrangedKeeps
<1>2. Numbered(B, pr) => Numbered(C, pr)
  BY <1>1, NumberedIs
<1>3. Present(B, pr) => Present(C, pr)
  BY <1>1 DEF Present
<1>4. QED BY <1>1, <1>2, <1>3

\* p adds the chunk that it prints.
NextChunk(e, p, pr) == \E s \in Streams : e = [by |-> p, n |-> pr[p] + 1, to |-> s]
CountedOn(after, p, pr) == after = [pr EXCEPT ![p] = @ + 1]

LEMMA PrintedOnce ==
  ASSUME NEW B \in Fillings, NEW C \in Fillings, NEW d \in Boxes,
         NEW pr \in [Processes -> Nat], NEW p \in Processes, NEW K, NEW e, NEW after,
         Added(B, C, d, e), NextChunk(e, p, pr), CountedOn(after, p, pr), Numbered(B, pr)
  PROVE  /\ Numbered(C, after)
         /\ AtMostOnce(B, K) => AtMostOnce(C, K)
         /\ Present(B, pr) => Present(C, after)
<1>1. /\ after \in [Processes -> Nat] /\ pr[p] \in Nat /\ after[p] = pr[p] + 1
      /\ \A q \in Processes : pr[q] \in Nat /\ after[q] \in Nat /\ pr[q] <= after[q]
      /\ \A q \in Processes \ {p} : after[q] = pr[q]
  BY DEF CountedOn
<1>2. PICK s \in Streams : e = [by |-> p, n |-> pr[p] + 1, to |-> s]
  BY DEF NextChunk
<1>3. e \in Chunks /\ e.by = p /\ e.n = pr[p] + 1
  BY <1>1, <1>2 DEF Chunks
<1>4. /\ \A c : Holds(C, c) <=> Holds(B, c) \/ c = e
      /\ AtMostOnce(B, K) /\ (e \in K \/ ~ Holds(B, e)) => AtMostOnce(C, K)
  BY <1>3, AddedIs
<1>5. \A c : Holds(B, c) /\ c.by \in Processes => c.n <= pr[c.by]
  BY NumberedIs
<1>6. ~ Holds(B, e)
  <2>1. ~ (pr[p] + 1 <= pr[p])
    BY <1>1
  <2>2. QED BY <1>3, <1>5, <2>1
<1>7. Numbered(C, after)
  <2>1. ASSUME NEW c, Holds(C, c), c.by \in Processes PROVE c.n <= after[c.by]
    <3>1. CASE c = e
      <4>1. c.n = pr[p] + 1 /\ after[c.by] = pr[p] + 1
        BY <1>1, <1>3, <3>1
      <4>2. QED BY <1>1, <4>1
    <3>2. CASE c # e
      <4>1. Holds(B, c)
        BY <1>4, <2>1, <3>2
      <4>2. PICK x \in PlacesOf(B) : AtPlaceOf(B, x) = c
        BY <4>1 DEF Holds
      <4>3. c \in Chunks
        BY <4>2, PlaceIs
      <4>4. c.n \in Nat
        BY <4>3 DEF Chunks
      <4>5. c.n <= pr[c.by]
        BY <1>5, <2>1, <4>1
      <4>6. pr[c.by] <= after[c.by] /\ pr[c.by] \in Nat /\ after[c.by] \in Nat
        BY <1>1, <2>1
      <4>7. QED BY <4>4, <4>5, <4>6
    <3>3. QED BY <3>1, <3>2
  <2>2. QED BY <2>1, NumberedIs
<1>8. ASSUME Present(B, pr) PROVE Present(C, after)
  <2>1. SUFFICES ASSUME NEW q \in Processes, NEW n \in 1 .. after[q]
                 PROVE  \E t \in Streams : Holds(C, [by |-> q, n |-> n, to |-> t])
    BY DEF Present
  <2>2. CASE n \in 1 .. pr[q]
    BY <1>4, <1>8, <2>2 DEF Present
  <2>3. CASE n \notin 1 .. pr[q]
    <3>1. q = p
      BY <1>1, <2>3
    <3>2. n = pr[p] + 1
      BY <1>1, <2>3, <3>1
    <3>3. Holds(C, e)
      BY <1>4
    <3>4. QED BY <1>2, <3>1, <3>2, <3>3
  <2>4. QED BY <2>2, <2>3
<1>9. QED BY <1>4, <1>6, <1>7, <1>8

\* What is added is a chunk of the compiler.
LEMMA DiagnosticOnce ==
  ASSUME NEW B \in Fillings, NEW C \in Fillings, NEW d \in Boxes,
         NEW pr, NEW K, Added(B, C, d, Diagnostic)
  PROVE  /\ Numbered(B, pr) => Numbered(C, pr)
         /\ AtMostOnce(B, K \cup {Diagnostic}) => AtMostOnce(C, K \cup {Diagnostic})
         /\ Present(B, pr) => Present(C, pr)
<1>1. Diagnostic \in Chunks /\ Diagnostic.by \notin Processes
  BY DEF Diagnostic, Chunks, Streams, Compiler, Processes
<1>2. /\ \A c : Holds(C, c) <=> Holds(B, c) \/ c = Diagnostic
      /\ AtMostOnce(B, K \cup {Diagnostic}) => AtMostOnce(C, K \cup {Diagnostic})
  BY <1>1, AddedIs
<1>3. Numbered(B, pr) => Numbered(C, pr)
  BY <1>1, <1>2, NumberedIs
<1>4. Present(B, pr) => Present(C, pr)
  BY <1>2 DEF Present
<1>5. QED BY <1>2, <1>3, <1>4

\* A buffer is copied at a fork.
LEMMA CopiedOnce ==
  ASSUME NEW B \in Fillings, NEW C \in Fillings,
         NEW a \in Boxes, NEW d \in Boxes, NEW pr, NEW K, Copied(B, C, a, d)
  PROVE  /\ Numbered(B, pr) => Numbered(C, pr)
         /\ AtMostOnce(B, K) => AtMostOnce(C, K \cup {B[a][i] : i \in DOMAIN B[a]})
         /\ Present(B, pr) => Present(C, pr)
<1>1. /\ \A c : Holds(B, c) <=> Holds(C, c)
      /\ AtMostOnce(B, K) => AtMostOnce(C, K \cup {B[a][i] : i \in DOMAIN B[a]})
  BY CopiedIs
<1>2. Numbered(B, pr) => Numbered(C, pr)
  BY <1>1, NumberedIs
<1>3. Present(B, pr) => Present(C, pr)
  BY <1>1 DEF Present
<1>4. QED BY <1>1, <1>2, <1>3

-----------------------------------------------------------------------------
\* One lemma for each step.

\* What a step of p that comes to t has to leave right.
LEMMA OnceStep ==
  ASSUME IInv, OnceInv, NEW p \in Processes, NEW t \in Stages, Moves(p, t), UNCHANGED world,
         stage[p] # "dead", t # "absent",
         t # "dead" => \A s \in Streams :
           pipe'[s] = <<>> \/ t \in Emptying(s) \/ (pipe[s] # <<>> /\ stage[p] \notin Emptying(s)),
         world.pipes \/ \A s \in Streams : pipe'[s] = pipe[s],
         \A q \in Processes \ {p} : stdio'[q] = stdio[q] /\ result'[q] = result[q],
         t = "exited" => stdio'[p] = <<>>,
         Numbered(Contents, printed)',
         t # "dead" /\ NobodyDead =>
           AtMostOnce(Contents, copied \cup {Diagnostic})' /\ Present(Contents, printed)'
  PROVE  OnceInv'
<1>1. stage'[p] = t /\ \A q \in Processes \ {p} : stage'[q] = stage[q]
  BY MovesFacts DEF IInv
<1>2. NobodyDead' => NobodyDead /\ t # "dead"
  BY <1>1 DEF NobodyDead
<1>3. ASSUME PipesRead, t # "dead" PROVE PipesRead'
  <2>1. SUFFICES ASSUME NEW s \in Streams, pipe'[s] # <<>>
                 PROVE  \E q \in Processes : stage'[q] \in Emptying(s)
    BY DEF PipesRead
  <2>2. CASE t \in Emptying(s)
    BY <1>1, <2>2
  <2>3. CASE t \notin Emptying(s)
    <3>1. pipe[s] # <<>> /\ stage[p] \notin Emptying(s)
      BY <1>3, <2>1, <2>3
    <3>2. PICK q \in Processes : stage[q] \in Emptying(s)
      BY <1>3, <3>1 DEF PipesRead
    <3>3. QED BY <1>1, <3>1, <3>2
  <2>4. QED BY <2>2, <2>3
<1>4. (world.pipes \/ \A s \in Streams : pipe[s] = <<>>)'
  BY DEF OnceInv
<1>5. (\A q \in Processes : stage[q] \in {"absent", "exited"} => stdio[q] = <<>>)'
  BY <1>1 DEF OnceInv
<1>6. (\A q \in Processes : stage[q] = "absent" => result[q] = <<>>)'
  BY <1>1 DEF OnceInv
<1>7. ASSUME NobodyDead'
      PROVE  (AtMostOnce(Contents, copied \cup {Diagnostic}) /\ Present(Contents, printed) /\ PipesRead)'
  BY <1>2, <1>3, <1>7 DEF OnceInv
<1>8. QED BY <1>4, <1>5, <1>6, <1>7 DEF OnceInv

\* A step that puts no chunk anywhere and comes to no end.
LEMMA OnceQuiet ==
  ASSUME IInv, IInv', OnceInv, NEW p \in Processes, NEW t \in Stages, Moves(p, t),
         UNCHANGED <<world, data, printed, copied>>,
         stage[p] \notin {"dead", "exited"}, t \notin {"absent", "exited"},
         \A s \in Streams :
           pipe[s] = <<>> \/ t \in Emptying(s) \/ stage[p] \notin Emptying(s)
  PROVE  OnceInv'
<1>1. stage'[p] = t /\ \A q \in Processes \ {p} : stage'[q] = stage[q]
  BY MovesFacts DEF IInv
<1>2. Contents' = Contents
  <2>1. ContentsRight /\ ContentsRight'
    BY ContentsAre, ContentsAreNext DEF IInv
  <2>2. stdio' = stdio /\ pipe' = pipe /\ result' = result /\ terminal' = terminal
    BY DEF data
  <2>3. Contents \in Fillings /\ Contents' \in Fillings
    BY <2>1 DEF ContentsRight, Filled
  <2>4. /\ \A q \in Processes :
             /\ Contents'[<<"stdio", q>>] = Contents[<<"stdio", q>>]
             /\ Contents'[<<"result", q>>] = Contents[<<"result", q>>]
        /\ \A s \in Streams : Contents'[<<"pipe", s>>] = Contents[<<"pipe", s>>]
        /\ Contents'[<<"terminal", 0>>] = Contents[<<"terminal", 0>>]
    BY <1>1, <2>1, <2>2 DEF ContentsRight, Filled
  <2>5. \A b \in DOMAIN Contents \ {} : Contents'[b] = Contents[b]
    <3>1. SameBut(Contents, Contents', {})
      BY <2>4 DEF SameBut
    <3>2. QED BY <2>3, <3>1, SameElsewhere
  <2>6. QED BY <2>3, <2>5 DEF Fillings
<1>3. /\ Numbered(Contents, printed)'
      /\ NobodyDead => AtMostOnce(Contents, copied \cup {Diagnostic})' /\ Present(Contents, printed)'
  BY <1>2 DEF OnceInv
<1>4. pipe' = pipe /\ stdio' = stdio /\ result' = result
  BY DEF data
<1>5. QED BY <1>3, <1>4, OnceStep

LEMMA SuppressOnce == ASSUME IInv, IInv', OnceInv, NEW p \in Processes, Suppress(p) PROVE OnceInv'
<1>1. /\ "compile" \in Stages /\ Moves(p, "compile") /\ stage[p] = "called"
      /\ UNCHANGED <<world, data, printed, copied>>
  BY DEF Suppress, Goto, Moves, Stages
<1>2. \A s \in Streams : stage[p] \notin Emptying(s)
  BY <1>1 DEF Emptying
<1>3. QED BY <1>1, <1>2, OnceQuiet

LEMMA RestoreOnce == ASSUME IInv, IInv', OnceInv, NEW p \in Processes, Restore(p) PROVE OnceInv'
<1>1. /\ "restored" \in Stages /\ Moves(p, "restored") /\ stage[p] = "compiled"
      /\ UNCHANGED <<world, data, printed, copied>>
  BY DEF Restore, Goto, Moves, Stages
<1>2. \A s \in Streams : stage[p] \notin Emptying(s)
  BY <1>1 DEF Emptying
<1>3. QED BY <1>1, <1>2, OnceQuiet

LEMMA StartOnce == ASSUME IInv, IInv', OnceInv, NEW p \in Processes, Start(p) PROVE OnceInv'
<1>1. /\ "run" \in Stages /\ Moves(p, "run") /\ stage[p] = "restored"
      /\ UNCHANGED <<world, data, printed, copied>>
  BY DEF Start, Goto, Moves, Stages
<1>2. \A s \in Streams : stage[p] \notin Emptying(s)
  BY <1>1 DEF Emptying
<1>3. QED BY <1>1, <1>2, OnceQuiet

LEMMA SyncOnce == ASSUME IInv, IInv', OnceInv, NEW p \in Processes, SyncParties(p) PROVE OnceInv'
<1>1. stage[p] = "run" /\ UNCHANGED <<world, stage, data, printed, copied>>
  BY DEF SyncParties, Does
<1>2. "run" \in Stages /\ Moves(p, "run")
  BY <1>1, RunFacts DEF Stages
<1>3. \A s \in Streams : "run" \in Emptying(s)
  BY DEF Emptying
<1>4. QED BY <1>1, <1>2, <1>3, OnceQuiet

LEMMA WaitOnce == ASSUME IInv, IInv', OnceInv, NEW p \in Processes, WaitForChild(p) PROVE OnceInv'
<1>1. stage[p] = "run" /\ UNCHANGED <<world, stage, data, printed, copied>>
  BY DEF WaitForChild, Does
<1>2. "run" \in Stages /\ Moves(p, "run")
  BY <1>1, RunFacts DEF Stages
<1>3. \A s \in Streams : "run" \in Emptying(s)
  BY DEF Emptying
<1>4. QED BY <1>1, <1>2, <1>3, OnceQuiet

LEMMA EndProgramOnce == ASSUME IInv, IInv', OnceInv, NEW p \in Processes, EndProgram(p) PROVE OnceInv'
<1>1. PICK t : t = IF Capturing(p) THEN "flush" ELSE "returned"
  OBVIOUS
<1>2. /\ t \in Stages /\ Moves(p, t) /\ stage[p] = "run" /\ t \in {"flush", "returned"}
      /\ UNCHANGED <<world, data, printed, copied>>
  BY <1>1 DEF EndProgram, Goto, Moves, Stages
<1>3. extra[p] = IF world.pipes THEN CaptureFds ELSE {}
  BY <1>2 DEF IInv, FilesInv, Placed
<1>4. world.pipes => t = "flush"
  BY <1>1, <1>3 DEF Capturing, CaptureFds
<1>5. \A s \in Streams : pipe[s] = <<>> \/ t \in Emptying(s)
  BY <1>4 DEF OnceInv, Emptying
<1>6. QED BY <1>2, <1>5, OnceQuiet

LEMMA RestoreFdsOnce == ASSUME IInv, IInv', OnceInv, NEW p \in Processes, RestoreFds(p) PROVE OnceInv'
<1>1. /\ "read_out" \in Stages /\ Moves(p, "read_out") /\ stage[p] = "flush"
      /\ UNCHANGED <<world, data, printed, copied>>
  BY DEF RestoreFds, PutBack, Goto, Moves, Stages
<1>2. \A s \in Streams : "read_out" \in Emptying(s)
  BY DEF Emptying
<1>3. QED BY <1>1, <1>2, OnceQuiet

LEMMA PipeDrainedOnce ==
  ASSUME IInv, IInv', OnceInv, NEW p \in Processes, NEW s \in Streams, PipeEmpty(p, s) PROVE OnceInv'
<1>1. PICK t : t = IF s = "out" THEN "read_err" ELSE "returned"
  OBVIOUS
<1>2. /\ t \in Stages /\ Moves(p, t) /\ t \in {"read_err", "returned"}
      /\ stage[p] = IF s = "out" THEN "read_out" ELSE "read_err"
      /\ pipe[s] = <<>>
      /\ UNCHANGED <<world, data, printed, copied>>
  BY <1>1 DEF PipeEmpty, Reads, Drained, Goto, Moves, Stages
<1>3. ASSUME NEW u \in Streams, u # s PROVE t \in Emptying(u) \/ stage[p] \notin Emptying(u)
  <2>1. CASE s = "out" /\ u = "err"
    BY <1>1, <2>1 DEF Emptying
  <2>2. CASE s = "err" /\ u = "out"
    BY <1>2, <2>2 DEF Emptying
  <2>3. QED BY <1>3, <2>1, <2>2 DEF Streams
<1>4. \A u \in Streams : pipe[u] = <<>> \/ t \in Emptying(u) \/ stage[p] \notin Emptying(u)
  BY <1>2, <1>3
<1>5. QED BY <1>2, <1>4, OnceQuiet

\* Where a chunk goes that is written.
LEMMA WriteSink ==
  ASSUME ContentsRight, ContentsRight', TypeOK, NEW p \in Processes, NEW s \in Streams, NEW c, Write(p, s, c),
         fd[p][s] # "null"
  PROVE  \E d \in Sinks :
           /\ Contents'[d] = Append(Contents[d], c)
           /\ \A b \in Sinks \ {d} : Contents'[b] = Contents[b]
<1>1. /\ \A t \in Streams : Contents[<<"pipe", t>>] = pipe[t] /\ Contents'[<<"pipe", t>>] = pipe'[t]
      /\ Contents[<<"terminal", 0>>] = terminal /\ Contents'[<<"terminal", 0>>] = terminal'
      /\ pipe \in [Streams -> Seq(Chunks)]
  BY DEF ContentsRight, Filled, TypeOK
<1>2. \A b \in Sinks : b = <<"terminal", 0>> \/ \E t \in Streams : b = <<"pipe", t>>
  BY DEF Sinks
<1>3. CASE terminal' = Append(terminal, c) /\ UNCHANGED pipe
  <2>1. \A b \in Sinks \ {<<"terminal", 0>>} : Contents'[b] = Contents[b]
    BY <1>1, <1>2, <1>3
  <2>2. QED BY <1>1, <1>3, <2>1, BoxNames
<1>4. ASSUME NEW t \in Streams, pipe' = [pipe EXCEPT ![t] = Append(@, c)], UNCHANGED terminal
      PROVE  \E d \in Sinks :
               /\ Contents'[d] = Append(Contents[d], c)
               /\ \A b \in Sinks \ {d} : Contents'[b] = Contents[b]
  <2>1. pipe'[t] = Append(pipe[t], c) /\ \A u \in Streams \ {t} : pipe'[u] = pipe[u]
    BY <1>1, <1>4
  <2>2. ASSUME NEW b \in Sinks \ {<<"pipe", t>>} PROVE Contents'[b] = Contents[b]
    <3>1. CASE b = <<"terminal", 0>>
      BY <1>1, <1>4, <3>1
    <3>2. ASSUME NEW u \in Streams, b = <<"pipe", u>> PROVE Contents'[b] = Contents[b]
      <4>1. u # t
        BY <2>2, <3>2
      <4>2. QED BY <1>1, <2>1, <3>2, <4>1
    <3>3. QED BY <1>2, <3>1, <3>2
  <2>3. QED BY <1>1, <2>1, <2>2, BoxNames
<1>5. QED BY <1>3, <1>4 DEF Write

\* While the program runs nothing is lost.
LEMMA RunWrites ==
  ASSUME IInv, NEW p \in Processes, stage[p] \in {"run", "flush"}, NEW s \in Streams, NEW c, Write(p, s, c)
  PROVE  fd[p][s] # "null" /\ (world.pipes \/ pipe' = pipe)
<1>1. fd[p] = IF world.pipes THEN Piped ELSE Terminal
  BY DEF IInv, FilesInv, Placed
<1>2. fd[p][s] = IF world.pipes THEN s ELSE "terminal"
  BY <1>1 DEF Piped, Terminal
<1>3. s # "null" /\ s # "terminal"
  BY DEF Streams
<1>4. ~ world.pipes => pipe' = pipe
  BY <1>2 DEF Write, Streams
<1>5. QED BY <1>2, <1>3, <1>4

\* The results, as long as nobody exits.
LEMMA ResultsKept ==
  ASSUME ContentsRight, ContentsRight', UNCHANGED result,
         NEW q \in Processes, stage'[q] = "exited" <=> stage[q] = "exited"
  PROVE  Contents'[<<"result", q>>] = Contents[<<"result", q>>]
  BY DEF ContentsRight, Filled

\* The buffers of the others.
LEMMA StdioKept ==
  ASSUME ContentsRight, ContentsRight', NEW p \in Processes,
         \A q \in Processes \ {p} : stdio'[q] = stdio[q]
  PROVE  \A q \in Processes : <<"stdio", q>> # <<"stdio", p>> =>
           Contents'[<<"stdio", q>>] = Contents[<<"stdio", q>>]
<1>1. SUFFICES ASSUME NEW q \in Processes, <<"stdio", q>> # <<"stdio", p>>
               PROVE  Contents'[<<"stdio", q>>] = Contents[<<"stdio", q>>]
  OBVIOUS
<1>2. q # p
  BY <1>1
<1>3. stdio'[q] = stdio[q]
  BY <1>2
<1>4. Contents[<<"stdio", q>>] = stdio[q] /\ Contents'[<<"stdio", q>>] = stdio'[q]
  BY DEF ContentsRight, Filled
<1>5. QED BY <1>3, <1>4

LEMMA CompileOnce == ASSUME IInv, IInv', OnceInv, NEW p \in Processes, Compile(p) PROVE OnceInv'
<1>1. PICK t : t = IF world.compiles /\ world.runs THEN "compiled" ELSE "returned"
  OBVIOUS
<1>2. /\ t \in Stages /\ Moves(p, t) /\ stage[p] = "compile" /\ t \in {"compiled", "returned"}
      /\ Write(p, "err", Diagnostic)
      /\ UNCHANGED <<world, stdio, result, printed, copied>>
  BY <1>1 DEF Compile, Goto, Moves, Stages
<1>3. stage'[p] = t /\ \A q \in Processes \ {p} : stage'[q] = stage[q]
  BY <1>2, MovesFacts DEF IInv
<1>4. fd[p]["err"] \in {"terminal", "null"}
  <2>1. fd[p] = IF world.quiet THEN Silent ELSE Terminal
    BY <1>2 DEF IInv, FilesInv, Placed
  <2>2. QED BY <2>1 DEF Silent, Terminal, Streams
<1>5. pipe' = pipe /\ \A s \in Streams : pipe[s] = <<>>
  BY <1>2, <1>4 DEF Write, Streams, IInv, EarlyInv, Early
<1>6. ContentsRight /\ ContentsRight'
  BY ContentsAre, ContentsAreNext DEF IInv
<1>7. Contents \in Fillings /\ Contents' \in Fillings
  BY <1>6 DEF ContentsRight, Filled
<1>8. /\ \A q \in Processes :
           /\ Contents'[<<"stdio", q>>] = Contents[<<"stdio", q>>]
           /\ Contents'[<<"result", q>>] = Contents[<<"result", q>>]
      /\ \A s \in Streams : Contents'[<<"pipe", s>>] = Contents[<<"pipe", s>>]
  <2>1. \A q \in Processes : stage'[q] = "exited" <=> stage[q] = "exited"
    BY <1>2, <1>3
  <2>2. QED BY <1>2, <1>5, <1>6, <2>1 DEF ContentsRight, Filled
<1>9. /\ Numbered(Contents, printed)'
      /\ NobodyDead => AtMostOnce(Contents, copied \cup {Diagnostic})' /\ Present(Contents, printed)'
  <2>1. CASE terminal' = terminal
    <3>1. Contents'[<<"terminal", 0>>] = Contents[<<"terminal", 0>>]
      BY <1>6, <2>1 DEF ContentsRight, Filled
    <3>2. \A b \in DOMAIN Contents \ {} : Contents'[b] = Contents[b]
      <4>1. SameBut(Contents, Contents', {})
        BY <1>8, <3>1 DEF SameBut
      <4>2. QED BY <1>7, <4>1, SameElsewhere
    <3>3. Contents' = Contents
      BY <1>7, <3>2 DEF Fillings
    <3>4. QED BY <1>2, <3>3 DEF OnceInv
  <2>2. CASE terminal' = Append(terminal, Diagnostic)
    <3>1. Contents'[<<"terminal", 0>>] = Append(Contents[<<"terminal", 0>>], Diagnostic)
      BY <1>6, <2>2 DEF ContentsRight, Filled
    <3>2. \A b \in DOMAIN Contents \ {<<"terminal", 0>>} : Contents'[b] = Contents[b]
      <4>1. SameBut(Contents, Contents', {<<"terminal", 0>>})
        BY <1>8 DEF SameBut
      <4>2. QED BY <1>7, <4>1, SameElsewhere
    <3>3. Added(Contents, Contents', <<"terminal", 0>>, Diagnostic) /\ <<"terminal", 0>> \in Boxes
      BY <3>1, <3>2, BoxNames DEF Added
    <3>4. /\ Numbered(Contents, printed) => Numbered(Contents', printed)
          /\ AtMostOnce(Contents, copied \cup {Diagnostic}) => AtMostOnce(Contents', copied \cup {Diagnostic})
          /\ Present(Contents, printed) => Present(Contents', printed)
      BY <1>7, <3>3, DiagnosticOnce
    <3>5. QED BY <1>2, <3>4 DEF OnceInv
  <2>3. QED BY <1>2, <1>4, <2>1, <2>2 DEF Write, Streams
<1>10. QED BY <1>2, <1>5, <1>9, OnceStep

LEMMA PrintOnce == ASSUME IInv, IInv', OnceInv, NEW p \in Processes, PrintChunk(p) PROVE OnceInv'
<1>1. /\ stage[p] = "run" /\ todo[p] # <<>> /\ Head(todo[p]).do = "print"
      /\ UNCHANGED <<world, stage, result, copied>>
      /\ printed' = [printed EXCEPT ![p] = @ + 1]
  BY DEF PrintChunk, Does
<1>2. TypeOK /\ todo \in [Processes -> Seq(Steps)]
  BY DEF IInv, TodoInv
<1>3. Head(todo[p]).to \in Streams
  BY <1>1, <1>2, TailFacts, PrintStep
<1>4. PICK s \in Streams : s = Head(todo[p]).to
  BY <1>3
<1>5. PICK c : c = Chunk(p, s)
  OBVIOUS
<1>6. \/ s = "out" /\ stdio' = [stdio EXCEPT ![p] = Append(stdio[p], c)] /\ UNCHANGED <<pipe, terminal>>
      \/ Write(p, s, c) /\ UNCHANGED stdio
  BY <1>4, <1>5 DEF PrintChunk
<1>7. ContentsRight /\ ContentsRight'
  BY ContentsAre, ContentsAreNext DEF IInv
<1>8. Contents \in Fillings /\ Contents' \in Fillings
  BY <1>7 DEF ContentsRight, Filled
<1>9. \A q \in Processes : Contents'[<<"result", q>>] = Contents[<<"result", q>>]
  BY <1>1, <1>7, ResultsKept
<1>10. \E d \in Boxes : Added(Contents, Contents', d, c)
  <2>1. CASE stdio' = [stdio EXCEPT ![p] = Append(stdio[p], c)] /\ UNCHANGED <<pipe, terminal>>
    <3>1. stdio'[p] = Append(stdio[p], c) /\ \A q \in Processes \ {p} : stdio'[q] = stdio[q]
      BY <1>2, <2>1 DEF TypeOK
    <3>2. PICK d \in Boxes : d = <<"stdio", p>>
      BY BoxNames
    <3>3. Contents'[d] = Append(Contents[d], c)
      BY <1>7, <3>1, <3>2 DEF ContentsRight, Filled
    <3>4. \A q \in Processes : <<"stdio", q>> \notin {d} =>
            Contents'[<<"stdio", q>>] = Contents[<<"stdio", q>>]
      BY <1>7, <3>1, <3>2, StdioKept
    <3>5. /\ \A t \in Streams : Contents'[<<"pipe", t>>] = Contents[<<"pipe", t>>]
          /\ Contents'[<<"terminal", 0>>] = Contents[<<"terminal", 0>>]
      BY <1>7, <2>1 DEF ContentsRight, Filled
    <3>6. \A b \in DOMAIN Contents \ {d} : Contents'[b] = Contents[b]
      <4>1. \A q \in Processes : <<"result", q>> \notin {d} => Contents'[<<"result", q>>] = Contents[<<"result", q>>]
        BY <1>9
      <4>2. /\ \A t \in Streams : <<"pipe", t>> \notin {d} => Contents'[<<"pipe", t>>] = Contents[<<"pipe", t>>]
            /\ <<"terminal", 0>> \notin {d} => Contents'[<<"terminal", 0>>] = Contents[<<"terminal", 0>>]
        BY <3>5
      <4>3. SameBut(Contents, Contents', {d})
        BY <3>4, <4>1, <4>2 DEF SameBut
      <4>4. QED BY <1>8, <4>3, SameElsewhere
    <3>7. QED BY <3>3, <3>6 DEF Added
  <2>2. CASE Write(p, s, c) /\ UNCHANGED stdio
    <3>1. fd[p][s] # "null"
      BY <1>1, <2>2, RunWrites
    <3>2. PICK d \in Sinks :
            /\ Contents'[d] = Append(Contents[d], c)
            /\ \A b \in Sinks \ {d} : Contents'[b] = Contents[b]
      BY <1>2, <1>7, <2>2, <3>1, WriteSink
    <3>3. \A q \in Processes : Contents'[<<"stdio", q>>] = Contents[<<"stdio", q>>]
      BY <1>7, <2>2 DEF ContentsRight, Filled
    <3>4. /\ \A t \in Streams : <<"pipe", t>> \notin {d} => Contents'[<<"pipe", t>>] = Contents[<<"pipe", t>>]
          /\ <<"terminal", 0>> \notin {d} => Contents'[<<"terminal", 0>>] = Contents[<<"terminal", 0>>]
      BY <3>2, BoxNames
    <3>5. \A b \in DOMAIN Contents \ {d} : Contents'[b] = Contents[b]
      <4>1. SameBut(Contents, Contents', {d})
        BY <1>9, <3>3, <3>4 DEF SameBut
      <4>2. QED BY <1>8, <4>1, SameElsewhere
    <3>6. QED BY <3>2, <3>5, BoxNames DEF Added
  <2>3. QED BY <1>6, <2>1, <2>2
<1>11. PICK d \in Boxes : Added(Contents, Contents', d, c)
  BY <1>10
<1>12. PICK K : K = copied \cup {Diagnostic}
  OBVIOUS
<1>13. printed \in [Processes -> Nat] /\ c = [by |-> p, n |-> printed[p] + 1, to |-> s]
  BY <1>2, <1>5 DEF TypeOK, Chunk
<1>14. /\ Numbered(Contents', printed')
       /\ AtMostOnce(Contents, K) => AtMostOnce(Contents', K)
       /\ Present(Contents, printed) => Present(Contents', printed')
  <2>1. Numbered(Contents, printed)
    BY DEF OnceInv
  <2>2. PICK after : after = [printed EXCEPT ![p] = @ + 1]
    OBVIOUS
  <2>3. /\ Numbered(Contents', after)
        /\ AtMostOnce(Contents, K) => AtMostOnce(Contents', K)
        /\ Present(Contents, printed) => Present(Contents', after)
    <3>1. NextChunk(c, p, printed) /\ CountedOn(after, p, printed)
      BY <1>4, <1>13, <2>2 DEF NextChunk, CountedOn
    <3>2. Added(Contents, Contents', d, c) /\ printed \in [Processes -> Nat]
      BY <1>11, <1>13
    <3>3. Numbered(Contents', after)
      BY <1>8, <2>1, <3>1, <3>2, PrintedOnce
    <3>4. AtMostOnce(Contents, K) => AtMostOnce(Contents', K)
      BY <1>8, <2>1, <3>1, <3>2, PrintedOnce
    <3>5. Present(Contents, printed) => Present(Contents', after)
      BY <1>8, <2>1, <3>1, <3>2, PrintedOnce
    <3>6. QED BY <3>3, <3>4, <3>5
  <2>4. QED BY <1>1, <2>2, <2>3
<1>15. /\ Numbered(Contents, printed)'
       /\ NobodyDead => AtMostOnce(Contents, copied \cup {Diagnostic})' /\ Present(Contents, printed)'
  BY <1>1, <1>12, <1>14 DEF OnceInv
<1>16. /\ "run" \in Stages /\ Moves(p, "run") /\ \A t \in Streams : "run" \in Emptying(t)
       /\ world.pipes \/ pipe' = pipe
       /\ \A q \in Processes \ {p} : stdio'[q] = stdio[q] /\ result'[q] = result[q]
  <2>1. world.pipes \/ pipe' = pipe
    BY <1>1, <1>6, RunWrites
  <2>2. \A q \in Processes \ {p} : stdio'[q] = stdio[q]
    BY <1>2, <1>6 DEF TypeOK
  <2>3. "run" \in Stages /\ Moves(p, "run")
    BY <1>1, RunFacts DEF Stages
  <2>4. QED BY <1>1, <2>1, <2>2, <2>3 DEF Emptying
<1>17. QED BY <1>1, <1>15, <1>16, OnceStep

LEMMA FlushOnce == ASSUME IInv, IInv', OnceInv, NEW p \in Processes, Flush(p) PROVE OnceInv'
<1>1. PICK c : c = Head(stdio[p])
  OBVIOUS
<1>2. /\ stage[p] \in {"run", "flush"} /\ Write(p, "out", c)
      /\ stdio' = [stdio EXCEPT ![p] = Tail(stdio[p])] /\ stdio[p] # <<>>
      /\ UNCHANGED <<world, stage, result, printed, copied>>
  BY <1>1, BoundAssumption DEF Flush, Does
<1>3. TypeOK /\ "out" \in Streams
  BY DEF IInv, Streams
<1>4. ContentsRight /\ ContentsRight'
  BY ContentsAre, ContentsAreNext DEF IInv
<1>5. Contents \in Fillings /\ Contents' \in Fillings
  BY <1>4 DEF ContentsRight, Filled
<1>6. stdio'[p] = Tail(stdio[p]) /\ \A q \in Processes \ {p} : stdio'[q] = stdio[q]
  BY <1>2, <1>3 DEF TypeOK
<1>7. fd[p]["out"] # "null" /\ (world.pipes \/ pipe' = pipe)
  BY <1>2, <1>3, RunWrites
<1>8. PICK d \in Sinks :
        /\ Contents'[d] = Append(Contents[d], c)
        /\ \A b \in Sinks \ {d} : Contents'[b] = Contents[b]
  BY <1>2, <1>3, <1>4, <1>7, WriteSink
<1>9. Moved(Contents, Contents', <<"stdio", p>>, d)
  <2>1. Contents[<<"stdio", p>>] = stdio[p] /\ Contents'[<<"stdio", p>>] = Tail(Contents[<<"stdio", p>>])
    BY <1>4, <1>6 DEF ContentsRight, Filled
  <2>2. <<"stdio", p>> # d
    BY BoxNames
  <2>3. \A q \in Processes : <<"stdio", q>> \notin {<<"stdio", p>>, d} =>
          Contents'[<<"stdio", q>>] = Contents[<<"stdio", q>>]
    BY <1>4, <1>6, StdioKept
  <2>4. \A q \in Processes : Contents'[<<"result", q>>] = Contents[<<"result", q>>]
    BY <1>2, <1>4, ResultsKept
  <2>5. /\ \A t \in Streams : <<"pipe", t>> \notin {<<"stdio", p>>, d} =>
             Contents'[<<"pipe", t>>] = Contents[<<"pipe", t>>]
        /\ <<"terminal", 0>> \notin {<<"stdio", p>>, d} =>
             Contents'[<<"terminal", 0>>] = Contents[<<"terminal", 0>>]
    BY <1>8, BoxNames
  <2>6. \A b \in DOMAIN Contents \ {<<"stdio", p>>, d} : Contents'[b] = Contents[b]
    <3>1. SameBut(Contents, Contents', {<<"stdio", p>>, d})
      BY <2>3, <2>4, <2>5 DEF SameBut
    <3>2. QED BY <1>5, <3>1, SameElsewhere
  <2>7. QED BY <1>1, <1>2, <1>8, <2>1, <2>2, <2>6 DEF Moved
<1>10. Rearranged(Contents, Contents')
  BY <1>5, <1>9, BoxNames, MovedIs
<1>11. PICK K : K = copied \cup {Diagnostic}
  OBVIOUS
<1>12. /\ Numbered(Contents, printed) => Numbered(Contents', printed)
       /\ AtMostOnce(Contents, K) => AtMostOnce(Contents', K)
       /\ Present(Contents, printed) => Present(Contents', printed)
  BY <1>10, RearrangedOnce
<1>13. /\ Numbered(Contents, printed)'
       /\ NobodyDead => AtMostOnce(Contents, copied \cup {Diagnostic})' /\ Present(Contents, printed)'
  BY <1>2, <1>11, <1>12 DEF OnceInv
<1>14. PICK t \in {"run", "flush"} : t = stage[p]
  BY <1>2
<1>15. t \in Stages /\ Moves(p, t) /\ \A s \in Streams : t \in Emptying(s)
  BY <1>2, <1>14, RunFacts DEF Stages, Emptying
<1>16. \A q \in Processes \ {p} : stdio'[q] = stdio[q] /\ result'[q] = result[q]
  BY <1>2, <1>6
<1>17. QED BY <1>2, <1>7, <1>13, <1>14, <1>15, <1>16, OnceStep

\* What is in box a is lost.
LEMMA EmptiedNumbered ==
  ASSUME NEW B \in Fillings, NEW C \in Fillings, NEW a \in Boxes, NEW pr,
         C[a] = <<>>, \A b \in DOMAIN B \ {a} : C[b] = B[b], Numbered(B, pr)
  PROVE  Numbered(C, pr)
<1>1. ASSUME NEW x \in PlacesOf(C) PROVE x \in PlacesOf(B) /\ AtPlaceOf(B, x) = AtPlaceOf(C, x)
  <2>1. x = <<x[1], x[2]>> /\ x[1] \in Boxes /\ x[2] \in 1 .. Len(C[x[1]]) /\ AtPlaceOf(C, x) = C[x[1]][x[2]]
    BY PlaceIs
  <2>2. x[1] # a
    <3>1. ASSUME x[1] = a PROVE FALSE
      <4>1. x[2] \in 1 .. 0
        BY <2>1, <3>1
      <4>2. QED BY <4>1
    <3>2. QED BY <3>1
  <2>3. C[x[1]] = B[x[1]]
    BY <2>1, <2>2, FillingIs
  <2>4. <<x[1], x[2]>> \in PlacesOf(B) /\ AtPlaceOf(B, <<x[1], x[2]>>) = B[x[1]][x[2]]
    BY <2>1, <2>3, PlaceIs
  <2>5. QED BY <2>1, <2>3, <2>4
<1>2. QED BY <1>1 DEF Numbered

LEMMA RaiseOnce == ASSUME IInv, IInv', OnceInv, NEW p \in Processes, RaiseUncaught(p) PROVE OnceInv'
<1>1. PICK c : c = Chunk(p, "err")
  OBVIOUS
<1>2. /\ stage[p] = "run" /\ Write(p, "err", c) /\ Moves(p, "dead") /\ "dead" \in Stages
      /\ stdio' = [stdio EXCEPT ![p] = <<>>]
      /\ printed' = [printed EXCEPT ![p] = @ + 1]
      /\ UNCHANGED <<world, result, copied>>
  BY <1>1 DEF RaiseUncaught, Does, Goto, Moves, Stages
<1>3. TypeOK /\ "err" \in Streams
  BY DEF IInv, Streams
<1>4. ContentsRight /\ ContentsRight'
  BY ContentsAre, ContentsAreNext DEF IInv
<1>5. Contents \in Fillings /\ Contents' \in Fillings
  BY <1>4 DEF ContentsRight, Filled
<1>6. stdio'[p] = <<>> /\ \A q \in Processes \ {p} : stdio'[q] = stdio[q]
  BY <1>2, <1>3 DEF TypeOK
<1>7. fd[p]["err"] # "null" /\ (world.pipes \/ pipe' = pipe)
  BY <1>2, <1>3, RunWrites
<1>8. PICK d \in Sinks :
        /\ Contents'[d] = Append(Contents[d], c)
        /\ \A b \in Sinks \ {d} : Contents'[b] = Contents[b]
  BY <1>2, <1>3, <1>4, <1>7, WriteSink
<1>9. PICK a \in Boxes : a = <<"stdio", p>>
  BY BoxNames
<1>10. a # d /\ a \notin Sinks /\ d \in Boxes
  BY <1>9, BoxNames
<1>11. c \in Chunks
  BY <1>1, <1>3, ChunkType
<1>12. PICK M : M = [Contents EXCEPT ![d] = Append(Contents[d], c)]
  OBVIOUS
<1>13. M \in Fillings /\ M[d] = Append(Contents[d], c) /\ \A b \in Boxes \ {d} : M[b] = Contents[b]
  <2>1. Append(Contents[d], c) \in Seq(Chunks)
    BY <1>5, <1>10, <1>11, FillingIs, AppendFacts
  <2>2. QED BY <1>5, <1>10, <1>12, <2>1 DEF Fillings
<1>14. Added(Contents, M, d, c)
  BY <1>5, <1>13, FillingIs DEF Added
<1>15. printed \in [Processes -> Nat] /\ NextChunk(c, p, printed)
  BY <1>1, <1>3 DEF TypeOK, Chunk, NextChunk
<1>16. Numbered(M, printed')
  <2>1. Numbered(Contents, printed)
    BY DEF OnceInv
  <2>2. PICK after : after = [printed EXCEPT ![p] = @ + 1]
    OBVIOUS
  <2>3. CountedOn(after, p, printed)
    BY <2>2 DEF CountedOn
  <2>4. Numbered(M, after)
    BY <1>5, <1>10, <1>13, <1>14, <1>15, <2>1, <2>3, PrintedOnce
  <2>5. QED BY <1>2, <2>2, <2>4
<1>17. Numbered(Contents, printed)'
  <2>1. Contents'[a] = <<>>
    BY <1>4, <1>6, <1>9 DEF ContentsRight, Filled
  <2>2. \A q \in Processes : <<"stdio", q>> \notin {a} => Contents'[<<"stdio", q>>] = M[<<"stdio", q>>]
    <3>1. \A q \in Processes : <<"stdio", q>> \notin {a} => Contents'[<<"stdio", q>>] = Contents[<<"stdio", q>>]
      BY <1>4, <1>6, <1>9, StdioKept
    <3>2. QED BY <1>8, <1>13, <3>1, BoxNames
  <2>3. \A q \in Processes : <<"result", q>> \notin {a} => Contents'[<<"result", q>>] = M[<<"result", q>>]
    <3>1. \A q \in Processes : stage'[q] = "exited" <=> stage[q] = "exited"
      BY <1>2, <1>3, MovesFacts
    <3>2. \A q \in Processes : Contents'[<<"result", q>>] = Contents[<<"result", q>>]
      BY <1>2, <1>4, <3>1, ResultsKept
    <3>3. QED BY <1>8, <1>13, <3>2, BoxNames
  <2>4. /\ \A t \in Streams : <<"pipe", t>> \notin {a} => Contents'[<<"pipe", t>>] = M[<<"pipe", t>>]
        /\ <<"terminal", 0>> \notin {a} => Contents'[<<"terminal", 0>>] = M[<<"terminal", 0>>]
    BY <1>8, <1>13, BoxNames
  <2>5. \A b \in DOMAIN M \ {a} : Contents'[b] = M[b]
    <3>1. SameBut(M, Contents', {a})
      BY <2>2, <2>3, <2>4 DEF SameBut
    <3>2. QED BY <1>5, <1>13, <3>1, SameElsewhere
  <2>6. Numbered(Contents', printed')
    BY <1>5, <1>13, <1>16, <2>1, <2>5, EmptiedNumbered
  <2>7. QED BY <2>6
<1>18. \A q \in Processes \ {p} : stdio'[q] = stdio[q] /\ result'[q] = result[q]
  BY <1>2, <1>6
<1>19. QED BY <1>2, <1>7, <1>17, <1>18, OnceStep

LEMMA ReadPipeOnce ==
  ASSUME IInv, IInv', OnceInv, NEW p \in Processes, NEW s \in Streams, ReadPipe(p, s) PROVE OnceInv'
<1>1. /\ stage[p] = (IF s = "out" THEN "read_out" ELSE "read_err") /\ pipe[s] # <<>>
      /\ result' = [result EXCEPT ![p] = Append(result[p], Head(pipe[s]))]
      /\ pipe' = [pipe EXCEPT ![s] = Tail(pipe[s])]
      /\ UNCHANGED <<world, stage, stdio, terminal, printed, copied>>
  BY DEF ReadPipe, Reads
<1>2. TypeOK
  BY DEF IInv
<1>3. /\ result'[p] = Append(result[p], Head(pipe[s])) /\ \A q \in Processes \ {p} : result'[q] = result[q]
      /\ pipe'[s] = Tail(pipe[s]) /\ \A u \in Streams \ {s} : pipe'[u] = pipe[u]
  BY <1>1, <1>2 DEF TypeOK
<1>4. ContentsRight /\ ContentsRight'
  BY ContentsAre, ContentsAreNext DEF IInv
<1>5. Contents \in Fillings /\ Contents' \in Fillings
  BY <1>4 DEF ContentsRight, Filled
<1>6. PICK a \in Boxes : a = <<"pipe", s>>
  BY BoxNames
<1>7. PICK d \in Boxes : d = <<"result", p>>
  BY BoxNames
<1>8. Moved(Contents, Contents', a, d)
  <2>1. Contents[a] = pipe[s] /\ Contents'[a] = Tail(Contents[a])
    BY <1>3, <1>4, <1>6 DEF ContentsRight, Filled
  <2>2. stage[p] # "exited"
    BY <1>1
  <2>3. Contents[d] = result[p] /\ Contents'[d] = Append(Contents[d], Head(Contents[a]))
    BY <1>1, <1>3, <1>4, <1>7, <2>1, <2>2 DEF ContentsRight, Filled
  <2>4. a # d
    BY <1>6, <1>7
  <2>5. \A q \in Processes : <<"stdio", q>> \notin {a, d} => Contents'[<<"stdio", q>>] = Contents[<<"stdio", q>>]
    <3>1. \A q \in Processes : Contents[<<"stdio", q>>] = stdio[q] /\ Contents'[<<"stdio", q>>] = stdio'[q]
      BY <1>4 DEF ContentsRight, Filled
    <3>2. stdio' = stdio
      BY <1>1
    <3>3. \A q \in Processes : Contents'[<<"stdio", q>>] = Contents[<<"stdio", q>>]
      BY <3>1, <3>2
    <3>4. QED BY <3>3
  <2>6. \A q \in Processes : <<"result", q>> \notin {a, d} => Contents'[<<"result", q>>] = Contents[<<"result", q>>]
    <3>1. SUFFICES ASSUME NEW q \in Processes, <<"result", q>> \notin {a, d}
                   PROVE  Contents'[<<"result", q>>] = Contents[<<"result", q>>]
      OBVIOUS
    <3>2. q # p
      BY <1>7, <3>1
    <3>3. result'[q] = result[q] /\ stage'[q] = stage[q]
      BY <1>1, <1>3, <3>2
    <3>4. /\ Contents[<<"result", q>>] = IF stage[q] = "exited" THEN <<>> ELSE result[q]
          /\ Contents'[<<"result", q>>] = IF stage'[q] = "exited" THEN <<>> ELSE result'[q]
      BY <1>4 DEF ContentsRight, Filled
    <3>5. QED BY <3>3, <3>4
  <2>7. \A t \in Streams : <<"pipe", t>> \notin {a, d} => Contents'[<<"pipe", t>>] = Contents[<<"pipe", t>>]
    <3>1. SUFFICES ASSUME NEW t \in Streams, <<"pipe", t>> \notin {a, d}
                   PROVE  Contents'[<<"pipe", t>>] = Contents[<<"pipe", t>>]
      OBVIOUS
    <3>2. t # s
      BY <1>6, <3>1
    <3>3. QED BY <1>3, <1>4, <3>2 DEF ContentsRight, Filled
  <2>8. <<"terminal", 0>> \notin {a, d} => Contents'[<<"terminal", 0>>] = Contents[<<"terminal", 0>>]
    BY <1>1, <1>4 DEF ContentsRight, Filled
  <2>9. \A b \in DOMAIN Contents \ {a, d} : Contents'[b] = Contents[b]
    <3>1. SameBut(Contents, Contents', {a, d})
      BY <2>5, <2>6, <2>7, <2>8 DEF SameBut
    <3>2. QED BY <1>5, <3>1, SameElsewhere
  <2>10. QED BY <1>1, <2>1, <2>3, <2>4, <2>9 DEF Moved
<1>9. Rearranged(Contents, Contents')
  BY <1>5, <1>8, MovedIs
<1>10. PICK K : K = copied \cup {Diagnostic}
  OBVIOUS
<1>11. /\ Numbered(Contents, printed) => Numbered(Contents', printed)
       /\ AtMostOnce(Contents, K) => AtMostOnce(Contents', K)
       /\ Present(Contents, printed) => Present(Contents', printed)
  BY <1>9, RearrangedOnce
<1>12. /\ Numbered(Contents, printed)'
       /\ NobodyDead => AtMostOnce(Contents, copied \cup {Diagnostic})' /\ Present(Contents, printed)'
  BY <1>1, <1>10, <1>11 DEF OnceInv
<1>13. PICK t \in {"read_out", "read_err"} : t = stage[p]
  BY <1>1
<1>14. t \in Stages /\ Moves(p, t)
  BY <1>1, <1>2, <1>13 DEF Moves, Stages, TypeOK
<1>15. ASSUME NEW u \in Streams
       PROVE  pipe'[u] = <<>> \/ t \in Emptying(u) \/ (pipe[u] # <<>> /\ stage[p] \notin Emptying(u))
  <2>1. CASE u = s
    BY <1>1, <1>13, <2>1 DEF Emptying, Streams
  <2>2. CASE u # s
    BY <1>3, <1>13, <2>2
  <2>3. QED BY <2>1, <2>2
<1>16. world.pipes
  BY <1>1 DEF OnceInv
<1>17. \A q \in Processes \ {p} : stdio'[q] = stdio[q] /\ result'[q] = result[q]
  BY <1>1, <1>3
<1>18. QED BY <1>1, <1>12, <1>13, <1>14, <1>15, <1>16, <1>17, OnceStep

LEMMA ForkOnce ==
  ASSUME IInv, IInv', OnceInv, NEW p \in Processes, ForkParty(p),
         NEW q \in Processes, q = Head(todo[p]).party
  PROVE  OnceInv'
<1>1. /\ stage[p] = "run" /\ todo[p] # <<>> /\ Head(todo[p]).do = "fork"
      /\ Moves(q, "run") /\ "run" \in Stages
      /\ stdio' = [stdio EXCEPT ![q] = stdio[p]]
      /\ copied' = copied \cup {stdio[p][i] : i \in DOMAIN stdio[p]}
      /\ UNCHANGED <<world, pipe, result, terminal, printed>>
  BY DEF ForkParty, Does, Moves, Stages
<1>2. TypeOK /\ TodoInv /\ todo[p] \in Seq(Steps)
  BY DEF IInv, TodoInv
<1>3. Head(todo[p]) = todo[p][1] /\ 1 \in 1 .. Len(todo[p])
  BY <1>1, <1>2, TailFacts
<1>4. stage[q] = "absent" /\ q # p
  BY <1>1, <1>2, <1>3 DEF TodoInv, ForkAt
<1>5. stdio[q] = <<>> /\ stdio'[q] = stdio[p] /\ \A r \in Processes \ {q} : stdio'[r] = stdio[r]
  BY <1>1, <1>2, <1>4 DEF OnceInv, TypeOK
<1>6. stage'[q] = "run" /\ \A r \in Processes \ {q} : stage'[r] = stage[r]
  BY <1>1, <1>2, MovesFacts
<1>7. ContentsRight /\ ContentsRight'
  BY ContentsAre, ContentsAreNext DEF IInv
<1>8. Contents \in Fillings /\ Contents' \in Fillings
  BY <1>7 DEF ContentsRight, Filled
<1>9. PICK a \in Boxes : a = <<"stdio", p>>
  BY BoxNames
<1>10. PICK d \in Boxes : d = <<"stdio", q>>
  BY BoxNames
<1>11. Contents[a] = stdio[p] /\ Contents[d] = <<>> /\ Contents'[d] = stdio[p]
  BY <1>5, <1>7, <1>9, <1>10 DEF ContentsRight, Filled
<1>12. Copied(Contents, Contents', a, d)
  <2>1. \A r \in Processes : <<"stdio", r>> \notin {d} => Contents'[<<"stdio", r>>] = Contents[<<"stdio", r>>]
    BY <1>5, <1>7, <1>10, StdioKept
  <2>2. \A r \in Processes : <<"result", r>> \notin {d} => Contents'[<<"result", r>>] = Contents[<<"result", r>>]
    <3>1. \A r \in Processes : stage'[r] = "exited" <=> stage[r] = "exited"
      BY <1>4, <1>6
    <3>2. QED BY <1>1, <1>7, <3>1, ResultsKept
  <2>3. /\ \A t \in Streams : <<"pipe", t>> \notin {d} => Contents'[<<"pipe", t>>] = Contents[<<"pipe", t>>]
        /\ <<"terminal", 0>> \notin {d} => Contents'[<<"terminal", 0>>] = Contents[<<"terminal", 0>>]
    BY <1>1, <1>7 DEF ContentsRight, Filled
  <2>4. \A b \in DOMAIN Contents \ {d} : Contents'[b] = Contents[b]
    <3>1. SameBut(Contents, Contents', {d})
      BY <2>1, <2>2, <2>3 DEF SameBut
    <3>2. QED BY <1>8, <3>1, SameElsewhere
  <2>5. QED BY <1>11, <2>4 DEF Copied
<1>13. PICK K : K = copied \cup {Diagnostic}
  OBVIOUS
<1>14. PICK L : L = {stdio[p][i] : i \in DOMAIN stdio[p]}
  OBVIOUS
<1>15. /\ Numbered(Contents, printed) => Numbered(Contents', printed)
       /\ AtMostOnce(Contents, K) => AtMostOnce(Contents', K \cup L)
       /\ Present(Contents, printed) => Present(Contents', printed)
  <2>1. L = {Contents[a][i] : i \in DOMAIN Contents[a]}
    BY <1>11, <1>14
  <2>2. Numbered(Contents, printed) => Numbered(Contents', printed)
    BY <1>8, <1>12, CopiedOnce
  <2>3. AtMostOnce(Contents, K) => AtMostOnce(Contents', K \cup {Contents[a][i] : i \in DOMAIN Contents[a]})
    BY <1>8, <1>12, CopiedOnce
  <2>4. Present(Contents, printed) => Present(Contents', printed)
    BY <1>8, <1>12, CopiedOnce
  <2>5. QED BY <2>1, <2>2, <2>3, <2>4
<1>16. K \cup L = copied' \cup {Diagnostic}
  BY <1>1, <1>13, <1>14
<1>17. /\ Numbered(Contents, printed)'
       /\ NobodyDead => AtMostOnce(Contents, copied \cup {Diagnostic})' /\ Present(Contents, printed)'
  BY <1>1, <1>13, <1>15, <1>16 DEF OnceInv
<1>18. \A s \in Streams : "run" \in Emptying(s)
  BY DEF Emptying
<1>19. \A r \in Processes \ {q} : stdio'[r] = stdio[r] /\ result'[r] = result[r]
  BY <1>1, <1>5
<1>20. QED BY <1>1, <1>4, <1>17, <1>18, <1>19, OnceStep

LEMMA ExitOnce == ASSUME IInv, IInv', OnceInv, NEW p \in Processes, Exit(p) PROVE OnceInv'
<1>1. /\ "exited" \in Stages /\ Moves(p, "exited") /\ stage[p] = "returned"
      /\ terminal' = terminal \o result[p] \o stdio[p]
      /\ stdio' = [stdio EXCEPT ![p] = <<>>]
      /\ UNCHANGED <<world, pipe, result, printed, copied>>
  BY DEF Exit, Goto, Moves, Stages
<1>2. TypeOK
  BY DEF IInv
<1>3. stage'[p] = "exited" /\ \A q \in Processes \ {p} : stage'[q] = stage[q]
  BY <1>1, <1>2, MovesFacts
<1>4. stdio'[p] = <<>> /\ \A q \in Processes \ {p} : stdio'[q] = stdio[q]
  BY <1>1, <1>2 DEF TypeOK
<1>5. ContentsRight /\ ContentsRight'
  BY ContentsAre, ContentsAreNext DEF IInv
<1>6. Contents \in Fillings /\ Contents' \in Fillings
  BY <1>5 DEF ContentsRight, Filled
<1>7. PICK t \in Boxes : t = <<"terminal", 0>>
  BY BoxNames
<1>8. PICK r \in Boxes : r = <<"result", p>>
  BY BoxNames
<1>9. PICK b \in Boxes : b = <<"stdio", p>>
  BY BoxNames
<1>10. t # r /\ t # b /\ r # b
  BY <1>7, <1>8, <1>9
<1>11. /\ Contents[t] = terminal /\ Contents[r] = result[p] /\ Contents[b] = stdio[p]
       /\ Contents'[t] = terminal' /\ Contents'[r] = <<>> /\ Contents'[b] = <<>>
  BY <1>1, <1>3, <1>4, <1>5, <1>7, <1>8, <1>9 DEF ContentsRight, Filled
<1>12. PICK M : M = [Contents EXCEPT ![t] = Contents[t] \o Contents[r], ![r] = <<>>]
  OBVIOUS
<1>13. /\ M \in Fillings /\ M[t] = Contents[t] \o Contents[r] /\ M[r] = <<>>
       /\ \A x \in Boxes \ {t, r} : M[x] = Contents[x]
  <2>1. Contents[t] \o Contents[r] \in Seq(Chunks) /\ <<>> \in Seq(Chunks)
    BY <1>6, FillingIs, JoinFacts
  <2>2. QED BY <1>6, <1>10, <1>12, <2>1 DEF Fillings
<1>14. Joined(Contents, M, r, t)
  BY <1>6, <1>10, <1>13, FillingIs DEF Joined
<1>15. Joined(M, Contents', b, t)
  <2>1. Contents'[t] = M[t] \o M[b]
    BY <1>1, <1>9, <1>10, <1>11, <1>13
  <2>2. \A q \in Processes : <<"stdio", q>> \notin {b, t} => Contents'[<<"stdio", q>>] = M[<<"stdio", q>>]
    <3>1. \A q \in Processes : <<"stdio", q>> \notin {b} => Contents'[<<"stdio", q>>] = Contents[<<"stdio", q>>]
      BY <1>4, <1>5, <1>9, StdioKept
    <3>2. \A q \in Processes : <<"stdio", q>> \in Boxes \ {t, r}
      BY <1>7, <1>8, BoxNames
    <3>3. QED BY <1>13, <3>1, <3>2
  <2>3. \A q \in Processes : <<"result", q>> \notin {b, t} => Contents'[<<"result", q>>] = M[<<"result", q>>]
    <3>1. SUFFICES ASSUME NEW q \in Processes PROVE Contents'[<<"result", q>>] = M[<<"result", q>>]
      OBVIOUS
    <3>2. CASE q = p
      BY <1>8, <1>11, <1>13, <3>2
    <3>3. CASE q # p
      <4>1. Contents'[<<"result", q>>] = Contents[<<"result", q>>]
        BY <1>1, <1>3, <1>5, <3>3, ResultsKept
      <4>2. <<"result", q>> \in Boxes \ {t, r}
        BY <1>7, <1>8, <3>3, BoxNames
      <4>3. QED BY <1>13, <4>1, <4>2
    <3>4. QED BY <3>2, <3>3
  <2>4. \A s \in Streams : <<"pipe", s>> \notin {b, t} => Contents'[<<"pipe", s>>] = M[<<"pipe", s>>]
    <3>1. \A s \in Streams : Contents'[<<"pipe", s>>] = Contents[<<"pipe", s>>]
      <4>1. \A s \in Streams : Contents[<<"pipe", s>>] = pipe[s] /\ Contents'[<<"pipe", s>>] = pipe'[s]
        BY <1>5 DEF ContentsRight, Filled
      <4>2. pipe' = pipe
        BY <1>1
      <4>3. QED BY <4>1, <4>2
    <3>2. \A s \in Streams : <<"pipe", s>> \in Boxes \ {t, r}
      BY <1>7, <1>8, BoxNames
    <3>3. QED BY <1>13, <3>1, <3>2
  <2>5. <<"terminal", 0>> \notin {b, t} => Contents'[<<"terminal", 0>>] = M[<<"terminal", 0>>]
    BY <1>7
  <2>6. \A x \in DOMAIN M \ {b, t} : Contents'[x] = M[x]
    <3>1. SameBut(M, Contents', {b, t})
      BY <2>2, <2>3, <2>4, <2>5 DEF SameBut
    <3>2. QED BY <1>6, <1>13, <3>1, SameElsewhere
  <2>7. QED BY <1>10, <1>11, <2>1, <2>6 DEF Joined
<1>16. Rearranged(Contents, M) /\ Rearranged(M, Contents')
  BY <1>6, <1>13, <1>14, <1>15, JoinedIs
<1>17. PICK K : K = copied \cup {Diagnostic}
  OBVIOUS
<1>18. /\ Numbered(Contents, printed) => Numbered(M, printed)
       /\ AtMostOnce(Contents, K) => AtMostOnce(M, K)
       /\ Present(Contents, printed) => Present(M, printed)
  BY <1>16, RearrangedOnce
<1>19. /\ Numbered(M, printed) => Numbered(Contents', printed)
       /\ AtMostOnce(M, K) => AtMostOnce(Contents', K)
       /\ Present(M, printed) => Present(Contents', printed)
  BY <1>16, RearrangedOnce
<1>20. /\ Numbered(Contents, printed)'
       /\ NobodyDead => AtMostOnce(Contents, copied \cup {Diagnostic})' /\ Present(Contents, printed)'
  BY <1>1, <1>17, <1>18, <1>19 DEF OnceInv
<1>21. \A s \in Streams : pipe'[s] = <<>> \/ (pipe[s] # <<>> /\ stage[p] \notin Emptying(s))
  BY <1>1 DEF Emptying
<1>22. \A q \in Processes \ {p} : stdio'[q] = stdio[q] /\ result'[q] = result[q]
  BY <1>1, <1>4
<1>23. QED BY <1>1, <1>4, <1>20, <1>21, <1>22, OnceStep

-----------------------------------------------------------------------------
\* All together.

LEMMA InitOnce == Init => OnceInv
<1>1. SUFFICES ASSUME Init PROVE OnceInv
  OBVIOUS
<1>2. TypeOK
  BY <1>1, InitInv DEF IInv
<1>3. /\ \A p \in Processes : stdio[p] = <<>> /\ result[p] = <<>> /\ printed[p] = 0
      /\ \A s \in Streams : pipe[s] = <<>>
      /\ terminal = <<>>
  BY <1>1 DEF Init
<1>4. ContentsRight /\ Contents \in Fillings
  BY <1>2, ContentsAre DEF ContentsRight, Filled
<1>5. ASSUME NEW b \in Boxes PROVE Contents[b] = <<>>
  <2>1. /\ \A p \in Processes : Contents[<<"stdio", p>>] = <<>> /\ Contents[<<"result", p>>] = <<>>
        /\ \A s \in Streams : Contents[<<"pipe", s>>] = <<>>
        /\ Contents[<<"terminal", 0>>] = <<>>
    BY <1>3, <1>4 DEF ContentsRight, Filled
  <2>2. QED BY <2>1, BoxIs
<1>6. \A x \in PlacesOf(Contents) : FALSE
  <2>1. SUFFICES ASSUME NEW x \in PlacesOf(Contents) PROVE FALSE
    OBVIOUS
  <2>2. x[1] \in Boxes /\ x[2] \in 1 .. Len(Contents[x[1]])
    BY <1>4, PlaceIs
  <2>3. x[2] \in 1 .. 0
    BY <1>5, <2>2
  <2>4. QED BY <2>3
<1>7. Numbered(Contents, printed) /\ AtMostOnce(Contents, copied \cup {Diagnostic})
  BY <1>6 DEF Numbered, AtMostOnce
<1>8. Present(Contents, printed)
  BY <1>3 DEF Present
<1>9. PipesRead
  BY <1>3 DEF PipesRead
<1>10. QED BY <1>3, <1>7, <1>8, <1>9 DEF OnceInv

LEMMA NextOnce == IInv /\ IInv' /\ OnceInv /\ [Next]_vars => OnceInv'
<1>1. SUFFICES ASSUME IInv, IInv', OnceInv, [Next]_vars PROVE OnceInv'
  OBVIOUS
<1>2. CASE UNCHANGED vars
  <2>1. /\ stage' = stage /\ stdio' = stdio /\ pipe' = pipe /\ result' = result
        /\ terminal' = terminal /\ printed' = printed /\ copied' = copied /\ world' = world
    BY <1>2 DEF vars, data
  <2>2. Contents' = Contents
    BY <2>1 DEF Contents
  <2>3. QED BY <1>1, <2>1, <2>2 DEF OnceInv, NobodyDead, PipesRead
<1>3. ASSUME NEW p \in Processes, Step(p) PROVE OnceInv'
  <2>1. ASSUME ForkParty(p) PROVE OnceInv'
    <3>1. Head(todo[p]) \in Steps /\ Head(todo[p]).do = "fork"
      BY <1>1, <2>1, TailFacts DEF IInv, TodoInv, ForkParty, Does
    <3>2. PICK q \in Processes : q = Head(todo[p]).party
      BY <3>1, ForkStep
    <3>3. QED BY <1>1, <2>1, <3>2, ForkOnce
  <2>2. QED
    BY <1>1, <1>3, <2>1, SuppressOnce, CompileOnce, RestoreOnce, StartOnce, PrintOnce, FlushOnce,
       SyncOnce, WaitOnce, RaiseOnce, EndProgramOnce, RestoreFdsOnce, ReadPipeOnce, PipeDrainedOnce,
       ExitOnce DEF Step
<1>4. QED BY <1>1, <1>2, <1>3 DEF Next

LEMMA OnceInvariant == Spec => [](IInv /\ OnceInv)
<1>1. Init => IInv /\ OnceInv
  BY InitInv, InitOnce
<1>2. (IInv /\ OnceInv) /\ [Next]_vars => (IInv /\ OnceInv)'
  BY NextInv, NextOnce
<1>3. QED BY <1>1, <1>2, PTL DEF Spec

\* When all have exited, what there is is on the terminal.
LEMMA AllShown ==
  ASSUME IInv, OnceInv, \A p \in Processes : stage[p] \in {"exited", "absent"},
         NEW x \in PlacesOf(Contents)
  PROVE  x = <<<<"terminal", 0>>, x[2]>> /\ x[2] \in DOMAIN terminal /\ AtPlaceOf(Contents, x) = terminal[x[2]]
<1>1. TypeOK /\ ContentsRight
  BY ContentsAre DEF IInv
<1>2. Contents \in Fillings
  BY <1>1 DEF ContentsRight, Filled
<1>3. /\ x = <<x[1], x[2]>> /\ x[1] \in Boxes /\ x[2] \in 1 .. Len(Contents[x[1]])
      /\ AtPlaceOf(Contents, x) = Contents[x[1]][x[2]]
  BY <1>2, PlaceIs
<1>4. Contents[x[1]] # <<>>
  <2>1. ASSUME Contents[x[1]] = <<>> PROVE FALSE
    <3>1. x[2] \in 1 .. 0
      BY <1>3, <2>1
    <3>2. QED BY <3>1
  <2>2. QED BY <2>1
<1>5. \A p \in Processes : Contents[<<"stdio", p>>] = <<>> /\ Contents[<<"result", p>>] = <<>>
  <2>1. \A p \in Processes : stdio[p] = <<>> /\ (stage[p] = "exited" \/ result[p] = <<>>)
    BY DEF OnceInv
  <2>2. QED BY <1>1, <2>1 DEF ContentsRight, Filled
<1>6. \A s \in Streams : Contents[<<"pipe", s>>] = <<>>
  <2>1. NobodyDead
    BY DEF NobodyDead
  <2>2. \A s \in Streams : pipe[s] = <<>>
    BY <2>1 DEF OnceInv, PipesRead, Emptying
  <2>3. QED BY <1>1, <2>2 DEF ContentsRight, Filled
<1>7. x[1] = <<"terminal", 0>>
  BY <1>3, <1>4, <1>5, <1>6, BoxIs
<1>8. Contents[x[1]] = terminal /\ terminal \in Seq(Chunks)
  BY <1>1, <1>7 DEF ContentsRight, Filled, TypeOK
<1>9. QED BY <1>3, <1>7, <1>8

\* What a party printed has come out once when all have exited, and more often only if it
\* was in a buffer that a fork copied, for any number of parties and any programs.
THEOREM OutputShownOnce == Spec => []OutputOnce
<1>1. ASSUME IInv, OnceInv PROVE OutputOnce
  <2>1. SUFFICES ASSUME \A p \in Processes : stage[p] \in {"exited", "absent"},
                        NEW p \in Processes, NEW n \in 1 .. printed[p]
                 PROVE  \E s \in Streams : LET c == [by |-> p, n |-> n, to |-> s] IN
                          Count(c) >= 1 /\ (c \notin copied => Count(c) = 1)
    BY DEF OutputOnce
  <2>2. /\ AtMostOnce(Contents, copied \cup {Diagnostic}) /\ Present(Contents, printed)
        /\ TypeOK /\ ContentsRight
    BY <1>1, <2>1, ContentsAre DEF OnceInv, NobodyDead, IInv
  <2>3. PICK s \in Streams : Holds(Contents, [by |-> p, n |-> n, to |-> s])
    BY <2>1, <2>2 DEF Present
  <2>4. PICK c : c = [by |-> p, n |-> n, to |-> s]
    OBVIOUS
  <2>5. PICK x \in PlacesOf(Contents) : AtPlaceOf(Contents, x) = c
    BY <2>3, <2>4 DEF Holds
  <2>6. x[2] \in DOMAIN terminal /\ terminal[x[2]] = c /\ x = <<<<"terminal", 0>>, x[2]>>
    BY <1>1, <2>1, <2>5, AllShown
  <2>7. x[2] \in Shown(c)
    BY <2>6 DEF Shown
  <2>8. IsFiniteSet(Shown(c))
    <3>1. terminal \in Seq(Chunks) /\ DOMAIN terminal = 1 .. Len(terminal) /\ Len(terminal) \in Int
      BY <2>2 DEF TypeOK
    <3>2. IsFiniteSet(1 .. Len(terminal))
      BY <3>1, FS_Interval
    <3>3. Shown(c) \in SUBSET (1 .. Len(terminal))
      BY <3>1 DEF Shown
    <3>4. QED BY <3>2, <3>3, FS_Subset
  <2>9. Count(c) >= 1
    <3>1. Cardinality(Shown(c)) \in Nat /\ Cardinality(Shown(c)) # 0
      BY <2>7, <2>8, FS_CardinalityType, FS_EmptySet
    <3>2. QED BY <3>1 DEF Count
  <2>10. ASSUME c \notin copied PROVE Count(c) = 1
    <3>1. c # Diagnostic
      <4>1. c.by = p /\ Diagnostic.by = N
        BY <2>4 DEF Diagnostic, Compiler
      <4>2. p # N
        BY DEF Processes
      <4>3. QED BY <4>1, <4>2
    <3>2. ASSUME NEW i \in Shown(c) PROVE i = x[2]
      <4>1. i \in 1 .. Len(terminal) /\ terminal[i] = c
        BY <2>2 DEF Shown, TypeOK
      <4>2. PICK t \in Boxes : t = <<"terminal", 0>>
        BY BoxNames
      <4>3. Contents[t] = terminal /\ Contents \in Fillings
        BY <2>2, <4>2 DEF ContentsRight, Filled
      <4>4. <<t, i>> \in PlacesOf(Contents) /\ AtPlaceOf(Contents, <<t, i>>) = c
        BY <4>1, <4>3, PlaceIs
      <4>5. <<t, i>> = x
        BY <2>2, <2>5, <2>10, <3>1, <4>4 DEF AtMostOnce
      <4>6. QED BY <4>5
    <3>3. Shown(c) = {x[2]}
      BY <2>7, <3>2
    <3>4. QED BY <3>3, FS_Singleton DEF Count
  <2>11. QED BY <2>4, <2>9, <2>10
<1>2. QED BY <1>1, OnceInvariant, PTL

=============================================================================
