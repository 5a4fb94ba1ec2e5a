---------------------------- MODULE OutputCapture ----------------------------
(***************************************************************************)
(* sy_codon_run (syqure/src/ffi/bridge.cc): compile a program with stderr  *)
(* out of the way, run it with stdout and stderr redirected into pipes,    *)
(* and give what it has printed to the caller.  The program is compiled    *)
(* and run in the caller's own process.  With @local (runtime.codon) it    *)
(* forks, in the middle of the capture, into one process for each party:   *)
(* all share the pipes, all return to the caller's code, and each empties  *)
(* the pipes on its way.  Nobody reads them before.                        *)
(***************************************************************************)
EXTENDS Naturals, Sequences, FiniteSets

CONSTANTS
  N,         \* NUMBER_OF_PARTIES
  Programs,  \* what the program does, see Program
  Worlds,    \* see World
  Stdio      \* how many chunks the buffer of stdout holds

ASSUME NAssumption == N \in Nat \ {0}
ASSUME BoundAssumption == Stdio \in Nat \ {0}

\* Party p runs in process p; the process that was started is that of the last party,
\* the others are its children.
Processes == 0 .. N - 1
Caller == N - 1

\* quiet: the option; compiles: the compiler finds no error; pipes: they can be made;
\* holds: how many chunks a pipe holds; runs: sy_codon_run, not sy_codon_build_exe.
World ==
  [quiet : BOOLEAN, compiles : BOOLEAN, pipes : BOOLEAN, holds : Nat \ {0}, runs : BOOLEAN]

ASSUME WorldsAssumption == Worlds \subseteq World

\* A step of a program: print to stdout or stderr, fork a process for a party, meet the
\* other parties in sync_parties, wait for a child, raise what nobody catches.  A chunk
\* is as much as one write takes.
Streams == {"out", "err"}
PrintTo(s) == [do |-> "print", to |-> s]
Fork(p) == [do |-> "fork", party |-> p]
Sync == [do |-> "sync"]
Wait == [do |-> "wait"]
Raise == [do |-> "raise"]
Steps ==
  {PrintTo(s) : s \in Streams} \cup {Fork(p) : p \in Processes \ {Caller}}
    \cup {Sync, Wait, Raise}

\* main is run by the caller's process, which forks once for each other party at most;
\* a child goes on with the program of its party and does not fork.
Program == [main : Seq(Steps), party : [Processes -> Seq(Steps)]]
ASSUME ProgramsAssumption ==
  \A pr \in Programs :
    /\ pr \in Program
    /\ \A p \in Processes : \A i \in 1 .. Len(pr.party[p]) : pr.party[p][i].do # "fork"
    /\ \A i, j \in 1 .. Len(pr.main) :
         pr.main[i].do = "fork" /\ pr.main[j].do = "fork" /\ pr.main[i].party = pr.main[j].party
           => i = j

VARIABLES
  world, prog,
  stage,     \* stage[p]: where process p is
  todo,      \* todo[p]: the steps of the program it has before it
  fd,        \* fd[p][s]: where its descriptor 1 or 2 leads: terminal, null or a pipe
  extra,     \* extra[p]: its other descriptors, by what they are for
  saved,     \* saved[p]: where the saved descriptors lead, by what they are for
  stdio,     \* stdio[p]: what is in the buffer of stdout
  pipe,      \* pipe[s]: what is in the pipe
  result,    \* result[p]: what it has read from them
  terminal,  \* what has been written to the terminal
  met,       \* the parties that have come to sync_parties
  printed,   \* history, printed[p]: how many chunks it has printed
  copied     \* history: the chunks that were in a buffer when it was copied by fork

files == <<fd, extra, saved>>
data == <<stdio, pipe, result, terminal>>
vars == <<world, prog, stage, todo, files, data, met, printed, copied>>

Compiler == N  \* not a process of the run
Chunks == [by : Processes \cup {Compiler}, n : Nat \ {0}, to : Streams]
Diagnostic == [by |-> Compiler, n |-> 1, to |-> "err"]

Init ==
  /\ world \in Worlds
  /\ prog \in Programs
  /\ stage = [p \in Processes |-> IF p = Caller THEN "called" ELSE "absent"]
  /\ todo = [p \in Processes |-> IF p = Caller THEN prog.main ELSE <<>>]
  /\ fd = [p \in Processes |-> [s \in Streams |-> "terminal"]]
  /\ extra = [p \in Processes |-> {}]
  /\ saved = [p \in Processes |-> [d \in {"saved_fd", "saved_out", "saved_err"} |-> "terminal"]]
  /\ stdio = [p \in Processes |-> <<>>]
  /\ pipe = [s \in Streams |-> <<>>]
  /\ result = [p \in Processes |-> <<>>]
  /\ terminal = <<>>
  /\ met = {}
  /\ printed = [p \in Processes |-> 0]
  /\ copied = {}

Goto(p, s) == stage' = [stage EXCEPT ![p] = s]

\* Process p writes chunk c to its descriptor for s; a full pipe keeps it waiting.
Write(p, s, c) ==
  \/ /\ fd[p][s] = "terminal"
     /\ terminal' = Append(terminal, c)
     /\ UNCHANGED pipe
  \/ /\ fd[p][s] = "null"
     /\ UNCHANGED <<terminal, pipe>>
  \/ \E t \in Streams :
       /\ fd[p][s] = t
       /\ Len(pipe[t]) < world.holds
       /\ pipe' = [pipe EXCEPT ![t] = Append(@, c)]
       /\ UNCHANGED terminal

-----------------------------------------------------------------------------
\* The compiler.

\* StderrSuppressor: with the option quiet, descriptor 2 leads nowhere.
Suppress(p) ==
  /\ stage[p] = "called"
  /\ IF world.quiet
     THEN /\ saved' = [saved EXCEPT ![p].saved_fd = fd[p].err]
          /\ extra' = [extra EXCEPT ![p] = @ \cup {"saved_fd"}]
          /\ fd' = [fd EXCEPT ![p].err = "null"]
     ELSE UNCHANGED files
  /\ Goto(p, "compile")
  /\ UNCHANGED <<world, prog, todo, data, met, printed, copied>>

Restored(p) ==
  IF "saved_fd" \in extra[p]
  THEN /\ fd' = [fd EXCEPT ![p].err = saved[p].saved_fd]
       /\ extra' = [extra EXCEPT ![p] = @ \ {"saved_fd"}]
       /\ UNCHANGED saved
  ELSE UNCHANGED files

\* Mutant: an early return leaves descriptor 2 as it is.
CompileUnrestored(p) ==
  /\ stage[p] = "compile"
  /\ Write(p, "err", Diagnostic)
  /\ Goto(p, IF world.compiles /\ world.runs THEN "compiled" ELSE "returned")
  /\ UNCHANGED <<world, prog, todo, files, stdio, result, met, printed, copied>>

\* load, parseFile, compile: the compiler prints to stderr.  At an error, or with the
\* executable written, the function returns, which restores descriptor 2.
Compile(p) ==
  /\ stage[p] = "compile"
  /\ Write(p, "err", Diagnostic)
  /\ IF world.compiles /\ world.runs
     THEN Goto(p, "compiled") /\ UNCHANGED files
     ELSE Goto(p, "returned") /\ Restored(p)
  /\ UNCHANGED <<world, prog, todo, stdio, result, met, printed, copied>>

Restore(p) ==
  /\ stage[p] = "compiled"
  /\ Restored(p)
  /\ Goto(p, "restored")
  /\ UNCHANGED <<world, prog, todo, data, met, printed, copied>>


-----------------------------------------------------------------------------
\* The capture.

CaptureFds == {"out_r", "out_w", "err_r", "err_w", "saved_out", "saved_err"}
Capturing(p) == "saved_out" \in extra[p]

\* Mutant: stderr is restored after the capture has begun.
StartBeforeRestore(p) ==
  /\ stage[p] = "restored"
  /\ IF world.pipes
     THEN /\ extra' = [extra EXCEPT ![p] = @ \cup CaptureFds]
          /\ fd' = [fd EXCEPT ![p] = [out |-> "out", err |-> IF world.quiet THEN "terminal" ELSE "err"]]
          /\ UNCHANGED saved
     ELSE UNCHANGED files
  /\ Goto(p, "run")
  /\ UNCHANGED <<world, prog, todo, data, met, printed, copied>>

\* Mutant: what is saved is the pipes.
StartSavesPipes(p) ==
  /\ stage[p] = "restored"
  /\ IF world.pipes
     THEN /\ saved' = [saved EXCEPT ![p].saved_out = "out", ![p].saved_err = "err"]
          /\ extra' = [extra EXCEPT ![p] = @ \cup CaptureFds]
          /\ fd' = [fd EXCEPT ![p] = [s \in Streams |-> s]]
     ELSE UNCHANGED files
  /\ Goto(p, "run")
  /\ UNCHANGED <<world, prog, todo, data, met, printed, copied>>

\* capture.start(): pipes in the places of descriptors 1 and 2.  If they cannot be
\* made, the program runs without.
Start(p) ==
  /\ stage[p] = "restored"
  /\ IF world.pipes
     THEN /\ saved' = [saved EXCEPT ![p].saved_out = fd[p].out, ![p].saved_err = fd[p].err]
          /\ extra' = [extra EXCEPT ![p] = @ \cup CaptureFds]
          /\ fd' = [fd EXCEPT ![p] = [s \in Streams |-> s]]
     ELSE UNCHANGED files
  /\ Goto(p, "run")
  /\ UNCHANGED <<world, prog, todo, data, met, printed, copied>>

Does(p, do) == stage[p] = "run" /\ todo[p] # <<>> /\ Head(todo[p]).do = do
Done(p) == todo' = [todo EXCEPT ![p] = Tail(@)]
Chunk(p, s) == [by |-> p, n |-> printed[p] + 1, to |-> s]

\* stdout is buffered, stderr is not.
PrintChunk(p) ==
  LET s == Head(todo[p]).to IN
  /\ Does(p, "print")
  /\ IF s = "out"
     THEN /\ Len(stdio[p]) < Stdio
          /\ stdio' = [stdio EXCEPT ![p] = Append(@, Chunk(p, s))]
          /\ UNCHANGED <<pipe, terminal>>
     ELSE /\ Write(p, s, Chunk(p, s))
          /\ UNCHANGED stdio
  /\ printed' = [printed EXCEPT ![p] = @ + 1]
  /\ Done(p)
  /\ UNCHANGED <<world, prog, stage, files, result, met, copied>>

\* The buffer is written out when it is full, and by fflush in stop.
Flush(p) ==
  /\ \/ Does(p, "print") /\ Len(stdio[p]) = Stdio
     \/ stage[p] = "flush" /\ stdio[p] # <<>>
  /\ Write(p, "out", Head(stdio[p]))
  /\ stdio' = [stdio EXCEPT ![p] = Tail(@)]
  /\ UNCHANGED <<world, prog, stage, todo, files, result, met, printed, copied>>

\* fork_parties: the child has a copy of all its parent has, what is left in the buffer
\* of stdout included.
ForkParty(p) ==
  LET q == Head(todo[p]).party IN
  /\ Does(p, "fork")
  /\ stage' = [stage EXCEPT ![q] = "run"]
  /\ todo' = [todo EXCEPT ![p] = Tail(@), ![q] = prog.party[q]]
  /\ fd' = [fd EXCEPT ![q] = fd[p]]
  /\ extra' = [extra EXCEPT ![q] = extra[p]]
  /\ saved' = [saved EXCEPT ![q] = saved[p]]
  /\ stdio' = [stdio EXCEPT ![q] = stdio[p]]
  /\ copied' = copied \cup {stdio[p][i] : i \in DOMAIN stdio[p]}
  /\ UNCHANGED <<world, prog, pipe, result, terminal, met, printed>>

Ended(p) == stage[p] \in {"exited", "dead"}

\* sync_parties, as all parties meet in it; one that dies before takes the others with
\* it (its connections break).
SyncParties(p) ==
  /\ Does(p, "sync")
  /\ \/ /\ p \notin met
        /\ met' = met \cup {p}
        /\ UNCHANGED todo
     \/ /\ met = Processes
        /\ Done(p)
        /\ UNCHANGED met
     \/ /\ p \in met
        /\ \E q \in Processes \ met : stage[q] = "dead"
        /\ todo' = [todo EXCEPT ![p] = <<Raise>>]
        /\ UNCHANGED met
  /\ UNCHANGED <<world, prog, stage, files, data, printed, copied>>

\* wait: one child that has ended, whichever.
WaitForChild(p) ==
  /\ Does(p, "wait")
  /\ \E q \in Processes \ {p} : Ended(q)
  /\ Done(p)
  /\ UNCHANGED <<world, prog, stage, files, data, met, printed, copied>>

\* An exception that nobody catches is reported on stderr and aborts the process, the
\* caller's too: what is in the buffer is gone, and nobody stops the capture.
RaiseUncaught(p) ==
  /\ Does(p, "raise")
  /\ Write(p, "err", Chunk(p, "err"))
  /\ stdio' = [stdio EXCEPT ![p] = <<>>]
  /\ extra' = [extra EXCEPT ![p] = {}]
  /\ printed' = [printed EXCEPT ![p] = @ + 1]
  /\ Goto(p, "dead")
  /\ UNCHANGED <<world, prog, todo, fd, saved, result, met, copied>>

-----------------------------------------------------------------------------
\* capture.stop().

\* The program has ended; without a capture stop does nothing.
EndProgram(p) ==
  /\ stage[p] = "run" /\ todo[p] = <<>>
  /\ Goto(p, IF Capturing(p) THEN "flush" ELSE "returned")
  /\ UNCHANGED <<world, prog, todo, files, data, met, printed, copied>>

\* The descriptors of the caller are back in place, and the write ends closed.
PutBack(p) ==
  /\ fd' = [fd EXCEPT ![p] = [out |-> saved[p].saved_out, err |-> saved[p].saved_err]]
  /\ extra' = [extra EXCEPT ![p] = @ \ {"saved_out", "saved_err", "out_w", "err_w"}]
  /\ Goto(p, "read_out")
  /\ UNCHANGED <<world, prog, todo, saved, data, met, printed, copied>>

\* Mutant: the buffer is not flushed before.
RestoreFdsUnflushed(p) == stage[p] = "flush" /\ PutBack(p)

RestoreFds(p) == stage[p] = "flush" /\ stdio[p] = <<>> /\ PutBack(p)

Reads(p, s) == stage[p] = (IF s = "out" THEN "read_out" ELSE "read_err")

\* readPipe: until there is nothing in the pipe now.
ReadPipe(p, s) ==
  /\ Reads(p, s)
  /\ pipe[s] # <<>>
  /\ result' = [result EXCEPT ![p] = Append(@, Head(pipe[s]))]
  /\ pipe' = [pipe EXCEPT ![s] = Tail(@)]
  /\ UNCHANGED <<world, prog, stage, todo, files, stdio, terminal, met, printed, copied>>

\* Mutants: the read ends block, so that read returns 0 only when nobody can write; one
\* read is taken for all.
Drained(p, s) ==
  /\ extra' = [extra EXCEPT ![p] = @ \ {IF s = "out" THEN "out_r" ELSE "err_r"}]
  /\ Goto(p, IF s = "out" THEN "read_err" ELSE "returned")
  /\ UNCHANGED <<world, prog, todo, fd, saved, data, met, printed, copied>>

PipeEmptyBlocking(p, s) ==
  /\ Reads(p, s) /\ pipe[s] = <<>>
  /\ \A q \in Processes : "out_w" \notin extra[q]
  /\ Drained(p, s)

PipeEmptyOnce(p, s) == Reads(p, s) /\ Drained(p, s)

PipeEmpty(p, s) == Reads(p, s) /\ pipe[s] = <<>> /\ Drained(p, s)

\* The caller, or its copy in a child, prints the result and exits; what is left in the
\* buffer of stdout goes with it.
Exit(p) ==
  /\ stage[p] = "returned"
  /\ terminal' = terminal \o result[p] \o stdio[p]
  /\ stdio' = [stdio EXCEPT ![p] = <<>>]
  /\ Goto(p, "exited")
  /\ UNCHANGED <<world, prog, todo, files, pipe, result, met, printed, copied>>

Step(p) ==
  \/ Suppress(p) \/ Compile(p) \/ Restore(p) \/ Start(p)
  \/ PrintChunk(p) \/ Flush(p) \/ ForkParty(p) \/ SyncParties(p) \/ WaitForChild(p) \/ RaiseUncaught(p)
  \/ EndProgram(p) \/ RestoreFds(p)
  \/ (\E s \in Streams : ReadPipe(p, s) \/ PipeEmpty(p, s))
  \/ Exit(p)

Next == \E p \in Processes : Step(p)

Spec == Init /\ [][Next]_vars

\* A process runs on whenever it is not blocked.
FairSpec == Spec /\ \A p \in Processes : WF_vars(Step(p))

-----------------------------------------------------------------------------

Stages ==
  {"absent", "called", "compile", "compiled", "restored", "run", "flush", "read_out",
   "read_err", "returned", "exited", "dead"}

TypeOK ==
  /\ world \in Worlds /\ prog \in Programs
  /\ stage \in [Processes -> Stages]
  /\ fd \in [Processes -> [Streams -> {"terminal", "null"} \cup Streams]]
  /\ extra \in [Processes -> SUBSET (CaptureFds \cup {"saved_fd"})]
  /\ saved \in [Processes -> [{"saved_fd", "saved_out", "saved_err"} -> {"terminal"}]]
  /\ stdio \in [Processes -> Seq(Chunks)]
  /\ pipe \in [Streams -> Seq(Chunks)]
  /\ result \in [Processes -> Seq(Chunks)]
  /\ terminal \in Seq(Chunks)
  /\ met \subseteq Processes
  /\ printed \in [Processes -> Nat]
  /\ copied \subseteq Chunks

\* When sy_codon_run returns, by whichever way, in whichever process, stdout and stderr
\* are the caller's again and no descriptor is left open.
CallerRestored ==
  \A p \in Processes : stage[p] \in {"returned", "exited"} =>
    /\ fd[p] = [s \in Streams |-> "terminal"]
    /\ extra[p] = {}

\* The silence is for the compiler alone: while the program runs, each stream goes into
\* its pipe, or where the caller's goes if there are none.
ProgramHeard ==
  \A p \in Processes : stage[p] \in {"run", "flush"} =>
    fd[p] = [s \in Streams |-> IF world.pipes THEN s ELSE "terminal"]

\* What a process has printed has left its buffer and the pipes when it returns, and is
\* in somebody's result, though its siblings may have been writing and reading too.
\* (Its siblings' copies of what was in the buffer at a fork may still come.)
DrainedOnReturn ==
  \A p \in Processes : stage[p] \in {"returned", "exited"} /\ world.pipes =>
    /\ stdio[p] = <<>>
    /\ \A s \in Streams : \A i \in DOMAIN pipe[s] : pipe[s][i].by = p => pipe[s][i] \in copied

\* When all have ended and none has died, each chunk that a party printed has come out
\* once, unless it was in the buffer at a fork: then once for each that had a copy.
Shown(c) == {i \in DOMAIN terminal : terminal[i] = c}
Count(c) == Cardinality(Shown(c))
OutputOnce ==
  (\A p \in Processes : stage[p] \in {"exited", "absent"}) =>
    \A p \in Processes : \A n \in 1 .. printed[p] :
      \E s \in Streams : LET c == [by |-> p, n |-> n, to |-> s] IN
        Count(c) >= 1 /\ (c \notin copied => Count(c) = 1)

\* A program whose output fits the pipes ends, and so does the call: none of its
\* processes waits for another that waits for it to read.  (A party that meets a dead
\* one raises.  With more output than fits nobody reads, and the call may not return.)
Printing(steps, s) ==
  {i \in DOMAIN steps : steps[i] = PrintTo(s) \/ (s = "err" /\ steps[i] \in {Sync, Raise})}
Fits ==
  \A s \in Streams :
    N * Cardinality(Printing(prog.main, s))
      + Cardinality(UNION {{p} \X Printing(prog.party[p], s) : p \in Processes}) <= world.holds
Returns == Fits => <>(\A p \in Processes : stage[p] \in {"exited", "dead", "absent"})

=============================================================================
