--------------------------- MODULE MCOutputCapture ---------------------------
\* Three parties.  Programs that fork, print before and after it, print after the others
\* have ended, or die; and that run in the one process.  Pipes that hold all of it, or
\* two chunks.
EXTENDS OutputCapture

Out == PrintTo("out")
Err == PrintTo("err")
Forks == <<Fork(0), Fork(1)>>
Local(before, last, first, second) ==
  [main |-> before \o Forks \o last \o <<Wait>>,
   party |-> [p \in Processes |-> CASE p = 0 -> first [] p = 1 -> second [] p = 2 -> <<>>]]
Single(steps) == [main |-> steps, party |-> [p \in Processes |-> <<>>]]

MCPrograms ==
  {Local(<<Out>>, <<Sync, Out>>, <<Out, Sync>>, <<Err, Sync, Out, Out>>),
   Local(<<>>, <<Out, Sync>>, <<Out, Raise>>, <<Sync, Out>>),
   Single(<<Out, Err, Out>>),
   Single(<<Out, Out, Err, Raise>>)}

\* The world in which all goes well, and what may differ from it.
Well(quiet) == [quiet |-> quiet, compiles |-> TRUE, pipes |-> TRUE, holds |-> 9, runs |-> TRUE]
MCWorlds ==
  UNION {{Well(q), [Well(q) EXCEPT !.compiles = FALSE], [Well(q) EXCEPT !.runs = FALSE]} : q \in BOOLEAN}
    \cup {[Well(TRUE) EXCEPT !.pipes = FALSE], [Well(TRUE) EXCEPT !.holds = 2]}

=============================================================================
