-------------------------------- MODULE Launch --------------------------------
(***************************************************************************)
(* The start of a Syqure process (syqure/src/runner.rs and bundle.rs):     *)
(* unpack the bundled assets into the cache directory unless it is there,  *)
(* make the bundled libgmp reachable where the plugin looks for it, run.   *)
(* The parties of a computation are processes of their own, often started  *)
(* together, on one home directory: nothing locks it.                      *)
(***************************************************************************)
EXTENDS Naturals, Sequences, FiniteSets

CONSTANTS
  Processes,  \* the processes that are started, each once
  Archive,    \* the files of the bundle, in the order they are unpacked
  Gmp,        \* the one that is libgmp.so
  Worlds,     \* what the processes may find, see World
  NoFile,     \* no file at a path
  Link        \* a symbolic link to libgmp.so in the cache

Files == {Archive[i] : i \in 1 .. Len(Archive)}

\* together: bound, how many processes are between their start and the program's;
\* unpacked: an earlier process has left the bundle whole; looked: the directory the
\* plugin looks in exists; linkable: it can hold a symbolic link; stops: processes
\* may be killed, or fail.
World ==
  [together : Nat \ {0}, unpacked : BOOLEAN, looked : BOOLEAN, linkable : BOOLEAN,
   stops : BOOLEAN]

\* The archive is of a directory: it has a file once.
ASSUME ArchiveAssumption ==
  /\ Archive \in Seq(Files) /\ Gmp \in Files
  /\ \A i, j \in 1 .. Len(Archive) : Archive[i] = Archive[j] => i = j
ASSUME WorldsAssumption == Worlds \subseteq World

VARIABLES
  world,    \* what the processes find
  cache,    \* cache[f]: file f of the bundle in the cache directory
  target,   \* libgmp.so where the plugin looks: nothing, a link to the cache, a file
  stage,    \* stage[p]: where process p is
  next,     \* next[p]: the file of the archive it unpacks next
  stopped,  \* history: an unpacking or a copy has been cut short
  overlap   \* history: two processes have been starting at a time

history == <<stopped, overlap>>
vars == <<world, cache, target, stage, next, history>>

\* A file that process p created, with all its bytes or not.
File(p, whole) == [by |-> p, whole |-> whole]
Contents == [by : Processes \cup {"earlier"}, whole : BOOLEAN]
ASSUME NamesAssumption == NoFile \notin Contents /\ Link \notin Contents /\ NoFile # Link

Stages ==
  {"new", "check_bundle", "create_file", "fill_file", "check_gmp", "symlink", "create_copy",
   "fill_copy", "ready", "ended"}

Starting(p) == stage[p] \notin {"new", "ready", "ended"}

Init ==
  /\ world \in Worlds
  /\ cache = [f \in Files |-> IF world.unpacked THEN File("earlier", TRUE) ELSE NoFile]
  /\ target = NoFile
  /\ stage = [p \in Processes |-> "new"]
  /\ next = [p \in Processes |-> 1]
  /\ stopped = FALSE
  /\ overlap = FALSE

Goto(p, s) == stage' = [stage EXCEPT ![p] = s]

-----------------------------------------------------------------------------

\* compile_and_maybe_run is called.
Start(p) ==
  /\ stage[p] = "new"
  /\ Cardinality({q \in Processes : Starting(q)}) < world.together
  /\ Goto(p, "check_bundle")
  /\ overlap' = (overlap \/ \E q \in Processes : Starting(q))
  /\ UNCHANGED <<world, cache, target, next, stopped>>

\* Mutant: the assets are unpacked at every start.
CacheExistsNever == FALSE

\* target_dir.exists(): there is a directory once it has its first file.
CacheExists == \E f \in Files : cache[f] # NoFile

CheckBundle(p) ==
  /\ stage[p] = "check_bundle"
  /\ Goto(p, IF CacheExists THEN "check_gmp" ELSE "create_file")
  /\ UNCHANGED <<world, cache, target, next, history>>

\* archive.unpack, file by file.  A file that exists is unlinked first: who has it
\* open goes on writing what nobody finds.
CreateFile(p) ==
  /\ stage[p] = "create_file"
  /\ cache' = [cache EXCEPT ![Archive[next[p]]] = File(p, FALSE)]
  /\ Goto(p, "fill_file")
  /\ UNCHANGED <<world, target, next, history>>

Filled(p) ==
  [cache EXCEPT ![Archive[next[p]]] = IF @ = File(p, FALSE) THEN File(p, TRUE) ELSE @]

\* Mutant: the last file of the archive is left out.
FillFileShort(p) ==
  LET more == next[p] < Len(Archive) - 1 IN
  /\ stage[p] = "fill_file"
  /\ cache' = Filled(p)
  /\ next' = [next EXCEPT ![p] = IF more THEN @ + 1 ELSE @]
  /\ Goto(p, IF more THEN "create_file" ELSE "check_gmp")
  /\ UNCHANGED <<world, target, history>>

FillFile(p) ==
  LET more == next[p] < Len(Archive) IN
  /\ stage[p] = "fill_file"
  /\ cache' = Filled(p)
  /\ next' = [next EXCEPT ![p] = IF more THEN @ + 1 ELSE @]
  /\ Goto(p, IF more THEN "create_file" ELSE "check_gmp")
  /\ UNCHANGED <<world, target, history>>

\* Mutant: a link or file counts whether or not there is one: the fallback always runs.
TargetExistsNever == FALSE

\* target_gmp.exists() follows the link.
TargetExists == target # NoFile /\ (target = Link => cache[Gmp] # NoFile)

\* Mutant: whether the bundle has the library is not looked at.
CheckGmpBlindly(p) ==
  /\ stage[p] = "check_gmp"
  /\ Goto(p, IF ~ world.looked \/ TargetExists THEN "ready" ELSE "symlink")
  /\ UNCHANGED <<world, cache, target, next, history>>

\* Nothing to do if the cache has no library, or there is one where it is looked for.
\* The code goes through several directories, and serves the first that exists and
\* lacks the library; here at most one of them exists.
CheckGmp(p) ==
  /\ stage[p] = "check_gmp"
  /\ Goto(p, IF cache[Gmp] = NoFile \/ ~ world.looked \/ TargetExists THEN "ready" ELSE "symlink")
  /\ UNCHANGED <<world, cache, target, next, history>>

\* symlink fails where there is something already; then a copy is the fallback.
Symlink(p) ==
  /\ stage[p] = "symlink"
  /\ IF world.linkable /\ target = NoFile
     THEN target' = Link /\ Goto(p, "ready")
     ELSE UNCHANGED target /\ Goto(p, "create_copy")
  /\ UNCHANGED <<world, cache, next, history>>

\* fs::copy opens the library to read and its target to write, which truncates it.
\* Through a link the target is the library itself, and nothing is left to copy.
CreateCopy(p) ==
  /\ stage[p] = "create_copy"
  /\ IF target = Link
     THEN cache' = [cache EXCEPT ![Gmp] = File(p, FALSE)] /\ UNCHANGED target
     ELSE target' = File(p, FALSE) /\ UNCHANGED cache
  /\ Goto(p, IF target = Link THEN "ready" ELSE "fill_copy")
  /\ UNCHANGED <<world, next, history>>

\* The copy has what the library had; another process may have truncated it since.
FillCopy(p) ==
  /\ stage[p] = "fill_copy"
  /\ target' = IF target = File(p, FALSE) THEN File(p, cache[Gmp].whole) ELSE target
  /\ Goto(p, "ready")
  /\ UNCHANGED <<world, cache, next, history>>

\* The program has run.
End(p) ==
  /\ stage[p] = "ready"
  /\ Goto(p, "ended")
  /\ UNCHANGED <<world, cache, target, next, history>>

\* The process is killed, or gives up with an error (a full disk).
Stop(p) ==
  /\ world.stops
  /\ Starting(p)
  /\ Goto(p, "ended")
  /\ stopped' = (stopped \/ stage[p] \in {"create_file", "fill_file", "fill_copy"})
  /\ UNCHANGED <<world, cache, target, next, overlap>>

Next ==
  \E p \in Processes :
    \/ Start(p) \/ CheckBundle(p) \/ CreateFile(p) \/ FillFile(p) \/ CheckGmp(p)
    \/ Symlink(p) \/ CreateCopy(p) \/ FillCopy(p) \/ End(p) \/ Stop(p)

Spec == Init /\ [][Next]_vars

-----------------------------------------------------------------------------

\* No process unpacks past the end of the archive ...
Types ==
  /\ world \in Worlds
  /\ cache \in [Files -> Contents \cup {NoFile}]
  /\ target \in Contents \cup {NoFile, Link}
  /\ stage \in [Processes -> Stages]
  /\ next \in [Processes -> 1 .. Len(Archive)]
  /\ stopped \in BOOLEAN /\ overlap \in BOOLEAN

\* ... and none comes to link to, or copy, a library that has not been unpacked, though
\* it may have found the directory of a process that is unpacking, or was killed.
TypeOK ==
  /\ Types
  /\ \A p \in Processes :
       stage[p] \in {"symlink", "create_copy", "fill_copy"} => cache[Gmp] # NoFile

WholeFile(f) == cache[f] # NoFile /\ cache[f].whole

\* A program runs with all assets, and finds the library where it looks for it, when
\* no start has been cut short and none has overlapped with another.
ReadyWhole ==
  \A p \in Processes :
    stage[p] = "ready" /\ ~ stopped /\ ~ overlap =>
      /\ \A f \in Files : WholeFile(f)
      /\ world.looked => target # NoFile /\ (target # Link => target.whole)

\* As long as processes start one at a time, nothing that is whole is written again,
\* whatever is killed: programs that run keep their assets.
WholeStays == [][~ overlap' => \A f \in Files : WholeFile(f) => cache'[f] = cache[f]]_vars

\* Processes that unpack at the same time take files away from each other, but the
\* last to have each leaves it whole: when all have started, all is whole.  (Where
\* there is no directory for the library; see LibraryKept.)
SettledWhole ==
  (\A p \in Processes : ~ Starting(p)) /\ ~ stopped /\ ~ world.looked =>
    \/ \A f \in Files : WholeFile(f)
    \/ \A f \in Files : cache[f] = NoFile

\* The bundled library is only ever linked to or copied: making it available does
\* not damage it, however many processes do so at the same time.
LibraryKept == [][WholeFile(Gmp) => cache'[Gmp] # NoFile /\ cache'[Gmp].whole]_vars

\* ensure_bundle returns the root of unpacked assets, whatever happened before.
UnpackedWhenReturned ==
  \A p \in Processes : stage[p] = "check_gmp" => \A f \in Files : WholeFile(f)

=============================================================================
