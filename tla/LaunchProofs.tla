----------------------------- MODULE LaunchProofs -----------------------------
(***************************************************************************)
(* Theorems about Launch, for any number of processes and any archive.     *)
(***************************************************************************)
EXTENDS Launch, TLAPS

LEMMA NextPlace ==
  ASSUME NEW n \in Nat, NEW k \in 1 .. n
  PROVE  /\ k < n => k + 1 \in 1 .. n
         /\ ~ k < n => \A i \in 1 .. n : i <= k
  OBVIOUS

USE ArchiveAssumption, WorldsAssumption, NamesAssumption

Places == 1 .. Len(Archive)

LEMMA ArchiveFacts ==
  /\ Len(Archive) \in Nat \ {0}
  /\ 1 \in Places
  /\ \A i \in Places : Archive[i] \in Files
  /\ \A f \in Files : \E i \in Places : Archive[i] = f
<1>1. Len(Archive) \in Nat
  OBVIOUS
<1>2. \A f \in Files : \E i \in Places : Archive[i] = f
  BY DEF Files, Places
<1>3. \A i \in Places : Archive[i] \in Files
  BY DEF Files, Places
<1>4. \E i \in Places : TRUE
  BY <1>2
<1>5. QED BY <1>1, <1>2, <1>3, <1>4 DEF Places

AllWhole == \A f \in Files : WholeFile(f)
AllNone == \A f \in Files : cache[f] = NoFile

Unpacking(p) == stage[p] \in {"create_file", "fill_file"}
Unpacked(p) == stage[p] \in {"check_gmp", "symlink", "create_copy", "fill_copy", "ready"}

\* Who has not unpacked a file is at the first of them.
FirstInv == \A p \in Processes : stage[p] \in {"new", "check_bundle"} => next[p] = 1

\* Without an overlap a process that is starting is alone ...
AloneInv == ~ overlap => \A p, q \in Processes : Starting(p) /\ Starting(q) => p = q

\* ... and what it is going to write is not there.
SafeInv ==
  ~ overlap => \A p \in Processes :
    /\ stage[p] = "create_file" => \A i \in Places : i >= next[p] => cache[Archive[i]] = NoFile
    /\ stage[p] = "fill_file" => \A i \in Places : i > next[p] => cache[Archive[i]] = NoFile
    /\ stage[p] \in {"symlink", "create_copy"} => target = NoFile

\* If moreover nothing has been cut short, what has been unpacked is whole, and so is
\* the library where it is looked for.
WholeInv ==
  ~ stopped /\ ~ overlap =>
    /\ AllWhole \/ AllNone \/ \E p \in Processes : Unpacking(p)
    /\ \A p \in Processes : Unpacked(p) => AllWhole
    /\ \A p \in Processes : Unpacking(p) =>
         /\ \A q \in Processes : ~ Unpacked(q)
         /\ \A i \in Places : i < next[p] => WholeFile(Archive[i])
    /\ \A p \in Processes : stage[p] = "fill_file" => cache[Archive[next[p]]] = File(p, FALSE)
    /\ \A p \in Processes : stage[p] \in {"symlink", "create_copy", "fill_copy"} =>
         world.looked /\ \A q \in Processes : stage[q] # "ready"
    /\ \A p \in Processes : stage[p] = "fill_copy" => target = File(p, FALSE)
    /\ \/ target \in {NoFile, Link}
       \/ target.whole
       \/ \E p \in Processes : stage[p] = "fill_copy"
    /\ \A p \in Processes : stage[p] = "ready" /\ world.looked => target # NoFile

\* What an unpacking process has created.
Reached(p, i) ==
  \/ stage[p] = "create_file" /\ i < next[p]
  \/ stage[p] = "fill_file" /\ i <= next[p]

\* Processes that unpack at the same time: what is not whole has somebody to fill it,
\* and what is missing has somebody to create it.
Fills(p, f) == stage[p] = "fill_file" /\ Archive[next[p]] = f /\ cache[f] = File(p, FALSE)
HasFiller ==
  \A f \in Files : cache[f] # NoFile /\ ~ cache[f].whole => \E p \in Processes : Fills(p, f)
AllThere == \A f \in Files : cache[f] # NoFile
HasUnpacker == AllNone \/ AllThere \/ \E p \in Processes : Unpacking(p)
ReachedThere == \A p \in Processes, i \in Places : Reached(p, i) => cache[Archive[i]] # NoFile
NoCopies == \A p \in Processes : stage[p] \notin {"symlink", "create_copy", "fill_copy"}

SettleInv ==
  ~ stopped /\ ~ world.looked => HasFiller /\ HasUnpacker /\ ReachedThere /\ NoCopies

\* A process puts in its place only a library that is there.
GmpInv ==
  \A p \in Processes :
    stage[p] \in {"symlink", "create_copy", "fill_copy"} => cache[Gmp] # NoFile

IInv == Types /\ FirstInv /\ GmpInv /\ AloneInv /\ SafeInv /\ WholeInv /\ SettleInv

LEMMA FileFacts ==
  ASSUME NEW p \in Processes
  PROVE  /\ File(p, FALSE) \in Contents /\ File(p, FALSE) # NoFile /\ ~ File(p, FALSE).whole
         /\ File(p, TRUE) \in Contents /\ File(p, TRUE) # NoFile /\ File(p, TRUE).whole
         /\ File(p, FALSE) # File(p, TRUE)
<1>1. File(p, FALSE) \in Contents /\ File(p, TRUE) \in Contents
  BY DEF File, Contents
<1>2. ~ File(p, FALSE).whole /\ File(p, TRUE).whole
  BY DEF File
<1>3. QED BY <1>1, <1>2

LEMMA InitInv == Init => IInv
<1>1. SUFFICES ASSUME Init PROVE IInv
  OBVIOUS
<1>2. /\ File("earlier", TRUE) \in Contents /\ File("earlier", TRUE).whole
      /\ File("earlier", TRUE) # NoFile
  <2>1. File("earlier", TRUE) \in Contents /\ File("earlier", TRUE).whole
    BY DEF File, Contents
  <2>2. QED BY <2>1
<1>3. Types
  BY <1>1, <1>2, ArchiveFacts DEF Init, Types, Stages, Places
<1>4. AllWhole \/ AllNone
  BY <1>1, <1>2 DEF Init, AllWhole, AllNone, WholeFile
<1>5. target = NoFile /\ \A p \in Processes : stage[p] = "new" /\ next[p] = 1 /\ ~ Starting(p)
  BY <1>1 DEF Init, Starting
<1>6. FirstInv /\ GmpInv /\ AloneInv /\ SafeInv
  BY <1>5 DEF FirstInv, GmpInv, AloneInv, SafeInv
<1>7. WholeInv
  BY <1>4, <1>5 DEF WholeInv, Unpacking, Unpacked
<1>8. SettleInv
  <2>1. \A p \in Processes, i \in Places : ~ Reached(p, i)
    BY <1>5 DEF Reached
  <2>2. \A f \in Files : cache[f] # NoFile => cache[f].whole
    BY <1>4 DEF AllWhole, AllNone, WholeFile
  <2>3. AllNone \/ \A f \in Files : cache[f] # NoFile
    BY <1>4 DEF AllWhole, WholeFile
  <2>4. QED
    BY <1>5, <2>1, <2>2, <2>3 DEF SettleInv, HasFiller, HasUnpacker, AllThere, ReachedThere, NoCopies
<1>9. QED BY <1>3, <1>6, <1>7, <1>8 DEF IInv

LEMMA InvImplies == IInv => ReadyWhole /\ SettledWhole
<1>1. SUFFICES ASSUME IInv PROVE ReadyWhole /\ SettledWhole
  OBVIOUS
<1>2. ASSUME NEW p \in Processes, stage[p] = "ready", ~ stopped, ~ overlap
      PROVE  /\ \A f \in Files : WholeFile(f)
             /\ world.looked => target # NoFile /\ (target # Link => target.whole)
  <2>1. AllWhole
    BY <1>1, <1>2 DEF IInv, WholeInv, Unpacked
  <2>2. target \in {NoFile, Link} \/ target.whole
    BY <1>1, <1>2 DEF IInv, WholeInv
  <2>3. world.looked => target # NoFile
    BY <1>1, <1>2 DEF IInv, WholeInv
  <2>4. QED BY <2>1, <2>2, <2>3 DEF AllWhole
<1>3. ASSUME \A p \in Processes : ~ Starting(p), ~ stopped, ~ world.looked
      PROVE  (\A f \in Files : WholeFile(f)) \/ (\A f \in Files : cache[f] = NoFile)
  <2>1. \A f \in Files : cache[f] # NoFile => cache[f].whole
    BY <1>1, <1>3 DEF IInv, SettleInv, HasFiller, Fills, Starting
  <2>2. AllNone \/ AllThere
    BY <1>1, <1>3 DEF IInv, SettleInv, HasUnpacker, Unpacking, Starting
  <2>3. QED BY <2>1, <2>2 DEF AllNone, AllThere, WholeFile
<1>4. QED BY <1>2, <1>3 DEF ReadyWhole, SettledWhole

-----------------------------------------------------------------------------

\* A step of p that puts it at stage s.
LEMMA Moved ==
  ASSUME Types, NEW p \in Processes, NEW s \in Stages, Goto(p, s)
  PROVE  /\ stage' \in [Processes -> Stages] /\ stage'[p] = s
         /\ \A q \in Processes \ {p} : stage'[q] = stage[q]
  BY DEF Types, Goto

\* Who is starting goes on, or ends.
LEMMA AloneKept ==
  ASSUME IInv, NEW p \in Processes, Starting(p),
         \A q \in Processes \ {p} : stage'[q] = stage[q], UNCHANGED overlap
  PROVE  AloneInv'
  BY DEF IInv, AloneInv, Starting

\* A step that leaves the cache as it is, of a process that fills no file and enters no copy.
LEMMA SettleKept ==
  ASSUME IInv, NEW p \in Processes, UNCHANGED <<world, cache, next>>,
         \A q \in Processes \ {p} : stage'[q] = stage[q],
         stopped => stopped',
         stage[p] # "fill_file", stage'[p] \notin {"symlink", "create_copy", "fill_copy", "fill_file"},
         stage'[p] = "create_file" => next[p] = 1,
         stage[p] = "create_file" => stopped'
  PROVE  SettleInv'
<1>1. SUFFICES ASSUME ~ stopped, ~ stopped', ~ world.looked PROVE SettleInv'
  BY DEF SettleInv
<1>2. HasFiller /\ HasUnpacker /\ ReachedThere /\ NoCopies
  BY <1>1 DEF IInv, SettleInv
<1>3. HasFiller'
  <2>1. ASSUME NEW f \in Files, cache'[f] # NoFile, ~ cache'[f].whole
        PROVE  \E q \in Processes : Fills(q, f)'
    <3>1. PICK q \in Processes : Fills(q, f)
      BY <1>2, <2>1 DEF HasFiller
    <3>2. Fills(q, f)'
      BY <3>1 DEF Fills
    <3>3. QED BY <3>2
  <2>2. QED BY <2>1 DEF HasFiller
<1>4. HasUnpacker'
  BY <1>1, <1>2 DEF HasUnpacker, Unpacking, AllNone, AllThere
<1>5. ReachedThere'
  <2>1. ASSUME NEW q \in Processes, NEW i \in Places, Reached(q, i)' PROVE cache'[Archive[i]] # NoFile
    <3>1. q # p
      BY <2>1 DEF Reached, Places
    <3>2. Reached(q, i)
      BY <2>1, <3>1 DEF Reached
    <3>3. QED BY <1>2, <3>2 DEF ReachedThere
  <2>2. QED BY <2>1 DEF ReachedThere
<1>6. NoCopies'
  BY <1>2 DEF NoCopies
<1>7. QED BY <1>3, <1>4, <1>5, <1>6 DEF SettleInv

LEMMA GmpKept ==
  ASSUME IInv, NEW p \in Processes, \A q \in Processes \ {p} : stage'[q] = stage[q],
         \A f \in Files : cache[f] # NoFile => cache'[f] # NoFile,
         stage'[p] \in {"symlink", "create_copy", "fill_copy"} =>
           stage[p] \in {"symlink", "create_copy", "fill_copy"} \/ cache[Gmp] # NoFile
  PROVE  GmpInv'
  BY DEF IInv, GmpInv

LEMMA StartInv == ASSUME IInv, NEW p \in Processes, Start(p) PROVE IInv'
<1>1. /\ Types /\ stage[p] = "new" /\ "check_bundle" \in Stages /\ Goto(p, "check_bundle")
      /\ UNCHANGED <<world, cache, target, next, stopped>>
      /\ overlap' = (overlap \/ \E q \in Processes : Starting(q))
  BY DEF Start, IInv, Stages
<1>2. /\ stage' \in [Processes -> Stages] /\ stage'[p] = "check_bundle"
      /\ \A q \in Processes \ {p} : stage'[q] = stage[q]
  BY <1>1, Moved
<1>3. Types'
  BY <1>1, <1>2 DEF Types
<1>4. FirstInv'
  BY <1>1, <1>2 DEF IInv, FirstInv
<1>5. AloneInv'
  BY <1>1, <1>2 DEF AloneInv, Starting
<1>6. SafeInv'
  BY <1>1, <1>2 DEF IInv, SafeInv
<1>7. WholeInv'
  BY <1>1, <1>2 DEF IInv, WholeInv, Unpacking, Unpacked, AllWhole, AllNone, WholeFile
<1>8. SettleInv'
  BY <1>1, <1>2, SettleKept
<1>9. GmpInv'
  BY <1>1, <1>2, GmpKept
<1>10. QED BY <1>3, <1>4, <1>5, <1>6, <1>7, <1>8, <1>9 DEF IInv

LEMMA CheckBundleInv == ASSUME IInv, NEW p \in Processes, CheckBundle(p) PROVE IInv'
<1> DEFINE to == IF CacheExists THEN "check_gmp" ELSE "create_file"
<1>1. /\ Types /\ stage[p] = "check_bundle" /\ to \in Stages /\ Goto(p, to) /\ Starting(p)
      /\ UNCHANGED <<world, cache, target, next, history>> /\ next[p] = 1
  BY DEF CheckBundle, IInv, FirstInv, Stages, Starting
<1>2. /\ stage' \in [Processes -> Stages] /\ stage'[p] = to
      /\ \A q \in Processes \ {p} : stage'[q] = stage[q]
  BY <1>1, Moved
<1>3. (CacheExists /\ to = "check_gmp") \/ (AllNone /\ ~ CacheExists /\ to = "create_file")
  BY DEF CacheExists, AllNone
<1>4. CacheExists => ~ AllNone
  BY DEF CacheExists, AllNone
<1>5. AllNone => ~ AllWhole
  BY DEF AllNone, AllWhole, WholeFile
<1> HIDE DEF to
<1>6. Types'
  BY <1>1, <1>2 DEF Types, history
<1>7. FirstInv'
  BY <1>1, <1>2, <1>3 DEF IInv, FirstInv
<1>8. AloneInv'
  BY <1>1, <1>2, AloneKept DEF history
<1>9. SafeInv'
  BY <1>1, <1>2, <1>3, ArchiveFacts DEF IInv, SafeInv, AllNone, history
<1>10. WholeInv'
  <2>1. SUFFICES ASSUME ~ stopped, ~ overlap PROVE WholeInv'
    BY <1>1 DEF WholeInv, history
  <2>2. \A q \in Processes : ~ Unpacking(q) /\ stage[q] # "fill_copy"
    BY <1>1, <2>1 DEF IInv, AloneInv, Starting, Unpacking
  <2>3. CASE CacheExists
    BY <1>1, <1>2, <1>3, <1>4, <2>1, <2>2, <2>3
       DEF IInv, WholeInv, Unpacking, Unpacked, AllWhole, AllNone, WholeFile, history
  <2>4. CASE ~ CacheExists
    <3>1. \A q \in Processes : ~ Unpacked(q)
      BY <1>3, <1>5, <2>1, <2>4 DEF IInv, WholeInv
    <3>2. \A q \in Processes : ~ Unpacked(q)'
      BY <1>2, <1>3, <2>4, <3>1 DEF Unpacked
    <3>3. stage'[p] = "create_file" /\ \A q \in Processes \ {p} : ~ Unpacking(q)'
      BY <1>2, <1>3, <2>2, <2>4 DEF Unpacking
    <3>4. \A i \in Places : ~ i < next[p]
      BY <1>1 DEF Places
    <3>5. \A q \in Processes : stage'[q] \notin {"ready", "symlink", "create_copy", "fill_copy"}
      BY <3>2 DEF Unpacked
    <3>6. \A q \in Processes : stage'[q] # "fill_file"
      BY <3>3 DEF Unpacking
    <3>7. target \in {NoFile, Link} \/ target.whole
      BY <2>1, <2>2 DEF IInv, WholeInv
    <3>8. Unpacking(p)'
      BY <3>3 DEF Unpacking
    <3>9. QED BY <1>1, <3>2, <3>3, <3>4, <3>5, <3>6, <3>7, <3>8 DEF WholeInv
  <2>5. QED BY <2>3, <2>4
<1>11. SettleInv'
  BY <1>1, <1>2, <1>3, SettleKept DEF history
<1>12. GmpInv'
  BY <1>1, <1>2, <1>3, GmpKept
<1>13. QED BY <1>6, <1>7, <1>8, <1>9, <1>10, <1>11, <1>12 DEF IInv

LEMMA CreateFileInv == ASSUME IInv, NEW p \in Processes, CreateFile(p) PROVE IInv'
<1>1. /\ Types /\ stage[p] = "create_file" /\ "fill_file" \in Stages /\ Goto(p, "fill_file")
      /\ cache' = [cache EXCEPT ![Archive[next[p]]] = File(p, FALSE)] /\ Starting(p)
      /\ UNCHANGED <<world, target, next, history>>
  BY DEF CreateFile, IInv, Stages, Starting
<1>2. /\ stage' \in [Processes -> Stages] /\ stage'[p] = "fill_file"
      /\ \A q \in Processes \ {p} : stage'[q] = stage[q]
  BY <1>1, Moved
<1>3. next[p] \in Places /\ Archive[next[p]] \in Files
  BY <1>1, ArchiveFacts DEF Types, Places
<1>4. /\ cache'[Archive[next[p]]] = File(p, FALSE)
      /\ \A f \in Files : f # Archive[next[p]] => cache'[f] = cache[f]
  BY <1>1, <1>3 DEF Types
<1>5. \A i \in Places : i # next[p] => cache'[Archive[i]] = cache[Archive[i]]
  BY <1>3, <1>4, ArchiveFacts DEF Places
<1>6. File(p, FALSE) \in Contents /\ File(p, FALSE) # NoFile
  BY FileFacts
<1>7. Types'
  BY <1>1, <1>2, <1>3, <1>6 DEF Types, history
<1>8. FirstInv'
  BY <1>1, <1>2 DEF IInv, FirstInv
<1>9. AloneInv'
  BY <1>1, <1>2, AloneKept DEF history
<1>10. SafeInv'
  <2>1. SUFFICES ASSUME ~ overlap PROVE SafeInv'
    BY <1>1 DEF SafeInv, history
  <2>2. \A q \in Processes \ {p} : ~ Starting(q)
    BY <1>1, <2>1 DEF IInv, AloneInv
  <2>3. \A q \in Processes \ {p} : stage'[q] \notin {"create_file", "fill_file", "symlink", "create_copy"}
    BY <1>2, <2>2 DEF Starting
  <2>4. ASSUME NEW i \in Places, i > next[p] PROVE cache'[Archive[i]] = NoFile
    <3>1. i >= next[p] /\ i # next[p]
      BY <1>3, <2>4 DEF Places
    <3>2. QED BY <1>1, <1>5, <2>1, <3>1 DEF IInv, SafeInv
  <2>5. QED BY <1>1, <1>2, <2>3, <2>4 DEF SafeInv
<1>11. WholeInv'
  <2>1. SUFFICES ASSUME ~ stopped, ~ overlap PROVE WholeInv'
    BY <1>1 DEF WholeInv, history
  <2>2. \A q \in Processes \ {p} : ~ Starting(q)
    BY <1>1, <2>1 DEF IInv, AloneInv
  <2>3. \A q \in Processes : ~ Unpacked(q)
    BY <1>1, <2>1 DEF IInv, WholeInv, Unpacking
  <2>4. \A q \in Processes : ~ Unpacked(q)'
    BY <1>2, <2>3 DEF Unpacked
  <2>5. \A q \in Processes : stage'[q] \notin {"ready", "symlink", "create_copy", "fill_copy"}
    BY <2>4 DEF Unpacked
  <2>6. \A q \in Processes \ {p} : ~ Unpacking(q)' /\ stage'[q] # "fill_file"
    BY <1>2, <2>2 DEF Unpacking, Starting
  <2>7. ASSUME NEW i \in Places, i < next[p] PROVE WholeFile(Archive[i])'
    <3>1. WholeFile(Archive[i])
      BY <1>1, <2>1, <2>7 DEF IInv, WholeInv, Unpacking
    <3>2. i # next[p]
      BY <1>3, <2>7 DEF Places
    <3>3. QED BY <1>5, <3>1, <3>2 DEF WholeFile
  <2>8. target \in {NoFile, Link} \/ target.whole
    BY <2>1, <2>3 DEF IInv, WholeInv, Unpacked
  <2>9. Unpacking(p)'
    BY <1>2 DEF Unpacking
  <2>10. QED BY <1>1, <1>2, <1>4, <2>4, <2>5, <2>6, <2>7, <2>8, <2>9 DEF WholeInv, WholeFile
<1>12. SettleInv'
  <2>1. SUFFICES ASSUME ~ stopped, ~ world.looked PROVE SettleInv'
    BY <1>1 DEF SettleInv, history
  <2>2. HasFiller /\ ReachedThere /\ NoCopies
    BY <2>1 DEF IInv, SettleInv
  <2>3. ASSUME NEW f \in Files, cache'[f] # NoFile, ~ cache'[f].whole
        PROVE  \E q \in Processes : Fills(q, f)'
    <3>1. CASE f = Archive[next[p]]
      BY <1>1, <1>2, <1>4, <3>1 DEF Fills
    <3>2. CASE f # Archive[next[p]]
      <4>1. cache'[f] = cache[f]
        BY <1>4, <3>2
      <4>2. PICK q \in Processes : Fills(q, f)
        BY <2>2, <2>3, <4>1 DEF HasFiller
      <4>3. Fills(q, f)'
        BY <1>1, <1>2, <4>1, <4>2 DEF Fills
      <4>4. QED BY <4>3
    <3>3. QED BY <3>1, <3>2
  <2>4. \A f \in Files : cache[f] # NoFile => cache'[f] # NoFile
    BY <1>4, <1>6
  <2>5. Unpacking(p)'
    BY <1>2 DEF Unpacking
  <2>6. ASSUME NEW q \in Processes, NEW i \in Places, Reached(q, i)' PROVE cache'[Archive[i]] # NoFile
    <3>1. CASE q = p /\ i = next[p]
      BY <1>4, <1>6, <3>1
    <3>2. CASE q # p \/ i # next[p]
      <4>1. Reached(q, i)
        BY <1>1, <1>2, <1>3, <2>6, <3>2 DEF Reached, Places
      <4>2. QED BY <2>2, <2>4, <4>1, ArchiveFacts DEF ReachedThere
    <3>3. QED BY <3>1, <3>2
  <2>7. NoCopies'
    BY <1>2, <2>2 DEF NoCopies
  <2>8. QED BY <2>3, <2>5, <2>6, <2>7 DEF SettleInv, HasFiller, HasUnpacker, ReachedThere
<1>13. GmpInv'
  BY <1>2, <1>4, <1>6, GmpKept
<1>14. QED BY <1>7, <1>8, <1>9, <1>10, <1>11, <1>12, <1>13 DEF IInv

LEMMA FillFileInv == ASSUME IInv, NEW p \in Processes, FillFile(p) PROVE IInv'
<1> DEFINE more == next[p] < Len(Archive)
           to == IF more THEN "create_file" ELSE "check_gmp"
<1>1. /\ Types /\ stage[p] = "fill_file" /\ to \in Stages /\ Goto(p, to) /\ Starting(p)
      /\ cache' = Filled(p)
      /\ next' = [next EXCEPT ![p] = IF more THEN next[p] + 1 ELSE next[p]]
      /\ UNCHANGED <<world, target, history>>
  BY DEF FillFile, IInv, Stages, Starting
<1>2. /\ stage' \in [Processes -> Stages] /\ stage'[p] = to
      /\ \A q \in Processes \ {p} : stage'[q] = stage[q]
  BY <1>1, Moved
<1>3. next[p] \in Places /\ Archive[next[p]] \in Files
  BY <1>1, ArchiveFacts DEF Types, Places
<1>4. /\ next' \in [Processes -> Places]
      /\ \A q \in Processes \ {p} : next'[q] = next[q]
      /\ \/ to = "create_file" /\ next'[p] = next[p] + 1 /\ next'[p] \in Places
         \/ to = "check_gmp" /\ \A i \in Places : i <= next[p]
  <2>0. /\ more => next[p] + 1 \in Places
        /\ ~ more => \A i \in Places : i <= next[p]
    BY <1>3, ArchiveFacts, NextPlace DEF Places
  <2>1. CASE more
    BY <1>1, <2>0, <2>1 DEF Types, Places
  <2>2. CASE ~ more
    BY <1>1, <2>0, <2>2 DEF Types, Places
  <2>3. QED BY <2>1, <2>2
<1>5. /\ \A f \in Files : f # Archive[next[p]] => cache'[f] = cache[f]
      /\ cache'[Archive[next[p]]] =
           IF cache[Archive[next[p]]] = File(p, FALSE) THEN File(p, TRUE) ELSE cache[Archive[next[p]]]
      /\ cache' \in [Files -> Contents \cup {NoFile}]
  BY <1>1, <1>3, FileFacts DEF Types, Filled
<1>6. \A f \in Files :
        /\ cache'[f] # NoFile <=> cache[f] # NoFile
        /\ WholeFile(f) => cache'[f] = cache[f]
  <2>1. /\ File(p, FALSE) # NoFile /\ ~ File(p, FALSE).whole
        /\ File(p, TRUE) # NoFile
    BY FileFacts
  <2>2. TAKE f \in Files
  <2>3. \/ cache'[f] = cache[f]
        \/ cache[f] = File(p, FALSE) /\ cache'[f] = File(p, TRUE)
    BY <1>5
  <2>4. CASE cache'[f] = cache[f]
    BY <2>4
  <2>5. CASE cache[f] = File(p, FALSE) /\ cache'[f] = File(p, TRUE)
    <3>1. cache[f] # NoFile /\ cache'[f] # NoFile /\ ~ cache[f].whole
      BY <2>1, <2>5
    <3>2. QED BY <3>1 DEF WholeFile
  <2>6. QED BY <2>3, <2>4, <2>5
<1> HIDE DEF more, to
<1>7. Types'
  BY <1>1, <1>2, <1>4, <1>5 DEF Types, history, Places
<1>8. FirstInv'
  BY <1>2, <1>4 DEF IInv, FirstInv
<1>9. AloneInv'
  BY <1>1, <1>2, AloneKept DEF history
<1>10. SafeInv'
  <2>1. SUFFICES ASSUME ~ overlap PROVE SafeInv'
    BY <1>1 DEF SafeInv, history
  <2>2. \A q \in Processes \ {p} : stage'[q] \notin {"create_file", "fill_file", "symlink", "create_copy"}
    BY <1>1, <1>2, <2>1 DEF IInv, AloneInv, Starting
  <2>3. ASSUME stage'[p] = "create_file", NEW i \in Places, i >= next'[p]
        PROVE  cache'[Archive[i]] = NoFile
    <3>1. i > next[p]
      BY <1>2, <1>3, <1>4, <2>3 DEF Places
    <3>2. cache[Archive[i]] = NoFile
      BY <1>1, <2>1, <3>1 DEF IInv, SafeInv
    <3>3. QED BY <1>6, <3>2, ArchiveFacts
  <2>4. QED BY <1>2, <1>4, <2>2, <2>3 DEF SafeInv
<1>11. WholeInv'
  <2>1. SUFFICES ASSUME ~ stopped, ~ overlap PROVE WholeInv'
    BY <1>1 DEF WholeInv, history
  <2>2. \A q \in Processes \ {p} : ~ Starting(q)
    BY <1>1, <2>1 DEF IInv, AloneInv
  <2>3. \A q \in Processes : ~ Unpacked(q)
    BY <1>1, <2>1 DEF IInv, WholeInv, Unpacking
  <2>4. \A q \in Processes \ {p} : ~ Unpacked(q)' /\ ~ Unpacking(q)' /\ stage'[q] # "fill_file"
    BY <1>2, <2>2, <2>3 DEF Unpacked, Unpacking, Starting
  <2>5. target \in {NoFile, Link} \/ target.whole
    BY <2>1, <2>3 DEF IInv, WholeInv, Unpacked
  <2>6. \A i \in Places : i <= next[p] => WholeFile(Archive[i])'
    <3>1. ASSUME NEW i \in Places, i < next[p] PROVE WholeFile(Archive[i])'
      <4>1. WholeFile(Archive[i])
        BY <1>1, <2>1, <3>1 DEF IInv, WholeInv, Unpacking
      <4>2. QED BY <1>6, <4>1, ArchiveFacts DEF WholeFile
    <3>2. ASSUME NEW i \in Places, i = next[p] PROVE WholeFile(Archive[i])'
      <4>1. cache[Archive[i]] = File(p, FALSE)
        BY <1>1, <2>1, <3>2 DEF IInv, WholeInv
      <4>2. cache'[Archive[i]] = File(p, TRUE)
        BY <1>5, <3>2, <4>1
      <4>3. QED BY <4>2, FileFacts DEF WholeFile
    <3>3. QED BY <1>3, <3>1, <3>2 DEF Places
  <2>7. \A q \in Processes : stage'[q] \notin {"symlink", "create_copy", "fill_copy", "ready"}
    BY <1>2, <1>4, <2>4 DEF Unpacked
  <2>8. CASE to = "create_file"
    <3>1. Unpacking(p)' /\ ~ Unpacked(p)' /\ next'[p] = next[p] + 1
      BY <1>2, <1>4, <2>8 DEF Unpacking, Unpacked
    <3>2. \A i \in Places : i < next'[p] => WholeFile(Archive[i])'
      BY <1>3, <2>6, <3>1 DEF Places
    <3>3. stage'[p] # "fill_file"
      BY <1>2, <2>8
    <3>4. QED BY <1>1, <2>4, <2>5, <2>7, <3>1, <3>2, <3>3 DEF WholeInv
  <2>9. CASE to = "check_gmp"
    <3>1. AllWhole'
      BY <1>4, <2>6, <2>9, ArchiveFacts DEF AllWhole
    <3>2. ~ Unpacking(p)' /\ stage'[p] # "fill_file"
      BY <1>2, <2>9 DEF Unpacking
    <3>3. QED BY <1>1, <2>4, <2>5, <2>7, <3>1, <3>2 DEF WholeInv
  <2>10. QED BY <1>4, <2>8, <2>9
<1>12. SettleInv'
  <2>1. SUFFICES ASSUME ~ stopped, ~ world.looked PROVE SettleInv'
    BY <1>1 DEF SettleInv, history
  <2>2. HasFiller /\ ReachedThere /\ NoCopies
    BY <2>1 DEF IInv, SettleInv
  <2>3. ASSUME NEW f \in Files, cache'[f] # NoFile, ~ cache'[f].whole
        PROVE  \E q \in Processes : Fills(q, f)'
    <3>1. cache'[f] = cache[f]
      BY <1>5, <2>3, FileFacts
    <3>2. PICK q \in Processes : Fills(q, f)
      BY <2>2, <2>3, <3>1 DEF HasFiller
    <3>3. q # p
      BY <1>5, <2>3, <3>1, <3>2, FileFacts DEF Fills
    <3>4. Fills(q, f)'
      BY <1>2, <1>4, <3>1, <3>2, <3>3 DEF Fills
    <3>5. QED BY <3>4
  <2>4. ASSUME NEW q \in Processes, NEW i \in Places, Reached(q, i)' PROVE cache'[Archive[i]] # NoFile
    <3>1. Reached(q, i)
      BY <1>1, <1>2, <1>3, <1>4, <2>4 DEF Reached, Places
    <3>2. QED BY <1>6, <2>2, <3>1, ArchiveFacts DEF ReachedThere
  <2>5. NoCopies'
    BY <1>2, <1>4, <2>2 DEF NoCopies
  <2>6. HasUnpacker'
    <3>1. CASE to = "create_file"
      BY <1>2, <3>1 DEF HasUnpacker, Unpacking
    <3>2. CASE to = "check_gmp"
      <4>1. \A i \in Places : Reached(p, i)
        BY <1>1, <1>4, <3>2 DEF Reached
      <4>2. \A f \in Files : cache[f] # NoFile
        BY <2>2, <4>1, ArchiveFacts DEF ReachedThere
      <4>3. QED BY <1>6, <4>2 DEF HasUnpacker, AllThere
    <3>3. QED BY <1>4, <3>1, <3>2
  <2>7. QED BY <2>3, <2>4, <2>5, <2>6 DEF SettleInv, HasFiller, ReachedThere
<1>13. GmpInv'
  BY <1>2, <1>4, <1>6, GmpKept
<1>14. QED BY <1>7, <1>8, <1>9, <1>10, <1>11, <1>12, <1>13 DEF IInv

LEMMA CheckGmpInv == ASSUME IInv, NEW p \in Processes, CheckGmp(p) PROVE IInv'
<1> DEFINE to == IF cache[Gmp] = NoFile \/ ~ world.looked \/ TargetExists THEN "ready" ELSE "symlink"
<1>1. /\ Types /\ stage[p] = "check_gmp" /\ to \in Stages /\ Goto(p, to) /\ Starting(p)
      /\ UNCHANGED <<world, cache, target, next, history>>
  BY DEF CheckGmp, IInv, Stages, Starting
<1>2. /\ stage' \in [Processes -> Stages] /\ stage'[p] = to
      /\ \A q \in Processes \ {p} : stage'[q] = stage[q]
  BY <1>1, Moved
<1>3. \/ to = "ready" /\ (cache[Gmp] = NoFile \/ ~ world.looked \/ target # NoFile)
      \/ to = "symlink" /\ world.looked /\ target = NoFile /\ cache[Gmp] # NoFile
  BY DEF TargetExists
<1> HIDE DEF to
<1>4. Types'
  BY <1>1, <1>2 DEF Types, history
<1>5. FirstInv'
  BY <1>1, <1>2, <1>3 DEF IInv, FirstInv
<1>6. AloneInv'
  BY <1>1, <1>2, AloneKept DEF history
<1>7. SafeInv'
  BY <1>1, <1>2, <1>3 DEF IInv, SafeInv, history
<1>8. WholeInv'
  <2>1. SUFFICES ASSUME ~ stopped, ~ overlap PROVE WholeInv'
    BY <1>1 DEF WholeInv, history
  <2>2. \A q \in Processes \ {p} : ~ Starting(q)
    BY <1>1, <2>1 DEF IInv, AloneInv
  <2>3. AllWhole
    BY <1>1, <2>1 DEF IInv, WholeInv, Unpacked
  <2>4. AllWhole'
    BY <1>1, <2>3 DEF AllWhole, WholeFile
  <2>5. \A q \in Processes : ~ Unpacking(q)' /\ stage'[q] \notin {"fill_file", "create_copy", "fill_copy"}
    BY <1>2, <1>3, <2>2 DEF Unpacking, Starting
  <2>6. \A q \in Processes : stage[q] # "fill_copy"
    BY <1>1, <2>2 DEF Starting
  <2>7. target \in {NoFile, Link} \/ target.whole
    BY <2>1, <2>6 DEF IInv, WholeInv
  <2>8. \A q \in Processes : stage[q] = "ready" /\ world.looked => target # NoFile
    BY <2>1 DEF IInv, WholeInv
  <2>9. CASE to = "ready"
    <3>1. world.looked => target # NoFile
      BY <1>3, <2>3, <2>9 DEF AllWhole, WholeFile
    <3>2. \A q \in Processes : stage'[q] # "symlink"
      BY <1>2, <2>2, <2>9 DEF Starting
    <3>3. QED BY <1>1, <1>2, <2>4, <2>5, <2>7, <2>8, <3>1, <3>2 DEF WholeInv
  <2>10. CASE to = "symlink"
    <3>1. \A q \in Processes : stage'[q] # "ready"
      BY <1>2, <1>3, <2>8, <2>10
    <3>2. QED BY <1>1, <1>3, <2>4, <2>5, <2>7, <2>10, <3>1 DEF WholeInv
  <2>11. QED BY <1>3, <2>9, <2>10
<1>9. SettleInv'
  <2>1. CASE to = "ready"
    BY <1>1, <1>2, <2>1, SettleKept DEF history
  <2>2. CASE to = "symlink"
    BY <1>1, <1>3, <2>2 DEF SettleInv
  <2>3. QED BY <1>3, <2>1, <2>2
<1>10. GmpInv'
  BY <1>1, <1>2, <1>3, GmpKept
<1>11. QED BY <1>4, <1>5, <1>6, <1>7, <1>8, <1>9, <1>10 DEF IInv

\* Where the library is put in its place nobody else is starting, or SettleInv and
\* WholeInv say nothing.
LEMMA PutFacts ==
  ASSUME IInv, NEW p \in Processes, stage[p] \in {"symlink", "create_copy", "fill_copy"}
  PROVE  /\ ~ stopped => world.looked
         /\ ~ overlap => \A q \in Processes \ {p} : ~ Starting(q)
         /\ ~ overlap /\ stage[p] # "fill_copy" => target = NoFile
         /\ ~ stopped /\ ~ overlap =>
              AllWhole /\ \A q \in Processes : stage[q] # "ready"
<1>1. Starting(p)
  BY DEF Starting
<1>2. Unpacked(p)
  BY DEF Unpacked
<1>3. ~ stopped => world.looked
  BY DEF IInv, SettleInv, NoCopies
<1>4. ~ overlap => \A q \in Processes \ {p} : ~ Starting(q)
  BY <1>1 DEF IInv, AloneInv
<1>5. ~ overlap /\ stage[p] # "fill_copy" => target = NoFile
  BY DEF IInv, SafeInv
<1>6. ~ stopped /\ ~ overlap => AllWhole /\ \A q \in Processes : stage[q] # "ready"
  BY <1>2 DEF IInv, WholeInv
<1>7. QED BY <1>3, <1>4, <1>5, <1>6

\* p, alone, is at or past the library: what WholeInv asks of it.
LEMMA WholeKept ==
  ASSUME IInv, NEW p \in Processes, stage[p] \in {"symlink", "create_copy", "fill_copy"},
         ~ stopped, ~ overlap, UNCHANGED <<world, cache>>,
         \A q \in Processes \ {p} : stage'[q] = stage[q],
         \/ stage'[p] = "ready" /\ target' # NoFile /\ (target' = Link \/ target'.whole)
         \/ stage'[p] = "create_copy" /\ target' = NoFile
         \/ stage'[p] = "fill_copy" /\ target' = File(p, FALSE)
  PROVE  WholeInv'
<1>1. /\ AllWhole /\ world.looked
      /\ \A q \in Processes \ {p} : ~ Starting(q) /\ stage'[q] = stage[q]
      /\ \A q \in Processes : stage[q] # "ready"
  BY PutFacts
<1>2. AllWhole'
  BY <1>1 DEF AllWhole, WholeFile
<1>3. \A q \in Processes : ~ Unpacking(q)' /\ stage'[q] # "fill_file"
  BY <1>1 DEF Unpacking, Starting
<1>4. \A q \in Processes \ {p} : stage'[q] \notin {"symlink", "create_copy", "fill_copy", "ready"}
  BY <1>1 DEF Starting
<1>5. QED BY <1>1, <1>2, <1>3, <1>4 DEF WholeInv

LEMMA SymlinkInv == ASSUME IInv, NEW p \in Processes, Symlink(p) PROVE IInv'
<1> DEFINE linked == world.linkable /\ target = NoFile
           to == IF linked THEN "ready" ELSE "create_copy"
<1>1. /\ Types /\ stage[p] = "symlink" /\ to \in Stages /\ Goto(p, to) /\ Starting(p)
      /\ target' = IF linked THEN Link ELSE target
      /\ UNCHANGED <<world, cache, next, history>>
  BY DEF Symlink, IInv, Stages, Starting
<1>2. /\ stage' \in [Processes -> Stages] /\ stage'[p] = to
      /\ \A q \in Processes \ {p} : stage'[q] = stage[q]
  BY <1>1, Moved
<1>3. \/ to = "ready" /\ target' = Link
      \/ to = "create_copy" /\ target' = target
  BY <1>1
<1> HIDE DEF linked, to
<1>4. Types'
  BY <1>1, <1>2, <1>3 DEF Types, history
<1>5. FirstInv'
  BY <1>1, <1>2, <1>3 DEF IInv, FirstInv
<1>6. AloneInv'
  BY <1>1, <1>2, AloneKept DEF history
<1>7. SafeInv'
  <2>1. SUFFICES ASSUME ~ overlap PROVE SafeInv'
    BY <1>1 DEF SafeInv, history
  <2>2. target = NoFile /\ \A q \in Processes \ {p} : ~ Starting(q)
    BY <1>1, <2>1, PutFacts
  <2>3. QED BY <1>2, <1>3, <2>2 DEF SafeInv, Starting
<1>8. WholeInv'
  <2>1. SUFFICES ASSUME ~ stopped, ~ overlap PROVE WholeInv'
    BY <1>1 DEF WholeInv, history
  <2>2. target = NoFile
    BY <1>1, <2>1, PutFacts
  <2>3. QED BY <1>1, <1>2, <1>3, <2>1, <2>2, WholeKept
<1>9. SettleInv'
  BY <1>1, PutFacts DEF SettleInv, history
<1>10. GmpInv'
  BY <1>1, <1>2, GmpKept
<1>11. QED BY <1>4, <1>5, <1>6, <1>7, <1>8, <1>9, <1>10 DEF IInv

LEMMA CreateCopyInv == ASSUME IInv, NEW p \in Processes, CreateCopy(p) PROVE IInv'
<1> DEFINE to == IF target = Link THEN "ready" ELSE "fill_copy"
<1>1. /\ Types /\ stage[p] = "create_copy" /\ to \in Stages /\ Goto(p, to) /\ Starting(p)
      /\ UNCHANGED <<world, next, history>>
  BY DEF CreateCopy, IInv, Stages, Starting
<1>2. /\ stage' \in [Processes -> Stages] /\ stage'[p] = to
      /\ \A q \in Processes \ {p} : stage'[q] = stage[q]
  BY <1>1, Moved
<1>3. \/ /\ target = Link /\ to = "ready" /\ UNCHANGED target
         /\ cache' = [cache EXCEPT ![Gmp] = File(p, FALSE)]
      \/ /\ target # Link /\ to = "fill_copy" /\ UNCHANGED cache
         /\ target' = File(p, FALSE)
  BY DEF CreateCopy
<1> HIDE DEF to
<1>4. Types'
  BY <1>1, <1>2, <1>3, FileFacts DEF Types, history
<1>5. FirstInv'
  BY <1>1, <1>2, <1>3 DEF IInv, FirstInv
<1>6. AloneInv'
  BY <1>1, <1>2, AloneKept DEF history
<1>7. SafeInv'
  <2>1. SUFFICES ASSUME ~ overlap PROVE SafeInv'
    BY <1>1 DEF SafeInv, history
  <2>2. \A q \in Processes \ {p} : ~ Starting(q)
    BY <1>1, <2>1, PutFacts
  <2>3. QED BY <1>2, <1>3, <2>2 DEF SafeInv, Starting
<1>8. WholeInv'
  <2>1. SUFFICES ASSUME ~ stopped, ~ overlap PROVE WholeInv'
    BY <1>1 DEF WholeInv, history
  <2>2. target # Link
    BY <1>1, <2>1, PutFacts
  <2>3. QED BY <1>1, <1>2, <1>3, <2>1, <2>2, WholeKept
<1>9. SettleInv'
  BY <1>1, PutFacts DEF SettleInv, history
<1>10. GmpInv'
  BY <1>1, <1>2, <1>3, FileFacts, GmpKept DEF Types
<1>11. QED BY <1>4, <1>5, <1>6, <1>7, <1>8, <1>9, <1>10 DEF IInv

LEMMA FillCopyInv == ASSUME IInv, NEW p \in Processes, FillCopy(p) PROVE IInv'
<1>1. /\ Types /\ stage[p] = "fill_copy" /\ "ready" \in Stages /\ Goto(p, "ready") /\ Starting(p)
      /\ target' = IF target = File(p, FALSE) THEN File(p, cache[Gmp].whole) ELSE target
      /\ UNCHANGED <<world, cache, next, history>>
  BY DEF FillCopy, IInv, Stages, Starting
<1>2. /\ stage' \in [Processes -> Stages] /\ stage'[p] = "ready"
      /\ \A q \in Processes \ {p} : stage'[q] = stage[q]
  BY <1>1, Moved
<1>3. Types'
  <2>1. cache[Gmp].whole \in BOOLEAN
    BY <1>1 DEF IInv, GmpInv, Types, Contents
  <2>2. target' \in Contents \cup {NoFile, Link}
    BY <1>1, <2>1, FileFacts DEF Types
  <2>3. QED BY <1>1, <1>2, <2>2 DEF Types, history
<1>4. FirstInv'
  BY <1>1, <1>2 DEF IInv, FirstInv
<1>5. AloneInv'
  BY <1>1, <1>2, AloneKept DEF history
<1>6. SafeInv'
  <2>1. SUFFICES ASSUME ~ overlap PROVE SafeInv'
    BY <1>1 DEF SafeInv, history
  <2>2. \A q \in Processes \ {p} : ~ Starting(q)
    BY <1>1, <2>1, PutFacts
  <2>3. QED BY <1>2, <2>2 DEF SafeInv, Starting
<1>7. WholeInv'
  <2>1. SUFFICES ASSUME ~ stopped, ~ overlap PROVE WholeInv'
    BY <1>1 DEF WholeInv, history
  <2>2. target = File(p, FALSE)
    BY <1>1, <2>1 DEF IInv, WholeInv
  <2>3. cache[Gmp].whole = TRUE
    <3>1. WholeFile(Gmp)
      BY <1>1, <2>1, PutFacts DEF AllWhole
    <3>2. cache[Gmp] \in Contents
      BY <1>1, <3>1 DEF Types, WholeFile
    <3>3. QED BY <3>1, <3>2 DEF WholeFile, Contents
  <2>4. target' = File(p, TRUE)
    BY <1>1, <2>2, <2>3
  <2>5. target' # NoFile /\ target'.whole
    BY <2>4, FileFacts
  <2>6. QED BY <1>1, <1>2, <2>1, <2>5, WholeKept
<1>8. SettleInv'
  BY <1>1, PutFacts DEF SettleInv, history
<1>9. GmpInv'
  BY <1>1, <1>2, GmpKept
<1>10. QED BY <1>3, <1>4, <1>5, <1>6, <1>7, <1>8, <1>9 DEF IInv

LEMMA EndInv == ASSUME IInv, NEW p \in Processes, End(p) PROVE IInv'
<1>1. /\ Types /\ stage[p] = "ready" /\ "ended" \in Stages /\ Goto(p, "ended")
      /\ UNCHANGED <<world, cache, target, next, history>>
  BY DEF End, IInv, Stages
<1>2. /\ stage' \in [Processes -> Stages] /\ stage'[p] = "ended"
      /\ \A q \in Processes \ {p} : stage'[q] = stage[q]
  BY <1>1, Moved
<1>3. Types'
  BY <1>1, <1>2 DEF Types, history
<1>4. FirstInv'
  BY <1>1, <1>2 DEF IInv, FirstInv
<1>5. AloneInv'
  BY <1>1, <1>2 DEF IInv, AloneInv, Starting, history
<1>6. SafeInv'
  BY <1>1, <1>2 DEF IInv, SafeInv, history
<1>7. WholeInv'
  BY <1>1, <1>2
     DEF IInv, WholeInv, Unpacking, Unpacked, AllWhole, AllNone, WholeFile, history
<1>8. SettleInv'
  BY <1>1, <1>2, SettleKept DEF history
<1>9. GmpInv'
  BY <1>1, <1>2, GmpKept
<1>10. QED BY <1>3, <1>4, <1>5, <1>6, <1>7, <1>8, <1>9 DEF IInv

LEMMA StopInv == ASSUME IInv, NEW p \in Processes, Stop(p) PROVE IInv'
<1>1. /\ Types /\ Starting(p) /\ "ended" \in Stages /\ Goto(p, "ended")
      /\ stopped' = (stopped \/ stage[p] \in {"create_file", "fill_file", "fill_copy"})
      /\ UNCHANGED <<world, cache, target, next, overlap>>
  BY DEF Stop, IInv, Stages
<1>2. /\ stage' \in [Processes -> Stages] /\ stage'[p] = "ended"
      /\ \A q \in Processes \ {p} : stage'[q] = stage[q]
  BY <1>1, Moved
<1>3. Types'
  BY <1>1, <1>2 DEF Types
<1>4. FirstInv'
  BY <1>1, <1>2 DEF IInv, FirstInv
<1>5. AloneInv'
  BY <1>1, <1>2, AloneKept
<1>6. SafeInv'
  BY <1>1, <1>2 DEF IInv, SafeInv
<1>7. WholeInv'
  <2>1. CASE stopped'
    BY <2>1 DEF WholeInv
  <2>2. CASE ~ stopped'
    <3>1. ~ stopped /\ stage[p] \notin {"create_file", "fill_file", "fill_copy"}
      BY <1>1, <2>2
    <3>2. QED
      BY <1>1, <1>2, <3>1
         DEF IInv, WholeInv, Unpacking, Unpacked, AllWhole, AllNone, WholeFile
  <2>3. QED BY <2>1, <2>2
<1>8. SettleInv'
  <2>1. CASE stopped'
    BY <2>1 DEF SettleInv
  <2>2. CASE ~ stopped'
    <3>1. ~ stopped /\ stage[p] \notin {"create_file", "fill_file", "fill_copy"}
      BY <1>1, <2>2
    <3>2. QED BY <1>1, <1>2, <3>1, SettleKept
  <2>3. QED BY <2>1, <2>2
<1>9. GmpInv'
  BY <1>1, <1>2, GmpKept
<1>10. QED BY <1>3, <1>4, <1>5, <1>6, <1>7, <1>8, <1>9 DEF IInv

LEMMA NextInv == IInv /\ [Next]_vars => IInv'
<1>1. SUFFICES ASSUME IInv, [Next]_vars PROVE IInv'
  OBVIOUS
<1>2. CASE UNCHANGED vars
  <2>1. Types' /\ FirstInv' /\ GmpInv' /\ AloneInv' /\ SafeInv'
    BY <1>1, <1>2 DEF vars, history, IInv, Types, FirstInv, GmpInv, AloneInv, Starting, SafeInv
  <2>2. WholeInv'
    BY <1>1, <1>2
       DEF vars, history, IInv, WholeInv, Unpacking, Unpacked, AllWhole, AllNone, WholeFile
  <2>3. SettleInv'
    BY <1>1, <1>2
       DEF vars, history, IInv, SettleInv, HasFiller, Fills, HasUnpacker, Unpacking, AllNone,
           AllThere, ReachedThere, Reached, NoCopies
  <2>4. QED BY <2>1, <2>2, <2>3 DEF IInv
<1>3. CASE Next
  BY <1>1, <1>3, StartInv, CheckBundleInv, CreateFileInv, FillFileInv, CheckGmpInv, SymlinkInv,
     CreateCopyInv, FillCopyInv, EndInv, StopInv DEF Next
<1>4. QED BY <1>1, <1>2, <1>3

LEMMA Invariant == Spec => []IInv
  BY InitInv, NextInv, PTL DEF Spec

-----------------------------------------------------------------------------

\* Every variable keeps its type; no process unpacks past the end of the archive, or
\* puts a library in its place that is not there.
THEOREM TypeCorrect == Spec => []TypeOK
<1>1. IInv => TypeOK
  BY DEF IInv, GmpInv, TypeOK
<1>2. QED BY <1>1, Invariant, PTL

\* A program runs with all its assets and finds the library, if no start has been cut
\* short and none has overlapped with another.
THEOREM AssetsReady == Spec => []ReadyWhole
  BY Invariant, InvImplies, PTL

\* However many processes unpack at the same time, they leave the assets whole.
THEOREM AssetsSettle == Spec => []SettledWhole
  BY Invariant, InvImplies, PTL

\* As long as processes start one at a time, what is whole is never written again,
\* whatever is killed.
THEOREM AssetsStay == Spec => WholeStays
<1>1. ASSUME IInv, [Next]_vars
      PROVE  [~ overlap' => \A f \in Files : WholeFile(f) => cache'[f] = cache[f]]_vars
  <2>1. SUFFICES ASSUME ~ overlap', NEW f \in Files, WholeFile(f), ~ UNCHANGED vars
                 PROVE  cache'[f] = cache[f]
    OBVIOUS
  <2>2. PICK p \in Processes :
          \/ Start(p) \/ CheckBundle(p) \/ CreateFile(p) \/ FillFile(p) \/ CheckGmp(p)
          \/ Symlink(p) \/ CreateCopy(p) \/ FillCopy(p) \/ End(p) \/ Stop(p)
    BY <1>1, <2>1 DEF Next
  <2>3. Types /\ next[p] \in Places
    BY <1>1 DEF IInv, Types, Places
  <2>4. CASE CreateFile(p)
    <3>1. ~ overlap /\ cache' = [cache EXCEPT ![Archive[next[p]]] = File(p, FALSE)]
      BY <2>1, <2>4 DEF CreateFile, history
    <3>2. cache[Archive[next[p]]] = NoFile
      BY <1>1, <2>3, <2>4, <3>1 DEF IInv, SafeInv, CreateFile, Places
    <3>3. f # Archive[next[p]]
      BY <2>1, <3>2 DEF WholeFile
    <3>4. QED BY <2>3, <3>1, <3>3 DEF Types
  <2>5. CASE FillFile(p)
    <3>1. cache' = Filled(p)
      BY <2>5 DEF FillFile
    <3>2. f = Archive[next[p]] => cache[f] # File(p, FALSE)
      BY <2>1, FileFacts DEF WholeFile
    <3>3. QED BY <2>3, <3>1, <3>2 DEF Filled, Types
  <2>6. CASE CreateCopy(p)
    <3>1. ~ overlap /\ stage[p] = "create_copy"
      BY <2>1, <2>6 DEF CreateCopy, history
    <3>2. target # Link
      BY <1>1, <3>1, PutFacts
    <3>3. QED BY <2>6, <3>2 DEF CreateCopy
  <2>7. QED
    BY <2>2, <2>4, <2>5, <2>6
       DEF Start, CheckBundle, CheckGmp, Symlink, FillCopy, End, Stop
<1>2. QED BY <1>1, Invariant, PTL DEF Spec, WholeStays

===============================================================================
