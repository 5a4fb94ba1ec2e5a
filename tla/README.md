# A verification of Syqure's runtime

Syqure runs secure multiparty computations: a Rust launcher (`src/syqure`)
compiles a program with Codon and the Sequre library and runs it as one party of
several. This directory holds TLA+ models of the parts in which the parties, their
processes and their files meet, the TLC configurations that check them on small
instances, and TLAPS proofs of the theorems that hold for every instance.

`S/` below stands for
`src/bin/macos-arm64/codon/lib/codon/plugins/sequre/stdlib/sequre/`, the copy of the
Sequre library in the repository.

## The system

N parties (three by default) each run the same program. Party 0 is the trusted
dealer; parties 1 to N-1 compute, party 1 is the hub. From the bottom up:

| component | state | operations | talks to |
|---|---|---|---|
| launch and asset cache, `syqure/src/{runner,bundle}.rs` | cache directory, link to libgmp | `ensure_bundle`, `ensure_libgmp_available`, run | other processes, by the shared directory |
| TCP transport, `S/network/{socket,connect,common}.codon`, and channel setup in `S/mpc/comms.codon` | sockets, ports | open_channel, connect, snd_jar, receive_jar, clean_up | peer |
| file transport, `S/network/file_transport.codon` | two counters a channel, message directories | register_channel, send_file, receive_file | peer, through a directory that may be synchronised by SyftBox |
| jar framing, `S/mpc/comms.codon` | none between calls | send_as_jar, receive_as_jar | transport |
| collectives, `S/mpc/comms.codon` | none between calls | reveal…, broadcast_from, collect…, sync_parties, sequential | framing |
| randomness, `S/mpc/randomness.codon` | a generator, the states of the streams it can switch to | reset, switch_seed, restore_seed, freeze | no one: streams are shared by seed |
| sharing and arithmetic, `S/mpc/{comms,arithmetic}.codon` | none between calls | share_from, add_public, multiply, beaver… | collectives, randomness |
| polynomials, fixed point, comparison, `S/mpc/{polynomial,fp,boolean}.codon` | caches of tables and inverses | powers, trunc, is_positive, … | arithmetic |
| `Sharetensor`, `S/types/sharetensor.codon` | share, cached partition (x_r, r), cached roots | arithmetic, item assignment | arithmetic |
| environment and runtime, `S/mpc/env.codon`, `S/runtime.codon` | defaults that context managers switch | fork_parties, client, done | all |
| output capture, `syqure/src/ffi/bridge.cc` | two pipes | start, stop | the program |
| homomorphic encryption, multiparty containers, the learning library | | | |

What is hard here, and what makes each part correct:

* **No message says what it is.** Jars carry a length, values carry a size, and
  neither carries the call it belongs to. Everything rests on each link being an
  in-order, exactly-once stream, on both ends counting alike, and on every send
  having its receive. Correct means: the file transport implements such a stream,
  whatever the synchroniser does; sizes and data do not get out of step; a receive
  in a call gets a message of that call; nothing is left over.
* **Polling another host's directory.** Files come late, out of order, in part, or
  again. Correct means that what arrives is a jar, once, whole, in order, and that a waiting
  receiver gets what was published. That what `send_file` has returned for is published whole
  does not hold: errors of writing are ignored.
* **Waiting on each other.** Parties run blocking programs over links of unknown
  buffering. Correct means: every collective ends, `sync_parties` is a barrier,
  `sequential` runs one party at a time.
* **Randomness by agreement.** A mask is drawn twice, by two parties, at different
  times, with nothing sent. Correct means: both draw the same number for the same
  purpose, no number serves twice, shares add up to the value.
* **Bytes.** A jar goes through a socket in pieces, and either end may die between
  any two. Correct means: sockets lead to who they are for, pieces make the same jars
  again, who waits for a dead party notices.
* **Output across processes.** A program that forks shares the pipes of its capture.
  Correct means: each stream is where it should be at each time, and what is printed
  comes out, once.
* **Words.** 256-bit words hold residues of a 251-bit modulus; sums that are not
  reduced, and differences, wrap.
* **Processes that share a cache.** Parties are started together in one home
  directory, with no lock, and may be killed.

## The modules

`Fifo` — the promise of a link: the abstract specification that three
modules implement. `Put` and `Get` are the only steps; `sent` and `got` are histories.

`FileTransport` — `file_transport.codon`. `send_seq` and `recv_seq` are the
dictionaries of that name; `tmp` and `dir` the sender's directory, `view` the copy
the receiver polls; `op` the program counter of a call. A send is four steps, as a
crash or a synchroniser can fall between them: `BeginSend`, `OpenTmp`, `WriteTmp`,
`Rename`. What `WriteTmp` leaves is the jar or a part of it, as nobody looks at the results of
the two writes, the flush and the close; `Rename` publishes either, and `sent` is the history
of what `send_file` has returned for, not of what is in the files. A receive is
`BeginReceive`, `SeeFile` (the polling of `access`) and
`ReadFile`; the retry of the loop after an IOError changes nothing and is the
disabledness of `ReadFile`. `Unlink` has three outcomes because the source declares
the C function with a Codon string for a char pointer: what it deletes is up to the
ABI. (On Linux it fails, without a word: consumed files stay.) `StartSync` and
`EndSync` are the synchroniser, which is external; it can start on any file that
differs, expose it half copied, and bring back what was deleted. With both copies
alike at all times this is one shared directory. `SendFails` ends a party
when opening or renaming fails, which the code does notice.

`FileTransportRerun` — the same across runs of the program: counters start again at
0, directories keep their files.

`JarFraming` — `send_as_jar` and `receive_as_jar` over a stream of jars
(`wire`, `taken`), which is what `FileTransport` and `TcpTransport` are proved to
implement. One value is two jars; the receiver asks for 8 bytes, then for as many
as these say. `sent` and `got` are the histories of whole values.

`Collectives` — each collective as the script of sends and receives a party runs for
it. A program is any sequence of calls. A send is two instructions, `send` that puts
the message on the link and `flush` that returns once what is pending fits `buffer`:
with 0 a send is a rendezvous, with more it is a socket buffer, and with more
messages than a run has it is the file transport. Values are vectors of how often
each party's contribution is in them; a message carries its value and, as a history
that no receiver looks at, its call. `sync_parties` compares control elements that
all draw from the global stream, a fresh one a call, so equal means same call.
There is no socket from a party to itself, and `TypeOK` says that no script uses one.

`TcpTransport` — from `__setup_channels` to `clean_up`. `pid` is the loop variable of
the set-up: for a higher peer a party opens its port (`OpenChannel`: bind and listen),
waits, and takes whoever has connected (`AcceptSocket`); for a lower one it tries
(`Connect`, `ConnectRefused`). `sockets` says who is really at the other end, which no
code asks. A transfer is as many steps of `Send` and `Receive` as the kernel likes;
`reset` holds which connections have reported an error. The error of `send` is
`SendError`: the loop adds -1 to `totalsent`, as the code does; what such a call would
send afterwards is not modelled, because a connection that has failed once fails again.
TCP is external: no byte is lost while both ends are open. Programs match
(`ProgramsAssumption`): what one party sends, the other asks for, jar for jar and with
its length, which is what the framing and the collectives above see to. It is taken that no
other program answers on the ports, and time is not modelled: in a patient world the attempts
suffice for any delay, in another they may run out at any time.

`OutputCapture` — `sy_codon_run` and `sy_codon_build_exe`. `fd` is where descriptors 1
and 2 of a process lead, `extra` which others it has open, `saved` where the saved ones
lead. A world says which option is given, whether the compiler succeeds, whether pipes
can be made and what they hold; a program is a sequence of prints, forks, meetings and
waits. `Suppress`, `Compile`, `Restore`, `Start` are the caller; `PrintChunk` … the program;
`EndProgram`, `Flush`, `RestoreFds`, `ReadPipe`, `PipeEmpty` are `stop`, in every process,
for each child of `fork_parties` returns from the program into a copy of the caller. A
chunk is what one write takes; `stdio` is the buffer of stdout, copied by fork.

`ModularWords` — the arithmetic of class `UInt`, in words that wrap.

`SecretSharing` — the generators (`rng`), their tapes, and each party's place in a
program of `share_from`, linear operations, products, powers, truncations and `reveal`,
on tensors that keep their Beaver partition (`x_r`, `r`) from one call to the next:
`get_partitions` makes one only if there is none, linear operations carry it over,
products, powers and truncations return tensors without. `drawn` is a history of what
each draw was for. `reveal` is taken coarsely here, as a step of the hub that takes all
shares and sends the sum, because `Collectives` checks the order of its messages. A
tensor has one element; that it has a partition is said by `r` not being empty, as for
vectors (for a single number the code takes zero for empty, so that one draw in 2^250
would count as no partition at that party). `Draw` goes through the streams of a call in
turn; a tape has a period, after which its numbers come again, as a generator's do.

`Launch` — the start of a process: check the cache, unpack file by file, look for
libgmp, link it or copy it. `cache` and `target` are what is on disk, with who wrote
each file, so that a writer whose file was unlinked by another has no effect. The
directory of the cache is taken to exist once its first file does. The unlinking and
creating of one file are one step; a collision inside it, which ends the process
with an error, is not told from `Stop`. The code looks in up to five directories for
libgmp and serves the first that exists and lacks it (`runner.rs:201-236`); here there is one
place, which exists or does not (`looked`); the case of several is left out. The
link to `libgmp.dylib`, made the same way but with no fallback, is left out. The step that clears `sock.*` files is left
out: no transport of the library makes such files now.

The `MC…` modules give constants to TLC. Definitions that begin with the word
*Mutant* in their comment are not used by the specifications: each is a plausible
slip in the definition that follows it, kept to show that the named property notices.

## The runs

| run | instance | shows |
|---|---|---|
| `MCFileTransport` | two parties, two jars one way and one back, lengths 4 and 8 | `DeliveredInOrder`, `PublishedImmutable`, `ReceiveCompletes`, `ImplementsFifo` |
| `MCFileTransportRerun` | one link, two runs | `DeliveredInOrder` fails: jars of the first run are received in the second |
| `MCJarFraming` | three parties, three links, two values a link, one value as long as a size | `FramesAligned`, `ImplementsFifo` |
| `MCTcpTransport` | four parties, jars of one to three bytes, connections that hold two; a world in which nothing goes wrong, one in which parties are killed, one with a port that is taken, one with too few attempts | `ChannelsMatch`, `NobodyRaises`, `ProgramsEnd`, `ReceiveNotices`, `ImplementsFifo` |
| `MCTcpBrokenSend` | two parties, one of which may be killed | `BrokenSendRaises` fails |
| `MCCollectives` | four parties, all programs of two calls out of twelve, links of 0 and 2 | `CallsAligned`, `ResultsRight`, `SyncIsBarrier`, `OneAtATime`, `NothingLeft`, `Terminates`, no deadlock |
| `MCSecretSharing` | four parties, inputs of dealer and computing parties, programs of five calls and more in which partitions are made, carried over, used again and dropped, second and fourth powers, truncations, three tapes | `SharesAddUp`, `RevealedRight`, `StreamsPaired`, `MasksFresh`, `EndsInStep`, `TruncatedRight`, `PartitionsCoherent`, no deadlock |
| `MCSecretSharingFive` | five parties | `SharesAddUp` fails |
| `MCOutputCapture` | three parties; programs that print before and after forking, in children and caller, on both streams, that die, that run in one process; nine worlds | `CallerRestored`, `ProgramHeard`, `DrainedOnReturn`, `OutputOnce`, `Returns` |
| `MCLaunch` | three processes, three files | `ReadyWhole`, `WholeStays`, `SettledWhole` |
| `MCLaunchTogether` | two processes, unpacked cache | `LibraryKept` fails |
| `MCLaunchStopped` | two processes, the first may be killed | `UnpackedWhenReturned` fails |

**Bounds.** Two jars on a link are the least with which one can be out of order,
and one back makes a party both sender and receiver; two lengths make a wrong file
visible by its length. Two values a link are four jars, enough for a receiver to be
a whole frame behind. Two calls are enough for a party to be a call ahead of
another, which is as far as the collectives that wait for nobody let it get with
respect to the next; four parties are the least with two parties that are neither
dealer nor hub and have a party between them and each end. In the sharing, words,
modulus and draws keep the proportions of 2^256, 2^251 - 9 and 2^250; a tape is a
fixed table a seed, of twelve numbers, which no program of a run uses up, one of them all maximal draws, because all tapes would be too
many: that shares add up is checked for these masks and is not a claim of secrecy.
The inputs are 1 and more: with four parties the two masks of an input of 0 could sum
up to more than the modulus in the small numbers (in the large ones they would have to
be among the last four draws). Numbers to truncate have `K` bits and masks `K + V`, within
the modulus as `constants.codon:56` demands. A connection that holds two bytes makes jars
of three cross in pieces; one link of the program carries two jars, and two parties send
to each other; with four parties, two listen on ports next to each other. Three
processes are enough for one to come upon two that unpack, and for two children to write
to and read from the pipes while their parent does. Pipes of nine chunks hold all that
the programs print, pipes of two do not.

The programs of `Collectives` are made of the calls of `Complete`. Outside it are
`sequential(skip_dealer=True)` and `reveal_at` at a computing party: in both the dealer
sends a message that nobody receives (`S/mpc/comms.codon:136` and `:272`; `NothingLeft`
fails), which a later receive on the link would take for its own. Nothing in the library
calls them. Also outside are `broadcast_from` by the dealer, which sends nothing and for
which the others would wait, and `collect_at` at the dealer, which the code asserts not
to be called. All other calls, with any party as source or target and any set of
excluded parties, are in the scope of the proofs.

`CHECK_DEADLOCK FALSE` stands where a system may stop: when no more calls are made
within the bounds, or all processes have ended. `Collectives` and `SecretSharing`
have an explicit step for programs that have ended, and deadlock is checked.

**Fairness.** `FileTransport!Fairness` is weak fairness of the steps of a running
party (its polling loop has no end and no timeout) and of each file's
synchronisation; no call is assumed ever to be made, and failures are never forced.
A receiver can be sent back by a partial file any number of times but finitely often
for a whole one: weak fairness suffices because the synchroniser has nothing left to
do for a file that is alike on both sides. `Collectives!FairSpec` is weak fairness of
each party's steps: a process that can go on does. `TcpTransport!FairSpec` and
`OutputCapture!FairSpec` are the same for the processes there; being killed is never
forced. `ProgramsEnd` is claimed of worlds in which nothing goes wrong, `Returns` of
programs whose output fits the pipes.

### What the failing runs say of the code

* *Rerun.* The counters restart at 0 in each process, nothing empties the
  directories, and the deletion of consumed files does not work (see `Unlink`).
  Running the program twice in one directory with other inputs gives a wrong sum; the
  repository's binary library does so too. `src/files.md:355` and `:357` promise
  ordering and restarts.
* *Broken send.* `snd_jar` looks for a result of 0, `send` gives -1: the party loops for
  good, where the line after the test is meant to raise. The receiving side tests for
  both and raises.
* *Five parties.* `share_from` sums masks without a modulus and `sub_mod` wraps.
  With the field modulus the wrap is not a multiple of it. With three parties there is
  one mask and nothing to wrap; with four, two masks next to the largest would be
  needed; with five it is seen in ordinary runs. `MasksWrap` proves it for every datum
  and sum; in the ring, whose modulus divides the word, nothing is lost.
* *Together.* The fallback of a failed symlink copies the bundled library to the
  place of the link another process has just made, that is, onto itself, and empties it.
* *Stopped.* An existing directory counts as unpacked, also when its unpacking was
  cut short.

One error that no run is about: `send_file` ignores the results of `fwrite`, `flush` and `close`
(`S/network/file_transport.codon:114-116`). On a full disk the file is short; it is renamed, the
counter advances and the call returns. The receiver checks the length, so a short file is
never taken for a jar (`DeliveredInOrder`, in runs in which writes fail), but it polls for good,
and neither party is told. `ReceiveCompletes` is therefore claimed of files that were
published whole, although `src/files.md:354` promises reliability, "Atomic message delivery via
temp file + rename", of all.

## What is proved

Eight modules hold proofs. Each theorem holds for every value of the constants that meets
the assumptions named in the modules (links join parties, sizes are numbers, programs
whose sends and receives match, a bound on the counters, markers that are not values, calls of `Complete`, operands that are earlier results, tapes
of bits, no file twice in the archive, a word that has room for four moduli). One theorem has
a hypothesis of its own, `MasksFit` of `SharesAlwaysAddUp`.

| module | theorems |
|---|---|
| `FileTransportProofs` | `TypeCorrect`, `InOrderDelivery` (`[]DeliveredInOrder`), `NumbersUsedOnce` (`PublishedImmutable`), `FileTransportImplementsFifo` (`ImplementsFifo`) |
| `JarFramingProofs` | `TypeCorrect`, `FramingStaysAligned` (`[]FramesAligned`), `FramingImplementsFifo` (`ImplementsFifo`) |
| `CollectivesProofs` | `TypeCorrect`, `CallsStayAligned` (`[]CallsAligned`), `ResultsAreRight` (`[]ResultsRight`), `SyncHolds` (`[]SyncIsBarrier`), `OneRunsFunc` (`[]OneAtATime`), `NothingIsLeft` (`[]NothingLeft`) |
| `SecretSharingProofs` | of the words: `AddRight`, `SubtractRight`, `NegateRight`, `MasksCancel`, `MasksWrap`; of the parties: `TypeCorrect`, `StreamsStayPaired` (`[]StreamsPaired`), `NoMaskTwice` (`[]MasksFresh`), `ProgramsEndInStep` (`[]EndsInStep`) |
| `SharesProofs` | `OperationsAreRight` (`[]OperationsAddUp`), `SharesAlwaysAddUp` and `ThreePartiesAddUp` (`[]SharesAddUp`), `RevealsAreRight` (`[]RevealedRight`), `TruncationsAreRight` (`[]TruncatedRight`), `PartitionsStayCoherent` (`[]PartitionsCoherent`) |
| `TcpTransportProofs` | `ChannelsRight` (`[]ChannelsMatch`), `TypeCorrect`, `TcpImplementsFifo` (`ImplementsFifo`), `NobodyFails` (`[]NobodyRaises`) |
| `OutputCaptureProofs` | `TypeCorrect`, `OutputRestored` (`[]CallerRestored`), `SilenceEnds` (`[]ProgramHeard`), `OutputDrained` (`[]DrainedOnReturn`), `OutputShownOnce` (`[]OutputOnce`) |
| `LaunchProofs` | `TypeCorrect`, `AssetsReady` (`[]ReadyWhole`), `AssetsSettle` (`[]SettledWhole`), `AssetsStay` (`WholeStays`) |

*The file transport.* `DeliveredInOrder` is not inductive: what is read must be
known to be what was sent under that number. `IInv` adds, for each link, that the
counters are the lengths of the histories and that every file, original or copy, is
the jar its number says, or short (`LinkOK`); and for each party that it acts on its own links
and that what it is about to rename is the jar it was given, or short (`PartyOK`). The last is
needed because the publishing of a file is separated from its writing. The proof has
a step an action; only `Rename` and `ReadFile` need the arithmetic of the counters.
Refinement follows with the identity on `sent` and `got`: `Rename`, where `send_file` returns, is
a `Put` of the jar it was given, `ReadFile` a `Get`, all else stutters. `Fifo` does not promise
that what is put is got. After a short file it is not, and nothing that comes later is either:
the receiver stays at that number. Nothing is assumed about the synchroniser but
that it copies from the sender's directory.

*The framing.* A link's jars are, pairwise, the size and the data of the values sent,
plus one size jar while its sender is in the middle; its receiver is at an odd place
exactly while it is in the middle (`LinkOK`). This parity is the inductive invariant;
alignment and refinement (`SendData` is a `Put`, `ReceiveData` a `Get`) follow.
Both layers together say that the file transport, framed, is a stream of values,
which is what `Collectives` starts from. `Terminates` also takes it that what is sent
arrives, which for the file transport is true of files that were published whole.

*The collectives.* The proof first reads the scripts: for each call and each ordered pair
of parties there is at most one message in each direction, or exactly one, and the script of the one
sends just when the script of the other receives. What a party has sent on a link is then a
function of its place: one message for each call on which it is past its `send`
(`LinkInv`), in the order of the calls; and what is taken is as many as the receiver is past.
Both counts are of the same set of calls, so the next message is that of the call the
receiver is in: `CallsAligned`. `PlaceInv` says what the value and the list of a party are,
as a function of the instructions it has carried out, which needs that messages carry
what their sender had at its `send`; `ResultInv` compares them with `Expected` when a call
returns. `SyncIsBarrier` and `OneAtATime` (one party in `func` at a time, and in the order of their
numbers) follow from `LinkInv` by taking a message back
to who has sent it: at the dealer (or along the chain of tokens) nobody gets past a
receive before the sender is past the send. The sums and lists are by induction on the
parties a loop has gone through.

*The sharing.* The parties of a program wait for each other in few calls, so how far one is
says little about another, and none of the properties relates a party to itself before. The
invariant, `IInv`, relates each party to the program instead. `Plan` is a function of the
program alone: what its first n calls draw from each stream and for what, which results they
leave with a partition, how many numbers the dealer sends in them and how often they call
`reveal`. `PlaceOK` says that a party has the partitions that the plan has before its call, and
of those the call wants a beginning: the first operand before the second; `DrawnOK` that what
it has drawn from a stream is what is planned up to its call and a beginning of what is planned for the
call. The calls draw the same from a stream at both of its ends (`CallDraws` depends on the
seed), so the two histories are beginnings of one sequence, and one of them begins the other:
`StreamsPaired`. `RngOK` keeps the generators where the history says, which needs that the
switching comes back to the party's own; it is `MasksFresh`. `LinksOK` counts: what is on a link is
what one end has sent less what the other has taken, both counted along the plan. At the end
all parties have the whole plan behind them, and the differences are zero: `EndsInStep`.
`TypeCorrect` needs more of the invariant than it seems: that a party in `reveal` for a
partition has the mask it will keep, that operands exist, that the dealer's numbers are as
many as the hub takes. The streams that a call draws from are distinct (`AskNotHub`, `AskOthers`),
which is what makes one switch after another the same as all of them at once (`DrawAll`).

The sums, powers, draws and plans are recursive functions. That they exist and are what
their equations say is proved in the module by induction over a set of numbers
(`SetInduction`), which takes no operator: if n were the first number missing from the set, taking one
away would map what is missing up to n into itself and lose one, against the pigeonhole
principle of `FiniteSetTheorems`.

*What the shares are* (`SharesProofs`). The value properties add up numbers of parties
that are any number of calls apart, which no invariant over the state can do directly. The program and the
tape determine everything a party ever computes, so there is an ideal execution: `Ideal`, a
function of program and tape that makes one call after another for all parties at once, each
call first the partitions it wants (`Part`) and then its result (`End`). Two results that
have nothing to do with states come first (second half of `SecretSharingProofs`): a world of the ideal execution
has the shape that the plan says (`WorldOK`) and later ones only add to it or give a result
its partition (`Grows`), and its partitions are coherent (`AllCoherent`), which is kept by linear
operations one tensor at a time. The invariant is `VInv`: a
party's results are those of the ideal execution at its place (`Now`), what it is revealing and
what it has revealed are (`ValuesOK`), and what is on a link is what the ideal execution
sends, from the number on that the receiver has taken (`WiresOK`). It needs `IInv` at
every step: the counts say which value is next on a link, `RngOK` which number of
the tape is drawn, `PlaceOK` which partitions are made. `StepValues` goes through the actions;
a step of a party leaves what the others have alone, and a helper, the hub and the dealer append to
the links what the ideal execution has at that place (`AlwaysIdeal`).

Then an operation is a matter of sums over the parties in one world. `Rem` compares
numbers by their remainder; sums are linear in it (`SumLinear`), with
one party, the hub, that adds something of its own (`SumHub`); what the dealer
gives is completed to what it knows (`Completed`). So `LinearWhole`, `MultipliedWhole`
(the crossed products of the two partitions), `DealersShares` and `PartysShares`. A power is
the binomial theorem (`PoweredWhole`): `powers_cached` adds up, over the parties, terms of a row of
`pascal_matrix` with powers of the mask, and the sums over parties and over terms are
exchanged (`Interchange`). Truncation (`TruncatedWhole`) is of integers and not only of remainders:
the masked number is below the modulus (`MaskedFits`), the low bits are then cut right on both sides, up to one
borrow, and the inverse of 2^F divides what is a multiple of it (`CutQuotient`). A result that
every party has, has the sum that the ideal execution says (`TotalAll`), and who has
returned from `reveal` knows that nobody is before it (`NobodyBehind`).

`OperationsAreRight`, `RevealsAreRight`, `TruncationsAreRight` and `PartitionsStayCoherent` have no
hypothesis. That the shares of a shared number add up to it needs `MasksFit`: the `N - 2` masks that
a party sums without a modulus must not exceed the number and the modulus together, or
`sub_mod` wraps. It cannot be dropped (`MCSecretSharingFive`, `MasksWrap`). With three parties, the
default of `constants.codon:61`, it always holds (`ThreePartiesAddUp`); with four, draws of 250 bits and
the modulus 2^251 - 9, it holds of every number from 7 on.

*The channels.* That a socket leads to who it is for rests on arithmetic: no two pairs
of parties have a port in common (`PortsDistinct`, from the triangular numbers of
`__setup_channels`, for any number of parties). `SetupInv` adds that who listens on a
port is the lower of its pair and is waiting for the other (`ListenersWait`), and that
only the higher of the pair is pending there (`PendingRight`); then whoever is accepted
is the right one, and whoever is connected to.

*The stream of bytes.* A byte of a connection carries its jar and place only as a
history; the code sees lengths. `StreamInv` says, in offsets, that the bytes taken, those on
the way and those still to be sent are together the jars of the link, for every receiver
that has not gone before its time (after that nobody looks any more). `Receive` takes the
end of a jar for the end of its call because the lengths match, so a receiver never reads
into the next jar: `CountsInv` counts the calls of both programs against the histories, and
`JarsInv` says whose call each jar is. `SendingRight` keeps what is cut from a jar within it:
`totalsent` falls below zero only on a connection that has reported an error. Then the
beginning of a send (`BeginCall`) is the `Put` of `Fifo` and `ReceiveReturns` the `Get`; all
else stutters. `NobodyFails` needs
`ClosedTaken`: a party that has closed has taken all that was put for it, so an error is
only reported against a party that went before its time, and there is none if nothing
goes wrong; with `PortsDistinct` and `ListenersWait` no port is asked for twice.

*The capture.* The descriptors of a process are a function of its stage (`FilesInv`), in
the forked processes too, which start with a copy. That nothing of its own stays behind
needs `DrainInv`: a buffer holds what its process has printed, or what was copied; a
process that has flushed prints no more; what it has seen empty holds nothing of its own
afterwards, for nobody else writes that. `TodoInv` keeps a process from being forked
twice, and `EarlyInv` says that the caller is alone until the program runs.

That each chunk comes out once is a second invariant on top, `OnceInv`. Chunks are in
boxes: the buffers, the results until they are shown, the pipes and the terminal. While
nobody has died, every chunk that was printed is in some box (`Present`), none is at two
places but those a fork has copied (`AtMostOnce`), and what is in a pipe has a process
that is going to read that pipe before it exits (`PipesRead`); and no box has a chunk whose number has not been
used (`Numbered`), without which a new chunk could be taken for an old one. Each step
does one of four things to the boxes, about which there is a lemma each: it moves the
first chunk of one to the end of another (`MovedIs`: flushing, reading), empties one into another (`JoinedIs`: exiting),
adds a chunk (`AddedIs`: printing) or copies a box (`CopiedIs`: forking). When all have exited,
all boxes but the terminal are empty. The number of times a chunk is on it is the
cardinality of a set of indices, for which the proof takes facts from `FiniteSetTheorems`.

*The launch.* `WholeInv` is what processes that start one at a time rely on: the tree is
whole, or empty, or the one process that is unpacking has written its beginning. It
needs `AloneInv` and `SafeInv`, that nothing a process is going to write is there before;
these also give `WholeStays`, where processes may be killed. For processes that unpack
together `SettleInv` says that each file that is not whole has a process that is going to
fill it (`HasFiller`: the last that created it), and that while a file is missing somebody
is going to create it (`HasUnpacker`). `GmpInv` is what
`TypeOK` says of the library: a process goes on from the check only if it is there, and nobody
takes a file away but to write it anew in the same step.

*The arithmetic.* `SubtractRight` gives the bound under which `sub_mod` is right although
words wrap; `MasksCancel` and `MasksWrap` say what it means for `share_from` on either
side of the bound.

**Model-checked only.** Liveness (`ReceiveCompletes`, `Terminates`, `ProgramsEnd`,
`ReceiveNotices`, `Returns`) and anything with ENABLED is beyond the prover. So is a freedom
from deadlock, which TLC checks of `Collectives` and `SecretSharing`. Every invariant and every action
property that a passing run checks is stated by a theorem. The failing runs are of instances by their nature;
`MasksWrap` generalises one of them.

## Not modelled

* *Secret sharing.* Tensors of several dimensions; `freeze_seed`; the bulk forms marked
  deprecated; cached square roots; item assignment. Truncation in the ring, and of
  other than non-negative numbers of `K` bits. The first power of
  `powers_cached` (`S/mpc/polynomial.codon:221`), which every party returns as the public
  part plus its mask and which would add up to more than the value; raising to the first power
  is the one way to it. A public number minus a share (`S/types/internal.codon:352` and `:363`): the
  parties that do not add the number return what `neg_mod` leaves, which for a share of 0 is the modulus
  itself, not reduced. `Sharetensor.__iadd__` with a bare number, which adds it to the
  share of every party and to both parts of a partition (`S/types/sharetensor.codon:176-184`): the
  compiled program calls `add_public` instead. `validate_partitions`, which nothing calls
  and which drops the result of `add_mod` (`S/mpc/arithmetic.codon:143`). Nested switching of
  streams, which no caller does (the TODO at `S/mpc/randomness.codon:80`). `ring_to_field` and
  `field_to_ring`, whose comment says that they are wrong. The comparison circuits of
  `S/mpc/boolean.codon` and the divisions and roots of `S/mpc/fp.codon`: long sequences of
  what is modelled.
* *Secrecy.* That shares tell nothing is a statement about distributions. `MasksFresh` is the part of
  it that is about states: no draw serves twice.
* *The transport over the network*: addresses, the artificial delay, TCP itself.
* *The capture*: reads and writes that fail or are interrupted.
* *The file transport*: two environments in one process, which would share the counters (a
  process makes one); a disk error that shows only after `close`.
* *The launch*: `clean_sockets` and environment variables.
* Homomorphic encryption (`S/mpc/mhe.codon`, `S/types/ciphertensor.codon`, the
  lattice library) is arithmetic of polynomials and noise; the multiparty containers
  and the learning library are sequential code above it. The compiler passes of Codon
  and Sequre are binaries here. The command line, the Python binding, the build and
  packaging scripts and the continuous integration have no state of their own.
* The C and C++ files of the repository are, but for `bridge.cc`, headers of the bundled
  Codon, fmt and peglib, which are third-party code: most of its own logic is in Codon
  and Rust. Of the two bundled copies of the Sequre library one is modelled.

## What is left

1. `ModulusSwitch`: which values survive `ring_to_field`, given bounds on the shares, and
   the caches that are keyed without the modulus.
2. Truncation in the ring, and the comparison circuits on top of it.
