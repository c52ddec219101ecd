# Verification of novus

Novus is a small statically typed functional language. `src/src` holds its compiler (lexer, parser,
frontend, optimiser, backend, assembler) and its virtual machine, which runs one *executor* per
thread of the program beside a garbage-collector thread. This directory models the parts of it in
which a mistake is hard to find by testing: TLA+ modules, TLC configurations, and TLAPS proofs.
`PROJECT.json` maps every definition to the lines it translates, and lists runs, mutants (plausible
bugs that a property must detect), hazards, findings and theorems.

Run a model with `tlc -config <run>.cfg <module>`, check proofs with `tlapm <module>.tla`.

## 1. Inventory

| component | state | operations | what is hard | what makes it correct |
|---|---|---|---|---|
| executor registry, handles (`executor_registry.cpp`, `executor_handle.hpp`) | list of executors, registry state, `m_state`/`m_request` of each handle | register, unregister, pause, resume, abort, trap | lock-free handshakes of every executor with the collector and with shutdown; memory order | nobody runs while the world is stopped; every stack is seen; pauses end |
| garbage collection requests (`garbage_collector.cpp`) | request, flags, two counters, byte budget, status | start, request, collectNow, notifyAlloc, loop, terminate | merged requests, timeouts, termination beside requests | collectNow is served with its flags; termination is not lost |
| mark and sweep, reference allocator (`garbage_collector.cpp`, `ref_allocator.*`) | lock-free list of references, marks, mark queue | allocate, mark, sweep, free, destroy | the sweep runs beside allocating executors | nothing reachable is freed, all garbage is |
| string links (`string_link_utilities.hpp`) | lazily concatenated strings | collapse | collapse by two executors at once | what a call uses stays alive |
| futures (`ref_future.hpp`) | state, result, waiters | block, wait, poll, fulfil, destroy | destruction under blocked waiters | answers are those of the fork; nobody waits for ever |
| child processes (`ref_process.hpp`) | state, exit code | start, block, signal, destroy | several waiters, one `waitpid`; destruction | one wait, one answer, no zombie |
| memory allocator (`memory_allocator.cpp`) | thread caches, global sets of chunks | alloc, free, thread exit | sets that move between threads | each chunk in one place |
| interpreter (`executor.cpp`, `stack.hpp`) | value stack, frames, instruction pointer | one handler per opcode | frames under calls, tail calls, closures, forks; stack limit | runs the assembly as the language defines |
| platform calls (`pcall.hpp`, `program.cpp`, `gen_expr.cpp`) | operand stack | one handler per call | signature, emitted code and stack operations are written in three places; blocking calls run beside the collector | what a call pops, reads while it blocks, and pushes is what its signature says |
| streams (`ref_stream_*.hpp`) | sockets, files, consoles, pipes | open, read, write, options, accept, shutdown, destroy, list, remove | shared without a lock; shutdown under `accept()`; reused descriptors; retries | a descriptor is closed once and used by its owner; results are true |
| io watcher (`iowatcher_linux.cpp`) | watch descriptors and their paths, reference count | create, get, destroy | a tree that changes while it is being watched | every directory is watched; freed by its last user |
| interrupts, platform utilities | a flag | - | - | - |
| assembler (`novasm`) | instructions, labels, literal strings | add, label, close; serialise, disassemble | label patching, short encodings | what was assembled is what is read back |
| backend (`backend`) | generator state | one generator per expression | stack layout, tail calls, short-circuits | generated code computes the expression |
| optimiser (`opt`) | rewriters over a program | tree shaking, inlining, constant elimination, literal precomputation | side effects, recursion, variable capture | the program's meaning is unchanged |
| program (`prog`) | declaration tables, typed expressions | declare, define, look up, implicit conversion | overload resolution, order of a hash table | an overload fits its arguments |
| frontend (`frontend`) | sources, declarations, types and constants | import, declare, define, infer types, build expressions | order of phases, scopes, inference to a fixpoint | terminates; accepted programs are typed, pure and initialized |
| parser (`parse`), lexer (`lex`), input (`input`) | token and character look-ahead | next token, next statement, expression | precedence, error recovery, look-ahead, numbers at their limit | total on every input, nothing lost |
| applications, standard library, editor support, fuzz targets | - | - | - | - |

The components call downwards: the compiler is a sequential pipeline from input to `novasm`, whose
output is the only thing the virtual machine sees. Within the machine `run()` starts the collector
and the main executor; executors fork executors, allocate through the reference allocator (which
notifies the collector), block on futures, processes and streams while marked as paused; the
collector stops all of them through the registry to mark, and resumes them before or after the sweep;
at the end `run()` terminates the collector, aborts the executors and destroys all references, on
which threads may still be blocked.

## 2. Modules

| module | models | state and actions |
|---|---|---|
| `StopTheWorld` | what the registry promises: when executors may run | abstract: modes of executors, is the world stopped |
| `ExecutorRegistry` | registry, handles, trap protocol, collector and `run()` as their clients | one action per access to a shared atomic or per section under the registry mutex |
| `MCExecutorRegistry` | instance for TLC, symmetric in the forked executors | |
| `RegistryProofs` | proofs about `ExecutorRegistry` | |
| `Heap` | references, the lock-free list, mark and sweep, string links; extends `StopTheWorld` | one action per atomic access of an allocation, per step of mark and sweep, per opcode that moves a reference |
| `HeapProofs` | proofs about `Heap` | |
| `MCHeap`, `MCMemory` | instances for TLC; `MCMemory` adds the chunk pool | |
| `Collector` | requests, byte budget, collector loop, termination | one action per section under `m_requestMutex` or atomic access |
| `Future` | a future, its fork, its waiters, its destructor | `block()`/`waitNano()` in their atomic steps |
| `Process` | a child process, its waiters, its destructor | `block()` with the mutex explicit |
| `WaitingProofs` | proofs about `Collector`, `Future` and `Process` | |
| `ChunkAllocator` | the chunk pool | thread-local steps and sections under the global mutex |
| `ChunkProofs` | proofs about `ChunkAllocator` | |
| `MCWaiting` | instance for TLC of `Collector`, `Future` and `Process` | |
| `PlatformCalls` | every platform call: signature, emitted code, stack operations of its handler | one action per operation: pop, check, pause, block, resume, allocate, push; the collector while paused |
| `Streams` | what all streams share: validity, read, write, options, retries | one action per step of a call between which another executor may run |
| `TcpStream` | connect, server, accept, lookup, shutdown, destructor; extends `Streams` | the same; descriptors are reused by the operating system |
| `StreamProofs` | proofs about `TcpStream` | |
| `FileStream` | opening in every mode, listing, names, removal with the stream | one action per system call |
| `FileProofs` | proofs about `FileStream` | |
| `IOWatcher` | setting up watches, events, mutex, reference count; the tree and the event queue as the environment | one action per system call or section under the mutex |
| `WatcherProofs` | proofs about `IOWatcher` | |
| `MCPlatform` | instance for TLC of the calls, streams, files and watcher | |
| `Lexer` | characters to tokens | functions of a text and a position, one per function of `lexer.cpp`; one action per token |
| `Parser` | tokens to statements, with the error nodes; extends `Lexer` | functions of a position, one per parse function; one action per statement |
| `MCSyntax` | texts, statements and damaged statements | |
| `Overloads` | types, function table, implicit conversions, overload resolution | operators |
| `TypeInfer` | inference of an expression's type | operators, one per `visit()` |
| `GetExpr` | parse node to typed node: scopes, closures, calls, switches, conversions | operators, one per `visit()` |
| `Imports` | the walk over the imports of a source | one action per import statement |
| `Frontend` | `analyze()`; extends `Imports` | one action per declaration, attempt to infer, definition, check |
| `SourceProofs` | proofs about `Imports` and `Lexer` | |
| `Evaluation` | what an analysed program does when it runs: the reference for the frontend | a denotation that also notices unset constants, wrong types, impure calls |
| `MCFrontend`, `MCSource` | the sources that are analysed; lexer, parser and frontend together | |
| `Arithmetic` | values, pure opcodes, conversions, string slices | operators; integer widths scaled by `ByteBits` |
| `Prog` | typed expressions, constants and their stack slots | operators |
| `Language` | what a program means: the reference for the compiler | a denotation of expressions: value, printed text, or failure |
| `Optimizer` | the four passes | operators, one per function of `src/opt` |
| `Assembler` | instructions, labels, the executable file | operators over sequences of scaled bytes |
| `Backend` | code generation | operators, one per `visit()` of `gen_expr.cpp` |
| `Interpreter` | `execute()` | one action per opcode (group), per executor; stacks are sequences |
| `Compiler` | novc and novrt: passes, generation, file, execution | one action per pass, then those of `Interpreter` |
| `MCCompiler` | the programs that are compiled and run | |

`Heap` does not model how executors are stopped: it uses `StopTheWorld`, and `ExecutorRegistry` is
shown (by TLC and by a proof) to implement `StopTheWorld`. That an executor in `collectNow()` or
`block()` counts as paused, and that `abortExecutors()` returns, is taken from `ExecutorRegistry` by
`Collector`, `Future` and `Process`, and that an executor in a blocking platform call is paused by `PlatformCalls`.
`Lexer` and `Parser` yield syntax; `Frontend` starts from parse nodes of its own sources, and `Compiler` from typed
programs, because a program small enough to check in one phase is rarely interesting in the next.

Data is abstracted: characters, numbers and payloads are left out; a reference has one child; a stack
is the set of references on it; exit codes are two model values.

In the modules of the compiler a program is a tree of records. Numbers are bounded by scaled words (a
byte has `ByteBits` bits, `int` has four and `long` eight of these bytes, so that the three encodings
of an integer literal and the two of a stack slot meet within reach); floating point values and texts of
numbers are uninterpreted terms (`<<"term", f, args>>`), so a conversion that is dropped or applied twice
shows; of the platform calls only the writing of a string is modelled, which makes side effects, and
their order, visible. Shift counts are smaller than the width (others are undefined in C++).

The lexer reads one-letter strings; `int` and `long` reach to 7 and 127, so literals at the limits have few
digits. Tokens of a kind are alike, save identifiers that matter. In the frontend a type is its structure
(`<<"future", <<"int">>>>`), so the tables that name delegates, futures and lazies are functions; the prelude has
the operators its sources use. Undefined behaviour of the parser (a static-int token where a keyword is
expected reads an empty optional) is the variable `junk`, any keyword or none. Reads ask for no byte or for
two and may get fewer; names of directory entries have only a length.

## 3. Runs

Each run is a question. `pass` runs must hold; `violation` runs document a disagreement between the
code and what a comment in the repository says (section 6). For each property of a passing run
`PROJECT.json` has a mutant: the modelled function with a plausible bug, for which TLC reports that
property as violated. Some runs put parts together that share no state (`MCMemory`, `MCWaiting`,
`MCPlatform`, `MCSource`): the initial state chooses the part that moves, the others rest.

| run | distinct states | instance |
|---|---|---|
| `RegistrySafety` | 301 366 | main and two forks, symmetric; stores take effect at once |
| `RegistryLiveness` | 19 844 | main and one fork; delayed stores |
| `Memory` | 1 073 912 | two executors, three pieces of memory; two threads, two areas of two chunks |
| `Waiting` | 88 534 | two executors, one collector, two collections; two waiters; two callers and a destructor |
| `Compiler` | 13 396 | 91 programs, with and without optimization |
| `Source` | 611 003 | texts of three pieces, statements with one damaged token, three infix operators, eight families of sources |
| `Platform` | 734 033 | every call; two executors, three streams, two descriptors, one directory of three names, a tree of three directories |

**RegistrySafety.** Do the handshakes of `trap()`, `requestPause()`, `resume()` and `registerExecutor()`
stop the world? `WorldStopped`: nobody executes while the registry is paused or aborted.
`AllStacksVisible`: an executor that can continue is on the collector's list, including between fork and
registration. `ImplementsWorld`: refinement of `StopTheWorld`. Three executors are the smallest number
with one that forks, one that is being forked and one that finishes during the same pass over the list;
the proofs cover every number. The asserts of the source (`RegistryAsserts`), `NoStrayRequest` (no pause
request survives the collection that made it) and `ListStable` (the list, walked without the mutex, does
not change meanwhile) are theorems of `RegistryProofs` and have no run.

**RegistryLiveness.** `PauseCompletes`, `ShutdownCompletes`: every pause and the shutdown end. One fork
suffices to compete for the mutex with the pauser; the store buffers add the interleavings of the real
machine.

**Memory.** `HeapSound`: nothing reachable is freed, and the lock-free list has no cycle and loses
nothing while pushes run beside the sweep. `CollectionComplete`: a collection frees all garbage older
than it, save the head of the list, and the destructor frees the rest. With three pieces of memory an
address can be freed and reused between the load of the head and the compare-and-swap (ABA), and a
string link has a chain behind it. `ChunksSound`: no chunk is lost or handed out twice, counts match
the lists, no set is empty or too large; with two areas of two chunks a cache overflows in one thread
and is taken over by another.

**Waiting.** `CollectNowSound`: a caller of `collectNow()` returns after a collection with its flags that
began after its call; `CollectNowReturns` (or the machine shuts down) and `ShutdownReturns`. Two
collections let a request arrive during the first and be served by the second; one unit of budget makes
every allocation hit the limit. `AnswerSound` and `ExitCodeAgrees` relate what the program saw of a future
or a process to what really happened, `NoWaiterWhenFreed` and `NoZombie` are about destruction, `Wakes`,
`DestructorReturns` and `BlockReturnsOrSelfLocks` about waiting. Two waiters are enough for one to be
counted while the other is not, and for a lost race on `waitpid()`.

**Compiler.** The programs are not random: each is the smallest one that contains a certain node, call
mode, union encoding, operand width, fork, lazy value, failure or combination of passes.
`PassesPreserveMeaning`: after every pass the program means what it meant. `FileRoundTrip`: what was
written is what is read, a file that is cut off anywhere is refused. `RunMatchesMeaning`: whatever the
interleaving of the forks, what is printed and how the program ends is what `Language` says.
`LazyWrittenOnce`: one executor computes a lazy value. `Terminates`: a loaded program ends.

**Source.** `TokensCover`: the tokens of a text follow one another, skip only white space and the line
ends, and end at its end. `NumbersExact`: a literal is the number its digits denote, in every base, or
an error, never a number that wrapped. `TreesFaithful`: a statement holds exactly the tokens it consumed,
in order, once; spans of children lie within their parent and in order; no node is built from parts its
factory refuses (which would throw). `ErrorsSurface`: what the grammar does not have yields an error
node. `PrecedenceAgrees`: precedence climbing groups operators as the table of priorities and
associativities defines. `AcceptedSound`: an accepted program runs as its types say, no pure function
calls an action. `ConstsInitialized`: no constant is read without a value. `ExhaustiveTaken`: a switch
accepted as exhaustive takes a branch. `RecursionHonest`: what is rejected as endless recursion never
returns (not that all endless recursion is rejected).
`ImportsSettled`: each file once, whatever the cycles and links. `AnalysisEnds`. The statements include
every form of the grammar, and each of them with one token replaced by any of twelve, removed, or cut off
there, and nesting around the limit of recursion. The families of sources are built around one thing each:
constants and scopes, inference, overloads and conversions, lambdas, purity, optional arguments, declarations,
imports. They leave out the operands of `&&` and `||` that leak constants (section 6).

**Platform.** `CallsSound`: each operation of a call finds the kind of value it expects, leaves the
caller's values alone and ends with one value of the promised type; what a call reads while it blocks or
afterwards survives a collection. `DescriptorsOwned`: a stream that is not closed has the file it was
created with, alone. `ResultsHonest`: the executor's error cell (`pErr`, which outlives its calls and which no
call clears) holds, after a call that failed, the error of that call and not one an earlier call left; a success
leaves it as it was; `read()` of the standard library, which only sees the string and the cell, takes a read of
at least a byte for failed exactly when it has; what was read is what arrived, a successful write wrote
everything, and another stream's file is reached only from a server that was shut down under the call. Two
operations are excepted by name, because their `false` may come with whatever was in the cell: `tcpShutdown`
(section 6) and `getIsTerm`, for which it is an answer. `FilesSound`: a listing stays within its buffer and shows what was
there all the time; `CreateNew` is a lock. `WatcherSound`: when all events are handled every
directory is watched under its path, and the watcher is freed by its last user. `AcceptEnds`: waiting in
`accept()` ends after shutdown. Two executors on one stream with programs of up to three calls make the
second call meet the first half way; two descriptors are few enough to be reused at once; names of length
one, two and three overflow a buffer for three.

`CHECK_DEADLOCK FALSE` is used where the system ends or may hang: `Waiting` (a collector that could not
be started, the self-lock of section 6), `ProcessSelfLock`, `Compiler` (the process exits). Elsewhere the
end is an explicit step that stutters.

## 4. Fairness

Every thread is weakly fair: the operating system schedules it. Beyond that:

- Executors reach safe points: novus has no loop but the call, and calls and returns trap. So a request
  to pause or abort is met infinitely often enabled, and `Abort`, `AbortChild`, `AbortWaiter` are
  strongly fair. The same holds for `TrapSpin`, whose condition may flicker between two collections.
- A mutex that is released again and again is eventually acquired: strong fairness of `Register`,
  `Unregister` and of the lock steps of `Process`. This is what pthread mutexes give in practice, not
  what the standard promises.
- A child process ends. Without it `block()` may rightly wait for ever.
- A server socket has a receive timeout (`ref_stream_tcp.hpp` sets it), so `accept()` returns: weak
  fairness of `AcceptTimeout`. Connections need not arrive.
- `Compiler`: weak fairness per executor, once a program is loaded. The passes need none: `Terminates`
  starts at the loaded program.
- `Frontend`: the analysis is one thread, `Progress` says that it goes on.

Nothing assumes that an executor forks, allocates, requests a collection or finishes, except where
`WF` of `SafePoint \/ Block \/ Finish` says that a running executor goes on. In `Waiting` the fairness is
that of the part that moves.

## 5. Proofs

Eight modules prove, for every set of executors or threads, every text, every tree of sources or directories and every value
of the other constants, what the runs check on small ones. Proved safety properties of runs: `WorldStopped`, `AllStacksVisible`,
`ImplementsWorld` (the refinement of `StopTheWorld`, step by step), `HeapSound`, `CollectionComplete`,
`ChunksSound`, `CollectNowSound`, `AnswerSound`, `NoWaiterWhenFreed`, `ExitCodeAgrees`, `NoZombie`,
`DescriptorsOwned`, `ResultsHonest`, `FilesSound`, `WatcherSound`, `TokensCover`, `NumbersExact`,
`ImportsSettled`. Type correctness, the asserts, `NoStrayRequest`,
`ListStable`, `TerminateStays` (a request to terminate is never replaced), `BudgetBounded` and `FinalForever`
are proved as well and have no run.

Each proof has one inductive invariant, stated in the module it is about and checked there by TLC before it
was proved, one lemma per action (or group of actions that change the same state), and lemmas about the
operators. Liveness is not among the theorems, and no fairness is used.

*Registry.* Assumed: `BufferedStores = FALSE` and `EarlyCollection = FALSE` (the theorem is false
otherwise, section 6), `Main \in Executors`. The invariant `RegistryInv` says, for each program point of
an executor, which handle states and requests are possible, who is on the list, who holds the mutex, and
which executors of the running pass were already seen paused. `WorldStopped` alone is not inductive: it
does not say that an executor between its two atomic accesses in `trap()` will meet the request. All
other safety properties, the action property `ListStable` and the refinement follow from it.

*Collector.* `CollectorInv` relates the id a caller waits for to `m_collectionStarted` and
`m_collectionFinished`, and the flags of the pending request to those of its callers: without it nothing
says that the collection that made the counter pass the id carried the flags. `BudgetHolds` rests on a
second invariant that counts, with cardinalities of finite sets, the executors between test and
subtraction.

*Future.* `FutureInv` says that `m_waiters` is the number of executors at program points between
increment and decrement, and ties the states of fork, future, destructor and `run()` together.

*Process.* `ProcessInv`: who owns the mutex, at which program points, also through the recursion of
`block()`; at most one thread is ever inside `waitpid()`, only its return reaps the process, and what it
gave is what everybody is told; the destructor's place.
`ExitCodeAgrees` alone does not say that the thread that has reaped and not yet published has the answer.

*Heap.* What is reachable, and what is on the list, are closures: least closed sets. No recursion is
involved, so an induction along references is the choice of a closed set, and every lemma about them shows
that some set is closed: adding an unreachable node, an edge between reachable nodes, or unlinking the
element behind `prev`. `HeapInv` says where a reference is that its allocation has not linked
yet (in use, on no list, its children on its owner's stack, behind no place of the sweep), that marking
stays within what is reachable and leaves nothing behind its queue, and that behind the sweep everything
reachable is marked and all garbage is yet to come. It holds for any number of executors and references,
string links included; assumed is only that `Nil` is no reference. The dangling use of `HeapCollapseRace`
is of a held pointer that is on no stack, which `HeapSound` does not speak of. `HeldAliveIfOnce` says that
nothing else can lose that pointer: in every behaviour in which no link in use is collapsed a second time
(`CollapsedOnce`), `HeldAlive`, which the run shows violated, holds.

*Chunks.* `ChunksInv` is the partition of the mapped chunks into those in use, the threads' caches and the
global sets, with exact counts and the size of a cache at each program point. The lemmas are about
sequences without duplicates (head, tail, append) and what the four ways in which a chunk or a whole
set changes place do to a partition. Sizes are unbounded: an area of any number of chunks, any number of
areas, mapping that may fail at any time.

*Streams.* `StreamsInv` counts who answers for a descriptor: streams (`Holders`), among them closed servers
whose shutdown has yet to call `close()`, and calls (`Openers`) that have a descriptor and no stream yet.
`Booked` says that no two of them share one. `CallInv` says that what a call's guards tested (kind and mode
of its stream) stays true while it blocks, `OneCloser` that one shutdown at most gets to close a server.
Assumed of `Scenarios`: the first stream is one that a program can have, with a descriptor of its own.

*Files.* `FilesInv` has three parts: who created a file in `CreateNew` mode still has it unless it was
removed, renamed or freed meanwhile (`CreatorsKept`); the buffer always has room for two names
(`RoomLeft`); and `ReadSound`, which relates a listing under way to the directory. Its bounds on the count
are cardinalities of sets of names, which one entry read, gone or come changes by one. Assumed: names are no
longer than `NAME_MAX`, which is larger than two, and are not `.` or `..`.

*Watcher.* There are two invariants, because memory and tree do not matter to each other. `WatcherInv`: the
reference counter is the collector's reference plus the executors inside `ioWatcherGet`, the watcher is
deleted exactly at zero, and the holder of the mutex is between its two ends. `TreeInv`: every directory of
the tree is `Attended`. Either the system watches it and its path leads to it (`Watched`); or an event that is
queued or read tells of it or of a directory above it (`Announced`); or a frame of `setupWatchesReq` will come
to it, because what it is about to open, watch, list or descend to is the directory or lies above it (`Reaches`).
`DirectoriesWatched` is what is left when there are neither events nor frames, and is not inductive: a step
between `opendir()` and `inotify_add_watch()` leaves a directory unwatched, and only what the frame has opened
and the event of a move that came between say that it will be found. The path of a directory would be a recursive function, and facts about
it inductions; here what is above a directory is a least closed set, and a path leads to a directory if there
is a walk from the root along its names. That a walk ends in one directory only, that it ends in the tree,
and what a move does to it are arguments about the least place where it goes wrong. Assumed: the tree at the start is one
(`IsTree`, a conjunct of `WatcherInit`), and directories, names and executors are not the values that stand for
none. The excuses are those of `DirectoriesWatched`: the queue overflowed, or the watcher has an error.

*Imports.* `ImportsInv` adds to `ImportsSettled` what holds half way (`PendingInv`): an import statement of
an imported file leads to an imported file, or was reported, or lies ahead of a frame of the walk that is in
that file. Assumed of a source tree: its main file is there,
links lead to files, and a file's own path leads to it. The theorem is about `ImportsSpec`, in which a later
phase does what every later action of `Frontend` does to these variables: it never returns to `"import"`
and leaves source, stack and imported files alone (TLC confirmed that `FrontSpec` implements `ImportsSpec`).

*Lexer.* For each scanner of the lexer a lemma says where its token begins and ends: at the character it
was called for, before the end of the text, however the text is damaged (a string's end, for instance, is
the least of several positions, of which the end of the text is always one). `CoverInv` puts the tokens
behind one another. Assumed of the texts: no NUL character within one, which ends it.
`NumbersExact` is about what a loop over characters computes, in the scanner as in the property. The loops
are recursive functions over the positions of the text (`Read`), and an induction along them is first-order:
the positions at which something holds are a set, and one that lacks a position lacks a least one
(`RangeInduction`). For each scanner a lemma relates its accumulator to the value of the digits so far
(`Worth`), a digit at a time: right while it fits, and flagged as too big from the digit on at which it no longer
does. The divider of a float is another such loop, which begins behind the decimal point (`DecimalPoint`). The widths of int
and long are any that leave ten int limits room in 64 bits (`WidthAssumption`): `nextStaticInt` tests
for overflow after it has multiplied, and is exact only because the step that goes past the int limit cannot wrap.

Only model-checked, and why:

- all liveness, which needs fairness and ENABLED: out of the prover's reach;
- `CallsSound`: `PlatformCalls` has no constants, so TLC's check of all calls is complete already;
- the properties of parser and compiler and the other ones of the frontend, which rest on recursive
  operators over texts and trees.

## 6. Findings and known limits of the code

With a run:

- `RegistryStoreBuffer`: `setState()` is a release store; on a machine that buffers stores an executor
  that leaves a blocking call runs on while the registry believes it paused.
- `HeapCollapseRace`: two executors collapse one string link; the loser's string is freed while it is
  written to a stream.
- `ProcessSelfLock`: `block()` recurses while it holds its mutex.
- `OptimizerMiscompiles`: a self call is not regarded as a side effect, so it is eliminated when its
  result is not used.
- `ConstantsLeak`: constants declared in an operand of `&&` or `||` stay visible after it, so programs
  are accepted that read a constant nothing has assigned.

Without a run, stated in modules or seen while modelling. In the machine:

- `RegistryAsserts` fails with `EarlyCollection = TRUE`: the collector may pause the registry before the
  main executor registers (`vm.cpp:118`).
- `Collector!InitFailureReturns` fails: if the collector's thread cannot be started, `run()` hangs
  (`garbage_collector.cpp:48`).
- `Future!NoUseAfterFree` fails: `block()` reads `m_state` after it gave up its count (`ref_future.hpp:52`).
- A request for a collection between termination of the collector and abort of the executors fails an
  assert (`garbage_collector.cpp:55`).
- An executor counts as paused before it is counted as a waiter; at shutdown the future, or a detached
  process, may be freed in between.
- A signal may be sent to a process id that was reaped.
- `AutoRemoveFile` removes the path when the stream is freed, even if opening failed or the file of that
  name is another's by then (`ref_stream_file.hpp:34`).
- `accept()` may be called on the number of a server's descriptor after shutdown closed it and another
  stream was given it; `errno` is stale after a write that
  was cut short; a socket that was opened or accepted leaks when the executor is aborted or memory is out.
- `tcpShutdown` returns `false` and leaves the error of an earlier call in place when `shutdown()` or `close()`
  fails or another executor has closed the server in between (`ref_stream_tcp.hpp:121, 131, 134`). Reading zero
  bytes succeeds with an empty string, which `read()` of `std/io/stream.ns:46` reports as the failure of whatever
  call set the cell last.
- The watcher dies when a directory vanishes between `opendir` and `add_watch`; a directory moved out of
  the tree stays watched under its old path; an overflow of the event queue goes unnoticed.

In the compiler:

- The other programs of `MCCompiler!Miscompiled` change their meaning too: a condition that folds to true
  overtakes those before it (`SwitchOrder`), a field read from a struct being made drops the other
  arguments' effects (`FieldEffect`), right shift is folded as signed and executed as unsigned
  (`SignedShift`), an unused constant whose initializer fails is dropped (`FailingConst`). They are left out of
  `Compiler`, whose programs shift non-negative numbers and have no such switch, field or initializer.
- `makeUnion()` in pure functions does not generate a tag expression (`gen_expr.cpp:870`).
- An illegal character within a word is skipped, not kept: `i'f` yields the keyword `if` (`lexer.cpp:552`).
- Return types of mutually recursive functions depend on the order of declaration; inference has one map of
  constants without scopes, so `u as int i -> i; u as bool i -> i` infers the second `i` as an int; it does not
  visit operands of `&&` and `||`, and does not apply the rule that the first argument is not converted.
- Between overloads that fit equally well the order of a hash table decides.
- Exhaustiveness compares the types tested with those of the union, not the values tested: conditions on two
  unions count for one.
- A file imported from a search path shadows one of the same relative name beside the importer.
- `check_inf_recursion` rejects functions whose later conditions recurse only when reached, as its
  comment admits.
- Filling in optional arguments leaves its depth set after an early return; a failed instance of a call is
  dropped from the children that are reported.

## 7. Not modelled

Diagnostics, formatting, disassembly and graphs are text. The operating system appears as nondeterministic
answers. Floating point comparison and formatting, three opcodes the backend never emits (`AtomicLoad`,
`Swap`, `CheckEqIp`), and reinterpretation of float bits are left out; the tree shaker's marking of types
is modelled for nodes, which carry the types of their constants. Memory exhaustion is modelled in
`ChunkAllocator` and `PlatformCalls` only. More than 255 arguments are not modelled.

Of the frontend: templates of functions and types, intrinsics and meta intrinsics, source locations, the
limits of recursion in inference and in function definition (`typeinfer_expr.cpp:19`), and a main source
without a path. Of the platform: Windows and macOS, the values of clocks, environment and paths, name
resolution beyond success or failure, and what terminals do with their options. The interrupt flag is one
exchange. The standard library, editor support, fuzz targets and examples are outside. `PROJECT.json`
lists every component with what is missing.

## 8. Plan

1. Proofs: that executors which read, write and wait on other components (`Heap`, `Future`, `Process`) do so
   in the modes of `StopTheWorld`, as refinements; the widths and slices of `Arithmetic`.
2. Templates of functions and types, as phases of `Frontend`.
3. One catalogue from text to output: parse nodes of `Parser` as sources of `Frontend`, its programs as
   those of `Compiler`.
