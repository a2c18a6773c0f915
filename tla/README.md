# A TLA+ verification of jdruby

jdruby is a Ruby implementation in Rust: a compiler pipeline (lexer, parser,
semantic analysis, HIR, MIR, LLVM IR), an interpreter and JIT for MIR, a runtime
library with threads and synchronisation objects, a garbage collector library
(`jdgc`) and a bridge to MRI's C API.  This directory holds TLA+ modules that
model its concurrent core and its compiler, the TLC configurations that check
them, and proofs that TLAPS checks.  `PROJECT.json` is the machine-readable index: which lines
each definition models, what each run checks, and a mutant for every property.

All paths below are relative to `src/crates/`.

## 1. Inventory

### 1.1 Runtime: synchronisation (`jdruby-runtime/src/stdlib/thread_ext.rs`)

| Part | State | Operations |
|---|---|---|
| `RubyMutex` | one `AtomicU64` (0 or the owner's id), a queue of waiting ids | `lock`, `try_lock`, `unlock` |
| `RubyCondVar` | a queue of waiting ids | `wait`, `wait_timeout`, `signal`, `broadcast` |
| `RubyQueue` | items, closed flag and capacity behind a std mutex, two condition variables | `push`, `try_push`, `pop`, `try_pop`, `pop_timeout`, `close` |
| `RubySemaphore` | `AtomicU64` of permits, a queue of waiting ids | `acquire`, `try_acquire`, `release` |
| `RubyRWLock` | one `AtomicU64` (0, the number of readers, or `u64::MAX`), two queues | `read_lock`, `read_unlock`, `write_lock`, `write_unlock` |

All of them spin: a thread that cannot go on puts its id in a queue, calls
`yield_now` and tries again.  Nothing ever wakes a queued id; the queues only
feed the `num_waiters` counters.  Hard: the load and the compare-exchange are
two steps, `unlock` clears the word before it touches the queue, `push` gives
the queue's lock up to wait and must look again.  Correct means: the word and
what callers were told agree, permits are conserved, items come out once and in
order, capacity and closing are respected, and nobody waits beside a free lock.

### 1.2 Runtime: green threads (`jdruby-runtime/src/thread.rs`)

`Scheduler` keeps the thread table (`RwLock<HashMap>`), the global run queue
(lock-free), the sleep queue (`Mutex<BinaryHeap>`), the I/O poller with its
table of interests (`RwLock`), and `current`.  `run` is an event loop: wake the
sleepers that are due, poll descriptors, dispatch up to ten threads.  `spawn`,
`park`, `unpark`, `join`, `sleep` and `block_on_io` are called from green threads
through a raw `*mut Scheduler`.  Hard: the same locks are taken in different
orders, guards live longer than they look (`if let Some(x) = lock.read().get()`
holds to the end of the block), `current` is read long before it is used, and
marking a thread runnable and queueing it are separate steps.  Correct means:
a runnable thread is queued, a sleeper will be woken, the loop comes round.

`fiber.rs` is not declared as a module of the crate and is no part of the program.

### 1.3 Garbage collector library (`jdgc/src`)

| Part | State | Operations |
|---|---|---|
| `Heap`, `RegionManager`, `Region`, `Allocator` | regions, each a bump pointer and a live count; the current region's index | `allocate`, `expand`, `reset`, `sweep_unmarked` |
| `TlabAllocator`, `ThreadLocalAllocBuffer` | a thread's buffer | `alloc`, refill |
| `ObjectHeader` | one atomic word: color, pinned bit, forwarding address | `try_shade_gray`, `set_color`, `pin`, `unpin`, `try_install_forwarding` |
| `Marker`, `MarkQueue` | gray objects | `seed_from_roots`, `process_queue` |
| `RootSet`, `ThreadLocalRoots`, `GlobalRoots` | registered roots | register, unregister, iterate |
| `barrier.rs` | none | `write_barrier`, `read_barrier` |

Nothing in the crate runs a whole cycle: `controller.rs` and `evacuator.rs` are
empty, `abi.rs` only declares functions, `scanning.rs` is not a module of the
crate.  Hard: a header's word is changed by read-modify-write from several sides
with compare-exchange in some places and load-then-store in others; a region's
`fetch_add` that overflows is taken back later by `fetch_sub`.  Correct means:
objects are disjoint and in bounds, a rooted object survives a cycle, colors only
move forward within it, one evacuator wins and readers never go back to the old
copy.

### 1.4 Bridge to MRI's C API (`jdruby-ffi/src`)

`bridge/` maps Ruby values to C `VALUE`s (a registry, a pool of strings, pinning);
`storage/` holds classes, methods, constants, instance variables and symbols in
process-wide tables, each behind its own lock; `capi/` are the exported functions.
Hard: tables that must agree have separate locks; a method is called while the
table it was found in is locked; a lookup and the insertion it decides on are
separate steps; ids of classes and objects come from counters with the same start
and stride; one global cell says who `self` is.  Correct means: equal strings have
one `VALUE` (`bridge/dedup.rs:12`), a `VALUE` names one thing and goes on naming it,
a block keeps what it captured, a method never sees another one's `self`, and a
call cannot block on itself.

### 1.5 Compiler pipeline and execution

| Part | State | Operations |
|---|---|---|
| `jdruby-lexer` | a position in the text, tokens, diagnostics | `tokenize` |
| `jdruby-parser`, `jdruby-ast` | a position in the tokens, diagnostics | `parse`: one function per construct and level of operators |
| `jdruby-semantic` | a stack of scopes, the classes and methods met | `analyze`: two passes |
| `jdruby-hir` | the tree being built | `AstLowering::lower`, `HirOptimizer::optimize` |
| `jdruby-mir` (`lower.rs`) | next register and label, the blocks of the function at hand, functions | `HirLowering::lower` |
| `jdruby-mir` (`optimize.rs`, `opt_*.rs`) | facts about registers, per pass | `MirOptimizer::optimize` |
| `jdruby-jit` (`interpreter.rs`) | registers, variables, methods, constants, objects, output | `load_module`, `call_function`, one arm per instruction |
| `jdruby-codegen` | slots, blocks and registers of a function, the module | `generate` |
| `jdruby-builder`, `jdruby` | the diagnostics so far | `build`, `run`, `run --interp`, the native build |

One thread and no shared state.  Hard: each pass takes for granted what another
one, in another crate, must have left: labels that resolve, registers that are
written, captures that fit.  A block is lowered in the middle of its function with
the same counters; after an error the parser skips and goes on, and two of the
four callers drop the diagnostics; the optimizer's facts travel from block to
block in the order of a list.  Correct means: the tokens are the text, a tree
survives being written and parsed, the MIR is well formed, the emitted code
passes LLVM's verifier, and what the program puts out is what Ruby says, with
the optimizer and without.

`jdruby-meta` is a second class system no other crate depends on.

### 1.6 Interactions

The pipeline is a chain of values handed over.  Shared state exists in four
places: the synchronisation objects (threads of the runtime), the scheduler (its
loop and the green threads), the collector's headers and regions (mutators and
collector), and the tables of the bridge (whoever calls C).

## 2. Modules

| Module | Models | Proofs |
|---|---|---|
| `WaiterQueue` | the queues of ids of `thread_ext.rs` | |
| `RubyMutex` | `RubyMutex`, `RubyCondVar` | `SyncProofs` |
| `RubySemaphore` | `RubySemaphore` | `SyncProofs` |
| `RubyRWLock` | `RubyRWLock` | `SyncProofs` |
| `SharedLock` | what a lock promises its holders; `RubyRWLock` and `RubyMutex` implement it | `SyncProofs` |
| `RubyQueue` | `RubyQueue` | `RubyQueueProofs` |
| `ClosableFifo` | what a closable bounded FIFO promises; `RubyQueue` implements it | `RubyQueueProofs` |
| `RegionHeap` | `Heap`, `RegionManager`, `Region`, `Allocator` | `RegionHeapProofs` |
| `GcMark` | `Marker`, `RootSet`, sweep, write barrier, pinning | `GcMarkProofs`, `HeadersProofs` |
| `Forwarding` | the forwarding word, read barrier, pinning beside them | `HeadersProofs` |
| `Scheduler` | `Scheduler`, its loop, poller and locks | `SchedulerProofs` |
| `GreenThreads` | no code: what a scheduler promises its threads; `Scheduler` implements it | `SchedulerProofs` |
| `FfiRegistry` | `Registry`, `StringPool`, allocation of strings, blocks and objects, the sweep | `FfiBridgeProofs` |
| `ValueTable` | no code: what the bridge promises of its `VALUE`s; `FfiRegistry` implements it | `FfiBridgeProofs` |
| `FfiDispatch` | `ClassTable`, `MethodStorage`, the entry points that define, look up and call methods | `FfiBridgeProofs` |
| `Lexer` | `Lexer::tokenize` as an operator from texts to tokens | |
| `Ast` | the nodes of `jdruby-ast` as tuples | |
| `Parser` | `parse` as an operator from tokens to trees, with recovery | |
| `Analyzer` | `SemanticAnalyzer`: scopes, types, counted diagnostics | |
| `AstToHir`, `HirOptimizer` | `AstLowering`, `HirOptimizer` | |
| `Mir`, `HirToMir` | instructions and blocks; `HirLowering` with block functions | |
| `MirOptimizer` | fusion, the eight standard passes, the peephole passes | |
| `MirInterpreter` | `MirInterpreter`: one action per kind of instruction | `PipelineProofs` |
| `ValueText` | `to_s` and `inspect` of its values | |
| `Codegen` | the LLVM functions emitted, as calls and values in blocks | |
| `Pipeline` | the passes as `build`, `run`, `run --interp` and the native build chain them | `PipelineProofs` |
| `RubySemantics` | no code: what Ruby says a program puts out | |
| `Programs`, `MetaPrograms` | no code: the programs the compiler is run on, and how a tree is written | |

Modules whose name begins with `MC` give constants their values and combine
modules that share nothing into one run (`MCSync`, `MCHeaders`, `MCBridge`);
`MCCompile` states what a compilation promises.  An operator
whose comment begins with `Mutant:` is a broken variant of the definition below
it; nothing refers to it except the mutation table of `PROJECT.json`.

### 2.1 How state and actions correspond to the code

*One atomic operation, or one critical section of a std lock, is one step.*  A
call that performs several is several actions with a program counter per
thread (`mutexPc`, `semPc`, `rwPc`, `pc`, `mStep`, `cpc`, `lpc`, `regPc`), and
everything the thread keeps across a step, such as a word it loaded, is a
variable.  Calls that change nothing are left out.  History variables
(`holds`, `out`, `readers`, `writers`, `delivered`, `committed`, `totals`, `answered`,
`copied`, `made`, `born`, `swept`, and `objects` of `RegionHeap`) record what callers were told; no guard reads them except where a caller is
required to give back only what it holds (`RubySemaphore`'s `Release`, the unlocks
of `RubyRWLock`): those functions check nothing, and the model takes the contract
of their Ruby wrappers.

* **RubyMutex.** `CallLock`, `LockAcquire`, `LockFail`, `LockEnqueue` are the loop of
  `lock`; `Unlock` and `UnlockPop` the two halves of `unlock`; `CvWait`, `CvUnlock`
  and then the steps of `lock` are `wait`.  `lock` is callable by the owner, who
  then spins for ever, as in the code.
* **RubyQueue.** `inner` is a mutex held from the checks to the change, so that is
  one step (`PushLocked`, `PopLocked`, ...); signals happen after `drop(state)` and
  are steps of their own.  `PushWait` waits on a mutex made for the purpose, which
  nobody else can hold, so it comes back at once, as the code does.
* **RubyRWLock.** The word keeps its width: `read_unlock` subtracts modulo
  `MaxWord + 1`, `MaxWord` standing for `u64::MAX`, the writer's mark.
* **RegionHeap.** `FetchAdd` is the `fetch_add` with its comparison, `Rollback` the
  `fetch_sub`, `Scan` the call of `can_allocate` (which forgets the header's size,
  as in the code), `Switch` the store of the current region.  `Expand` and `Reset`
  need `Quiet`: `expand` takes `&mut self`, and `reset` frees what others use.
* **GcMark.** Headers are the shared words.  The collector's steps are the loads,
  stores and compare-exchanges of `seed_from_roots`, `process_queue` and
  `sweep_unmarked`; the mutators' those of `write_barrier`, `pin`, `unpin`,
  allocation and root registration.  `StartCycle`, `SeedDone`, `SweepDone` stand
  for a driver the crate does not contain.  `Concurrent` says which mutator
  operations it allows during a cycle.
* **Forwarding.** One object and its header word; evacuators race with
  `try_install_forwarding`, pinners load and store the whole word, a reader goes
  through `read_barrier`.  `pinBeside`, chosen at the start, says whether pins may run beside
  evacuators, which the crate leaves to its driver.
* **Scheduler.** Every lock a step holds or waits for is state (`tReaders`,
  `tWaiting`, `sleepLock`, `iReaders`); a reader does not overtake a waiting
  writer, as in std's `RwLock`.  The types make `Scheduler` `!Sync`, yet each green
  thread carries a raw pointer to call back through and every field is locked, so
  clients run beside the loop.  Nobody in the crate runs a green thread's closure:
  a dispatched thread is `Running` and stays so until it is woken or blocked.
* **FfiRegistry.** Each table has its own lock, held for one access: the lookup in
  the pool, `alloc_value`, the two inserts, the registration in the pool and the
  store of a block are steps of their own, and a sweep is a snapshot and one
  removal per `VALUE`.  A string takes one of two paths: `StrToValue` through the pool, and
  `JdrubyToValue`, which allocates past it (`copied` remembers what that one answered).  A `VALUE` is its place in the order of `alloc_value`.
* **FfiDispatch.** One Ruby thread.  A compiled method may call anything in the API
  before it returns, so the state is a stack: calls push a frame, `Return` pops it.  A
  frame remembers whether its caller made the receiver `current_self` (to be cleared
  on return) and whether its caller sits inside `with_method_storage`.
  `jdruby_send_dynamic` looks up under the lock and calls outside it
  (`SendDynamic`); `MethodStorage::dispatch` is always called inside the closure
  (`PublicSend`, which also stands for method objects, `method_missing` and blocks
  made from symbols, and the `initialize` of `New`).  `object_class` makes singleton
  classes as a side effect, so a lookup changes the class table (`ResolveClass`).
  `stuck` is `"lock"` when the thread asks for the lock it holds, and `"loop"` when
  `lookup` runs round a cycle of superclasses.
* **The compiler's modules.**  A node is `<<kind, attribute, children>>`, and so is a
  node of HIR; an instruction is a record; a name made by formatting is a tuple
  (`<<"block_in", m, r>>`).  A pass that is a function in Rust is an operator; its
  mutable fields are a record threaded through (`LowerNode` takes and gives back the
  lowering's state, a parsing operator the position and the count of errors).  A parser
  that would never come back is a result with `hung`.  Where the code keeps a counter or
  map across calls that it should not, so does the model.
* **MirInterpreter.**  `Step` is one instruction or one terminator of the frame on top;
  `call_function`'s recursion is the stack `frames`, with what each caller saved.
  Values have no memory behind them: objects are numbers, arrays a map.  Instructions the
  lowering never emits are left out, as are floats' arithmetic and the larger part of the
  string methods.
* **Codegen.**  Per function: its blocks, each a sequence of calls and branches with
  the values they use, where a value is an instruction of this function, a parameter or a
  constant.  `BlocksEndOnce` and `UsesDominated` are what `Module::verify` looks at.
* **Pipeline.**  A variable per intermediate form and one step per pass; `route` is which of
  the four callers runs it.  `build` and `run` stop at a diagnostic of the lexer or the
  parser (`RejectTokens`, `RejectTree`), the other two never, and nobody stops at one
  of the analyzer.  The passes, and what a value prints as, reach the pipeline and the
  interpreter as operator parameters (`ParseTokens`, `LowerHir`, `TuneFunctions`, ...), which
  the configurations define as `Parser!Parse`, `LowerModule`, `OptimizeMir` and so on: they recurse over
  trees, and what is proved of the pipeline holds whatever they are.  In the route `native` the MIR is interpreted as well, to say what the
  unoptimized code means.

## 3. Runs

| Run | Instance | Shows |
|---|---|---|
| `sync` | 3 threads, 2 permits, `u64::MAX` = 7 | `LockAgreement`, `PermitsConserved`, `WordAgreement`; `LockProgress`, `PermitTaken`, `SomeoneGetsIt` |
| `queue` | 2 clients, 4 items, capacity 2 | `CapacityRespected`, `CloseReleases`; `ImplementsFifo` |
| `region_heap` | 2 threads, up to 2 regions of 10 bytes, payloads 1, 2, 5 | `NoOverlap`, `SpaceAccounted`; `AllocationEnds` |
| `headers` | 2 objects, 2 mutators; 2 evacuators, 2 pinners, 1 reader | `MarkingIsSound`, `ColorProtocol`, `OneWinner`, `ReadsMoveForward`; `InstallEnds` |
| `scheduler` | 2 clients, 2 green threads, 1 descriptor | `QueuesAgree`, `RunnableRuns`, `LoopComesRound` |
| `bridge` | 2 threads, 2 strings, 3 `VALUE`s; 2 classes, 2 objects, 2 names, nesting 2 | `AnswersResolve`, `DuplicatesBounded`; `NoForeignSelf`, `SingletonsKept` |
| `compile` | 1734 programs, 6953 texts, HIR templates; all passes, four routes | `TokensCover`, `TreeAsWritten`, `NothingLost`, `TypesHold`, `MirWellFormed`, `CodeVerifies`, `LoweredAsMeant`, `OptimizedAsMeant`, `CompilationsEnd` |
| `region_overlap` | 2 threads, 1 region | violation of `ObjectsDisjoint` |
| `scheduler_locks` | 2 clients that spawn and sleep | violation of `LoopKeepsRunning` |
| `block_captures` | the tables of `bridge` with 2 captured values | violation of `BlocksKeepCaptures` |
| `reentrancy` | as `bridge`, 3 classes | violation of `NoReentrancyDeadlock` |
| `optimizer` | as `compile` | violation of `OptimizerKeepsMeaning` |

Each passing run also checks the one type invariant of its modules.

### 3.1 What the violations show

* **`region_overlap`.** `Region::allocate_object` takes an overflowing `fetch_add`
  back with `fetch_sub`.  Between the two, a smaller request cannot succeed, but
  a rollback that arrives after the region was switched back and used again moves
  the bump pointer under objects that exist; the next request lands on them.
  It takes requests of two sizes: with one size the region is safe, and that is
  what `NoOverlap` says and TLAPS proves.
* **`scheduler_locks`.** `sleep` holds the thread table for reading when it asks
  for the sleep queue; the loop holds the sleep queue when it asks for the thread
  table; a `spawn` that waits to write in between makes both wait for ever.
* **`block_captures`.** The `VALUE` of a block is the interned string of its function's
  name.  Two blocks made by one piece of code are therefore one `VALUE`, and
  the captures stored for the second replace those of the first.
* **`reentrancy`.** `dispatch` is a method of the storage, and its callers reach the
  storage only through `with_method_storage`, whose write guard lives until the
  closure returns.  `drop(self)` drops a reference.  An `initialize` that calls
  another method waits for the lock its own `new` holds.
* **`optimizer`.** `eliminate_dead_branches_to_fallthrough` (`opt_peephole.rs:98`) replaces a
  branch to the next block of the list by `Unreachable`.  No block falls through:
  the interpreter returns nil there, and LLVM may assume it is never reached.  A
  program with a loop puts out nothing.  `OptimizedAsMeant` says what is left: code
  without branches and instance variables keeps its meaning.

### 3.2 Bounds and why they are enough

* *Waiter queues* are cut at one entry: no guard reads their length.
* *Three threads* in `sync` give a holder, a contender and a third that moves the
  word between the contender's load and compare-exchange (an ABA).  With `u64::MAX`
  = 7 a count off by a few would reach the writer's mark.
* *Queue.*  Capacity 2 with 4 items lets a full queue be drained and filled again.
  Items are named by the order in which pushes begin (`OrderedSpec`); no step looks
  at an item, so every behaviour is one of these with the items renamed.  Two
  clients leave out two pushers beside a popper; the safety properties are proved
  for any number.
* *Region heap.*  The payloads' totals are 4, 4 and 8 bytes in regions of 10: one
  payload leaves a rest no request fits, two share a total, and payload 5 makes
  `can_allocate` answer yes when the object does not fit.
* *Headers.*  Properties of a header are per object; two objects make a source and
  a target of a barrier, two mutators race on one of them.
* *Scheduler.*  `DispatchMax` stands for the ten dispatches of a round, `MaxQueue`
  bounds the wake-ups that are queued or under way (the code bounds neither).
  Client 1 spawns and wakes while client 2 sleeps, parks, waits for I/O or joins:
  the calls that take locks in opposite orders are on opposite sides.

* *Bridge.*  Two threads that miss together, and a sweep between them, need three
  `VALUE`s; threads and strings are interchangeable (symmetry), and the run has no
  liveness property.  A nesting of two is a method, what it calls, and the return
  to it.  Two names let `initialize` be there or not beside another method and be
  aliased.
* *Compile.*  A pass is a function of its input, so the instance is the set of
  inputs.  `Programs` has templates with holes, a family for each thing a pass does in
  a place of its own: arithmetic and assignment, calls with arguments that shadow
  locals, objects, `if`/`elsif`/`unless`, loops run 0 to 3 times, `case`, recursion, and
  (checked for form, not for meaning) closures in closures, `yield`, mixins, `rescue`,
  collections and declarations.  `Nested` has every operator as an operand of every other, on each
  side, written with no parentheses but those Ruby's precedence asks for: two operators of
  neighbouring levels, or of one, are read the wrong way round as soon as the levels are.
  The texts are all sequences of one to three of seventeen words, and of two words between the
  opening and the end of six kinds of bodies: each opener without its end, an end without
  opener, quotes and interpolations cut off, a body whose statements do not parse.  `MetaPrograms` reaches the arms for HIR that no parser
  produces.  Integers stay within `i64` by their size.

What the properties of `compile` leave out, and by which name:

* `TreeAsWritten`: the expressions `Misread` (95 of the 1595 of `Nestings`), where the parser's
  levels are not Ruby's, listed in section 5.  The set is exact: of each of them the parser makes
  another tree, or a diagnostic.
* `NothingLost` counts names, integers, strings, `def`, `class`, `if` and `->`, since what else a
  text consists of leaves no node of its own; without a diagnostic each must be there, unless the tree has a
  hash (18 texts): `parse_hash` drops a key without a value and says nothing.
* `CodeVerifies` holds block by block for every source and HIR template on both routes that
  emit.  For calls it leaves out `Miscalling` (`rb_ary_new` with arguments in `Collections`, and
  two texts in which `x` calls itself with an argument it is not declared with); for dominance, `Joining`:
  programs with an `if`, `case` or `?:`, whose value breaks it.  `UsesDominate` states it of all.
* `LoweredAsMeant` and `OptimizedAsMeant` speak of programs with a meaning in `RubySemantics`;
  `OptimizedAsMeant` of those without branches and instance variables, which have no join and no
  `Send` or `BlockCreate`: what the optimizer does to these is left to the run `optimizer` and section 5.
* `MirWellFormed`: a block's function is named after the method the block is given to and the
  next register (`lower.rs:279`), which starts again in every function.  Two methods that give a
  block to `each` at one register make two functions of one name, and `CapturesMatch` would fail;
  no program of the run has such a pair.

`CHECK_DEADLOCK FALSE` is set in the bridge's runs, where the bounds on `VALUE`s
stop `alloc_value` and a stuck thread stays stuck, in the `queue` run, where two poppers of an open,
empty queue spin without changing anything, and in the scheduler's, whose two
deadlocks are named by `SelfDeadlock` and `LockCycle`.  In `compile` it is on: a
compilation stops in `Rest` only, so an instruction without an arm would be found.

### 3.3 Fairness

Operating-system threads are scheduled: a call that has begun takes its next
step (weak fairness of each thread's `Proceed`); nobody has to begin a call, and
a holder does not have to unlock.  Spin loops therefore guarantee that *someone*
gets a free lock (`LockProgress`, `PermitTaken`, `SomeoneGetsIt`) and not that
each does; the code promises no more.  In `Scheduler` too the clients are only weakly
fair, so no lock is assumed to serve its waiters in turn, which std's do not promise;
the loop and deadlines go on (`WF` of `RunLoop` and `Deadline`).  `CloseReleases`
needs only weak fairness because every round of a blocked call ends once the
queue is closed.  In `MCSync` and `MCHeaders` a behaviour exercises one part;
the fairness of the idle ones asks for nothing, as they have no step enabled.
`Pipeline`'s `GoesOn` is that one thread computes until it has ended.

## 4. Proofs

TLAPS proves these for every value of the constants that satisfies the modules'
assumptions.

| Theorem | Module | Says |
|---|---|---|
| `MutexTypeCorrect`, `MutualExclusion` | `SyncProofs` | `MutexTypeOK`, `LockAgreement` |
| `PermitsAreConserved` | `SyncProofs` | `SemTypeOK`, `PermitsConserved` |
| `WordTellsTheTruth`, `RWTypeCorrect` | `SyncProofs` | `WordAgreement`, `RWTypeOK` |
| `RWLockImplementsLock`, `MutexImplementsLock` | `SyncProofs` | `RubyRWLock`, and `RubyMutex` with nobody sharing, implement `SharedLock` |
| `SyncTypeCorrect` | `SyncProofs` | `TypeOK` of `MCSync`, the three primitives together |
| `QueueTypeCorrect`, `CapacityHolds`, `ClosedQueueDrains`, `QueueImplementsFifo` | `RubyQueueProofs` | `TypeOK`, `CapacityRespected`, `ClosedOnlyDrains`, and that `RubyQueue` implements `ClosableFifo` |
| `HeapTypeCorrect`, `SpaceIsAccounted`, `UniformNoOverlap` | `RegionHeapProofs` | `TypeOK`, `SpaceAccounted`, `NoOverlap` |
| `MarkTypeCorrect` | `GcMarkProofs` | `MarkTypeOK` |
| `MarkIsSound`, `ColorsFollowProtocol` | `GcMarkProofs` | `MarkingIsSound`, `ColorProtocol`, under `QuietPins` and `QuietRoots` |
| `OneEvacuatorWins`, `ReadersMoveForward` | `HeadersProofs` | `OneWinner`, `ReadsMoveForward`: of the behaviours in which no pin runs beside an evacuator (`~pinBeside`) |
| `FwdTypeCorrect`, `HeaderTypesCorrect` | `HeadersProofs` | `FwdTypeOK`, and `TypeOK` of `MCHeaders`, without those conditions |
| `CollectorIsSafe` | `HeadersProofs` | the four properties of marking and evacuation of the collector that does both |
| `SchedulerTypes`, `NoThreadIsForgotten` | `SchedulerProofs` | `TypeOK`, `QueuesAgree` |
| `LocksAreAccounted` | `SchedulerProofs` | each lock is in the hands of exactly those between taking and leaving it |
| `OnlyNamedDeadlocks` | `SchedulerProofs` | `LoopIsLetOn`: the loop has no deadlock besides `SelfDeadlock` and `LockCycle` |
| `SchedulerImplementsThreads` | `SchedulerProofs` | `Scheduler` implements `GreenThreads` |
| `ValuesResolve`, `DuplicatesAreBounded`, `RegTypeCorrect` | `FfiBridgeProofs` | `AnswersResolve`, `DuplicatesBounded`, `RegTypeOK` |
| `RegistryImplementsValues` | `FfiBridgeProofs` | `FfiRegistry` implements `ValueTable` |
| `SelfIsNeverForeign`, `SingletonClassesAreKept`, `DispTypeCorrect` | `FfiBridgeProofs` | `NoForeignSelf`, `SingletonsKept`, `DispTypeOK` |
| `BridgeTypeCorrect` | `FfiBridgeProofs` | `TypeOK` of `MCBridge` |
| `CompileTypeCorrect` | `PipelineProofs` | `TypeOK` of `Pipeline`, whatever the passes, while `MirFits` |
| `DiagnosedStops` | `PipelineProofs` | `DiagnosedIsRejected`: a diagnostic of the lexer or parser is the end of a `build` or `run` |

So every safety invariant and every action property that the runs check outside
`compile` is a theorem, and so is `compile`'s `TypeOK`.  Those about marking and evacuation
have hypotheses besides the modules' assumptions, which the code leaves to its driver,
`CompileTypeCorrect` has one that the run checks, and `NoOverlap` has one in itself:

* `QuietPins` and `QuietRoots` (`"pin"` and `"register"` are not in `Concurrent`):
  beside a cycle `pin` stores a word it loaded earlier (`header.rs:129`) and so can undo
  a shading, and a root registered after the seeding is not shaded in that cycle
  (`marker.rs:101`).  With either one TLC finds `MarkingIsSound` violated (section 5).
* `~pinBeside` in `OneWinner` and `ReadsMoveForward`, for the same store against an evacuator's
  exchange: `pinBeside` is chosen once per behaviour, and says whether the driver lets pins run
  beside evacuators.  The run explores both; the two properties speak of the second kind only.
* `MirFits` in `CompileTypeCorrect` (a function handed on has a first block, branches to blocks it
  has, and counts its registers): what `call_function` takes for granted of the lowering and the
  optimizer.  The run `compile` checks it of the real passes, as the first part of
  `MirWellFormed`; of a pass the theorem needs nothing else.
* `NoOverlap` speaks of heaps whose requests all had one size; for others the run
  `region_overlap` shows that objects overlap.  `SpaceAccounted` holds for any sizes.

The assumptions on constants are what the code's types give, with one bound:
`FewThreadsAssumption` (fewer threads than values of the read-write lock's word).
`ClientsAssumption` says that the loop is not one of its clients, `NothingAssumption` that no
string is the mark of an empty entry, `FrontEndAssumption` that counts of errors are numbers.

The theorems speak of one module's specification.  Where an MC module runs several
(`MCSync`, `MCHeaders`, `MCBridge`), its proof module shows that a step of the whole is a
step of one part and leaves the others alone, so that the whole implements each part
(`PrimitivesRefine`, `PhasesRefine`, `BridgeRefines`) and inherits what was proved of it.

The arguments:

* **Mutex, semaphore.**  The type invariant and the property together are
  inductive; what carries them is that only a compare-exchange from the value
  tested changes the word.
* **Read-write lock.**  `WordAgreement` (the word is the number of readers, or the
  mark and one writer) needs that fewer threads exist than values of the word
  (`FewThreadsAssumption`), so that a count never meets the mark, and the cardinality
  of `readers` through each step.
* **Locks.**  The abstract variables of `SharedLock` are the histories `readers` and `writers`
  (of the mutex: nobody and `holds`).  That a `compare_exchange` may only succeed when the
  abstract lock allows it is what `WordAgreement` and `LockAgreement` say of the word; every
  other step stutters.
* **Queue.**  Capacity needs that length and closed flag are read in the step that
  appends.  The refinement maps the state to itself (`items`, `closed` and `res` are the
  abstract variables); each step is one abstract step or a stutter.
* **Region heap, space.**  `SpaceAccounted` speaks of moments with nothing in flight and
  is not inductive.  `SpaceInv` says of every moment that the bump pointer is the
  committed bytes plus what each thread that has overflowed still owes (`BumpOwes`),
  and that the live count lags the objects by the threads between placing and
  counting (`LiveCounts`).  The owed sizes differ, so what is owed is a sum over a set of
  threads; without a recursive operator the sum is stated by its partial sums along a
  numbering of the threads (`SumsTo`), and `SumChange`, by induction along that numbering
  (`SetInduction`: a set of numbers without a least counterexample has none), says how it
  moves when one thread's term does.
* **Region heap, overlap.**  `NoOverlap` is far from inductive.  The invariant says that while
  all requests have one total size, the bump pointer of a region is what was
  committed plus one total for every thread that has overflowed and not yet given
  back, that a region with such a thread is full for that size, and that every
  object lies below the committed bytes.  A rollback then never reaches into them.
* **Marking.**  The operations on a header are a load and a store or compare-exchange
  apart.  `MarkInv` says what each half-done one may still assume: a word about to be
  blackened is still the one loaded (`LoadedWord`), since barriers only touch white
  headers; pins happen alone (`PinsAlone`); headers of objects not laid out are fresh
  (`OnlyAllocated`); and `RootsShaded` carries the roots through the phases: shaded as the
  seeding passes them, none white while marking, none white ahead of the sweep.
* **Forwarding.**  The invariant ties the address in the word to the winner's
  answer; a pin's stale word is excluded because pinning happens only when no
  evacuator is at work (`~pinBeside`).
* **Scheduler.**  `QueuesAgree` (a runnable thread is queued, a sleeper has an entry) is
  inductive with the types, because each part says of the steps between marking and
  queueing who has the thread in hand: a client between `wake` and `push`, or the loop
  between `pop` and its use of the id.  The lemmas about the global queue say what an
  append and a pop leave queued; each client call and each part of a round is a step.
* **Scheduler, locks.**  Waiting is a relation between what one thread holds and what another
  asks for, so the invariant pins every lock to program counters (`LocksAgree`).  The rest is
  by cases on the guard at which the loop waits.  At `top` nobody holds the sleep queue; where it waits
  for the table, either a client inside the table can go on, or a writer waits for the readers
  that are there: one that pushes goes on, and one that sleeps waits only for the loop, which is
  `LockCycle` if the loop has the sleep queue and otherwise does not happen.
* **Scheduler, refinement.**  `scheduled` is every id that is queued or in somebody's hands
  (`Scheduled`) and `alarmed` every one with an entry or about to get one (`Alarmed`), the two notions
  `QueuesAgree` is made of.  A wake-up's store is the abstract `Wake` and its push a stutter; a pop is a
  stutter too, and the loop's use of the id is `Run` or `RunNothing`.  The insertion is
  `Spawn` because an id about to be inserted is in no one else's hands and not in the table
  (`SpawnedOnce`).
* **Registry.**  `AnswersResolve` needs that no answered `VALUE` is overwritten and
  that the pool holds no wrong one.  The invariant adds that a `VALUE` between
  `alloc_value` and `insert` is in one thread's hands and in no table (`Private`), that
  nothing above `next_id` is in use (`Unissued`), and that pool entries resolve.
* **Duplicates.**  `Counted` charges every `VALUE` of a string to a thread: the answers
  there are and the threads that have missed the string and not registered it are
  together no more than the threads.  A miss adds a thread only while nothing has been
  answered, because the pool, once it has a string, never forgets it.
* **Registry, refinement.**  The abstract state is `objects`, `answered` and `swept` themselves; what is
  hidden are the pool, the counter and the snapshots of sweeps.  An insertion is `Give` because the `VALUE` is one
  thread's and has never meant anything (`Owned`), an answer from the pool is `Answer` because the pool
  holds no `VALUE` under two strings nor under another than it was answered for (`OneMeaning`), and
  two sweeps whose snapshots overlap take a `VALUE` away once (`SweepsAgree`).
* **Dispatch.**  `NoForeignSelf` is inductive with the types: every call pushes at most
  one frame (`CallStep`), and a push or a pop keeps the innermost self (`StackStep`).
* **Singleton classes.**  Every one is among the classes there are (`SingletonsListed`) and
  a new one is the next (`ClassesGrow`, call by call), so it is nobody else's.
* **Interpreter.**  `MachineInv` says of the stack, of the functions that can be called and of what each frame
  will return to that they fit one another (`Executable`, `StackFits`).  A branch looks its label up by
  a search from the front of the list, a call by a search from the back; that the search finds a place is
  the least-number principle (`LeastNat`, from the library's well-foundedness of `<`).  `PipelineInv`
  adds that functions reach the interpreter only at the stages that hand them over.
* **Diagnostics.**  `FrontInv` remembers where the tokens came from, so that the parser's count is one of those
  `FrontEndAssumption` speaks of.

Only model-checked: the liveness properties (`LockProgress`, `PermitTaken`,
`SomeoneGetsIt`, `CloseReleases`, `AllocationEnds`, `InstallEnds`, `LoopComesRound`,
`RunnableRuns`, `CompilationsEnd`), because they rest on fairness; and what `compile` says of
the passes' results (`TokensCover`, `TreeAsWritten`, `NothingLost`, `TypesHold`,
`MirWellFormed`, `CodeVerifies`, `LoweredAsMeant`, `OptimizedAsMeant`): the passes recurse over trees, and
what a recursive definition computes is proved by an induction over data, which the installed
provers do not do.

## 5. Disagreements between code and documents that have no run

Each follows from reading one function; no interleaving is needed, so a run would
add nothing.

* `RubyCondVar::wait` returns without a signal and leaves its entry in the queue
  (`thread_ext.rs:116`): `signal` may pop a thread that is not waiting, and
  `num_waiters` counts threads that are gone.
* `Marker::process_queue` blackens an object and does not look at its fields
  (`marker.rs:122`): an object reachable only through another is swept.
* A root registered after seeding is not shaded in that cycle (`marker.rs:101`).
  A `pin` beside marking writes an old color back.  `GcMark` with `"register"` or
  `"pin"` in `Concurrent` shows each as a violation of `MarkingIsSound`; the run that
  passes leaves both out, as requirements on the driver.
* `pin` and `unpin` load the word, change a bit and store the word (`header.rs:129`).  An
  evacuator that wins in between loses its forwarding address, and another can win
  again: two copies of one object.  `OneWinner` is violated without its condition
  `~pinBeside`.  An evacuator whose exchange fails starts over, so one beside a thread that goes on
  pinning need never end: `InstallEnds` says that it ends once pins cease (`PinsCease`), in
  behaviours with pins beside it and without.
* `Registry::next_id` and `ClassTable::next_class_id` both start at `0x10000` and step by 8
  (`class_table.rs:33`).  `object_class` asks first whether a `VALUE` is a class, so an
  object whose number is also a class's answers with that class's singleton class.
  `ClassOfInstance` states that it does not, and is violated with three classes.
* `try_install_forwarding` does not test the pinned bit (`header.rs:172`).
* The loop's handling of a descriptor calls `unregister`, which takes the write
  lock of `interests`, inside the `if let` that holds its read lock
  (`thread.rs:602`): the thread waits for itself.  `SelfDeadlock` names the state, and
  `LoopComesRound` and `RunnableRuns` hold everywhere else.
* Two threads that ask `str_to_value` for one new string at once get two `VALUE`s
  (`dedup.rs:34`), against "same content = same VALUE" (`dedup.rs:12`).  One thread is
  enough on the other path: `jdruby_to_value` of a string (`conversion.rs:22`, reached by
  `rb_ary_dup`) calls `allocate_rstring` without the pool and makes a new `VALUE` every time.
  `DuplicatesBounded` says how many the first path can answer with, and nothing of the second.
* A sweep tells neither the pool nor the classes nor the blocks (`registry.rs:242`): the
  pool goes on handing out `VALUE`s the registry does not know.
* `dispatch` and `jdruby_send_dynamic` clear `current_self` when the callee returns
  (`method_storage.rs:227`, `runtime.rs:1311`), so a method that has called another one
  sees the main object as `self` for the rest of its body.
* `jdruby_cvar_set_dynamic` stores a class variable as a class whose superclass is the
  value (`runtime.rs:1461`), and `jdruby_cvar_get_dynamic` answers with that class.  When
  the value's number is the new class's own, `lookup` never ends (`stuck = "loop"`).
* The superclass of a singleton class is the class's superclass and not that one's
  singleton class (`class_table.rs:102`): class methods are not inherited.
* `jdruby_send` and `rb_funcallv` look the receiver up as if it were a class
  (`runtime.rs:300`, `class.rs:38`).
* `join` waits for a thread to be dead, and nothing runs or ends green threads.
* `steal_batch` drops ids that a full local queue refuses (`thread.rs:314`), `MarkQueue` changes
  its length after it let the lock go (`marker.rs:29`), `read_unlock` by one who holds nothing
  makes the word the writer's mark (`thread_ext.rs:450`), `InlineCache::update` stores its words one by
  one (`inline_cache.rs:60`): nobody calls the first and the last, nobody reads the second.

Of the compiler, met while it was modelled; the model does what the code does.

* `parse_body_until_when` (`parser.rs:1144`) lacks the step its siblings have "to prevent infinite
  loop" (`parser.rs:1114`): a token no statement starts with, in the body of a `when`, is never
  skipped.  `ParserReturns` of `MCCompile` states the opposite; stage `hung` is where it ends.
* `README.md:24` calls the MIR strict SSA with explicit `Phi` nodes.  There is none: the
  merge block copies the register of the then-branch, whichever branch was taken, and the
  code generator uses it where its definition does not dominate; `Module::verify` then refuses
  the module.  `UsesDominate` of `MCCompile` states it and fails for every kind of branch with a value.
* What the grammar does not read as Ruby does: `f[0]` is a call with an array; `{ a: 1 }`,
  `x ? a : b` with a plain `a`, braces of a block after a call without parentheses, `return if c`,
  `rescue` in a method's body and keywords after a dot fail; the `do` of `while n do` belongs to
  `n`; `def v=(x)` is an endless method; an integer too
  large is 0; a letter outside ASCII and strings stops the lexer; `{ x }` is an empty hash.
* The levels of operators (`parser.rs:265` to `parser.rs:469`) are not all Ruby's.  `!` stands between
  `&&` and the comparisons: `!x == y` is `!(x == y)`, `!x + y` is `!(x + y)`, and `x == !y`, `x + !y`, `-!x`
  are errors.  `..` binds tighter than comparisons and logic: `1..x && y` is `(1..x) && y`.  `==` and its
  kind are on one level with `<`: `a == b < c` is `(a == b) < c`.  `^` binds tighter than `|`:
  `a | b ^ c` is `a | (b ^ c)`.  A sign binds tighter than `**`: `-2 ** 2` is `(-2) ** 2`.  `and`, `or` and
  `not` are on the levels of `&&`, `||` and `!`.
* Diagnostics inside an interpolation are dropped; so are all of them by `run --interp` and
  the native build, and the analyzer's by everybody.  An assignment in a method retypes a local of
  the same name outside it; strings with interpolations are not analysed.
* `run --interp` calls every function with no arguments, in order, and never `load_module`
  (`main.rs:282`): no method is found, and `main`'s output appears among that of the others.
* Two `elsif` branches whose conditions hold both run; a `when` with several patterns
  does not look at the subject; `&&` and `||` evaluate both sides; the value of an `if` is that of
  its first branch.
* The optimizer removes the store of `self` that `@v` needs (`optimize.rs:190`), drops the operands of
  `Send`, `BlockCreate`, `BlockInvoke` and `IncludeModule` (`optimize.rs:216`), and keeps facts
  across joins (`optimize.rs:158`).  Folding and the interpreter disagree on `false == false`
  and `!!nil`.
* The interpreter gives every class the id 0, divides integers toward zero, and sends a
  call without a receiver that names no function to `self`, with `self` as its first argument too.
* The code generator emits nothing for `BlockInvoke`, `UnOp`, `ModuleNew`, `ProcCreate`, `LambdaCreate` and
  `DefineMethodDynamic`; `**`, `&&`, `||`, `!=` and bit operators return their left operand; `$x` is a
  local; a float is a pointer; two functions with one sanitized name are emitted into one;
  `rb_ary_new` is called with arguments and declared without; a method called with another number of
  arguments than it has makes a module LLVM refuses; `@v` outside a method takes register 0 for
  `self`, and is an error where there is none; blocks of two functions may share a symbol (`lower.rs:279`).

## 6. Not modelled

* Files that are no part of the program: `fiber.rs`, `scanning.rs`; empty ones:
  `controller.rs`, `evacuator.rs`; `abi.rs`, which only declares; `opt_metaprogramming.rs`,
  `profile.rs`, `jdruby-meta` and the entries of `inline_cache.rs`, which nothing uses.
* `compiler.rs` and `optimizer.rs` of `jdruby-jit`: `run --jit` has LLVM compile each function
  and drops the result.
* Values, classes and the core library of `jdruby-runtime`: sequential wrappers of Rust
  collections and of the operating system.  Of the C API: arithmetic, arrays, hashes,
  strings and the error cells; of its storage: constants, instance variables, symbols.
* Wording of diagnostics and of dumps, source positions beyond a token's own, text
  outside ASCII; floats.
* The LLVM library and the linker; files, options and project commands.
* Weak memory: the atomics modelled use `Acquire`/`Release` or stronger on the one
  word that matters for each property, and steps are interleaved.
* The scheduler's shutdown, local queues and work stealing; thread-local allocation
  buffers; the statistics of evacuation; the mark queue's batch interface and stack
  scanning.

## 7. Where to go on

The bridge's arrays and pins with the objects they protect; a rewritten `if` lowering
(one register written by both branches, or a `Phi`) would let `UsesDominate` replace the
last part of `CodeVerifies`; a corrected `opt_peephole.rs` would let `OptimizerKeepsMeaning`
replace `OptimizedAsMeant`; an abstract specification of the marking's queue and of the
storage's tables, as `GreenThreads` and `ValueTable` are for the scheduler and the registry.
