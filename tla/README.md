# Toi: a TLA+ model of the interpreter

Toi is a small Lua-like language: a compiler to bytecode, a peephole optimiser, a stack VM, a
mark-and-sweep collector, coroutines, generators, OS threads behind a global interpreter lock
(GIL), and a standard library in C and in Toi, a B-tree store among it. This directory holds TLA+
modules translated from its source, the TLC configurations that check them on small instances, and
TLAPS proofs. Line numbers below and in `PROJECT.json` refer to files under `src/` of the
repository (`thread.c` is `src/lib/thread.c`).

## 1. The system

The table lists the parts, what each keeps and does, what makes it hard, and what makes it
right. "Where" says which module models it; a dash means that it is not modelled (section 7).

| Part | State | Operations | Hard because | Right if | Where |
|---|---|---|---|---|---|
| Interpreter lock, current VM thread (`thread.c`, `vm.c`) | GIL mutex; `VM.current_thread`, a thread-local slot, `use_thread_tls`; the park list with counts | acquire, release, suspend, resume, enable TLS, set current; thread start and end | OS threads interleave at every blocking native; the collector needs every live stack | nobody wakes up in a foreign VM thread; every live stack is a root | `Gil`, `GilProofs` |
| `thread` functions (`thread.c`) | `ThreadData` of each spawn, handles, mutexes | spawn, join, yield, sleep, lock, trylock, unlock | data passes between OS threads outside the VM stacks; creation may fail; results race with handles | arguments and results outlive the hand-over; data freed once; no deadlock with the GIL | `ThreadLib`, `ThreadLibProofs` |
| `thread.channel` (`thread.c`) | linked queue, count, capacity, closed, mutex, two condition variables | send, recv, tryrecv, close, mark | lost wakeups, lock order, values between stacks | FIFO pipe, no lost wakeup, close releases all | `Channel`, `ChannelSpec`, `ChannelProofs` |
| Interpreter loop (`vm.c`, `vm/*.c`) | operand stack, frames, upvalues, handlers of each VM thread; nested `vm_run` calls on the C stack; `run_stop_thread` | every instruction; callback from a native, unwinding | slots, captured locals and pending stores on every path; C code that waits for bytecode | a program does what it means; one control stack | `Machine`; `VmRun`, `VmRunSpec`, `VmRunProofs` |
| Coroutines, generators (`coroutine.c`, `core.c`) | `caller`, `frame_count`, `generator_mode` of each VM thread | create, resume, yield, status, `gen_next`, `sum` | links between VM threads, shared with callbacks | as above; answers have the form the asker expects | `VmRun`, `VmRunSpec`, `VmRunProofs`, `Machine` |
| Exceptions (`ops_exception.c`, `vm.c`, `stmt_control.c`) | handler stack, pending exception of a VM thread | try, end of try, end of finally, throw, return, break, continue | ways out of a block; state across a finally clause | handlers follow the nesting of the source; finally runs and rethrows | `Exceptions`, `ExceptionsProofs`, `VmRun`, `Machine` |
| Imports (`ops_import.c`, `vm.c`) | module cache; `__name`, `__file`, `__main` saved in frames | import, import star, return of a module | cycles, exceptions while loading | a module runs once; its context is restored | `Machine` |
| Compiler (`compiler.c`, `compiler/`) | scopes, locals, upvalues, type hints, loop contexts, jumps to patch | one function per construct | stack slots on every path of control; hints kept across branches | slots agree on all paths; the code does what the source means | `Compiler`, against `Meaning` |
| Optimiser (`opt.c`) | a chunk | fold constants, fuse and drop instructions, move jumps | jumps into and across rewritten code | same behaviour | `Optimiser` |
| Hash table (`table.c`, `vm/ops_table.c`, `tablelib.c`) | entries, tombstones, array part, versions and inline caches | get, set, delete, push, insert, remove, reserve, clone, grow | tombstones, keys moving between the parts, stale caches | it is a map; a cache never lies | `Tables` |
| B-tree store (`btree.c`) | pages, free list, header | put, get, delete, range, open | splits, reuse of pages, crash between writes | a sorted map; pages are neither lost nor shared; a crash loses little | `BTree`, `BTreeProofs` |
| Heap and collector (`object.c`, `vm.c`) | list of objects, marks, byte counts | allocate, mark, sweep | values held only by C locals | nothing reachable is freed | reachability in `Gil`, `Channel`, `ThreadLib`, `Tables` |
| Lexer (`lexer.c`) | indentation stack, pending tokens | next token | dedent over several levels | INDENT and DEDENT balance | - |
| HTTP server (`lib/http_server`) | listener, client queue, active connections, handler table | accept, handle, stop; coroutine, worker-pool and threaded loops | stop while work is queued, failing handlers | every accepted client is closed once; stop ends | - |
| Schedulers (`lib/scheduler.toi`, `lib/selector.toi`, `poll.c`) | run queue, sleepers, registered descriptors | spawn, step, register, select | coroutines that end or sleep while scheduled | nobody is forgotten | - |
| HTTP client, sockets, TLS (`http.c`, `socket.c`) | buffers, descriptors | parse, read, write | partial reads | the same request however it is cut | - |
| Database (`lib/db.toi`) | tables and indexes over the store | insert, update, delete, query | index and row written in two steps | indexes agree with rows | - |
| Signals (`signal.c`, `vm.c`) | `interrupt_requested`, handlers | raise, poll | one flag, many OS threads | - | - |
| Formats, strings, regex, math, OS libraries, REPL, CLI | none or buffers | pure functions, system calls | - | - | - |

Interaction: source text becomes a syntax tree, the compiler turns it into a chunk, the optimiser
rewrites the chunk of a script (not of the functions in it), and the VM runs it. A native is called
with its arguments still above the stack pointer of the current VM thread, but already popped
(`vm.c:428`); it may run the VM from C (`vm_run`), switch the current VM thread (coroutines), or
give up the GIL around a blocking call (`suspend_vm_thread` ... `resume_vm_thread`). The collector
runs in whichever OS thread allocates; its roots are the current VM thread, the parked ones,
globals and modules. The store is used by one OS thread at a time and has no lock.

## 2. Modules and how they correspond to the code

`PROJECT.json` gives, for every definition, the lines it stands for.

**`Gil`** State: `gil` (holder of the lock), `vmCur` (`VM.current_thread`), `useTls`, `tls`,
`saved` (the local `caller` of a native between suspend and resume), `parkCount` and `parked`
(`gc_park_count`, `gc_parked_threads`), `born` (allocated VM threads), `life` of each OS thread, `spawning`
(threads between giving up the lock in `thread_spawn` and `pthread_create`). `SuspendVm`,
`ResumeVm`, `SuspendToSpawn`, `CreateOsThread`, `EnterRunner`, `LeaveRunner` are operators that
`ThreadLib` and `Channel` use inside their actions; `Gil` itself takes them in any order, with
`SwitchVmThread` for everything coroutines do, so its state space contains every order of the
natives. An OS thread may block inside a coroutine another OS thread is blocked in.

**`ThreadLib`** extends `Gil` with the program counter of each native, the `ThreadData` of each
worker, one `thread.mutex`, and the objects: argument, handle and result of each worker. `stack`
is what each VM stack refers to; `Collect` frees what `MarkedStacks` and `thread_handle_mark` do
not reach. `FinishWorker` is `vm_run` and the end of `thread_runner`, with or without an error.

**`Channel`** extends `Gil` in the same way with one channel. `sendLock`, `sendWait`,
`sendCheck`, ... are the places inside `channel_send` and `channel_recv` between two steps that
another OS thread can observe. `pthread_cond_wait` is the move to a wait place, which releases
the mutex; a signal moves one waiter back to the lock; `SpuriousWakeup` does so without a signal.
`accepted` and `delivered` are history for the refinement to **`ChannelSpec`**, the FIFO pipe.

**`VmRun`** is one OS thread. `runs` is the C stack of `vm_run` calls with their
`min_frame_count`: `program` for the outermost, `callback` for natives that call a Toi function
(`table.sort`, `table.find_index`, `print` and `to_string` with `__str`, templates), `drive`
for `vm_run_until_thread` in `sum`. `frames`, `caller`, `genMode`, `handlers` are the fields of
`ObjThread`. `Return` is the whole of `OP_RETURN`: handlers discarded, the frame popped, and then
the comparison with `min_frame_count`, the switch to the resumer, or the end of `vm_run`.
**`VmRunSpec`** is what a programmer assumes: a stack of VM threads, natives that wait at a level
of one of them, and no transfer of control across a native. The refinement maps `active` to
the chain of `caller` links from the current VM thread.

**`Exceptions`** is one VM thread with the nesting of the source as its program counter
(`regions`): functions, loops, try blocks, except and finally clauses. A handler remembers the
nesting at its `OP_TRY`, which stands for its frame, stack height and the addresses of the
clauses. The `cause` of a finally clause and `displaced` are history: the exception that led into
it, and the clauses whose exception another has taken the place of. `Raise` is `handle_exception`; a `with` is a try with an except clause that throws again
and a finally clause.

**`Compiler`** takes a syntax tree and returns the instructions that `compiler.c`, `stmt.c`,
`stmt_control.c` and `fstring.c` emit for it. The parser of the code emits while it reads tokens;
here precedence and layout are the tree, and the rest is the state of the code: the compilers of
nested functions, locals with depth, `is_captured` and type hint, upvalues, the type stack, loop
contexts with their break and continue jumps, the pool of constants and its limit. `junk` is the value of the field that
`while_statement` leaves uninitialised. **`Optimiser`** is `optimize_chunk`: the rules in
order, the constants that folding adds to the pool, the test for jumps into what a rule replaces,
the new targets. **`Loader`** joins the two as
`compile_with_mode` does.

**`Machine`** executes the result: one action per group of instructions (`Next` lists them by
family), each the whole handler. The state of the machine, `vm`, is one record with the VM threads
(stack, frames, handlers, pending stores), upvalues, tables, globals, the cache of modules and the
output, so that a handler is an operator from machine to machine and natives are operators too.
Numbers are whole and objects are references into it. `seen` records the height of the stack at
each instruction, for `HeightsAgree`.

**`Meaning`** is the reference the other three are checked against: what a program of the core
language means, by recursion on its tree, with cells instead of slots and outcomes instead of
jumps. **`Programs`** holds what is run. A catalogue has one program per feature of the language,
which `Meaning` does not cover (metatables, generators, slices, imports, `match`, comprehensions,
f-strings ...); its expected outputs are those of the interpreter built from this source. Two
families take their expected outputs from `Meaning`: a loop of each kind, left or continued in each
way from inside each kind of block, with and without a captured local, in a function or at the top;
and every sum of three terms, stored, printed and tested, for the optimiser.

**`Tables`** is `table.c` in full detail: probe sequences, tombstones that count for the load
factor, growth, the array part with `array_max`, the natives of `tablelib.c` that move elements,
and one indexing instruction with its inline cache (table, key, version, value), next to the
collector, which gives the address of a dead table to a new one. `contents` is history: what the
script put under each name. (`Machine` has tables too, with metatables and without addresses.)

**`BTree`** is `btree.c` on a file: `disk` is what is in it, `db` the three fields of the open
`BTreeDb`. An operation is an operator from database to database that also gives `files`, the file
after each of its page writes in order; `CrashInPut` and `CrashInDelete` take one of those files
and open it again. The code recurs along one way from the root to a leaf, reading as it goes down
and writing as it comes back: `Path` is the pages it reads, `Insertions` and `Deletions` are the
results of the calls from the leaf back to the root. `btree_collect_range` visits many pages, so
`Collect` keeps the calls that are still to be made. A record is its size, a page what fits in
`PageRoom`. `store` is history: what the program has put and not deleted.

**MC modules** (`MCGil`, `MCChannel`, ...) extend a module with model values, symmetry and, for
`BTree`, a view. **Proof modules** (`GilProofs`, `ChannelProofs`, ..., and `DataLemmas` for facts about data) extend the
module they are about. Operators whose comment starts with "Variant" or "Not" are not used by any
specification: each is a plausible slip in the definition that follows it, kept to see that a
property notices.

### Habits

`VmRun`, `Exceptions` and `ThreadLib` have a constant for what programs do (`Habits`,
`HoldsRefs`), and `Programs` leaves three combinations out of its family (`Disputed`) and keeps what the code
gets wrong apart from the catalogue (`Exceptional`). The code has
restrictions that no document states; a program within them gets what the abstract specifications
promise, and the passing runs show that. Each habit, switched on, leaves the restriction and leads
to the disagreements of section 4. The habits are restrictions on programs (guards named
`May...`), never on what an operation does.

## 3. Runs

| Run | Instance | Checks | Shows |
|---|---|---|---|
| `gil` | 3 OS threads, 4 VM threads | `TypeOK`, `ParkedExactly`, `LiveStacksMarked`, `CurrentNotClobbered` | every live stack is a root at every collection; coming back from a blocking call restores the VM thread |
| `channel` | 3 OS threads, capacity 1 or 2, 3 values | `QueueConsistent`, `NoLostWakeup`, `FifoPipe`, `QueuedNotFreed` | the channel implements the FIFO pipe: values leave in the order they came, with two of them in the queue too; every queued value has a woken receiver on its way as long as one waits |
| `channel_live` | 2 OS threads, capacity 1, 2 values | `StacksMarked`, `StepsAreGilSteps`, `CloseReleasesEveryone`, `ValuesFlow` | progress under the fairness of section 5; the brackets of the channel are steps of `Gil`, so blocked stacks are roots |
| `thread_lib` | 3 OS threads, any may spawn | `ArgumentsAlive`, `DataReleasedOnce`, `JoinSeesOutcome`, `StepsAreGilSteps` | hand-over of arguments and data for programs that keep their handles |
| `thread_lib_live` | 2 OS threads | `EveryoneReturns`, `WorkersStart` | no lock order deadlocks with the GIL |
| `vm_run` | root, coroutine, generator; 3 frames, 1 handler, 3 nested runs | `NativesGetTheirAnswer`, `ModeMeansIterating`, `HandlersFitFrames`, `OneControlStack` | coroutines, generators, callbacks and exceptions together are one control stack |
| `exceptions` | nesting of 6, 2 exceptions | `HandlersMatchNesting`, `PendingOfFinally`, `FinallyNotSkipped` | handlers follow the nesting; a finally clause runs; the slot for a pending exception is that of the innermost finally clause one led into, try statements inside such clauses included |
| `tables` | 3 names, 2 of them colliding, indexes -1, 1 and 3, 2 addresses, 5 writes | `BlankSlotLeft`, `NamesAgree`, `CacheFresh`, `NothingPastMax`, `InsertKeepsElements` | lookups end and are right after any mix of writes, deletes, growth and clones; the inline cache survives changes and reuse of an address |
| `btree` | 6 keys, a leaf of one record, two separators per page, one crash | `PagesAccounted`, `LookupsAgree`, `RangesAgree`, `CrashKeepsTheRest` | a sorted map over pages that are reused; what a crash after each single page write can lose |
| `program` | 443 programs | `HeightsAgree`, `OutputCorrect`, `OpenUpvaluesLive`, `NumbersWhereTyped`, `ImportContextRestored`, `ModulesRunOnce` | compiler, optimiser and machine together do what the programs mean |
| `vm_run_worker`, `program_disputed` | small | one property each, violated | section 4 |

Bounds. Three OS threads are the smallest number where two wait and a third signals, collects,
closes or joins; a fourth adds no new kind of actor. Four VM threads in `gil` give each OS thread
a stack of its own and leave one coroutine to share. In `channel`, capacity 1 and three values make a channel
full, empty and full again, with two senders that wait. The order of values needs two in the queue and
one to come: hence capacity 2 as well. With capacity 0, which is no limit, the run
passes too. In `vm_run` three VM threads give a chain of two resumes, three frames a
callback that calls a function, three runs a native inside a native. In `exceptions` a nesting of
six holds a try in a finally in a try in a called function. Bounds appear in guards (`MaxValues`,
`MaxFrames`, `MaxTries`, `MaxRuns`, `MaxDepth`, `MaxWrites`, `MaxPages`); `MaxTries` and `MaxFrames`
are also limits of the code.

`tables` starts with capacities of two instead of eight, so that five writes fill the hash, pass
the load factor, grow it with tombstones inside, and grow the array; a table dies and its address
is used again within the same bound. The version of a table is not bounded to its 32 bits: a cache
would need four billion writes between two executions of its instruction to be fooled. In `btree`
the root has three children before it splits, so six keys make a tree of three levels; a crash is
explored once a store holds three entries, and behaviours end there (`AfterCrash` lifts that).
States are compared through `Renumbered`, which lists the pages from the root and then the free
list: a page number has no meaning to any property and decides no step, so files that differ in
numbers only behave alike. `program` uses the limits of the code (256 locals, 64 frames and
handlers, 24 and 16 in a generator, 8 pending stores); each program runs to its end, so there the
bound is the set of programs. The
one limit that is smaller is `MaxIndexed`, how many constants, upvalues and explicit globals one byte
can number: 40 instead of 256, so that the programs that reach it stay small; the interpreter does
at 256 what the model does at 40, and the other programs need 30 at most. `Junk` is 1, one of the values that the uninitialised field can have.

`VmRun`, `Exceptions`, `Tables`, `BTree` and `Machine` are checked without deadlock because a
program ends or a bound is reached. Symmetry is used only where a run has no liveness property.

## 4. Where the code and its documents disagree

Each was met while writing a property that a document, a comment or a test suggests. The first two
are runs that TLC must find violated; the others are configurations to run by hand, violated as well
(`tlc -config MCVmRunSum.cfg MCVmRun`).

| Configuration | Property | What happens |
|---|---|---|
| `MCVmRunWorker` | `EndsWhole` | `thread_runner` calls `vm_run(vm, 1)`: the worker ends when the first function that it calls returns |
| `MCProgramDisputed` | `OutputCorrect` | `continue` in a `while` drops as many values as an uninitialised field says |
| `MCProgramRetyped` | `NumbersWhereTyped` | type hints of locals follow the text, not the control flow (`compiler.c:696-710`, `902-905`): a loop that changes the type of a local for its next round, a branch before another one, or a closure called later brings a string to an unchecked integer instruction; `ops_arith.c:135` promises an error |
| `MCProgramImport` | `MainContextKept` | a module that throws, and whose exception is caught, leaves its `__name`, `__file` and `__main` in the globals: `restore_module_context` runs at a return only (`vm.c:1450`, `1509`), not in `handle_exception` |
| `MCProgramConstants` | `OutputCorrect` | with a full pool the optimiser adds the constant of a folded sum beyond the limit and loads another one, by the low byte of the index (`opt.c:119`, `332`, `345`); `compiler.c:204` refuses such chunks |
| `MCChannelRefs` | `ReferencesAlive` | the value of a blocked `send`, and one that `recv` has taken while it waits for the GIL, is only in a C local: a collection frees it |
| `MCVmRunCallback` | `NativesGetTheirAnswer` | inside a coroutine the return of a callback (`sort` with a comparator) goes to the resumer of the coroutine |
| `MCVmRunDeepYield` | `InsideCoroutineCanYield` | yield clears the `caller` of the wrong VM thread (`coroutine.c:32`): a coroutine that iterates a generator cannot yield afterwards |
| `MCExceptionsReturn` | `FinallyNotSkipped` | `return` inside `try ... finally` or `with` skips the finally clause and `__exit` |
| `MCThreadLibRefs` | `ArgumentsAlive` | arguments of a spawn whose handle is dropped are collected before the worker starts |
| `MCThreadLibResults` | `ResultsAlive` | a result stored before its handle exists is collected |
| `MCVmRunCatch` | `NativesGetTheirAnswer` | an exception of a callback caught around the native runs the outer function inside the native |
| `MCVmRunSum` | `OnlyTheEndFinishes` | `sum` ends at the first return of a function that the generator calls |
| `MCVmRunStatus` | `OffStackIsSuspended` | a coroutine that has yielded has status `normal`; a comment says `suspended`, a test `normal` |
| `MCExceptionsBreak` | `HandlersMatchNesting` | `break` and `continue` out of a try leave its handler installed |
| `MCExceptionsFinally` | `FinallyKeepsItsException` | an exception caught inside a finally clause displaces the pending one, which is then never thrown; an inner finally clause throws it early |
| `MCTablesHomes` | `OneHome` | an index written to the hash before the array reached it stays there: `t={}; t[3]=10; t[1]=1; t[3]=20; del t[3]` leaves `t[3]` at 10 |

Met while modelling the compiler and the machine, reproduced with the interpreter, and kept out of
the catalogue of `Programs` (the models do what the code does in each case):

- `break` out of an iterator loop leaves its loop variables on the stack; an iterator that returns a
  single `nil` misaligns it; an assignment inside a larger expression makes a local over a temporary
  (`print 1 + (z = 2)` prints 4).
- An array literal gets the type hint of its last element.
- A default of `true` is stored as 1 and one of `false` as nil; any range inside a `for` header
  loses its own instruction; errors inside f-strings, decorators and comprehensions are swallowed;
  `{x == 2 for x in t}` is taken for a key.
- Unwinding inside one frame does not close upvalues; an exception from a metamethod that a fused
  instruction calls leaves the pending store behind; failing arithmetic other than addition, and a
  missing module, end the program without an exception; a circular import runs a module twice.
- `#t` and the truth of a table count deleted entries; `next` ends early when the current key was
  deleted.
- The store: with entries of uneven size a page can refuse both halves of a split, and the failed
  put loses entries or a page; a larger value for an existing key fails where a split would do; a
  crash inside a delete can leave a page that the tree still names on the free list.

## 5. Fairness

Only `channel_live` and `thread_lib_live` need it. An OS thread inside a native progresses (weak
fairness). A thread that waits for a pthread mutex, the GIL included, gets it if it is free again
and again (strong fairness): pthread mutexes promise no order, but every holder gives up the CPU
with `sched_yield` before it asks for the GIL again (`resume_vm_thread`). The VM is cooperative:
nothing takes the GIL from a thread in bytecode, so the fairness also says that programs keep calling natives that
suspend, unlock what they locked, and that workers end. Without that last
assumption a worker in an endless loop stops every other thread, and that is so in the code.

## 6. Proofs

`GilProofs` proves, for any finite set of OS threads and any set of VM threads, from `GilAssumption`:

- `TypeCorrect`: `Spec => []TypeOK`
- `ParkListExact`: `Spec => []ParkedExactly`
- `RootsCoverLiveStacks`: `Spec => []LiveStacksMarked`
- `NoClobbering`: `Spec => CurrentNotClobbered`

`LiveStacksMarked` is not inductive. The invariant is `IInv`: types; `Places` (the holder of the
GIL is live and in no bracket, whoever is in a bracket is live, a live thread without the GIL is
in one); `OneThreadBeforeTls` (before the first spawn there is only the main thread, which is why
one global field is enough until then); `ParkedExactly` (the park count is the number of OS
threads whose bracket saved that VM thread, counted with `Cardinality`, and the list holds those
with a positive count); and `SavedIsCurrent` (in a bracket the thread-local slot still holds what
was saved). The lemmas `ParkKeepsExact` and `UnparkKeepsExact` carry the arithmetic of one more
and one less. A live thread holds the GIL and is marked as current, or it is in a bracket, and
then its saved VM thread has a positive count, is on the list and is its current one.

`ChannelProofs` proves, for any finite set of OS threads, any capacities and any number of
values, from `ChannelAssumption` and `GilAssumption`:

- `ChTypeCorrect`: `ChSpec => []ChTypeOK`
- `QueueStaysConsistent`: `ChSpec => []QueueConsistent`
- `ImplementsFifoPipe`: `ChSpec => FifoPipe`, the refinement of `ChannelSpec`
- `WakeupsNotLost`: `ChSpec => []NoLostWakeup`
- `QueuedStaysAlive`: `ChSpec => QueuedNotFreed`
- `BracketsAreGil`: `ChSpec => StepsAreGilSteps`
- `ChannelStacksMarked`: `ChSpec => []StacksMarked`

The invariant of the queue is `QInv`: types, `QueueConsistent`, and `SenderHasValue` (a thread
anywhere between the entry of `channel_send` and the linking of its node has a value). `LinkNode` appends at the
tail pointer only if that pointer is the last node of the list, which `QueueConsistent` provides;
`LinkKeepsQueue` and `UnlinkKeepsQueue` carry the two list operations. With `QInv` the number of
values `ChannelSpec` holds is `count` and its next value is the head, so that `Enqueue`, `Dequeue`,
`TryRecv` and `Close` are its actions and every other step a stutter. `NoLostWakeup` is inductive
given the types: it compares `count` with the number of receivers at the mutex, and
free places with the number of senders there. `GotoKeepsWakeups` covers the steps that move one
thread; `EnqueueKeepsWakeups` and `TakeKeepsWakeups` those that change `count`, where the signal
adds one thread to one side and the thread itself leaves the other. The last two theorems follow
from the lemmas of `GilProofs`: the initial state of the channel satisfies `IInv` and each of its steps is
a step of `Gil`.

`ThreadLibProofs` proves, for any finite set of OS threads, from `ThreadLibAssumption` and
`GilAssumption`:

- `ThTypeCorrect`: `ThSpec => []ThTypeOK`
- `NativesAreGil`: `ThSpec => StepsAreGilSteps`
- `DataFreedOnce`: `ThSpec => []DataReleasedOnce`
- `JoinHasOutcome`: `ThSpec => []JoinSeesOutcome`
- `ArgumentsNotCollected`: from `HoldsRefs` also, `ThSpec => []ArgumentsAlive`

The first four follow from `DInv`: the types; `IInv` of `Gil`, which carries over because every
step is a step of `Gil` (`StepOfGil`; the spawner whose VM thread a worker reinstalls at its end is
known to be allocated by `Ancestry`); `Targets` (the worker a thread is spawning or joining is its
own, and in which phase); `DataPhases` (the life of a `ThreadData`: before its handle, behind it,
after the join, each with what `released`, `life` and `outcome` are then); and `HandlesAtSpawner`.
Only the spawner ever works on a worker, hence `TargetsApart`: two threads never have the same
target, and freeing one `ThreadData` leaves the work of the others alone.

`ArgumentsAlive` needs to know what a collection reaches. `RInv` adds `OwnVm` (each OS thread
executes the VM thread made for it, from the theorem that nobody's current VM thread is clobbered),
`Kept` (while there is a worker to look after its spawner is live and has on its stack what leads
to it: the argument up to the end of the spawn, the handle from then on) and `Fresh` (nothing is
freed before it was made). `LiveStacksReached` turns the marking theorem of `GilProofs` into what
is needed: a collection by anyone reaches everything on the stack of every live thread and behind
the handles there.

`VmRunProofs` proves, from `VmRunAssumption`, for any finite set of VM threads and any bounds on
frames, handlers and nested `vm_run` calls, of programs that keep to the plain use of coroutines
and callbacks (`Habits = {}`: what they break in the code otherwise is in section 4):

- `VmTypeCorrect`: `VmSpec => []VmTypeOK`
- `CallbacksAreAnswered`: `VmSpec => []NativesGetTheirAnswer`
- `ModeIsOfIterator`: `VmSpec => []ModeMeansIterating`
- `HandlersHaveFrames`: `VmSpec => []HandlersFitFrames`
- `OneStackOfControl`: with `Base = 0` also, `VmSpec => OneControlStack`, the refinement of
  `VmRunSpec`. A worker (`Base = 1`) does not implement it: run `vm_run_worker`.

The state has no stack of VM threads, only `caller` links, and the links of VM threads off the
stack are left over from earlier resumes. `StackOf(s, ...)` says that a sequence is the stack: root
at the bottom, the executing VM thread on top, each linked to the one below, no repetitions, all of
them in a function. `ChainIsStack` proves that there is only one such sequence, the `Chain` that
the properties read off the links, so that a step may be followed by giving the stack after it.
The invariant `VmInv` adds `RunsOf`, the order of the C stack: the program, then callbacks, all on the
root and each at a higher level than the one before, then natives that drive generators, in the
order of their VM threads on the stack and each stopped at the level it called from. From it follow
what the code relies on without saying so: the VM thread that executes drives no generator
(`NoDriveOnCur`), on the root the innermost native always waits for a callback
(`CallbackOfRoot`), and in a coroutine no native waits at all (`NoNativeInCoroutine`); so a yield
or a return that passes control down never jumps over a C function. `HandlersOf` needs the
handlers of a VM thread to be in the order of their frames, else the cut at a return would not be
the cut at a frame.

`ExceptionsProofs` proves, from `ExceptionsAssumption`, for any bounds on nesting and calls:

- `HandlersAreTheNesting`: without `jumpOut`, `ExSpec => []HandlersMatchNesting`
- `FinallyAlwaysAhead`: without `jumpOut` and `returnOut`, `ExSpec => FinallyNotSkipped`
- `SlotIsOfInnermost`: without `jumpOut` and `returnOut`, `ExSpec => []PendingOfFinally`

Each assumption is what the property needs: section 4 lists the run that shows the code breaking
it without. A handler records the statements around its `try` when it is pushed; the invariant says
that these are the beginning of the statements of its frame now (`Guards`), that the handlers of a
frame are nested like the `try` and `except` regions and that there is one for each (`Nested`). Four
lemmas follow a change of the nesting: one more region with a handler or without, a region that ends, and
a cut to a handler (`NestedCut`), which is a return, a catch, or the entry of a finally. The
second theorem is about steps: whatever region of a try with a finally a step leaves, its handler
is still there by the first theorem's invariant, so that the step enters the finally. The
third is about one slot for all finally clauses, with try statements in them. `SlotInv` says that
only finally clauses have a cause, that a clause whose exception was displaced is inside none that
still has its own (`displaced` is closed outwards), and that the slot is the innermost's: full with its
cause, or empty when that is displaced. A cut that drops no clause with a cause keeps this, and so does
a new region (`OwedCut`, `OwedGrow`); the end of a clause whose exception was displaced hands an
empty slot to clauses that are displaced too (`OwedEnd`); an exception that lands takes the slot for its
finally, or empties it and displaces all around the except clause (`OwedRaise`).

`TablesProofs` proves, from `SizesAssumption`, `KeysAssumption` and `NilAssumption`, for any sets of
names, indexes, values, addresses and variables, any hash function and any number of writes:

- `LookupsEnd`: `Spec => []BlankSlotLeft`
- `TablesHoldNames`: `Spec => []NamesAgree`
- `CacheAnswersRight`: `Spec => []CacheFresh`
- `MaxIsLast`: `Spec => []NothingPastMax`
- `InsertLosesNothing`: `Spec => []InsertKeepsElements`

`SizesAssumption` asks for a hash of at least two slots (the code starts with eight): with one, the
load factor of three quarters leaves no blank slot. `KeysAssumption` says that no name spells an
index, so that names and indexes are different keys of the hash. The version of a table is any
natural number, so `CacheAnswersRight` speaks of tables written less than 2^32 times between two
executions of an instruction.

What a hash must be for `find_entry` to work is `HashOK`: a key has one entry, and no blank slot is
before it on its probe sequence (`ProbesEverySlot`: the sequence goes through every slot).
`FindEntry` says where a search then ends, `PutEntry` and `BuryEntry` that a write there and a
tombstone keep `HashOK`. `HashPart` adds that `count` is the number of slots that are not blank,
tombstones included, and below the capacity; without this a search of a hash full of tombstones
would not end. The loops of `adjust_capacity` and of the clone are followed step by step
(`RehashHash`, `CloneHash`), and what the hash maps afterwards is said by `Maps`: `SetHash`,
`DeleteHash` and `Lookup` are those of a map. `ArrayPart` is `NothingPastMax` of one table;
`SetArrayStores` says what `table_set_array` leaves in every place, from which the loops of insert
and remove follow (`ShiftOne`, `InsertElements`): the element moved is not nil, so its index is at
most `array_max` and the place after it fits. The invariant `TablesInv` joins these for every table
with `Holds` (it maps the names to what was put last) and `Remembers`: the table of the cache is
there, has at least the version of the cache, and with the same version still maps the key to the
value. `Remembers` survives because a step leaves the hash alone or raises the version (`Follows`),
and because the collector marks the table of the cache, so that its address is not used again.

`BTreeProofs` proves, from `BTreeAssumption` and `TwoSeparatorsFit`, for any set of numbers as keys, any
values and sizes of their records, any room in a page, any number of pages and of crashes, and with
behaviours that go on after a crash:

- `StoreInvariant`: `BtSpec => []BtInv`
- `PagesAccountedTheorem`: `BtSpec => []PagesAccounted`
- `LookupsAgreeTheorem`: `BtSpec => [](lastOk => LookupsAgree)`
- `LookupsAgreeAfterFailures`: with `EvenSizes` also, `BtSpec => []LookupsAgree`
- `RangesRightTheorem`: `BtSpec => [](lastOk => RangesRight)`, ranges between any two bounds and with
  any limit, of which `RangesAgree` takes some
- `RangesAgreeTheorem`: with finitely many keys, `BtSpec => [](lastOk => RangesAgree)`, and with
  `EvenSizes` `BtSpec => []RangesAgree`

`TwoSeparatorsFit` says that a page has room for two separators, which a page of 4096 bytes has for
any but very long keys; with less room, a split of the root leaves a page that cannot be written.
`EvenSizes` says that all records take the same room, as in the run. Without it a put can fail after it has
written one half of a split (section 4), and the lookups are then wrong in the code too: hence
`lastOk`. The pages stay accounted for in either case, but for one that a failure may lose. All
of this is about files in which no crash has cut a delete short (`Intact`); crashes inside a put
are covered, after each of its writes.

A tree is a function `b` that gives for each page the set of pages at and below it. `Forest` says that
the pages are written nodes with their records in order (`Nodes`), that these sets are nested and
never in a cycle (`Ordered`, `Laminar`), and that the sets of the children of a page are apart and
hold only keys that `internal_find_route` sends there (`Linked`). `Space` puts the free list, a
sequence of free pages each linked to the next, apart from the tree and both below the page count;
`Accounted` says that nothing else is in the file. `BtInv` is: the fields in memory are those of the
header, and there are a tree and a free list with `Space`; the records in the leaves are `Entered`,
what was put (`Held`); and while nothing has failed or crashed, `Accounted`. The last three
properties need all of it: a lookup is right only if the separators on its way agree with every
leaf, a split is right only if the page it takes is nowhere in the tree.

An operation is followed from the leaf up. `Stands` says of a page on the way what is at and below
it once its write is made, with the keys still between the separators of the pages above; the
other pages on the way have not been written yet, and what is beside the way never is.
`InsertedAt` is this for a put: after a split there are two trees apart, with a separator between their keys
(`Parted`); after a failure the tree at the page is still a tree (`Failed`). `DeletedAt` is this
for a deletion: the page is freed, or its tree has one key less and its smallest key is reported as
it now is (`Remain`, `Linkage`), from which the separator above is renewed. `GoodFiles` says that
the header and the free list of every file between two writes fit a tree, so that a crash in a put
leaves `BtInv`. For ranges, `Progress` counts: each call of `btree_collect_range` deals with
at least one page, and the rows are at each moment the first of the records in the pages dealt
with, in order; as the pages still to come (`Pending`) have greater keys, the rows at the end are
the first of all (`Ranked`), and as many as the limit admits (`Counted`).

`DataLemmas` has what these need: least and greatest elements of sets of numbers, prefixes, ends and
tails of sequences, remainders, and induction over an interval with the loops it defines (the
recursive functions of `Tables` and `BTree` over `0..n`).

What stays with TLC: liveness under fairness; `CrashKeepsTheRest`, which is also about files that a crash
inside a delete has left, where there is no tree of the form above any more; and `Compiler`,
`Machine`, `Meaning` and `Optimiser`, whose operators are recursive over trees and programs, where
the provers have no induction.

## 7. What is left out

- The lexer, and the recognition of source text by the compiler: programs are given as trees.
- The size of an operand stack, and with it the error for a value that does not fit
  (`vm.c:1463-1467`, `1534-1537` and the like): frames, handlers, locals, upvalues and constants have
  their limits, the stack below them has none, and no property depends on it.
- Fractions, rounding and the text of numbers; the bytes of strings; wording of messages.
- `TOI_NO_GIL`, which is documented as unsafe; two OS threads that resume one coroutine; two
  threads that join one handle, which pthreads leaves undefined; cycles of resumes, which the code
  does not refuse; signals, whose one flag any OS thread consumes.
- Of the collector, when it runs and how each kind of object is marked: the models collect at any
  moment and follow the references between OS threads, channels, handles and caches.
- The HTTP server: its worker pool runs under the call of `vm_run` of section 4 that ends at the
  first return of a function, so it serves no second request, and the rest are loops around
  blocking socket calls, whose behaviour is the operating system's. The schedulers are programs in
  Toi over coroutines, clocks and `poll`; the database is one over a single B-tree file.
- Parsers and printers of data formats, string, regex and math functions, the REPL and the wrappers
  of system calls: sequential, without state that another part shares.

In the store, a long key can make an internal page that holds no separator at all; the model has
one size for separators, of which two fit.
