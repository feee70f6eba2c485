----------------------------- MODULE ThreadLib -----------------------------
(***************************************************************************)
(* thread.spawn, thread.join, thread.yield and thread.mutex of             *)
(* src/lib/thread.c, with the objects they hand between OS threads: the    *)
(* argument of a spawn, its handle, and the result a join returns.         *)
(*                                                                         *)
(* Each OS thread runs one VM thread of its own (coroutines are in Gil and *)
(* VmRun).  An object stays alive while a collection can reach it: from    *)
(* a marked VM stack, or from a reachable handle (thread_handle_mark).      *)
(* A native pops its arguments off the VM stack before it runs, so an      *)
(* argument is on the stack during the call only if the program also keeps  *)
(* it in a variable.                                                       *)
(***************************************************************************)
EXTENDS Gil

CONSTANT
  HoldsRefs   \* TRUE: programs keep arguments and handles in variables across calls

ASSUME ThreadLibAssumption ==
  /\ HoldsRefs \in BOOLEAN
  /\ Threads \subseteq VmThreads
  /\ MainVm = Main

VARIABLES
  pc,          \* where each OS thread is
  target,      \* the worker a thread spawns or joins
  spawner,     \* who spawned a worker (its ObjThread is ThreadData.caller_thread)
  handleData,  \* ObjUserdata.data of a worker's handle
  released,    \* how often the ThreadData of a worker has been freed
  outcome,     \* ThreadData.error and result_count, once done
  mutex,       \* owner of the pthread mutex of one thread.mutex()
  stack,       \* objects referenced from each VM stack
  made,        \* objects allocated so far
  freed        \* objects the collector has freed

objVars == <<stack, made, freed>>
dataVars == <<target, spawner, handleData, released, outcome>>
thVars == <<gilVars, pc, dataVars, mutex, objVars>>

Objects == {"arg", "handle", "result"} \X Threads
Arg(w) == <<"arg", w>>
Handle(w) == <<"handle", w>>
Result(w) == <<"result", w>>

Steps == {"vm", "create", "spawned", "joining", "joined", "locking", "resume", "out"}

ThTypeOK ==
  /\ pc \in [Threads -> Steps]
  /\ target \in [Threads -> Threads \cup {NoThread}]
  /\ spawner \in [Threads -> Threads \cup {NoThread}]
  /\ handleData \in [Threads -> {"none", "set", "null"}]
  /\ released \in [Threads -> Nat]
  /\ outcome \in [Threads -> {"none", "ok", "error"}]
  /\ mutex \in Threads \cup {NoThread}
  /\ stack \in [Threads -> SUBSET Objects]
  /\ made \subseteq Objects
  /\ freed \subseteq Objects

ThInit ==
  /\ Init
  /\ pc = [t \in Threads |-> IF t = Main THEN "vm" ELSE "out"]
  /\ target = [t \in Threads |-> NoThread]
  /\ spawner = [t \in Threads |-> NoThread]
  /\ handleData = [t \in Threads |-> "none"]
  /\ released = [t \in Threads |-> 0]
  /\ outcome = [t \in Threads |-> "none"]
  /\ mutex = NoThread
  /\ stack = [t \in Threads |-> {}]
  /\ made = {}
  /\ freed = {}

Running(t) == InVm(t) /\ pc[t] = "vm"

Goto(t, place) == pc' = [pc EXCEPT ![t] = place]

----------------------------------------------------------------------------
(* thread.spawn *)

\* An OS thread is spawned at most once: w stands for the pthread to come.
Spawn(t, w) ==
  /\ Running(t)
  /\ life[w] = "unborn" /\ spawner[w] = NoThread
  /\ SuspendToSpawn(t)
  /\ Goto(t, "create")
  /\ target' = [target EXCEPT ![t] = w]
  /\ spawner' = [spawner EXCEPT ![w] = t]
  /\ made' = made \cup {Arg(w)}
  /\ stack' = IF HoldsRefs THEN [stack EXCEPT ![t] = @ \cup {Arg(w)}] ELSE stack
  /\ UNCHANGED <<vmCur, born, life, handleData, released, outcome, mutex, freed>>

PthreadCreate(t) ==
  /\ pc[t] = "create"
  /\ CreateOsThread(t, target[t])
  /\ Goto(t, "spawned")
  /\ UNCHANGED <<gil, useTls, tls, vmCur, born, saved, parkCount, parked,
                 dataVars, mutex, objVars>>

\* Back in the VM: wrap ThreadData in a handle, or free it if creation failed.
SpawnReturn(t, keeps) ==
  LET w == target[t] IN
  /\ pc[t] = "spawned"
  /\ ResumeVm(t)
  /\ Goto(t, "vm")
  /\ target' = [target EXCEPT ![t] = NoThread]
  /\ IF life[w] = "unborn"
     THEN /\ released' = [released EXCEPT ![w] = @ + 1]
          /\ UNCHANGED <<handleData, stack, made>>
     ELSE /\ handleData' = [handleData EXCEPT ![w] = "set"]
          /\ made' = made \cup {Handle(w)}
          /\ stack' = IF keeps THEN [stack EXCEPT ![t] = @ \cup {Handle(w)}]
                      ELSE stack
          /\ UNCHANGED released
  /\ UNCHANGED <<useTls, born, life, spawning, spawner, outcome, mutex, freed>>

----------------------------------------------------------------------------
(* thread_runner *)

StartWorker(w) ==
  /\ EnterRunner(w, w)
  /\ Goto(w, "vm")
  /\ stack' = [stack EXCEPT ![w] = {Arg(w)}]
  /\ UNCHANGED <<useTls, saved, parkCount, parked, spawning, dataVars, mutex, made, freed>>

\* The function returns, or fails (in the call itself, too).  Programs unlock
\* the mutex before a worker ends; one that holds references also joins the
\* workers it spawned, whose handles its stack would take with it.
FinishWorker(w, how) ==
  /\ Running(w)
  /\ mutex # w
  /\ HoldsRefs =>
       \A x \in Threads : spawner[x] = w => life[x] = "unborn" \/ handleData[x] = "null"
  /\ LeaveRunner(w, spawner[w])
  /\ Goto(w, "out")
  /\ outcome' = [outcome EXCEPT ![w] = how]
  /\ made' = IF how = "ok" THEN made \cup {Result(w)} ELSE made
  /\ UNCHANGED <<useTls, born, saved, parkCount, parked, spawning,
                 target, spawner, handleData, released, mutex, stack, freed>>

----------------------------------------------------------------------------
(* thread.join.  Only the spawner joins (two threads joining one handle is    *)
(* undefined in pthreads), and not while it owns the mutex.  A join of a       *)
(* handle whose data is NULL returns nil and changes nothing.                  *)

Join(t, w) ==
  /\ Running(t)
  /\ mutex # t
  /\ Handle(w) \in stack[t]
  /\ handleData[w] = "set"
  /\ SuspendVm(t)
  /\ Goto(t, "joining")
  /\ target' = [target EXCEPT ![t] = w]
  /\ stack' = IF HoldsRefs THEN stack ELSE [stack EXCEPT ![t] = @ \ {Handle(w)}]
  /\ UNCHANGED <<useTls, tls, vmCur, born, life, spawning, spawner, handleData,
                 released, outcome, mutex, made, freed>>

\* Variant: the wait ends once the worker has started.
PthreadJoinEarly(t) ==
  /\ pc[t] = "joining"
  /\ life[target[t]] \in {"live", "exited"}
  /\ Goto(t, "joined")
  /\ UNCHANGED <<gilVars, dataVars, mutex, objVars>>

PthreadJoin(t) ==
  /\ pc[t] = "joining"
  /\ life[target[t]] = "exited"
  /\ Goto(t, "joined")
  /\ UNCHANGED <<gilVars, dataVars, mutex, objVars>>

\* Variant: the handle keeps pointing to the freed ThreadData.
JoinReturnDangling(t) ==
  LET w == target[t] IN
  /\ pc[t] = "joined"
  /\ ResumeVm(t)
  /\ Goto(t, "vm")
  /\ target' = [target EXCEPT ![t] = NoThread]
  /\ released' = [released EXCEPT ![w] = @ + 1]
  /\ stack' = IF outcome[w] = "ok" THEN [stack EXCEPT ![t] = @ \cup {Result(w)}]
              ELSE stack
  /\ UNCHANGED <<useTls, born, life, spawning, spawner, handleData, outcome, mutex,
                 made, freed>>

JoinReturn(t) ==
  LET w == target[t] IN
  /\ pc[t] = "joined"
  /\ ResumeVm(t)
  /\ Goto(t, "vm")
  /\ target' = [target EXCEPT ![t] = NoThread]
  /\ handleData' = [handleData EXCEPT ![w] = "null"]
  /\ released' = [released EXCEPT ![w] = @ + 1]
  /\ stack' = IF outcome[w] = "ok" THEN [stack EXCEPT ![t] = @ \cup {Result(w)}]
              ELSE stack
  /\ UNCHANGED <<useTls, born, life, spawning, spawner, outcome, mutex, made, freed>>

----------------------------------------------------------------------------
(* thread.mutex, thread.yield *)

\* Locking a mutex one owns is a deadlock of the program, not considered.
Lock(t) ==
  /\ Running(t)
  /\ mutex # t
  /\ SuspendVm(t)
  /\ Goto(t, "locking")
  /\ UNCHANGED <<useTls, tls, vmCur, born, life, spawning, dataVars, mutex, objVars>>

AcquireMutex(t) ==
  /\ pc[t] = "locking"
  /\ mutex = NoThread
  /\ mutex' = t
  /\ Goto(t, "resume")
  /\ UNCHANGED <<gilVars, dataVars, objVars>>

TryLock(t) ==
  /\ Running(t)
  /\ mutex = NoThread
  /\ mutex' = t
  /\ UNCHANGED <<gilVars, pc, dataVars, objVars>>

Unlock(t) ==
  /\ Running(t)
  /\ mutex = t
  /\ mutex' = NoThread
  /\ UNCHANGED <<gilVars, pc, dataVars, objVars>>

Yield(t) ==
  /\ Running(t)
  /\ SuspendVm(t)
  /\ Goto(t, "resume")
  /\ UNCHANGED <<useTls, tls, vmCur, born, life, spawning, dataVars, mutex, objVars>>

\* Variant: the native takes the GIL back and leaves its VM thread parked.
ReturnParked(t) ==
  /\ pc[t] = "resume"
  /\ gil = NoThread /\ gil' = t
  /\ SetCurrent(t, saved[t])
  /\ saved' = [saved EXCEPT ![t] = NoVm]
  /\ Goto(t, "vm")
  /\ UNCHANGED <<parkCount, parked, useTls, born, life, spawning, dataVars, mutex, objVars>>

Return(t) ==
  /\ pc[t] = "resume"
  /\ ResumeVm(t)
  /\ Goto(t, "vm")
  /\ UNCHANGED <<useTls, born, life, spawning, dataVars, mutex, objVars>>

----------------------------------------------------------------------------
(* The program drops references, and the collector runs. *)

\* A variable is overwritten.  A program that holds references keeps a handle
\* until it has been joined.
Drop(t, o) ==
  /\ Running(t)
  /\ o \in stack[t]
  /\ HoldsRefs /\ o[1] = "handle" => handleData[o[2]] = "null"
  /\ stack' = [stack EXCEPT ![t] = @ \ {o}]
  /\ UNCHANGED <<gilVars, pc, dataVars, mutex, made, freed>>

\* Variant: the arguments are not marked.
MarkedByHandleNoArgs(w) ==
  IF handleData[w] = "set" /\ outcome[w] = "ok" THEN {Result(w)} ELSE {}

\* thread_handle_mark: the closure and arguments, and the result if there is one.
MarkedByHandle(w) ==
  IF handleData[w] # "set" THEN {}
  ELSE {Arg(w)} \cup (IF outcome[w] = "ok" THEN {Result(w)} ELSE {})

Reachable(t) ==
  LET onStacks == UNION {stack[v] : v \in MarkedStacks(t) \cap Threads}
  IN  onStacks \cup UNION {MarkedByHandle(w) : w \in {x \in Threads : Handle(x) \in onStacks}}

Collect(t) ==
  /\ Running(t)
  /\ freed' = freed \cup (made \ Reachable(t))
  /\ UNCHANGED <<gilVars, pc, dataVars, mutex, stack, made>>

----------------------------------------------------------------------------
ThNext ==
  \E t \in Threads :
    \/ \E w \in Threads : Spawn(t, w) \/ Join(t, w)
    \/ PthreadCreate(t)
    \/ \E keeps \in BOOLEAN : (HoldsRefs => keeps) /\ SpawnReturn(t, keeps)
    \/ StartWorker(t)
    \/ \E how \in {"ok", "error"} : FinishWorker(t, how)
    \/ PthreadJoin(t) \/ JoinReturn(t)
    \/ Lock(t) \/ AcquireMutex(t) \/ TryLock(t) \/ Unlock(t)
    \/ Yield(t) \/ Return(t)
    \/ \E o \in Objects : Drop(t, o)
    \/ Collect(t)

ThSpec == ThInit /\ [][ThNext]_thVars

\* A thread waiting for a pthread mutex: the GIL, or the mutex of the program.
GetsLock(t) ==
  \/ AcquireMutex(t) \/ StartWorker(t) \/ JoinReturn(t) \/ Return(t)
  \/ \E keeps \in BOOLEAN : (HoldsRefs => keeps) /\ SpawnReturn(t, keeps)

\* Fairness.  OS threads inside natives progress (WF).  pthread mutexes are not
\* queues, so getting one is assumed strongly fair; resume_vm_thread calls
\* sched_yield first so that a thread that comes back at once does not win every
\* time.  The VM is cooperative: nothing takes the GIL away from VM code, so
\* programs are assumed to unlock what they lock, to suspend again and again,
\* and workers to end.
Fairness ==
  \A t \in Threads :
    /\ WF_thVars(PthreadCreate(t) \/ PthreadJoin(t))
    /\ SF_thVars(GetsLock(t))
    /\ SF_thVars(Unlock(t))
    /\ SF_thVars(Yield(t))
    /\ SF_thVars(\E how \in {"ok", "error"} : FinishWorker(t, how))

FairThSpec == ThSpec /\ Fairness

----------------------------------------------------------------------------
(* Properties. *)

\* What a spawn hands over stays alive: the argument of a worker that has not
\* started, which only the spawner's variables or the handle keep reachable, the
\* handle a joiner is about to clear, and every argument and handle a live
\* thread has on its stack.
ArgumentsAlive ==
  /\ \A w \in Threads : life[w] = "created" => Arg(w) \notin freed
  /\ \A t \in Threads :
       pc[t] \in {"joining", "joined"} => Handle(target[t]) \notin freed
  /\ \A t, w \in Threads :
       life[t] = "live" => stack[t] \cap freed \cap {Arg(w), Handle(w)} = {}

\* "thread.join(thread_handle) -> value(s)": the value a worker returned is
\* still there when its joiner gets it.
ResultsAlive ==
  \A t, w \in Threads : life[t] = "live" => Result(w) \notin stack[t] \cap freed

\* ThreadData is freed at most once, and never while its worker or a joiner
\* still uses it: the handle of a join forgets it (udata->data = NULL).
DataReleasedOnce ==
  \A w \in Threads :
    /\ released[w] <= 1
    /\ released[w] = 1 => /\ life[w] \in {"unborn", "exited"}
                          /\ handleData[w] # "set"
                          /\ \A t \in Threads : pc[t] \in {"joining", "joined"} => target[t] # w

\* A joiner returns to the VM only with the worker's outcome in hand.
JoinSeesOutcome ==
  \A t \in Threads : pc[t] = "joined" => outcome[target[t]] # "none"

\* The natives bracket every blocking call as Gil says.
StepsAreGilSteps == [][Next]_gilVars

\* No lock is taken in an order that can deadlock with the GIL: whoever asks for
\* the mutex, spawns or joins eventually runs VM code again.
EveryoneReturns ==
  \A t \in Threads : Blocked(t) ~> InVm(t)

\* A spawned worker runs: fire-and-forget spawns included.
WorkersStart ==
  \A w \in Threads : life[w] = "created" ~> life[w] = "live"
============================================================================
