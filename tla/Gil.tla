-------------------------------- MODULE Gil --------------------------------
(***************************************************************************)
(* The interpreter lock of src/lib/thread.c and the notion of "current VM  *)
(* thread" of src/vm.c.                                                    *)
(*                                                                         *)
(* An OS thread executes VM code only while it holds the GIL.  A native    *)
(* that blocks brackets the blocking call with suspend_vm_thread (park the *)
(* current ObjThread for the collector, release the GIL) and               *)
(* resume_vm_thread (acquire the GIL, unpark, reinstall the ObjThread).    *)
(* The VM thread an OS thread executes is a global field until the first   *)
(* thread.spawn and a thread-local slot from then on.                      *)
(*                                                                         *)
(* SuspendVm, ResumeVm, SetCurrent, ... are operators that the modules of  *)
(* the blocking natives (ThreadLib, Channel) use in their own actions; the *)
(* specification below lets every live thread take them at any time.       *)
(* TOI_NO_GIL (documented as unsafe) is not modelled.                      *)
(***************************************************************************)
EXTENDS Naturals, FiniteSets

CONSTANTS
  Threads,    \* OS threads
  Main,       \* the OS thread that runs main()
  VmThreads,  \* ObjThread objects: main stack, worker stacks, coroutines
  MainVm,     \* the ObjThread made by init_vm
  NoThread,   \* gil = NoThread: the GIL is free
  NoVm        \* the NULL ObjThread*

ASSUME GilAssumption ==
  /\ IsFiniteSet(Threads)
  /\ Main \in Threads
  /\ MainVm \in VmThreads
  /\ NoThread \notin Threads
  /\ NoVm \notin VmThreads

VARIABLES
  gil,        \* owner of the static mutex gil
  useTls,     \* vm->use_thread_tls
  tls,        \* the pthread-specific slot current_thread_key of each OS thread
  vmCur,      \* vm->current_thread
  born,       \* ObjThreads allocated so far
  saved,      \* the local `caller` of a native between suspend and resume
  parkCount,  \* ObjThread.gc_park_count
  parked,     \* members of the list vm->gc_parked_threads
  life,       \* life cycle of each OS thread
  spawning    \* OS threads between suspend_vm_thread and pthread_create of a spawn

gilVars ==
  <<gil, useTls, tls, vmCur, born, saved, parkCount, parked, life, spawning>>

Lives == {"unborn", "created", "live", "exited"}

TypeOK ==
  /\ gil \in Threads \cup {NoThread}
  /\ useTls \in BOOLEAN
  /\ tls \in [Threads -> VmThreads \cup {NoVm}]
  /\ vmCur \in VmThreads
  /\ born \subseteq VmThreads
  /\ saved \in [Threads -> VmThreads \cup {NoVm}]
  /\ parkCount \in [VmThreads -> Nat]
  /\ parked \subseteq VmThreads
  /\ life \in [Threads -> Lives]
  /\ spawning \subseteq Threads

----------------------------------------------------------------------------
(* The current VM thread (vm.c). *)

CurrentOf(t) ==
  IF useTls /\ tls[t] # NoVm THEN tls[t] ELSE vmCur

\* Variant: the global field takes the old slot.
SetCurrentStale(t, v) ==
  IF useTls
  THEN tls' = [tls EXCEPT ![t] = v] /\ vmCur' = tls[t]
  ELSE vmCur' = v /\ UNCHANGED tls

SetCurrent(t, v) ==
  IF useTls
  THEN /\ tls' = [tls EXCEPT ![t] = v]
       /\ vmCur' = IF vmCur = NoVm THEN v ELSE vmCur
  ELSE /\ vmCur' = v
       /\ UNCHANGED tls

\* Variant: the first spawn leaves the global field in use.
EnableTlsNever(t) == UNCHANGED <<useTls, tls>>

EnableTls(t) ==
  IF useTls
  THEN UNCHANGED <<useTls, tls>>
  ELSE /\ useTls' = TRUE
       /\ tls' = [tls EXCEPT ![t] = vmCur]

----------------------------------------------------------------------------
(* Parking, and the suspend/resume bracket (thread.c). *)

Park(v) ==
  /\ parked' = IF parkCount[v] = 0 THEN parked \cup {v} ELSE parked
  /\ parkCount' = [parkCount EXCEPT ![v] = @ + 1]

\* Variant: the first resume takes the thread off the list, whatever the count.
UnparkAtOnce(v) ==
  IF parkCount[v] = 0
  THEN UNCHANGED <<parkCount, parked>>
  ELSE parkCount' = [parkCount EXCEPT ![v] = @ - 1] /\ parked' = parked \ {v}

Unpark(v) ==
  IF parkCount[v] = 0
  THEN UNCHANGED <<parkCount, parked>>
  ELSE /\ parkCount' = [parkCount EXCEPT ![v] = @ - 1]
       /\ parked' = IF parkCount[v] = 1 THEN parked \ {v} ELSE parked

InVm(t) == gil = t

Blocked(t) == saved[t] # NoVm

\* Variant: the GIL is not released.
SuspendVmKeepingGil(t) ==
  /\ InVm(t)
  /\ saved' = [saved EXCEPT ![t] = CurrentOf(t)]
  /\ Park(CurrentOf(t))
  /\ UNCHANGED gil

\* Variant: the VM thread is not parked.
SuspendVmUnparked(t) ==
  /\ InVm(t)
  /\ saved' = [saved EXCEPT ![t] = CurrentOf(t)]
  /\ gil' = NoThread
  /\ UNCHANGED <<parkCount, parked>>

SuspendVm(t) ==
  /\ InVm(t)
  /\ saved' = [saved EXCEPT ![t] = CurrentOf(t)]
  /\ Park(CurrentOf(t))
  /\ gil' = NoThread

ResumeVm(t) ==
  /\ Blocked(t)
  /\ t \notin spawning
  /\ gil = NoThread
  /\ gil' = t
  /\ Unpark(saved[t])
  /\ SetCurrent(t, saved[t])
  /\ saved' = [saved EXCEPT ![t] = NoVm]

\* mark_roots, run by the holder of the GIL: its own stack and the parked ones.
MarkedStacks(t) == {CurrentOf(t)} \cup parked

----------------------------------------------------------------------------
(* Life of an OS thread: pthread_create, and the two ends of thread_runner. *)

\* thread.spawn up to the release of the GIL.
SuspendToSpawn(t) ==
  /\ EnableTls(t)
  /\ SuspendVm(t)
  /\ spawning' = spawning \cup {t}

\* pthread_create, called by a suspended spawner; it may fail.
CreateOsThread(t, u) ==
  /\ t \in spawning
  /\ spawning' = spawning \ {t}
  /\ \/ /\ life[u] = "unborn"
        /\ life' = [life EXCEPT ![u] = "created"]
     \/ UNCHANGED life

\* thread_runner up to vm_run: take the GIL, allocate a stack, install it.
EnterRunner(t, v) ==
  /\ life[t] = "created"
  /\ gil = NoThread
  /\ v \notin born
  /\ gil' = t
  /\ born' = born \cup {v}
  /\ life' = [life EXCEPT ![t] = "live"]
  /\ SetCurrent(t, v)

\* Variant: a worker ends without releasing the GIL.
LeaveRunnerKeepingGil(t, spawnerVm) ==
  /\ InVm(t)
  /\ t # Main
  /\ life' = [life EXCEPT ![t] = "exited"]
  /\ SetCurrent(t, spawnerVm)
  /\ UNCHANGED gil

\* thread_runner after vm_run: reinstall the spawner's VM thread, release.
LeaveRunner(t, spawnerVm) ==
  /\ InVm(t)
  /\ t # Main
  /\ gil' = NoThread
  /\ life' = [life EXCEPT ![t] = "exited"]
  /\ SetCurrent(t, spawnerVm)

----------------------------------------------------------------------------
Init ==
  /\ gil = Main
  /\ useTls = FALSE
  /\ tls = [t \in Threads |-> NoVm]
  /\ vmCur = MainVm
  /\ born = {MainVm}
  /\ saved = [t \in Threads |-> NoVm]
  /\ parkCount = [v \in VmThreads |-> 0]
  /\ parked = {}
  /\ life = [t \in Threads |-> IF t = Main THEN "live" ELSE "unborn"]
  /\ spawning = {}

Suspend(t) ==
  SuspendVm(t) /\ UNCHANGED <<useTls, tls, vmCur, born, life, spawning>>

BeginSpawn(t) == SuspendToSpawn(t) /\ UNCHANGED <<vmCur, born, life>>

Create(t, u) ==
  /\ CreateOsThread(t, u)
  /\ UNCHANGED <<gil, useTls, tls, vmCur, born, saved, parkCount, parked>>

Resume(t) == ResumeVm(t) /\ UNCHANGED <<useTls, born, life, spawning>>

Enter(t, v) ==
  EnterRunner(t, v) /\ UNCHANGED <<useTls, saved, parkCount, parked, spawning>>

Leave(t, spawnerVm) ==
  /\ LeaveRunner(t, spawnerVm)
  /\ UNCHANGED <<useTls, born, saved, parkCount, parked, spawning>>

\* coroutine.create and calls of generator functions.
NewVmThread(t, v) ==
  /\ InVm(t)
  /\ v \notin born
  /\ born' = born \cup {v}
  /\ UNCHANGED <<gil, useTls, tls, vmCur, saved, parkCount, parked, life, spawning>>

\* coroutine.resume, yield, return to the resumer: any VM thread the program
\* can reach, one that another OS thread is blocked in included.
SwitchVmThread(t, v) ==
  /\ InVm(t)
  /\ v \in born \ {CurrentOf(t)}
  /\ SetCurrent(t, v)
  /\ UNCHANGED <<gil, useTls, born, saved, parkCount, parked, life, spawning>>

Next ==
  \E t \in Threads :
    \/ Suspend(t)
    \/ BeginSpawn(t)
    \/ Resume(t)
    \/ \E u \in Threads : Create(t, u)
    \/ \E v \in VmThreads : \/ Enter(t, v)
                            \/ NewVmThread(t, v)
                            \/ SwitchVmThread(t, v)
    \/ \E v \in born : Leave(t, v)

Spec == Init /\ [][Next]_gilVars

----------------------------------------------------------------------------
(* Properties. *)

SavedIn(v) == {t \in Threads : saved[t] = v}

\* The park list and the park counts are exactly the brackets in progress: a
\* VM thread is on vm->gc_parked_threads if and only if some native is between
\* suspend_vm_thread and resume_vm_thread on it, however many OS threads are
\* blocked in the same coroutine (that is why gc_park_count is a count).
ParkedExactly ==
  \A v \in VmThreads :
    /\ parkCount[v] = Cardinality(SavedIn(v))
    /\ v \in parked <=> SavedIn(v) # {}

\* A collection run by whoever holds the GIL marks the stack every other live
\* OS thread is executing: mark_roots starts from the caller's current VM
\* thread and the park list, and nothing else points at those stacks.
LiveStacksMarked ==
  gil # NoThread =>
    \A t \in Threads :
      life[t] = "live" =>
        (IF t = gil THEN CurrentOf(t) ELSE saved[t]) \in MarkedStacks(gil)

\* The comment at suspend_vm_thread: vm_current_thread must not be clobbered by
\* another OS thread.  The VM thread a live OS thread sees as current changes
\* only in a step in which it holds the GIL throughout; a bracket of suspend and
\* resume returns to the VM thread it left, also when TLS is switched on in it.
CurrentNotClobbered ==
  [][\A t \in Threads :
       /\ life[t] = "live" /\ life'[t] = "live"
       /\ gil # t \/ gil' # t
       => CurrentOf(t)' = CurrentOf(t)]_gilVars
============================================================================
