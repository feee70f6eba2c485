-------------------------- MODULE ThreadLibProofs --------------------------
(***************************************************************************)
(* Theorems about ThreadLib, for any number of OS threads: ThreadData is   *)
(* freed once, a join returns with the outcome, what a spawn hands over is *)
(* not collected, and every step is a step of Gil.                         *)
(***************************************************************************)
EXTENDS ThreadLib, GilProofs

\* Spawners were started before what they spawned and stay known to the VM.
Ancestry ==
  /\ life[Main] = "live"
  /\ \A t \in Threads : life[t] \in {"live", "exited"} => t \in born
  /\ \A w \in Threads : spawner[w] # NoThread => life[spawner[w]] \in {"live", "exited"}
  /\ \A w \in Threads : w # Main /\ life[w] # "unborn" => spawner[w] # NoThread

\* What the native a thread is in works on; only the spawner works on a worker.
Targets ==
  \A t \in Threads :
    LET w == target[t] IN
    /\ pc[t] \in {"create", "spawned"} =>
         w \in Threads /\ spawner[w] = t /\ handleData[w] = "none" /\ released[w] = 0
    /\ pc[t] = "create" => life[w] = "unborn"
    /\ pc[t] \in {"joining", "joined"} => w \in Threads /\ spawner[w] = t /\ handleData[w] = "set"
    /\ pc[t] = "joined" => life[w] = "exited"

\* Life of a ThreadData: before the handle, behind it, and after the join.
DataPhases ==
  \A w \in Threads :
    /\ spawner[w] = NoThread => handleData[w] = "none" /\ released[w] = 0
    /\ handleData[w] = "none" => released[w] = 0 \/ (released[w] = 1 /\ life[w] = "unborn")
    /\ handleData[w] = "set" => released[w] = 0 /\ life[w] # "unborn"
    /\ handleData[w] = "null" => released[w] = 1 /\ life[w] = "exited"
    /\ life[w] = "exited" => outcome[w] # "none"

\* Only the spawner has the handle.
HandlesAtSpawner == \A t, w \in Threads : Handle(w) \in stack[t] => spawner[w] = t

DInv == ThTypeOK /\ IInv /\ Ancestry /\ Targets /\ DataPhases /\ HandlesAtSpawner

----------------------------------------------------------------------------
(* For programs that keep their references. *)

\* Each OS thread executes the VM thread made for it.
OwnVm == \A t \in Threads : life[t] = "live" => CurrentOf(t) = t

\* Whoever still has a worker to look after is live and has what leads to it.
Kept ==
  /\ \A w \in Threads :
       handleData[w] = "set" => life[spawner[w]] = "live" /\ Handle(w) \in stack[spawner[w]]
  /\ \A w \in Threads :
       life[w] = "created" /\ handleData[w] = "none" =>
         pc[spawner[w]] = "spawned" /\ target[spawner[w]] = w
  /\ \A t \in Threads : pc[t] \in {"create", "spawned"} => Arg(target[t]) \in stack[t]
  /\ \A t \in Threads : pc[t] \notin {"vm", "out"} => life[t] = "live"

\* An object is freed only after it was made.
Fresh ==
  /\ freed \subseteq made
  /\ \A w \in Threads : spawner[w] = NoThread => Arg(w) \notin made
  /\ \A w \in Threads : handleData[w] = "none" => Handle(w) \notin made

RInv == OwnVm /\ Kept /\ Fresh /\ ArgumentsAlive

----------------------------------------------------------------------------
(* The steps as steps of Gil. *)

\* Steps that only suspend, resume or take the mutex.
Quiet(t) ==
  Lock(t) \/ AcquireMutex(t) \/ TryLock(t) \/ Unlock(t) \/ Yield(t) \/ Return(t)

LEMMA GoneToVm ==
  ASSUME DInv, NEW t \in Threads, Running(t)
  PROVE  life[t] = "live" /\ t \in born
BY GilAssumption DEF DInv, IInv, BInv, Places, Running, InVm, Ancestry

LEMMA SpawnerBorn ==
  ASSUME DInv, NEW w \in Threads, Running(w), w # Main
  PROVE  spawner[w] \in Threads /\ spawner[w] \in born
<1>1. life[w] = "live"
  BY GoneToVm
<1>2. spawner[w] # NoThread
  BY <1>1 DEF DInv, Ancestry
<1>3. QED
  BY <1>2 DEF DInv, Ancestry, ThTypeOK

LEMMA StepOfGil == DInv /\ [ThNext]_thVars => [Next]_gilVars
<1> SUFFICES ASSUME DInv, [ThNext]_thVars PROVE Next \/ UNCHANGED gilVars
  OBVIOUS
<1>1. ASSUME NEW t \in Threads, NEW w \in Threads, Spawn(t, w) PROVE Next
  <2>1. BeginSpawn(t)
    BY <1>1 DEF Spawn, BeginSpawn
  <2>2. QED
    BY <2>1 DEF Next
<1>2. ASSUME NEW t \in Threads, NEW w \in Threads, Join(t, w) PROVE Next
  <2>1. Suspend(t)
    BY <1>2 DEF Join, Suspend
  <2>2. QED
    BY <2>1 DEF Next
<1>3. ASSUME NEW t \in Threads, PthreadCreate(t) PROVE Next
  <2>1. target[t] \in Threads
    BY <1>3 DEF PthreadCreate, DInv, Targets
  <2>2. Create(t, target[t])
    BY <1>3 DEF PthreadCreate, Create
  <2>3. QED
    BY <2>1, <2>2 DEF Next
<1>4. ASSUME NEW t \in Threads,
             (\E keeps \in BOOLEAN : SpawnReturn(t, keeps)) \/ JoinReturn(t) \/ Return(t)
      PROVE  Next
  <2>1. Resume(t)
    BY <1>4 DEF SpawnReturn, JoinReturn, Return, Resume
  <2>2. QED
    BY <2>1 DEF Next
<1>5. ASSUME NEW w \in Threads, StartWorker(w) PROVE Next
  <2>1. Enter(w, w) /\ w \in VmThreads
    BY <1>5, ThreadLibAssumption DEF StartWorker, Enter
  <2>2. QED
    BY <2>1 DEF Next
<1>6. ASSUME NEW w \in Threads, \E how \in {"ok", "error"} : FinishWorker(w, how) PROVE Next
  <2>1. Leave(w, spawner[w]) /\ w # Main /\ Running(w)
    BY <1>6 DEF FinishWorker, Leave, LeaveRunner
  <2>2. spawner[w] \in born
    BY <2>1, SpawnerBorn
  <2>3. QED
    BY <2>1, <2>2 DEF Next
<1>7. ASSUME NEW t \in Threads, Lock(t) \/ Yield(t) PROVE Next
  <2>1. Suspend(t)
    BY <1>7 DEF Lock, Yield, Suspend
  <2>2. QED
    BY <2>1 DEF Next
<1>8. ASSUME NEW t \in Threads,
             \/ PthreadJoin(t) \/ AcquireMutex(t) \/ TryLock(t) \/ Unlock(t) \/ Collect(t)
             \/ \E o \in Objects : Drop(t, o)
      PROVE  UNCHANGED gilVars
  BY <1>8 DEF PthreadJoin, AcquireMutex, TryLock, Unlock, Collect, Drop
<1>9. CASE UNCHANGED thVars
  BY <1>9 DEF thVars
<1>10. QED
  BY <1>1, <1>2, <1>3, <1>4, <1>5, <1>6, <1>7, <1>8, <1>9 DEF ThNext

----------------------------------------------------------------------------
(* Types. *)

LEMMA NextTypes == DInv /\ [ThNext]_thVars => ThTypeOK'
<1> SUFFICES ASSUME DInv, [ThNext]_thVars PROVE ThTypeOK'
  OBVIOUS
<1>0. ThTypeOK
  BY DEF DInv
<1> USE DEF ThTypeOK, Goto, Steps
<1>1. ASSUME NEW t \in Threads, NEW w \in Threads, Spawn(t, w) PROVE ThTypeOK'
  <2>1. Arg(w) \in Objects
    BY DEF Arg, Objects
  <2>2. QED
    BY <1>0, <1>1, <2>1 DEF Spawn
<1>2. ASSUME NEW t \in Threads, NEW w \in Threads, Join(t, w) PROVE ThTypeOK'
  BY <1>0, <1>2 DEF Join
<1>3. ASSUME NEW t \in Threads, PthreadCreate(t) \/ PthreadJoin(t) PROVE ThTypeOK'
  BY <1>0, <1>3 DEF PthreadCreate, PthreadJoin, dataVars, objVars
<1>4. ASSUME NEW t \in Threads, NEW keeps \in BOOLEAN, SpawnReturn(t, keeps) PROVE ThTypeOK'
  <2>1. target[t] \in Threads
    BY <1>4 DEF SpawnReturn, DInv, Targets
  <2>2. Handle(target[t]) \in Objects
    BY <2>1 DEF Handle, Objects
  <2>3. CASE life[target[t]] = "unborn"
    BY <1>0, <1>4, <2>1, <2>3 DEF SpawnReturn
  <2>4. CASE life[target[t]] # "unborn"
    BY <1>0, <1>4, <2>1, <2>2, <2>4 DEF SpawnReturn
  <2>5. QED
    BY <2>3, <2>4
<1>5. ASSUME NEW w \in Threads, StartWorker(w) PROVE ThTypeOK'
  <2>1. {Arg(w)} \in SUBSET Objects
    BY DEF Arg, Objects
  <2>2. QED
    BY <1>0, <1>5, <2>1 DEF StartWorker, dataVars
<1>6. ASSUME NEW w \in Threads, NEW how \in {"ok", "error"}, FinishWorker(w, how) PROVE ThTypeOK'
  <2>1. Result(w) \in Objects
    BY DEF Result, Objects
  <2>2. QED
    BY <1>0, <1>6, <2>1 DEF FinishWorker
<1>7. ASSUME NEW t \in Threads, JoinReturn(t) PROVE ThTypeOK'
  <2>1. target[t] \in Threads
    BY <1>7 DEF JoinReturn, DInv, Targets
  <2>2. Result(target[t]) \in Objects
    BY <2>1 DEF Result, Objects
  <2>3. QED
    BY <1>0, <1>7, <2>1, <2>2 DEF JoinReturn
<1>8. ASSUME NEW t \in Threads, Quiet(t) PROVE ThTypeOK'
  BY <1>0, <1>8 DEF Quiet, Lock, AcquireMutex, TryLock, Unlock, Yield, Return, dataVars, objVars
<1>9. ASSUME NEW t \in Threads, Collect(t) \/ \E o \in Objects : Drop(t, o) PROVE ThTypeOK'
  BY <1>0, <1>9 DEF Collect, Drop, dataVars, objVars
<1>10. CASE UNCHANGED thVars
  BY <1>0, <1>10 DEF thVars, dataVars, objVars
<1>11. QED
  BY <1>1, <1>2, <1>3, <1>4, <1>5, <1>6, <1>7, <1>8, <1>9, <1>10 DEF ThNext, Quiet

----------------------------------------------------------------------------
(* Ancestry and the phases of a ThreadData. *)

LEMMA NextAncestry == DInv /\ [ThNext]_thVars => Ancestry'
<1> SUFFICES ASSUME DInv, [ThNext]_thVars PROVE Ancestry'
  OBVIOUS
<1>0. Ancestry /\ ThTypeOK /\ TypeOK
  BY DEF DInv, IInv, BInv
<1> USE GilAssumption
<1>1. ASSUME NEW t \in Threads, NEW w \in Threads, Spawn(t, w) PROVE Ancestry'
  <2>1. life[t] = "live"
    BY <1>1, GoneToVm DEF Spawn
  <2>2. /\ spawner' = [spawner EXCEPT ![w] = t]
        /\ UNCHANGED <<life, born>>
    BY <1>1 DEF Spawn
  <2>3. QED
    BY <1>0, <2>1, <2>2 DEF Ancestry, ThTypeOK
<1>2. ASSUME NEW t \in Threads, PthreadCreate(t) PROVE Ancestry'
  <2>1. /\ target[t] \in Threads /\ spawner[target[t]] = t /\ life[target[t]] = "unborn"
    BY <1>2 DEF PthreadCreate, DInv, Targets
  <2>2. /\ life' = [life EXCEPT ![target[t]] = "created"] \/ UNCHANGED life
        /\ UNCHANGED <<born, spawner>>
    BY <1>2 DEF PthreadCreate, CreateOsThread, dataVars
  <2>3. QED
    BY <1>0, <2>1, <2>2 DEF Ancestry, ThTypeOK, TypeOK
<1>3. ASSUME NEW w \in Threads, StartWorker(w) PROVE Ancestry'
  <2>1. /\ life[w] = "created" /\ life' = [life EXCEPT ![w] = "live"]
        /\ born' = born \cup {w} /\ UNCHANGED spawner
    BY <1>3 DEF StartWorker, EnterRunner, dataVars
  <2>2. QED
    BY <1>0, <2>1 DEF Ancestry, ThTypeOK, TypeOK
<1>4. ASSUME NEW w \in Threads, NEW how \in {"ok", "error"}, FinishWorker(w, how) PROVE Ancestry'
  <2>1. /\ w # Main /\ life[w] = "live" /\ life' = [life EXCEPT ![w] = "exited"]
        /\ UNCHANGED <<born, spawner>>
    BY <1>4, GoneToVm DEF FinishWorker, LeaveRunner
  <2>2. QED
    BY <1>0, <2>1 DEF Ancestry, ThTypeOK, TypeOK
<1>5. ASSUME NEW t \in Threads,
             \/ \E w \in Threads : Join(t, w)
             \/ \E keeps \in BOOLEAN : SpawnReturn(t, keeps)
             \/ PthreadJoin(t) \/ JoinReturn(t) \/ Quiet(t) \/ Collect(t)
             \/ \E o \in Objects : Drop(t, o)
      PROVE  UNCHANGED <<life, born, spawner>>
  BY <1>5 DEF Join, SpawnReturn, PthreadJoin, JoinReturn, Quiet, Lock, AcquireMutex, TryLock,
              Unlock, Yield, Return, Collect, Drop, dataVars, gilVars
<1>6. CASE UNCHANGED <<life, born, spawner>>
  BY <1>0, <1>6 DEF Ancestry
<1>7. CASE UNCHANGED thVars
  BY <1>6, <1>7 DEF thVars, dataVars, gilVars
<1>8. QED
  BY <1>1, <1>2, <1>3, <1>4, <1>5, <1>6, <1>7 DEF ThNext, Quiet

LEMMA NextHandles == DInv /\ [ThNext]_thVars => HandlesAtSpawner'
<1> SUFFICES ASSUME DInv, [ThNext]_thVars PROVE HandlesAtSpawner'
  OBVIOUS
<1>0. HandlesAtSpawner /\ ThTypeOK
  BY DEF DInv
<1> USE GilAssumption DEF HandlesAtSpawner, ThTypeOK
<1>1. ASSUME NEW t \in Threads, NEW w \in Threads, Spawn(t, w) PROVE HandlesAtSpawner'
  <2>1. /\ spawner[w] = NoThread /\ spawner' = [spawner EXCEPT ![w] = t]
        /\ stack' = [stack EXCEPT ![t] = @ \cup {Arg(w)}] \/ stack' = stack
    BY <1>1 DEF Spawn
  <2>2. \A x \in Threads : Handle(x) # Arg(w)
    BY DEF Handle, Arg
  <2>3. QED
    BY <1>0, <2>1, <2>2
<1>2. ASSUME NEW t \in Threads, NEW w \in Threads, Join(t, w) PROVE HandlesAtSpawner'
  BY <1>0, <1>2 DEF Join
<1>3. ASSUME NEW t \in Threads, NEW keeps \in BOOLEAN, SpawnReturn(t, keeps)
      PROVE  HandlesAtSpawner'
  <2>1. spawner[target[t]] = t /\ target[t] \in Threads
    BY <1>3 DEF SpawnReturn, DInv, Targets
  <2>2. /\ UNCHANGED spawner
        /\ stack' = [stack EXCEPT ![t] = @ \cup {Handle(target[t])}] \/ stack' = stack
    BY <1>3 DEF SpawnReturn
  <2>3. \A x \in Threads : Handle(x) = Handle(target[t]) => x = target[t]
    BY DEF Handle
  <2>4. QED
    BY <1>0, <2>1, <2>2, <2>3
<1>4. ASSUME NEW w \in Threads, StartWorker(w) PROVE HandlesAtSpawner'
  <2>1. UNCHANGED spawner /\ stack' = [stack EXCEPT ![w] = {Arg(w)}]
    BY <1>4 DEF StartWorker, dataVars
  <2>2. \A x \in Threads : Handle(x) # Arg(w)
    BY DEF Handle, Arg
  <2>3. QED
    BY <1>0, <2>1, <2>2
<1>5. ASSUME NEW t \in Threads, JoinReturn(t) PROVE HandlesAtSpawner'
  <2>1. /\ UNCHANGED spawner
        /\ stack' = [stack EXCEPT ![t] = @ \cup {Result(target[t])}] \/ stack' = stack
    BY <1>5 DEF JoinReturn
  <2>2. \A x \in Threads : Handle(x) # Result(target[t])
    BY DEF Handle, Result
  <2>3. QED
    BY <1>0, <2>1, <2>2
<1>6. ASSUME NEW t \in Threads, NEW o \in Objects, Drop(t, o) PROVE HandlesAtSpawner'
  BY <1>0, <1>6 DEF Drop, dataVars
<1>7. ASSUME NEW t \in Threads,
             \/ \E how \in {"ok", "error"} : FinishWorker(t, how)
             \/ PthreadCreate(t) \/ PthreadJoin(t) \/ Quiet(t) \/ Collect(t)
      PROVE  UNCHANGED <<stack, spawner>>
  BY <1>7 DEF FinishWorker, PthreadCreate, PthreadJoin, Quiet, Lock, AcquireMutex, TryLock,
              Unlock, Yield, Return, Collect, dataVars, objVars
<1>8. CASE UNCHANGED <<stack, spawner>>
  BY <1>0, <1>8
<1>9. CASE UNCHANGED thVars
  BY <1>8, <1>9 DEF thVars, dataVars, objVars
<1>10. QED
  BY <1>1, <1>2, <1>3, <1>4, <1>5, <1>6, <1>7, <1>8, <1>9 DEF ThNext, Quiet

\* Two threads never work on the same worker.
LEMMA TargetsApart ==
  ASSUME DInv, NEW s \in Threads, NEW t \in Threads, s # t,
         pc[s] \in {"create", "spawned", "joining", "joined"},
         pc[t] \in {"create", "spawned", "joining", "joined"}
  PROVE  target[s] # target[t]
BY DEF DInv, Targets

LEMMA NextTargets == DInv /\ [ThNext]_thVars => Targets'
<1> SUFFICES ASSUME DInv, [ThNext]_thVars PROVE Targets'
  OBVIOUS
<1>0. Targets /\ DataPhases /\ ThTypeOK /\ TypeOK
  BY DEF DInv, IInv, BInv
<1> USE GilAssumption DEF Goto
<1>1. ASSUME NEW t \in Threads, NEW w \in Threads, Spawn(t, w) PROVE Targets'
  <2>1. /\ spawner[w] = NoThread /\ life[w] = "unborn" /\ handleData[w] = "none" /\ released[w] = 0
    BY <1>0, <1>1 DEF Spawn, DataPhases
  <2>2. /\ pc' = [pc EXCEPT ![t] = "create"] /\ target' = [target EXCEPT ![t] = w]
        /\ spawner' = [spawner EXCEPT ![w] = t] /\ UNCHANGED <<life, handleData, released>>
    BY <1>1 DEF Spawn
  <2>3. QED
    BY <1>0, <2>1, <2>2 DEF Targets, ThTypeOK
<1>2. ASSUME NEW t \in Threads, PthreadCreate(t) PROVE Targets'
  <2>1. /\ pc[t] = "create" /\ pc' = [pc EXCEPT ![t] = "spawned"]
        /\ \/ life[target[t]] = "unborn" /\ life' = [life EXCEPT ![target[t]] = "created"]
           \/ life' = life
        /\ UNCHANGED <<target, spawner, handleData, released>>
    BY <1>2 DEF PthreadCreate, CreateOsThread, dataVars
  <2>2. QED
    BY <1>0, <2>1, TargetsApart DEF Targets, ThTypeOK, TypeOK
<1>3. ASSUME NEW t \in Threads, NEW keeps \in BOOLEAN, SpawnReturn(t, keeps) PROVE Targets'
  <2>1. /\ pc[t] = "spawned" /\ pc' = [pc EXCEPT ![t] = "vm"]
        /\ target' = [target EXCEPT ![t] = NoThread] /\ UNCHANGED <<life, spawner>>
        /\ \/ handleData' = handleData /\ released' = [released EXCEPT ![target[t]] = @ + 1]
           \/ handleData' = [handleData EXCEPT ![target[t]] = "set"] /\ released' = released
    BY <1>3 DEF SpawnReturn
  <2>2. QED
    BY <1>0, <2>1, TargetsApart DEF Targets, ThTypeOK
<1>4. ASSUME NEW w \in Threads, StartWorker(w) PROVE Targets'
  <2>1. /\ life[w] = "created" /\ life' = [life EXCEPT ![w] = "live"]
        /\ pc' = [pc EXCEPT ![w] = "vm"] /\ UNCHANGED <<target, spawner, handleData, released>>
    BY <1>4 DEF StartWorker, EnterRunner, dataVars
  <2>2. QED
    BY <1>0, <2>1 DEF Targets, ThTypeOK, TypeOK
<1>5. ASSUME NEW w \in Threads, NEW how \in {"ok", "error"}, FinishWorker(w, how) PROVE Targets'
  <2>1. /\ life[w] = "live" /\ life' = [life EXCEPT ![w] = "exited"]
        /\ pc' = [pc EXCEPT ![w] = "out"] /\ UNCHANGED <<target, spawner, handleData, released>>
    BY <1>5, GoneToVm DEF FinishWorker, LeaveRunner
  <2>2. QED
    BY <1>0, <2>1 DEF Targets, ThTypeOK, TypeOK
<1>6. ASSUME NEW t \in Threads, NEW w \in Threads, Join(t, w) PROVE Targets'
  <2>1. spawner[w] = t /\ handleData[w] = "set"
    BY <1>6 DEF Join, DInv, HandlesAtSpawner
  <2>2. /\ pc' = [pc EXCEPT ![t] = "joining"] /\ target' = [target EXCEPT ![t] = w]
        /\ UNCHANGED <<life, spawner, handleData, released>>
    BY <1>6 DEF Join
  <2>3. QED
    BY <1>0, <2>1, <2>2 DEF Targets, ThTypeOK
<1>7. ASSUME NEW t \in Threads, PthreadJoin(t) PROVE Targets'
  BY <1>0, <1>7 DEF PthreadJoin, dataVars, gilVars, Targets, ThTypeOK
<1>8. ASSUME NEW t \in Threads, JoinReturn(t) PROVE Targets'
  <2>1. /\ pc[t] = "joined" /\ pc' = [pc EXCEPT ![t] = "vm"]
        /\ target' = [target EXCEPT ![t] = NoThread] /\ UNCHANGED <<life, spawner>>
        /\ handleData' = [handleData EXCEPT ![target[t]] = "null"]
        /\ released' = [released EXCEPT ![target[t]] = @ + 1]
    BY <1>8 DEF JoinReturn
  <2>2. QED
    BY <1>0, <2>1, TargetsApart DEF Targets, ThTypeOK
<1>9. ASSUME NEW t \in Threads, Quiet(t) PROVE Targets'
  <2>1. /\ UNCHANGED <<life, target, spawner, handleData, released>>
        /\ pc' = pc \/ \E place \in {"vm", "locking", "resume"} : pc' = [pc EXCEPT ![t] = place]
    BY <1>9 DEF Quiet, Lock, AcquireMutex, TryLock, Unlock, Yield, Return, dataVars, gilVars
  <2>2. QED
    BY <1>0, <2>1 DEF Targets, ThTypeOK
<1>10. ASSUME NEW t \in Threads, Collect(t) \/ \E o \in Objects : Drop(t, o)
       PROVE  UNCHANGED <<pc, life, target, spawner, handleData, released>>
  BY <1>10 DEF Collect, Drop, dataVars, gilVars
<1>11. CASE UNCHANGED <<pc, life, target, spawner, handleData, released>>
  BY <1>0, <1>11 DEF Targets
<1>12. CASE UNCHANGED thVars
  BY <1>11, <1>12 DEF thVars, dataVars, gilVars
<1>13. QED
  BY <1>1, <1>2, <1>3, <1>4, <1>5, <1>6, <1>7, <1>8, <1>9, <1>10, <1>11, <1>12 DEF ThNext, Quiet

LEMMA NextDataPhases == DInv /\ [ThNext]_thVars => DataPhases'
<1> SUFFICES ASSUME DInv, [ThNext]_thVars PROVE DataPhases'
  OBVIOUS
<1>0. Targets /\ DataPhases /\ ThTypeOK /\ TypeOK
  BY DEF DInv, IInv, BInv
<1> USE GilAssumption
<1>1. ASSUME NEW t \in Threads, NEW w \in Threads, Spawn(t, w) PROVE DataPhases'
  <2>1. spawner' = [spawner EXCEPT ![w] = t] /\ UNCHANGED <<life, handleData, released, outcome>>
    BY <1>1 DEF Spawn
  <2>2. QED
    BY <1>0, <2>1 DEF DataPhases, ThTypeOK
<1>2. ASSUME NEW t \in Threads, PthreadCreate(t) PROVE DataPhases'
  <2>1. /\ target[t] \in Threads /\ handleData[target[t]] = "none" /\ released[target[t]] = 0
    BY <1>0, <1>2 DEF PthreadCreate, Targets
  <2>2. /\ life' = [life EXCEPT ![target[t]] = "created"] \/ UNCHANGED life
        /\ UNCHANGED <<spawner, handleData, released, outcome>>
    BY <1>2 DEF PthreadCreate, CreateOsThread, dataVars
  <2>3. QED
    BY <1>0, <2>1, <2>2 DEF DataPhases, ThTypeOK, TypeOK
<1>3. ASSUME NEW t \in Threads, NEW keeps \in BOOLEAN, SpawnReturn(t, keeps) PROVE DataPhases'
  <2>1. /\ target[t] \in Threads /\ spawner[target[t]] = t
        /\ handleData[target[t]] = "none" /\ released[target[t]] = 0
    BY <1>0, <1>3 DEF SpawnReturn, Targets
  <2>2. UNCHANGED <<life, spawner, outcome>>
    BY <1>3 DEF SpawnReturn
  <2>3. CASE life[target[t]] = "unborn"
    <3>1. handleData' = handleData /\ released' = [released EXCEPT ![target[t]] = @ + 1]
      BY <1>3, <2>3 DEF SpawnReturn
    <3>2. QED
      BY <1>0, <2>1, <2>2, <2>3, <3>1 DEF DataPhases, ThTypeOK
  <2>4. CASE life[target[t]] # "unborn"
    <3>1. released' = released /\ handleData' = [handleData EXCEPT ![target[t]] = "set"]
      BY <1>3, <2>4 DEF SpawnReturn
    <3>2. QED
      BY <1>0, <2>1, <2>2, <2>4, <3>1 DEF DataPhases, ThTypeOK
  <2>5. QED
    BY <2>3, <2>4
<1>4. ASSUME NEW w \in Threads, StartWorker(w) PROVE DataPhases'
  <2>1. /\ life[w] = "created" /\ life' = [life EXCEPT ![w] = "live"]
        /\ UNCHANGED <<spawner, handleData, released, outcome>>
    BY <1>4 DEF StartWorker, EnterRunner, dataVars
  <2>2. QED
    BY <1>0, <2>1 DEF DataPhases, ThTypeOK, TypeOK
<1>5. ASSUME NEW w \in Threads, NEW how \in {"ok", "error"}, FinishWorker(w, how) PROVE DataPhases'
  <2>1. /\ life[w] = "live" /\ life' = [life EXCEPT ![w] = "exited"]
        /\ outcome' = [outcome EXCEPT ![w] = how] /\ UNCHANGED <<spawner, handleData, released>>
    BY <1>5, GoneToVm DEF FinishWorker, LeaveRunner
  <2>2. QED
    BY <1>0, <2>1 DEF DataPhases, ThTypeOK, TypeOK
<1>6. ASSUME NEW t \in Threads, JoinReturn(t) PROVE DataPhases'
  <2>1. /\ target[t] \in Threads /\ spawner[target[t]] = t
        /\ handleData[target[t]] = "set" /\ life[target[t]] = "exited"
    BY <1>0, <1>6 DEF JoinReturn, Targets
  <2>2. /\ UNCHANGED <<life, spawner, outcome>>
        /\ handleData' = [handleData EXCEPT ![target[t]] = "null"]
        /\ released' = [released EXCEPT ![target[t]] = @ + 1]
    BY <1>6 DEF JoinReturn
  <2>3. QED
    BY <1>0, <2>1, <2>2 DEF DataPhases, ThTypeOK
<1>7. ASSUME NEW t \in Threads,
             \/ \E w \in Threads : Join(t, w)
             \/ PthreadJoin(t) \/ Quiet(t) \/ Collect(t) \/ \E o \in Objects : Drop(t, o)
      PROVE  UNCHANGED <<life, spawner, handleData, released, outcome>>
  BY <1>7 DEF Join, PthreadJoin, Quiet, Lock, AcquireMutex, TryLock, Unlock, Yield, Return,
              Collect, Drop, dataVars, gilVars
<1>8. CASE UNCHANGED <<life, spawner, handleData, released, outcome>>
  BY <1>0, <1>8 DEF DataPhases
<1>9. CASE UNCHANGED thVars
  BY <1>8, <1>9 DEF thVars, dataVars, gilVars
<1>10. QED
  BY <1>1, <1>2, <1>3, <1>4, <1>5, <1>6, <1>7, <1>8, <1>9 DEF ThNext, Quiet

----------------------------------------------------------------------------
(* The theorems that hold of every program. *)

LEMMA InitDInv == ThInit => DInv
<1> SUFFICES ASSUME ThInit PROVE DInv
  OBVIOUS
<1> USE GilAssumption
<1>1. IInv
  BY InitIInv DEF ThInit
<1>2. ThTypeOK
  BY DEF ThInit, ThTypeOK, Steps
<1>3. Ancestry
  BY ThreadLibAssumption DEF ThInit, Init, Ancestry
<1>4. Targets /\ DataPhases /\ HandlesAtSpawner
  BY DEF ThInit, Init, Targets, DataPhases, HandlesAtSpawner
<1>5. QED
  BY <1>1, <1>2, <1>3, <1>4 DEF DInv

LEMMA NextDInv == DInv /\ [ThNext]_thVars => DInv'
<1> SUFFICES ASSUME DInv, [ThNext]_thVars PROVE DInv'
  OBVIOUS
<1>1. IInv'
  BY StepOfGil, NextIInv DEF DInv
<1>2. QED
  BY <1>1, NextTypes, NextAncestry, NextTargets, NextDataPhases, NextHandles DEF DInv

LEMMA DInvariance == ThSpec => []DInv
BY InitDInv, NextDInv, PTL DEF ThSpec

\* Type correctness of spawn, join, yield and mutex.
THEOREM ThTypeCorrect == ThSpec => []ThTypeOK
<1>1. DInv => ThTypeOK
  BY DEF DInv
<1>2. QED
  BY <1>1, DInvariance, PTL

\* thread_spawn, thread_join and thread_runner use suspend_vm_thread and
\* resume_vm_thread as Gil has it, so what is proved of Gil holds of them.
THEOREM NativesAreGil == ThSpec => StepsAreGilSteps
BY DInvariance, StepOfGil, PTL DEF ThSpec, StepsAreGilSteps

\* A ThreadData is freed at most once, by its spawner, after its last use.
THEOREM DataFreedOnce == ThSpec => []DataReleasedOnce
<1>1. DInv => DataReleasedOnce
  <2> SUFFICES ASSUME DInv, NEW w \in Threads
               PROVE  /\ released[w] <= 1
                      /\ released[w] = 1 =>
                           /\ life[w] \in {"unborn", "exited"}
                           /\ handleData[w] # "set"
                           /\ \A t \in Threads :
                                pc[t] \in {"joining", "joined"} => target[t] # w
    BY DEF DataReleasedOnce
  <2>1. handleData[w] \in {"none", "set", "null"}
    BY DEF DInv, ThTypeOK
  <2>2. QED
    BY <2>1 DEF DInv, DataPhases, Targets
<1>2. QED
  BY <1>1, DInvariance, PTL

\* When pthread_join returns, thread_runner has stored the worker's outcome.
THEOREM JoinHasOutcome == ThSpec => []JoinSeesOutcome
<1>1. DInv => JoinSeesOutcome
  BY DEF DInv, Targets, DataPhases, JoinSeesOutcome
<1>2. QED
  BY <1>1, DInvariance, PTL

----------------------------------------------------------------------------
(* Programs that keep their references: OwnVm, Kept, Fresh. *)

LEMMA LiveBefore ==
  ASSUME DInv, [ThNext]_thVars, NEW s \in Threads, life'[s] = "live"
  PROVE  life[s] = "live" \/ StartWorker(s)
<1>0. TypeOK
  BY DEF DInv, IInv, BInv
<1>1. ASSUME NEW t \in Threads, PthreadCreate(t) PROVE life[s] = "live"
  BY <1>0, <1>1 DEF PthreadCreate, CreateOsThread, TypeOK
<1>2. ASSUME NEW w \in Threads, StartWorker(w) PROVE life[s] = "live" \/ StartWorker(s)
  BY <1>0, <1>2 DEF StartWorker, EnterRunner, TypeOK
<1>3. ASSUME NEW w \in Threads, NEW how \in {"ok", "error"}, FinishWorker(w, how)
      PROVE  life[s] = "live"
  BY <1>0, <1>3 DEF FinishWorker, LeaveRunner, TypeOK
<1>4. ASSUME NEW t \in Threads,
             \/ \E w \in Threads : Spawn(t, w) \/ Join(t, w)
             \/ \E keeps \in BOOLEAN : SpawnReturn(t, keeps)
             \/ PthreadJoin(t) \/ JoinReturn(t) \/ Quiet(t) \/ Collect(t)
             \/ \E o \in Objects : Drop(t, o)
      PROVE  UNCHANGED life
  BY <1>4 DEF Spawn, Join, SpawnReturn, PthreadJoin, JoinReturn, Quiet, Lock, AcquireMutex,
              TryLock, Unlock, Yield, Return, Collect, Drop, gilVars
<1>5. CASE UNCHANGED thVars
  BY <1>5 DEF thVars, gilVars
<1>6. QED
  BY <1>1, <1>2, <1>3, <1>4, <1>5 DEF ThNext, Quiet

LEMMA HolderKeepsCurrent ==
  ASSUME DInv, [ThNext]_thVars, NEW s \in Threads, gil = s, gil' = s
  PROVE  CurrentOf(s)' = CurrentOf(s)
<1>1. ASSUME NEW t \in Threads,
             \/ \E w \in Threads : Spawn(t, w) \/ Join(t, w)
             \/ \E keeps \in BOOLEAN : SpawnReturn(t, keeps)
             \/ StartWorker(t) \/ \E how \in {"ok", "error"} : FinishWorker(t, how)
             \/ JoinReturn(t) \/ Lock(t) \/ Yield(t) \/ Return(t)
      PROVE  FALSE
  BY <1>1, GilAssumption
     DEF Spawn, SuspendToSpawn, Join, SuspendVm, InVm, SpawnReturn, ResumeVm, StartWorker,
         EnterRunner, FinishWorker, LeaveRunner, JoinReturn, Lock, Yield, Return
<1>2. ASSUME NEW t \in Threads,
             \/ PthreadCreate(t) \/ PthreadJoin(t) \/ AcquireMutex(t) \/ TryLock(t)
             \/ Unlock(t) \/ Collect(t) \/ \E o \in Objects : Drop(t, o)
      PROVE  UNCHANGED <<useTls, tls, vmCur>>
  BY <1>2 DEF PthreadCreate, PthreadJoin, AcquireMutex, TryLock, Unlock, Collect, Drop, gilVars
<1>3. CASE UNCHANGED thVars
  BY <1>3 DEF thVars, gilVars, CurrentOf
<1>4. CASE UNCHANGED <<useTls, tls, vmCur>>
  BY <1>4 DEF CurrentOf
<1>5. QED
  BY <1>1, <1>2, <1>3, <1>4 DEF ThNext

LEMMA NextOwnVm ==
  ASSUME DInv, OwnVm, [ThNext]_thVars
  PROVE  OwnVm'
<1> SUFFICES ASSUME NEW s \in Threads, life'[s] = "live" PROVE CurrentOf(s)' = s
  BY DEF OwnVm
<1>0. TypeOK /\ OneThreadBeforeTls /\ IInv
  BY DEF DInv, IInv, BInv
<1>1. CASE StartWorker(s)
  <2>1. life[s] = "created" /\ SetCurrent(s, s) /\ useTls' = useTls
    BY <1>1 DEF StartWorker, EnterRunner
  <2>2. useTls
    BY <1>0, <2>1 DEF OneThreadBeforeTls, DInv, Ancestry
  <2>3. tls' = [tls EXCEPT ![s] = s] /\ useTls'
    BY <2>1, <2>2 DEF SetCurrent
  <2>4. tls'[s] = s /\ s # NoVm
    BY <1>0, <2>3, GilAssumption, ThreadLibAssumption DEF TypeOK
  <2>5. QED
    BY <2>3, <2>4 DEF CurrentOf
<1>2. CASE life[s] = "live"
  <2>1. CurrentOf(s) = s
    BY <1>2 DEF OwnVm
  <2>2. CASE gil = s /\ gil' = s
    BY <2>1, <2>2, HolderKeepsCurrent
  <2>3. CASE gil # s \/ gil' # s
    <3>1. CASE Next
      BY <1>0, <1>2, <2>1, <2>3, <3>1, NextKeepsCurrent DEF OthersKeepCurrent
    <3>2. CASE UNCHANGED gilVars
      BY <2>1, <3>2 DEF gilVars, CurrentOf
    <3>3. QED
      BY <3>1, <3>2, StepOfGil
  <2>4. QED
    BY <2>2, <2>3
<1>3. QED
  BY <1>1, <1>2, LiveBefore

LEMMA NamesApart ==
  \A v, w : /\ Arg(v) # Handle(w) /\ Arg(v) # Result(w) /\ Handle(v) # Result(w)
            /\ (Arg(v) = Arg(w) => v = w) /\ (Handle(v) = Handle(w) => v = w)
BY DEF Arg, Handle, Result

LEMMA NextFresh ==
  ASSUME DInv, Fresh, [ThNext]_thVars
  PROVE  Fresh'
<1>0. ThTypeOK
  BY DEF DInv
<1> USE GilAssumption, NamesApart DEF Fresh
<1>1. ASSUME NEW t \in Threads, NEW w \in Threads, Spawn(t, w) PROVE Fresh'
  <2>1. /\ spawner' = [spawner EXCEPT ![w] = t] /\ made' = made \cup {Arg(w)}
        /\ UNCHANGED <<freed, handleData>>
    BY <1>1 DEF Spawn
  <2>2. QED
    BY <1>0, <2>1 DEF ThTypeOK
<1>2. ASSUME NEW t \in Threads, NEW keeps \in BOOLEAN, SpawnReturn(t, keeps) PROVE Fresh'
  <2>1. UNCHANGED <<freed, spawner>>
    BY <1>2 DEF SpawnReturn
  <2>2. CASE life[target[t]] = "unborn"
    BY <1>2, <2>1, <2>2 DEF SpawnReturn
  <2>3. CASE life[target[t]] # "unborn"
    <3>1. /\ handleData' = [handleData EXCEPT ![target[t]] = "set"]
          /\ made' = made \cup {Handle(target[t])}
      BY <1>2, <2>3 DEF SpawnReturn
    <3>2. QED
      BY <1>0, <2>1, <3>1 DEF ThTypeOK
  <2>4. QED
    BY <2>2, <2>3
<1>3. ASSUME NEW w \in Threads, NEW how \in {"ok", "error"}, FinishWorker(w, how) PROVE Fresh'
  <2>1. UNCHANGED <<freed, spawner, handleData>> /\ made' \in {made, made \cup {Result(w)}}
    BY <1>3 DEF FinishWorker
  <2>2. QED
    BY <2>1
<1>4. ASSUME NEW t \in Threads, JoinReturn(t) PROVE Fresh'
  <2>1. UNCHANGED <<freed, made, spawner>> /\ handleData' = [handleData EXCEPT ![target[t]] = "null"]
    BY <1>4 DEF JoinReturn
  <2>2. QED
    BY <1>0, <2>1 DEF ThTypeOK
<1>5. ASSUME NEW t \in Threads, Collect(t) PROVE Fresh'
  BY <1>5 DEF Collect, dataVars
<1>6. ASSUME NEW t \in Threads,
             \/ \E w \in Threads : Join(t, w)
             \/ PthreadCreate(t) \/ PthreadJoin(t) \/ StartWorker(t) \/ Quiet(t)
             \/ \E o \in Objects : Drop(t, o)
      PROVE  UNCHANGED <<freed, made, spawner, handleData>>
  BY <1>6 DEF Join, PthreadCreate, PthreadJoin, StartWorker, Quiet, Lock, AcquireMutex, TryLock,
              Unlock, Yield, Return, Drop, dataVars, objVars
<1>7. CASE UNCHANGED <<freed, made, spawner, handleData>>
  BY <1>7
<1>8. CASE UNCHANGED thVars
  BY <1>7, <1>8 DEF thVars, dataVars, objVars
<1>9. QED
  BY <1>1, <1>2, <1>3, <1>4, <1>5, <1>6, <1>7, <1>8 DEF ThNext, Quiet

LEMMA NextKept ==
  ASSUME HoldsRefs, DInv, Kept, [ThNext]_thVars
  PROVE  Kept'
<1>0. /\ ThTypeOK /\ TypeOK /\ Ancestry /\ Targets /\ DataPhases /\ HandlesAtSpawner
  BY DEF DInv, IInv, BInv
<1> USE GilAssumption, NamesApart DEF Goto
<1>1. ASSUME NEW t \in Threads, NEW w \in Threads, Spawn(t, w) PROVE Kept'
  <2>1. /\ life[t] = "live" /\ life[w] = "unborn" /\ pc[t] = "vm"
        /\ spawner[w] = NoThread /\ handleData[w] = "none"
    BY <1>0, <1>1, GoneToVm DEF Spawn, Running, DataPhases
  <2>2. /\ pc' = [pc EXCEPT ![t] = "create"] /\ target' = [target EXCEPT ![t] = w]
        /\ spawner' = [spawner EXCEPT ![w] = t]
        /\ stack' = [stack EXCEPT ![t] = @ \cup {Arg(w)}] /\ UNCHANGED <<life, handleData>>
    BY <1>1 DEF Spawn
  <2>3. QED
    BY <1>0, <2>1, <2>2 DEF Kept, ThTypeOK, DataPhases, Ancestry
<1>2. ASSUME NEW t \in Threads, PthreadCreate(t) PROVE Kept'
  <2>1. /\ target[t] \in Threads /\ spawner[target[t]] = t /\ life[target[t]] = "unborn"
        /\ pc[t] = "create" /\ pc' = [pc EXCEPT ![t] = "spawned"]
    BY <1>0, <1>2 DEF PthreadCreate, Targets
  <2>2. /\ life' = [life EXCEPT ![target[t]] = "created"] \/ UNCHANGED life
        /\ UNCHANGED <<target, spawner, handleData, stack>>
    BY <1>2 DEF PthreadCreate, CreateOsThread, dataVars, objVars
  <2>3. QED
    BY <1>0, <2>1, <2>2 DEF Kept, ThTypeOK, TypeOK, Ancestry, DataPhases
<1>3. ASSUME NEW t \in Threads, NEW keeps \in BOOLEAN, keeps, SpawnReturn(t, keeps) PROVE Kept'
  <2>1. /\ pc[t] = "spawned" /\ life[t] = "live"
        /\ target[t] \in Threads /\ spawner[target[t]] = t /\ handleData[target[t]] = "none"
    BY <1>0, <1>3 DEF SpawnReturn, Targets, Kept
  <2>2. /\ pc' = [pc EXCEPT ![t] = "vm"] /\ target' = [target EXCEPT ![t] = NoThread]
        /\ UNCHANGED <<life, spawner>>
    BY <1>3 DEF SpawnReturn
  <2>3. CASE life[target[t]] = "unborn"
    <3>1. UNCHANGED <<handleData, stack>>
      BY <1>3, <2>3 DEF SpawnReturn
    <3>2. QED
      BY <1>0, <2>1, <2>2, <2>3, <3>1 DEF Kept, ThTypeOK, Ancestry
  <2>4. CASE life[target[t]] # "unborn"
    <3>1. /\ handleData' = [handleData EXCEPT ![target[t]] = "set"]
          /\ stack' = [stack EXCEPT ![t] = @ \cup {Handle(target[t])}]
      BY <1>3, <2>4 DEF SpawnReturn
    <3>2. QED
      BY <1>0, <2>1, <2>2, <2>4, <3>1 DEF Kept, ThTypeOK, Ancestry
  <2>5. QED
    BY <2>3, <2>4
<1>4. ASSUME NEW w \in Threads, StartWorker(w) PROVE Kept'
  <2>1. /\ life[w] = "created" /\ life' = [life EXCEPT ![w] = "live"]
        /\ pc' = [pc EXCEPT ![w] = "vm"] /\ stack' = [stack EXCEPT ![w] = {Arg(w)}]
        /\ UNCHANGED <<target, spawner, handleData>>
    BY <1>4 DEF StartWorker, EnterRunner, dataVars
  <2>2. pc[w] \in {"vm", "out"}
    BY <2>1 DEF Kept
  <2>3. QED
    BY <1>0, <2>1, <2>2 DEF Kept, ThTypeOK, TypeOK, Ancestry, DataPhases
<1>5. ASSUME NEW w \in Threads, NEW how \in {"ok", "error"}, FinishWorker(w, how) PROVE Kept'
  <2>1. /\ life[w] = "live" /\ life' = [life EXCEPT ![w] = "exited"] /\ pc[w] = "vm"
        /\ pc' = [pc EXCEPT ![w] = "out"] /\ UNCHANGED <<target, spawner, handleData, stack>>
    BY <1>5, GoneToVm DEF FinishWorker, LeaveRunner, Running
  <2>2. \A x \in Threads : spawner[x] = w => life[x] = "unborn" \/ handleData[x] = "null"
    BY <1>5 DEF FinishWorker
  <2>3. QED
    BY <1>0, <2>1, <2>2 DEF Kept, ThTypeOK, TypeOK, DataPhases, Ancestry
<1>6. ASSUME NEW t \in Threads, NEW w \in Threads, Join(t, w) PROVE Kept'
  <2>1. /\ life[t] = "live" /\ pc[t] = "vm" /\ pc' = [pc EXCEPT ![t] = "joining"]
        /\ target' = [target EXCEPT ![t] = w] /\ UNCHANGED <<life, spawner, handleData, stack>>
    BY <1>6, GoneToVm DEF Join, Running
  <2>2. QED
    BY <1>0, <2>1 DEF Kept, ThTypeOK, Ancestry
<1>7. ASSUME NEW t \in Threads, JoinReturn(t) PROVE Kept'
  <2>1. /\ pc[t] = "joined" /\ pc' = [pc EXCEPT ![t] = "vm"]
        /\ target' = [target EXCEPT ![t] = NoThread] /\ UNCHANGED <<life, spawner>>
        /\ handleData' = [handleData EXCEPT ![target[t]] = "null"]
        /\ stack' = [stack EXCEPT ![t] = @ \cup {Result(target[t])}] \/ stack' = stack
    BY <1>7 DEF JoinReturn
  <2>2. target[t] \in Threads
    BY <1>0, <2>1 DEF Targets
  <2>3. \A w \in Threads : handleData'[w] \in {"none", "set"} => handleData'[w] = handleData[w]
    BY <1>0, <2>1, <2>2 DEF ThTypeOK
  <2>4. \A s \in Threads : stack[s] \subseteq stack'[s]
    BY <1>0, <2>1 DEF ThTypeOK
  <2>5. \A s \in Threads : pc'[s] \notin {"vm", "out"} => pc'[s] = pc[s] /\ target'[s] = target[s]
    BY <1>0, <2>1 DEF ThTypeOK
  <2>6. \A s \in Threads : pc[s] = "spawned" => pc'[s] = "spawned" /\ target'[s] = target[s]
    BY <1>0, <2>1 DEF ThTypeOK
  <2>7. \A w \in Threads : handleData[w] = "set" \/ life[w] = "created" => spawner[w] \in Threads
    BY <1>0 DEF DataPhases, ThTypeOK, Ancestry
  <2>8. QED
    BY <2>1, <2>3, <2>4, <2>5, <2>6, <2>7 DEF Kept
<1>8. ASSUME NEW t \in Threads, NEW o \in Objects, Drop(t, o) PROVE Kept'
  <2>1. /\ pc[t] = "vm" /\ stack' = [stack EXCEPT ![t] = @ \ {o}]
        /\ UNCHANGED <<pc, life, target, spawner, handleData>>
    BY <1>8 DEF Drop, Running, dataVars, gilVars
  <2>2. \A w \in Threads : handleData[w] = "set" => o # Handle(w)
    BY <1>8 DEF Drop, Handle
  <2>3. QED
    BY <1>0, <2>1, <2>2 DEF Kept, ThTypeOK, Ancestry
<1>9. ASSUME NEW t \in Threads, PthreadJoin(t) \/ Quiet(t) PROVE Kept'
  <2>1. /\ UNCHANGED <<life, target, spawner, handleData, stack>>
        /\ pc[t] # "spawned"
        /\ \/ pc' = pc
           \/ life[t] = "live" /\ \E place \in {"vm", "joined", "locking", "resume"} :
                                    pc' = [pc EXCEPT ![t] = place]
    BY <1>9, GoneToVm
       DEF Kept, PthreadJoin, Quiet, Lock, AcquireMutex, TryLock, Unlock, Yield, Return,
           Running, dataVars, objVars, gilVars
  <2>2. QED
    BY <1>0, <2>1 DEF Kept, ThTypeOK, Ancestry
<1>10. ASSUME NEW t \in Threads, Collect(t)
       PROVE  UNCHANGED <<pc, life, target, spawner, handleData, stack>>
  BY <1>10 DEF Collect, dataVars, gilVars
<1>11. CASE UNCHANGED <<pc, life, target, spawner, handleData, stack>>
  BY <1>11 DEF Kept
<1>12. CASE UNCHANGED thVars
  BY <1>11, <1>12 DEF thVars, dataVars, objVars, gilVars
<1>13. QED
  BY <1>1, <1>2, <1>3, <1>4, <1>5, <1>6, <1>7, <1>8, <1>9, <1>10, <1>11, <1>12
     DEF ThNext, Quiet

----------------------------------------------------------------------------
(* What a collection reaches. *)

LEMMA LiveStacksReached ==
  ASSUME DInv, OwnVm, NEW t \in Threads, Running(t), NEW s \in Threads, life[s] = "live"
  PROVE  /\ stack[s] \subseteq Reachable(t)
         /\ \A w \in Threads :
              Handle(w) \in stack[s] => MarkedByHandle(w) \subseteq Reachable(t)
<1>1. gil = t /\ gil # NoThread
  BY GilAssumption DEF Running, InVm
<1>2. (IF s = t THEN CurrentOf(t) ELSE saved[s]) \in MarkedStacks(t)
  BY <1>1, InvMarksStacks DEF DInv, LiveStacksMarked
<1>3. s # t => saved[s] = s
  <2>1. s # t => saved[s] # NoVm
    BY <1>1 DEF DInv, IInv, BInv, Places
  <2>2. QED
    BY <2>1 DEF DInv, IInv, SavedIsCurrent, OwnVm
<1>4. s \in MarkedStacks(t) \cap Threads
  BY <1>2, <1>3 DEF OwnVm
<1>5. QED
  BY <1>4 DEF Reachable

LEMMA NextArgumentsAlive ==
  ASSUME HoldsRefs, DInv, RInv, [ThNext]_thVars
  PROVE  ArgumentsAlive'
<1>0. /\ ThTypeOK /\ TypeOK /\ Ancestry /\ Targets /\ DataPhases /\ HandlesAtSpawner
      /\ OwnVm /\ Kept /\ Fresh /\ ArgumentsAlive
  BY DEF DInv, IInv, BInv, RInv
<1> USE GilAssumption, NamesApart DEF Goto
<1>1. ASSUME NEW t \in Threads, NEW w \in Threads, Spawn(t, w) PROVE ArgumentsAlive'
  <2>1. Arg(w) \notin freed /\ pc[t] = "vm"
    BY <1>0, <1>1 DEF Spawn, Fresh, Running
  <2>2. /\ pc' = [pc EXCEPT ![t] = "create"] /\ target' = [target EXCEPT ![t] = w]
        /\ stack' = [stack EXCEPT ![t] = @ \cup {Arg(w)}] /\ UNCHANGED <<life, freed>>
    BY <1>1 DEF Spawn
  <2>3. QED
    BY <1>0, <2>1, <2>2 DEF ArgumentsAlive, ThTypeOK
<1>2. ASSUME NEW t \in Threads, PthreadCreate(t) PROVE ArgumentsAlive'
  <2>1. Arg(target[t]) \notin freed
    BY <1>0, <1>2 DEF PthreadCreate, Kept, ArgumentsAlive, Targets
  <2>2. /\ pc' = [pc EXCEPT ![t] = "spawned"]
        /\ life' = [life EXCEPT ![target[t]] = "created"] \/ UNCHANGED life
        /\ UNCHANGED <<target, stack, freed>>
    BY <1>2 DEF PthreadCreate, CreateOsThread, dataVars, objVars
  <2>3. QED
    BY <1>0, <2>1, <2>2 DEF ArgumentsAlive, ThTypeOK, TypeOK
<1>3. ASSUME NEW t \in Threads, NEW keeps \in BOOLEAN, SpawnReturn(t, keeps) PROVE ArgumentsAlive'
  <2>1. Handle(target[t]) \notin freed
    BY <1>0, <1>3 DEF SpawnReturn, Targets, Fresh
  <2>2. /\ pc' = [pc EXCEPT ![t] = "vm"] /\ target' = [target EXCEPT ![t] = NoThread]
        /\ stack' = [stack EXCEPT ![t] = @ \cup {Handle(target[t])}] \/ stack' = stack
        /\ UNCHANGED <<life, freed>>
    BY <1>3 DEF SpawnReturn
  <2>3. QED
    BY <1>0, <2>1, <2>2 DEF ArgumentsAlive, ThTypeOK
<1>4. ASSUME NEW w \in Threads, StartWorker(w) PROVE ArgumentsAlive'
  <2>1. /\ life[w] = "created" /\ life' = [life EXCEPT ![w] = "live"]
        /\ pc' = [pc EXCEPT ![w] = "vm"] /\ stack' = [stack EXCEPT ![w] = {Arg(w)}]
        /\ UNCHANGED <<target, freed>>
    BY <1>4 DEF StartWorker, EnterRunner, dataVars
  <2>2. QED
    BY <1>0, <2>1 DEF ArgumentsAlive, ThTypeOK, TypeOK
<1>5. ASSUME NEW w \in Threads, NEW how \in {"ok", "error"}, FinishWorker(w, how)
      PROVE  ArgumentsAlive'
  <2>1. /\ life' = [life EXCEPT ![w] = "exited"] /\ pc' = [pc EXCEPT ![w] = "out"]
        /\ UNCHANGED <<target, stack, freed>>
    BY <1>5 DEF FinishWorker, LeaveRunner
  <2>2. QED
    BY <1>0, <2>1 DEF ArgumentsAlive, ThTypeOK, TypeOK
<1>6. ASSUME NEW t \in Threads, NEW w \in Threads, Join(t, w) PROVE ArgumentsAlive'
  <2>1. Handle(w) \notin freed
    BY <1>0, <1>6, GoneToVm DEF Join, ArgumentsAlive
  <2>2. /\ pc' = [pc EXCEPT ![t] = "joining"] /\ target' = [target EXCEPT ![t] = w]
        /\ UNCHANGED <<life, stack, freed>>
    BY <1>6 DEF Join
  <2>3. QED
    BY <1>0, <2>1, <2>2 DEF ArgumentsAlive, ThTypeOK
<1>7. ASSUME NEW t \in Threads, JoinReturn(t) PROVE ArgumentsAlive'
  <2>1. /\ pc' = [pc EXCEPT ![t] = "vm"] /\ target' = [target EXCEPT ![t] = NoThread]
        /\ stack' = [stack EXCEPT ![t] = @ \cup {Result(target[t])}] \/ stack' = stack
        /\ UNCHANGED <<life, freed>>
    BY <1>7 DEF JoinReturn
  <2>2. QED
    BY <1>0, <2>1 DEF ArgumentsAlive, ThTypeOK
<1>8. ASSUME NEW t \in Threads, NEW o \in Objects, Drop(t, o) PROVE ArgumentsAlive'
  <2>1. /\ stack' = [stack EXCEPT ![t] = @ \ {o}] /\ UNCHANGED <<pc, life, target, freed>>
    BY <1>8 DEF Drop, dataVars, gilVars
  <2>2. QED
    BY <1>0, <2>1 DEF ArgumentsAlive, ThTypeOK
<1>9. ASSUME NEW t \in Threads, PthreadJoin(t) \/ Quiet(t) PROVE ArgumentsAlive'
  <2>1. /\ UNCHANGED <<life, target, stack, freed>>
        /\ \/ pc' = pc
           \/ \E place \in {"vm", "locking", "resume"} : pc' = [pc EXCEPT ![t] = place]
           \/ pc[t] = "joining" /\ pc' = [pc EXCEPT ![t] = "joined"]
    BY <1>9 DEF PthreadJoin, Quiet, Lock, AcquireMutex, TryLock, Unlock, Yield, Return,
                dataVars, objVars, gilVars
  <2>2. QED
    BY <1>0, <2>1 DEF ArgumentsAlive, ThTypeOK
<1>10. ASSUME NEW t \in Threads, Collect(t) PROVE ArgumentsAlive'
  <2>1. /\ Running(t) /\ freed' = freed \cup (made \ Reachable(t))
        /\ UNCHANGED <<pc, life, target, stack>>
    BY <1>10 DEF Collect, dataVars, gilVars
  <2>2. ASSUME NEW w \in Threads, life[w] = "created" PROVE Arg(w) \in Reachable(t)
    <3>1. w # Main /\ spawner[w] \in Threads
      BY <1>0, <2>2 DEF Ancestry, ThTypeOK
    <3>2. CASE handleData[w] = "none"
      <4>1. pc[spawner[w]] = "spawned" /\ target[spawner[w]] = w
        BY <1>0, <2>2, <3>2 DEF Kept
      <4>2. life[spawner[w]] = "live" /\ Arg(w) \in stack[spawner[w]]
        BY <1>0, <3>1, <4>1 DEF Kept
      <4>3. QED
        BY <1>0, <2>1, <3>1, <4>2, LiveStacksReached
    <3>3. CASE handleData[w] = "set"
      <4>1. life[spawner[w]] = "live" /\ Handle(w) \in stack[spawner[w]]
        BY <1>0, <3>3 DEF Kept
      <4>2. Arg(w) \in MarkedByHandle(w)
        BY <3>3 DEF MarkedByHandle
      <4>3. QED
        BY <1>0, <2>1, <3>1, <4>1, <4>2, LiveStacksReached
    <3>4. CASE handleData[w] = "null"
      BY <1>0, <2>2, <3>4 DEF DataPhases
    <3>5. QED
      BY <1>0, <3>2, <3>3, <3>4 DEF ThTypeOK
  <2>3. ASSUME NEW s \in Threads, pc[s] \in {"joining", "joined"}
        PROVE  Handle(target[s]) \in Reachable(t)
    <3>1. target[s] \in Threads /\ spawner[target[s]] = s /\ handleData[target[s]] = "set"
      BY <1>0, <2>3 DEF Targets
    <3>2. life[s] = "live" /\ Handle(target[s]) \in stack[s]
      BY <1>0, <3>1 DEF Kept
    <3>3. QED
      BY <1>0, <2>1, <3>2, LiveStacksReached
  <2>4. ASSUME NEW s \in Threads, life[s] = "live" PROVE stack[s] \subseteq Reachable(t)
    BY <1>0, <2>1, <2>4, LiveStacksReached
  <2>5. QED
    BY <1>0, <2>1, <2>2, <2>3, <2>4 DEF ArgumentsAlive
<1>11. CASE UNCHANGED thVars
  BY <1>0, <1>11 DEF ArgumentsAlive, thVars, dataVars, objVars, gilVars
<1>12. QED
  BY <1>1, <1>2, <1>3, <1>4, <1>5, <1>6, <1>7, <1>8, <1>9, <1>10, <1>11 DEF ThNext, Quiet

----------------------------------------------------------------------------
LEMMA InitRInv == ThInit => RInv
<1> SUFFICES ASSUME ThInit PROVE RInv
  OBVIOUS
<1> USE GilAssumption, ThreadLibAssumption
<1>1. OwnVm
  BY DEF ThInit, Init, OwnVm, CurrentOf
<1>2. Kept /\ Fresh /\ ArgumentsAlive
  BY DEF ThInit, Init, Kept, Fresh, ArgumentsAlive
<1>3. QED
  BY <1>1, <1>2 DEF RInv

LEMMA NextRInv == HoldsRefs /\ DInv /\ RInv /\ [ThNext]_thVars => RInv'
BY NextOwnVm, NextKept, NextFresh, NextArgumentsAlive DEF RInv

LEMMA RInvariance ==
  ASSUME HoldsRefs
  PROVE  ThSpec => []RInv
<1>1. DInv /\ RInv /\ [ThNext]_thVars => RInv'
  BY NextRInv
<1>2. QED
  BY <1>1, InitRInv, DInvariance, PTL DEF ThSpec

\* In a program that keeps what it passes, thread_handle_mark and mark_roots
\* keep every argument and handle from the collector while someone needs it.
THEOREM ArgumentsNotCollected ==
  ASSUME HoldsRefs
  PROVE  ThSpec => []ArgumentsAlive
<1>1. RInv => ArgumentsAlive
  BY DEF RInv
<1>2. QED
  BY <1>1, RInvariance, PTL
============================================================================
