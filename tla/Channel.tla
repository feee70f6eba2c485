------------------------------ MODULE Channel ------------------------------
(***************************************************************************)
(* thread.channel of src/lib/thread.c: send, recv, tryrecv and close over  *)
(* one channel, as seen by OS threads that also compete for the GIL, with  *)
(* the collector running whenever a thread in the VM chooses to.           *)
(*                                                                         *)
(* send and recv give up the GIL before they take the channel's mutex and  *)
(* wait on its condition variables; close, tryrecv and the collector's     *)
(* channel_mark take the mutex while they hold the GIL.  The mutex, the    *)
(* condition variables and their waiters are explicit, spurious wakeups    *)
(* included.  All OS threads are already live; each runs one VM thread of  *)
(* its own.                                                                *)
(***************************************************************************)
EXTENDS Gil, Sequences

CONSTANTS
  Capacities,  \* arguments of thread.channel(capacity) to consider
  MaxValues,   \* bound: number of values the program makes to send
  NoValue

ASSUME ChannelAssumption ==
  /\ Capacities \subseteq Nat
  /\ MaxValues \in Nat
  /\ NoValue \notin 1..MaxValues
  /\ Threads \subseteq VmThreads
  /\ MainVm = Main

Values == 1..MaxValues

VARIABLES
  mutex,     \* owner of ChannelData.mutex
  queue,     \* the nodes reachable from ChannelData.head, front first
  tail,      \* the node ChannelData.tail points to (nodes are named by value)
  count,     \* ChannelData.count
  capacity,  \* ChannelData.capacity
  closed,    \* ChannelData.closed
  pc,        \* where each OS thread is in the native it runs
  cval,      \* the C local `value` of that native
  local,     \* the reference the thread keeps on its VM stack
  made,      \* values made so far
  freed,     \* values whose object the collector has freed
  accepted,  \* history: values enqueued, in order
  delivered  \* history: values dequeued, in order

chanVars == <<mutex, queue, tail, count, closed>>
heapVars == <<made, freed>>
historyVars == <<accepted, delivered>>
constVars == <<capacity, useTls, born, life, spawning>>
chVars ==
  <<gilVars, chanVars, capacity, pc, cval, local, heapVars, historyVars>>

Lockers == {"sendLock", "recvLock"}
Waiters == {"sendWait", "recvWait"}
Steps == {"vm", "sendCheck", "recvCheck", "closeLock", "tryLock", "gcLock",
          "resume"} \cup Lockers \cup Waiters

At(step) == {t \in Threads : pc[t] = step}

ChTypeOK ==
  /\ mutex \in Threads \cup {NoThread}
  /\ queue \in Seq(Values)
  /\ tail \in Values \cup {NoValue}
  /\ count \in Nat
  /\ capacity \in Nat
  /\ closed \in BOOLEAN
  /\ pc \in [Threads -> Steps]
  /\ cval \in [Threads -> Values \cup {NoValue}]
  /\ local \in [Threads -> Values \cup {NoValue}]
  /\ made \in 0..MaxValues
  /\ freed \subseteq Values
  /\ accepted \in Seq(Values)
  /\ delivered \in Seq(Values)

----------------------------------------------------------------------------
\* Every worker has been spawned and waits for the GIL at the end of a yield.
ChInit ==
  /\ gil = Main
  /\ useTls = TRUE
  /\ tls = [t \in Threads |-> t]
  /\ vmCur = MainVm
  /\ born = Threads
  /\ saved = [t \in Threads |-> IF t = Main THEN NoVm ELSE t]
  /\ parkCount = [v \in VmThreads |-> IF v \in Threads \ {Main} THEN 1 ELSE 0]
  /\ parked = Threads \ {Main}
  /\ life = [t \in Threads |-> "live"]
  /\ spawning = {}
  /\ mutex = NoThread
  /\ queue = <<>>
  /\ tail = NoValue
  /\ count = 0
  /\ capacity \in Capacities
  /\ closed = FALSE
  /\ pc = [t \in Threads |-> IF t = Main THEN "vm" ELSE "resume"]
  /\ cval = [t \in Threads |-> NoValue]
  /\ local = [t \in Threads |-> NoValue]
  /\ made = 0
  /\ freed = {}
  /\ accepted = <<>>
  /\ delivered = <<>>

Running(t) == InVm(t) /\ pc[t] = "vm"

Goto(t, step) == pc' = [pc EXCEPT ![t] = step]

\* Variant: no signal.
GotoOnly(t, step, w, relock) == Goto(t, step)

\* pthread_cond_signal on the waiters at step w, by a thread that goes to `step`.
GotoAndSignal(t, step, w, relock) ==
  IF At(w) = {}
  THEN Goto(t, step)
  ELSE \E u \in At(w) : pc' = [pc EXCEPT ![t] = step, ![u] = relock]

Full == capacity > 0 /\ count >= capacity

----------------------------------------------------------------------------
(* Calls into the natives.  send pops its argument from the VM stack, so    *)
(* the object stays referenced there only if the program kept a copy.       *)

\* A send on a channel already closed returns false at once: nothing changes.
CallSend(t, keeps) ==
  /\ Running(t)
  /\ ~closed
  /\ made < MaxValues
  /\ made' = made + 1
  /\ cval' = [cval EXCEPT ![t] = made + 1]
  /\ local' = [local EXCEPT ![t] = IF keeps THEN made + 1 ELSE NoValue]
  /\ SuspendVm(t)
  /\ Goto(t, "sendLock")
  /\ UNCHANGED <<tls, vmCur, constVars, chanVars, freed, historyVars>>

CallRecv(t) ==
  /\ Running(t)
  /\ SuspendVm(t)
  /\ Goto(t, "recvLock")
  /\ UNCHANGED <<tls, vmCur, constVars, chanVars, cval, local, heapVars, historyVars>>

\* thread.yield, thread.sleep: suspend and resume with nothing in between.
Yield(t) ==
  /\ Running(t)
  /\ SuspendVm(t)
  /\ Goto(t, "resume")
  /\ UNCHANGED <<tls, vmCur, constVars, chanVars, cval, local, heapVars, historyVars>>

\* close, tryrecv and a collection go for the mutex with the GIL in hand.
CallHoldingGil(t, step) ==
  /\ Running(t)
  /\ Goto(t, step)
  /\ UNCHANGED <<gilVars, capacity, chanVars, cval, local, heapVars, historyVars>>

----------------------------------------------------------------------------
(* The mutex and the condition variables. *)

LockMutex(t) ==
  /\ pc[t] \in Lockers
  /\ mutex = NoThread
  /\ mutex' = t
  /\ Goto(t, IF pc[t] = "sendLock" THEN "sendCheck" ELSE "recvCheck")
  /\ UNCHANGED <<gilVars, capacity, queue, tail, count, closed, cval, local,
                 heapVars, historyVars>>

SpuriousWakeup(t) ==
  /\ pc[t] \in Waiters
  /\ Goto(t, IF pc[t] = "sendWait" THEN "sendLock" ELSE "recvLock")
  /\ UNCHANGED <<gilVars, capacity, chanVars, cval, local, heapVars, historyVars>>

----------------------------------------------------------------------------
(* channel_send, with the mutex held. *)

SendWait(t) ==
  /\ pc[t] = "sendCheck"
  /\ Full /\ ~closed
  /\ mutex' = NoThread
  /\ Goto(t, "sendWait")
  /\ UNCHANGED <<gilVars, capacity, queue, tail, count, closed, cval, local,
                 heapVars, historyVars>>

SendRefused(t) ==
  /\ pc[t] = "sendCheck"
  /\ closed
  /\ mutex' = NoThread
  /\ cval' = [cval EXCEPT ![t] = NoValue]
  /\ Goto(t, "resume")
  /\ UNCHANGED <<gilVars, capacity, queue, tail, count, closed, local,
                 heapVars, historyVars>>

\* Variant: the new node is linked in front of the list.
LinkNodeFirst(v) ==
  /\ queue' = <<v>> \o queue
  /\ tail' = IF queue = <<>> THEN v ELSE tail
  /\ count' = count + 1
  /\ accepted' = Append(accepted, v)

\* Linking a node behind a tail that is no longer in the list loses it.
LinkNode(v) ==
  /\ queue' = IF tail = NoValue THEN <<v>>
              ELSE IF queue # <<>> /\ tail = queue[Len(queue)] THEN Append(queue, v)
              ELSE queue
  /\ tail' = v
  /\ count' = count + 1
  /\ accepted' = Append(accepted, v)

Enqueue(t) ==
  /\ pc[t] = "sendCheck"
  /\ ~closed /\ ~Full
  /\ LinkNode(cval[t])
  /\ cval' = [cval EXCEPT ![t] = NoValue]
  /\ GotoAndSignal(t, "resume", "recvWait", "recvLock")
  /\ mutex' = NoThread
  /\ UNCHANGED <<gilVars, capacity, closed, local, heapVars, delivered>>

----------------------------------------------------------------------------
(* channel_recv, with the mutex held. *)

RecvWait(t) ==
  /\ pc[t] = "recvCheck"
  /\ count = 0 /\ ~closed
  /\ mutex' = NoThread
  /\ Goto(t, "recvWait")
  /\ UNCHANGED <<gilVars, capacity, queue, tail, count, closed, cval, local,
                 heapVars, historyVars>>

RecvClosed(t) ==
  /\ pc[t] = "recvCheck"
  /\ count = 0 /\ closed
  /\ mutex' = NoThread
  /\ Goto(t, "resume")
  /\ UNCHANGED <<gilVars, capacity, queue, tail, count, closed, cval, local,
                 heapVars, historyVars>>

\* Variant: tail still points to the node when the list becomes empty.
UnlinkHeadKeepingTail ==
  /\ queue # <<>>
  /\ queue' = Tail(queue)
  /\ count' = count - 1
  /\ delivered' = Append(delivered, Head(queue))
  /\ UNCHANGED tail

UnlinkHead ==
  /\ queue # <<>>
  /\ queue' = Tail(queue)
  /\ tail' = IF Tail(queue) = <<>> THEN NoValue ELSE tail
  /\ count' = count - 1
  /\ delivered' = Append(delivered, Head(queue))

Dequeue(t) ==
  /\ pc[t] = "recvCheck"
  /\ count > 0
  /\ UnlinkHead
  /\ cval' = [cval EXCEPT ![t] = Head(queue)]
  /\ GotoAndSignal(t, "resume", "sendWait", "sendLock")
  /\ mutex' = NoThread
  /\ UNCHANGED <<gilVars, capacity, closed, local, heapVars, accepted>>

----------------------------------------------------------------------------
\* Variant: the native takes the GIL back and leaves its VM thread parked.
ReturnParked(t) ==
  /\ pc[t] = "resume"
  /\ gil = NoThread /\ gil' = t
  /\ SetCurrent(t, saved[t])
  /\ saved' = [saved EXCEPT ![t] = NoVm]
  /\ local' = [local EXCEPT ![t] = IF cval[t] # NoValue THEN cval[t] ELSE @]
  /\ cval' = [cval EXCEPT ![t] = NoValue]
  /\ Goto(t, "vm")
  /\ UNCHANGED <<parkCount, parked, constVars, chanVars, heapVars, historyVars>>

\* resume_vm_thread and the push of the result (a received value).
Return(t) ==
  /\ pc[t] = "resume"
  /\ ResumeVm(t)
  /\ local' = [local EXCEPT ![t] = IF cval[t] # NoValue THEN cval[t] ELSE @]
  /\ cval' = [cval EXCEPT ![t] = NoValue]
  /\ Goto(t, "vm")
  /\ UNCHANGED <<constVars, chanVars, heapVars, historyVars>>

----------------------------------------------------------------------------
(* Natives that keep the GIL. *)

\* Variant: close wakes receivers only.
CloseNotEmptyOnly(t) ==
  /\ pc[t] = "closeLock"
  /\ mutex = NoThread
  /\ closed' = TRUE
  /\ pc' = [u \in Threads |->
              IF u = t THEN "vm" ELSE IF pc[u] = "recvWait" THEN "recvLock" ELSE pc[u]]
  /\ UNCHANGED <<gilVars, capacity, mutex, queue, tail, count, cval, local,
                 heapVars, historyVars>>

Close(t) ==
  /\ pc[t] = "closeLock"
  /\ mutex = NoThread
  /\ closed' = TRUE
  /\ pc' = [u \in Threads |->
              CASE u = t               -> "vm"
                [] pc[u] = "recvWait"  -> "recvLock"
                [] pc[u] = "sendWait"  -> "sendLock"
                [] OTHER               -> pc[u]]
  /\ UNCHANGED <<gilVars, capacity, mutex, queue, tail, count, cval, local,
                 heapVars, historyVars>>

TryRecvEmpty(t) ==
  /\ pc[t] = "tryLock"
  /\ mutex = NoThread
  /\ count = 0
  /\ Goto(t, "vm")
  /\ UNCHANGED <<gilVars, capacity, chanVars, cval, local, heapVars, historyVars>>

TryRecv(t) ==
  /\ pc[t] = "tryLock"
  /\ mutex = NoThread
  /\ count > 0
  /\ UnlinkHead
  /\ local' = [local EXCEPT ![t] = Head(queue)]
  /\ GotoAndSignal(t, "vm", "sendWait", "sendLock")
  /\ UNCHANGED <<gilVars, capacity, mutex, closed, cval, heapVars, accepted>>

\* Variant: without channel_mark.
ReachableStacks(t) == {local[v] : v \in MarkedStacks(t) \cap Threads}

\* collect_garbage: the stacks mark_roots finds and what channel_mark walks.
\* The channel itself is reachable from a global.
Reachable(t) ==
  {local[v] : v \in MarkedStacks(t) \cap Threads}
    \cup {queue[i] : i \in 1..Len(queue)}

Collect(t) ==
  /\ pc[t] = "gcLock"
  /\ mutex = NoThread
  /\ freed' = freed \cup ((1..made) \ Reachable(t))
  /\ Goto(t, "vm")
  /\ UNCHANGED <<gilVars, capacity, chanVars, cval, local, made, historyVars>>

----------------------------------------------------------------------------
ChNext ==
  \E t \in Threads :
    \/ \E keeps \in BOOLEAN : CallSend(t, keeps)
    \/ CallRecv(t) \/ Yield(t)
    \/ \E step \in {"closeLock", "tryLock", "gcLock"} : CallHoldingGil(t, step)
    \/ LockMutex(t) \/ SpuriousWakeup(t)
    \/ SendWait(t) \/ SendRefused(t) \/ Enqueue(t)
    \/ RecvWait(t) \/ RecvClosed(t) \/ Dequeue(t)
    \/ Return(t)
    \/ Close(t) \/ TryRecvEmpty(t) \/ TryRecv(t) \/ Collect(t)

ChSpec == ChInit /\ [][ChNext]_chVars

\* A thread waiting for a pthread mutex: the channel's or the GIL.
GetsLock(t) ==
  LockMutex(t) \/ Return(t) \/ Close(t) \/ TryRecvEmpty(t) \/ TryRecv(t) \/ Collect(t)

InMutex(t) ==
  \/ SendWait(t) \/ SendRefused(t) \/ Enqueue(t)
  \/ RecvWait(t) \/ RecvClosed(t) \/ Dequeue(t)

\* Fairness.  A thread inside a native keeps running (WF).  pthread mutexes are
\* not queues, so getting one is assumed strongly fair: resume_vm_thread calls
\* sched_yield first so that a thread that comes back at once does not win every
\* time.  The VM is cooperative: nothing takes the GIL away from VM code, so
\* programs are assumed to reach a native that suspends (last conjunct).
Fairness ==
  \A t \in Threads :
    /\ WF_chVars(InMutex(t))
    /\ SF_chVars(GetsLock(t))
    /\ SF_chVars(Yield(t) \/ CallRecv(t) \/ \E keeps \in BOOLEAN : CallSend(t, keeps))

FairChSpec == ChSpec /\ Fairness

----------------------------------------------------------------------------
(* Properties. *)

\* The linked list, its tail pointer and its counter agree, and every value
\* accepted and not yet delivered is on it, in order: none is lost because a
\* node was linked behind a tail that had been freed.
QueueConsistent ==
  /\ count = Len(queue)
  /\ tail = IF queue = <<>> THEN NoValue ELSE queue[Len(queue)]
  /\ accepted = delivered \o queue

Promise == INSTANCE ChannelSpec

\* The channel is the FIFO pipe of ChannelSpec: accepted values are handed over
\* once, in order, within the capacity, and never after close.
FifoPipe == Promise!Spec

\* pthread_cond_signal wakes one thread; no wakeup is lost.  As long as a
\* receiver waits, every queued value has a woken receiver on its way to it, as
\* long as a sender waits every free slot has a woken sender, and after close
\* nobody waits.
NoLostWakeup ==
  /\ At("recvWait") # {} =>
       /\ ~closed
       /\ count <= Cardinality(At("recvLock") \cup At("recvCheck"))
  /\ At("sendWait") # {} =>
       /\ ~closed
       /\ capacity - count <= Cardinality(At("sendLock") \cup At("sendCheck"))

\* channel_mark: a collection never frees an object that is in the queue, however
\* long it stays there and whoever collects.
QueuedNotFreed ==
  [][\A i \in 1..Len(queue) : queue[i] \in freed' => queue[i] \in freed]_chVars

\* The brackets of the natives are those of Gil: every step of the channel is a
\* step of Gil or leaves its variables alone.
StepsAreGilSteps == [][Next]_gilVars

\* The collector marks the stack of every live OS thread while threads are
\* blocked inside the channel.
StacksMarked == LiveStacksMarked

\* A reference on a VM stack, and one waiting in the queue, is to an object that
\* has not been freed: what send was given is what recv returns.
ReferencesAlive ==
  /\ \A t \in Threads : local[t] # NoValue => local[t] \notin freed
  /\ \A i \in 1..Len(queue) : queue[i] \notin freed

\* channel:close broadcasts both conditions: every thread blocked in the channel
\* when it closes returns to the VM, though values may be left in the queue.
CloseReleasesEveryone ==
  \A t \in Threads : closed /\ Blocked(t) ~> ~Blocked(t)

\* A queued value does not stay while somebody is receiving: no combination of
\* signals, spurious wakeups, tryrecv and collections strands it.
ValuesFlow ==
  \A n \in 0..(MaxValues - 1) :
    /\ Len(delivered) = n /\ Len(accepted) > n
    /\ At("recvLock") \cup At("recvWait") # {}
    ~> Len(delivered) > n
============================================================================
