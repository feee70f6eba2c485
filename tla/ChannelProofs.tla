--------------------------- MODULE ChannelProofs ---------------------------
(***************************************************************************)
(* Theorems about Channel, for any number of OS threads, any capacity and  *)
(* any number of values: the queue is the FIFO pipe of ChannelSpec, no     *)
(* wakeup is lost, and what GilProofs proves of Gil holds of the channel.  *)
(***************************************************************************)
EXTENDS Channel, GilProofs, SequenceTheorems

Senders == {"sendLock", "sendWait", "sendCheck"}

\* Whoever is about to link a node has a value for it.
SenderHasValue == \A t \in Threads : pc[t] \in Senders => cval[t] \in Values

QInv == ChTypeOK /\ SenderHasValue /\ QueueConsistent

----------------------------------------------------------------------------
(* The sets of threads at each step. *)

LEMMA SignalMoves ==
  ASSUME ChTypeOK, NEW t \in Threads, NEW step \in Steps, NEW w, NEW relock \in Steps,
         pc[t] # w, GotoAndSignal(t, step, w, relock)
  PROVE  /\ pc' \in [Threads -> Steps]
         /\ pc'[t] = step
         /\ \A s \in Threads \ {t} :
              pc'[s] = pc[s] \/ (pc[s] = w /\ pc'[s] = relock)
<1>1. CASE At(w) = {}
  BY <1>1 DEF GotoAndSignal, Goto, ChTypeOK
<1>2. CASE At(w) # {}
  <2>1. PICK u \in At(w) : pc' = [pc EXCEPT ![t] = step, ![u] = relock]
    BY <1>2 DEF GotoAndSignal
  <2>2. u \in Threads /\ pc[u] = w
    BY DEF At
  <2>3. QED
    BY <2>1, <2>2 DEF ChTypeOK
<1>3. QED
  BY <1>1, <1>2

LEMMA InitQInv == ChInit => QInv
<1> SUFFICES ASSUME ChInit PROVE QInv
  OBVIOUS
<1> USE ChannelAssumption, GilAssumption
<1>1. ChTypeOK
  <2>1. pc \in [Threads -> Steps]
    BY DEF ChInit, Steps
  <2>2. made \in 0..MaxValues /\ mutex \in Threads \cup {NoThread}
    BY DEF ChInit
  <2>3. queue \in Seq(Values) /\ accepted \in Seq(Values) /\ delivered \in Seq(Values)
    BY DEF ChInit
  <2>4. cval \in [Threads -> Values \cup {NoValue}] /\ local \in [Threads -> Values \cup {NoValue}]
    BY DEF ChInit
  <2>5. QED
    BY <2>1, <2>2, <2>3, <2>4 DEF ChInit, ChTypeOK
<1>2. SenderHasValue
  BY DEF ChInit, SenderHasValue, Senders
<1>3. QueueConsistent
  BY DEF ChInit, QueueConsistent
<1>4. QED
  BY <1>1, <1>2, <1>3 DEF QInv

----------------------------------------------------------------------------
(* The queue: linking behind the tail and unlinking the head. *)

LEMMA TailGrows ==
  ASSUME NEW d \in Seq(Values), NEW q \in Seq(Values), NEW v \in Values
  PROVE  Append(d \o q, v) = d \o Append(q, v)
<1>1. <<v>> \in Seq(Values)
  OBVIOUS
<1>2. (d \o q) \o <<v>> = d \o (q \o <<v>>)
  BY <1>1, ConcatAssociative
<1>3. d \o q \in Seq(Values)
  BY ConcatProperties
<1>4. Append(d \o q, v) = (d \o q) \o <<v>>
  BY <1>3, AppendIsConcat
<1>5. QED
  BY <1>2, <1>4, AppendIsConcat

LEMMA HeadMoves ==
  ASSUME NEW d \in Seq(Values), NEW q \in Seq(Values), q # <<>>
  PROVE  Append(d, Head(q)) \o Tail(q) = d \o q
<1> DEFINE v == Head(q)
           u == Tail(q)
<1>1. v \in Values /\ u \in Seq(Values) /\ Len(q) = 1 + Len(u)
  BY HeadTailProperties
<1>2. \A i \in 1..Len(u) : u[i] = q[i + 1]
  BY HeadTailProperties
<1> HIDE DEF u
<1>3. <<v>> \in Seq(Values) /\ Len(<<v>>) = 1 /\ <<v>>[1] = v
  BY <1>1
<1>4. q[1] = v
  OBVIOUS
<1> HIDE DEF v
<1>5. q = <<v>> \o u
  <2>1. <<v>> \o u \in Seq(Values) /\ Len(<<v>> \o u) = Len(q)
    BY <1>1, <1>3, ConcatProperties
  <2>2. ASSUME NEW i \in 1..Len(q) PROVE q[i] = (<<v>> \o u)[i]
    <3>1. (<<v>> \o u)[i] = IF i <= 1 THEN <<v>>[i] ELSE u[i - 1]
      BY <1>1, <1>3, ConcatProperties
    <3>2. QED
      BY <1>1, <1>2, <1>3, <1>4, <3>1
  <2>3. QED
    BY <2>1, <2>2, SeqEqual
<1>6. (d \o <<v>>) \o u = d \o (<<v>> \o u)
  BY <1>1, <1>3, ConcatAssociative
<1>7. Append(d, v) = d \o <<v>>
  BY <1>1, AppendIsConcat
<1>8. QED
  BY <1>5, <1>6, <1>7 DEF u, v

LEMMA LinkKeepsQueue ==
  ASSUME ChTypeOK, QueueConsistent, NEW v \in Values, LinkNode(v), UNCHANGED delivered
  PROVE  /\ queue' = Append(queue, v)
         /\ queue' \in Seq(Values) /\ tail' \in Values /\ count' \in Nat
         /\ accepted' \in Seq(Values)
         /\ QueueConsistent'
<1>0. Append(delivered \o queue, v) = delivered \o Append(queue, v)
  <2>1. delivered \in Seq(Values) /\ queue \in Seq(Values) /\ v \in Values
    BY DEF ChTypeOK
  <2>2. QED
    BY <2>1, TailGrows
<1> USE ChannelAssumption DEF ChTypeOK, QueueConsistent, LinkNode
<1>1. queue' = Append(queue, v)
  <2>1. CASE queue = <<>>
    BY <2>1
  <2>2. CASE queue # <<>>
    <3>1. Len(queue) \in 1..Len(queue)
      BY <2>2, EmptySeq, LenProperties
    <3>2. queue[Len(queue)] \in Values
      BY <3>1, ElementOfSeq
    <3>3. tail # NoValue
      BY <2>2, <3>2 DEF Values, QueueConsistent
    <3>4. QED
      BY <2>2, <3>3
  <2>3. QED
    BY <2>1, <2>2
<1>2. queue' \in Seq(Values) /\ accepted' \in Seq(Values)
  BY <1>1
<1>3. tail' \in Values /\ count' \in Nat
  OBVIOUS
<1>4. count' = Len(queue') /\ tail' = queue'[Len(queue')] /\ queue' # <<>>
  BY <1>1
<1>5. accepted' = delivered' \o queue'
  BY <1>0, <1>1
<1>6. QED
  BY <1>1, <1>2, <1>3, <1>4, <1>5

LEMMA UnlinkKeepsQueue ==
  ASSUME ChTypeOK, QueueConsistent, UnlinkHead, UNCHANGED accepted
  PROVE  /\ Head(queue) \in Values
         /\ queue' \in Seq(Values) /\ tail' \in Values \cup {NoValue} /\ count' \in Nat
         /\ count' = count - 1
         /\ delivered' \in Seq(Values)
         /\ QueueConsistent'
<1> USE ChannelAssumption DEF ChTypeOK, QueueConsistent, UnlinkHead
<1>1. Head(queue) \in Values /\ Tail(queue) \in Seq(Values)
  OBVIOUS
<1>2. queue' \in Seq(Values) /\ delivered' \in Seq(Values) /\ tail' \in Values \cup {NoValue}
  BY <1>1
<1>3. count' \in Nat /\ count' = count - 1 /\ count' = Len(queue')
  OBVIOUS
<1>4. tail' = IF queue' = <<>> THEN NoValue ELSE queue'[Len(queue')]
  <2>1. CASE Tail(queue) = <<>>
    BY <2>1
  <2>2. CASE Tail(queue) # <<>>
    BY <2>2
  <2>3. QED
    BY <2>1, <2>2
<1>5. accepted' = delivered' \o queue'
  BY HeadMoves
<1>6. QED
  BY <1>1, <1>2, <1>3, <1>4, <1>5

----------------------------------------------------------------------------
(* Every action keeps QInv. *)

\* The actions that leave the list alone.
LEMMA SameQueueKeepsQInv ==
  ASSUME QInv, UNCHANGED <<queue, tail, count, capacity, historyVars>>,
         mutex' \in Threads \cup {NoThread}, closed' \in BOOLEAN,
         pc' \in [Threads -> Steps],
         cval' \in [Threads -> Values \cup {NoValue}],
         local' \in [Threads -> Values \cup {NoValue}],
         made' \in 0..MaxValues, freed' \subseteq Values,
         SenderHasValue'
  PROVE  QInv'
<1>1. ChTypeOK'
  BY DEF QInv, ChTypeOK, historyVars
<1>2. QueueConsistent'
  BY DEF QInv, QueueConsistent, historyVars
<1>3. QED
  BY <1>1, <1>2 DEF QInv

\* The same for the actions that only move thread t, to a step that needs no
\* value or needs the one it has.
LEMMA GotoKeepsQInv ==
  ASSUME QInv, NEW t \in Threads, NEW step \in Steps, Goto(t, step),
         step \in Senders => pc[t] \in Senders,
         mutex' \in Threads \cup {NoThread},
         UNCHANGED <<queue, tail, count, closed, capacity, cval, local, made, historyVars>>,
         freed' \subseteq Values
  PROVE  QInv'
<1>1. pc' \in [Threads -> Steps]
  BY DEF QInv, ChTypeOK, Goto
<1>2. SenderHasValue'
  BY DEF QInv, ChTypeOK, SenderHasValue, Goto
<1>3. QED
  BY <1>1, <1>2, SameQueueKeepsQInv DEF QInv, ChTypeOK

LEMMA NextQInv == QInv /\ [ChNext]_chVars => QInv'
<1> SUFFICES ASSUME QInv, [ChNext]_chVars PROVE QInv'
  OBVIOUS
<1> USE ChannelAssumption
<1>0. ChTypeOK /\ SenderHasValue /\ QueueConsistent
  BY DEF QInv
<1>1. ASSUME NEW t \in Threads, NEW keeps \in BOOLEAN, CallSend(t, keeps) PROVE QInv'
  <2>1. made + 1 \in Values /\ made' \in 0..MaxValues
    BY <1>0, <1>1 DEF CallSend, ChTypeOK, Values
  <2>2. pc' \in [Threads -> Steps]
    BY <1>0, <1>1 DEF CallSend, Goto, ChTypeOK, Steps, Lockers
  <2>3. /\ cval' \in [Threads -> Values \cup {NoValue}]
        /\ local' \in [Threads -> Values \cup {NoValue}]
    BY <1>0, <1>1, <2>1 DEF CallSend, ChTypeOK
  <2>4. SenderHasValue'
    BY <1>0, <1>1, <2>1 DEF CallSend, Goto, ChTypeOK, SenderHasValue, Senders
  <2>5. QED
    BY <1>0, <1>1, <2>1, <2>2, <2>3, <2>4, SameQueueKeepsQInv
       DEF CallSend, ChTypeOK, chanVars, constVars
<1>2. ASSUME NEW t \in Threads, CallRecv(t) \/ Yield(t) PROVE QInv'
  <2>1. PICK step \in {"recvLock", "resume"} : Goto(t, step)
    BY <1>2 DEF CallRecv, Yield
  <2>2. step \in Steps /\ step \notin Senders
    BY DEF Steps, Lockers, Senders
  <2>3. QED
    BY <1>0, <1>2, <2>1, <2>2, GotoKeepsQInv
       DEF CallRecv, Yield, ChTypeOK, chanVars, constVars, heapVars
<1>3. ASSUME NEW t \in Threads, NEW step \in {"closeLock", "tryLock", "gcLock"},
             CallHoldingGil(t, step)
      PROVE  QInv'
  <2>1. step \in Steps /\ step \notin Senders
    BY DEF Steps, Senders
  <2>2. QED
    BY <1>0, <1>3, <2>1, GotoKeepsQInv DEF CallHoldingGil, ChTypeOK, chanVars, heapVars
<1>4. ASSUME NEW t \in Threads, LockMutex(t) \/ SpuriousWakeup(t) PROVE QInv'
  <2>1. PICK step \in Steps :
          Goto(t, step) /\ (step \in Senders => pc[t] \in Senders)
    BY <1>4 DEF LockMutex, SpuriousWakeup, Steps, Lockers, Waiters, Senders
  <2>2. QED
    BY <1>0, <1>4, <2>1, GotoKeepsQInv
       DEF LockMutex, SpuriousWakeup, ChTypeOK, chanVars, heapVars
<1>5. ASSUME NEW t \in Threads, SendWait(t) \/ RecvWait(t) \/ RecvClosed(t) PROVE QInv'
  <2>1. PICK step \in Steps :
          Goto(t, step) /\ (step \in Senders => pc[t] \in Senders)
    BY <1>5 DEF SendWait, RecvWait, RecvClosed, Steps, Lockers, Waiters, Senders
  <2>2. QED
    BY <1>0, <1>5, <2>1, GotoKeepsQInv
       DEF SendWait, RecvWait, RecvClosed, ChTypeOK, chanVars, heapVars
<1>6. ASSUME NEW t \in Threads, SendRefused(t) PROVE QInv'
  <2>1. pc' \in [Threads -> Steps] /\ cval' \in [Threads -> Values \cup {NoValue}]
    BY <1>0, <1>6 DEF SendRefused, Goto, ChTypeOK, Steps
  <2>2. SenderHasValue'
    BY <1>0, <1>6 DEF SendRefused, Goto, ChTypeOK, SenderHasValue, Senders
  <2>3. QED
    BY <1>0, <1>6, <2>1, <2>2, SameQueueKeepsQInv DEF SendRefused, ChTypeOK, heapVars
<1>7. ASSUME NEW t \in Threads, Enqueue(t) PROVE QInv'
  <2>1. cval[t] \in Values
    BY <1>0, <1>7 DEF Enqueue, SenderHasValue, Senders
  <2>2. LinkNode(cval[t]) /\ UNCHANGED delivered
    BY <1>7 DEF Enqueue
  <2>3. /\ queue' \in Seq(Values) /\ tail' \in Values /\ count' \in Nat
        /\ accepted' \in Seq(Values) /\ QueueConsistent'
    BY <1>0, <2>1, <2>2, LinkKeepsQueue
  <2>4. /\ pc' \in [Threads -> Steps]
        /\ pc'[t] = "resume"
        /\ \A s \in Threads \ {t} : pc'[s] = pc[s] \/ pc'[s] = "recvLock"
    BY <1>0, <1>7, SignalMoves DEF Enqueue, Steps, Lockers
  <2>5. cval' \in [Threads -> Values \cup {NoValue}]
    BY <1>0, <1>7 DEF Enqueue, ChTypeOK
  <2>6. SenderHasValue'
    BY <1>0, <1>7, <2>4 DEF Enqueue, ChTypeOK, SenderHasValue, Senders
  <2>7. ChTypeOK'
    BY <1>0, <1>7, <2>3, <2>4, <2>5 DEF Enqueue, ChTypeOK, heapVars
  <2>8. QED
    BY <2>3, <2>6, <2>7 DEF QInv
<1>8. ASSUME NEW t \in Threads, Dequeue(t) PROVE QInv'
  <2>1. UnlinkHead /\ UNCHANGED accepted
    BY <1>8 DEF Dequeue
  <2>2. /\ Head(queue) \in Values
        /\ queue' \in Seq(Values) /\ tail' \in Values \cup {NoValue} /\ count' \in Nat
        /\ delivered' \in Seq(Values) /\ QueueConsistent'
    BY <1>0, <2>1, UnlinkKeepsQueue
  <2>3. /\ pc' \in [Threads -> Steps]
        /\ pc'[t] = "resume"
        /\ \A s \in Threads \ {t} :
             pc'[s] = pc[s] \/ (pc[s] = "sendWait" /\ pc'[s] = "sendLock")
    BY <1>0, <1>8, SignalMoves DEF Dequeue, Steps, Lockers
  <2>4. cval' \in [Threads -> Values \cup {NoValue}]
    BY <1>0, <1>8, <2>2 DEF Dequeue, ChTypeOK
  <2>5. SenderHasValue'
    BY <1>0, <1>8, <2>3 DEF Dequeue, ChTypeOK, SenderHasValue, Senders
  <2>6. ChTypeOK'
    BY <1>0, <1>8, <2>2, <2>3, <2>4 DEF Dequeue, ChTypeOK, heapVars
  <2>7. QED
    BY <2>2, <2>5, <2>6 DEF QInv
<1>9. ASSUME NEW t \in Threads, TryRecv(t) PROVE QInv'
  <2>1. UnlinkHead /\ UNCHANGED accepted
    BY <1>9 DEF TryRecv
  <2>2. /\ Head(queue) \in Values
        /\ queue' \in Seq(Values) /\ tail' \in Values \cup {NoValue} /\ count' \in Nat
        /\ delivered' \in Seq(Values) /\ QueueConsistent'
    BY <1>0, <2>1, UnlinkKeepsQueue
  <2>3. /\ pc' \in [Threads -> Steps]
        /\ pc'[t] = "vm"
        /\ \A s \in Threads \ {t} :
             pc'[s] = pc[s] \/ (pc[s] = "sendWait" /\ pc'[s] = "sendLock")
    BY <1>0, <1>9, SignalMoves DEF TryRecv, Steps, Lockers
  <2>4. local' \in [Threads -> Values \cup {NoValue}]
    BY <1>0, <1>9, <2>2 DEF TryRecv, ChTypeOK
  <2>5. SenderHasValue'
    BY <1>0, <1>9, <2>3 DEF TryRecv, ChTypeOK, SenderHasValue, Senders
  <2>6. ChTypeOK'
    BY <1>0, <1>9, <2>2, <2>3, <2>4 DEF TryRecv, ChTypeOK, heapVars
  <2>7. QED
    BY <2>2, <2>5, <2>6 DEF QInv
<1>10. ASSUME NEW t \in Threads, Return(t) PROVE QInv'
  <2>1. pc' \in [Threads -> Steps] /\ cval' \in [Threads -> Values \cup {NoValue}]
    BY <1>0, <1>10 DEF Return, Goto, ChTypeOK, Steps
  <2>2. local' \in [Threads -> Values \cup {NoValue}]
    BY <1>0, <1>10 DEF Return, ChTypeOK
  <2>3. SenderHasValue'
    BY <1>0, <1>10 DEF Return, Goto, ChTypeOK, SenderHasValue, Senders
  <2>4. QED
    BY <1>0, <1>10, <2>1, <2>2, <2>3, SameQueueKeepsQInv
       DEF Return, ChTypeOK, chanVars, constVars, heapVars
<1>11. ASSUME NEW t \in Threads, Close(t) PROVE QInv'
  <2>1. pc' \in [Threads -> Steps]
    BY <1>0, <1>11 DEF Close, ChTypeOK, Steps, Lockers
  <2>2. SenderHasValue'
    BY <1>0, <1>11 DEF Close, ChTypeOK, SenderHasValue, Senders
  <2>3. QED
    BY <1>0, <1>11, <2>1, <2>2, SameQueueKeepsQInv DEF Close, ChTypeOK, heapVars
<1>12. ASSUME NEW t \in Threads, TryRecvEmpty(t) \/ Collect(t) PROVE QInv'
  <2>1. Goto(t, "vm") /\ "vm" \in Steps /\ "vm" \notin Senders
    BY <1>12 DEF TryRecvEmpty, Collect, Steps, Senders
  <2>2. 1..made \subseteq Values
    BY <1>0 DEF ChTypeOK, Values
  <2>3. freed' \subseteq Values
    BY <1>0, <1>12, <2>2 DEF TryRecvEmpty, Collect, ChTypeOK, heapVars
  <2>4. QED
    BY <1>0, <1>12, <2>1, <2>3, GotoKeepsQInv
       DEF TryRecvEmpty, Collect, ChTypeOK, chanVars, heapVars
<1>13. CASE UNCHANGED chVars
  BY <1>0, <1>13, SameQueueKeepsQInv
     DEF chVars, chanVars, heapVars, ChTypeOK, SenderHasValue
<1>14. QED
  BY <1>1, <1>2, <1>3, <1>4, <1>5, <1>6, <1>7, <1>8, <1>9, <1>10, <1>11, <1>12, <1>13
     DEF ChNext

LEMMA QInvariance == ChSpec => []QInv
BY InitQInv, NextQInv, PTL DEF ChSpec

----------------------------------------------------------------------------
(* Wakeups: counting the threads on their way to the mutex. *)

RecvComing == At("recvLock") \cup At("recvCheck")
SendComing == At("sendLock") \cup At("sendCheck")

RecvHalf ==
  At("recvWait") # {} => ~closed /\ count <= Cardinality(RecvComing)
SendHalf ==
  At("sendWait") # {} => ~closed /\ capacity - count <= Cardinality(SendComing)

LEMMA Halves == NoLostWakeup <=> RecvHalf /\ SendHalf
BY DEF NoLostWakeup, RecvHalf, SendHalf, RecvComing, SendComing

LEMMA ComingType ==
  /\ RecvComing \subseteq Threads /\ SendComing \subseteq Threads
  /\ RecvComing' \subseteq Threads /\ SendComing' \subseteq Threads
BY DEF RecvComing, SendComing, At

LEMMA Counting ==
  ASSUME NEW A, A \subseteq Threads
  PROVE  /\ Cardinality(A) \in Nat
         /\ \A B : A \subseteq B /\ B \subseteq Threads => Cardinality(A) <= Cardinality(B)
         /\ \A x \in A : Cardinality(A \ {x}) = Cardinality(A) - 1
         /\ \A x \in Threads \ A : Cardinality(A \cup {x}) = Cardinality(A) + 1
<1>1. IsFiniteSet(A)
  BY FS_Subset, GilAssumption
<1>2. Cardinality(A) \in Nat
  BY <1>1, FS_CardinalityType
<1>3. ASSUME NEW B, A \subseteq B, B \subseteq Threads
      PROVE  Cardinality(A) <= Cardinality(B)
  <2>1. IsFiniteSet(B)
    BY <1>3, FS_Subset, GilAssumption
  <2>2. QED
    BY <1>3, <2>1, FS_Subset
<1>4. \A x \in A : Cardinality(A \ {x}) = Cardinality(A) - 1
  BY <1>1, FS_RemoveElement
<1>5. \A x \in Threads \ A : Cardinality(A \cup {x}) = Cardinality(A) + 1
  BY <1>1, FS_AddElement
<1>6. QED
  BY <1>2, <1>3, <1>4, <1>5

\* A thread may stop being on its way only when there is nothing to be had, and
\* may start to wait only then.
LEMMA GotoKeepsWakeups ==
  ASSUME ChTypeOK, NoLostWakeup, NEW t \in Threads, NEW step \in Steps, Goto(t, step),
         UNCHANGED <<count, capacity, closed>>,
         pc[t] \in {"recvLock", "recvCheck"} =>
           step \in {"recvLock", "recvCheck"} \/ closed \/ count = 0,
         step = "recvWait" => ~closed /\ count = 0,
         pc[t] \in {"sendLock", "sendCheck"} =>
           step \in {"sendLock", "sendCheck"} \/ closed \/ Full,
         step = "sendWait" => ~closed /\ Full
  PROVE  NoLostWakeup'
<1>1. \A s \in Threads : pc'[s] = IF s = t THEN step ELSE pc[s]
  BY DEF ChTypeOK, Goto
<1>2. RecvHalf'
  <2> SUFFICES ASSUME At("recvWait")' # {}
               PROVE  ~closed /\ count <= Cardinality(RecvComing')
    BY DEF RecvHalf
  <2>1. CASE closed
    BY <1>1, <2>1, Halves DEF At, RecvHalf
  <2>2. CASE ~closed /\ count = 0
    BY <2>2, ComingType, Counting
  <2>3. CASE ~closed /\ count # 0
    <3>1. step # "recvWait"
      BY <2>3
    <3>2. At("recvWait") # {}
      BY <1>1, <3>1 DEF At
    <3>3. RecvComing \subseteq RecvComing'
      BY <1>1, <2>3 DEF At, RecvComing
    <3>4. /\ Cardinality(RecvComing) \in Nat /\ Cardinality(RecvComing') \in Nat
          /\ Cardinality(RecvComing) <= Cardinality(RecvComing')
      BY <3>3, ComingType, Counting
    <3>5. count <= Cardinality(RecvComing)
      BY <3>2, Halves DEF RecvHalf
    <3>6. QED
      BY <2>3, <3>4, <3>5 DEF ChTypeOK
  <2>4. QED
    BY <2>1, <2>2, <2>3
<1>3. SendHalf'
  <2> SUFFICES ASSUME At("sendWait")' # {}
               PROVE  ~closed /\ capacity - count <= Cardinality(SendComing')
    BY DEF SendHalf
  <2>1. CASE closed
    BY <1>1, <2>1, Halves DEF At, SendHalf
  <2>2. CASE ~closed /\ Full
    BY <2>2, ComingType, Counting DEF Full, ChTypeOK
  <2>3. CASE ~closed /\ ~Full
    <3>1. step # "sendWait"
      BY <2>3
    <3>2. At("sendWait") # {}
      BY <1>1, <3>1 DEF At
    <3>3. SendComing \subseteq SendComing'
      BY <1>1, <2>3 DEF At, SendComing
    <3>4. /\ Cardinality(SendComing) \in Nat /\ Cardinality(SendComing') \in Nat
          /\ Cardinality(SendComing) <= Cardinality(SendComing')
      BY <3>3, ComingType, Counting
    <3>5. capacity - count <= Cardinality(SendComing)
      BY <3>2, Halves DEF SendHalf
    <3>6. QED
      BY <2>3, <3>4, <3>5 DEF ChTypeOK
  <2>4. QED
    BY <2>1, <2>2, <2>3
<1>4. QED
  BY <1>2, <1>3, Halves, PTL

LEMMA EnqueueKeepsWakeups ==
  ASSUME ChTypeOK, NoLostWakeup, NEW t \in Threads, Enqueue(t)
  PROVE  NoLostWakeup'
<1>1. /\ pc[t] = "sendCheck" /\ count' = count + 1 /\ ~closed
      /\ UNCHANGED <<capacity, closed>>
      /\ GotoAndSignal(t, "resume", "recvWait", "recvLock")
  BY DEF Enqueue, LinkNode
<1>2. /\ pc'[t] = "resume"
      /\ \A s \in Threads \ {t} :
           pc'[s] = pc[s] \/ (pc[s] = "recvWait" /\ pc'[s] = "recvLock")
  BY <1>1, SignalMoves DEF Steps, Lockers
<1>3. RecvHalf'
  <2> SUFFICES ASSUME At("recvWait")' # {}
               PROVE  count + 1 <= Cardinality(RecvComing')
    BY <1>1 DEF RecvHalf
  <2>1. At("recvWait") # {}
    BY <1>2 DEF At
  <2>2. PICK u \in At("recvWait") : pc' = [pc EXCEPT ![t] = "resume", ![u] = "recvLock"]
    BY <1>1, <2>1 DEF GotoAndSignal
  <2>3. u \in Threads \ RecvComing
    BY DEF At, RecvComing
  <2>4. RecvComing' = RecvComing \cup {u}
    BY <1>1, <2>2, <2>3 DEF At, RecvComing, ChTypeOK
  <2>5. Cardinality(RecvComing') = Cardinality(RecvComing) + 1 /\ Cardinality(RecvComing) \in Nat
    BY <2>3, <2>4, ComingType, Counting
  <2>6. count <= Cardinality(RecvComing)
    BY <2>1, Halves DEF RecvHalf
  <2>7. QED
    BY <2>5, <2>6 DEF ChTypeOK
<1>4. SendHalf'
  <2> SUFFICES ASSUME At("sendWait")' # {}
               PROVE  capacity - (count + 1) <= Cardinality(SendComing')
    BY <1>1 DEF SendHalf
  <2>1. At("sendWait") # {}
    BY <1>2 DEF At
  <2>2. t \in SendComing /\ SendComing' = SendComing \ {t}
    BY <1>1, <1>2 DEF At, SendComing
  <2>3. Cardinality(SendComing') = Cardinality(SendComing) - 1 /\ Cardinality(SendComing) \in Nat
    BY <2>2, ComingType, Counting
  <2>4. capacity - count <= Cardinality(SendComing)
    BY <2>1, Halves DEF SendHalf
  <2>5. QED
    BY <2>3, <2>4 DEF ChTypeOK
<1>5. QED
  BY <1>3, <1>4, Halves, PTL

\* recv and tryrecv take a value in the same way, at different steps.
LEMMA TakeKeepsWakeups ==
  ASSUME ChTypeOK, NoLostWakeup, NEW t \in Threads, NEW step \in {"resume", "vm"},
         pc[t] \in {"recvCheck", "tryLock"}, count > 0, count' = count - 1,
         UNCHANGED <<capacity, closed>>,
         GotoAndSignal(t, step, "sendWait", "sendLock")
  PROVE  NoLostWakeup'
<1>1. /\ pc'[t] = step
      /\ \A s \in Threads \ {t} :
           pc'[s] = pc[s] \/ (pc[s] = "sendWait" /\ pc'[s] = "sendLock")
  BY SignalMoves DEF Steps, Lockers
<1>2. RecvHalf'
  <2> SUFFICES ASSUME At("recvWait")' # {}
               PROVE  ~closed /\ count - 1 <= Cardinality(RecvComing')
    BY DEF RecvHalf
  <2>1. At("recvWait") # {}
    BY <1>1 DEF At
  <2>2. RecvComing' = RecvComing \ {t}
    BY <1>1 DEF At, RecvComing
  <2>3. /\ Cardinality(RecvComing') \in Nat /\ Cardinality(RecvComing) \in Nat
        /\ Cardinality(RecvComing') >= Cardinality(RecvComing) - 1
    <3>1. CASE t \in RecvComing
      <4>1. Cardinality(RecvComing \ {t}) = Cardinality(RecvComing) - 1
        BY <3>1, ComingType, Counting
      <4>2. Cardinality(RecvComing') \in Nat /\ Cardinality(RecvComing) \in Nat
        BY ComingType, Counting
      <4>3. QED
        BY <2>2, <4>1, <4>2
    <3>2. CASE t \notin RecvComing
      <4>1. RecvComing' = RecvComing
        BY <2>2, <3>2
      <4>2. Cardinality(RecvComing) \in Nat
        BY ComingType, Counting
      <4>3. QED
        BY <4>1, <4>2
    <3>3. QED
      BY <3>1, <3>2
  <2>4. ~closed /\ count <= Cardinality(RecvComing)
    BY <2>1, Halves DEF RecvHalf
  <2>5. QED
    BY <2>3, <2>4 DEF ChTypeOK
<1>3. SendHalf'
  <2> SUFFICES ASSUME At("sendWait")' # {}
               PROVE  ~closed /\ capacity - (count - 1) <= Cardinality(SendComing')
    BY DEF SendHalf
  <2>1. At("sendWait") # {}
    BY <1>1 DEF At
  <2>2. PICK u \in At("sendWait") : pc' = [pc EXCEPT ![t] = step, ![u] = "sendLock"]
    BY <2>1 DEF GotoAndSignal
  <2>3. u \in Threads \ SendComing
    BY DEF At, SendComing
  <2>4. SendComing' = SendComing \cup {u}
    BY <2>2, <2>3 DEF At, SendComing, ChTypeOK
  <2>5. Cardinality(SendComing') = Cardinality(SendComing) + 1 /\ Cardinality(SendComing) \in Nat
    BY <2>3, <2>4, ComingType, Counting
  <2>6. ~closed /\ capacity - count <= Cardinality(SendComing)
    BY <2>1, Halves DEF SendHalf
  <2>7. QED
    BY <2>5, <2>6 DEF ChTypeOK
<1>4. QED
  BY <1>2, <1>3, Halves, PTL

LEMMA NextWakeups == ChTypeOK /\ NoLostWakeup /\ [ChNext]_chVars => NoLostWakeup'
<1> SUFFICES ASSUME ChTypeOK, NoLostWakeup, [ChNext]_chVars PROVE NoLostWakeup'
  OBVIOUS
<1> USE DEF Steps, Lockers, Waiters
<1>1. ASSUME NEW t \in Threads, NEW keeps \in BOOLEAN, CallSend(t, keeps)
      PROVE  NoLostWakeup'
  BY <1>1, GotoKeepsWakeups DEF CallSend, Running, chanVars, constVars
<1>2. ASSUME NEW t \in Threads, CallRecv(t) \/ Yield(t) PROVE NoLostWakeup'
  BY <1>2, GotoKeepsWakeups DEF CallRecv, Yield, Running, chanVars, constVars
<1>3. ASSUME NEW t \in Threads, NEW step \in {"closeLock", "tryLock", "gcLock"},
             CallHoldingGil(t, step)
      PROVE  NoLostWakeup'
  BY <1>3, GotoKeepsWakeups DEF CallHoldingGil, Running, chanVars
<1>4. ASSUME NEW t \in Threads, LockMutex(t) PROVE NoLostWakeup'
  BY <1>4, GotoKeepsWakeups DEF LockMutex
<1>5. ASSUME NEW t \in Threads, SpuriousWakeup(t) PROVE NoLostWakeup'
  BY <1>5, GotoKeepsWakeups DEF SpuriousWakeup, chanVars
<1>6. ASSUME NEW t \in Threads, SendWait(t) \/ SendRefused(t) PROVE NoLostWakeup'
  BY <1>6, GotoKeepsWakeups DEF SendWait, SendRefused
<1>7. ASSUME NEW t \in Threads, RecvWait(t) \/ RecvClosed(t) PROVE NoLostWakeup'
  BY <1>7, GotoKeepsWakeups DEF RecvWait, RecvClosed
<1>8. ASSUME NEW t \in Threads, Enqueue(t) PROVE NoLostWakeup'
  BY <1>8, EnqueueKeepsWakeups
<1>9. ASSUME NEW t \in Threads, Dequeue(t) \/ TryRecv(t) PROVE NoLostWakeup'
  BY <1>9, TakeKeepsWakeups DEF Dequeue, TryRecv, UnlinkHead
<1>10. ASSUME NEW t \in Threads, Return(t) PROVE NoLostWakeup'
  BY <1>10, GotoKeepsWakeups DEF Return, chanVars, constVars
<1>11. ASSUME NEW t \in Threads, Close(t) PROVE NoLostWakeup'
  <2>1. At("recvWait")' = {} /\ At("sendWait")' = {}
    BY <1>11 DEF Close, At
  <2>2. RecvHalf' /\ SendHalf'
    BY <2>1 DEF RecvHalf, SendHalf
  <2>3. QED
    BY <2>2, Halves, PTL
<1>12. ASSUME NEW t \in Threads, TryRecvEmpty(t) \/ Collect(t) PROVE NoLostWakeup'
  BY <1>12, GotoKeepsWakeups DEF TryRecvEmpty, Collect, chanVars
<1>13. CASE UNCHANGED chVars
  BY <1>13 DEF chVars, chanVars, NoLostWakeup, At
<1>14. QED
  BY <1>1, <1>2, <1>3, <1>4, <1>5, <1>6, <1>7, <1>8, <1>9, <1>10, <1>11, <1>12, <1>13
     DEF ChNext

----------------------------------------------------------------------------
(* The steps as steps of ChannelSpec. *)

LEMMA HeldIsCount ==
  ASSUME QInv
  PROVE  /\ Promise!Held = count
         /\ queue # <<>> => accepted[Len(delivered) + 1] = Head(queue)
<1>1. queue \in Seq(Values) /\ delivered \in Seq(Values) /\ accepted = delivered \o queue
      /\ count = Len(queue)
  BY DEF QInv, ChTypeOK, QueueConsistent
<1>2. Len(accepted) = Len(delivered) + Len(queue)
      /\ Len(delivered) \in Nat /\ Len(queue) \in Nat
  BY <1>1, ConcatProperties, LenProperties
<1>3. Promise!Held = count
  BY <1>1, <1>2 DEF Promise!Held
<1>4. ASSUME queue # <<>> PROVE accepted[Len(delivered) + 1] = Head(queue)
  <2>1. Len(queue) >= 1
    BY <1>1, <1>4, EmptySeq
  <2>2. Len(delivered) + 1 \in 1..(Len(delivered) + Len(queue))
    BY <1>2, <2>1
  <2>3. accepted[Len(delivered) + 1] = queue[Len(delivered) + 1 - Len(delivered)]
    BY <1>1, <1>2, <2>2, ConcatProperties
  <2>4. Head(queue) = queue[1]
    OBVIOUS
  <2>5. QED
    BY <1>2, <2>3, <2>4
<1>5. QED
  BY <1>3, <1>4

LEMMA StepsOfPromise == QInv /\ [ChNext]_chVars => [Promise!Next]_(Promise!specVars)
<1> SUFFICES ASSUME QInv, [ChNext]_chVars
             PROVE  Promise!Next \/ UNCHANGED <<capacity, accepted, delivered, closed>>
  BY DEF Promise!specVars
<1> DEFINE Same == UNCHANGED <<capacity, accepted, delivered, closed>>
<1>1. ASSUME NEW t \in Threads, Enqueue(t) PROVE Promise!Next
  <2>1. cval[t] \in Values
    BY <1>1 DEF QInv, SenderHasValue, Senders, Enqueue
  <2>2. Promise!Held = count
    BY HeldIsCount
  <2>3. capacity > 0 => count < capacity
    BY <1>1 DEF Enqueue, Full, QInv, ChTypeOK
  <2>4. Promise!Send(cval[t])
    BY <1>1, <2>2, <2>3 DEF Enqueue, LinkNode, Promise!Send
  <2>5. QED
    BY <2>1, <2>4 DEF Promise!Next
<1>2. ASSUME NEW t \in Threads, Dequeue(t) \/ TryRecv(t) PROVE Promise!Next
  <2>1. UnlinkHead /\ UNCHANGED <<capacity, accepted, closed>> /\ count > 0
    BY <1>2 DEF Dequeue, TryRecv
  <2>2. Promise!Held = count /\ accepted[Len(delivered) + 1] = Head(queue)
    BY <2>1, HeldIsCount DEF UnlinkHead
  <2>3. Promise!Receive
    BY <2>1, <2>2 DEF UnlinkHead, Promise!Receive
  <2>4. QED
    BY <2>3 DEF Promise!Next
<1>3. ASSUME NEW t \in Threads, Close(t) PROVE Promise!Next
  BY <1>3 DEF Close, historyVars, Promise!Close, Promise!Next
<1>4. ASSUME NEW t \in Threads, NEW keeps \in BOOLEAN, CallSend(t, keeps) PROVE Same
  BY <1>4 DEF CallSend, constVars, chanVars, historyVars
<1>5. ASSUME NEW t \in Threads, NEW step, CallHoldingGil(t, step) PROVE Same
  BY <1>5 DEF CallHoldingGil, chanVars, historyVars
<1>6. ASSUME NEW t \in Threads,
             CallRecv(t) \/ Yield(t) \/ Return(t) \/ LockMutex(t) \/ SpuriousWakeup(t)
      PROVE  Same
  BY <1>6 DEF CallRecv, Yield, Return, LockMutex, SpuriousWakeup, constVars, chanVars,
              historyVars
<1>7. ASSUME NEW t \in Threads,
             SendWait(t) \/ SendRefused(t) \/ RecvWait(t) \/ RecvClosed(t)
               \/ TryRecvEmpty(t) \/ Collect(t)
      PROVE  Same
  BY <1>7 DEF SendWait, SendRefused, RecvWait, RecvClosed, TryRecvEmpty, Collect, chanVars,
              historyVars
<1>8. CASE UNCHANGED chVars
  BY <1>8 DEF chVars, chanVars, historyVars
<1>9. QED
  BY <1>1, <1>2, <1>3, <1>4, <1>5, <1>6, <1>7, <1>8 DEF ChNext

----------------------------------------------------------------------------
(* The steps as steps of Gil. *)

LEMMA ChannelStepsOfGil == [ChNext]_chVars => [Next]_gilVars
<1> SUFFICES ASSUME [ChNext]_chVars PROVE Next \/ UNCHANGED gilVars
  OBVIOUS
<1>1. ASSUME NEW t \in Threads,
             \/ \E keeps \in BOOLEAN : CallSend(t, keeps)
             \/ CallRecv(t) \/ Yield(t)
      PROVE  Next
  <2>1. Suspend(t)
    BY <1>1 DEF CallSend, CallRecv, Yield, Suspend, constVars
  <2>2. QED
    BY <2>1 DEF Next
<1>2. ASSUME NEW t \in Threads, Return(t) PROVE Next
  <2>1. Resume(t)
    BY <1>2 DEF Return, Resume, constVars
  <2>2. QED
    BY <2>1 DEF Next
<1>3. ASSUME NEW t \in Threads,
             \/ \E step \in {"closeLock", "tryLock", "gcLock"} : CallHoldingGil(t, step)
             \/ LockMutex(t) \/ SpuriousWakeup(t) \/ SendWait(t) \/ SendRefused(t)
             \/ Enqueue(t) \/ RecvWait(t) \/ RecvClosed(t) \/ Dequeue(t)
             \/ Close(t) \/ TryRecvEmpty(t) \/ TryRecv(t) \/ Collect(t)
      PROVE  UNCHANGED gilVars
  BY <1>3 DEF CallHoldingGil, LockMutex, SpuriousWakeup, SendWait, SendRefused, Enqueue,
              RecvWait, RecvClosed, Dequeue, Close, TryRecvEmpty, TryRecv, Collect
<1>4. CASE UNCHANGED chVars
  BY <1>4 DEF chVars
<1>5. QED
  BY <1>1, <1>2, <1>3, <1>4 DEF ChNext

LEMMA ChInitIInv == ChInit => IInv
<1> SUFFICES ASSUME ChInit PROVE IInv
  OBVIOUS
<1> USE GilAssumption, ChannelAssumption
<1>1. TypeOK
  <2>1. saved \in [Threads -> VmThreads \cup {NoVm}] /\ tls \in [Threads -> VmThreads \cup {NoVm}]
    BY DEF ChInit
  <2>2. parkCount \in [VmThreads -> Nat]
    BY DEF ChInit
  <2>3. QED
    BY <2>1, <2>2 DEF ChInit, TypeOK, Lives
<1>2. Places /\ OneThreadBeforeTls
  BY DEF ChInit, Places, OneThreadBeforeTls
<1>3. ParkedExactly
  <2>1. ASSUME NEW v \in VmThreads
        PROVE  SavedIn(v) = IF v \in Threads \ {Main} THEN {v} ELSE {}
    BY DEF ChInit, SavedIn
  <2>2. Cardinality({}) = 0 /\ \A v : Cardinality({v}) = 1
    BY FS_EmptySet, FS_Singleton
  <2>3. QED
    BY <2>1, <2>2 DEF ChInit, ParkedExactly
<1>4. SavedIsCurrent
  BY DEF ChInit, SavedIsCurrent, CurrentOf
<1>5. QED
  BY <1>1, <1>2, <1>3, <1>4 DEF IInv, BInv

----------------------------------------------------------------------------
\* Type correctness of the channel: its counter never goes below zero.
THEOREM ChTypeCorrect == ChSpec => []ChTypeOK
<1>1. QInv => ChTypeOK
  BY DEF QInv
<1>2. QED
  BY <1>1, QInvariance, PTL

\* channel_send and the two receivers keep head, tail and count in agreement.
THEOREM QueueStaysConsistent == ChSpec => []QueueConsistent
<1>1. QInv => QueueConsistent
  BY DEF QInv
<1>2. QED
  BY <1>1, QInvariance, PTL

\* The channel implements the FIFO pipe of ChannelSpec.
THEOREM ImplementsFifoPipe == ChSpec => FifoPipe
<1>1. ChInit => Promise!Init
  BY ChannelAssumption DEF ChInit, Promise!Init
<1>2. QED
  BY <1>1, QInvariance, StepsOfPromise, PTL DEF ChSpec, FifoPipe, Promise!Spec

\* pthread_cond_signal in place of broadcast is enough: no wakeup is lost.
THEOREM WakeupsNotLost == ChSpec => []NoLostWakeup
<1>1. ChInit => NoLostWakeup
  BY DEF ChInit, NoLostWakeup, At
<1>2. QInv => ChTypeOK
  BY DEF QInv
<1>3. QED
  BY <1>1, <1>2, QInvariance, NextWakeups, PTL DEF ChSpec

\* channel_mark keeps what is queued alive.
THEOREM QueuedStaysAlive == ChSpec => QueuedNotFreed
<1> DEFINE Kept == \A i \in 1..Len(queue) : queue[i] \in freed' => queue[i] \in freed
<1>1. ChNext => Kept
  <2> SUFFICES ASSUME NEW t \in Threads, Collect(t) PROVE Kept
    BY DEF ChNext, CallSend, CallRecv, Yield, CallHoldingGil, LockMutex, SpuriousWakeup,
           SendWait, SendRefused, Enqueue, RecvWait, RecvClosed, Dequeue, Return, Close,
           TryRecvEmpty, TryRecv, heapVars
  <2>1. QED
    BY DEF Collect, Reachable
<1>2. QED
  BY <1>1, PTL DEF ChSpec, QueuedNotFreed

\* The natives bracket their waits as Gil says.
THEOREM BracketsAreGil == ChSpec => StepsAreGilSteps
BY ChannelStepsOfGil, PTL DEF ChSpec, StepsAreGilSteps

\* A collection started while threads are blocked in the channel marks their stacks.
THEOREM ChannelStacksMarked == ChSpec => []StacksMarked
<1>1. IInv /\ [ChNext]_chVars => IInv'
  BY ChannelStepsOfGil, NextIInv
<1>2. IInv => StacksMarked
  BY InvMarksStacks DEF StacksMarked
<1>3. QED
  BY <1>1, <1>2, ChInitIInv, PTL DEF ChSpec
============================================================================
