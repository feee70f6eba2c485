----------------------------- MODULE VmRunProofs -----------------------------
(***************************************************************************)
(* Proofs about VmRun: the caller links and the C stack of vm_run calls    *)
(* form one control stack.  The proofs are about programs that keep to the *)
(* plain use of coroutines (Habits = {}), for any number of VM threads,    *)
(* frames, handlers and nested calls of vm_run.                            *)
(***************************************************************************)
EXTENDS VmRun, DataLemmas

----------------------------------------------------------------------------
(* The chain of callers. *)

\* s is the stack of VM threads from the root to c along the links cl, all of them
\* in a function.
StackOf(s, c, cl, fr) ==
  /\ s \in Seq(VmThreads) /\ Len(s) \in Nat \ {0}
  /\ s[1] = Root /\ s[Len(s)] = c
  /\ cl[Root] = NoVm
  /\ \A i \in 2..Len(s) : cl[s[i]] = s[i - 1]
  /\ \A i, j \in 1..Len(s) : s[i] = s[j] => i = j
  /\ \A i \in 1..Len(s) : fr[s[i]] > 0

\* A stack without repetitions is no longer than there are VM threads.
LEMMA StackIsShort ==
  ASSUME NEW s, NEW c, NEW cl, NEW fr, StackOf(s, c, cl, fr)
  PROVE  Len(s) <= Cardinality(VmThreads) /\ Cardinality(VmThreads) \in Nat
<1>1. s \in [1..Len(s) -> VmThreads] /\ \A i, j \in 1..Len(s) : s[i] = s[j] => i = j
  BY LenProperties DEF StackOf
<1>2. s \in Injection(1..Len(s), VmThreads)
  BY <1>1 DEF Injection, IsInjective
<1>3. IsFiniteSet(VmThreads) /\ Cardinality(VmThreads) \in Nat
  BY VmRunAssumption, FS_CardinalityType
<1>4. Cardinality(1..Len(s)) = Len(s)
  BY FS_Interval DEF StackOf
<1>5. QED
  BY <1>2, <1>3, <1>4, FS_Injection

\* Ancestors, from the top of the stack down.
LEMMA AncestorsOfStack ==
  ASSUME NEW s, StackOf(s, cur, caller, frames)
  PROVE  Ancestors = [n \in 0..Cardinality(VmThreads) |->
                        IF n < Len(s) THEN s[Len(s) - n] ELSE NoVm]
<1> DEFINE N == Cardinality(VmThreads)
           Up(f) == [n \in 0..N |->
                      IF n = 0 THEN cur ELSE IF f[n - 1] = NoVm THEN NoVm ELSE caller[f[n - 1]]]
           g == [n \in 0..N |-> IF n < Len(s) THEN s[Len(s) - n] ELSE NoVm]
<1>1. /\ Len(s) \in Nat \ {0} /\ N \in Nat /\ Len(s) <= N /\ NoVm \notin VmThreads
      /\ \A i \in 1..Len(s) : s[i] \in VmThreads
      /\ s[Len(s)] = cur /\ caller[s[1]] = NoVm
      /\ \A i \in 2..Len(s) : caller[s[i]] = s[i - 1]
  BY StackIsShort, VmRunAssumption, ElementOfSeq DEF StackOf
<1>2. Ancestors = CHOOSE f : f = Up(f)
  BY DEF Ancestors
<1>3. ASSUME NEW f, NEW n \in 1..N, f[n - 1] = g[n - 1] PROVE Up(f)[n] = g[n]
  <2>1. n - 1 \in 0..N /\ n \in 0..N
    BY <1>1
  <2>2. CASE n - 1 < Len(s)
    <3>1. Len(s) - (n - 1) \in 1..Len(s) /\ f[n - 1] = s[Len(s) - (n - 1)]
      BY <1>1, <1>3, <2>1, <2>2
    <3>2. Up(f)[n] = caller[s[Len(s) - (n - 1)]]
      BY <1>1, <2>1, <3>1
    <3>3. CASE n = Len(s)
      <4>1. Len(s) - (n - 1) = 1 /\ g[n] = NoVm
        BY <1>1, <2>1, <3>3
      <4>2. QED
        BY <1>1, <3>2, <4>1
    <3>4. CASE n < Len(s)
      <4>1. Len(s) - (n - 1) \in 2..Len(s) /\ Len(s) - (n - 1) - 1 = Len(s) - n
        BY <1>1, <3>4
      <4>2. g[n] = s[Len(s) - n]
        BY <2>1, <3>4
      <4>3. QED
        BY <1>1, <3>2, <4>1, <4>2
    <3>5. QED
      BY <1>1, <2>2, <3>3, <3>4
  <2>3. CASE ~(n - 1 < Len(s))
    BY <1>1, <1>3, <2>1, <2>3
  <2>4. QED
    BY <2>2, <2>3
<1>4. \A f : Up(f)[0] = g[0]
  BY <1>1
<1>5. g = Up(g)
  BY <1>1, <1>3, <1>4
<1>6. ASSUME NEW f, f = Up(f) PROVE f = g
  <2> DEFINE bad == {n \in 0..N : f[n] # g[n]}
  <2>1. ASSUME bad # {} PROVE FALSE
    <3>1. bad \subseteq Nat
      BY <1>1
    <3> HIDE DEF bad
    <3>2. PICK n \in bad : \A m \in bad : n <= m
      BY <2>1, <3>1, LeastNatural
    <3> HIDE DEF Up, g
    <3>3. n \in 0..N /\ f[n] # g[n]
      BY <3>2 DEF bad
    <3>4. f[0] = g[0]
      <4>1. Up(f)[0] = g[0]
        BY <1>4
      <4>2. QED
        BY <1>6, <4>1
    <3>5. n # 0
      BY <3>3, <3>4
    <3>6. N \in Nat
      BY <1>1
    <3>7. n \in 1..N /\ n - 1 \in 0..N /\ ~(n <= n - 1)
      BY <3>3, <3>5, <3>6
    <3>8. f[n - 1] = g[n - 1]
      BY <3>2, <3>7 DEF bad
    <3>9. Up(f)[n] = g[n]
      BY <1>3, <3>7, <3>8
    <3>10. f[n] = g[n]
      BY <1>6, <3>9
    <3>11. QED
      BY <3>3, <3>10
  <2>2. \A n \in 0..N : f[n] = g[n]
    BY <2>1
  <2> HIDE DEF bad
  <2>3. f = [n \in 0..N |-> f[n]]
    BY <1>6
  <2>4. QED
    BY <2>2, <2>3
<1> HIDE DEF Up, g
<1>7. Ancestors = g
  BY <1>2, <1>5, <1>6
<1>8. QED
  BY <1>7 DEF g

\* The stack is unique, and it is Chain.
LEMMA ChainIsStack == \A s : StackOf(s, cur, caller, frames) => Chain = s
<1> SUFFICES ASSUME NEW s, StackOf(s, cur, caller, frames) PROVE Chain = s
  OBVIOUS
<1> DEFINE N == Cardinality(VmThreads)
           links == {n \in DOMAIN Ancestors : Ancestors[n] # NoVm}
<1>1. /\ Len(s) \in Nat \ {0} /\ N \in Nat /\ Len(s) <= N /\ NoVm \notin VmThreads
  BY StackIsShort, VmRunAssumption DEF StackOf
<1>2. s \in [1..Len(s) -> VmThreads]
  BY LenProperties DEF StackOf
<1>3. /\ DOMAIN Ancestors = 0..N
      /\ \A n \in 0..N : Ancestors[n] = IF n < Len(s) THEN s[Len(s) - n] ELSE NoVm
  BY AncestorsOfStack
<1>4. \A n \in 0..N : n < Len(s) => Len(s) - n \in 1..Len(s)
  BY <1>1
<1>5. links = 0..(Len(s) - 1)
  <2>1. \A l \in Nat \ {0} : l <= N => \A n : n \in 0..(l - 1) <=> n \in 0..N /\ n < l
    BY <1>1
  <2>2. \A n : n \in 0..(Len(s) - 1) <=> n \in 0..N /\ n < Len(s)
    BY <1>1, <2>1
  <2>3. \A n \in 0..N : Ancestors[n] # NoVm <=> n < Len(s)
    <3>1. ASSUME NEW n \in 0..N, n < Len(s) PROVE s[Len(s) - n] \in VmThreads
      BY <1>2, <1>4, <3>1
    <3>2. QED
      BY <1>1, <1>3, <3>1
  <2>4. \A n : n \in links <=> n \in 0..N /\ n < Len(s)
    BY <1>3, <2>3
  <2>5. QED
    BY <2>2, <2>4
<1>6. \A k \in Nat \ {0} : k - 1 \in Int /\ 0 \in Int /\ ~(0 > k - 1) /\ (k - 1) - 0 + 1 = k
  OBVIOUS
<1>7. Cardinality(0..(Len(s) - 1)) = Len(s)
  BY <1>1, <1>6, FS_Interval
<1> HIDE DEF links
<1>8. Cardinality(links) = Len(s)
  BY <1>5, <1>7
<1> USE DEF links
<1>9. Chain = [i \in 1..Len(s) |-> Ancestors[Len(s) - i]]
  BY <1>8 DEF Chain
<1>10. ASSUME NEW i \in 1..Len(s) PROVE Ancestors[Len(s) - i] = s[i]
  <2>1. Len(s) - i \in 0..N /\ Len(s) - i < Len(s) /\ Len(s) - (Len(s) - i) = i
    BY <1>1
  <2>2. QED
    BY <1>3, <2>1
<1>11. QED
  BY <1>2, <1>9, <1>10
----------------------------------------------------------------------------
(* The inductive invariant. *)

\* The vm_run calls r against the VM threads s: first the program, then callbacks
\* on the root, each above the one before, then natives that drive a generator, in
\* the order in which they are on the stack, stopped in the function that called
\* them.
RunsOf(r, s, fr) ==
  /\ r[1] = Run("program", Root, Base)
  /\ \A i \in 2..Len(r) :
       \/ r[i].kind = "callback" /\ r[i].on = Root /\ r[i].min > 0 /\ r[i].min < fr[Root]
       \/ r[i].kind = "drive" /\ r[i].on \in ToSet(s) /\ r[i].min = fr[r[i].on]
  /\ \A i, j \in 2..Len(r) : i < j /\ r[i].kind = "drive" => r[j].kind = "drive"
  /\ \A i, j \in 2..Len(r) : i < j /\ r[j].kind = "callback" => r[i].min < r[j].min
  /\ \A i, j \in 2..Len(r), p, q \in 1..Len(s) :
       i < j /\ r[i].kind = "drive" /\ s[p] = r[i].on /\ s[q] = r[j].on => p < q

\* The handlers h of a VM thread with f frames.
HandlersOf(h, f) ==
  /\ Len(h) <= MaxTries
  /\ \A i \in 1..Len(h) : h[i].frame <= f
  /\ \A i, j \in 1..Len(h) : i < j => h[i].frame <= h[j].frame

VmInv ==
  /\ VmTypeOK
  /\ \A v \in VmThreads : HandlersOf(handlers[v], frames[v])
  /\ ended = "no" =>
       /\ StackOf(Chain, cur, caller, frames)
       /\ RunsOf(runs, Chain, frames)
       /\ \A v \in VmThreads : genMode[v] => v \in ToSet(Chain)

----------------------------------------------------------------------------
(* Stacks that differ in one place. *)

\* The same stack, of VM threads that still are in a function and still link.
LEMMA StackSame ==
  ASSUME NEW s, NEW c, NEW cl, NEW fr, NEW cl2, NEW fr2, StackOf(s, c, cl, fr),
         \A i \in 1..Len(s) : cl2[s[i]] = cl[s[i]] /\ fr2[s[i]] > 0
  PROVE  StackOf(s, c, cl2, fr2)
<1>1. /\ Len(s) \in Nat \ {0} /\ s[1] = Root
      /\ \A i \in 2..Len(s) : i \in 1..Len(s)
      /\ 1 \in 1..Len(s)
  BY DEF StackOf
<1>2. cl2[Root] = NoVm /\ \A i \in 2..Len(s) : cl2[s[i]] = s[i - 1]
  BY <1>1 DEF StackOf
<1>3. QED
  BY <1>2 DEF StackOf

\* The stack below a VM thread.
LEMMA StackPopped ==
  ASSUME NEW s, NEW c, NEW cl, NEW fr, NEW cl2, NEW fr2, StackOf(s, c, cl, fr),
         NEW m \in 1..Len(s),
         cl2[Root] = NoVm,
         \A i \in 2..m : cl2[s[i]] = cl[s[i]],
         \A i \in 1..m : fr2[s[i]] > 0
  PROVE  StackOf(SubSeq(s, 1, m), s[m], cl2, fr2)
<1> DEFINE t == SubSeq(s, 1, m)
<1>1. Len(s) \in Nat \ {0} /\ m \in 0..Len(s) /\ s \in Seq(VmThreads)
  BY DEF StackOf
<1>2. t \in Seq(VmThreads) /\ Len(t) = m /\ \A i \in 1..m : t[i] = s[i]
  BY <1>1, PrefixOfSeq
<1>3. /\ m \in Nat \ {0} /\ 1 \in 1..m /\ m \in 1..m
      /\ \A i \in 1..m : i \in 1..Len(s)
      /\ \A i \in 2..m : i \in 1..m /\ i - 1 \in 1..m /\ i \in 2..Len(s)
  BY <1>1
<1> HIDE DEF t
<1>4. t[1] = Root /\ t[Len(t)] = s[m]
  BY <1>2, <1>3 DEF StackOf
<1>5. ASSUME NEW i \in 2..Len(t) PROVE cl2[t[i]] = t[i - 1]
  BY <1>2, <1>3, <1>5 DEF StackOf
<1>6. ASSUME NEW i \in 1..Len(t), NEW j \in 1..Len(t), t[i] = t[j] PROVE i = j
  BY <1>2, <1>3, <1>6 DEF StackOf
<1>7. \A i \in 1..Len(t) : fr2[t[i]] > 0
  BY <1>2, <1>3
<1>8. StackOf(t, s[m], cl2, fr2)
  BY <1>2, <1>3, <1>4, <1>5, <1>6, <1>7 DEF StackOf
<1>9. QED
  BY <1>8 DEF t

\* A VM thread that is in a function and off the stack is pushed.
LEMMA StackPushed ==
  ASSUME NEW s, NEW c, NEW cl, NEW fr, NEW cl2, StackOf(s, c, cl, fr),
         NEW v \in VmThreads, v \notin ToSet(s), fr[v] > 0,
         cl2[v] = c, \A u \in VmThreads \ {v} : cl2[u] = cl[u]
  PROVE  StackOf(Append(s, v), v, cl2, fr)
<1> DEFINE t == Append(s, v)
<1>1. /\ Len(s) \in Nat \ {0} /\ s \in Seq(VmThreads)
      /\ \A i \in 1..Len(s) : s[i] \in VmThreads
  BY ElementOfSeq DEF StackOf
<1>2. t \in Seq(VmThreads) /\ Len(t) = Len(s) + 1 /\ t[Len(s) + 1] = v
      /\ \A i \in 1..Len(s) : t[i] = s[i]
  BY <1>1, AppendToSeq
<1>3. \A i \in 1..Len(s) : s[i] # v
  <2>1. ToSet(s) = {s[i] : i \in 1..Len(s)}
    BY <1>1, LenProperties DEF ToSet
  <2>2. QED
    BY <2>1
<1>4. /\ 1 \in 1..Len(s) /\ Len(s) \in 1..Len(s) /\ Len(s) + 1 \in Nat \ {0}
      /\ \A i \in 1..(Len(s) + 1) : i \in 1..Len(s) \/ i = Len(s) + 1
      /\ \A i \in 2..(Len(s) + 1) : (i \in 2..Len(s) /\ i - 1 \in 1..Len(s))
                                    \/ (i = Len(s) + 1 /\ i - 1 = Len(s))
      /\ \A i \in 2..Len(s) : i \in 1..Len(s)
  BY <1>1, BelowAndNext
<1> HIDE DEF t
<1>5. t[1] = Root /\ t[Len(t)] = v
  BY <1>2, <1>4 DEF StackOf
<1>6. cl2[Root] = NoVm
  <2>1. Root = s[1] /\ Root # v
    BY <1>3, <1>4 DEF StackOf
  <2>2. QED
    BY <2>1, VmRunAssumption DEF StackOf
<1>7. ASSUME NEW i \in 2..Len(t) PROVE cl2[t[i]] = t[i - 1]
  <2>1. CASE i \in 2..Len(s) /\ i - 1 \in 1..Len(s)
    <3>1. t[i] = s[i] /\ t[i - 1] = s[i - 1] /\ s[i] \in VmThreads \ {v}
      BY <1>1, <1>2, <1>3, <1>4, <2>1
    <3>2. QED
      BY <2>1, <3>1 DEF StackOf
  <2>2. CASE i = Len(s) + 1 /\ i - 1 = Len(s)
    <3>1. t[i] = v /\ t[i - 1] = s[Len(s)]
      BY <1>2, <1>4, <2>2
    <3>2. QED
      BY <3>1 DEF StackOf
  <2>3. QED
    BY <1>2, <1>4, <2>1, <2>2
<1>8. ASSUME NEW i \in 1..Len(t), NEW j \in 1..Len(t), t[i] = t[j] PROVE i = j
  <2>1. \A k \in 1..Len(t) : (k \in 1..Len(s) /\ t[k] = s[k]) \/ (k = Len(s) + 1 /\ t[k] = v)
    <3>1. \A k \in 1..(Len(s) + 1) : k \in 1..Len(s) \/ k = Len(s) + 1
      BY <1>1, BelowAndNext
    <3>2. QED
      BY <1>2, <3>1
  <2>2. \A k, l \in 1..Len(s) : s[k] = s[l] => k = l
    BY DEF StackOf
  <2>3. QED
    BY <1>3, <1>8, <2>1, <2>2
<1>9. \A i \in 1..Len(t) : fr[t[i]] > 0
  BY <1>2, <1>4 DEF StackOf
<1>10. StackOf(t, v, cl2, fr)
  BY <1>2, <1>4, <1>5, <1>6, <1>7, <1>8, <1>9 DEF StackOf
<1>11. QED
  BY <1>10 DEF t

----------------------------------------------------------------------------
(* Calls of vm_run that differ in one place. *)

\* A prefix of the calls, over a prefix of the stack that has the VM threads of its
\* drives, where no frame a call waits for is gone.
LEMMA RunsPopped ==
  ASSUME NEW s \in Seq(VmThreads), NEW r \in Seq(RunsOfVm), NEW fr, NEW fr2,
         RunsOf(r, s, fr),
         NEW n \in 1..Len(r), NEW m \in 1..Len(s),
         \A i \in 2..n : r[i].kind = "callback" => r[i].min < fr2[Root],
         \A i \in 2..n : r[i].kind = "drive" =>
           fr2[r[i].on] = fr[r[i].on] /\ \E p \in 1..m : s[p] = r[i].on
  PROVE  RunsOf(SubSeq(r, 1, n), SubSeq(s, 1, m), fr2)
<1> DEFINE q == SubSeq(r, 1, n)
           t == SubSeq(s, 1, m)
<1>1. Len(r) \in Nat /\ Len(s) \in Nat /\ n \in 0..Len(r) /\ m \in 0..Len(s)
  BY LenProperties
<1>2. /\ q \in Seq(RunsOfVm) /\ Len(q) = n /\ \A i \in 1..n : q[i] = r[i]
      /\ t \in Seq(VmThreads) /\ Len(t) = m /\ \A i \in 1..m : t[i] = s[i]
  BY <1>1, PrefixOfSeq
<1>3. /\ 1 \in 1..n
      /\ \A i \in 2..n : i \in 1..n /\ i \in 2..Len(r)
      /\ \A i \in 1..m : i \in 1..Len(s)
  BY <1>1
<1> HIDE DEF q, t
<1>4. q[1] = Run("program", Root, Base)
  BY <1>2, <1>3 DEF RunsOf
<1>5. ASSUME NEW i \in 2..Len(q)
      PROVE  \/ q[i].kind = "callback" /\ q[i].on = Root /\ q[i].min > 0 /\ q[i].min < fr2[Root]
             \/ q[i].kind = "drive" /\ q[i].on \in ToSet(t) /\ q[i].min = fr2[q[i].on]
  <2>1. q[i] = r[i] /\ i \in 2..n /\ i \in 2..Len(r)
    BY <1>2, <1>3
  <2>2. CASE r[i].kind = "callback"
    BY <2>1, <2>2 DEF RunsOf
  <2>3. CASE r[i].kind = "drive"
    <3>1. fr2[r[i].on] = fr[r[i].on] /\ \E p \in 1..m : s[p] = r[i].on
      BY <2>1, <2>3
    <3>2. r[i].on \in ToSet(t)
      BY <1>2, <3>1, Members
    <3>3. QED
      BY <2>1, <2>3, <3>1, <3>2 DEF RunsOf
  <2>4. QED
    BY <2>1, <2>2, <2>3 DEF RunsOf
<1>6. \A i, j \in 2..Len(q) : i < j /\ q[i].kind = "drive" => q[j].kind = "drive"
  BY <1>2, <1>3 DEF RunsOf
<1>7. \A i, j \in 2..Len(q) : i < j /\ q[j].kind = "callback" => q[i].min < q[j].min
  BY <1>2, <1>3 DEF RunsOf
<1>8. ASSUME NEW i \in 2..Len(q), NEW j \in 2..Len(q), NEW k \in 1..Len(t), NEW l \in 1..Len(t),
             i < j, q[i].kind = "drive", t[k] = q[i].on, t[l] = q[j].on
      PROVE  k < l
  <2>1. /\ i \in 2..Len(r) /\ j \in 2..Len(r) /\ k \in 1..Len(s) /\ l \in 1..Len(s)
        /\ q[i] = r[i] /\ q[j] = r[j] /\ t[k] = s[k] /\ t[l] = s[l]
    BY <1>2, <1>3
  <2>2. QED
    BY <1>8, <2>1 DEF RunsOf
<1>9. RunsOf(q, t, fr2)
  BY <1>4, <1>5, <1>6, <1>7, <1>8 DEF RunsOf
<1>10. QED
  BY <1>9 DEF q, t

\* The same calls over the same stack.
LEMMA RunsSame ==
  ASSUME NEW s \in Seq(VmThreads), NEW r \in Seq(RunsOfVm), NEW fr, NEW fr2,
         RunsOf(r, s, fr),
         \A i \in 2..Len(r) : r[i].kind = "callback" => r[i].min < fr2[Root],
         \A i \in 2..Len(r) : r[i].kind = "drive" => fr2[r[i].on] = fr[r[i].on]
  PROVE  RunsOf(r, s, fr2)
BY DEF RunsOf

\* The same calls over a stack with a new top.
LEMMA RunsUnderPush ==
  ASSUME NEW s \in Seq(VmThreads), NEW r \in Seq(RunsOfVm), NEW fr,
         RunsOf(r, s, fr),
         NEW v \in VmThreads, v \notin ToSet(s)
  PROVE  RunsOf(r, Append(s, v), fr)
<1> DEFINE t == Append(s, v)
<1>1. t \in Seq(VmThreads) /\ Len(t) = Len(s) + 1 /\ t[Len(s) + 1] = v
      /\ Len(s) \in Nat /\ \A i \in 1..Len(s) : t[i] = s[i]
  BY AppendToSeq, LenProperties
<1>2. /\ \A i \in 1..Len(t) : i \in 1..Len(s) \/ i = Len(s) + 1
      /\ \A i \in 1..Len(s) : i \in 1..Len(t)
  BY <1>1
<1> HIDE DEF t
<1>3. \A x : x \in ToSet(s) => x \in ToSet(t) /\ x # v
  BY <1>1, <1>2, Members
<1>4. ASSUME NEW i \in 2..Len(r)
      PROVE  \/ r[i].kind = "callback" /\ r[i].on = Root /\ r[i].min > 0 /\ r[i].min < fr[Root]
             \/ r[i].kind = "drive" /\ r[i].on \in ToSet(t) /\ r[i].min = fr[r[i].on]
  BY <1>3 DEF RunsOf
<1>5. ASSUME NEW i \in 2..Len(r), NEW j \in 2..Len(r), NEW k \in 1..Len(t), NEW l \in 1..Len(t),
             i < j, r[i].kind = "drive", t[k] = r[i].on, t[l] = r[j].on
      PROVE  k < l
  <2>1. r[j].kind = "drive"
    BY <1>5 DEF RunsOf
  <2>2. r[i].on \in ToSet(s) /\ r[j].on \in ToSet(s)
    BY <1>5, <2>1 DEF RunsOf
  <2>3. k \in 1..Len(s) /\ l \in 1..Len(s)
    BY <1>1, <1>2, <1>3, <1>5, <2>2
  <2>4. s[k] = r[i].on /\ s[l] = r[j].on
    BY <1>1, <1>5, <2>3
  <2>5. QED
    BY <1>5, <2>3, <2>4 DEF RunsOf
<1>6. RunsOf(r, t, fr)
  BY <1>4, <1>5 DEF RunsOf
<1>7. QED
  BY <1>6 DEF t

\* A callback from the root, when no native drives a generator.
LEMMA RunsCallBack ==
  ASSUME NEW s \in Seq(VmThreads), NEW r \in Seq(RunsOfVm), NEW fr, NEW fr2,
         RunsOf(r, s, fr), Len(r) \in Nat \ {0},
         fr[Root] \in Nat \ {0}, fr2[Root] = fr[Root] + 1,
         \A i \in 2..Len(r) : r[i].kind # "drive",
         Run("callback", Root, fr[Root]) \in RunsOfVm
  PROVE  RunsOf(Append(r, Run("callback", Root, fr[Root])), s, fr2)
<1> DEFINE e == Run("callback", Root, fr[Root])
           q == Append(r, e)
<1>1. q \in Seq(RunsOfVm) /\ Len(q) = Len(r) + 1 /\ q[Len(r) + 1] = e
      /\ \A i \in 1..Len(r) : q[i] = r[i]
  BY AppendToSeq
<1>2. e.kind = "callback" /\ e.on = Root /\ e.min = fr[Root]
  BY DEF Run
<1>3. /\ 1 \in 1..Len(r)
      /\ \A i \in 2..(Len(r) + 1) : i \in 2..Len(r) \/ i = Len(r) + 1
      /\ \A i \in 2..Len(r) : i \in 1..Len(r)
  BY BelowAndNext
<1>4. ASSUME NEW i \in 2..Len(r)
      PROVE  /\ r[i].kind = "callback" /\ r[i].on = Root
             /\ r[i].min \in Nat /\ r[i].min > 0 /\ r[i].min < fr[Root]
  <2>1. r[i] \in RunsOfVm
    BY <1>3, ElementOfSeq
  <2>2. r[i].min \in Nat
    BY <2>1, VmRunAssumption DEF RunsOfVm
  <2>3. QED
    BY <2>2 DEF RunsOf
<1> HIDE DEF e, q
<1>5. q[1] = Run("program", Root, Base)
  BY <1>1, <1>3 DEF RunsOf
<1>6. ASSUME NEW i \in 2..Len(q)
      PROVE  q[i].kind = "callback" /\ q[i].on = Root /\ q[i].min > 0 /\ q[i].min < fr2[Root]
  <2>1. CASE i \in 2..Len(r)
    <3>1. q[i] = r[i]
      BY <1>1, <1>3, <2>1
    <3>2. r[i].min < fr[Root] + 1
      BY <1>4, <2>1
    <3>3. QED
      BY <1>4, <2>1, <3>1, <3>2
  <2>2. CASE i = Len(r) + 1
    BY <1>1, <1>2, <2>2
  <2>3. QED
    BY <1>1, <1>3, <2>1, <2>2
<1>7. ASSUME NEW i \in 2..Len(q), NEW j \in 2..Len(q), i < j
      PROVE  q[i].min < q[j].min
  <2>1. i \in 2..Len(r)
    BY <1>1, <1>3, <1>7
  <2>2. CASE j \in 2..Len(r)
    <3>1. q[i] = r[i] /\ q[j] = r[j]
      BY <1>1, <1>3, <2>1, <2>2
    <3>2. QED
      BY <1>4, <1>7, <2>1, <2>2, <3>1 DEF RunsOf
  <2>3. CASE j = Len(r) + 1
    BY <1>1, <1>2, <1>3, <1>4, <2>1, <2>3
  <2>4. QED
    BY <1>1, <1>3, <2>2, <2>3
<1>8. RunsOf(q, s, fr2)
  BY <1>5, <1>6, <1>7 DEF RunsOf
<1>9. QED
  BY <1>8 DEF q, e

\* A drive of a generator by the VM thread on the top of the stack, which does not
\* drive one yet.
LEMMA RunsDrive ==
  ASSUME NEW s, NEW c, NEW cl, NEW r \in Seq(RunsOfVm), NEW fr,
         StackOf(s, c, cl, fr),
         RunsOf(r, s, fr), Len(r) \in Nat \ {0},
         \A i \in 2..Len(r) : r[i].kind = "drive" => r[i].on # c,
         Run("drive", c, fr[c]) \in RunsOfVm
  PROVE  RunsOf(Append(r, Run("drive", c, fr[c])), s, fr)
<1> DEFINE e == Run("drive", c, fr[c])
           q == Append(r, e)
<1>1. q \in Seq(RunsOfVm) /\ Len(q) = Len(r) + 1 /\ q[Len(r) + 1] = e
      /\ \A i \in 1..Len(r) : q[i] = r[i]
  BY AppendToSeq
<1>2. e.kind = "drive" /\ e.on = c /\ e.min = fr[c]
  BY DEF Run
<1>3. /\ 1 \in 1..Len(r)
      /\ \A i \in 2..(Len(r) + 1) : i \in 2..Len(r) \/ i = Len(r) + 1
      /\ \A i \in 2..Len(r) : i \in 1..Len(r)
  BY BelowAndNext
<1>4. s \in Seq(VmThreads) /\ Len(s) \in Nat \ {0} /\ Len(s) \in 1..Len(s) /\ s[Len(s)] = c
      /\ \A p, k \in 1..Len(s) : s[p] = s[k] => p = k
  BY DEF StackOf
<1>5. c \in ToSet(s)
  BY <1>4, Members
<1> HIDE DEF e, q
<1>6. q[1] = Run("program", Root, Base)
  BY <1>1, <1>3 DEF RunsOf
<1>7. ASSUME NEW i \in 2..Len(q)
      PROVE  \/ q[i].kind = "callback" /\ q[i].on = Root /\ q[i].min > 0 /\ q[i].min < fr[Root]
             \/ q[i].kind = "drive" /\ q[i].on \in ToSet(s) /\ q[i].min = fr[q[i].on]
  <2>1. CASE i \in 2..Len(r)
    <3>1. q[i] = r[i]
      BY <1>1, <1>3, <2>1
    <3>2. QED
      BY <2>1, <3>1 DEF RunsOf
  <2>2. CASE i = Len(r) + 1
    BY <1>1, <1>2, <1>5, <2>2
  <2>3. QED
    BY <1>1, <1>3, <2>1, <2>2
<1>8. ASSUME NEW i \in 2..Len(q), NEW j \in 2..Len(q), i < j
      PROVE  /\ i \in 2..Len(r) /\ q[i] = r[i]
             /\ \/ j \in 2..Len(r) /\ q[j] = r[j]
                \/ j = Len(r) + 1 /\ q[j] = e
  BY <1>1, <1>3, <1>8
<1>9. \A i, j \in 2..Len(q) : i < j /\ q[i].kind = "drive" => q[j].kind = "drive"
  BY <1>2, <1>8 DEF RunsOf
<1>10. \A i, j \in 2..Len(q) : i < j /\ q[j].kind = "callback" => q[i].min < q[j].min
  BY <1>2, <1>8 DEF RunsOf
<1>11. ASSUME NEW i \in 2..Len(q), NEW j \in 2..Len(q), NEW k \in 1..Len(s), NEW l \in 1..Len(s),
              i < j, q[i].kind = "drive", s[k] = q[i].on, s[l] = q[j].on
       PROVE  k < l
  <2>1. i \in 2..Len(r) /\ q[i] = r[i]
    BY <1>8, <1>11
  <2>2. CASE j \in 2..Len(r) /\ q[j] = r[j]
    BY <1>11, <2>1, <2>2 DEF RunsOf
  <2>3. CASE j = Len(r) + 1 /\ q[j] = e
    <3>1. l = Len(s)
      BY <1>2, <1>4, <1>11, <2>3
    <3>2. k # Len(s)
      BY <1>4, <1>11, <2>1
    <3>3. QED
      BY <1>4, <3>1, <3>2
  <2>4. QED
    BY <1>8, <1>11, <2>2, <2>3
<1>12. RunsOf(q, s, fr)
  BY <1>6, <1>7, <1>9, <1>10, <1>11 DEF RunsOf
<1>13. QED
  BY <1>12 DEF q, e

----------------------------------------------------------------------------
(* What the invariant says of the VM thread that executes. *)

\* The stack, without Chain.
LEMMA TheStack ==
  ASSUME VmInv, ended = "no"
  PROVE  /\ Chain \in Seq(VmThreads) /\ Len(Chain) \in Nat \ {0}
         /\ \A i \in 1..Len(Chain) : Chain[i] \in VmThreads /\ frames[Chain[i]] > 0
         /\ \A i, j \in 1..Len(Chain) : Chain[i] = Chain[j] => i = j
         /\ Chain[1] = Root /\ Chain[Len(Chain)] = cur
         /\ caller[Root] = NoVm /\ \A i \in 2..Len(Chain) : caller[Chain[i]] = Chain[i - 1]
         /\ \A x : x \in ToSet(Chain) <=> \E i \in 1..Len(Chain) : Chain[i] = x
         /\ Root \in ToSet(Chain) /\ cur \in ToSet(Chain)
<1>1. StackOf(Chain, cur, caller, frames)
  BY DEF VmInv
<1>2. Chain \in Seq(VmThreads) /\ Len(Chain) \in Nat \ {0}
  BY <1>1 DEF StackOf
<1>3. \A x : x \in ToSet(Chain) <=> \E i \in 1..Len(Chain) : Chain[i] = x
  BY <1>2, Members
<1>4. 1 \in 1..Len(Chain) /\ Len(Chain) \in 1..Len(Chain)
  BY <1>2
<1>5. Chain[1] = Root /\ Chain[Len(Chain)] = cur
  BY <1>1 DEF StackOf
<1>6. Root \in ToSet(Chain) /\ cur \in ToSet(Chain)
  BY <1>3, <1>4, <1>5
<1>7. \A i \in 1..Len(Chain) : Chain[i] \in VmThreads
  BY <1>2, ElementOfSeq
<1>8. QED
  BY <1>1, <1>2, <1>3, <1>5, <1>6, <1>7 DEF StackOf

\* The calls of vm_run.
LEMMA TheRuns ==
  ASSUME VmInv, ended = "no"
  PROVE  /\ runs \in Seq(RunsOfVm) /\ Len(runs) \in Nat \ {0}
         /\ \A i \in 1..Len(runs) : runs[i] \in RunsOfVm /\ runs[i].min \in Nat
         /\ Last(runs) = runs[Len(runs)] /\ MinFrames \in Nat
         /\ DOMAIN runs = 1..Len(runs)
         /\ frames[Root] \in Nat \ {0} /\ frames[cur] \in Nat \ {0}
<1>1. runs \in Seq(RunsOfVm) /\ Len(runs) \in Nat \ {0}
  BY VmRunAssumption DEF VmInv, VmTypeOK
<1>2. ASSUME NEW i \in 1..Len(runs) PROVE runs[i] \in RunsOfVm /\ runs[i].min \in Nat
  <2>1. runs[i] \in RunsOfVm
    BY <1>1, ElementOfSeq
  <2>2. QED
    BY <2>1, VmRunAssumption DEF RunsOfVm
<1>3. runs # <<>> /\ Len(runs) \in 1..Len(runs)
  BY <1>1, EmptySeq
<1>4. Last(runs) = runs[Len(runs)]
  BY <1>1, <1>3, FrontOfSeq
<1>5. MinFrames \in Nat
  BY <1>2, <1>3, <1>4 DEF MinFrames
<1>6. \A v \in VmThreads : frames[v] \in Nat
  BY VmRunAssumption DEF VmInv, VmTypeOK
<1>7. frames[Root] > 0 /\ frames[cur] > 0 /\ cur \in VmThreads /\ Root \in VmThreads
  BY TheStack
<1>8. frames[Root] \in Nat \ {0} /\ frames[cur] \in Nat \ {0}
  BY <1>6, <1>7
<1>9. DOMAIN runs = 1..Len(runs)
  BY <1>1, LenProperties
<1>10. QED
  BY <1>1, <1>2, <1>4, <1>5, <1>8, <1>9

\* A VM thread has a caller exactly when it is above the root.
LEMMA InCoroutineAboveRoot ==
  ASSUME VmInv, ended = "no"
  PROVE  /\ InCoroutine <=> Len(Chain) > 1
         /\ InCoroutine <=> cur # Root
         /\ InCoroutine => /\ Len(Chain) - 1 \in 1..Len(Chain)
                           /\ Len(Chain) \in 2..Len(Chain)
                           /\ caller[cur] = Chain[Len(Chain) - 1]
<1>1. Len(Chain) \in Nat \ {0}
  BY TheStack
<1>2. CASE Len(Chain) = 1
  <2>1. cur = Root /\ caller[cur] = NoVm
    BY <1>2, TheStack
  <2>2. QED
    BY <1>2, <2>1 DEF InCoroutine
<1>3. CASE Len(Chain) # 1
  <2>1. /\ Len(Chain) \in 2..Len(Chain) /\ Len(Chain) - 1 \in 1..Len(Chain) /\ Len(Chain) > 1
        /\ 1 \in 1..Len(Chain) /\ Len(Chain) \in 1..Len(Chain)
    BY <1>1, <1>3, BelowTop
  <2>2. caller[cur] = Chain[Len(Chain) - 1] /\ Chain[Len(Chain) - 1] \in VmThreads
    BY <2>1, TheStack
  <2>3. cur # Root
    BY <1>3, <2>1, TheStack
  <2>4. InCoroutine
    BY <2>2, VmRunAssumption DEF InCoroutine
  <2>5. QED
    BY <2>1, <2>2, <2>3, <2>4
<1>4. QED
  BY <1>2, <1>3

\* The last drive is the one whose VM thread stops the loop.
LEMMA StopThreadIsLastDrive ==
  ASSUME VmInv, ended = "no"
  PROVE  \/ /\ StopThread = NoVm
            /\ \A i \in 2..Len(runs) : runs[i].kind # "drive"
         \/ /\ Len(runs) \in 2..Len(runs)
            /\ runs[Len(runs)].kind = "drive" /\ StopThread = runs[Len(runs)].on
<1> DEFINE drives == {i \in DOMAIN runs : runs[i].kind = "drive"}
<1>1. Len(runs) \in Nat \ {0} /\ DOMAIN runs = 1..Len(runs)
  BY TheRuns
<1>2. RunsOf(runs, Chain, frames)
  BY DEF VmInv
<1>3. 1 \notin drives
  BY <1>2 DEF RunsOf, Run
<1>4. drives \subseteq 2..Len(runs) /\ drives \subseteq 0..Len(runs)
  BY <1>1, <1>3
<1>5. CASE drives = {}
  <2>1. StopThread = NoVm
    BY <1>5 DEF StopThread
  <2>2. \A i \in 2..Len(runs) : i \in DOMAIN runs
    BY <1>1
  <2>3. \A i \in 2..Len(runs) : runs[i].kind # "drive"
    BY <1>5, <2>2
  <2>4. QED
    BY <2>1, <2>3
<1>6. CASE drives # {}
  <2> DEFINE m == Max(drives)
  <2> HIDE DEF drives
  <2>1. m \in drives /\ \A i \in drives : i <= m
    BY <1>1, <1>4, <1>6, MaxOfNaturals
  <2> HIDE DEF m
  <2> USE DEF drives
  <2>2. m \in 2..Len(runs) /\ runs[m].kind = "drive"
    BY <1>4, <2>1
  <2>3. Len(runs) \in 2..Len(runs)
    BY <1>1, <2>2
  <2>4. Len(runs) \in drives
    <3>1. CASE m = Len(runs)
      BY <2>1, <3>1
    <3>2. CASE m # Len(runs)
      <4>1. m < Len(runs)
        <5>1. m \in 1..Len(runs)
          BY <2>2
        <5>2. QED
          BY <1>1, <3>2, <5>1, BelowTop
      <4>2. runs[Len(runs)].kind = "drive"
        BY <1>2, <2>2, <2>3, <4>1 DEF RunsOf
      <4>3. QED
        BY <1>1, <2>3, <4>2
    <3>3. QED
      BY <3>1, <3>2
  <2>5. m = Len(runs)
    BY <1>1, <2>1, <2>2, <2>4
  <2>6. StopThread = runs[m].on
    BY <1>6 DEF StopThread, m
  <2>7. QED
    BY <2>2, <2>3, <2>5, <2>6
<1>7. QED
  BY <1>5, <1>6

\* While a VM thread executes, no native on it drives a generator; and on the root
\* none at all does.
LEMMA NoDriveOnCur ==
  ASSUME VmInv, Executing
  PROVE  /\ \A i \in 2..Len(runs) : runs[i].kind = "drive" => runs[i].on # cur
         /\ cur = Root => \A i \in 2..Len(runs) : runs[i].kind # "drive"
<1>1. ended = "no" /\ cur # StopThread
  BY DEF Executing, Stopping
<1>2. RunsOf(runs, Chain, frames)
  BY <1>1 DEF VmInv
<1>3. ASSUME NEW i \in 2..Len(runs), runs[i].kind = "drive", runs[i].on = cur PROVE FALSE
  <2>1. Len(runs) \in 2..Len(runs) /\ runs[Len(runs)].kind = "drive" /\ runs[Len(runs)].on # cur
    BY <1>1, <1>3, StopThreadIsLastDrive
  <2>2. Len(runs) \in Nat \ {0} /\ i < Len(runs)
    BY <1>1, <1>3, <2>1, TheRuns
  <2>3. runs[Len(runs)].on \in ToSet(Chain)
    BY <1>2, <2>1 DEF RunsOf
  <2>4. PICK p \in 1..Len(Chain) : Chain[p] = runs[Len(runs)].on
    BY <1>1, <2>3, TheStack
  <2>5. Len(Chain) \in 1..Len(Chain) /\ Chain[Len(Chain)] = runs[i].on
    BY <1>1, <1>3, TheStack
  <2>6. Len(Chain) < p
    BY <1>2, <1>3, <2>1, <2>2, <2>4, <2>5 DEF RunsOf
  <2>7. QED
    BY <2>4, <2>5, <2>6
<1>4. ASSUME cur = Root, NEW i \in 2..Len(runs), runs[i].kind = "drive" PROVE FALSE
  <2>1. runs[i].on \in ToSet(Chain)
    BY <1>2, <1>4 DEF RunsOf
  <2>2. Len(Chain) = 1
    <3>1. ~(Len(Chain) > 1)
      BY <1>1, <1>4, InCoroutineAboveRoot
    <3>2. Len(Chain) \in Nat \ {0}
      BY <1>1, TheStack
    <3>3. QED
      BY <3>1, <3>2, BelowTop
  <2>3. runs[i].on = cur
    BY <1>1, <1>4, <2>1, <2>2, TheStack
  <2>4. QED
    BY <1>3, <1>4, <2>3
<1>5. QED
  BY <1>3, <1>4

\* A callback is on the root.
LEMMA CallbackOnRoot ==
  ASSUME VmInv, ended = "no", NEW i \in 2..Len(runs)
  PROVE  /\ runs[i].kind # "drive" =>
              /\ runs[i].kind = "callback" /\ runs[i].on = Root
              /\ runs[i].min > 0 /\ runs[i].min < frames[Root]
         /\ runs[i].kind = "drive" =>
              /\ runs[i].min = frames[runs[i].on]
              /\ \E p \in 1..Len(Chain) : Chain[p] = runs[i].on
<1>1. RunsOf(runs, Chain, frames)
  BY DEF VmInv
<1>2. QED
  BY <1>1, TheStack DEF RunsOf

----------------------------------------------------------------------------
(* Handlers. *)

\* The handlers below one of them, in a function they all are at or under.
LEMMA HandlersBelow ==
  ASSUME NEW h \in Seq(Handlers), NEW f, NEW g, HandlersOf(h, f),
         NEW n \in 0..Len(h), \A i \in 1..n : h[i].frame <= g
  PROVE  /\ SubSeq(h, 1, n) \in Seq(Handlers)
         /\ HandlersOf(SubSeq(h, 1, n), g)
<1> DEFINE t == SubSeq(h, 1, n)
<1>1. Len(h) \in Nat /\ n \in Nat /\ n <= Len(h) /\ \A i \in 1..n : i \in 1..Len(h)
  BY LenProperties
<1>2. t \in Seq(Handlers) /\ Len(t) = n /\ \A i \in 1..n : t[i] = h[i]
  BY PrefixOfSeq
<1> HIDE DEF t
<1>3. Len(t) <= MaxTries
  BY <1>1, <1>2, VmRunAssumption DEF HandlersOf
<1>4. \A i \in 1..Len(t) : t[i].frame <= g
  BY <1>2
<1>5. \A i, j \in 1..Len(t) : i < j => t[i].frame <= t[j].frame
  BY <1>1, <1>2 DEF HandlersOf
<1>6. t \in Seq(Handlers) /\ HandlersOf(t, g)
  BY <1>2, <1>3, <1>4, <1>5 DEF HandlersOf
<1>7. QED
  BY <1>6 DEF t

\* One more handler, of the function that runs.
LEMMA HandlersPushed ==
  ASSUME NEW h \in Seq(Handlers), NEW e \in Handlers, NEW f,
         HandlersOf(h, e.frame), Len(h) < MaxTries, e.frame <= f, f \in Nat
  PROVE  /\ Append(h, e) \in Seq(Handlers)
         /\ HandlersOf(Append(h, e), f)
<1> DEFINE t == Append(h, e)
<1>1. Len(h) \in Nat /\ MaxTries \in Nat
  BY LenProperties, VmRunAssumption
<1>2. t \in Seq(Handlers) /\ Len(t) = Len(h) + 1 /\ t[Len(h) + 1] = e
      /\ \A i \in 1..Len(h) : t[i] = h[i]
  BY AppendToSeq
<1>3. \A i \in 1..Len(t) : i \in 1..Len(h) \/ i = Len(h) + 1
  BY <1>1, <1>2
<1> HIDE DEF t
<1>4. Len(t) <= MaxTries
  BY <1>1, <1>2
<1>5. \A i \in 1..Len(h) : t[i].frame <= e.frame
  BY <1>2 DEF HandlersOf
<1>6. ASSUME NEW i \in 1..Len(t) PROVE t[i].frame <= f
  <2>1. t[i].frame \in Int /\ e.frame \in Int /\ e.frame <= f
    <3>1. t[i] \in Handlers
      BY <1>2, ElementOfSeq
    <3>2. QED
      BY <3>1 DEF Handlers
  <2>2. CASE i \in 1..Len(h)
    BY <1>5, <2>1, <2>2
  <2>3. CASE i = Len(h) + 1
    BY <1>2, <2>1, <2>3
  <2>4. QED
    BY <1>3, <2>2, <2>3
<1>7. ASSUME NEW i \in 1..Len(t), NEW j \in 1..Len(t), i < j PROVE t[i].frame <= t[j].frame
  <2>1. i \in 1..Len(h)
    BY <1>1, <1>3, <1>7
  <2>2. CASE j \in 1..Len(h)
    BY <1>2, <1>7, <2>1, <2>2 DEF HandlersOf
  <2>3. CASE j = Len(h) + 1
    BY <1>2, <1>5, <2>1, <2>3
  <2>4. QED
    BY <1>3, <2>2, <2>3
<1>8. t \in Seq(Handlers) /\ HandlersOf(t, f)
  BY <1>2, <1>4, <1>6, <1>7 DEF HandlersOf
<1>9. QED
  BY <1>8 DEF t

\* Types of the handlers of the VM thread in control.
LEMMA TheHandlers ==
  ASSUME VmInv
  PROVE  /\ cur \in VmThreads /\ frames[cur] \in 0..MaxFrames /\ MaxFrames \in Nat
         /\ handlers[cur] \in Seq(Handlers) /\ HandlersOf(handlers[cur], frames[cur])
         /\ Len(handlers[cur]) \in Nat /\ DOMAIN handlers[cur] = 1..Len(handlers[cur])
         /\ \A i \in 1..Len(handlers[cur]) :
              handlers[cur][i] \in Handlers /\ handlers[cur][i].frame \in 1..frames[cur]
<1>1. /\ cur \in VmThreads /\ frames[cur] \in 0..MaxFrames /\ MaxFrames \in Nat
      /\ handlers[cur] \in Seq(Handlers)
  BY VmRunAssumption DEF VmInv, VmTypeOK
<1>2. HandlersOf(handlers[cur], frames[cur])
  BY <1>1 DEF VmInv
<1>3. Len(handlers[cur]) \in Nat /\ DOMAIN handlers[cur] = 1..Len(handlers[cur])
  BY <1>1, LenProperties
<1>4. ASSUME NEW i \in 1..Len(handlers[cur])
      PROVE  handlers[cur][i] \in Handlers /\ handlers[cur][i].frame \in 1..frames[cur]
  <2>1. handlers[cur][i] \in Handlers
    BY <1>1, ElementOfSeq
  <2>2. handlers[cur][i].frame \in 1..MaxFrames /\ handlers[cur][i].frame <= frames[cur]
    BY <1>2, <2>1 DEF Handlers, HandlersOf
  <2>3. QED
    BY <1>1, <2>1, <2>2
<1>5. QED
  BY <1>1, <1>2, <1>3, <1>4

\* What a return keeps are the handlers of the callers.
LEMMA KeptHandlersFit ==
  ASSUME VmInv, frames[cur] > 0
  PROVE  /\ KeptHandlers \in Seq(Handlers)
         /\ HandlersOf(KeptHandlers, frames[cur] - 1)
<1> DEFINE h == handlers[cur]
           below == {k \in DOMAIN h : h[k].frame < frames[cur]}
           n == Max({0} \cup below)
<1>1. /\ h \in Seq(Handlers) /\ HandlersOf(h, frames[cur]) /\ Len(h) \in Nat
      /\ DOMAIN h = 1..Len(h)
      /\ frames[cur] \in Nat
      /\ \A i \in 1..Len(h) : h[i].frame \in 1..frames[cur]
  BY TheHandlers
<1>2. {0} \cup below \subseteq 0..Len(h) /\ {0} \cup below # {}
  BY <1>1
<1>3. n \in {0} \cup below
  <2> HIDE DEF below
  <2>1. QED
    BY <1>1, <1>2, MaxOfNaturals
<1>4. n \in 0..Len(h)
  BY <1>2, <1>3
<1> HIDE DEF n
<1>5. ASSUME NEW i \in 1..n PROVE h[i].frame <= frames[cur] - 1
  <2>1. n \in below /\ n \in 1..Len(h) /\ i \in 1..Len(h)
    BY <1>1, <1>3, <1>4
  <2>2. h[n].frame < frames[cur] /\ h[n].frame \in Int /\ h[i].frame \in Int
    BY <1>1, <2>1
  <2>3. h[i].frame <= h[n].frame
    <3>1. CASE i = n
      BY <2>2, <3>1
    <3>2. CASE i # n
      BY <1>1, <2>1, <3>2 DEF HandlersOf
    <3>3. QED
      BY <3>1, <3>2
  <2>4. QED
    BY <1>1, <2>2, <2>3
<1>6. KeptHandlers = SubSeq(h, 1, n)
  BY DEF KeptHandlers, n
<1> HIDE DEF h, below
<1>7. QED
  BY <1>1, <1>4, <1>5, <1>6, HandlersBelow

\* The handler that catches, with its except clause running.
LEMMA CatchingHandler ==
  ASSUME VmInv, Catchers # {}
  PROVE  LET i == Max(Catchers)
             frame == handlers[cur][i].frame
             h == Append(SubSeq(handlers[cur], 1, i - 1), [frame |-> frame, inExcept |-> TRUE])
         IN  /\ frame \in 1..frames[cur] /\ frame \in 1..MaxFrames
             /\ h \in Seq(Handlers) /\ HandlersOf(h, frame)
<1> DEFINE i == Max(Catchers)
           g == handlers[cur]
           frame == g[i].frame
           e == [frame |-> frame, inExcept |-> TRUE]
           t == SubSeq(g, 1, i - 1)
<1>1. /\ g \in Seq(Handlers) /\ HandlersOf(g, frames[cur]) /\ Len(g) \in Nat
      /\ DOMAIN g = 1..Len(g)
      /\ \A k \in 1..Len(g) : g[k] \in Handlers /\ g[k].frame \in 1..frames[cur]
      /\ frames[cur] \in 0..MaxFrames /\ MaxFrames \in Nat
  BY TheHandlers
<1>2. Catchers \subseteq 1..Len(g)
  BY <1>1 DEF Catchers
<1>3. Catchers \subseteq 0..Len(g)
  BY <1>2
<1>4. i \in 1..Len(g)
  BY <1>1, <1>2, <1>3, MaxOfNaturals
<1> HIDE DEF i, g
<1>5. frame \in 1..frames[cur] /\ frame \in 1..MaxFrames
  BY <1>1, <1>4
<1>6. e \in Handlers /\ e.frame = frame
  BY <1>5 DEF Handlers
<1>7. i - 1 \in 0..Len(g) /\ i - 1 < Len(g)
  BY <1>1, <1>4
<1>8. ASSUME NEW k \in 1..(i - 1) PROVE g[k].frame <= frame
  <2>1. k \in 1..Len(g) /\ k < i
    BY <1>1, <1>4
  <2>2. QED
    BY <1>1, <1>4, <2>1 DEF HandlersOf
<1>9. t \in Seq(Handlers) /\ HandlersOf(t, frame) /\ Len(t) = i - 1
  BY <1>1, <1>7, <1>8, HandlersBelow, PrefixOfSeq
<1>10. Len(t) < MaxTries
  BY <1>1, <1>4, <1>7, <1>9, VmRunAssumption DEF HandlersOf
<1> HIDE DEF t, e
<1>11. frame \in Nat /\ frame <= frame
  BY <1>5
<1>12. Append(t, e) \in Seq(Handlers) /\ HandlersOf(Append(t, e), frame)
  BY <1>6, <1>9, <1>10, <1>11, HandlersPushed
<1>13. QED
  BY <1>5, <1>12 DEF t, e, g, i

----------------------------------------------------------------------------
(* The invariant is inductive. *)

\* The stack after a step is Chain after the step.
LEMMA NextChain == \A s : StackOf(s, cur', caller', frames') => Chain' = s
<1>1. (\A s : StackOf(s, cur, caller, frames) => Chain = s)'
  BY ChainIsStack, PTL
<1>2. QED
  BY <1>1 DEF StackOf

\* The invariant after a step, from the stack s after it.
LEMMA InvariantFrom ==
  ASSUME NEW s,
         VmTypeOK',
         \A v \in VmThreads : HandlersOf(handlers'[v], frames'[v]),
         ended' = "no" =>
           /\ StackOf(s, cur', caller', frames')
           /\ RunsOf(runs', s, frames')
           /\ \A v \in VmThreads : genMode'[v] => v \in ToSet(s)
  PROVE  VmInv' /\ (ended' = "no" => Chain' = s)
<1>1. ASSUME ended' = "no" PROVE Chain' = s
  BY <1>1, NextChain
<1>2. QED
  BY <1>1 DEF VmInv

\* One VM thread gets other frames and handlers.
LEMMA HandlersStep ==
  ASSUME VmInv, NEW v \in VmThreads, NEW f \in 0..MaxFrames, NEW h \in Seq(Handlers),
         HandlersOf(h, f),
         frames' = [frames EXCEPT ![v] = f], handlers' = [handlers EXCEPT ![v] = h]
  PROVE  /\ frames' \in [VmThreads -> 0..MaxFrames]
         /\ handlers' \in [VmThreads -> Seq(Handlers)]
         /\ frames'[v] = f /\ \A u \in VmThreads \ {v} : frames'[u] = frames[u]
         /\ \A u \in VmThreads : HandlersOf(handlers'[u], frames'[u])
<1>1. /\ frames \in [VmThreads -> 0..MaxFrames] /\ handlers \in [VmThreads -> Seq(Handlers)]
      /\ \A u \in VmThreads : HandlersOf(handlers[u], frames[u])
  BY DEF VmInv, VmTypeOK
<1>2. frames' \in [VmThreads -> 0..MaxFrames] /\ handlers' \in [VmThreads -> Seq(Handlers)]
  BY <1>1
<1>3. frames'[v] = f /\ handlers'[v] = h
  BY <1>1
<1>4. \A u \in VmThreads \ {v} : frames'[u] = frames[u] /\ handlers'[u] = handlers[u]
  BY <1>1
<1>5. ASSUME NEW u \in VmThreads PROVE HandlersOf(handlers'[u], frames'[u])
  <2>1. CASE u = v
    BY <1>3, <2>1
  <2>2. CASE u # v
    BY <1>1, <1>4, <2>2
  <2>3. QED
    BY <2>1, <2>2
<1>6. QED
  BY <1>2, <1>3, <1>4, <1>5

\* The root is alone on the stack.
LEMMA InitInvariant == VmInit => VmInv
<1> SUFFICES ASSUME VmInit PROVE VmInv
  OBVIOUS
<1> DEFINE r == Run("program", Root, Base)
<1>1. /\ cur = Root /\ runs = <<r>> /\ ended = "no"
      /\ frames = [v \in VmThreads |-> IF v = Root THEN 1 ELSE 0]
      /\ caller = [v \in VmThreads |-> NoVm]
      /\ genMode = [v \in VmThreads |-> FALSE]
      /\ handlers = [v \in VmThreads |-> <<>>]
  BY DEF VmInit
<1>2. Root \in VmThreads /\ MaxFrames \in Nat \ {0} /\ MaxRuns \in Nat \ {0} /\ MaxTries \in Nat
      /\ Base \in 0..1
  BY VmRunAssumption
<1>3. r \in RunsOfVm
  BY <1>2 DEF Run, RunsOfVm
<1>4. VmTypeOK
  <2>1. cur \in VmThreads /\ caller \in [VmThreads -> VmThreads \cup {NoVm}]
        /\ genMode \in [VmThreads -> BOOLEAN] /\ ended \in {"no", "ok", "error"}
    BY <1>1, <1>2
  <2>2. frames \in [VmThreads -> 0..MaxFrames]
    BY <1>1, <1>2
  <2>3. handlers \in [VmThreads -> Seq(Handlers)]
    BY <1>1
  <2>4. runs \in Seq(RunsOfVm) /\ Len(runs) \in 1..MaxRuns
    <3> HIDE DEF r
    <3>1. QED
      BY <1>1, <1>2, <1>3
  <2>5. QED
    BY <2>1, <2>2, <2>3, <2>4 DEF VmTypeOK
<1>5. \A v \in VmThreads : HandlersOf(handlers[v], frames[v])
  BY <1>1, <1>2 DEF HandlersOf
<1>6. StackOf(<<Root>>, cur, caller, frames)
  BY <1>1, <1>2 DEF StackOf
<1>7. Chain = <<Root>>
  BY <1>6, ChainIsStack
<1>8. RunsOf(runs, Chain, frames)
  <2>1. Len(runs) = 1 /\ runs[1] = r
    BY <1>1
  <2>2. QED
    BY <2>1 DEF RunsOf
<1>9. QED
  BY <1>1, <1>4, <1>5, <1>6, <1>7, <1>8 DEF VmInv

\* What the invariant gives every step.
LEMMA BeforeStep ==
  ASSUME VmInv
  PROVE  /\ frames \in [VmThreads -> 0..MaxFrames] /\ handlers \in [VmThreads -> Seq(Handlers)]
         /\ caller \in [VmThreads -> VmThreads \cup {NoVm}] /\ genMode \in [VmThreads -> BOOLEAN]
         /\ cur \in VmThreads /\ ended \in {"no", "ok", "error"}
         /\ runs \in Seq(RunsOfVm) /\ Len(runs) \in 1..MaxRuns /\ MaxRuns \in Nat /\ MaxFrames \in Nat
         /\ \A v \in VmThreads : HandlersOf(handlers[v], frames[v]) /\ frames[v] \in 0..MaxFrames
         /\ ended = "no" => /\ StackOf(Chain, cur, caller, frames)
                            /\ RunsOf(runs, Chain, frames)
                            /\ \A v \in VmThreads : genMode[v] => v \in ToSet(Chain)
BY VmRunAssumption DEF VmInv, VmTypeOK

\* A VM thread is created off the stack.
LEMMA NewVmThreadStep ==
  ASSUME VmInv, NEW v \in VmThreads, NewVmThread(v)
  PROVE  VmInv' /\ Chain' = Chain
<1>1. /\ ended = "no" /\ frames[v] = 0 /\ v \notin ToSet(Chain)
      /\ frames' = [frames EXCEPT ![v] = 1]
      /\ caller' = [caller EXCEPT ![v] = NoVm]
      /\ genMode' = [genMode EXCEPT ![v] = FALSE]
      /\ handlers' = [handlers EXCEPT ![v] = <<>>]
      /\ cur' = cur /\ runs' = runs /\ ended' = ended
  BY DEF NewVmThread, Executing
<1>2. 1 \in 0..MaxFrames /\ <<>> \in Seq(Handlers) /\ HandlersOf(<<>>, 1)
  BY VmRunAssumption DEF HandlersOf
<1>3. /\ frames' \in [VmThreads -> 0..MaxFrames] /\ handlers' \in [VmThreads -> Seq(Handlers)]
      /\ frames'[v] = 1 /\ \A u \in VmThreads \ {v} : frames'[u] = frames[u]
      /\ \A u \in VmThreads : HandlersOf(handlers'[u], frames'[u])
  BY <1>1, <1>2, HandlersStep
<1>4. VmTypeOK'
  BY <1>1, <1>3, BeforeStep DEF VmTypeOK
<1>5. ASSUME NEW i \in 1..Len(Chain)
      PROVE  /\ Chain[i] \in VmThreads /\ Chain[i] # v /\ Chain[i] \in ToSet(Chain)
             /\ caller'[Chain[i]] = caller[Chain[i]] /\ frames'[Chain[i]] = frames[Chain[i]]
             /\ frames'[Chain[i]] > 0
  <2>1. Chain[i] \in VmThreads /\ Chain[i] \in ToSet(Chain) /\ frames[Chain[i]] > 0
    BY <1>1, TheStack
  <2>2. QED
    BY <1>1, <1>3, <2>1, BeforeStep
<1>6. StackOf(Chain, cur', caller', frames')
  BY <1>1, <1>5, BeforeStep, StackSame
<1>7. \A u \in ToSet(Chain) : frames'[u] = frames[u]
  BY <1>1, <1>5, TheStack
<1>8. RunsOf(runs, Chain, frames')
  <2>1. frames'[Root] = frames[Root]
    BY <1>1, <1>7, TheStack
  <2>2. \A i \in 2..Len(runs) : runs[i].kind = "callback" => runs[i].min < frames'[Root]
    BY <1>1, <2>1, CallbackOnRoot
  <2>3. \A i \in 2..Len(runs) : runs[i].kind = "drive" => frames'[runs[i].on] = frames[runs[i].on]
    BY <1>1, <1>5, CallbackOnRoot
  <2>4. QED
    BY <1>1, <2>2, <2>3, BeforeStep, TheStack, RunsSame
<1>9. \A u \in VmThreads : genMode'[u] => u \in ToSet(Chain)
  BY <1>1, BeforeStep
<1>10. QED
  BY <1>1, <1>3, <1>4, <1>6, <1>8, <1>9, InvariantFrom

\* Control enters v: it comes onto the stack.
LEMMA SwitchStack ==
  ASSUME VmInv, NEW v \in VmThreads, Executing, MayResume(v), SwitchInto(v)
  PROVE  /\ StackOf(Append(Chain, v), cur', caller', frames)
         /\ ToSet(Append(Chain, v)) = ToSet(Chain) \cup {v}
         /\ caller' \in [VmThreads -> VmThreads \cup {NoVm}] /\ cur' = v
         /\ v \notin ToSet(Chain)
<1>1. /\ ended = "no" /\ v \notin ToSet(Chain) /\ frames[v] # 0 /\ cur' = v
      /\ caller' = [caller EXCEPT ![v] = cur]
  BY DEF Executing, MayResume, SwitchInto
<1>2. frames[v] > 0
  BY <1>1, BeforeStep
<1>3. /\ caller' \in [VmThreads -> VmThreads \cup {NoVm}] /\ caller'[v] = cur
      /\ \A u \in VmThreads \ {v} : caller'[u] = caller[u]
  BY <1>1, BeforeStep
<1>4. StackOf(Append(Chain, v), v, caller', frames)
  BY <1>1, <1>2, <1>3, BeforeStep, StackPushed
<1>5. /\ Append(Chain, v) \in Seq(VmThreads) /\ Len(Append(Chain, v)) = Len(Chain) + 1
      /\ Append(Chain, v)[Len(Chain) + 1] = v
      /\ \A i \in 1..Len(Chain) : Append(Chain, v)[i] = Chain[i]
      /\ Len(Chain) \in Nat \ {0} /\ Chain \in Seq(VmThreads)
  BY <1>1, TheStack, AppendToSeq
<1>6. \A i : i \in 1..(Len(Chain) + 1) <=> i \in 1..Len(Chain) \/ i = Len(Chain) + 1
  BY <1>5
<1>7. ASSUME NEW x PROVE x \in ToSet(Append(Chain, v)) <=> x \in ToSet(Chain) \/ x = v
  <2> DEFINE t == Append(Chain, v)
  <2>1. x \in ToSet(Chain) <=> \E i \in 1..Len(Chain) : Chain[i] = x
    BY <1>5, Members
  <2>2. x \in ToSet(t) <=> \E i \in 1..Len(t) : t[i] = x
    BY <1>5, Members
  <2> HIDE DEF t
  <2>3. Len(t) = Len(Chain) + 1 /\ t[Len(Chain) + 1] = v /\ \A i \in 1..Len(Chain) : t[i] = Chain[i]
    BY <1>5 DEF t
  <2>4. (\E i \in 1..Len(t) : t[i] = x) <=> (\E i \in 1..Len(Chain) : Chain[i] = x) \/ x = v
    BY <1>6, <2>3
  <2>5. QED
    BY <2>1, <2>2, <2>4 DEF t
<1>8. QED
  BY <1>1, <1>3, <1>4, <1>7

\* coroutine.resume.
LEMMA ResumeStep ==
  ASSUME VmInv, NEW v \in VmThreads, Resume(v)
  PROVE  VmInv' /\ Chain' = Append(Chain, v)
<1>1. /\ Executing /\ MayResume(v) /\ SwitchInto(v) /\ ended = "no"
      /\ genMode' = [genMode EXCEPT ![v] = IF v \in Generators THEN FALSE ELSE @]
      /\ frames' = frames /\ handlers' = handlers /\ runs' = runs /\ ended' = ended
  BY DEF Resume, Executing
<1>2. /\ StackOf(Append(Chain, v), cur', caller', frames)
      /\ ToSet(Append(Chain, v)) = ToSet(Chain) \cup {v}
      /\ caller' \in [VmThreads -> VmThreads \cup {NoVm}] /\ cur' = v
      /\ v \notin ToSet(Chain)
  BY <1>1, SwitchStack
<1>3. genMode' \in [VmThreads -> BOOLEAN]
  BY <1>1, BeforeStep
<1>4. VmTypeOK'
  BY <1>1, <1>2, <1>3, BeforeStep DEF VmTypeOK
<1>5. RunsOf(runs, Append(Chain, v), frames)
  BY <1>1, <1>2, BeforeStep, TheStack, RunsUnderPush
<1>6. \A u \in VmThreads : genMode'[u] => u \in ToSet(Append(Chain, v))
  BY <1>1, <1>2, BeforeStep
<1>7. \A u \in VmThreads : HandlersOf(handlers'[u], frames'[u])
  BY <1>1, BeforeStep
<1>8. QED
  BY <1>1, <1>2, <1>4, <1>5, <1>6, <1>7, InvariantFrom

\* gen_next: a for loop, or a native that then drives the generator.
LEMMA IterateStep ==
  ASSUME VmInv, NEW v \in VmThreads, GenNext(v) \/ Drive(v)
  PROVE  VmInv' /\ Chain' = Append(Chain, v)
<1> DEFINE r == Run("drive", cur, frames[cur])
<1>1. /\ Executing /\ MayResume(v) /\ SwitchInto(v) /\ ended = "no"
      /\ genMode' = [genMode EXCEPT ![v] = TRUE]
      /\ frames' = frames /\ handlers' = handlers /\ ended' = ended
      /\ runs' = runs \/ (Len(runs) < MaxRuns /\ runs' = Append(runs, r))
  BY DEF GenNext, Drive, Iterate, Executing
<1>2. /\ StackOf(Append(Chain, v), cur', caller', frames)
      /\ ToSet(Append(Chain, v)) = ToSet(Chain) \cup {v}
      /\ caller' \in [VmThreads -> VmThreads \cup {NoVm}] /\ cur' = v
      /\ v \notin ToSet(Chain)
  BY <1>1, SwitchStack
<1>3. genMode' \in [VmThreads -> BOOLEAN]
  BY <1>1, BeforeStep
<1>4. r \in RunsOfVm
  BY BeforeStep DEF Run, RunsOfVm
<1>5. Chain \in Seq(VmThreads) /\ Len(runs) \in Nat \ {0} /\ runs \in Seq(RunsOfVm)
  BY <1>1, TheStack, TheRuns
<1>6. runs' \in Seq(RunsOfVm) /\ Len(runs') \in 1..MaxRuns /\ RunsOf(runs', Chain, frames)
  <2>1. CASE runs' = runs
    BY <1>1, <2>1, BeforeStep
  <2>2. CASE Len(runs) < MaxRuns /\ runs' = Append(runs, r)
    <3>1. Append(runs, r) \in Seq(RunsOfVm) /\ Len(Append(runs, r)) = Len(runs) + 1
      BY <1>4, <1>5, AppendToSeq
    <3>2. Len(runs) + 1 \in 1..MaxRuns
      BY <1>5, <2>2, BeforeStep
    <3>3. StackOf(Chain, cur, caller, frames) /\ RunsOf(runs, Chain, frames)
      BY <1>1, BeforeStep
    <3>4. \A i \in 2..Len(runs) : runs[i].kind = "drive" => runs[i].on # cur
      BY <1>1, NoDriveOnCur
    <3>5. RunsOf(Append(runs, Run("drive", cur, frames[cur])), Chain, frames)
      BY <1>4, <1>5, <3>3, <3>4, RunsDrive
    <3>6. QED
      BY <2>2, <3>1, <3>2, <3>5
  <2>3. QED
    BY <1>1, <2>1, <2>2
<1>7. VmTypeOK'
  BY <1>1, <1>2, <1>3, <1>6, BeforeStep DEF VmTypeOK
<1>8. RunsOf(runs', Append(Chain, v), frames)
  BY <1>2, <1>5, <1>6, RunsUnderPush
<1>9. \A u \in VmThreads : genMode'[u] => u \in ToSet(Append(Chain, v))
  BY <1>1, <1>2, BeforeStep
<1>10. \A u \in VmThreads : HandlersOf(handlers'[u], frames'[u])
  BY <1>1, BeforeStep
<1>11. QED
  BY <1>1, <1>2, <1>7, <1>8, <1>9, <1>10, InvariantFrom

\* vm_run_until_thread returns.
LEMMA StopRunStep ==
  ASSUME VmInv, StopRun
  PROVE  /\ VmInv' /\ Chain' = Chain
         /\ runs' = SubSeq(runs, 1, Len(runs) - 1) /\ Len(runs) \in 2..Len(runs)
         /\ runs[Len(runs)].kind = "drive" /\ runs[Len(runs)].on = cur
<1>1. /\ ended = "no" /\ cur = StopThread /\ runs' = Front(runs)
      /\ cur' = cur /\ frames' = frames /\ caller' = caller /\ genMode' = genMode
      /\ handlers' = handlers /\ ended' = ended
  BY DEF StopRun, Stopping
<1>2. /\ Len(runs) \in 2..Len(runs)
      /\ runs[Len(runs)].kind = "drive" /\ runs[Len(runs)].on = cur
  BY <1>1, StopThreadIsLastDrive, BeforeStep, VmRunAssumption
<1>3. /\ Len(runs) \in Nat \ {0} /\ runs \in Seq(RunsOfVm) /\ Len(runs) # 1
      /\ Chain \in Seq(VmThreads) /\ Len(Chain) \in Nat \ {0} /\ Len(Chain) \in 1..Len(Chain)
  BY <1>1, <1>2, TheRuns, TheStack
<1>4. Len(runs) - 1 \in 1..Len(runs) /\ Len(runs) - 1 \in 0..Len(runs)
      /\ \A i \in 2..(Len(runs) - 1) : i \in 2..Len(runs)
  BY <1>3, OneLess
<1>5. runs' = SubSeq(runs, 1, Len(runs) - 1)
  BY <1>1, <1>3, EmptySeq, FrontOfSeq
<1>6. runs' \in Seq(RunsOfVm) /\ Len(runs') = Len(runs) - 1
  BY <1>3, <1>4, <1>5, PrefixOfSeq
<1>7. RunsOf(runs', Chain, frames)
  <2>1. RunsOf(SubSeq(runs, 1, Len(runs) - 1), SubSeq(Chain, 1, Len(Chain)), frames)
    <3>1. RunsOf(runs, Chain, frames)
      BY <1>1, BeforeStep
    <3>2. \A i \in 2..(Len(runs) - 1) : runs[i].kind = "callback" => runs[i].min < frames[Root]
      BY <1>1, <1>4, CallbackOnRoot
    <3>3. \A i \in 2..(Len(runs) - 1) : runs[i].kind = "drive" =>
            frames[runs[i].on] = frames[runs[i].on] /\ \E p \in 1..Len(Chain) : Chain[p] = runs[i].on
      BY <1>1, <1>4, CallbackOnRoot
    <3>4. QED
      BY <1>3, <1>4, <3>1, <3>2, <3>3, RunsPopped
  <2>2. QED
    BY <1>3, <1>5, <2>1, WholePrefix
<1>8. Len(runs') \in 1..MaxRuns
  <2>1. \A k \in 1..MaxRuns : k # 1 => k - 1 \in 1..MaxRuns
    BY BeforeStep, OneLess
  <2>2. QED
    BY <1>3, <1>6, <2>1, BeforeStep
<1>9. VmTypeOK'
  BY <1>1, <1>6, <1>8, BeforeStep DEF VmTypeOK
<1>10. VmInv' /\ Chain' = Chain
  BY <1>1, <1>7, <1>9, BeforeStep, InvariantFrom
<1>11. QED
  BY <1>2, <1>5, <1>10

\* The VM thread in control leaves the stack.
LEMMA PopStack ==
  ASSUME VmInv, Executing, InCoroutine, NEW cl2, NEW fr2,
         cl2[Root] = NoVm, \A u \in VmThreads \ {cur} : cl2[u] = caller[u] /\ fr2[u] = frames[u]
  PROVE  LET s == SubSeq(Chain, 1, Len(Chain) - 1)
         IN  /\ StackOf(s, caller[cur], cl2, fr2)
             /\ RunsOf(runs, s, fr2)
             /\ \A u \in ToSet(Chain) : u # cur => u \in ToSet(s)
<1> DEFINE m == Len(Chain) - 1
           s == SubSeq(Chain, 1, m)
<1>1. /\ ended = "no" /\ Chain \in Seq(VmThreads) /\ Len(Chain) \in Nat \ {0}
      /\ m \in 1..Len(Chain) /\ Len(Chain) \in 1..Len(Chain) /\ caller[cur] = Chain[m]
      /\ Chain[Len(Chain)] = cur /\ cur # Root
  BY InCoroutineAboveRoot, TheStack DEF Executing
<1>2. m \in 0..Len(Chain) /\ m = Len(Chain) - 1 /\ \A i \in 1..Len(Chain) : i \in 1..m <=> i # Len(Chain)
  BY <1>1
<1>3. /\ \A i \in 1..m : i \in 1..Len(Chain) /\ i # Len(Chain)
      /\ \A i \in 2..m : i \in 1..m
  BY <1>1, <1>2
<1> HIDE DEF m
<1>4. ASSUME NEW i \in 1..m
      PROVE  /\ Chain[i] \in VmThreads \ {cur}
             /\ cl2[Chain[i]] = caller[Chain[i]] /\ fr2[Chain[i]] = frames[Chain[i]]
             /\ fr2[Chain[i]] > 0
  <2>1. Chain[i] \in VmThreads /\ Chain[i] # cur /\ frames[Chain[i]] > 0
    BY <1>1, <1>3, TheStack
  <2>2. QED
    BY <2>1
<1>5. StackOf(s, Chain[m], cl2, fr2)
  <2>1. StackOf(Chain, cur, caller, frames)
    BY <1>1, BeforeStep
  <2>2. \A i \in 2..m : cl2[Chain[i]] = caller[Chain[i]]
    BY <1>3, <1>4
  <2>3. \A i \in 1..m : fr2[Chain[i]] > 0
    BY <1>4
  <2>4. QED
    BY <1>1, <2>1, <2>2, <2>3, StackPopped
<1>6. \A u \in ToSet(Chain) : u # cur => \E p \in 1..m : Chain[p] = u
  BY <1>1, <1>2, TheStack
<1>7. RunsOf(runs, s, fr2)
  <2>1. \A i \in 2..Len(runs) : runs[i].kind = "callback" => runs[i].min < fr2[Root]
    <3>1. fr2[Root] = frames[Root]
      BY <1>1, VmRunAssumption
    <3>2. QED
      BY <1>1, <3>1, CallbackOnRoot
  <2>2. ASSUME NEW i \in 2..Len(runs), runs[i].kind = "drive"
        PROVE  fr2[runs[i].on] = frames[runs[i].on] /\ \E p \in 1..m : Chain[p] = runs[i].on
    <3>1. runs[i].on # cur /\ runs[i].on \in ToSet(Chain)
      BY <1>1, <2>2, NoDriveOnCur, CallbackOnRoot, TheStack
    <3>2. QED
      BY <1>4, <1>6, <3>1
  <2>3. Len(runs) \in 1..Len(runs) /\ runs \in Seq(RunsOfVm) /\ RunsOf(runs, Chain, frames)
    BY <1>1, TheRuns, BeforeStep
  <2>4. RunsOf(SubSeq(runs, 1, Len(runs)), s, fr2)
    BY <1>1, <2>1, <2>2, <2>3, RunsPopped
  <2>5. QED
    BY <2>3, <2>4, WholePrefix
<1>8. s \in Seq(VmThreads) /\ Len(s) = m /\ \A i \in 1..m : s[i] = Chain[i]
  BY <1>1, <1>2, PrefixOfSeq
<1>9. \A u \in ToSet(Chain) : u # cur => u \in ToSet(s)
  <2> HIDE DEF s
  <2>1. QED
    BY <1>6, <1>8, Members
<1>10. QED
  BY <1>1, <1>5, <1>7, <1>9 DEF m

\* coroutine.yield.
LEMMA YieldStep ==
  ASSUME Habits = {}, VmInv, Yield
  PROVE  VmInv' /\ Chain' = SubSeq(Chain, 1, Len(Chain) - 1) /\ Len(Chain) = 2
<1> DEFINE s == SubSeq(Chain, 1, Len(Chain) - 1)
<1>1. /\ Executing /\ ended = "no" /\ InCoroutine /\ caller[caller[cur]] = NoVm
      /\ genMode' = [genMode EXCEPT ![cur] = FALSE]
      /\ cur' = caller[cur] /\ caller' = [caller EXCEPT ![caller[cur]] = NoVm]
      /\ frames' = frames /\ handlers' = handlers /\ runs' = runs /\ ended' = ended
  BY DEF Yield, Executing, MayYield
<1>2. /\ Len(Chain) \in Nat \ {0} /\ Len(Chain) - 1 \in 1..Len(Chain) /\ Len(Chain) \in 2..Len(Chain)
      /\ caller[cur] = Chain[Len(Chain) - 1] /\ cur # Root
  BY <1>1, InCoroutineAboveRoot, TheStack
<1>3. Len(Chain) = 2
  <2> SUFFICES ASSUME Len(Chain) # 2 PROVE FALSE
    OBVIOUS
  <2>1. Len(Chain) - 1 \in 2..Len(Chain) /\ Len(Chain) - 1 - 1 \in 1..Len(Chain)
    <3>1. Len(Chain) # 1
      BY <1>1, <1>2, TheStack
    <3>2. QED
      BY <1>2, <3>1, OneLess
  <2>2. caller[Chain[Len(Chain) - 1]] = Chain[Len(Chain) - 1 - 1] /\ Chain[Len(Chain) - 1 - 1] \in VmThreads
    BY <1>1, <2>1, TheStack
  <2>3. QED
    BY <1>1, <1>2, <2>2, VmRunAssumption
<1>4. caller[cur] = Root /\ caller[Root] = NoVm /\ Root \in VmThreads
  BY <1>1, <1>2, <1>3, TheStack, VmRunAssumption
<1>5. caller' \in [VmThreads -> VmThreads \cup {NoVm}] /\ caller'[Root] = NoVm
      /\ \A u \in VmThreads \ {cur} : caller'[u] = caller[u]
  BY <1>1, <1>4, BeforeStep
<1>6. /\ StackOf(s, caller[cur], caller', frames)
      /\ RunsOf(runs, s, frames)
      /\ \A u \in ToSet(Chain) : u # cur => u \in ToSet(s)
  BY <1>1, <1>5, PopStack
<1>7. genMode' \in [VmThreads -> BOOLEAN] /\ ~genMode'[cur]
      /\ \A u \in VmThreads \ {cur} : genMode'[u] = genMode[u]
  BY <1>1, BeforeStep
<1>8. \A u \in VmThreads : genMode'[u] => u \in ToSet(s)
  BY <1>1, <1>6, <1>7, BeforeStep
<1>9. VmTypeOK'
  BY <1>1, <1>4, <1>5, <1>7, BeforeStep DEF VmTypeOK
<1>10. \A u \in VmThreads : HandlersOf(handlers'[u], frames'[u])
  BY <1>1, BeforeStep
<1> HIDE DEF s
<1>11. VmInv' /\ Chain' = s
  BY <1>1, <1>6, <1>8, <1>9, <1>10, InvariantFrom
<1>12. QED
  BY <1>3, <1>11 DEF s

\* The VM thread in control gets another number of frames, above those that the
\* native on it, if any, left it with.
LEMMA CurStaysOnStack ==
  ASSUME VmInv, Executing, NEW f \in 1..MaxFrames, NEW fr2,
         fr2[cur] = f, \A u \in VmThreads \ {cur} : fr2[u] = frames[u],
         cur = Root /\ Len(runs) # 1 => MinFrames < f
  PROVE  StackOf(Chain, cur, caller, fr2) /\ RunsOf(runs, Chain, fr2)
<1>1. ended = "no"
  BY DEF Executing
<1>2. f > 0
  OBVIOUS
<1>3. ASSUME NEW i \in 1..Len(Chain) PROVE fr2[Chain[i]] > 0
  <2>1. Chain[i] \in VmThreads /\ frames[Chain[i]] > 0
    BY <1>1, TheStack
  <2>2. CASE Chain[i] = cur
    BY <1>2, <2>2
  <2>3. CASE Chain[i] # cur
    BY <2>1, <2>3
  <2>4. QED
    BY <2>2, <2>3
<1>4. StackOf(Chain, cur, caller, fr2)
  BY <1>1, <1>3, BeforeStep, StackSame
<1>5. ASSUME NEW i \in 2..Len(runs), runs[i].kind = "drive" PROVE fr2[runs[i].on] = frames[runs[i].on]
  <2>1. runs[i].on # cur /\ runs[i].on \in VmThreads
    BY <1>1, <1>5, NoDriveOnCur, CallbackOnRoot, TheStack
  <2>2. QED
    BY <2>1
<1>6. ASSUME NEW i \in 2..Len(runs), runs[i].kind = "callback" PROVE runs[i].min < fr2[Root]
  <2>1. CASE cur # Root
    BY <1>1, <1>6, <2>1, CallbackOnRoot, VmRunAssumption
  <2>2. CASE cur = Root
    <3>1. /\ Len(runs) \in Nat \ {0} /\ i \in 1..Len(runs) /\ Len(runs) # 1
          /\ MinFrames = runs[Len(runs)].min /\ runs[i].min \in Nat /\ MinFrames \in Nat
      BY <1>1, TheRuns DEF MinFrames
    <3>2. MinFrames < f
      BY <2>2, <3>1
    <3>3. runs[i].min <= MinFrames
      <4>1. CASE i = Len(runs)
        BY <3>1, <4>1
      <4>2. CASE i # Len(runs)
        <5>1. i < Len(runs) /\ Len(runs) \in 2..Len(runs)
          BY <3>1, <4>2, BelowTop
        <5>2. runs[Len(runs)].kind = "callback"
          BY <1>1, <2>2, <5>1, NoDriveOnCur, CallbackOnRoot
        <5>3. RunsOf(runs, Chain, frames)
          BY <1>1, BeforeStep
        <5>4. runs[i].min < runs[Len(runs)].min
          BY <5>1, <5>2, <5>3 DEF RunsOf
        <5>5. QED
          BY <3>1, <5>4
      <4>3. QED
        BY <4>1, <4>2
    <3>4. QED
      BY <2>2, <3>1, <3>2, <3>3
  <2>3. QED
    BY <2>1, <2>2
<1>7. RunsOf(runs, Chain, fr2)
  BY <1>1, <1>5, <1>6, BeforeStep, TheStack, RunsSame
<1>8. QED
  BY <1>4, <1>7

\* On the root, the native that runs the VM, if any, waits for a callback.
LEMMA CallbackOfRoot ==
  ASSUME VmInv, Executing, cur = Root, Len(runs) # 1
  PROVE  /\ Len(runs) \in 2..Len(runs) /\ runs[Len(runs)].kind = "callback"
         /\ runs[Len(runs)].on = Root
         /\ MinFrames = runs[Len(runs)].min /\ MinFrames > 0 /\ MinFrames < frames[cur]
<1>1. ended = "no"
  BY DEF Executing
<1>2. Len(runs) \in Nat \ {0} /\ Last(runs) = runs[Len(runs)]
  BY <1>1, TheRuns
<1>3. Len(runs) \in 2..Len(runs)
  BY <1>2, BelowTop
<1>4. runs[Len(runs)].kind # "drive"
  BY <1>3, NoDriveOnCur
<1>5. QED
  BY <1>1, <1>2, <1>3, <1>4, CallbackOnRoot DEF MinFrames

\* A call, by an instruction or by a native.
LEMMA CallStep ==
  ASSUME Habits = {}, VmInv, Call \/ CallBack
  PROVE  VmInv' /\ Chain' = Chain
<1> DEFINE f == frames[cur] + 1
           r == Run("callback", cur, frames[cur])
<1>1. /\ Executing /\ ended = "no" /\ frames[cur] < MaxFrames
      /\ frames' = [frames EXCEPT ![cur] = f]
      /\ cur' = cur /\ caller' = caller /\ genMode' = genMode /\ handlers' = handlers
      /\ ended' = ended
      /\ \/ runs' = runs
         \/ ~InCoroutine /\ Len(runs) < MaxRuns /\ runs' = Append(runs, r)
  BY DEF Call, CallBack, EnterFrame, Executing, MayCallBack
<1>2. f \in 1..MaxFrames /\ f \in 0..MaxFrames /\ frames[cur] \in Nat \ {0} /\ f > frames[cur]
      /\ frames[cur] \in 0..MaxFrames
  BY <1>1, BeforeStep, TheRuns
<1>3. /\ handlers[cur] \in Seq(Handlers) /\ HandlersOf(handlers[cur], frames[cur])
      /\ \A i \in 1..Len(handlers[cur]) : handlers[cur][i].frame \in 1..frames[cur]
  BY TheHandlers
<1>4. HandlersOf(handlers[cur], f)
  BY <1>2, <1>3 DEF HandlersOf
<1> HIDE DEF f
<1>5. handlers' = [handlers EXCEPT ![cur] = handlers[cur]]
  BY <1>1, BeforeStep
<1>6. /\ frames' \in [VmThreads -> 0..MaxFrames] /\ handlers' \in [VmThreads -> Seq(Handlers)]
      /\ frames'[cur] = f /\ \A u \in VmThreads \ {cur} : frames'[u] = frames[u]
      /\ \A u \in VmThreads : HandlersOf(handlers'[u], frames'[u])
  BY <1>1, <1>2, <1>3, <1>4, <1>5, HandlersStep, BeforeStep
<1>7. cur = Root /\ Len(runs) # 1 => MinFrames < f
  <2>1. ASSUME cur = Root, Len(runs) # 1 PROVE MinFrames < f
    <3>1. MinFrames < frames[cur] /\ MinFrames \in Nat /\ f \in Nat
      BY <1>1, <1>2, <2>1, CallbackOfRoot, TheRuns
    <3>2. QED
      BY <1>2, <3>1
  <2>2. QED
    BY <2>1
<1>8. StackOf(Chain, cur, caller, frames') /\ RunsOf(runs, Chain, frames')
  BY <1>1, <1>2, <1>6, <1>7, CurStaysOnStack
<1>9. runs' \in Seq(RunsOfVm) /\ Len(runs') \in 1..MaxRuns /\ RunsOf(runs', Chain, frames')
  <2>1. CASE runs' = runs
    BY <1>8, <2>1, BeforeStep
  <2>2. CASE ~InCoroutine /\ Len(runs) < MaxRuns /\ runs' = Append(runs, r)
    <3>1. cur = Root /\ r \in RunsOfVm
      BY <1>1, <1>2, <2>2, InCoroutineAboveRoot, BeforeStep DEF Run, RunsOfVm
    <3>2. Len(runs) \in Nat \ {0} /\ runs \in Seq(RunsOfVm) /\ Chain \in Seq(VmThreads)
      BY <1>1, TheRuns, TheStack
    <3>3. Append(runs, r) \in Seq(RunsOfVm) /\ Len(Append(runs, r)) = Len(runs) + 1
      BY <3>1, <3>2, AppendToSeq
    <3>4. Len(runs) + 1 \in 1..MaxRuns
      BY <2>2, <3>2, BeforeStep
    <3>5. RunsOf(runs, Chain, frames) /\ \A i \in 2..Len(runs) : runs[i].kind # "drive"
      BY <1>1, <3>1, BeforeStep, NoDriveOnCur
    <3>6. frames'[Root] = frames[Root] + 1
      BY <1>6, <3>1 DEF f
    <3>7. RunsOf(Append(runs, Run("callback", Root, frames[Root])), Chain, frames')
      BY <1>2, <3>1, <3>2, <3>5, <3>6, RunsCallBack
    <3>8. QED
      BY <2>2, <3>1, <3>3, <3>4, <3>7
  <2>3. QED
    BY <1>1, <2>1, <2>2
<1>10. VmTypeOK'
  BY <1>1, <1>6, <1>9, BeforeStep DEF VmTypeOK
<1>11. QED
  BY <1>1, <1>6, <1>8, <1>9, <1>10, BeforeStep, InvariantFrom

\* OP_RETURN, by where it goes.
LEMMA ReturnCases ==
  ASSUME Return
  PROVE  /\ Executing /\ ended = "no" /\ MayReturn
         /\ frames' = [frames EXCEPT ![cur] = frames[cur] - 1]
         /\ handlers' = [handlers EXCEPT ![cur] = KeptHandlers]
         /\ \/ /\ KeepsRunning
               /\ cur' = cur /\ caller' = caller /\ genMode' = genMode /\ runs' = runs /\ ended' = ended
            \/ /\ ~KeepsRunning /\ InCoroutine
               /\ cur' = caller[cur] /\ caller' = [caller EXCEPT ![cur] = NoVm]
               /\ genMode' = [genMode EXCEPT ![cur] = FALSE]
               /\ runs' = runs /\ ended' = ended
            \/ /\ ~KeepsRunning /\ ~InCoroutine /\ Len(runs) = 1
               /\ cur' = cur /\ caller' = caller /\ genMode' = genMode /\ runs' = runs /\ ended' = "ok"
            \/ /\ ~KeepsRunning /\ ~InCoroutine /\ Len(runs) # 1
               /\ cur' = cur /\ caller' = caller /\ genMode' = genMode
               /\ runs' = Front(runs) /\ ended' = ended
BY DEF Return, Executing, EndRun

\* What every return leaves: one frame less, and the handlers below it.
LEMMA ReturnFrames ==
  ASSUME VmInv, Return
  PROVE  /\ frames[cur] - 1 \in 0..MaxFrames
         /\ frames' \in [VmThreads -> 0..MaxFrames] /\ handlers' \in [VmThreads -> Seq(Handlers)]
         /\ frames'[cur] = frames[cur] - 1 /\ \A u \in VmThreads \ {cur} : frames'[u] = frames[u]
         /\ \A u \in VmThreads : HandlersOf(handlers'[u], frames'[u])
<1>1. ended = "no"
  BY ReturnCases
<1>2. frames[cur] \in Nat \ {0} /\ frames[cur] \in 0..MaxFrames /\ cur \in VmThreads
  BY <1>1, TheRuns, BeforeStep
<1>3. frames[cur] - 1 \in 0..MaxFrames /\ frames[cur] > 0
  BY <1>2, BeforeStep
<1>4. KeptHandlers \in Seq(Handlers) /\ HandlersOf(KeptHandlers, frames[cur] - 1)
  BY <1>3, KeptHandlersFit
<1>5. QED
  BY <1>2, <1>3, <1>4, ReturnCases, HandlersStep

\* A return that goes on in the caller, or ends the program.
LEMMA ReturnInside ==
  ASSUME VmInv, Return, KeepsRunning \/ ended' = "ok"
  PROVE  VmInv' /\ (ended' = "no" => Chain' = Chain)
<1>1. /\ Executing /\ ended = "no"
      /\ cur' = cur /\ caller' = caller /\ genMode' = genMode /\ runs' = runs
      /\ \/ KeepsRunning /\ ended' = ended
         \/ ended' = "ok"
  BY ReturnCases
<1>2. /\ frames[cur] - 1 \in 0..MaxFrames
      /\ frames' \in [VmThreads -> 0..MaxFrames] /\ handlers' \in [VmThreads -> Seq(Handlers)]
      /\ frames'[cur] = frames[cur] - 1 /\ \A u \in VmThreads \ {cur} : frames'[u] = frames[u]
      /\ \A u \in VmThreads : HandlersOf(handlers'[u], frames'[u])
  BY ReturnFrames
<1>3. VmTypeOK'
  BY <1>1, <1>2, BeforeStep DEF VmTypeOK
<1>4. ASSUME KeepsRunning PROVE StackOf(Chain, cur, caller, frames') /\ RunsOf(runs, Chain, frames')
  <2>1. frames[cur] - 1 > MinFrames /\ MinFrames \in Nat
    BY <1>1, <1>4, TheRuns DEF KeepsRunning
  <2>2. frames[cur] - 1 \in 1..MaxFrames
    BY <1>2, <2>1, BeforeStep
  <2>3. MinFrames < frames[cur] - 1
    BY <2>1, <2>2
  <2>4. QED
    BY <1>1, <1>2, <2>2, <2>3, CurStaysOnStack
<1>5. QED
  BY <1>1, <1>2, <1>3, <1>4, BeforeStep, InvariantFrom

\* A return to the resumer.
LEMMA ReturnToResumer ==
  ASSUME VmInv, Return, ~KeepsRunning, InCoroutine
  PROVE  VmInv' /\ Chain' = SubSeq(Chain, 1, Len(Chain) - 1)
<1> DEFINE s == SubSeq(Chain, 1, Len(Chain) - 1)
<1>1. /\ Executing /\ ended = "no"
      /\ cur' = caller[cur] /\ caller' = [caller EXCEPT ![cur] = NoVm]
      /\ genMode' = [genMode EXCEPT ![cur] = FALSE]
      /\ runs' = runs /\ ended' = ended
  BY ReturnCases
<1>2. /\ frames' \in [VmThreads -> 0..MaxFrames] /\ handlers' \in [VmThreads -> Seq(Handlers)]
      /\ \A u \in VmThreads \ {cur} : frames'[u] = frames[u]
      /\ \A u \in VmThreads : HandlersOf(handlers'[u], frames'[u])
  BY ReturnFrames
<1>3. /\ caller' \in [VmThreads -> VmThreads \cup {NoVm}]
      /\ \A u \in VmThreads \ {cur} : caller'[u] = caller[u]
      /\ genMode' \in [VmThreads -> BOOLEAN] /\ ~genMode'[cur]
      /\ \A u \in VmThreads \ {cur} : genMode'[u] = genMode[u]
  BY <1>1, BeforeStep
<1>4. caller'[Root] = NoVm /\ caller[cur] \in VmThreads
  <2>1. cur # Root /\ caller[Root] = NoVm /\ Root \in VmThreads
    BY <1>1, InCoroutineAboveRoot, TheStack, VmRunAssumption
  <2>2. QED
    BY <1>3, <2>1, BeforeStep DEF InCoroutine
<1>5. /\ StackOf(s, caller[cur], caller', frames')
      /\ RunsOf(runs, s, frames')
      /\ \A u \in ToSet(Chain) : u # cur => u \in ToSet(s)
  BY <1>1, <1>2, <1>3, <1>4, PopStack
<1>6. \A u \in VmThreads : genMode'[u] => u \in ToSet(s)
  BY <1>1, <1>3, <1>5, BeforeStep
<1>7. VmTypeOK'
  BY <1>1, <1>2, <1>3, <1>4, BeforeStep DEF VmTypeOK
<1> HIDE DEF s
<1>8. VmInv' /\ Chain' = s
  BY <1>1, <1>2, <1>5, <1>6, <1>7, InvariantFrom
<1>9. QED
  BY <1>8 DEF s

\* A return that answers the callback of a native.
LEMMA ReturnToNative ==
  ASSUME VmInv, Return, ~KeepsRunning, ~InCoroutine, Len(runs) # 1
  PROVE  /\ VmInv' /\ Chain' = Chain /\ cur = Root
         /\ frames[cur] - 1 = MinFrames /\ MinFrames > 0
         /\ runs' = SubSeq(runs, 1, Len(runs) - 1)
<1>1. /\ Executing /\ ended = "no"
      /\ cur' = cur /\ caller' = caller /\ genMode' = genMode
      /\ runs' = Front(runs) /\ ended' = ended
  BY ReturnCases
<1>2. /\ frames[cur] - 1 \in 0..MaxFrames
      /\ frames' \in [VmThreads -> 0..MaxFrames] /\ handlers' \in [VmThreads -> Seq(Handlers)]
      /\ frames'[cur] = frames[cur] - 1 /\ \A u \in VmThreads \ {cur} : frames'[u] = frames[u]
      /\ \A u \in VmThreads : HandlersOf(handlers'[u], frames'[u])
  BY ReturnFrames
<1>3. cur = Root
  BY <1>1, InCoroutineAboveRoot
<1>4. /\ Len(runs) \in 2..Len(runs) /\ runs[Len(runs)].kind = "callback"
      /\ MinFrames = runs[Len(runs)].min /\ MinFrames > 0 /\ MinFrames < frames[cur]
      /\ MinFrames \in Nat
  BY <1>1, <1>3, CallbackOfRoot, TheRuns
<1>5. frames[cur] - 1 = MinFrames
  <2>1. ~(frames[cur] - 1 > MinFrames) /\ frames[cur] \in Nat
    BY <1>1, TheRuns DEF KeepsRunning
  <2>2. QED
    BY <1>4, <2>1
<1>6. /\ Len(runs) \in Nat \ {0} /\ runs \in Seq(RunsOfVm)
      /\ Chain \in Seq(VmThreads) /\ Len(Chain) \in 1..Len(Chain)
      /\ Len(runs) - 1 \in 1..Len(runs) /\ Len(runs) - 1 \in 0..Len(runs)
      /\ \A i \in 2..(Len(runs) - 1) : i \in 2..Len(runs)
  BY <1>1, TheRuns, TheStack, OneLess
<1>7. runs' = SubSeq(runs, 1, Len(runs) - 1)
  BY <1>1, <1>6, EmptySeq, FrontOfSeq
<1>8. runs' \in Seq(RunsOfVm) /\ Len(runs') = Len(runs) - 1
  BY <1>6, <1>7, PrefixOfSeq
<1>9. Len(runs') \in 1..MaxRuns
  <2>1. \A k \in 1..MaxRuns : k # 1 => k - 1 \in 1..MaxRuns
    BY BeforeStep, OneLess
  <2>2. QED
    BY <1>8, <2>1, BeforeStep
<1>10. VmTypeOK'
  BY <1>1, <1>2, <1>8, <1>9, BeforeStep DEF VmTypeOK
<1>11. ASSUME NEW i \in 1..Len(Chain) PROVE caller[Chain[i]] = caller[Chain[i]] /\ frames'[Chain[i]] > 0
  <2>1. Chain[i] \in VmThreads /\ frames[Chain[i]] > 0
    BY <1>1, TheStack
  <2>2. CASE Chain[i] = cur
    BY <1>2, <1>4, <1>5, <2>2
  <2>3. CASE Chain[i] # cur
    BY <1>2, <2>1, <2>3
  <2>4. QED
    BY <2>2, <2>3
<1>12. StackOf(Chain, cur, caller, frames')
  BY <1>1, <1>11, BeforeStep, StackSame
<1>13. RunsOf(runs', Chain, frames')
  <2>1. RunsOf(runs, Chain, frames)
    BY <1>1, BeforeStep
  <2>2. ASSUME NEW i \in 2..(Len(runs) - 1) PROVE runs[i].kind # "drive" /\ runs[i].min < frames'[Root]
    <3>1. i \in 2..Len(runs) /\ i < Len(runs)
      BY <1>6
    <3>2. runs[i].kind # "drive"
      BY <1>1, <1>3, <3>1, NoDriveOnCur
    <3>3. runs[i].min < runs[Len(runs)].min
      BY <1>4, <2>1, <3>1 DEF RunsOf
    <3>4. QED
      BY <1>2, <1>3, <1>4, <1>5, <3>2, <3>3
  <2>3. RunsOf(SubSeq(runs, 1, Len(runs) - 1), SubSeq(Chain, 1, Len(Chain)), frames')
    BY <1>6, <2>1, <2>2, RunsPopped
  <2>4. QED
    BY <1>6, <1>7, <2>3, WholePrefix
<1>14. VmInv' /\ Chain' = Chain
  BY <1>1, <1>2, <1>10, <1>12, <1>13, BeforeStep, InvariantFrom
<1>15. QED
  BY <1>3, <1>4, <1>5, <1>7, <1>14

\* OP_RETURN.
LEMMA ReturnStep ==
  ASSUME VmInv, Return
  PROVE  VmInv'
BY ReturnCases, ReturnInside, ReturnToResumer, ReturnToNative

\* OP_TRY and OP_END_TRY.
LEMMA TryStep ==
  ASSUME VmInv, Try \/ EndTry
  PROVE  VmInv' /\ Chain' = Chain
<1> DEFINE g == handlers[cur]
           e == [frame |-> frames[cur], inExcept |-> FALSE]
<1>1. /\ ended = "no" /\ cur' = cur /\ frames' = frames /\ caller' = caller
      /\ genMode' = genMode /\ runs' = runs /\ ended' = ended
      /\ \/ Len(g) < MaxTries /\ handlers' = [handlers EXCEPT ![cur] = Append(g, e)]
         \/ g # <<>> /\ handlers' = [handlers EXCEPT ![cur] = Front(g)]
  BY DEF Try, EndTry, Executing
<1>2. /\ g \in Seq(Handlers) /\ HandlersOf(g, frames[cur]) /\ cur \in VmThreads
      /\ frames[cur] \in 0..MaxFrames /\ MaxFrames \in Nat /\ frames[cur] \in Nat \ {0}
      /\ Len(g) \in Nat
      /\ \A i \in 1..Len(g) : g[i].frame \in 1..frames[cur]
  BY <1>1, TheHandlers, TheRuns
<1>3. e \in Handlers /\ e.frame = frames[cur] /\ frames[cur] <= frames[cur]
  BY <1>2 DEF Handlers
<1> HIDE DEF g, e
<1>4. frames' = [frames EXCEPT ![cur] = frames[cur]]
  BY <1>1, BeforeStep
<1>5. \E h \in Seq(Handlers) : HandlersOf(h, frames[cur]) /\ handlers' = [handlers EXCEPT ![cur] = h]
  <2>1. CASE Len(g) < MaxTries /\ handlers' = [handlers EXCEPT ![cur] = Append(g, e)]
    BY <1>2, <1>3, <2>1, HandlersPushed
  <2>2. CASE g # <<>> /\ handlers' = [handlers EXCEPT ![cur] = Front(g)]
    <3>1. Front(g) = SubSeq(g, 1, Len(g) - 1) /\ Len(g) - 1 \in 0..Len(g)
      BY <1>2, <2>2, FrontOfSeq
    <3>2. \A i \in 1..(Len(g) - 1) : g[i].frame <= frames[cur]
      <4>1. \A i \in 1..(Len(g) - 1) : i \in 1..Len(g)
        BY <1>2
      <4>2. QED
        BY <1>2, <4>1
    <3>3. SubSeq(g, 1, Len(g) - 1) \in Seq(Handlers)
          /\ HandlersOf(SubSeq(g, 1, Len(g) - 1), frames[cur])
      BY <1>2, <3>1, <3>2, HandlersBelow
    <3>4. QED
      BY <2>2, <3>1, <3>3
  <2>3. QED
    BY <1>1, <2>1, <2>2
<1>6. /\ handlers' \in [VmThreads -> Seq(Handlers)]
      /\ \A u \in VmThreads : HandlersOf(handlers'[u], frames'[u])
  BY <1>2, <1>4, <1>5, HandlersStep
<1>7. VmTypeOK'
  BY <1>1, <1>6, BeforeStep DEF VmTypeOK
<1>8. QED
  BY <1>1, <1>6, <1>7, BeforeStep, InvariantFrom

\* An exception that a handler of the VM thread in control catches.
LEMMA ThrowStep ==
  ASSUME Habits = {}, VmInv, Throw
  PROVE  VmInv' /\ Chain' = Chain
<1> DEFINE i == Max(Catchers)
           f == handlers[cur][i].frame
           h == Append(SubSeq(handlers[cur], 1, i - 1), [frame |-> f, inExcept |-> TRUE])
<1>1. /\ Executing /\ ended = "no" /\ Catchers # {} /\ MayCatchAt(f)
      /\ frames' = [frames EXCEPT ![cur] = f] /\ handlers' = [handlers EXCEPT ![cur] = h]
      /\ cur' = cur /\ caller' = caller /\ genMode' = genMode /\ runs' = runs /\ ended' = ended
  BY DEF Throw, Executing
<1>2. f \in 1..frames[cur] /\ f \in 1..MaxFrames /\ h \in Seq(Handlers) /\ HandlersOf(h, f)
  BY <1>1, CatchingHandler
<1> HIDE DEF i, f, h
<1>3. f \in 0..MaxFrames /\ cur \in VmThreads
  BY <1>2, BeforeStep
<1>4. /\ frames' \in [VmThreads -> 0..MaxFrames] /\ handlers' \in [VmThreads -> Seq(Handlers)]
      /\ frames'[cur] = f /\ \A u \in VmThreads \ {cur} : frames'[u] = frames[u]
      /\ \A u \in VmThreads : HandlersOf(handlers'[u], frames'[u])
  BY <1>1, <1>2, <1>3, HandlersStep
<1>5. cur = Root /\ Len(runs) # 1 => MinFrames < f
  <2>1. ASSUME cur = Root, Len(runs) # 1 PROVE Last(runs).on = cur
    BY <1>1, <2>1, CallbackOfRoot, TheRuns
  <2>2. QED
    BY <1>1, <2>1 DEF MayCatchAt
<1>6. StackOf(Chain, cur, caller, frames') /\ RunsOf(runs, Chain, frames')
  BY <1>1, <1>2, <1>4, <1>5, CurStaysOnStack
<1>7. VmTypeOK'
  BY <1>1, <1>4, BeforeStep DEF VmTypeOK
<1>8. QED
  BY <1>1, <1>4, <1>6, <1>7, BeforeStep, InvariantFrom

\* An uncaught exception.
LEMMA FailStep ==
  ASSUME VmInv, Fail
  PROVE  VmInv'
<1>1. /\ ended = "no" /\ frames' = [frames EXCEPT ![cur] = 0]
      /\ handlers' = [handlers EXCEPT ![cur] = <<>>]
      /\ cur' = cur /\ caller' = caller /\ genMode' = genMode
      /\ runs' = SubSeq(runs, 1, 1) /\ ended' = "error"
  BY DEF Fail, Executing
<1>2. 0 \in 0..MaxFrames /\ <<>> \in Seq(Handlers) /\ HandlersOf(<<>>, 0) /\ cur \in VmThreads
  BY BeforeStep, VmRunAssumption DEF HandlersOf
<1>3. /\ frames' \in [VmThreads -> 0..MaxFrames] /\ handlers' \in [VmThreads -> Seq(Handlers)]
      /\ \A u \in VmThreads : HandlersOf(handlers'[u], frames'[u])
  BY <1>1, <1>2, HandlersStep
<1>4. runs' \in Seq(RunsOfVm) /\ Len(runs') \in 1..MaxRuns
  <2>1. runs \in Seq(RunsOfVm) /\ 1 \in 0..Len(runs) /\ 1 \in 1..MaxRuns
    BY <1>1, TheRuns, VmRunAssumption
  <2>2. QED
    BY <1>1, <2>1, PrefixOfSeq
<1>5. VmTypeOK'
  BY <1>1, <1>3, <1>4, BeforeStep DEF VmTypeOK
<1>6. QED
  BY <1>1, <1>3, <1>5, InvariantFrom

\* Every step keeps the invariant.
LEMMA NextInvariant ==
  ASSUME Habits = {}, VmInv, [VmNext]_vmVars
  PROVE  VmInv'
<1>1. CASE \E v \in VmThreads : NewVmThread(v)
  BY <1>1, NewVmThreadStep
<1>2. CASE \E v \in VmThreads : Resume(v)
  BY <1>2, ResumeStep
<1>3. CASE \E v \in VmThreads : GenNext(v) \/ Drive(v)
  BY <1>3, IterateStep
<1>4. CASE StopRun
  BY <1>4, StopRunStep
<1>5. CASE Yield
  BY <1>5, YieldStep
<1>6. CASE Call \/ CallBack
  BY <1>6, CallStep
<1>7. CASE Return
  BY <1>7, ReturnStep
<1>8. CASE Try \/ EndTry
  BY <1>8, TryStep
<1>9. CASE Throw
  BY <1>9, ThrowStep
<1>10. CASE Fail
  BY <1>10, FailStep
<1>11. CASE UNCHANGED vmVars
  <2>1. /\ cur' = cur /\ frames' = frames /\ caller' = caller /\ genMode' = genMode
        /\ handlers' = handlers /\ runs' = runs /\ ended' = ended
    BY <1>11 DEF vmVars
  <2>2. VmTypeOK'
    BY <2>1, BeforeStep DEF VmTypeOK
  <2>3. QED
    BY <2>1, <2>2, BeforeStep, InvariantFrom
<1>12. QED
  BY <1>1, <1>2, <1>3, <1>4, <1>5, <1>6, <1>7, <1>8, <1>9, <1>10, <1>11 DEF VmNext

----------------------------------------------------------------------------
(* Theorems. *)

\* In programs that keep to the plain use of coroutines, generators and callbacks,
\* the VM threads from the root to the one that executes form a stack along the
\* caller links, and the vm_run calls of natives are nested in it.
THEOREM StackInvariant ==
  ASSUME Habits = {}
  PROVE  VmSpec => []VmInv
<1>1. VmInv /\ [VmNext]_vmVars => VmInv'
  BY NextInvariant
<1>2. QED
  BY <1>1, InitInvariant, PTL DEF VmSpec

\* The variables stay in their types: no counter leaves its bound.
THEOREM VmTypeCorrect ==
  ASSUME Habits = {}
  PROVE  VmSpec => []VmTypeOK
<1>1. VmInv => VmTypeOK
  BY DEF VmInv
<1>2. QED
  BY <1>1, StackInvariant, PTL

\* A native that runs the VM for a callback (vm_run with a min_frame_count) finds the
\* callback's frame in place until it gets its answer.
THEOREM CallbacksAreAnswered ==
  ASSUME Habits = {}
  PROVE  VmSpec => []NativesGetTheirAnswer
<1>1. VmInv => NativesGetTheirAnswer
  <2> SUFFICES ASSUME VmInv, ended = "no", NEW i \in DOMAIN runs, runs[i].kind = "callback"
               PROVE  frames[runs[i].on] > runs[i].min
    BY DEF NativesGetTheirAnswer
  <2>1. RunsOf(runs, Chain, frames) /\ DOMAIN runs = 1..Len(runs) /\ Len(runs) \in Nat \ {0}
    BY BeforeStep, TheRuns
  <2>2. i # 1
    BY <2>1 DEF RunsOf, Run
  <2>3. i \in 2..Len(runs)
    BY <2>1, <2>2
  <2>4. runs[i].on = Root /\ runs[i].min < frames[Root]
    BY <2>3, CallbackOnRoot
  <2>5. runs[i].min \in Nat /\ frames[Root] \in Nat
    BY <2>1, TheRuns
  <2>6. QED
    BY <2>4, <2>5
<1>2. QED
  BY <1>1, StackInvariant, PTL

\* generator_mode is on only for a generator on the stack: what a yield answers is
\* what the gen_next or resume before it waits for.
THEOREM ModeIsOfIterator ==
  ASSUME Habits = {}
  PROVE  VmSpec => []ModeMeansIterating
<1>1. VmInv => ModeMeansIterating
  BY DEF VmInv, ModeMeansIterating
<1>2. QED
  BY <1>1, StackInvariant, PTL

\* discard_handlers_for_frame_return and handle_exception leave no handler of a
\* function that has ended.
THEOREM HandlersHaveFrames ==
  ASSUME Habits = {}
  PROVE  VmSpec => []HandlersFitFrames
<1>1. VmInv => HandlersFitFrames
  <2> SUFFICES ASSUME VmInv, NEW v \in VmThreads
               PROVE  /\ Len(handlers[v]) <= MaxTries
                      /\ \A i \in DOMAIN handlers[v] : handlers[v][i].frame <= frames[v]
    BY DEF HandlersFitFrames
  <2>1. handlers[v] \in Seq(Handlers) /\ HandlersOf(handlers[v], frames[v])
    BY BeforeStep
  <2>2. DOMAIN handlers[v] = 1..Len(handlers[v])
    BY <2>1, LenProperties
  <2>3. QED
    BY <2>1, <2>2 DEF HandlersOf
<1>2. QED
  BY <1>1, StackInvariant, PTL

----------------------------------------------------------------------------
(* The refinement of VmRunSpec. *)

\* The sequence operators of VmRunSpec are those of VmRun.
LEMMA SameOperators ==
  \A s : /\ ControlStack!Last(s) = Last(s)
         /\ ControlStack!Front(s) = Front(s)
         /\ ControlStack!ToSet(s) = ToSet(s)
BY DEF ControlStack!Last, ControlStack!Front, ControlStack!ToSet, Last, Front, ToSet

\* The control stack, as VmRunSpec sees it.
LEMMA AbstractView ==
  ASSUME VmInv, ended = "no"
  PROVE  /\ ControlStack!Running /\ Active = Chain /\ ControlStack!Top = cur
         /\ Natives = <<>> <=> Len(runs) = 1
         /\ Len(runs) # 1 => Last(Natives) = runs[Len(runs)] /\ MinFrames = runs[Len(runs)].min
         /\ \A level : ControlStack!NativeBelow(level) <=>
              Len(runs) # 1 /\ runs[Len(runs)].on = cur /\ MinFrames >= level
<1>1. ControlStack!Running /\ Active = Chain
  BY DEF ControlStack!Running, Active
<1>2. Chain # <<>>
  BY TheStack, EmptySeq
<1>3. Last(Chain) = cur
  BY <1>2, TheStack, FrontOfSeq
<1>4. ControlStack!Top = cur
  BY <1>1, <1>3, SameOperators DEF ControlStack!Top
<1>5. /\ Natives = <<>> <=> Len(runs) = 1
      /\ Len(runs) # 1 => Last(Natives) = runs[Len(runs)]
  BY TheRuns, TailOfSeq DEF Natives
<1>6. MinFrames = runs[Len(runs)].min
  BY TheRuns DEF MinFrames
<1>7. \A level : ControlStack!NativeBelow(level) <=>
        Len(runs) # 1 /\ runs[Len(runs)].on = cur /\ MinFrames >= level
  BY <1>4, <1>5, <1>6, SameOperators DEF ControlStack!NativeBelow
<1>8. QED
  BY <1>1, <1>4, <1>5, <1>6, <1>7

\* In a coroutine, no native waits on the VM thread in control; on the root, the
\* first vm_run runs to the end of the program.
LEMMA NoNativeInCoroutine ==
  ASSUME VmInv, Executing, InCoroutine
  PROVE  \A level : ~ControlStack!NativeBelow(level)
<1>1. ended = "no" /\ cur # Root
  BY InCoroutineAboveRoot DEF Executing
<1>2. SUFFICES ASSUME Len(runs) # 1, runs[Len(runs)].on = cur PROVE FALSE
  BY <1>1, AbstractView
<1>3. Len(runs) \in 2..Len(runs)
  BY <1>1, <1>2, TheRuns, BelowTop
<1>4. QED
  BY <1>1, <1>2, <1>3, NoDriveOnCur, CallbackOnRoot

\* With no native, the min_frame_count is that of the outermost vm_run.
LEMMA BaseOfProgram ==
  ASSUME VmInv, ended = "no", Len(runs) = 1
  PROVE  MinFrames = Base
<1>1. RunsOf(runs, Chain, frames)
  BY BeforeStep
<1>2. QED
  BY <1>1, TheRuns DEF RunsOf, Run, MinFrames

\* Steps that push.
LEMMA PushRefines ==
  ASSUME VmInv, NEW v \in VmThreads, NewVmThread(v) \/ Resume(v) \/ GenNext(v) \/ Drive(v)
  PROVE  ControlStack!Create(v) \/ ControlStack!Resume(v) \/ ControlStack!Drive(v)
<1>1. ended = "no" /\ ended' = "no"
  BY DEF NewVmThread, Resume, GenNext, Drive, Iterate, Executing
<1>2. Active = Chain /\ Active' = Chain' /\ ControlStack!Top = cur /\ ControlStack!Running
  BY <1>1, AbstractView DEF Active
<1>3. CASE NewVmThread(v)
  <2>1. /\ frames[v] = 0 /\ v \notin ToSet(Chain) /\ frames' = [frames EXCEPT ![v] = 1]
        /\ runs' = runs /\ ended' = ended
    BY <1>3 DEF NewVmThread
  <2>2. Active' = Active
    BY <1>2, <1>3, NewVmThreadStep
  <2>3. ControlStack!Create(v)
    BY <1>2, <2>1, <2>2, SameOperators DEF ControlStack!Create, Natives
  <2>4. QED
    BY <2>3
<1>4. CASE Resume(v) \/ GenNext(v) \/ Drive(v)
  <2>1. /\ frames[v] # 0 /\ v \notin ToSet(Chain)
        /\ frames' = frames /\ ended' = ended
        /\ \/ runs' = runs
           \/ runs' = Append(runs, Run("drive", cur, frames[cur]))
    BY <1>4 DEF Resume, GenNext, Drive, Iterate, MayResume, SwitchInto
  <2>2. Active' = Append(Active, v)
    BY <1>2, <1>4, ResumeStep, IterateStep
  <2>3. frames[v] > 0
    BY <2>1, BeforeStep
  <2>4. ControlStack!Push(v)
    BY <1>2, <2>1, <2>2, <2>3, SameOperators DEF ControlStack!Push
  <2>5. CASE runs' = runs
    BY <2>4, <2>5 DEF ControlStack!Resume, Natives
  <2>6. CASE runs' = Append(runs, Run("drive", cur, frames[cur]))
    <3>1. Run("drive", cur, frames[cur]) \in RunsOfVm
      BY BeforeStep DEF Run, RunsOfVm
    <3>2. Natives' = Append(Natives, Run("drive", cur, frames[cur]))
      BY <1>1, <2>6, <3>1, TheRuns, TailOfSeq DEF Natives
    <3>3. QED
      BY <1>2, <2>4, <3>2 DEF ControlStack!Drive, Run
  <2>7. QED
    BY <2>1, <2>5, <2>6
<1>5. QED
  BY <1>3, <1>4

\* Steps that end a drive, or pop.
LEMMA StopRunRefines ==
  ASSUME VmInv, StopRun
  PROVE  ControlStack!DriveDone
<1>1. ended = "no" /\ ended' = ended /\ frames' = frames
  BY DEF StopRun
<1>2. /\ Chain' = Chain /\ runs' = SubSeq(runs, 1, Len(runs) - 1) /\ Len(runs) \in 2..Len(runs)
      /\ runs[Len(runs)].kind = "drive" /\ runs[Len(runs)].on = cur
  BY StopRunStep
<1>3. Len(runs) # 1
  BY <1>2
<1>4. /\ ControlStack!Running /\ ControlStack!Top = cur
      /\ Natives # <<>> /\ Last(Natives) = runs[Len(runs)]
  BY <1>1, <1>3, AbstractView
<1>5. Natives' = Front(Natives)
  BY <1>1, <1>2, <1>3, TheRuns, TailOfSeq DEF Natives
<1>6. Active' = Active
  BY <1>1, <1>2 DEF Active
<1>7. QED
  BY <1>1, <1>2, <1>4, <1>5, <1>6, SameOperators DEF ControlStack!DriveDone

\* coroutine.yield takes the top off the stack.
LEMMA YieldRefines ==
  ASSUME Habits = {}, VmInv, Yield
  PROVE  ControlStack!Yield
<1>1. Executing /\ InCoroutine /\ ended = "no" /\ ended' = ended /\ frames' = frames /\ runs' = runs
  BY DEF Yield, Executing
<1>2. Chain' = SubSeq(Chain, 1, Len(Chain) - 1) /\ Len(Chain) = 2
  BY YieldStep
<1>3. Active = Chain /\ Active' = Chain' /\ ControlStack!Running
  BY <1>1, AbstractView DEF Active
<1>4. Chain' = Front(Chain)
  BY <1>2 DEF Front
<1>5. ~ControlStack!NativeBelow(0)
  BY <1>1, NoNativeInCoroutine
<1>6. Len(Active) > 1
  BY <1>2, <1>3
<1>7. QED
  BY <1>1, <1>3, <1>4, <1>5, <1>6, SameOperators DEF ControlStack!Yield, Natives

\* Calls.
LEMMA CallRefines ==
  ASSUME Habits = {}, VmInv, Call \/ CallBack
  PROVE  ControlStack!Call \/ ControlStack!CallBack
<1> DEFINE r == Run("callback", cur, frames[cur])
<1>1. /\ ended = "no" /\ ended' = ended /\ frames' = [frames EXCEPT ![cur] = @ + 1]
      /\ runs' = runs \/ runs' = Append(runs, r)
  BY DEF Call, CallBack, Executing, EnterFrame
<1>2. Active' = Active
  BY <1>1, CallStep DEF Active
<1>3. ControlStack!Running /\ ControlStack!Top = cur
  BY <1>1, AbstractView
<1>4. ControlStack!Enter
  BY <1>1, <1>3 DEF ControlStack!Enter
<1>5. CASE runs' = runs
  BY <1>1, <1>2, <1>3, <1>4, <1>5 DEF ControlStack!Call, Natives
<1>6. CASE runs' = Append(runs, r)
  <2>1. r \in RunsOfVm
    BY BeforeStep DEF Run, RunsOfVm
  <2>2. Natives' = Append(Natives, r)
    BY <1>1, <1>6, <2>1, TheRuns, TailOfSeq DEF Natives
  <2>3. QED
    BY <1>1, <1>2, <1>3, <1>4, <2>2 DEF ControlStack!CallBack, Run
<1>7. QED
  BY <1>1, <1>5, <1>6

\* A return inside the program or a callback, out of a VM thread, and to a native.
LEMMA ReturnRefines ==
  ASSUME Habits = {}, Base = 0, VmInv, Return
  PROVE  ControlStack!Return \/ ControlStack!Finish
<1>1. /\ Executing /\ ended = "no" /\ MayReturn /\ ControlStack!Running
      /\ Active = Chain /\ ControlStack!Top = cur
      /\ frames' = [frames EXCEPT ![cur] = frames[cur] - 1]
      /\ frames[cur] \in Nat \ {0} /\ MinFrames \in Nat
      /\ Len(Chain) \in Nat \ {0}
  BY ReturnCases, AbstractView, TheRuns, TheStack
<1>2. CASE KeepsRunning
  <2>1. runs' = runs /\ ended' = ended /\ Chain' = Chain
    BY <1>1, <1>2, ReturnCases, ReturnInside
  <2>2. frames[cur] - 1 > MinFrames
    BY <1>2 DEF KeepsRunning
  <2>3. frames[cur] > 1 /\ ~(MinFrames >= frames[cur] - 1)
    BY <1>1, <2>2
  <2>4. ~ControlStack!NativeBelow(frames[cur] - 1)
    BY <1>1, <2>3, AbstractView
  <2>5. Active' = Active
    BY <1>1, <2>1 DEF Active
  <2>6. ControlStack!Return
    BY <1>1, <2>1, <2>3, <2>4, <2>5, SameOperators DEF ControlStack!Return, Natives
  <2>7. QED
    BY <2>6
<1>3. CASE ~KeepsRunning /\ InCoroutine
  <2>1. runs' = runs /\ ended' = ended /\ Chain' = SubSeq(Chain, 1, Len(Chain) - 1)
    BY <1>1, <1>3, ReturnCases, ReturnToResumer
  <2>2. Len(Chain) > 1 /\ ~ControlStack!NativeBelow(0)
    BY <1>1, <1>3, InCoroutineAboveRoot, NoNativeInCoroutine
  <2>3. frames[cur] = 1
    <3>1. CASE Len(runs) = 1
      <4>1. MinFrames = 0
        BY <1>1, <3>1, BaseOfProgram
      <4>2. QED
        BY <1>1, <1>3, <4>1 DEF KeepsRunning
    <3>2. CASE Len(runs) # 1
      <4>1. Len(runs) > 1 /\ Last(runs) = runs[Len(runs)]
        BY <1>1, <3>2, TheRuns, BelowTop
      <4>2. Len(runs) \in 2..Len(runs) /\ cur # Root
        BY <1>1, <1>3, <3>2, TheRuns, BelowTop, InCoroutineAboveRoot
      <4>3. Last(runs).on # cur
        BY <1>1, <4>1, <4>2, NoDriveOnCur, CallbackOnRoot
      <4>4. QED
        BY <1>1, <1>3, <4>1, <4>3 DEF MayReturn
    <3>3. QED
      BY <3>1, <3>2
  <2>4. Active' = Front(Active)
    BY <1>1, <2>1 DEF Active, Front
  <2>5. ended' = IF Len(Active) = 1 THEN "ok" ELSE ended
    <3>1. \A k \in Nat : k > 1 => k # 1
      OBVIOUS
    <3>2. Len(Chain) # 1
      BY <1>1, <2>2, <3>1
    <3>3. QED
      BY <1>1, <2>1, <3>2
  <2>6. frames' = [frames EXCEPT ![cur] = 0]
    BY <1>1, <2>3
  <2>7. ControlStack!Finish
    BY <1>1, <2>1, <2>2, <2>3, <2>4, <2>5, <2>6, SameOperators DEF ControlStack!Finish, Natives
  <2>8. QED
    BY <2>7
<1>4. CASE ~KeepsRunning /\ ~InCoroutine /\ Len(runs) = 1
  <2>1. runs' = runs /\ ended' = "ok"
    BY <1>4, ReturnCases
  <2>2. MinFrames = 0
    BY <1>1, <1>4, BaseOfProgram
  <2>3. frames[cur] = 1
    BY <1>1, <1>4, <2>2 DEF KeepsRunning
  <2>4. ~ControlStack!NativeBelow(0)
    BY <1>1, <1>4, AbstractView
  <2>5. Len(Chain) = 1
    <3>1. ~(Len(Chain) > 1)
      BY <1>1, <1>4, InCoroutineAboveRoot
    <3>2. QED
      BY <1>1, <3>1, BelowTop
  <2>6. Active' = Front(Active)
    <3>1. Active' = <<>>
      BY <2>1 DEF Active
    <3>2. Front(Chain) = <<>>
      <4>1. Chain \in Seq(VmThreads) /\ Chain # <<>>
        BY <1>1, <2>5, TheStack, EmptySeq
      <4>2. Front(Chain) = SubSeq(Chain, 1, Len(Chain) - 1) /\ 0 \in 0..Len(Chain)
            /\ Len(Chain) - 1 = 0
        BY <2>5, <4>1, FrontOfSeq
      <4>3. SubSeq(Chain, 1, 0) \in Seq(VmThreads) /\ Len(SubSeq(Chain, 1, 0)) = 0
        BY <4>1, <4>2, PrefixOfSeq
      <4>4. QED
        BY <4>2, <4>3, EmptySeq
    <3>3. QED
      BY <1>1, <3>1, <3>2
  <2>7. frames' = [frames EXCEPT ![cur] = 0]
    BY <1>1, <2>3
  <2>8. ControlStack!Finish
    BY <1>1, <2>1, <2>3, <2>4, <2>5, <2>6, <2>7, SameOperators DEF ControlStack!Finish, Natives
  <2>9. QED
    BY <2>8
<1>5. CASE ~KeepsRunning /\ ~InCoroutine /\ Len(runs) # 1
  <2>1. /\ Chain' = Chain /\ ended' = ended /\ cur = Root
        /\ frames[cur] - 1 = MinFrames /\ MinFrames > 0
        /\ runs' = SubSeq(runs, 1, Len(runs) - 1)
    BY <1>5, ReturnCases, ReturnToNative
  <2>2. Natives' = Front(Natives)
    BY <1>1, <1>5, <2>1, TheRuns, TailOfSeq DEF Natives
  <2>3. ControlStack!NativeBelow(frames[cur] - 1)
    <3>1. runs[Len(runs)].on = cur /\ MinFrames >= frames[cur] - 1
      BY <1>1, <1>5, <2>1, CallbackOfRoot
    <3>2. QED
      BY <1>1, <1>5, <3>1, AbstractView
  <2>4. frames[cur] > 1
    BY <1>1, <2>1
  <2>5. Active' = Active
    BY <1>1, <2>1 DEF Active
  <2>6. ControlStack!Return
    BY <1>1, <2>1, <2>2, <2>3, <2>4, <2>5, SameOperators DEF ControlStack!Return
  <2>7. QED
    BY <2>6
<1>6. QED
  BY <1>2, <1>3, <1>4, <1>5

\* Exceptions.
LEMMA ThrowRefines ==
  ASSUME Habits = {}, VmInv, Throw
  PROVE  \E level \in 1..frames[ControlStack!Top] : ControlStack!Catch(level)
<1> DEFINE f == handlers[cur][Max(Catchers)].frame
<1>1. /\ Executing /\ ended = "no" /\ Catchers # {} /\ MayCatchAt(f)
      /\ frames' = [frames EXCEPT ![cur] = f] /\ runs' = runs /\ ended' = ended
  BY DEF Throw, Executing
<1>2. f \in 1..frames[cur]
  BY <1>1, CatchingHandler
<1> HIDE DEF f
<1>3. ControlStack!Running /\ ControlStack!Top = cur
  BY <1>1, AbstractView
<1>4. Active' = Active
  BY <1>1, ThrowStep DEF Active
<1>5. ~ControlStack!NativeBelow(f)
  <2>1. Last(runs).on = cur => MinFrames < f
    BY <1>1 DEF MayCatchAt
  <2>2. Last(runs) = runs[Len(runs)] /\ MinFrames \in Nat /\ f \in Nat
    BY <1>1, <1>2, TheRuns
  <2>3. ~(runs[Len(runs)].on = cur /\ MinFrames >= f)
    BY <2>1, <2>2
  <2>4. QED
    BY <1>1, <2>3, AbstractView
<1>6. ControlStack!Catch(f)
  BY <1>1, <1>2, <1>3, <1>4, <1>5 DEF ControlStack!Catch, Natives
<1>7. QED
  BY <1>2, <1>3, <1>6

\* An uncaught exception.
LEMMA FailRefines ==
  ASSUME VmInv, Fail
  PROVE  ControlStack!Fail
<1>1. /\ ended = "no" /\ frames' = [frames EXCEPT ![cur] = 0]
      /\ runs' = SubSeq(runs, 1, 1) /\ ended' = "error"
  BY DEF Fail, Executing
<1>2. ControlStack!Running /\ ControlStack!Top = cur
  BY <1>1, AbstractView
<1>3. Active' = <<>>
  BY <1>1 DEF Active
<1>4. Natives' = <<>>
  BY <1>1, TheRuns, TailOfSeq DEF Natives
<1>5. QED
  BY <1>1, <1>2, <1>3, <1>4 DEF ControlStack!Fail

\* Every step is a step of VmRunSpec, or leaves what it shows alone.
LEMMA StepRefines ==
  ASSUME Habits = {}, Base = 0, VmInv, [VmNext]_vmVars
  PROVE  [ControlStack!SpecNext]_(ControlStack!specVars)
<1>1. CASE \E v \in VmThreads : NewVmThread(v) \/ Resume(v) \/ GenNext(v) \/ Drive(v)
  BY <1>1, PushRefines DEF ControlStack!SpecNext
<1>2. CASE StopRun
  BY <1>2, StopRunRefines DEF ControlStack!SpecNext
<1>3. CASE Yield
  BY <1>3, YieldRefines DEF ControlStack!SpecNext
<1>4. CASE Call \/ CallBack
  BY <1>4, CallRefines DEF ControlStack!SpecNext
<1>5. CASE Return
  BY <1>5, ReturnRefines DEF ControlStack!SpecNext
<1>6. CASE Throw
  BY <1>6, ThrowRefines DEF ControlStack!SpecNext
<1>7. CASE Fail
  BY <1>7, FailRefines DEF ControlStack!SpecNext
<1>8. CASE Try \/ EndTry \/ UNCHANGED vmVars
  <2>1. frames' = frames /\ runs' = runs /\ ended' = ended
    BY <1>8 DEF Try, EndTry, vmVars
  <2>2. ended' = "no" => Chain' = Chain
    <3>1. CASE Try \/ EndTry
      BY <3>1, TryStep
    <3>2. CASE UNCHANGED vmVars
      <4>1. cur' = cur /\ caller' = caller /\ frames' = frames /\ ended' = ended
        BY <3>2 DEF vmVars
      <4>2. ended' = "no" => StackOf(Chain, cur', caller', frames')
        BY <4>1, BeforeStep
      <4>3. QED
        BY <4>2, NextChain
    <3>3. QED
      BY <1>8, <3>1, <3>2
  <2>3. Active' = Active
    BY <2>1, <2>2 DEF Active
  <2>4. QED
    BY <2>1, <2>3 DEF ControlStack!specVars, Natives
<1>9. QED
  BY <1>1, <1>2, <1>3, <1>4, <1>5, <1>6, <1>7, <1>8 DEF VmNext

\* Of the program's own vm_run (interpret, min_frame_count 0): coroutines, generators
\* and callbacks implement one control stack.
THEOREM OneStackOfControl ==
  ASSUME Habits = {}, Base = 0
  PROVE  VmSpec => OneControlStack
<1>1. VmInit => ControlStack!SpecInit
  <2> SUFFICES ASSUME VmInit PROVE ControlStack!SpecInit
    OBVIOUS
  <2>1. StackOf(<<Root>>, cur, caller, frames)
    BY VmRunAssumption DEF VmInit, StackOf
  <2>2. Active = <<Root>>
    BY <2>1, ChainIsStack DEF VmInit, Active
  <2>3. Natives = <<>>
    BY DEF VmInit, Natives
  <2>4. QED
    BY <2>2, <2>3 DEF VmInit, ControlStack!SpecInit
<1>2. VmInv /\ [VmNext]_vmVars => [ControlStack!SpecNext]_(ControlStack!specVars)
  BY StepRefines
<1>3. QED
  BY <1>1, <1>2, StackInvariant, PTL DEF VmSpec, OneControlStack, ControlStack!Spec
=============================================================================
