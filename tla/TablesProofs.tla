----------------------------- MODULE TablesProofs -----------------------------
(***************************************************************************)
(* Proofs about the tables: the hash is a map whatever was put, deleted,   *)
(* rehashed and cloned, a lookup ends, the inline cache is fresh, and the  *)
(* array keeps its elements.                                               *)
(***************************************************************************)
EXTENDS Tables, DataLemmas, TLAPS

----------------------------------------------------------------------------
(* The entries of a hash of capacity c. *)

HashOK(E, c) ==
  /\ E \in [1..c -> Entry]
  \* A key has one entry,
  /\ \A i, j \in 1..c : E[i].key \in Key /\ E[i].key = E[j].key => i = j
  \* and no blank slot is before it on its probe sequence.
  /\ \A i \in 1..c : E[i].key \in Key =>
       \E d \in 0..(c - 1) : /\ Slot(E[i].key, d, c) = i
                             /\ \A b \in 0..(d - 1) : E[Slot(E[i].key, b, c)] # Blank

Used(E, c) == {i \in 1..c : E[i] # Blank}

\* What tells entries, tombstones and blank slots apart.
LEMMA EntryKinds ==
  /\ Blank \in Entry /\ Tombstone \in Entry /\ Blank # Tombstone
  /\ Blank.key \notin Key /\ Tombstone.key \notin Key /\ Blank.key = NoKey /\ Tombstone.key = NoKey
  /\ \A e \in Entry : /\ e.key \notin Key => e \in {Blank, Tombstone}
                      /\ e.key \in Key <=> e.key # NoKey
                      /\ e.key \in Key => e.value \in Value /\ e = [key |-> e.key, value |-> e.value]
  /\ \A k \in Key, v \in Value : [key |-> k, value |-> v] \in Entry
<1>1. Blank # Tombstone
  BY NilAssumption DEF Blank, Tombstone
<1>2. QED
  BY <1>1, KeysAssumption DEF Entry, Blank, Tombstone

\* A probe sequence goes through every slot.
LEMMA ProbesEverySlot ==
  ASSUME NEW k \in Key, NEW c \in Nat \ {0}
  PROVE  /\ \A d \in Nat : Slot(k, d, c) \in 1..c
         /\ \A i \in 1..c : \E d \in 0..(c - 1) : Slot(k, d, c) = i
<1> DEFINE h == Hash[k]
<1>1. h \in Nat
  BY KeysAssumption
<1> HIDE DEF h
<1>2. ASSUME NEW d \in Nat PROVE 1 + ((h + d) % c) \in 1..c
  <2>1. h + d \in Nat
    BY <1>1
  <2>2. (h + d) % c \in 0..(c - 1)
    BY <2>1, Remainder
  <2>3. QED
    BY <2>2
<1>3. ASSUME NEW i \in 1..c PROVE \E d \in 0..(c - 1) : 1 + ((h + d) % c) = i
  <2>1. i - 1 \in 0..(c - 1)
    OBVIOUS
  <2>2. PICK d \in 0..(c - 1) : (h + d) % c = i - 1
    BY <1>1, <2>1, CyclesThrough
  <2>3. QED
    BY <2>2
<1>4. QED
  BY <1>2, <1>3 DEF Slot, h

\* find_entry: the entry of the key when there is one, else a slot that is free,
\* and in both cases one the search for the key reaches.
LEMMA FindEntry ==
  ASSUME NEW c \in Nat \ {0}, NEW E, HashOK(E, c), \E i \in 1..c : E[i] = Blank, NEW k \in Key
  PROVE  /\ Find(E, c, k) \in 1..c
         /\ \/ E[Find(E, c, k)].key = k
            \/ E[Find(E, c, k)] \in {Blank, Tombstone} /\ \A i \in 1..c : E[i].key # k
         /\ \E d \in 0..(c - 1) : /\ Slot(k, d, c) = Find(E, c, k)
                                  /\ \A b \in 0..(d - 1) : E[Slot(k, b, c)] # Blank
<1> DEFINE P(d) == Slot(k, d, c)
           Stops == {d \in 0..(c - 1) : E[P(d)] = Blank \/ E[P(d)].key = k}
           last == Min(Stops)
           graves == {d \in 0..last : E[P(d)] = Tombstone}
<1>1. \A d \in 0..(c - 1) : P(d) \in 1..c
  BY ProbesEverySlot
<1>2. Stops # {} /\ Stops \subseteq Nat
  <2>1. PICK i \in 1..c : E[i] = Blank
    OBVIOUS
  <2>2. PICK d \in 0..(c - 1) : P(d) = i
    BY ProbesEverySlot
  <2>3. QED
    BY <2>1, <2>2
<1>3. last \in Stops /\ \A d \in Stops : last <= d
  <2> HIDE DEF Stops
  <2>1. QED
    BY <1>2, MinOfNaturals
<1>4. Find(E, c, k) = IF E[P(last)].key = k \/ graves = {} THEN P(last) ELSE P(Min(graves))
  BY DEF Find
<1> HIDE DEF last
<1>5. last \in 0..(c - 1) /\ (E[P(last)] = Blank \/ E[P(last)].key = k)
  BY <1>3
<1>6. \A b \in 0..(last - 1) : b \in 0..(c - 1) /\ E[P(b)] # Blank /\ E[P(b)].key # k
  <2> SUFFICES ASSUME NEW b \in 0..(last - 1) PROVE b \in 0..(c - 1) /\ b \notin Stops
    OBVIOUS
  <2>1. b \in 0..(c - 1) /\ ~(last <= b)
    BY <1>5
  <2>2. QED
    BY <1>3, <2>1
<1>7. ASSUME NEW i \in 1..c, E[i].key = k PROVE E[P(last)].key = k
  <2>1. PICK d \in 0..(c - 1) : P(d) = i /\ \A b \in 0..(d - 1) : E[P(b)] # Blank
    BY <1>7 DEF HashOK
  <2>2. last <= d
    BY <1>3, <1>7, <2>1
  <2>3. CASE last = d
    BY <1>7, <2>1, <2>3
  <2>4. CASE last # d
    <3>1. last \in 0..(d - 1)
      BY <1>5, <2>2, <2>4
    <3>2. QED
      BY <1>5, <2>1, <3>1
  <2>5. QED
    BY <2>3, <2>4
<1> HIDE DEF Stops
<1>8. CASE E[P(last)].key = k \/ graves = {}
  <2>1. Find(E, c, k) = P(last)
    BY <1>4, <1>8
  <2>2. QED
    BY <1>1, <1>5, <1>6, <1>7, <2>1
<1>9. CASE E[P(last)].key # k /\ graves # {}
  <2> DEFINE g == Min(graves)
  <2>1. graves \subseteq Nat
    BY <1>5
  <2>2. g \in graves
    <3> HIDE DEF graves
    <3>1. QED
      BY <1>9, <2>1, MinOfNaturals
  <2>3. Find(E, c, k) = P(g)
    BY <1>4, <1>9
  <2> HIDE DEF g
  <2>4. g \in 0..last /\ E[P(g)] = Tombstone
    BY <2>2
  <2>5. g \in 0..(c - 1) /\ \A b \in 0..(g - 1) : b \in 0..(last - 1)
    BY <1>5, <2>4
  <2>6. QED
    BY <1>1, <1>6, <1>7, <1>9, <2>3, <2>4, <2>5
<1>10. QED
  BY <1>8, <1>9

\* F is E with e at slot p, where the search for the key of e ends.
PutAt(F, E, c, e, p) ==
  /\ HashOK(F, c)
  /\ p = Find(E, c, e.key) /\ p \in 1..c /\ F[p] = e
  /\ \A i \in 1..c : i # p => F[i] = E[i] /\ F[i].key # e.key
  /\ \/ E[p].key = e.key
     \/ E[p] \in {Blank, Tombstone} /\ \A i \in 1..c : E[i].key # e.key

Put(E, c, e) == [E EXCEPT ![Find(E, c, e.key)] = e]

LEMMA PutEntry ==
  ASSUME NEW c \in Nat \ {0}, NEW E, HashOK(E, c), \E i \in 1..c : E[i] = Blank,
         NEW e \in Entry, e.key \in Key
  PROVE  \E p : PutAt(Put(E, c, e), E, c, e, p)
<1> DEFINE k == e.key
           p == Find(E, c, k)
           F == [E EXCEPT ![p] = e]
<1>1. F = Put(E, c, e) /\ p = Find(E, c, k)
  BY DEF Put
<1>2. /\ p \in 1..c
      /\ E[p].key = k \/ (E[p] \in {Blank, Tombstone} /\ \A i \in 1..c : E[i].key # k)
      /\ \E d \in 0..(c - 1) : Slot(k, d, c) = p /\ \A b \in 0..(d - 1) : E[Slot(k, b, c)] # Blank
  BY FindEntry
<1> HIDE DEF p
<1>3. E \in [1..c -> Entry]
  BY DEF HashOK
<1>4. F \in [1..c -> Entry] /\ F[p] = e /\ \A i \in 1..c : i # p => F[i] = E[i]
  BY <1>2, <1>3
<1>5. \A i \in 1..c : i # p => F[i].key # k
  BY <1>2, <1>4 DEF HashOK
<1>6. e # Blank
  BY EntryKinds
<1>7. \A i \in 1..c : E[i] # Blank => F[i] # Blank
  BY <1>4, <1>6
<1> HIDE DEF F
<1>8. ASSUME NEW i \in 1..c, NEW j \in 1..c, F[i].key \in Key, F[i].key = F[j].key PROVE i = j
  <2>1. CASE i # p /\ j # p
    BY <1>4, <1>8, <2>1 DEF HashOK
  <2>2. CASE i = p \/ j = p
    BY <1>4, <1>5, <1>8, <2>2
  <2>3. QED
    BY <2>1, <2>2
<1>9. ASSUME NEW i \in 1..c, F[i].key \in Key
      PROVE  \E d \in 0..(c - 1) : Slot(F[i].key, d, c) = i /\ \A b \in 0..(d - 1) : F[Slot(F[i].key, b, c)] # Blank
  <2>1. PICK d \in 0..(c - 1) : Slot(F[i].key, d, c) = i /\ \A b \in 0..(d - 1) : E[Slot(F[i].key, b, c)] # Blank
    <3>1. CASE i = p
      BY <1>2, <1>4, <3>1
    <3>2. CASE i # p
      BY <1>4, <1>9, <3>2 DEF HashOK
    <3>3. QED
      BY <3>1, <3>2
  <2>2. ASSUME NEW b \in 0..(d - 1) PROVE F[Slot(F[i].key, b, c)] # Blank
    <3>1. b \in Nat
      OBVIOUS
    <3>2. Slot(F[i].key, b, c) \in 1..c
      BY <1>9, <3>1, ProbesEverySlot
    <3>3. QED
      BY <1>7, <2>1, <3>2
  <2>3. QED
    BY <2>1, <2>2
<1>10. HashOK(F, c)
  BY <1>4, <1>8, <1>9 DEF HashOK
<1>11. PutAt(F, E, c, e, p)
  BY <1>1, <1>2, <1>4, <1>5, <1>10 DEF PutAt
<1>12. QED
  BY <1>1, <1>11

\* A tombstone in the place of an entry.
LEMMA BuryEntry ==
  ASSUME NEW c \in Nat \ {0}, NEW E, HashOK(E, c), NEW p \in 1..c
  PROVE  HashOK([E EXCEPT ![p] = Tombstone], c)
<1> DEFINE F == [E EXCEPT ![p] = Tombstone]
<1>1. E \in [1..c -> Entry]
  BY DEF HashOK
<1>2. F \in [1..c -> Entry] /\ F[p] = Tombstone /\ \A i \in 1..c : i # p => F[i] = E[i]
  BY <1>1, EntryKinds
<1>3. \A i \in 1..c : (F[i].key \in Key => i # p) /\ (E[i] # Blank => F[i] # Blank)
  BY <1>2, EntryKinds
<1> HIDE DEF F
<1>4. \A i, j \in 1..c : F[i].key \in Key /\ F[i].key = F[j].key => i = j
  BY <1>2, <1>3 DEF HashOK
<1>5. ASSUME NEW i \in 1..c, F[i].key \in Key
      PROVE  \E d \in 0..(c - 1) : Slot(F[i].key, d, c) = i /\ \A b \in 0..(d - 1) : F[Slot(F[i].key, b, c)] # Blank
  <2>1. PICK d \in 0..(c - 1) : Slot(F[i].key, d, c) = i /\ \A b \in 0..(d - 1) : E[Slot(F[i].key, b, c)] # Blank
    BY <1>2, <1>3, <1>5 DEF HashOK
  <2>2. ASSUME NEW b \in 0..(d - 1) PROVE F[Slot(F[i].key, b, c)] # Blank
    <3>1. b \in Nat
      OBVIOUS
    <3>2. Slot(F[i].key, b, c) \in 1..c
      BY <1>5, <3>1, ProbesEverySlot
    <3>3. QED
      BY <1>3, <2>1, <3>2
  <2>3. QED
    BY <2>1, <2>2
<1>6. QED
  BY <1>2, <1>4, <1>5 DEF HashOK, F

----------------------------------------------------------------------------
(* Counting slots. *)

LEMMA CountUpTo ==
  ASSUME NEW n \in Nat, NEW S, S \subseteq 1..n
  PROVE  /\ IsFiniteSet(S) /\ Cardinality(S) \in Nat
         /\ \A T \in SUBSET S : Cardinality(T) <= Cardinality(S)
         /\ \A x : x \notin S => Cardinality(S \cup {x}) = Cardinality(S) + 1
         /\ Cardinality(S) < n => \E i \in 1..n : i \notin S
<1>1. IsFiniteSet(1..n) /\ Cardinality(1..n) = n
  BY FS_Interval
<1>2. IsFiniteSet(S)
  BY <1>1, FS_Subset
<1>3. Cardinality(S) \in Nat
  BY <1>2, FS_CardinalityType
<1>4. \A T \in SUBSET S : Cardinality(T) <= Cardinality(S)
  BY <1>2, FS_Subset
<1>5. \A x : x \notin S => Cardinality(S \cup {x}) = Cardinality(S) + 1
  BY <1>2, FS_AddElement
<1>6. ASSUME Cardinality(S) < n PROVE \E i \in 1..n : i \notin S
  <2>1. S # 1..n
    BY <1>1, <1>3, <1>6
  <2>2. QED
    BY <2>1
<1>7. QED
  BY <1>2, <1>3, <1>4, <1>5, <1>6

\* The load counts the slots that are not blank, tombstones included.
LEMMA UsedSlots ==
  ASSUME NEW c \in Nat, NEW E
  PROVE  /\ Cardinality(Used(E, c)) \in Nat
         /\ Cardinality(Used(E, c)) < c => \E i \in 1..c : E[i] = Blank
         /\ Cardinality(Used(E, c)) = 0 => \A i \in 1..c : E[i] = Blank
<1>1. Used(E, c) \subseteq 1..c
  BY DEF Used
<1>2. \A i \in 1..c : i \notin Used(E, c) <=> E[i] = Blank
  BY DEF Used
<1> DEFINE U == Used(E, c)
<1> HIDE DEF U
<1>3. /\ IsFiniteSet(U) /\ Cardinality(U) \in Nat
      /\ Cardinality(U) < c => \E i \in 1..c : i \notin U
  BY <1>1, CountUpTo DEF U
<1>4. Cardinality(U) = 0 => U = {}
  BY <1>3, FS_EmptySet
<1>5. QED
  BY <1>2, <1>3, <1>4 DEF U

LEMMA UsedAfterPut ==
  ASSUME NEW c \in Nat, NEW E, NEW F, NEW p \in 1..c, F[p] # Blank,
         \A i \in 1..c : i # p => F[i] = E[i]
  PROVE  Cardinality(Used(F, c)) = IF E[p] = Blank THEN Cardinality(Used(E, c)) + 1 ELSE Cardinality(Used(E, c))
<1> DEFINE U == Used(E, c)
           W == Used(F, c)
<1>1. U \subseteq 1..c /\ (E[p] = Blank <=> p \notin U) /\ W = U \cup {p}
  BY DEF Used
<1> HIDE DEF U, W
<1>2. p \notin U => Cardinality(U \cup {p}) = Cardinality(U) + 1
  BY <1>1, CountUpTo
<1>3. p \in U => W = U
  BY <1>1
<1>4. QED
  BY <1>1, <1>2, <1>3 DEF U, W

----------------------------------------------------------------------------
(* Growth of the hash. *)

Filled(t) == {i \in 1..t.capacity : t.entries[i].key # NoKey}

\* The loop of adjust_capacity.
LEMMA PlacedSteps ==
  ASSUME NEW t, t.capacity \in Nat, t.entries \in [1..t.capacity -> Entry], NEW c \in Nat \ {0}
  PROVE  LET f == Placed(t, c)
         IN /\ f[0] = [slot \in 1..c |-> Blank]
            /\ \A i \in 1..t.capacity :
                 f[i] = IF t.entries[i].key = NoKey THEN f[i - 1]
                        ELSE [f[i - 1] EXCEPT ![Find(f[i - 1], c, t.entries[i].key)] = t.entries[i]]
<1> DEFINE n == t.capacity
           S == [1..c -> Entry]
           x == [slot \in 1..c |-> Blank]
           Step(E, i) == IF t.entries[i].key = NoKey THEN E
                         ELSE [E EXCEPT ![Find(E, c, t.entries[i].key)] = t.entries[i]]
           step == [z \in S \X (1..n) |-> Step(z[1], z[2])]
<1>1. x \in S
  BY EntryKinds
<1>2. \A E \in S, i \in 1..n : Step(E, i) \in S
  OBVIOUS
<1>3. n \in Nat
  OBVIOUS
<1> HIDE DEF Step, S, x, n
<1>4. step \in [S \X (1..n) -> S]
  BY <1>2
<1>5. \A E \in S, i \in 1..n : step[<<E, i>>] = Step(E, i)
  OBVIOUS
<1> HIDE DEF step
<1>6. PICK g \in [0..n -> S] : g[0] = x /\ \A i \in 1..n : g[i] = step[<<g[i - 1], i>>]
  <2>1. IsStep(step, S, n)
    BY <1>4 DEF IsStep
  <2>2. PICK g : IsLoop(g, step, x, S, n)
    BY <1>3, <1>1, <2>1, LoopExists
  <2>3. QED
    BY <2>2 DEF IsLoop
<1>7. \A i \in 1..n : i - 1 \in 0..n /\ g[i - 1] \in S
  BY <1>3, <1>6
<1>8. g = [i \in 0..n |-> IF i = 0 THEN x ELSE Step(g[i - 1], i)]
  <2>1. \A i \in 1..n : g[i] = Step(g[i - 1], i)
    BY <1>5, <1>6, <1>7
  <2>2. \A i \in 0..n : i = 0 \/ i \in 1..n
    BY <1>3
  <2>3. \A i \in 0..n : g[i] = IF i = 0 THEN x ELSE Step(g[i - 1], i)
    BY <1>6, <2>1, <2>2
  <2>4. QED
    BY <1>6, <2>3
<1> DEFINE f == Placed(t, c)
<1>9. f = [i \in 0..n |-> IF i = 0 THEN x ELSE Step(f[i - 1], i)]
  BY <1>8, Zenon DEF Placed, Step, x, n
<1> HIDE DEF f
<1>10. 0 \in 0..n /\ \A i \in 1..n : i \in 0..n /\ i # 0
  BY <1>3
<1>11. \A i \in 0..n : f[i] = IF i = 0 THEN x ELSE Step(f[i - 1], i)
  BY <1>9, Zenon
<1>12. f[0] = x /\ \A i \in 1..n : f[i] = Step(f[i - 1], i)
  BY <1>10, <1>11
<1>13. QED
  BY <1>12 DEF f, x, Step, n

\* adjust_capacity keeps the entries and drops the tombstones.
LEMMA RehashHash ==
  ASSUME NEW t, t.capacity \in Nat, HashOK(t.entries, t.capacity),
         NEW c \in Nat \ {0}, Cardinality(Filled(t)) < c
  PROVE  LET E == Placed(t, c)[t.capacity]
         IN /\ HashOK(E, c)
            /\ Cardinality(Used(E, c)) = Cardinality(Filled(t))
            /\ \A e \in Entry : e.key \in Key =>
                 ((\E i \in 1..c : E[i] = e) <=> (\E i \in 1..t.capacity : t.entries[i] = e))
<1> DEFINE n == t.capacity
           D == t.entries
           f == Placed(t, c)
           L(i) == {j \in 1..i : D[j].key # NoKey}
           Good(i) == /\ HashOK(f[i], c)
                      /\ Cardinality(Used(f[i], c)) = Cardinality(L(i))
                      /\ \A j \in 1..i : D[j].key \in Key => \E q \in 1..c : f[i][q] = D[j]
                      /\ \A q \in 1..c : f[i][q] # Blank =>
                           \E j \in 1..i : D[j] = f[i][q] /\ D[j].key \in Key
           T == {i \in 0..n : Good(i)}
<1>1. D \in [1..n -> Entry]
  BY DEF HashOK
<1>2. /\ f[0] = [slot \in 1..c |-> Blank]
      /\ \A i \in 1..n : f[i] = IF D[i].key = NoKey THEN f[i - 1]
                               ELSE [f[i - 1] EXCEPT ![Find(f[i - 1], c, D[i].key)] = D[i]]
  BY <1>1, PlacedSteps
<1> HIDE DEF f
<1>3. Good(0)
  <2> DEFINE E == f[0]
  <2>1. E \in [1..c -> Entry] /\ \A q \in 1..c : E[q] = Blank
    BY <1>2, EntryKinds
  <2> HIDE DEF E
  <2>2. HashOK(E, c)
    BY <2>1, EntryKinds DEF HashOK
  <2>3. Used(E, c) = {} /\ L(0) = {}
    BY <2>1 DEF Used
  <2>4. QED
    BY <2>1, <2>2, <2>3 DEF E
<1>4. ASSUME NEW i \in 1..n, Good(i - 1) PROVE Good(i)
  <2> DEFINE E == f[i - 1]
             F == f[i]
             d == D[i]
  <2>1. d \in Entry /\ i - 1 \in 0..n /\ (\A j \in 1..i : j = i \/ j \in 1..(i - 1)) /\ (\A j \in 1..(i - 1) : j \in 1..i /\ j \in 1..n /\ j # i)
    BY <1>1
  <2>2. F = IF d.key = NoKey THEN E ELSE [E EXCEPT ![Find(E, c, d.key)] = d]
    BY <1>2
  <2>3. HashOK(E, c) /\ Cardinality(Used(E, c)) = Cardinality(L(i - 1))
    BY <1>4
  <2>4. \A j \in 1..(i - 1) : D[j].key \in Key => \E q \in 1..c : E[q] = D[j]
    BY <1>4
  <2>5. \A q \in 1..c : E[q] # Blank => \E j \in 1..(i - 1) : D[j] = E[q] /\ D[j].key \in Key
    BY <1>4
  <2> HIDE DEF E, F
  <2>6. CASE d.key = NoKey
    <3>1. F = E /\ L(i) = L(i - 1) /\ d.key \notin Key
      BY <2>1, <2>2, <2>6, EntryKinds
    <3>2. \A j \in 1..i : D[j].key \in Key => \E q \in 1..c : E[q] = D[j]
      BY <2>1, <2>4, <3>1
    <3>3. \A q \in 1..c : E[q] # Blank => \E j \in 1..i : D[j] = E[q] /\ D[j].key \in Key
      BY <2>1, <2>5
    <3>4. QED
      BY <2>3, <3>1, <3>2, <3>3 DEF E, F
  <2>7. CASE d.key # NoKey
    <3>1. d.key \in Key /\ F = Put(E, c, d) /\ d # Blank
      BY <2>1, <2>2, <2>7, EntryKinds DEF Put
    <3>2. i \notin L(i - 1) /\ L(i) = L(i - 1) \cup {i} /\ L(i - 1) \subseteq Filled(t) /\ L(i - 1) \subseteq 1..(i - 1)
      BY <2>1, <2>7 DEF Filled
    <3>3. Cardinality(L(i)) = Cardinality(L(i - 1)) + 1
      <4> HIDE DEF L
      <4>1. i - 1 \in Nat
        BY <2>1
      <4>2. QED
        BY <3>2, <4>1, CountUpTo
    <3>4. Cardinality(L(i - 1)) < c
      <4>1. Filled(t) \subseteq 1..n
        BY DEF Filled
      <4> DEFINE V == Filled(t)
                 W == L(i - 1)
      <4>2. V \subseteq 1..n /\ W \in SUBSET V /\ Cardinality(V) < c /\ W \subseteq 1..n
        BY <3>2, <4>1
      <4> HIDE DEF V, W
      <4>3. Cardinality(W) <= Cardinality(V) /\ Cardinality(V) \in Nat /\ Cardinality(W) \in Nat
        BY <4>2, CountUpTo
      <4>4. Cardinality(W) < c
        BY <4>2, <4>3
      <4>5. QED
        BY <4>4 DEF W
    <3>5. \E q \in 1..c : E[q] = Blank
      BY <2>3, <3>4, UsedSlots
    <3>6. PICK p : PutAt(F, E, c, d, p)
      <4> HIDE DEF d
      <4>1. QED
        BY <2>1, <2>3, <3>1, <3>5, PutEntry
    <3>7. /\ HashOK(F, c) /\ p \in 1..c /\ F[p] = d
          /\ \A q \in 1..c : q # p => F[q] = E[q]
          /\ E[p].key = d.key \/ E[p] \in {Blank, Tombstone}
      BY <3>6 DEF PutAt
    <3>8. E[p] = Blank
      <4> SUFFICES ASSUME E[p] # Blank PROVE FALSE
        OBVIOUS
      <4>1. PICK j \in 1..(i - 1) : D[j] = E[p] /\ D[j].key \in Key
        BY <2>5, <3>7
      <4>2. D[j].key = d.key
        BY <3>7, <4>1, EntryKinds
      <4>3. QED
        BY <2>1, <4>1, <4>2 DEF HashOK
    <3>9. Cardinality(Used(F, c)) = Cardinality(L(i))
      <4> HIDE DEF d, L
      <4>1. F[p] # Blank /\ c \in Nat
        BY <3>1, <3>7
      <4>2. Cardinality(Used(F, c)) = Cardinality(Used(E, c)) + 1
        BY <3>7, <3>8, <4>1, UsedAfterPut
      <4>3. QED
        BY <2>3, <3>3, <4>2
    <3>10. ASSUME NEW j \in 1..i, D[j].key \in Key PROVE \E q \in 1..c : F[q] = D[j]
      <4>1. CASE j = i
        BY <3>7, <4>1
      <4>2. CASE j # i
        <5>1. PICK q \in 1..c : E[q] = D[j]
          BY <2>1, <2>4, <3>10, <4>2
        <5>2. q # p
          BY <3>8, <3>10, <5>1, EntryKinds
        <5>3. QED
          BY <3>7, <5>1, <5>2
      <4>3. QED
        BY <4>1, <4>2
    <3>11. ASSUME NEW q \in 1..c, F[q] # Blank PROVE \E j \in 1..i : D[j] = F[q] /\ D[j].key \in Key
      <4>1. CASE q = p
        <5>1. i \in 1..i
          OBVIOUS
        <5>2. QED
          BY <3>1, <3>7, <4>1, <5>1
      <4>2. CASE q # p
        BY <2>1, <2>5, <3>7, <3>11, <4>2
      <4>3. QED
        BY <4>1, <4>2
    <3>12. QED
      BY <3>7, <3>9, <3>10, <3>11 DEF F
  <2>8. QED
    BY <2>6, <2>7
<1>5. n \in T
  <2>1. 0 \in T /\ \A i \in 1..n : i - 1 \in T => i \in T
    <3> HIDE DEF Good
    <3>1. QED
      BY <1>3, <1>4
  <2> HIDE DEF T
  <2>2. QED
    BY <2>1, IntervalInduction
<1>6. Good(n) /\ L(n) = Filled(t)
  BY <1>5 DEF Filled
<1>7. ASSUME NEW e \in Entry, e.key \in Key
      PROVE  (\E q \in 1..c : f[n][q] = e) <=> (\E j \in 1..n : D[j] = e)
  BY <1>6, <1>7, EntryKinds
<1>8. QED
  BY <1>6, <1>7 DEF f

----------------------------------------------------------------------------
(* The hash of a table as a map. *)

HashPart(t) ==
  /\ HashOK(t.entries, t.capacity)
  /\ t.count = Cardinality(Used(t.entries, t.capacity))
  /\ t.capacity # 0 => t.count < t.capacity

Maps(t, k, v) == \E i \in 1..t.capacity : t.entries[i] = [key |-> k, value |-> v]

SameRest(t, u) == t.version = u.version /\ t.array = u.array /\ t.max = u.max

\* The fields of a table.
LEMMA Fields ==
  \A t \in Table : /\ t.capacity \in Nat /\ t.count \in Nat /\ t.version \in Nat /\ t.max \in Nat
                  /\ t.entries \in Seq(Entry) /\ t.array \in Seq(Value)
BY DEF Table

FieldsAre(u, E, c, n, v, w, m) ==
  /\ u \in Table
  /\ u.entries = E /\ u.capacity = c /\ u.count = n /\ u.version = v /\ u.array = w /\ u.max = m

\* A table with another hash, one write in the hash, and changes of the array.
Regrow(t, E, c, n) == [t EXCEPT !.entries = E, !.capacity = c, !.count = n]
LEMMA Regrown ==
  ASSUME NEW t, t \in Table, NEW E, E \in Seq(Entry), NEW c, c \in Nat, NEW n, n \in Nat
  PROVE  FieldsAre(Regrow(t, E, c, n), E, c, n, t.version, t.array, t.max)
<1> DEFINE a == [t EXCEPT !.entries = E]
           b == [a EXCEPT !.capacity = c]
           d == [b EXCEPT !.count = n]
<1>1. a \in Table /\ a.entries = E
      /\ \A f \in {"capacity", "count", "version", "array", "max"} : a[f] = t[f]
  BY DEF Table
<1> HIDE DEF a
<1>2. b \in Table /\ b.capacity = c
      /\ \A f \in {"entries", "count", "version", "array", "max"} : b[f] = a[f]
  BY <1>1 DEF Table
<1> HIDE DEF b
<1>3. d \in Table /\ d.count = n
      /\ \A f \in {"entries", "capacity", "version", "array", "max"} : d[f] = b[f]
  BY <1>2 DEF Table
<1> HIDE DEF d
<1>4. Regrow(t, E, c, n) = d
  BY DEF a, b, d, Regrow
<1>5. QED
  BY <1>1, <1>2, <1>3, <1>4 DEF FieldsAre

Rewrite(t, E, n, v) == [t EXCEPT !.entries = E, !.count = n, !.version = v]
LEMMA Rewritten ==
  ASSUME NEW t, t \in Table, NEW E, E \in Seq(Entry), NEW n, n \in Nat, NEW v, v \in Nat
  PROVE  FieldsAre(Rewrite(t, E, n, v), E, t.capacity, n, v, t.array, t.max)
<1> DEFINE a == [t EXCEPT !.entries = E]
           b == [a EXCEPT !.count = n]
           d == [b EXCEPT !.version = v]
<1>1. a \in Table /\ a.entries = E
      /\ \A f \in {"capacity", "count", "version", "array", "max"} : a[f] = t[f]
  BY DEF Table
<1> HIDE DEF a
<1>2. b \in Table /\ b.count = n
      /\ \A f \in {"entries", "capacity", "version", "array", "max"} : b[f] = a[f]
  BY <1>1 DEF Table
<1> HIDE DEF b
<1>3. d \in Table /\ d.version = v
      /\ \A f \in {"entries", "capacity", "count", "array", "max"} : d[f] = b[f]
  BY <1>2 DEF Table
<1> HIDE DEF d
<1>4. Rewrite(t, E, n, v) = d
  BY DEF a, b, d, Rewrite
<1>5. QED
  BY <1>1, <1>2, <1>3, <1>4 DEF FieldsAre

Strike(t, E, v) == [t EXCEPT !.entries = E, !.version = v]
LEMMA Struck ==
  ASSUME NEW t, t \in Table, NEW E, E \in Seq(Entry), NEW v, v \in Nat
  PROVE  FieldsAre(Strike(t, E, v), E, t.capacity, t.count, v, t.array, t.max)
<1> DEFINE a == [t EXCEPT !.entries = E]
           b == [a EXCEPT !.version = v]
<1>1. a \in Table /\ a.entries = E
      /\ \A f \in {"capacity", "count", "version", "array", "max"} : a[f] = t[f]
  BY DEF Table
<1> HIDE DEF a
<1>2. b \in Table /\ b.version = v
      /\ \A f \in {"entries", "capacity", "count", "array", "max"} : b[f] = a[f]
  BY <1>1 DEF Table
<1> HIDE DEF b
<1>3. Strike(t, E, v) = b
  BY DEF a, b, Strike
<1>4. QED
  BY <1>1, <1>2, <1>3 DEF FieldsAre

WithArray(t, w) == [t EXCEPT !.array = w]
LEMMA NewArray ==
  ASSUME NEW t, t \in Table, NEW w, w \in Seq(Value)
  PROVE  FieldsAre(WithArray(t, w), t.entries, t.capacity, t.count, t.version, w, t.max)
BY DEF Table, FieldsAre, WithArray

WithMax(t, m) == [t EXCEPT !.max = m]
LEMMA NewMax ==
  ASSUME NEW t, t \in Table, NEW m, m \in Nat
  PROVE  FieldsAre(WithMax(t, m), t.entries, t.capacity, t.count, t.version, t.array, m)
BY DEF Table, FieldsAre, WithMax

\* table_get answers by what the table maps.
LEMMA Lookup ==
  ASSUME NEW t \in Table, HashPart(t), NEW k \in Key
  PROVE  /\ Has(t, k) <=> \E v \in Value : Maps(t, k, v)
         /\ \A v \in Value : Maps(t, k, v) => Get(t, k) = v
         /\ Has(t, k) => Get(t, k) \in Value /\ Maps(t, k, Get(t, k))
<1> DEFINE c == t.capacity
           E == t.entries
           p == Find(E, c, k)
<1>1. c \in Nat /\ E \in [1..c -> Entry]
  BY Fields DEF HashPart, HashOK
<1>2. Has(t, k) <=> t.count # 0 /\ E[p].key = k
  BY DEF Has
<1>3. Has(t, k) => Get(t, k) = E[p].value
  BY DEF Get
<1>4. CASE t.count = 0
  <2>1. \A i \in 1..c : E[i] = Blank
    BY <1>1, <1>4, UsedSlots DEF HashPart
  <2>2. \A v : ~Maps(t, k, v)
    BY <2>1, EntryKinds DEF Maps, Blank
  <2>3. QED
    BY <1>2, <1>4, <2>2
<1>5. CASE t.count # 0
  <2>1. c # 0
    <3> SUFFICES ASSUME c = 0 PROVE t.count = 0
      BY <1>5
    <3>1. Used(E, c) = {}
      BY DEF Used
    <3>2. QED
      BY <3>1, FS_EmptySet DEF HashPart
  <2>2. c \in Nat \ {0} /\ HashOK(E, c) /\ \E i \in 1..c : E[i] = Blank
    <3>1. c \in Nat \ {0} /\ HashOK(E, c) /\ Cardinality(Used(E, c)) < c
      BY <1>1, <2>1 DEF HashPart
    <3> HIDE DEF c, E
    <3>2. QED
      BY <3>1, UsedSlots
  <2>3. p \in 1..c /\ (E[p].key = k \/ \A i \in 1..c : E[i].key # k)
    <3> HIDE DEF c, E
    <3>1. QED
      BY <2>2, FindEntry
  <2> HIDE DEF p
  <2>4. CASE E[p].key = k
    <3> DEFINE w == E[p].value
    <3>1. w \in Value /\ E[p] = [key |-> k, value |-> w]
      BY <1>1, <2>3, <2>4, EntryKinds
    <3>2. ASSUME NEW v \in Value, NEW i \in 1..c, E[i] = [key |-> k, value |-> v] PROVE v = w
      <4>1. E[i].key = E[p].key /\ E[i].value = v
        BY <2>4, <3>2
      <4>2. i = p
        BY <2>2, <2>3, <2>4, <4>1 DEF HashOK
      <4>3. QED
        BY <4>1, <4>2
    <3> HIDE DEF w
    <3>3. Has(t, k) /\ Get(t, k) = w
      BY <1>2, <1>3, <1>5, <2>4 DEF w
    <3>4. Maps(t, k, w)
      BY <2>3, <3>1 DEF Maps
    <3>5. QED
      BY <3>1, <3>2, <3>3, <3>4 DEF Maps
  <2>5. CASE E[p].key # k
    <3>1. \A v : ~Maps(t, k, v)
      BY <2>3, <2>5 DEF Maps
    <3>2. QED
      BY <1>2, <2>5, <3>1
  <2>6. QED
    BY <2>4, <2>5
<1>6. QED
  BY <1>4, <1>5

\* table_set makes room: a slot stays blank even after the new entry.
LEMMA RoomHash ==
  ASSUME NEW t \in Table, HashPart(t)
  PROVE  /\ Room(t) \in Table /\ HashPart(Room(t)) /\ SameRest(Room(t), t)
         /\ Room(t).count + 1 < Room(t).capacity
         /\ \A k \in Key, v \in Value : Maps(Room(t), k, v) <=> Maps(t, k, v)
<1> DEFINE n == t.capacity
           c == IF n < MinHash THEN MinHash ELSE 2 * n
           E == Placed(t, c)[n]
           F == Filled(t)
           r == Rehash(t, c)
<1>1. n \in Nat /\ t.count \in Nat /\ t.version \in Nat /\ t.max \in Nat /\ t.array \in Seq(Value)
  BY Fields
<1>2. HashOK(t.entries, n) /\ t.count = Cardinality(Used(t.entries, n)) /\ (n # 0 => t.count < n)
  BY DEF HashPart
<1>3. n = 0 => t.count = 0
  <2>1. n = 0 => Used(t.entries, n) = {}
    BY DEF Used
  <2>2. QED
    BY <1>2, <2>1, FS_EmptySet
<1>4. CASE ~(4 * (t.count + 1) > 3 * n)
  <2>1. Room(t) = t
    BY <1>4 DEF Room
  <2>2. t.count + 1 < n
    BY <1>1, <1>4
  <2>3. QED
    BY <2>1, <2>2 DEF SameRest
<1>5. CASE 4 * (t.count + 1) > 3 * n
  <2>1. Room(t) = r
    BY <1>5 DEF Room
  <2>2. c \in Nat \ {0} /\ t.count + 1 < c
    BY <1>1, <1>2, <1>3, SizesAssumption
  <2>3. Cardinality(F) \in Nat /\ Cardinality(F) <= t.count
    <3> DEFINE U == Used(t.entries, n)
    <3>1. F \in SUBSET U /\ U \subseteq 1..n /\ F \subseteq 1..n
      BY <1>1, EntryKinds DEF Filled, Used
    <3> HIDE DEF U, F, n
    <3>2. Cardinality(F) \in Nat /\ Cardinality(F) <= Cardinality(U)
      BY <1>1, <3>1, CountUpTo
    <3>3. QED
      BY <1>2, <3>2 DEF U
  <2> DEFINE m == Cardinality(F)
  <2>4. r = Regrow(t, E, c, m)
    BY DEF Rehash, Filled, Regrow
  <2> HIDE DEF c, F
  <2>5. /\ HashOK(E, c) /\ Cardinality(Used(E, c)) = m
        /\ \A e \in Entry : e.key \in Key =>
             ((\E i \in 1..c : E[i] = e) <=> (\E i \in 1..n : t.entries[i] = e))
    <3>1. Cardinality(F) < c
      BY <1>1, <2>2, <2>3
    <3>2. QED
      BY <1>1, <1>2, <2>2, <3>1, RehashHash DEF F
  <2>6. E \in [1..c -> Entry] /\ m \in Nat /\ m + 1 < c /\ c \in Nat
    BY <1>1, <2>2, <2>3, <2>5 DEF HashOK
  <2> HIDE DEF E, r, m
  <2>7. /\ r \in Table /\ r.entries = E /\ r.capacity = c /\ r.count = m
        /\ r.version = t.version /\ r.array = t.array /\ r.max = t.max
    <3>1. E \in Seq(Entry)
      BY <2>6
    <3>2. FieldsAre(r, E, c, m, t.version, t.array, t.max)
      BY <2>4, <2>6, <3>1, Regrown
    <3>3. QED
      BY <3>2 DEF FieldsAre
  <2>8. HashPart(r) /\ SameRest(r, t) /\ r.count + 1 < r.capacity
    <3>1. r.entries = E /\ r.capacity = c /\ r.count = m /\ SameRest(r, t)
      BY <2>7 DEF SameRest
    <3>2. QED
      BY <2>5, <2>6, <3>1 DEF HashPart
  <2>9. ASSUME NEW k \in Key, NEW v \in Value PROVE Maps(r, k, v) <=> Maps(t, k, v)
    <3> DEFINE e == [key |-> k, value |-> v]
    <3>1. e \in Entry /\ e.key \in Key
      BY EntryKinds
    <3> HIDE DEF e
    <3>2. (\E i \in 1..c : E[i] = e) <=> (\E i \in 1..n : t.entries[i] = e)
      BY <2>5, <3>1
    <3>3. r.entries = E /\ r.capacity = c
      BY <2>7
    <3>4. QED
      BY <3>2, <3>3 DEF Maps, e
  <2>10. QED
    BY <2>1, <2>7, <2>9, <2>8
<1>6. QED
  BY <1>4, <1>5

\* table_set
LEMMA SetHash ==
  ASSUME NEW t \in Table, HashPart(t), NEW k \in Key, NEW v \in Value
  PROVE  LET u == Set(t, k, v)
         IN /\ u \in Table /\ HashPart(u)
            /\ u.version = t.version + 1 /\ u.array = t.array /\ u.max = t.max
            /\ \A q \in Key, w \in Value : Maps(u, q, w) <=> IF q = k THEN w = v ELSE Maps(t, q, w)
<1> DEFINE r == Room(t)
           c == r.capacity
           E == r.entries
           e == [key |-> k, value |-> v]
           F == Put(E, c, e)
           p == Find(E, c, k)
           u == Set(t, k, v)
<1>1. r \in Table /\ HashPart(r) /\ SameRest(r, t) /\ r.count + 1 < c
  BY RoomHash
<1>2. \A q \in Key, w \in Value : Maps(r, q, w) <=> Maps(t, q, w)
  BY RoomHash
<1> DEFINE m == IF E[p] = Blank THEN r.count + 1 ELSE r.count
           x == r.version + 1
<1>3. u = Rewrite(r, F, m, x)
  BY DEF Set, Put, Rewrite
<1> HIDE DEF r, u
<1>4. c \in Nat \ {0} /\ r.count \in Nat /\ r.version \in Nat /\ r.max \in Nat /\ r.array \in Seq(Value)
  BY <1>1, Fields
<1>5. HashOK(E, c) /\ r.count = Cardinality(Used(E, c)) /\ \E i \in 1..c : E[i] = Blank
  <2>1. HashOK(E, c) /\ r.count = Cardinality(Used(E, c)) /\ Cardinality(Used(E, c)) < c
    BY <1>1, <1>4 DEF HashPart
  <2> HIDE DEF E, c
  <2>2. QED
    BY <1>4, <2>1, UsedSlots
<1>6. e \in Entry /\ e.key \in Key /\ e # Blank /\ e.key = k
  BY EntryKinds
<1> HIDE DEF e
<1>7. PutAt(F, E, c, e, p)
  <2> HIDE DEF p, c, E
  <2>1. PICK s : PutAt(F, E, c, e, s)
    BY <1>4, <1>5, <1>6, PutEntry
  <2>2. s = Find(E, c, k)
    BY <1>6, <2>1 DEF PutAt
  <2>3. QED
    BY <2>1, <2>2 DEF p
<1> HIDE DEF F, p
<1>8. /\ HashOK(F, c) /\ p \in 1..c /\ F[p] = e
      /\ \A i \in 1..c : i # p => F[i] = E[i] /\ F[i].key # k
      /\ E[p].key = k \/ \A i \in 1..c : E[i].key # k
      /\ E[p].key = k \/ E[p] \in {Blank, Tombstone}
  BY <1>6, <1>7 DEF PutAt
<1> HIDE DEF c, E
<1>9. Cardinality(Used(F, c)) = IF E[p] = Blank THEN Cardinality(Used(E, c)) + 1 ELSE Cardinality(Used(E, c))
  BY <1>4, <1>6, <1>8, UsedAfterPut
<1>10. m \in Nat /\ x \in Nat /\ x = t.version + 1 /\ m < c /\ m = Cardinality(Used(F, c)) /\ F \in [1..c -> Entry]
  BY <1>1, <1>4, <1>5, <1>8, <1>9 DEF HashOK, SameRest
<1> HIDE DEF m, x
<1>11. /\ u \in Table /\ u.entries = F /\ u.capacity = c /\ u.count = m
       /\ u.version = x /\ u.array = r.array /\ u.max = r.max
  <2>1. F \in Seq(Entry)
    BY <1>4, <1>10
  <2>2. r \in Table /\ m \in Nat /\ x \in Nat
    BY <1>1, <1>10
  <2>3. FieldsAre(u, F, r.capacity, m, x, r.array, r.max)
    BY <1>3, <2>1, <2>2, Rewritten
  <2>4. QED
    BY <2>3 DEF FieldsAre, c
<1>12. HashPart(u) /\ u.version = t.version + 1 /\ u.array = t.array /\ u.max = t.max
  BY <1>1, <1>8, <1>10, <1>11 DEF HashPart, SameRest
<1>13. ASSUME NEW q \in Key, NEW w \in Value PROVE Maps(u, q, w) <=> IF q = k THEN w = v ELSE Maps(r, q, w)
  <2> DEFINE d == [key |-> q, value |-> w]
  <2>1. d.key = q /\ (d = e <=> q = k /\ w = v)
    BY DEF e
  <2> HIDE DEF d
  <2>2. Maps(u, q, w) <=> \E i \in 1..c : F[i] = d
    BY <1>11 DEF Maps, d
  <2>3. Maps(r, q, w) <=> \E i \in 1..c : E[i] = d
    BY DEF Maps, d, c, E
  <2>4. CASE q = k
    BY <1>8, <2>1, <2>2, <2>4
  <2>5. CASE q # k
    <3>1. q # NoKey /\ E[p] # d
      <4>1. q \in Key /\ Blank.key = NoKey /\ Tombstone.key = NoKey /\ q # NoKey
        BY KeysAssumption, EntryKinds
      <4>2. QED
        BY <1>8, <2>1, <2>5, <4>1
    <3>2. \A i \in 1..c : F[i] = d <=> E[i] = d
      BY <1>8, <2>1, <2>5, <3>1
    <3>3. QED
      BY <2>2, <2>3, <2>5, <3>2
  <2>6. QED
    BY <2>4, <2>5
<1>14. QED
  BY <1>2, <1>11, <1>12, <1>13 DEF u

\* table_delete
LEMMA DeleteHash ==
  ASSUME NEW t \in Table, HashPart(t), NEW k \in Key, Has(t, k)
  PROVE  LET u == Delete(t, k)
         IN /\ u \in Table /\ HashPart(u)
            /\ u.version = t.version + 1 /\ u.array = t.array /\ u.max = t.max
            /\ \A q \in Key, w \in Value : Maps(u, q, w) <=> q # k /\ Maps(t, q, w)
<1> DEFINE c == t.capacity
           E == t.entries
           p == Find(E, c, k)
           F == [E EXCEPT ![p] = Tombstone]
           u == Delete(t, k)
           x == t.version + 1
<1>1. c \in Nat /\ t.count \in Nat /\ x \in Nat /\ t.array \in Seq(Value)
  BY Fields
<1>2. HashOK(E, c) /\ t.count = Cardinality(Used(E, c)) /\ (c # 0 => t.count < c)
  BY DEF HashPart
<1>3. t.count # 0 /\ E[p].key = k
  BY DEF Has
<1>4. u = Strike(t, F, x)
  BY DEF Delete, Strike
<1>5. c # 0
  <2>1. c = 0 => Used(E, c) = {}
    BY DEF Used
  <2>2. QED
    BY <1>2, <1>3, <2>1, FS_EmptySet
<1>6. p \in 1..c
  <2>1. c \in Nat \ {0} /\ Cardinality(Used(E, c)) < c
    BY <1>1, <1>2, <1>5
  <2> HIDE DEF c, E
  <2>2. \E i \in 1..c : E[i] = Blank
    BY <2>1, UsedSlots
  <2>3. QED
    BY <1>2, <2>1, <2>2, FindEntry
<1> HIDE DEF p, c, E, u, x
<1>7. E \in [1..c -> Entry] /\ F \in [1..c -> Entry] /\ F[p] = Tombstone /\ \A i \in 1..c : i # p => F[i] = E[i]
  BY <1>2, <1>6, EntryKinds DEF HashOK
<1>8. HashOK(F, c)
  BY <1>1, <1>2, <1>5, <1>6, BuryEntry
<1> HIDE DEF F
<1>9. Cardinality(Used(F, c)) = Cardinality(Used(E, c))
  <2>1. F[p] # Blank /\ E[p] # Blank
    BY <1>3, <1>7, EntryKinds
  <2>2. QED
    BY <1>1, <1>6, <1>7, <2>1, UsedAfterPut
<1>10. /\ u \in Table /\ u.entries = F /\ u.capacity = t.capacity /\ u.count = t.count
       /\ u.version = x /\ u.array = t.array /\ u.max = t.max
  <2>1. F \in Seq(Entry)
    BY <1>1, <1>7
  <2>2. QED
    <3>1. FieldsAre(u, F, t.capacity, t.count, x, t.array, t.max)
      BY <1>1, <1>4, <2>1, Struck
    <3>2. QED
      BY <3>1 DEF FieldsAre
<1>11. HashPart(u)
  BY <1>2, <1>8, <1>9, <1>10 DEF HashPart, c
<1>12. ASSUME NEW q \in Key, NEW w \in Value PROVE Maps(u, q, w) <=> q # k /\ Maps(t, q, w)
  <2> DEFINE d == [key |-> q, value |-> w]
  <2>1. d.key = q /\ Tombstone # d
    BY EntryKinds
  <2> HIDE DEF d
  <2>2. Maps(u, q, w) <=> \E i \in 1..c : F[i] = d
    BY <1>10 DEF Maps, d, c
  <2>3. Maps(t, q, w) <=> \E i \in 1..c : E[i] = d
    BY DEF Maps, d, c, E
  <2>4. CASE q = k
    <3>1. \A i \in 1..c : E[i].key = k => i = p
      BY <1>2, <1>3, <1>6 DEF HashOK
    <3>2. \A i \in 1..c : F[i] # d
      BY <1>7, <2>1, <2>4, <3>1
    <3>3. QED
      BY <2>2, <2>4, <3>2
  <2>5. CASE q # k
    <3>1. \A i \in 1..c : F[i] = d <=> E[i] = d
      BY <1>3, <1>7, <2>1, <2>5
    <3>2. QED
      BY <2>2, <2>3, <2>5, <3>1
  <2>6. QED
    BY <2>4, <2>5
<1>13. QED
  BY <1>10, <1>11, <1>12 DEF u, x

\* An array without a hash.
LEMMA BareTable ==
  ASSUME NEW t \in Table
  PROVE  LET b == [EmptyTable EXCEPT !.array = t.array, !.max = t.max]
         IN /\ b \in Table /\ HashPart(b) /\ b.array = t.array /\ b.max = t.max
            /\ \A k, v : ~Maps(b, k, v)
<1> DEFINE b == [EmptyTable EXCEPT !.array = t.array, !.max = t.max]
<1>1. t.array \in Seq(Value) /\ t.max \in Nat /\ <<>> \in Seq(Entry)
  BY Fields
<1> DEFINE a == WithArray(EmptyTable, t.array)
<1>2. FieldsAre(EmptyTable, <<>>, 0, 0, 0, <<>>, 0)
  BY <1>1 DEF EmptyTable, Table, FieldsAre
<1>3. FieldsAre(a, <<>>, 0, 0, 0, t.array, 0)
  BY <1>2, <1>1, NewArray DEF FieldsAre
<1>4. b = WithMax(a, t.max)
  BY DEF WithMax, WithArray
<1> HIDE DEF a, b
<1>5. FieldsAre(b, <<>>, 0, 0, 0, t.array, t.max)
  BY <1>1, <1>3, <1>4, NewMax DEF FieldsAre
<1>6. b.entries = <<>> /\ b.capacity = 0 /\ b.count = 0 /\ b.array = t.array /\ b.max = t.max
  BY <1>5 DEF FieldsAre
<1>7. HashOK(<<>>, 0) /\ Used(<<>>, 0) = {}
  BY DEF HashOK, Used
<1>8. HashPart(b)
  BY <1>6, <1>7, FS_EmptySet DEF HashPart
<1>9. \A k, v : ~Maps(b, k, v)
  BY <1>6 DEF Maps
<1>10. QED
  BY <1>6, <1>8, <1>9, <1>5 DEF b, FieldsAre

Hashed == {u \in Table : HashPart(u)}

\* The loop of table_clone_recursive.
LEMMA ClonedSteps ==
  ASSUME NEW t \in Hashed
  PROVE  LET f == Cloned(t)
         IN /\ f \in [0..t.capacity -> Hashed]
            /\ f[0] = [EmptyTable EXCEPT !.array = t.array, !.max = t.max]
            /\ \A i \in 1..t.capacity :
                 LET e == t.entries[i]
                 IN f[i] = IF e.key = NoKey \/ e.value = Nil THEN f[i - 1] ELSE Set(f[i - 1], e.key, e.value)
<1> DEFINE n == t.capacity
           D == t.entries
           S == Hashed
           x == [EmptyTable EXCEPT !.array = t.array, !.max = t.max]
           Step(u, i) == IF D[i].key = NoKey \/ D[i].value = Nil THEN u ELSE Set(u, D[i].key, D[i].value)
           step == [z \in S \X (1..n) |-> Step(z[1], z[2])]
<1>1. n \in Nat
  BY Fields DEF Hashed
<1>2. x \in S
  BY BareTable DEF Hashed
<1>3. ASSUME NEW u \in S, NEW i \in 1..n PROVE Step(u, i) \in S
  <2>1. D[i] \in Entry
    BY DEF Hashed, HashPart, HashOK
  <2>2. CASE D[i].key = NoKey \/ D[i].value = Nil
    BY <2>2
  <2>3. CASE D[i].key # NoKey /\ D[i].value # Nil
    <3>1. D[i].key \in Key /\ D[i].value \in Value /\ u \in Table /\ HashPart(u)
      BY <2>1, <2>3, EntryKinds DEF Hashed
    <3>2. Set(u, D[i].key, D[i].value) \in Hashed
      <4> DEFINE k == D[i].key
                 v == D[i].value
      <4> HIDE DEF k, v
      <4>1. Set(u, k, v) \in Hashed
        BY <3>1, SetHash DEF Hashed, k, v
      <4>2. QED
        BY <4>1 DEF k, v
    <3>3. QED
      BY <2>3, <3>2
  <2>4. QED
    BY <2>2, <2>3
<1> HIDE DEF Step, S, x, n
<1>4. step \in [S \X (1..n) -> S]
  BY <1>3
<1>5. \A u \in S, i \in 1..n : step[<<u, i>>] = Step(u, i)
  OBVIOUS
<1> HIDE DEF step
<1>6. PICK g \in [0..n -> S] : g[0] = x /\ \A i \in 1..n : g[i] = step[<<g[i - 1], i>>]
  <2>1. IsStep(step, S, n)
    BY <1>4 DEF IsStep
  <2>2. PICK g : IsLoop(g, step, x, S, n)
    BY <1>1, <1>2, <2>1, LoopExists
  <2>3. QED
    BY <2>2 DEF IsLoop
<1>7. \A i \in 1..n : i - 1 \in 0..n /\ g[i - 1] \in S
  BY <1>1, <1>6
<1>8. g = [i \in 0..n |-> IF i = 0 THEN x ELSE Step(g[i - 1], i)]
  <2>1. \A i \in 1..n : g[i] = Step(g[i - 1], i)
    BY <1>5, <1>6, <1>7
  <2>2. \A i \in 0..n : i = 0 \/ i \in 1..n
    BY <1>1
  <2>3. \A i \in 0..n : g[i] = IF i = 0 THEN x ELSE Step(g[i - 1], i)
    BY <1>6, <2>1, <2>2
  <2>4. QED
    BY <1>6, <2>3
<1> DEFINE f == Cloned(t)
<1>9. f = [i \in 0..n |-> IF i = 0 THEN x ELSE Step(f[i - 1], i)]
  BY <1>8, Zenon DEF Cloned, Step, x, n
<1> HIDE DEF f
<1>10. f[0] = x /\ \A i \in 1..n : f[i] = Step(f[i - 1], i)
  BY <1>1, <1>9
<1>11. \A i \in 0..n : f[i] \in S
  <2> DEFINE T == {i \in 0..n : f[i] \in S}
  <2>1. 0 \in T /\ \A i \in 1..n : i - 1 \in T => i \in T
    BY <1>1, <1>2, <1>3, <1>10
  <2> HIDE DEF T
  <2>2. 0..n \subseteq T
    BY <1>1, <2>1, IntervalInduction
  <2>3. QED
    BY <2>2 DEF T
<1>12. f \in [0..n -> S]
  BY <1>9, <1>11
<1>13. QED
  BY <1>10, <1>12 DEF f, x, Step, n, S

\* table.clone
LEMMA CloneHash ==
  ASSUME NEW t \in Table, HashPart(t)
  PROVE  LET u == Clone(t)
         IN /\ u \in Table /\ HashPart(u) /\ u.array = t.array /\ u.max = t.max
            /\ \A q \in Key, w \in Value : Maps(u, q, w) <=> w # Nil /\ Maps(t, q, w)
<1> DEFINE n == t.capacity
           D == t.entries
           f == Cloned(t)
           Good(i) == /\ f[i].array = t.array /\ f[i].max = t.max
                      /\ \A q \in Key, w \in Value :
                           Maps(f[i], q, w) <=> w # Nil /\ \E j \in 1..i : D[j] = [key |-> q, value |-> w]
           T == {i \in 0..n : Good(i)}
<1>1. n \in Nat /\ HashOK(D, n) /\ D \in [1..n -> Entry]
  BY Fields DEF HashPart, HashOK
<1>2. /\ f \in [0..n -> Hashed]
      /\ f[0] = [EmptyTable EXCEPT !.array = t.array, !.max = t.max]
      /\ \A i \in 1..n :
           f[i] = IF D[i].key = NoKey \/ D[i].value = Nil THEN f[i - 1] ELSE Set(f[i - 1], D[i].key, D[i].value)
  BY ClonedSteps DEF Hashed
<1> HIDE DEF f, D, n
<1>3. Good(0)
  <2> DEFINE b == [EmptyTable EXCEPT !.array = t.array, !.max = t.max]
  <2>1. b.array = t.array /\ b.max = t.max /\ \A q, w : ~Maps(b, q, w)
    BY BareTable
  <2> HIDE DEF b
  <2>2. f[0] = b
    BY <1>2 DEF b
  <2>3. QED
    BY <2>1, <2>2
<1>4. ASSUME NEW i \in 1..n, Good(i - 1) PROVE Good(i)
  <2> DEFINE b == f[i - 1]
             k == D[i].key
             v == D[i].value
  <2>1. b \in Table /\ HashPart(b) /\ D[i] \in Entry
    BY <1>1, <1>2 DEF Hashed
  <2>2. \A j : j \in 1..i <=> j = i \/ j \in 1..(i - 1)
    BY <1>1
  <2>3. /\ b.array = t.array /\ b.max = t.max
        /\ \A q \in Key, w \in Value :
             Maps(b, q, w) <=> w # Nil /\ \E j \in 1..(i - 1) : D[j] = [key |-> q, value |-> w]
    BY <1>4
  <2>4. f[i] = IF k = NoKey \/ v = Nil THEN b ELSE Set(b, k, v)
    BY <1>2
  <2> HIDE DEF b
  <2>5. CASE k = NoKey \/ v = Nil
    <3>1. f[i] = b
      BY <2>4, <2>5
    <3>2. ASSUME NEW q \in Key, NEW w \in Value, w # Nil PROVE D[i] # [key |-> q, value |-> w]
      BY <2>5, <3>2, KeysAssumption
    <3>3. QED
      BY <2>2, <2>3, <3>1, <3>2
  <2>6. CASE k # NoKey /\ v # Nil
    <3>1. k \in Key /\ v \in Value /\ D[i] = [key |-> k, value |-> v]
      BY <2>1, <2>6, EntryKinds
    <3>2. \A j \in 1..(i - 1) : D[j].key # k
      <4>1. \A j \in 1..(i - 1) : j \in 1..n /\ j # i
        BY <1>1
      <4>2. QED
        BY <1>1, <3>1, <4>1 DEF HashOK
    <3> HIDE DEF k, v
    <3>3. /\ f[i].array = b.array /\ f[i].max = b.max
          /\ \A q \in Key, w \in Value : Maps(f[i], q, w) <=> IF q = k THEN w = v ELSE Maps(b, q, w)
      BY <2>1, <2>4, <2>6, <3>1, SetHash
    <3>4. ASSUME NEW q \in Key, NEW w \in Value
          PROVE  (IF q = k THEN w = v ELSE Maps(b, q, w))
                   <=> w # Nil /\ \E j \in 1..i : D[j] = [key |-> q, value |-> w]
      <4> DEFINE d == [key |-> q, value |-> w]
      <4>1. d.key = q /\ (D[i] = d <=> q = k /\ w = v)
        BY <3>1
      <4>2. Maps(b, q, w) <=> w # Nil /\ \E j \in 1..(i - 1) : D[j] = d
        BY <2>3
      <4> HIDE DEF d
      <4>3. CASE q = k
        <5>1. \A j \in 1..(i - 1) : D[j] # d
          BY <3>2, <4>1, <4>3
        <5>2. QED
          BY <2>2, <2>6, <4>1, <4>3, <5>1 DEF d
      <4>4. CASE q # k
        BY <2>2, <4>1, <4>2, <4>4 DEF d
      <4>5. QED
        BY <4>3, <4>4
    <3>5. QED
      BY <2>3, <3>3, <3>4
  <2>7. QED
    BY <2>5, <2>6
<1>5. n \in T
  <2>1. 0 \in T /\ \A i \in 1..n : i - 1 \in T => i \in T
    <3> HIDE DEF Good
    <3>1. QED
      BY <1>1, <1>3, <1>4
  <2> HIDE DEF T
  <2>2. QED
    BY <1>1, <2>1, IntervalInduction
<1>6. Good(n)
  BY <1>5
<1>7. Clone(t) = f[n]
  BY DEF Clone, f, n
<1>8. f[n] \in Table /\ HashPart(f[n])
  BY <1>1, <1>2 DEF Hashed
<1>9. QED
  BY <1>6, <1>7, <1>8 DEF Maps, D, n

----------------------------------------------------------------------------
(* The array. *)

ArrayPart(t) == \A i \in 1..Len(t.array) : t.array[i] # Nil => i <= t.max

SameHash(u, t) ==
  u.entries = t.entries /\ u.capacity = t.capacity /\ u.count = t.count /\ u.version = t.version

LEMMA Elements ==
  ASSUME NEW t \in Table
  PROVE  /\ Len(t.array) \in Nat /\ t.max \in Nat /\ DOMAIN t.array = 1..Len(t.array)
         /\ \A i : At(t, i) \in Value
         /\ \A i : At(t, i) # Nil => i \in 1..Len(t.array)
         /\ \A i \in 1..Len(t.array) : At(t, i) = t.array[i]
<1> DEFINE a == t.array
<1>1. a \in Seq(Value) /\ t.max \in Nat
  BY Fields
<1> HIDE DEF a
<1>2. Len(a) \in Nat /\ DOMAIN a = 1..Len(a) /\ \A i \in 1..Len(a) : a[i] \in Value
  BY <1>1, LenProperties, ElementOfSeq
<1>3. Nil \in Value
  BY DEF Value
<1>4. QED
  BY <1>1, <1>2, <1>3 DEF At, a

\* Doubling reaches every index.
LEMMA DoubledHolds ==
  ASSUME NEW n \in Nat \ {0}, NEW index \in Nat
  PROVE  Doubled(n, index) \in Nat /\ Doubled(n, index) >= index
<1> DEFINE S == Nat \ {0}
           step == [z \in S \X (1..index) |-> 2 * z[1]]
           f == Doublings(n, index)
<1>1. \A u \in S, i \in 1..index : 2 * u \in S
  OBVIOUS
<1> HIDE DEF S
<1>2. step \in [S \X (1..index) -> S] /\ \A u \in S, i \in 1..index : step[<<u, i>>] = 2 * u
  BY <1>1
<1> HIDE DEF step
<1>3. PICK g \in [0..index -> S] : g[0] = n /\ \A i \in 1..index : g[i] = step[<<g[i - 1], i>>]
  <2>1. IsStep(step, S, index) /\ n \in S
    BY <1>2 DEF IsStep, S
  <2>2. PICK g : IsLoop(g, step, n, S, index)
    BY <2>1, LoopExists
  <2>3. QED
    BY <2>2 DEF IsLoop
<1>4. g = [k \in 0..index |-> IF k = 0 THEN n ELSE 2 * g[k - 1]]
  <2>1. \A i \in 1..index : i - 1 \in 0..index /\ g[i] = 2 * g[i - 1]
    <3>1. \A i \in 1..index : i - 1 \in 0..index
      OBVIOUS
    <3>2. \A i \in 1..index : g[i - 1] \in S
      BY <1>3, <3>1
    <3>3. QED
      BY <1>2, <1>3, <3>1, <3>2
  <2>2. \A i \in 0..index : i = 0 \/ i \in 1..index
    OBVIOUS
  <2>3. \A i \in 0..index : g[i] = IF i = 0 THEN n ELSE 2 * g[i - 1]
    BY <1>3, <2>1, <2>2
  <2>4. QED
    BY <1>3, <2>3
<1>5. f = [k \in 0..index |-> IF k = 0 THEN n ELSE 2 * f[k - 1]]
  BY <1>4, Zenon DEF Doublings
<1>6. Doubled(n, index) = f[Min({k \in 0..index : f[k] >= index})]
  BY DEF Doubled
<1> HIDE DEF f
<1> DEFINE T == {k \in 0..index : f[k] \in Nat /\ f[k] >= k + 1}
<1>7. 0..index \subseteq T
  <2>1. 0 \in T
    BY <1>5
  <2>2. ASSUME NEW i \in 1..index, i - 1 \in T PROVE i \in T
    BY <1>5, <2>2
  <2> HIDE DEF T
  <2>3. QED
    BY <2>1, <2>2, IntervalInduction
<1> DEFINE R == {k \in 0..index : f[k] >= index}
<1>8. index \in R /\ R \subseteq Nat
  BY <1>7
<1>9. Min(R) \in R
  <2> HIDE DEF R
  <2>1. QED
    BY <1>8, MinOfNaturals
<1>10. QED
  BY <1>6, <1>7, <1>9

LEMMA GrowArray ==
  ASSUME NEW t \in Table, NEW c \in Nat
  PROVE  LET u == Grow(t, c)
         IN /\ u \in Table /\ SameHash(u, t) /\ u.max = t.max
            /\ Len(u.array) = c /\ \A i \in 1..c : u.array[i] = At(t, i)
<1> DEFINE w == [i \in 1..c |-> At(t, i)]
           u == Grow(t, c)
<1>1. \A i \in 1..c : At(t, i) \in Value
  BY Elements
<1>2. w \in Seq(Value) /\ Len(w) = c /\ \A i \in 1..c : w[i] = At(t, i)
  BY <1>1
<1>3. u = WithArray(t, w)
  BY DEF Grow, WithArray
<1> HIDE DEF w, u
<1>4. FieldsAre(u, t.entries, t.capacity, t.count, t.version, w, t.max)
  BY <1>2, <1>3, NewArray
<1>5. QED
  BY <1>2, <1>4 DEF FieldsAre, SameHash, u

LEMMA HoldingArray ==
  ASSUME NEW t \in Table, NEW index \in Nat
  PROVE  LET u == Holding(t, index)
         IN /\ u \in Table /\ SameHash(u, t) /\ u.max = t.max
            /\ Len(u.array) \in Nat /\ Len(u.array) >= Len(t.array) /\ Len(u.array) >= index
            /\ \A i \in 1..Len(u.array) : u.array[i] = At(t, i)
<1>1. Len(t.array) \in Nat /\ t.array \in Seq(Value) /\ \A i \in 1..Len(t.array) : At(t, i) = t.array[i]
  BY Elements, Fields
<1>2. CASE index <= Len(t.array)
  <2>1. Holding(t, index) = t
    BY <1>1, <1>2 DEF Holding
  <2>2. QED
    BY <1>1, <1>2, <2>1 DEF SameHash
<1>3. CASE index > Len(t.array)
  <2> DEFINE first == IF t.array = <<>> THEN MinArray ELSE 2 * Len(t.array)
             c == Doubled(first, index)
  <2>1. first \in Nat \ {0}
    BY <1>1, SizesAssumption, EmptySeq
  <2>2. Holding(t, index) = Grow(t, c)
    BY <1>3 DEF Holding
  <2> HIDE DEF first
  <2>3. c \in Nat /\ c >= index
    BY <2>1, DoubledHolds
  <2> HIDE DEF c
  <2> DEFINE u == Grow(t, c)
  <2>4. /\ u \in Table /\ SameHash(u, t) /\ u.max = t.max
        /\ Len(u.array) = c /\ \A i \in 1..c : u.array[i] = At(t, i)
    BY <2>3, GrowArray
  <2> HIDE DEF u
  <2>5. QED
    BY <1>1, <1>3, <2>2, <2>3, <2>4 DEF u
<1>4. QED
  BY <1>1, <1>2, <1>3

LEMMA WriteArray ==
  ASSUME NEW t \in Table, NEW p \in 1..Len(t.array), NEW v \in Value
  PROVE  LET u == [t EXCEPT !.array[p] = v]
         IN /\ u \in Table /\ SameHash(u, t) /\ u.max = t.max
            /\ Len(u.array) = Len(t.array)
            /\ \A i \in 1..Len(t.array) : u.array[i] = IF i = p THEN v ELSE t.array[i]
<1> DEFINE a == t.array
           w == [a EXCEPT ![p] = v]
           u == [t EXCEPT !.array[p] = v]
<1>1. a \in Seq(Value) /\ p \in 1..Len(a)
  BY Fields
<1>2. u = WithArray(t, w)
  BY DEF WithArray
<1> HIDE DEF a, u
<1>3. w \in Seq(Value) /\ Len(w) = Len(a) /\ \A i \in 1..Len(a) : w[i] = IF i = p THEN v ELSE a[i]
  BY <1>1
<1> HIDE DEF w
<1>4. FieldsAre(u, t.entries, t.capacity, t.count, t.version, w, t.max)
  BY <1>2, <1>3, NewArray
<1>5. QED
  BY <1>3, <1>4 DEF FieldsAre, SameHash, u, a

LEMMA MoveMax ==
  ASSUME NEW t \in Table, NEW m \in Nat
  PROVE  LET u == [t EXCEPT !.max = m]
         IN u \in Table /\ SameHash(u, t) /\ u.max = m /\ u.array = t.array
<1>1. FieldsAre(WithMax(t, m), t.entries, t.capacity, t.count, t.version, t.array, m)
  BY NewMax
<1>2. [t EXCEPT !.max = m] = WithMax(t, m)
  BY DEF WithMax
<1>3. QED
  BY <1>1, <1>2 DEF FieldsAre, SameHash

\* What table_set_array and table.push leave of a table: v at place p, the rest
\* of the array, and no element past the maximum.
Stored(u, t, p, v) ==
  /\ u \in Table /\ SameHash(u, t) /\ ArrayPart(u)
  /\ Len(u.array) \in Nat /\ Len(u.array) >= Len(t.array) /\ Len(u.array) >= p
  /\ \A i \in 1..Len(u.array) : u.array[i] = IF i = p THEN v ELSE At(t, i)

\* The array with the new element, before the maximum moves.
LEMMA Placing ==
  ASSUME NEW t \in Table, ArrayPart(t), NEW p \in Nat \ {0}, NEW v \in Value
  PROVE  LET w == [Holding(t, p) EXCEPT !.array[p] = v]
         IN /\ w \in Table /\ SameHash(w, t) /\ w.max = t.max /\ t.max \in Nat
            /\ Len(w.array) \in Nat /\ Len(w.array) >= Len(t.array) /\ Len(w.array) >= p
            /\ \A i \in 1..Len(w.array) : w.array[i] = IF i = p THEN v ELSE At(t, i)
            /\ \A i \in 1..Len(w.array) : w.array[i] # Nil /\ i # p => i <= t.max
<1> DEFINE r == Holding(t, p)
           w == [r EXCEPT !.array[p] = v]
<1>1. /\ r \in Table /\ SameHash(r, t) /\ r.max = t.max
      /\ Len(r.array) \in Nat /\ Len(r.array) >= Len(t.array) /\ Len(r.array) >= p
      /\ \A i \in 1..Len(r.array) : r.array[i] = At(t, i)
  BY HoldingArray
<1> HIDE DEF r
<1>2. p \in 1..Len(r.array)
  BY <1>1
<1>3. /\ w \in Table /\ SameHash(w, r) /\ w.max = r.max /\ Len(w.array) = Len(r.array)
      /\ \A i \in 1..Len(r.array) : w.array[i] = IF i = p THEN v ELSE r.array[i]
  BY <1>1, <1>2, WriteArray
<1> HIDE DEF w
<1>4. \A i \in 1..Len(w.array) : w.array[i] = IF i = p THEN v ELSE At(t, i)
  BY <1>1, <1>3
<1>5. ASSUME NEW i \in 1..Len(w.array), w.array[i] # Nil, i # p PROVE i <= t.max
  <2>1. At(t, i) # Nil
    BY <1>4, <1>5
  <2>2. i \in 1..Len(t.array) /\ t.array[i] # Nil
    BY <2>1, Elements
  <2>3. QED
    BY <2>2 DEF ArrayPart
<1>6. QED
  BY <1>1, <1>3, <1>4, <1>5, Elements DEF SameHash, w, r

\* table_set_array
LEMMA SetArrayStores ==
  ASSUME NEW t \in Table, ArrayPart(t), NEW p \in Int, NEW v \in Value
  PROVE  IF Fits(t, p) THEN Stored(SetArray(t, p, v), t, p, v) ELSE SetArray(t, p, v) = t
<1>1. CASE ~Fits(t, p)
  BY <1>1 DEF SetArray
<1>2. CASE Fits(t, p)
  <2> DEFINE w == [Holding(t, p) EXCEPT !.array[p] = v]
             lower == {i \in 1..(p - 1) : w.array[i] # Nil}
             m == IF v # Nil THEN IF p > t.max THEN p ELSE t.max
                  ELSE IF p = t.max THEN Max({0} \cup lower) ELSE t.max
             u == SetArray(t, p, v)
  <2>1. p \in Nat \ {0}
    BY <1>2 DEF Fits
  <2>2. /\ w \in Table /\ SameHash(w, t) /\ w.max = t.max /\ t.max \in Nat
        /\ Len(w.array) \in Nat /\ Len(w.array) >= Len(t.array) /\ Len(w.array) >= p
        /\ \A i \in 1..Len(w.array) : w.array[i] = IF i = p THEN v ELSE At(t, i)
        /\ \A i \in 1..Len(w.array) : w.array[i] # Nil /\ i # p => i <= t.max
    BY <2>1, Placing
  <2>3. u = IF v # Nil THEN [w EXCEPT !.max = IF p > w.max THEN p ELSE w.max]
            ELSE IF p = t.max THEN [w EXCEPT !.max = Max({0} \cup lower)] ELSE w
    BY <1>2 DEF SetArray
  <2> HIDE DEF w, u
  <2>4. Max({0} \cup lower) \in Nat /\ \A i \in lower : i <= Max({0} \cup lower)
    <3> DEFINE L == {0} \cup lower
    <3>1. L \subseteq 0..p /\ L # {}
      BY <2>1
    <3> HIDE DEF L
    <3>2. Max(L) \in L /\ \A i \in L : i <= Max(L)
      BY <2>1, <3>1, MaxOfNaturals
    <3>3. Max(L) \in Nat
      <4>1. Max(L) \in 0..p
        BY <3>1, <3>2
      <4> DEFINE x == Max(L)
      <4> HIDE DEF x
      <4>2. x \in 0..p => x \in Nat
        OBVIOUS
      <4>3. QED
        BY <4>1, <4>2 DEF x
    <3>4. QED
      BY <3>2, <3>3 DEF L
  <2>5. m \in Nat /\ \A i \in 1..Len(w.array) : w.array[i] # Nil => i <= m
    <3>1. CASE v # Nil
      BY <2>1, <2>2, <3>1
    <3>2. CASE v = Nil /\ p # t.max
      BY <2>1, <2>2, <3>2
    <3>3. CASE v = Nil /\ p = t.max
      <4>1. ASSUME NEW i \in 1..Len(w.array), w.array[i] # Nil PROVE i \in lower
        <5>1. i # p
          BY <2>2, <3>3, <4>1
        <5>2. i <= p
          BY <2>2, <3>3, <4>1, <5>1
        <5>3. QED
          BY <2>1, <4>1, <5>1, <5>2
      <4>2. QED
        BY <2>4, <3>3, <4>1
    <3>4. QED
      BY <3>1, <3>2, <3>3
  <2>6. (u = w /\ m = t.max) \/ u = [w EXCEPT !.max = m]
    BY <2>2, <2>3
  <2> HIDE DEF m
  <2>7. u \in Table /\ SameHash(u, w) /\ u.max = m /\ u.array = w.array
    <3> DEFINE x == [w EXCEPT !.max = m]
    <3>1. x \in Table /\ SameHash(x, w) /\ x.max = m /\ x.array = w.array
      BY <2>2, <2>5, MoveMax
    <3> HIDE DEF x
    <3>2. (u = w /\ m = t.max) \/ u = x
      BY <2>6 DEF x
    <3>3. QED
      BY <2>2, <3>1, <3>2 DEF SameHash
  <2>8. Stored(u, t, p, v)
    BY <2>2, <2>5, <2>7 DEF Stored, SameHash, ArrayPart
  <2>9. QED
    BY <1>2, <2>8 DEF u
<1>3. QED
  BY <1>1, <1>2

\* table.push
LEMMA PushStores ==
  ASSUME NEW t \in Table, ArrayPart(t), NEW v \in Value
  PROVE  Stored(Push(t, v), t, t.max + 1, v)
<1> DEFINE p == t.max + 1
           w == [Holding(t, p) EXCEPT !.array[p] = v]
           u == Push(t, v)
<1>1. p \in Nat \ {0}
  BY Fields
<1>2. u = [w EXCEPT !.max = p]
  BY DEF Push
<1> HIDE DEF p
<1>3. /\ w \in Table /\ SameHash(w, t) /\ t.max \in Nat
      /\ Len(w.array) \in Nat /\ Len(w.array) >= Len(t.array) /\ Len(w.array) >= p
      /\ \A i \in 1..Len(w.array) : w.array[i] = IF i = p THEN v ELSE At(t, i)
      /\ \A i \in 1..Len(w.array) : w.array[i] # Nil /\ i # p => i <= t.max
  BY <1>1, Placing
<1> HIDE DEF w, u
<1> DEFINE x == [w EXCEPT !.max = p]
<1>4. x \in Table /\ SameHash(x, w) /\ x.max = p /\ x.array = w.array
  BY <1>1, <1>3, MoveMax
<1> HIDE DEF x
<1>5. u = x
  BY <1>2 DEF x
<1>6. \A i \in 1..Len(w.array) : w.array[i] # Nil => i <= p
  BY <1>1, <1>3 DEF p
<1>7. Stored(u, t, p, v)
  BY <1>3, <1>4, <1>5, <1>6 DEF Stored, SameHash, ArrayPart
<1>8. QED
  BY <1>7 DEF u, p

\* table.reserve
LEMMA ReserveKeeps ==
  ASSUME NEW t \in Table, ArrayPart(t), NEW n \in Int
  PROVE  LET u == Reserve(t, n) IN u \in Table /\ SameHash(u, t) /\ ArrayPart(u)
<1> DEFINE u == Reserve(t, n)
<1>1. Len(t.array) \in Nat /\ t.array \in Seq(Value)
  BY Elements, Fields
<1>2. CASE n <= Len(t.array)
  BY <1>2 DEF Reserve, SameHash
<1>3. CASE ~(n <= Len(t.array))
  <2> DEFINE first == IF t.array = <<>> THEN MinArray ELSE Len(t.array)
             c == Doubled(first, n)
  <2>1. first \in Nat \ {0} /\ n \in Nat
    BY <1>1, <1>3, SizesAssumption, EmptySeq
  <2>2. u = Grow(t, c)
    BY <1>3 DEF Reserve
  <2> HIDE DEF first, u
  <2>3. c \in Nat
    BY <2>1, DoubledHolds
  <2> HIDE DEF c
  <2> DEFINE g == Grow(t, c)
  <2>4. /\ g \in Table /\ SameHash(g, t) /\ g.max = t.max
        /\ Len(g.array) = c /\ \A i \in 1..c : g.array[i] = At(t, i)
    BY <2>3, GrowArray
  <2> HIDE DEF g
  <2>5. u = g
    BY <2>2 DEF g
  <2>6. ArrayPart(g)
    <3>1. ASSUME NEW i \in 1..c, g.array[i] # Nil PROVE i <= t.max
      <4>1. At(t, i) # Nil
        BY <2>4, <3>1
      <4>2. i \in 1..Len(t.array) /\ t.array[i] # Nil
        BY <4>1, Elements
      <4>3. QED
        BY <4>2 DEF ArrayPart
    <3>2. QED
      BY <2>4, <3>1 DEF ArrayPart
  <2>7. QED
    BY <2>4, <2>5, <2>6 DEF u
<1>4. QED
  BY <1>2, <1>3

----------------------------------------------------------------------------
(* The operations that move elements of the array. *)

Keeps(u, t) == u \in Table /\ SameHash(u, t) /\ ArrayPart(u)

\* The length the library functions see.
LEMMA DenseLength ==
  ASSUME NEW t \in Table
  PROVE  /\ Dense(t) \in Nat /\ Dense(t) <= Len(t.array)
         /\ \A i \in 1..Dense(t) : i \in 1..Len(t.array) /\ t.array[i] # Nil
<1> DEFINE S == {0} \cup {n \in DOMAIN t.array : \A i \in 1..n : t.array[i] # Nil}
           l == Len(t.array)
<1>1. l \in Nat /\ DOMAIN t.array = 1..l
  BY Elements
<1>2. S \subseteq 0..l /\ S # {}
  BY <1>1
<1>3. Dense(t) = Max(S)
  BY DEF Dense
<1> HIDE DEF S
<1>4. Dense(t) \in S /\ Dense(t) \in 0..l
  <2>1. Max(S) \in S
    BY <1>1, <1>2, MaxOfNaturals
  <2>2. QED
    BY <1>2, <1>3, <2>1
<1> DEFINE d == Dense(t)
<1> HIDE DEF d, l
<1>5. d \in S /\ d \in 0..l
  BY <1>4 DEF d
<1>6. d \in Nat /\ d <= l
  BY <1>1, <1>5
<1>7. \A i \in 1..d : i \in 1..l
  BY <1>1, <1>6
<1>8. \A i \in 1..d : t.array[i] # Nil
  BY <1>5, <1>6 DEF S
<1>9. QED
  BY <1>6, <1>7, <1>8 DEF d, l

\* A step of a loop that moves elements: table_set_array with what another
\* place holds.
LEMMA MoveOne ==
  ASSUME NEW t \in Table, ArrayPart(t), NEW p \in Int, NEW q
  PROVE  LET u == SetArray(t, p, At(t, q)) IN u \in Table /\ SameHash(u, t) /\ ArrayPart(u)
<1> DEFINE v == At(t, q)
<1>1. v \in Value
  BY Elements
<1> HIDE DEF v
<1>2. IF Fits(t, p) THEN Stored(SetArray(t, p, v), t, p, v) ELSE SetArray(t, p, v) = t
  BY <1>1, SetArrayStores
<1>3. QED
  BY <1>2 DEF v, Stored, SameHash

LEMMA MovedSteps ==
  ASSUME NEW t \in Table, ArrayPart(t), NEW m \in Nat, NEW places \in [1..m -> Int], NEW by \in Int
  PROVE  LET f == Moved(t, places, by)
         IN /\ f[0] = t
            /\ \A k \in 1..m : f[k] = SetArray(f[k - 1], places[k] + by, At(f[k - 1], places[k]))
            /\ \A k \in 0..m : Keeps(f[k], t)
<1> DEFINE S == {u \in Table : Keeps(u, t)}
           Step(u, k) == SetArray(u, places[k] + by, At(u, places[k]))
           step == [z \in S \X (1..m) |-> Step(z[1], z[2])]
           f == Moved(t, places, by)
<1>1. t \in S
  BY DEF Keeps, SameHash
<1>2. ASSUME NEW u \in S, NEW k \in 1..m PROVE Step(u, k) \in S
  <2>1. places[k] + by \in Int /\ u \in Table /\ ArrayPart(u) /\ SameHash(u, t)
    BY DEF Keeps
  <2>2. Step(u, k) \in Table /\ SameHash(Step(u, k), u) /\ ArrayPart(Step(u, k))
    BY <2>1, MoveOne
  <2> HIDE DEF Step
  <2>3. QED
    BY <2>1, <2>2 DEF Keeps, SameHash
<1>3. Len(places) = m
  OBVIOUS
<1> HIDE DEF Step, S
<1>4. step \in [S \X (1..m) -> S] /\ \A u \in S, k \in 1..m : step[<<u, k>>] = Step(u, k)
  BY <1>2
<1> HIDE DEF step
<1>5. PICK g \in [0..m -> S] : g[0] = t /\ \A k \in 1..m : g[k] = step[<<g[k - 1], k>>]
  <2>1. IsStep(step, S, m)
    BY <1>4 DEF IsStep
  <2>2. PICK g : IsLoop(g, step, t, S, m)
    BY <1>1, <2>1, LoopExists
  <2>3. QED
    BY <2>2 DEF IsLoop
<1>6. \A k \in 1..m : k - 1 \in 0..m
  OBVIOUS
<1>7. g = [k \in 0..m |-> IF k = 0 THEN t ELSE Step(g[k - 1], k)]
  <2>1. \A k \in 1..m : g[k - 1] \in S
    BY <1>5, <1>6
  <2>2. \A k \in 1..m : g[k] = Step(g[k - 1], k)
    BY <1>4, <1>5, <2>1
  <2>3. \A k \in 0..m : k = 0 \/ k \in 1..m
    OBVIOUS
  <2>4. \A k \in 0..m : g[k] = IF k = 0 THEN t ELSE Step(g[k - 1], k)
    BY <1>5, <2>2, <2>3
  <2>5. QED
    BY <1>5, <2>4
<1>8. f = [k \in 0..m |-> IF k = 0 THEN t ELSE Step(f[k - 1], k)]
  BY <1>3, <1>7, Zenon DEF Moved, Step
<1> HIDE DEF f
<1>9. f[0] = t /\ \A k \in 1..m : f[k] = Step(f[k - 1], k)
  BY <1>8
<1>10. \A k \in 0..m : f[k] \in S
  <2> DEFINE T == {k \in 0..m : f[k] \in S}
  <2>1. 0 \in T /\ \A k \in 1..m : k - 1 \in T => k \in T
    BY <1>1, <1>2, <1>9
  <2> HIDE DEF T
  <2>2. 0..m \subseteq T
    BY <2>1, IntervalInduction
  <2>3. QED
    BY <2>2 DEF T
<1>11. QED
  BY <1>9, <1>10 DEF f, Step, S

\* The rounds of the loop of table.insert, from the last element of the list down.
Rounds(t, pos, v, at, m, places) ==
  /\ at = Clamped(pos, Dense(t)) /\ m = Dense(t) - at + 1 /\ 1 <= at
  /\ \A k \in 1..m : places[k] = Dense(t) - k + 1
  /\ Insert(t, pos, v) = SetArray(Moved(t, places, 1)[m], at, v)

LEMMA InsertPlaces ==
  ASSUME NEW t \in Table, ArrayPart(t), NEW pos \in Int, NEW v
  PROVE  \E at \in Int, m \in Nat : \E places \in [1..m -> Int] : Rounds(t, pos, v, at, m, places)
<1> DEFINE n == Dense(t)
           at == Clamped(pos, n)
           m == n - at + 1
           places == [k \in 1..m |-> n - k + 1]
<1>1. n \in Nat
  BY DenseLength
<1>2. Insert(t, pos, v) = SetArray(Moved(t, places, 1)[m], at, v)
  BY DEF Insert
<1> HIDE DEF n
<1>3. at \in Int /\ m \in Nat /\ 1 <= at
  BY <1>1 DEF Clamped
<1> HIDE DEF at, m
<1>4. places \in [1..m -> Int] /\ \A k \in 1..m : places[k] = n - k + 1
  BY <1>1, <1>3
<1> HIDE DEF places
<1>5. at = Clamped(pos, n) /\ m = n - at + 1
  BY DEF at, m
<1>6. Rounds(t, pos, v, at, m, places)
  BY <1>2, <1>3, <1>4, <1>5 DEF n, Rounds
<1>7. QED
  BY <1>3, <1>4, <1>6

LEMMA InsertKeeps ==
  ASSUME NEW t \in Table, ArrayPart(t), NEW pos \in Int, NEW v \in Value
  PROVE  Keeps(Insert(t, pos, v), t)
<1>1. PICK at \in Int, m \in Nat : \E places \in [1..m -> Int] : Rounds(t, pos, v, at, m, places)
  BY InsertPlaces
<1>2. PICK places \in [1..m -> Int] : Insert(t, pos, v) = SetArray(Moved(t, places, 1)[m], at, v)
  BY <1>1 DEF Rounds
<1> DEFINE u == Moved(t, places, 1)[m]
<1>3. Keeps(u, t)
  BY MovedSteps
<1> HIDE DEF u
<1>4. IF Fits(u, at) THEN Stored(SetArray(u, at, v), u, at, v) ELSE SetArray(u, at, v) = u
  BY <1>3, SetArrayStores DEF Keeps
<1>5. QED
  BY <1>2, <1>3, <1>4 DEF u, Keeps, Stored, SameHash

\* table.remove
LEMMA TakeOutKeeps ==
  ASSUME NEW t \in Table, ArrayPart(t), NEW pos \in Int
  PROVE  Keeps(TakeOut(t, pos), t)
<1> DEFINE n == Dense(t)
           m == n - pos
           places == [k \in 1..m |-> pos + k]
           u == Moved(t, places, -1)[m]
<1>1. n \in Nat
  BY DenseLength
<1>2. TakeOut(t, pos) = IF pos < 1 \/ pos > n THEN t ELSE SetArray(u, n, Nil)
  BY DEF TakeOut
<1>3. CASE pos < 1 \/ pos > n
  BY <1>2, <1>3 DEF Keeps, SameHash
<1>4. CASE ~(pos < 1 \/ pos > n)
  <2> HIDE DEF n
  <2>1. m \in Nat
    BY <1>1, <1>4
  <2> HIDE DEF m
  <2>2. places \in [1..m -> Int] /\ -1 \in Int
    BY <2>1
  <2> HIDE DEF places
  <2>3. Keeps(u, t)
    BY <2>1, <2>2, MovedSteps
  <2> HIDE DEF u
  <2>4. IF Fits(u, n) THEN Stored(SetArray(u, n, Nil), u, n, Nil) ELSE SetArray(u, n, Nil) = u
    BY <1>1, <2>3, SetArrayStores DEF Keeps, Value
  <2>5. QED
    BY <1>2, <1>4, <2>3, <2>4 DEF Keeps, Stored, SameHash
<1>5. QED
  BY <1>3, <1>4

\* OP_SET_TABLE and OP_DELETE_TABLE with an index.
LEMMA IndexWrite ==
  ASSUME NEW t \in Table, ArrayPart(t), NEW index \in Int, NEW v \in Value
  PROVE  /\ Keeps(SetIndex(t, index, v), t) \/ SetIndex(t, index, v) = Set(t, index, v)
         /\ index = t.max + 1 => Keeps(SetIndex(t, index, v), t)
         /\ Keeps(DeleteIndex(t, index), t) \/ (Has(t, index) /\ DeleteIndex(t, index) = Delete(t, index))
<1> DEFINE i == Resolved(t, index)
           u == SetIndex(t, index, v)
           d == DeleteIndex(t, index)
<1>1. i \in Int /\ (index >= 0 => i = index)
  BY DenseLength DEF Resolved
<1>2. u = IF Fits(t, i) THEN SetArray(t, i, v) ELSE Set(t, index, v)
  BY DEF SetIndex
<1>3. d = IF At(t, i) # Nil THEN SetArray(t, i, Nil) ELSE IF Has(t, index) THEN Delete(t, index) ELSE t
  BY DEF DeleteIndex
<1> HIDE DEF i, u, d
<1>4. Nil \in Value
  BY DEF Value
<1>5. \A w \in Value : Keeps(SetArray(t, i, w), t)
  <2> TAKE w \in Value
  <2>1. IF Fits(t, i) THEN Stored(SetArray(t, i, w), t, i, w) ELSE SetArray(t, i, w) = t
    BY <1>1, SetArrayStores
  <2>2. QED
    BY <2>1 DEF Keeps, Stored, SameHash
<1>6. Keeps(t, t)
  BY DEF Keeps, SameHash
<1>7. index = t.max + 1 => Fits(t, i)
  BY <1>1, Fields DEF Fits
<1>8. QED
  BY <1>2, <1>3, <1>4, <1>5, <1>6, <1>7 DEF u, d

----------------------------------------------------------------------------
(* The inductive invariant. *)

Contents == UNION {[K -> Value] : K \in SUBSET Names}

\* The table t holds c, the names the script has put in it.
Holds(t, c) ==
  \A k \in Names, v \in Value : Maps(t, k, v) <=> k \in DOMAIN c /\ c[k] = v

Sound(t, c) == t \in Table /\ HashPart(t) /\ ArrayPart(t) /\ Holds(t, c)

\* What the cache remembers was in its table when the table had that version.
\* It keeps its table, so the address cannot have become that of another.
Remembers(s, t) ==
  /\ t \in Table /\ s.key \in Names /\ s.value \in Value
  /\ s.version \in Nat /\ s.version <= t.version
  /\ s.version = t.version => Maps(t, s.key, s.value)

TablesInv ==
  /\ heap \in [Address -> Table \cup {Nil}]
  /\ held \in [Vars -> Address \cup {Nil}]
  /\ contents \in [Address -> Contents]
  /\ \A a \in Address : heap[a] # Nil => Sound(heap[a], contents[a])
  /\ \A x \in Vars : held[x] # Nil => heap[held[x]] # Nil
  /\ site.table \in Address \cup {Nil}
  /\ site.table # Nil => heap[site.table] # Nil /\ Remembers(site, heap[site.table])

\* A table that is written has a new version, or the same hash.
Follows(u, t) == u.version = t.version + 1 \/ SameHash(u, t)

\* What is known of a function of names to values.
LEMMA ContentsOf ==
  /\ \A K \in SUBSET Names : \A c \in [K -> Value] : c \in Contents
  /\ \A c \in Contents : DOMAIN c \subseteq Names /\ \A k \in DOMAIN c : c[k] \in Value
<1>1. ASSUME NEW K \in SUBSET Names, NEW c \in [K -> Value] PROVE c \in Contents
  BY DEF Contents
<1>2. ASSUME NEW c \in Contents PROVE DOMAIN c \subseteq Names /\ \A k \in DOMAIN c : c[k] \in Value
  <2>1. PICK K \in SUBSET Names : c \in [K -> Value]
    BY DEF Contents
  <2>2. QED
    BY <2>1
<1>3. QED
  BY <1>1, <1>2

\* A table is not nil and neither is an address.
LEMMA NilApart ==
  Nil \notin Table /\ Nil \notin Address /\ Names \subseteq Key /\ Indexes \subseteq Key /\ Indexes \subseteq Int
BY NilAssumption, KeysAssumption DEF Key

LEMMA SoundNew == Sound(EmptyTable, <<>>) /\ <<>> \in Contents
<1>1. EmptyTable \in Table /\ EmptyTable.entries = <<>> /\ EmptyTable.capacity = 0 /\ EmptyTable.count = 0
      /\ EmptyTable.array = <<>>
  BY DEF EmptyTable, Table
<1>2. HashPart(EmptyTable)
  <2>1. Used(<<>>, 0) = {}
    BY DEF Used
  <2>2. <<>> \in [1..0 -> Entry]
    OBVIOUS
  <2>3. HashOK(<<>>, 0)
    BY <2>2 DEF HashOK
  <2>4. QED
    BY <1>1, <2>1, <2>3, FS_EmptySet DEF HashPart
<1>3. ArrayPart(EmptyTable)
  BY <1>1 DEF ArrayPart
<1>4. <<>> \in [{} -> Value]
  OBVIOUS
<1>5. <<>> \in Contents
  BY <1>4, ContentsOf
<1>6. DOMAIN <<>> = {}
  OBVIOUS
<1>7. Holds(EmptyTable, <<>>)
  BY <1>1, <1>6 DEF Holds, Maps
<1>8. QED
  BY <1>1, <1>2, <1>3, <1>5, <1>7 DEF Sound

\* x[k] = v
LEMMA SoundSet ==
  ASSUME NEW t, NEW c \in Contents, Sound(t, c), NEW k \in Names, NEW v \in Value
  PROVE  LET d == [n \in DOMAIN c \cup {k} |-> IF n = k THEN v ELSE c[n]]
         IN Sound(Set(t, k, v), d) /\ d \in Contents /\ Follows(Set(t, k, v), t)
<1> DEFINE d == [n \in DOMAIN c \cup {k} |-> IF n = k THEN v ELSE c[n]]
           u == Set(t, k, v)
<1>1. /\ u \in Table /\ HashPart(u) /\ u.version = t.version + 1 /\ u.array = t.array /\ u.max = t.max
      /\ \A q \in Key, w \in Value : Maps(u, q, w) <=> IF q = k THEN w = v ELSE Maps(t, q, w)
  BY NilApart, SetHash DEF Sound
<1> HIDE DEF u
<1>2. DOMAIN d = DOMAIN c \cup {k} /\ \A n \in DOMAIN d : d[n] = IF n = k THEN v ELSE c[n]
  OBVIOUS
<1>3. DOMAIN d \in SUBSET Names /\ d \in [DOMAIN d -> Value]
  BY ContentsOf
<1> HIDE DEF d
<1>4. d \in Contents
  BY <1>3, ContentsOf
<1>5. Holds(u, d)
  <2> SUFFICES ASSUME NEW q \in Names, NEW w \in Value PROVE Maps(u, q, w) <=> q \in DOMAIN d /\ d[q] = w
    BY DEF Holds
  <2>1. Maps(u, q, w) <=> IF q = k THEN w = v ELSE Maps(t, q, w)
    BY <1>1, NilApart
  <2>2. Maps(t, q, w) <=> q \in DOMAIN c /\ c[q] = w
    BY DEF Sound, Holds
  <2>3. QED
    BY <1>2, <2>1, <2>2
<1>6. ArrayPart(u)
  BY <1>1 DEF Sound, ArrayPart
<1>7. QED
  BY <1>1, <1>4, <1>5, <1>6 DEF Sound, Follows, u, d

\* del x[k]
LEMMA SoundDelete ==
  ASSUME NEW t, NEW c \in Contents, Sound(t, c), NEW k \in Names, Has(t, k)
  PROVE  LET d == [n \in DOMAIN c \ {k} |-> c[n]]
         IN Sound(Delete(t, k), d) /\ d \in Contents /\ Follows(Delete(t, k), t)
<1> DEFINE d == [n \in DOMAIN c \ {k} |-> c[n]]
           u == Delete(t, k)
<1>1. /\ u \in Table /\ HashPart(u) /\ u.version = t.version + 1 /\ u.array = t.array /\ u.max = t.max
      /\ \A q \in Key, w \in Value : Maps(u, q, w) <=> q # k /\ Maps(t, q, w)
  BY NilApart, DeleteHash DEF Sound
<1> HIDE DEF u
<1>2. DOMAIN d = DOMAIN c \ {k} /\ \A n \in DOMAIN d : d[n] = c[n]
  OBVIOUS
<1>3. DOMAIN d \in SUBSET Names /\ d \in [DOMAIN d -> Value]
  BY ContentsOf
<1> HIDE DEF d
<1>4. d \in Contents
  BY <1>3, ContentsOf
<1>5. Holds(u, d)
  <2> SUFFICES ASSUME NEW q \in Names, NEW w \in Value PROVE Maps(u, q, w) <=> q \in DOMAIN d /\ d[q] = w
    BY DEF Holds
  <2>1. Maps(u, q, w) <=> q # k /\ Maps(t, q, w)
    BY <1>1, NilApart
  <2>2. Maps(t, q, w) <=> q \in DOMAIN c /\ c[q] = w
    BY DEF Sound, Holds
  <2>3. QED
    BY <1>2, <2>1, <2>2
<1>6. ArrayPart(u)
  BY <1>1 DEF Sound, ArrayPart
<1>7. QED
  BY <1>1, <1>4, <1>5, <1>6 DEF Sound, Follows, u, d

\* table.clone
LEMMA SoundClone ==
  ASSUME NEW t, NEW c \in Contents, Sound(t, c)
  PROVE  LET d == [k \in {n \in DOMAIN c : c[n] # Nil} |-> c[k]]
         IN Sound(Clone(t), d) /\ d \in Contents
<1> DEFINE d == [k \in {n \in DOMAIN c : c[n] # Nil} |-> c[k]]
           u == Clone(t)
<1>1. /\ u \in Table /\ HashPart(u) /\ u.array = t.array /\ u.max = t.max
      /\ \A q \in Key, w \in Value : Maps(u, q, w) <=> w # Nil /\ Maps(t, q, w)
  BY CloneHash DEF Sound
<1> HIDE DEF u
<1>2. DOMAIN d = {n \in DOMAIN c : c[n] # Nil} /\ \A n \in DOMAIN d : d[n] = c[n]
  OBVIOUS
<1>3. DOMAIN d \in SUBSET Names /\ d \in [DOMAIN d -> Value]
  BY ContentsOf
<1> HIDE DEF d
<1>4. d \in Contents
  BY <1>3, ContentsOf
<1>5. Holds(u, d)
  <2> SUFFICES ASSUME NEW q \in Names, NEW w \in Value PROVE Maps(u, q, w) <=> q \in DOMAIN d /\ d[q] = w
    BY DEF Holds
  <2>1. Maps(u, q, w) <=> w # Nil /\ Maps(t, q, w)
    BY <1>1, NilApart
  <2>2. Maps(t, q, w) <=> q \in DOMAIN c /\ c[q] = w
    BY DEF Sound, Holds
  <2>3. QED
    BY <1>2, <2>1, <2>2
<1>6. ArrayPart(u)
  BY <1>1 DEF Sound, ArrayPart
<1>7. QED
  BY <1>1, <1>4, <1>5, <1>6 DEF Sound, u, d

\* What a change of the array alone leaves.
LEMMA SoundKeeps ==
  ASSUME NEW t, NEW c, Sound(t, c), NEW u, Keeps(u, t)
  PROVE  Sound(u, c) /\ Follows(u, t)
<1>1. u \in Table /\ ArrayPart(u) /\ u.entries = t.entries /\ u.capacity = t.capacity /\ u.count = t.count
  BY DEF Keeps, SameHash
<1>2. HashPart(u)
  BY <1>1 DEF Sound, HashPart
<1>3. \A k, v : Maps(u, k, v) <=> Maps(t, k, v)
  BY <1>1 DEF Maps
<1>4. Holds(u, c)
  BY <1>3 DEF Sound, Holds
<1>5. QED
  BY <1>1, <1>2, <1>4 DEF Sound, Keeps, Follows

\* An index in the hash is none of the names.
LEMMA SoundIndex ==
  ASSUME NEW t, NEW c, Sound(t, c), NEW i \in Indexes
  PROVE  /\ \A v \in Value : Sound(SetIndex(t, i, v), c) /\ Follows(SetIndex(t, i, v), t)
         /\ Sound(DeleteIndex(t, i), c) /\ Follows(DeleteIndex(t, i), t)
<1>1. t \in Table /\ HashPart(t) /\ ArrayPart(t) /\ i \in Int /\ i \in Key /\ i \notin Names
  BY KeysAssumption DEF Sound, Key
<1>2. ASSUME NEW v \in Value PROVE Sound(Set(t, i, v), c) /\ Follows(Set(t, i, v), t)
  <2> DEFINE u == Set(t, i, v)
  <2>1. /\ u \in Table /\ HashPart(u) /\ u.version = t.version + 1 /\ u.array = t.array /\ u.max = t.max
        /\ \A q \in Key, w \in Value : Maps(u, q, w) <=> IF q = i THEN w = v ELSE Maps(t, q, w)
    BY <1>1, SetHash
  <2> HIDE DEF u
  <2>2. \A q \in Names, w \in Value : Maps(u, q, w) <=> Maps(t, q, w)
    BY <1>1, <2>1, NilApart
  <2>3. Holds(u, c)
    BY <2>2 DEF Sound, Holds
  <2>4. ArrayPart(u)
    BY <2>1 DEF Sound, ArrayPart
  <2>5. QED
    BY <2>1, <2>3, <2>4 DEF Sound, Follows, u
<1>3. ASSUME Has(t, i) PROVE Sound(Delete(t, i), c) /\ Follows(Delete(t, i), t)
  <2> DEFINE u == Delete(t, i)
  <2>1. /\ u \in Table /\ HashPart(u) /\ u.version = t.version + 1 /\ u.array = t.array /\ u.max = t.max
        /\ \A q \in Key, w \in Value : Maps(u, q, w) <=> q # i /\ Maps(t, q, w)
    BY <1>1, <1>3, DeleteHash
  <2> HIDE DEF u
  <2>2. \A q \in Names, w \in Value : Maps(u, q, w) <=> Maps(t, q, w)
    BY <1>1, <2>1, NilApart
  <2>3. Holds(u, c)
    BY <2>2 DEF Sound, Holds
  <2>4. ArrayPart(u)
    BY <2>1 DEF Sound, ArrayPart
  <2>5. QED
    BY <2>1, <2>3, <2>4 DEF Sound, Follows, u
<1>4. ASSUME NEW v \in Value PROVE Sound(SetIndex(t, i, v), c) /\ Follows(SetIndex(t, i, v), t)
  <2>1. Keeps(SetIndex(t, i, v), t) \/ SetIndex(t, i, v) = Set(t, i, v)
    BY <1>1, IndexWrite
  <2>2. QED
    BY <1>2, <2>1, SoundKeeps
<1>5. Sound(DeleteIndex(t, i), c) /\ Follows(DeleteIndex(t, i), t)
  <2>1. Nil \in Value
    BY DEF Value
  <2>2. Keeps(DeleteIndex(t, i), t) \/ (Has(t, i) /\ DeleteIndex(t, i) = Delete(t, i))
    BY <1>1, <2>1, IndexWrite
  <2>3. QED
    BY <1>3, <2>2, SoundKeeps
<1>6. QED
  BY <1>4, <1>5

LEMMA InitInv == Init => TablesInv
<1> SUFFICES ASSUME Init PROVE TablesInv
  OBVIOUS
<1>1. \A a \in Address : heap[a] = Nil
  BY DEF Init
<1>2. contents \in [Address -> Contents]
  BY SoundNew DEF Init
<1>3. site.table = Nil
  BY DEF Init, NoCache
<1>4. QED
  BY <1>1, <1>2, <1>3 DEF Init, TablesInv

\* A hash that is as it was, or a new version: the cache stays right.
LEMMA StillRemembers ==
  ASSUME NEW s, NEW t, Remembers(s, t), NEW u \in Table, Follows(u, t)
  PROVE  Remembers(s, u)
<1>1. t.version \in Nat /\ u.version \in Nat
  BY Fields DEF Remembers
<1>2. CASE u.version = t.version + 1
  BY <1>1, <1>2 DEF Remembers
<1>3. CASE SameHash(u, t)
  <2>1. \A k, v : Maps(u, k, v) <=> Maps(t, k, v)
    BY <1>3 DEF Maps, SameHash
  <2>2. QED
    BY <1>1, <1>3, <2>1 DEF Remembers, SameHash
<1>4. QED
  BY <1>2, <1>3 DEF Follows

\* One table is written.
LEMMA WriteInv ==
  ASSUME TablesInv, NEW a \in Address, heap[a] # Nil, NEW t, NEW c \in Contents,
         Sound(t, c), Follows(t, heap[a]), Write(a, t, c)
  PROVE  TablesInv'
<1>1. /\ heap' = [heap EXCEPT ![a] = t] /\ contents' = [contents EXCEPT ![a] = c]
      /\ held' = held /\ site' = site
  BY DEF Write
<1>2. t \in Table /\ t # Nil
  BY NilApart DEF Sound
<1>3. /\ heap' \in [Address -> Table \cup {Nil}] /\ contents' \in [Address -> Contents]
      /\ heap'[a] = t /\ contents'[a] = c
      /\ \A b \in Address : b # a => heap'[b] = heap[b] /\ contents'[b] = contents[b]
  BY <1>1, <1>2 DEF TablesInv
<1>4. \A b \in Address : heap'[b] # Nil => Sound(heap'[b], contents'[b])
  BY <1>3 DEF TablesInv
<1>5. \A b \in Address : heap[b] # Nil => heap'[b] # Nil
  BY <1>2, <1>3
<1>6. \A x \in Vars : held'[x] # Nil => heap'[held'[x]] # Nil
  BY <1>1, <1>5 DEF TablesInv
<1>7. ASSUME site.table # Nil PROVE Remembers(site, heap'[site.table])
  <2>1. site.table \in Address /\ Remembers(site, heap[site.table])
    BY <1>7 DEF TablesInv
  <2>2. CASE site.table = a
    BY <1>2, <1>3, <2>1, <2>2, StillRemembers
  <2>3. CASE site.table # a
    BY <1>3, <2>1, <2>3
  <2>4. QED
    BY <2>2, <2>3
<1>8. held' \in [Vars -> Address \cup {Nil}] /\ site'.table \in Address \cup {Nil}
  BY <1>1 DEF TablesInv
<1>9. site'.table # Nil => heap'[site'.table] # Nil /\ Remembers(site', heap'[site'.table])
  BY <1>1, <1>5, <1>7 DEF TablesInv
<1>10. QED
  BY <1>3, <1>4, <1>6, <1>8, <1>9 DEF TablesInv

\* A free address serves a new table: no variable has it, and the cache has not.
LEMMA AllocateInv ==
  ASSUME TablesInv, NEW x \in Vars, NEW t, NEW c \in Contents, Sound(t, c), Allocate(x, t, c)
  PROVE  TablesInv'
<1>1. PICK a \in Free :
        /\ heap' = [heap EXCEPT ![a] = t] /\ contents' = [contents EXCEPT ![a] = c]
        /\ held' = [held EXCEPT ![x] = a] /\ site' = site
  BY DEF Allocate
<1>2. t \in Table /\ t # Nil /\ a \in Address /\ heap[a] = Nil
  BY NilApart DEF Sound, Free
<1>3. /\ heap' \in [Address -> Table \cup {Nil}] /\ contents' \in [Address -> Contents]
      /\ heap'[a] = t /\ contents'[a] = c
      /\ \A b \in Address : b # a => heap'[b] = heap[b] /\ contents'[b] = contents[b]
  BY <1>1, <1>2 DEF TablesInv
<1>4. \A b \in Address : heap'[b] # Nil => Sound(heap'[b], contents'[b])
  BY <1>3 DEF TablesInv
<1>5. \A b \in Address : heap[b] # Nil => heap'[b] # Nil /\ heap'[b] = heap[b]
  BY <1>2, <1>3
<1>6. held' \in [Vars -> Address \cup {Nil}] /\ \A y \in Vars : held'[y] = IF y = x THEN a ELSE held[y]
  BY <1>1, <1>2 DEF TablesInv
<1>7. \A y \in Vars : held'[y] # Nil => heap'[held'[y]] # Nil
  BY <1>2, <1>3, <1>5, <1>6 DEF TablesInv
<1>8. site'.table \in Address \cup {Nil}
  BY <1>1 DEF TablesInv
<1>9. site'.table # Nil => heap'[site'.table] # Nil /\ Remembers(site', heap'[site'.table])
  BY <1>1, <1>5 DEF TablesInv
<1>10. QED
  BY <1>3, <1>4, <1>6, <1>7, <1>8, <1>9 DEF TablesInv

\* The table a variable has.
LEMMA HeldTable ==
  ASSUME TablesInv, NEW x \in Vars, held[x] # Nil
  PROVE  /\ held[x] \in Address /\ heap[held[x]] # Nil
         /\ contents[held[x]] \in Contents /\ Sound(heap[held[x]], contents[held[x]])
BY DEF TablesInv

\* A write of the array of the table of a variable.
LEMMA ArrayWriteInv ==
  ASSUME TablesInv, NEW x \in Vars, held[x] # Nil, NEW u, Write(held[x], u, contents[held[x]]),
         Sound(u, contents[held[x]]) /\ Follows(u, heap[held[x]])
  PROVE  TablesInv'
BY HeldTable, WriteInv

LEMMA NewTableInv == TablesInv /\ NewTable => TablesInv'
<1> SUFFICES ASSUME TablesInv, NEW x \in Vars, Allocate(x, EmptyTable, <<>>) PROVE TablesInv'
  BY DEF NewTable
<1>1. QED
  BY SoundNew, AllocateInv

LEMMA CloneTableInv == TablesInv /\ CloneTable => TablesInv'
<1> SUFFICES ASSUME TablesInv, CloneTable PROVE TablesInv'
  OBVIOUS
<1>1. PICK x \in Vars, y \in Vars :
        /\ held[y] # Nil
        /\ LET c == contents[held[y]]
           IN Allocate(x, Clone(heap[held[y]]), [k \in {n \in DOMAIN c : c[n] # Nil} |-> c[k]])
  BY DEF CloneTable
<1> DEFINE t == heap[held[y]]
           c == contents[held[y]]
           d == [k \in {n \in DOMAIN c : c[n] # Nil} |-> c[k]]
<1>2. c \in Contents /\ Sound(t, c)
  BY <1>1, HeldTable
<1>3. Allocate(x, Clone(t), d)
  BY <1>1
<1> HIDE DEF t, c
<1>4. Sound(Clone(t), d) /\ d \in Contents
  BY <1>2, SoundClone
<1> HIDE DEF d
<1>5. QED
  BY <1>3, <1>4, AllocateInv

LEMMA ForgetInv == TablesInv /\ Forget => TablesInv'
<1> SUFFICES ASSUME TablesInv, NEW x \in Vars, held' = [held EXCEPT ![x] = Nil], UNCHANGED <<heap, site, contents, writes>>
             PROVE  TablesInv'
  BY DEF Forget
<1>1. held' \in [Vars -> Address \cup {Nil}] /\ \A y \in Vars : held'[y] # Nil => held'[y] = held[y]
  BY DEF TablesInv
<1>2. QED
  BY <1>1 DEF TablesInv

\* A miss fills the cache with what the lookup found.
LEMMA ReadInv == TablesInv /\ Read => TablesInv'
<1> SUFFICES ASSUME TablesInv, Read PROVE TablesInv'
  OBVIOUS
<1>1. PICK x \in Vars, k \in Names :
        LET a == held[x]
        IN /\ a # Nil /\ Has(heap[a], k)
           /\ site' = [table |-> a, key |-> k, version |-> heap[a].version, value |-> Get(heap[a], k)]
           /\ UNCHANGED <<heap, held, contents, writes>>
  BY DEF Read
<1> DEFINE a == held[x]
           t == heap[a]
<1>2. a \in Address /\ t # Nil /\ Sound(t, contents[a])
  BY <1>1, HeldTable
<1>3. site'.table = a /\ site'.key = k /\ site'.version = t.version /\ site'.value = Get(t, k) /\ Has(t, k)
  BY <1>1
<1>4. Get(t, k) \in Value /\ Maps(t, k, Get(t, k))
  BY <1>2, <1>3, Lookup, NilApart DEF Sound
<1>5. t.version \in Nat /\ t \in Table
  BY <1>2, Fields DEF Sound
<1>6. Remembers(site', t)
  BY <1>3, <1>4, <1>5 DEF Remembers
<1>7. heap' = heap /\ held' = held /\ contents' = contents
  BY <1>1
<1>8. QED
  BY <1>2, <1>3, <1>6, <1>7 DEF TablesInv

LEMMA SetNameInv == TablesInv /\ SetName => TablesInv'
<1> SUFFICES ASSUME TablesInv, SetName PROVE TablesInv'
  OBVIOUS
<1>1. PICK x \in Vars, k \in Names, v \in Value :
        LET a == held[x]
        IN a # Nil /\ Write(a, Set(heap[a], k, v), [n \in DOMAIN contents[a] \cup {k} |-> IF n = k THEN v ELSE contents[a][n]])
  BY DEF SetName
<1> DEFINE a == held[x]
           t == heap[a]
           c == contents[a]
           d == [n \in DOMAIN c \cup {k} |-> IF n = k THEN v ELSE c[n]]
<1>2. a \in Address /\ t # Nil /\ c \in Contents /\ Sound(t, c)
  BY <1>1, HeldTable
<1>3. Write(a, Set(t, k, v), d)
  BY <1>1
<1>4. Sound(Set(t, k, v), d) /\ d \in Contents /\ Follows(Set(t, k, v), t)
  BY <1>2, SoundSet
<1> HIDE DEF a, d
<1>5. QED
  BY <1>2, <1>3, <1>4, WriteInv

LEMMA DeleteNameInv == TablesInv /\ DeleteName => TablesInv'
<1> SUFFICES ASSUME TablesInv, DeleteName PROVE TablesInv'
  OBVIOUS
<1>1. PICK x \in Vars, k \in Names :
        LET a == held[x]
        IN a # Nil /\ Has(heap[a], k) /\ Write(a, Delete(heap[a], k), [n \in DOMAIN contents[a] \ {k} |-> contents[a][n]])
  BY DEF DeleteName
<1> DEFINE a == held[x]
           t == heap[a]
           c == contents[a]
           d == [n \in DOMAIN c \ {k} |-> c[n]]
<1>2. a \in Address /\ t # Nil /\ c \in Contents /\ Sound(t, c) /\ Has(t, k)
  BY <1>1, HeldTable
<1>3. Write(a, Delete(t, k), d)
  BY <1>1
<1>4. Sound(Delete(t, k), d) /\ d \in Contents /\ Follows(Delete(t, k), t)
  BY <1>2, SoundDelete
<1> HIDE DEF a, d
<1>5. QED
  BY <1>2, <1>3, <1>4, WriteInv

\* The actions that change the array, or the hash under an index.
LEMMA IndexInv == TablesInv /\ (WriteIndex \/ EraseIndex) => TablesInv'
<1>1. ASSUME TablesInv, NEW i \in Indexes, NEW v \in Value, NEW x \in Vars, held[x] # Nil,
             Write(held[x], SetIndex(heap[held[x]], i, v), contents[held[x]])
      PROVE  TablesInv'
  BY <1>1, HeldTable, SoundIndex, ArrayWriteInv
<1>2. ASSUME TablesInv, NEW i \in Indexes, NEW x \in Vars, held[x] # Nil,
             Write(held[x], DeleteIndex(heap[held[x]], i), contents[held[x]])
      PROVE  TablesInv'
  BY <1>2, HeldTable, SoundIndex, ArrayWriteInv
<1>3. QED
  BY <1>1, <1>2 DEF WriteIndex, EraseIndex, ArrayWrite

LEMMA ArrayInv ==
  TablesInv /\ (AppendValue \/ PushValue \/ InsertValue \/ RemoveValue \/ ReserveRoom) => TablesInv'
<1>1. ASSUME TablesInv, NEW x \in Vars, held[x] # Nil, NEW u, Write(held[x], u, contents[held[x]]),
             Keeps(u, heap[held[x]])
      PROVE  TablesInv'
  BY <1>1, HeldTable, SoundKeeps, ArrayWriteInv
<1>2. ASSUME TablesInv, NEW x \in Vars, held[x] # Nil
      PROVE  heap[held[x]] \in Table /\ ArrayPart(heap[held[x]]) /\ heap[held[x]].max + 1 \in Int
  BY <1>2, HeldTable, Fields DEF Sound
<1>3. ASSUME TablesInv, NEW v \in Value, NEW x \in Vars, held[x] # Nil,
             Write(held[x], SetIndex(heap[held[x]], heap[held[x]].max + 1, v), contents[held[x]])
      PROVE  TablesInv'
  BY <1>1, <1>2, <1>3, IndexWrite
<1>4. ASSUME TablesInv, NEW v \in Value, NEW x \in Vars, held[x] # Nil,
             Write(held[x], Push(heap[held[x]], v), contents[held[x]])
      PROVE  TablesInv'
  <2> DEFINE t == heap[held[x]]
  <2>1. t \in Table /\ ArrayPart(t)
    BY <1>2, <1>4
  <2> HIDE DEF t
  <2>2. Keeps(Push(t, v), t)
    BY <2>1, PushStores DEF Stored, Keeps
  <2>3. QED
    BY <1>1, <1>4, <2>2 DEF t
<1>5. ASSUME TablesInv, NEW i \in Indexes, NEW v \in Value, NEW x \in Vars, held[x] # Nil,
             Write(held[x], Insert(heap[held[x]], i, v), contents[held[x]])
      PROVE  TablesInv'
  BY <1>1, <1>2, <1>5, InsertKeeps, NilApart
<1>6. ASSUME TablesInv, NEW i \in Indexes, NEW x \in Vars, held[x] # Nil,
             Write(held[x], TakeOut(heap[held[x]], i), contents[held[x]])
      PROVE  TablesInv'
  BY <1>1, <1>2, <1>6, TakeOutKeeps, NilApart
<1>7. ASSUME TablesInv, NEW i \in Indexes, NEW x \in Vars, held[x] # Nil,
             Write(held[x], Reserve(heap[held[x]], i), contents[held[x]])
      PROVE  TablesInv'
  <2> DEFINE t == heap[held[x]]
  <2>1. t \in Table /\ ArrayPart(t)
    BY <1>2, <1>7
  <2> HIDE DEF t
  <2>2. Keeps(Reserve(t, i), t)
    BY <2>1, ReserveKeeps, NilApart DEF Keeps
  <2>3. QED
    BY <1>1, <1>7, <2>2 DEF t
<1>8. QED
  BY <1>3, <1>4, <1>5, <1>6, <1>7 DEF AppendValue, PushValue, InsertValue, RemoveValue, ReserveRoom, ArrayWrite

\* The collector keeps what a variable has and the table of the cache.
LEMMA CollectInv == TablesInv /\ Collect => TablesInv'
<1> SUFFICES ASSUME TablesInv, Collect PROVE TablesInv'
  OBVIOUS
<1>1. /\ heap' = [a \in Address |-> IF a \in Marked THEN heap[a] ELSE Nil]
      /\ contents' = [a \in Address |-> IF a \in Marked THEN contents[a] ELSE <<>>]
      /\ held' = held /\ site' = site
  BY DEF Collect
<1>2. heap' \in [Address -> Table \cup {Nil}] /\ contents' \in [Address -> Contents]
  BY <1>1, SoundNew DEF TablesInv
<1>3. \A b \in Address : (heap'[b] = heap[b] /\ contents'[b] = contents[b]) \/ (heap'[b] = Nil /\ b \notin Marked)
  BY <1>1
<1>4. ASSUME NEW a \in Address, heap'[a] # Nil PROVE Sound(heap'[a], contents'[a])
  <2>1. heap'[a] = heap[a] /\ contents'[a] = contents[a]
    BY <1>3, <1>4
  <2>2. Sound(heap[a], contents[a])
    BY <1>4, <2>1 DEF TablesInv
  <2>3. QED
    BY <2>1, <2>2
<1>5. (\A x \in Vars : held[x] \in Marked) /\ site.table \in Marked
  BY DEF Marked
<1>6. \A x \in Vars : held'[x] # Nil => heap'[held'[x]] # Nil
  BY <1>1, <1>3, <1>5 DEF TablesInv
<1>7. ASSUME site.table # Nil PROVE heap'[site.table] = heap[site.table]
  <2>1. site.table \in Address
    BY <1>7 DEF TablesInv
  <2>2. QED
    BY <1>3, <1>5, <2>1
<1>8. site'.table # Nil => heap'[site'.table] # Nil /\ Remembers(site', heap'[site'.table])
  BY <1>1, <1>7 DEF TablesInv
<1>9. QED
  BY <1>1, <1>2, <1>4, <1>6, <1>8 DEF TablesInv

LEMMA NextInv == TablesInv /\ [Next]_vars => TablesInv'
<1> SUFFICES ASSUME TablesInv, [Next]_vars PROVE TablesInv'
  OBVIOUS
<1>1. CASE UNCHANGED vars
  BY <1>1 DEF vars, TablesInv
<1>2. CASE Next
  BY <1>2, NewTableInv, CloneTableInv, ForgetInv, ReadInv, SetNameInv, DeleteNameInv, IndexInv, ArrayInv, CollectInv
     DEF Next
<1>3. QED
  BY <1>1, <1>2

LEMMA AlwaysInv == Spec => []TablesInv
BY InitInv, NextInv, PTL DEF Spec

----------------------------------------------------------------------------
(* The theorems. *)

\* A lookup ends: whatever was put, deleted and rehashed, table_set leaves a blank
\* slot, where find_entry stops.
THEOREM LookupsEnd == Spec => []BlankSlotLeft
<1>1. TablesInv => BlankSlotLeft
  <2> SUFFICES ASSUME TablesInv, NEW a \in Address, heap[a] # Nil, heap[a].capacity > 0
               PROVE  \E i \in 1..heap[a].capacity : heap[a].entries[i] = Blank
    BY DEF BlankSlotLeft, Live
  <2> DEFINE t == heap[a]
  <2>1. t \in Table /\ HashPart(t)
    BY DEF TablesInv, Sound
  <2>2. t.capacity \in Nat /\ t.capacity # 0
    BY <2>1, Fields
  <2>3. Cardinality(Used(t.entries, t.capacity)) < t.capacity
    BY <2>1, <2>2 DEF HashPart
  <2>4. QED
    BY <2>2, <2>3, UsedSlots
<1>2. QED
  BY <1>1, AlwaysInv, PTL

\* Under each name a table holds what the script last put there.
THEOREM TablesHoldNames == Spec => []NamesAgree
<1>1. TablesInv => NamesAgree
  <2> SUFFICES ASSUME TablesInv, NEW a \in Address, heap[a] # Nil, NEW k \in Names
               PROVE  /\ Has(heap[a], k) = (k \in DOMAIN contents[a])
                      /\ k \in DOMAIN contents[a] => Get(heap[a], k) = contents[a][k]
    BY DEF NamesAgree, Live
  <2> DEFINE t == heap[a]
             c == contents[a]
  <2>1. t \in Table /\ HashPart(t) /\ c \in Contents /\ \A v \in Value : Maps(t, k, v) <=> k \in DOMAIN c /\ c[k] = v
    BY DEF TablesInv, Sound, Holds
  <2>2. k \in DOMAIN c => c[k] \in Value
    BY <2>1, ContentsOf
  <2>3. /\ Has(t, k) <=> \E v \in Value : Maps(t, k, v)
        /\ \A v \in Value : Maps(t, k, v) => Get(t, k) = v
    BY <2>1, Lookup, NilApart
  <2>4. Has(t, k) \in BOOLEAN
    BY DEF Has
  <2> HIDE DEF t, c
  <2>5. (Has(t, k) <=> k \in DOMAIN c) /\ (k \in DOMAIN c => Get(t, k) = c[k])
    BY <2>1, <2>2, <2>3
  <2>6. Has(t, k) = (k \in DOMAIN c)
    BY <2>4, <2>5
  <2>7. QED
    BY <2>5, <2>6 DEF t, c
<1>2. QED
  BY <1>1, AlwaysInv, PTL

\* The inline cache answers as a lookup would, also when the address of a table
\* that was collected serves another.
THEOREM CacheAnswersRight == Spec => []CacheFresh
<1>1. TablesInv => CacheFresh
  <2> SUFFICES ASSUME TablesInv, NEW x \in Vars, NEW k \in Names, held[x] # Nil, Hit(held[x], k)
               PROVE  Has(heap[held[x]], k) /\ site.value = Get(heap[held[x]], k)
    BY DEF CacheFresh
  <2> DEFINE t == heap[held[x]]
  <2>1. site.table = held[x] /\ site.key = k /\ site.version = t.version
    BY DEF Hit
  <2>2. t \in Table /\ HashPart(t)
    BY HeldTable DEF Sound
  <2>3. Remembers(site, t)
    BY <2>1 DEF TablesInv
  <2>4. Maps(t, k, site.value) /\ site.value \in Value
    BY <2>1, <2>3 DEF Remembers
  <2>5. QED
    BY <2>2, <2>4, Lookup, NilApart
<1>2. QED
  BY <1>1, AlwaysInv, PTL

\* Nothing is in the array past array_max.
THEOREM MaxIsLast == Spec => []NothingPastMax
<1>1. TablesInv => NothingPastMax
  <2> SUFFICES ASSUME TablesInv, NEW a \in Address, heap[a] # Nil,
                      NEW i \in DOMAIN heap[a].array, heap[a].array[i] # Nil
               PROVE  i <= heap[a].max
    BY DEF NothingPastMax, Live
  <2>1. heap[a] \in Table /\ ArrayPart(heap[a])
    BY DEF TablesInv, Sound
  <2>2. QED
    BY <2>1, Elements DEF ArrayPart
<1>2. QED
  BY <1>1, AlwaysInv, PTL

\* What is in the array after a write.
LEMMA StoredAt ==
  ASSUME NEW t \in Table, NEW p \in Int, NEW v, NEW u, Stored(u, t, p, v)
  PROVE  \A j \in Nat \ {0} : At(u, j) = IF j = p THEN v ELSE At(t, j)
<1>1. /\ u \in Table /\ Len(u.array) >= Len(t.array) /\ Len(u.array) >= p
      /\ \A i \in 1..Len(u.array) : u.array[i] = IF i = p THEN v ELSE At(t, i)
  BY DEF Stored
<1>2. Len(u.array) \in Nat /\ DOMAIN u.array = 1..Len(u.array) /\ Len(t.array) \in Nat /\ DOMAIN t.array = 1..Len(t.array)
  BY <1>1, Elements
<1> TAKE j \in Nat \ {0}
<1>3. CASE j <= Len(u.array)
  <2>1. j \in 1..Len(u.array)
    BY <1>2, <1>3
  <2>2. At(u, j) = u.array[j]
    BY <1>2, <2>1 DEF At
  <2>3. QED
    BY <1>1, <2>1, <2>2
<1>4. CASE ~(j <= Len(u.array))
  <2>1. j \notin DOMAIN u.array /\ j \notin DOMAIN t.array /\ j # p
    BY <1>1, <1>2, <1>4
  <2>2. QED
    BY <2>1 DEF At
<1>5. QED
  BY <1>3, <1>4

\* The elements up to place n - k + 1 are where they were, those after it that
\* were in the list one place up.
Shifted(u, t, n, k) ==
  /\ \A j \in 1..(n - k + 1) : At(u, j) = At(t, j)
  /\ \A j \in (n - k + 2)..(n + 1) : At(u, j) = At(t, j - 1)

\* One round of the loop of table.insert.
LEMMA ShiftOne ==
  ASSUME NEW t \in Table, NEW n \in Nat, \A j \in 1..n : At(t, j) # Nil,
         NEW k \in 1..n, NEW u, Keeps(u, t), Shifted(u, t, n, k - 1)
  PROVE  Shifted(SetArray(u, n - k + 1 + 1, At(u, n - k + 1)), t, n, k)
<1> DEFINE p == n - k + 1
           q == p + 1
           w == SetArray(u, q, At(u, p))
<1>1. p \in 1..n /\ q \in Nat \ {0} /\ q \in Int /\ p \in 1..(n - (k - 1) + 1)
  OBVIOUS
<1>2. u \in Table /\ ArrayPart(u)
  BY DEF Keeps
<1>3. At(u, p) = At(t, p) /\ At(u, p) # Nil
  BY <1>1 DEF Shifted
<1>4. Fits(u, q)
  <2>1. p \in 1..Len(u.array) /\ u.array[p] # Nil /\ u.max \in Nat
    BY <1>2, <1>3, Elements
  <2>2. p <= u.max
    BY <1>2, <2>1 DEF ArrayPart
  <2>3. QED
    BY <1>1, <2>1, <2>2 DEF Fits
<1>5. \A j \in Nat \ {0} : At(w, j) = IF j = q THEN At(u, p) ELSE At(u, j)
  <2>1. At(u, p) \in Value
    BY <1>2, Elements
  <2> DEFINE v == At(u, p)
  <2> HIDE DEF v, q
  <2>2. Stored(SetArray(u, q, v), u, q, v)
    BY <1>1, <1>2, <1>4, <2>1, SetArrayStores DEF v
  <2>3. QED
    BY <1>1, <1>2, <2>2, StoredAt DEF v
<1> HIDE DEF w
<1>6. \A j \in 1..(n - k + 1) : At(w, j) = At(t, j)
  <2> TAKE j \in 1..(n - k + 1)
  <2>1. j \in Nat \ {0} /\ j # q /\ j \in 1..(n - (k - 1) + 1)
    OBVIOUS
  <2>2. At(u, j) = At(t, j)
    BY <2>1 DEF Shifted
  <2>3. QED
    BY <1>5, <2>1, <2>2
<1>7. \A j \in (n - k + 2)..(n + 1) : At(w, j) = At(t, j - 1)
  <2> TAKE j \in (n - k + 2)..(n + 1)
  <2>1. j \in Nat \ {0}
    OBVIOUS
  <2>2. CASE j = q
    <3>1. j - 1 = p
      BY <2>2
    <3>2. QED
      BY <1>3, <1>5, <2>1, <2>2, <3>1
  <2>3. CASE j # q
    <3>1. j \in (n - (k - 1) + 2)..(n + 1)
      BY <2>3
    <3>2. At(u, j) = At(t, j - 1)
      BY <3>1 DEF Shifted
    <3>3. QED
      BY <1>5, <2>1, <2>3, <3>2
  <2>4. QED
    BY <2>2, <2>3
<1>8. QED
  BY <1>6, <1>7 DEF Shifted, w

\* The loop, and then the new element.
LEMMA InsertElements ==
  ASSUME NEW t \in Table, ArrayPart(t), NEW pos \in Int, NEW v \in Data
  PROVE  LET n == Dense(t)
             at == Clamped(pos, n)
             r == Insert(t, pos, v)
         IN \A j \in 1..(n + 1) :
              /\ j \in 1..Len(r.array)
              /\ r.array[j] = IF j < at THEN t.array[j] ELSE IF j = at THEN v ELSE t.array[j - 1]
<1> DEFINE n == Dense(t)
           at == Clamped(pos, n)
           r == Insert(t, pos, v)
<1>1. PICK z \in Int, m \in Nat : \E places \in [1..m -> Int] : Rounds(t, pos, v, z, m, places)
  BY InsertPlaces
<1>2. PICK places \in [1..m -> Int] : Rounds(t, pos, v, z, m, places)
  BY <1>1
<1> DEFINE f == Moved(t, places, 1)
<1>3. /\ f[0] = t
      /\ \A k \in 1..m : f[k] = SetArray(f[k - 1], places[k] + 1, At(f[k - 1], places[k]))
      /\ \A k \in 0..m : Keeps(f[k], t)
  <2>1. 1 \in Int
    OBVIOUS
  <2>2. QED
    BY <2>1, MovedSteps
<1>4. n \in Nat /\ \A j \in 1..n : j \in 1..Len(t.array) /\ t.array[j] # Nil
  BY DenseLength
<1>5. \A j \in 1..n : At(t, j) = t.array[j] /\ At(t, j) # Nil
  BY <1>4, Elements
<1>6. r = SetArray(f[m], z, v) /\ z = at /\ m = n - z + 1 /\ 1 <= z /\ z <= n + 1 /\ m <= n
      /\ \A k \in 1..m : places[k] = n - k + 1
  <2>1. r = SetArray(f[m], z, v) /\ z = at /\ m = n - z + 1 /\ 1 <= z /\ \A k \in 1..m : places[k] = n - k + 1
    BY <1>2 DEF Rounds
  <2>2. QED
    BY <1>4, <2>1
<1> HIDE DEF f, n, at, r
<1>7. Shifted(f[m], t, n, m)
  <2> DEFINE T == {k \in 0..m : Shifted(f[k], t, n, k)}
  <2>1. 0 \in T
    <3>1. Shifted(t, t, n, 0)
      BY <1>4 DEF Shifted
    <3>2. QED
      BY <1>3, <3>1
  <2>2. ASSUME NEW k \in 1..m, k - 1 \in T PROVE k \in T
    <3>1. k \in 1..n /\ k - 1 \in 0..m /\ Shifted(f[k - 1], t, n, k - 1)
      BY <1>4, <1>6, <2>2
    <3>2. Keeps(f[k - 1], t) /\ f[k] = SetArray(f[k - 1], n - k + 1 + 1, At(f[k - 1], n - k + 1))
      BY <1>3, <1>6, <3>1
    <3> DEFINE u == f[k - 1]
    <3> HIDE DEF u
    <3>3. Shifted(SetArray(u, n - k + 1 + 1, At(u, n - k + 1)), t, n, k)
      BY <1>4, <1>5, <3>1, <3>2, ShiftOne DEF u
    <3>4. Shifted(f[k], t, n, k)
      BY <3>2, <3>3 DEF u
    <3>5. QED
      BY <3>4
  <2> HIDE DEF T
  <2>3. 0..m \subseteq T
    BY <2>1, <2>2, IntervalInduction
  <2>4. QED
    BY <2>3 DEF T
<1> DEFINE u == f[m]
<1>8. u \in Table /\ ArrayPart(u)
  BY <1>3 DEF Keeps
<1> HIDE DEF u
<1>9. /\ \A j \in 1..z : At(u, j) = At(t, j)
      /\ \A j \in (z + 1)..(n + 1) : At(u, j) = At(t, j - 1)
  <2>1. n - m + 1 = z /\ n - m + 2 = z + 1
    BY <1>4, <1>6
  <2>2. QED
    BY <1>7, <2>1 DEF Shifted, u
<1>10. Fits(u, z)
  <2>1. u.max \in Nat
    BY <1>8, Fields
  <2>2. CASE z = 1
    BY <2>1, <2>2 DEF Fits
  <2>3. CASE z # 1
    <3>1. z - 1 \in 1..n /\ z - 1 \in 1..z
      BY <1>4, <1>6, <2>3
    <3>2. At(u, z - 1) # Nil
      BY <1>5, <1>9, <3>1
    <3>3. z - 1 \in 1..Len(u.array) /\ u.array[z - 1] # Nil
      BY <1>8, <3>2, Elements
    <3>4. z - 1 <= u.max
      BY <1>8, <3>3 DEF ArrayPart
    <3>5. QED
      BY <1>6, <2>1, <3>4 DEF Fits
  <2>4. QED
    BY <2>2, <2>3
<1>11. v \in Value /\ v # Nil
  BY NilAssumption DEF Value
<1>12. Stored(r, u, z, v)
  BY <1>6, <1>8, <1>10, <1>11, SetArrayStores DEF u
<1>13. \A j \in Nat \ {0} : At(r, j) = IF j = z THEN v ELSE At(u, j)
  BY <1>8, <1>12, StoredAt
<1>14. r \in Table
  BY <1>12 DEF Stored
<1>15. ASSUME NEW j \in 1..(n + 1)
       PROVE  /\ j \in 1..Len(r.array)
              /\ r.array[j] = IF j < z THEN t.array[j] ELSE IF j = z THEN v ELSE t.array[j - 1]
  <2>1. At(r, j) # Nil /\ At(r, j) = IF j < z THEN t.array[j] ELSE IF j = z THEN v ELSE t.array[j - 1]
    <3>1. j \in Nat \ {0}
      BY <1>4
    <3>2. CASE j < z
      <4>1. j \in 1..n /\ j \in 1..z /\ j # z
        BY <1>4, <1>6, <3>2
      <4>2. QED
        BY <1>5, <1>9, <1>13, <3>1, <3>2, <4>1
    <3>3. CASE j = z
      BY <1>11, <1>13, <3>1, <3>3
    <3>4. CASE j > z
      <4>1. j - 1 \in 1..n /\ j \in (z + 1)..(n + 1) /\ j # z /\ ~(j < z)
        BY <1>4, <1>6, <3>4
      <4>2. QED
        BY <1>5, <1>9, <1>13, <3>1, <4>1
    <3>5. QED
      BY <1>4, <3>2, <3>3, <3>4
  <2>2. QED
    BY <1>14, <2>1, Elements
<1>16. QED
  BY <1>6, <1>15 DEF n, at, r

\* A sequence after another.
LEMMA JoinOfSeqs ==
  ASSUME NEW S, NEW a \in Seq(S), NEW b \in Seq(S)
  PROVE  /\ a \o b \in Seq(S) /\ Len(a \o b) = Len(a) + Len(b)
         /\ \A x \in 1..Len(a) : (a \o b)[x] = a[x]
         /\ \A x \in (Len(a) + 1)..(Len(a) + Len(b)) : (a \o b)[x] = b[x - Len(a)]
OBVIOUS

\* The first n elements of s, with e put at one place.
Inserted(r, s, n, at, e) ==
  \A j \in 1..(n + 1) : r[j] = IF j < at THEN s[j] ELSE IF j = at THEN e ELSE s[j - 1]

LEMMA InsertedSeq ==
  ASSUME NEW S, NEW s \in Seq(S), NEW r \in Seq(S), NEW e \in S, NEW n \in Nat, n <= Len(s), n + 1 <= Len(r),
         NEW at \in 1..(n + 1), Inserted(r, s, n, at, e)
  PROVE  SubSeq(r, 1, n + 1) = InsertAt(SubSeq(s, 1, n), at, e)
<1> DEFINE l == SubSeq(s, 1, n)
           a == SubSeq(l, 1, at - 1)
           b == SubSeq(l, at, n)
           w == (a \o <<e>>) \o b
           q == SubSeq(r, 1, n + 1)
<1>1. l \in Seq(S) /\ Len(l) = n /\ \A j \in 1..n : l[j] = s[j]
  BY PrefixOfSeq
<1>2. q \in Seq(S) /\ Len(q) = n + 1 /\ \A j \in 1..(n + 1) : q[j] = r[j]
  BY PrefixOfSeq
<1>3. InsertAt(l, at, e) = w
  BY <1>1 DEF InsertAt
<1> HIDE DEF l, q
<1>4. a \in Seq(S) /\ Len(a) = at - 1 /\ \A j \in 1..(at - 1) : a[j] = s[j]
  <2>1. at - 1 \in 0..n /\ at - 1 \in 0..Len(l) /\ \A j \in 1..(at - 1) : j \in 1..n
    BY <1>1
  <2>2. QED
    BY <1>1, <2>1, PrefixOfSeq
<1>5. b \in Seq(S) /\ Len(b) = n - at + 1 /\ \A j \in 1..(n - at + 1) : b[j] = s[at + j - 1]
  <2>1. b \in Seq(S) /\ Len(b) = n - at + 1 /\ \A j \in 1..(n - at + 1) : b[j] = l[at + j - 1]
    BY <1>1
  <2>2. \A j \in 1..(n - at + 1) : at + j - 1 \in 1..n
    OBVIOUS
  <2>3. QED
    BY <1>1, <2>1, <2>2
<1> HIDE DEF a, b
<1> DEFINE c == a \o <<e>>
<1>6. c \in Seq(S) /\ Len(c) = at /\ \A j \in 1..at : c[j] = IF j < at THEN s[j] ELSE e
  <2>1. <<e>> \in Seq(S) /\ Len(<<e>>) = 1 /\ <<e>>[1] = e
    OBVIOUS
  <2>2. c \in Seq(S) /\ Len(c) = at - 1 + 1
    BY <1>4, <2>1
  <2>3. \A j \in 1..(at - 1) : c[j] = a[j]
    BY <1>4, <2>1
  <2>4. c[at] = e
    BY <1>4, <2>1
  <2>5. \A j \in 1..at : j \in 1..(at - 1) \/ j = at
    OBVIOUS
  <2>6. QED
    BY <1>4, <2>2, <2>3, <2>4, <2>5
<1> HIDE DEF c
<1>7. /\ w \in Seq(S) /\ Len(w) = Len(c) + Len(b)
      /\ \A x \in 1..Len(c) : w[x] = c[x]
      /\ \A x \in (Len(c) + 1)..(Len(c) + Len(b)) : w[x] = b[x - Len(c)]
  <2>1. c \in Seq(S) /\ b \in Seq(S) /\ w = c \o b
    BY <1>5, <1>6 DEF c
  <2> HIDE DEF w
  <2>2. QED
    BY <2>1, JoinOfSeqs
<1> HIDE DEF w
<1>8. w \in Seq(S) /\ Len(w) = n + 1
  BY <1>5, <1>6, <1>7
<1>9. ASSUME NEW j \in 1..(n + 1) PROVE w[j] = q[j]
  <2>1. q[j] = IF j < at THEN s[j] ELSE IF j = at THEN e ELSE s[j - 1]
    BY <1>2 DEF Inserted
  <2>2. CASE j <= at
    <3>1. w[j] = c[j]
      BY <1>6, <1>7, <2>2
    <3>2. QED
      BY <1>6, <2>1, <2>2, <3>1
  <2>3. CASE ~(j <= at)
    <3>1. w[j] = b[j - at]
      <4>1. j \in Len(c) + 1..Len(c) + Len(b)
        BY <1>5, <1>6, <2>3
      <4>2. QED
        BY <1>6, <1>7, <4>1
    <3>2. j - at \in 1..(n - at + 1) /\ at + (j - at) - 1 = j - 1
      BY <2>3
    <3>3. QED
      BY <1>5, <2>1, <2>3, <3>1, <3>2
  <2>4. QED
    BY <2>2, <2>3
<1>10. w = q
  <2>1. DOMAIN w = 1..(n + 1) /\ DOMAIN q = 1..(n + 1) /\ w \in [1..(n + 1) -> S] /\ q \in [1..(n + 1) -> S]
    BY <1>2, <1>8
  <2>2. QED
    BY <1>9, <2>1
<1>11. QED
  BY <1>3, <1>10 DEF l, q, w

\* The position of table.insert, as a number between the first place and the last.
LEMMA ClampedIs ==
  ASSUME NEW i \in Int, NEW n \in Nat
  PROVE  Max({1, Min({i, n + 1})}) = Clamped(i, n) /\ Clamped(i, n) \in 1..(n + 1)
<1>1. Clamped(i, n) \in 1..(n + 1)
  BY DEF Clamped
<1>2. \A a, b \in Int : Min({a, b}) = IF a <= b THEN a ELSE b
  <2> SUFFICES ASSUME NEW a \in Int, NEW b \in Int PROVE Min({a, b}) = IF a <= b THEN a ELSE b
    OBVIOUS
  <2> DEFINE c == IF a <= b THEN a ELSE b
  <2>1. c \in {a, b} /\ \A y \in {a, b} : c <= y
    OBVIOUS
  <2>2. \A x \in {a, b} : (\A y \in {a, b} : x <= y) => x = c
    OBVIOUS
  <2>3. QED
    BY <2>1, <2>2 DEF Min
<1>3. \A a, b \in Int : Max({a, b}) = IF a >= b THEN a ELSE b
  <2> SUFFICES ASSUME NEW a \in Int, NEW b \in Int PROVE Max({a, b}) = IF a >= b THEN a ELSE b
    OBVIOUS
  <2> DEFINE c == IF a >= b THEN a ELSE b
  <2>1. c \in {a, b} /\ \A y \in {a, b} : c >= y
    OBVIOUS
  <2>2. \A x \in {a, b} : (\A y \in {a, b} : x >= y) => x = c
    OBVIOUS
  <2>3. QED
    BY <2>1, <2>2 DEF Max
<1>4. Min({i, n + 1}) = IF i <= n + 1 THEN i ELSE n + 1
  BY <1>2
<1>5. Min({i, n + 1}) \in Int
  BY <1>4
<1>6. Max({1, Min({i, n + 1})}) = IF 1 >= Min({i, n + 1}) THEN 1 ELSE Min({i, n + 1})
  BY <1>3, <1>5
<1>7. QED
  BY <1>1, <1>4, <1>6 DEF Clamped

\* table.insert loses no element of a list and puts the new one where it was told,
\* whatever the capacity of the array, its maximum and what is after the list.
THEOREM InsertLosesNothing == Spec => []InsertKeepsElements
<1>1. TablesInv => InsertKeepsElements
  <2> SUFFICES ASSUME TablesInv, NEW a \in Address, heap[a] # Nil, NEW i \in Indexes, NEW v \in Data
               PROVE  LET t == heap[a]
                          n == Dense(t)
                          at == Max({1, Min({i, n + 1})})
                      IN SubSeq(Insert(t, i, v).array, 1, n + 1) = InsertAt(List(t), at, v)
    BY DEF InsertKeepsElements, Live
  <2> DEFINE t == heap[a]
             n == Dense(t)
             at == Clamped(i, n)
             r == Insert(t, i, v)
  <2>1. t \in Table /\ ArrayPart(t) /\ i \in Int
    BY NilApart DEF TablesInv, Sound
  <2> HIDE DEF t
  <2>2. n \in Nat /\ n <= Len(t.array) /\ t.array \in Seq(Value) /\ v \in Value
    BY <2>1, DenseLength, Fields DEF Value
  <2>3. \A j \in 1..(n + 1) :
          /\ j \in 1..Len(r.array)
          /\ r.array[j] = IF j < at THEN t.array[j] ELSE IF j = at THEN v ELSE t.array[j - 1]
    BY <2>1, InsertElements
  <2>4. r.array \in Seq(Value)
    BY <2>1, <2>2, InsertKeeps, Fields DEF Keeps
  <2> HIDE DEF n, r
  <2>5. at \in 1..(n + 1) /\ Max({1, Min({i, n + 1})}) = at
    BY <2>1, <2>2, ClampedIs
  <2>6. n + 1 <= Len(r.array)
    BY <2>2, <2>3, <2>4
  <2>7. Inserted(r.array, t.array, n, at, v)
    BY <2>3 DEF Inserted
  <2> HIDE DEF at
  <2>8. SubSeq(r.array, 1, n + 1) = InsertAt(SubSeq(t.array, 1, n), at, v)
    BY <2>2, <2>4, <2>5, <2>6, <2>7, InsertedSeq
  <2>9. QED
    BY <2>5, <2>8 DEF t, n, r, List
<1>2. QED
  BY <1>1, AlwaysInv, PTL

=============================================================================
