---------------------------- MODULE BTreeProofs ----------------------------
(***************************************************************************)
(* Proofs about BTree.  The invariant BtInv says that the file has a tree, *)
(* a list of free pages apart from it, and in the tree the records that    *)
(* the program has put.                                                    *)
(*                                                                         *)
(* A tree is given by a function b: b[p] is the set of pages at and below  *)
(* page p.  Forest says that these sets are nested as the child links are, *)
(* and that the keys below each child are those that                       *)
(* internal_find_route sends there.  An operation rewrites the pages on    *)
(* one way down from the root: the lemmas say what stands at each of them  *)
(* after its write (Stands), from the leaf (InsertedAt, DeletedAt) up.     *)
(*                                                                         *)
(* In their order: sequences and pages; trees and the way of a key; the    *)
(* free list and the writes; insertion; deletion; the invariant and its    *)
(* theorems; ranges.                                                       *)
(***************************************************************************)
EXTENDS BTree, DataLemmas

\* A set of numbers from 1 on without gaps is an interval.
LEMMA InitialSegment ==
  ASSUME NEW n \in Nat, NEW S, S \subseteq 1..n, \A i \in S : \A j \in 1..n : j <= i => j \in S
  PROVE  Cardinality(S) \in 0..n /\ S = 1..Cardinality(S)
<1>1. CASE S = {}
  <2>1. Cardinality(S) = 0
    BY <1>1, FS_EmptySet
  <2>2. QED
    BY <1>1, <2>1
<1>2. CASE S # {}
  <2>1. S \subseteq 0..n
    OBVIOUS
  <2>2. Max(S) \in S /\ \A y \in S : y <= Max(S)
    BY <1>2, <2>1, MaxOfNaturals
  <2> DEFINE m == Max(S)
  <2>3. m \in 1..n
    BY <2>2
  <2> HIDE DEF m
  <2>4. S = 1..m
    <3>1. \A y \in S : y \in 1..m
      BY <2>2, <2>3 DEF m
    <3>2. \A y \in 1..m : y \in 1..n /\ y <= m /\ m \in S
      BY <2>2, <2>3 DEF m
    <3>3. \A y \in 1..m : y \in S
      BY <3>2
    <3>4. QED
      BY <3>1, <3>3
  <2>5. Cardinality(1..m) = m
    BY <2>3, FS_Interval
  <2>6. QED
    BY <2>3, <2>4, <2>5
<1>3. QED
  BY <1>1, <1>2

\* What the operations on the records of a page return.
Inserted(T, s, i, e, t) ==
  /\ t \in Seq(T) /\ Len(t) = Len(s) + 1
  /\ t[i] = e
  /\ \A j \in 1..(i - 1) : t[j] = s[j]
  /\ \A j \in (i + 1)..(Len(s) + 1) : t[j] = s[j - 1]

\* Inserting an entry (shift_right in the page) moves those from its place on.
LEMMA InsertAtIs ==
  ASSUME NEW T, NEW s \in Seq(T), NEW i \in 1..(Len(s) + 1), NEW e \in T
  PROVE  Inserted(T, s, i, e, InsertAt(s, i, e))
<1> DEFINE n == Len(s)
           a == SubSeq(s, 1, i - 1)
           b == SubSeq(s, i, n)
           c == a \o <<e>>
           t == InsertAt(s, i, e)
<1>1. n \in Nat /\ i \in Int /\ 1 <= i /\ i <= n + 1 /\ \A j \in 1..n : s[j] \in T
  BY LenProperties
<1>2. a \in Seq(T) /\ Len(a) = i - 1 /\ \A j \in 1..(i - 1) : a[j] = s[j]
  BY <1>1, SubSeqProperties, Z3
<1>3. b \in Seq(T) /\ Len(b) = n - i + 1 /\ \A j \in 1..(n - i + 1) : b[j] = s[i + j - 1]
  BY <1>1, SubSeqProperties, Z3
<1>4. <<e>> \in Seq(T) /\ Len(<<e>>) = 1 /\ <<e>>[1] = e
  OBVIOUS
<1> HIDE DEF a, b, n
<1>5. c \in Seq(T) /\ Len(c) = i /\ c[i] = e /\ \A j \in 1..(i - 1) : c[j] = s[j]
  <2>1. c \in Seq(T) /\ Len(c) = Len(a) + 1
        /\ \A j \in 1..(Len(a) + 1) : c[j] = IF j <= Len(a) THEN a[j] ELSE <<e>>[j - Len(a)]
    BY <1>2, <1>4, ConcatProperties
  <2>2. Len(a) = i - 1 /\ Len(a) + 1 = i /\ i - Len(a) = 1 /\ i \in 1..i /\ ~(i <= Len(a))
    BY <1>1, <1>2
  <2>3. c[i] = e
    BY <1>4, <2>1, <2>2
  <2>4. ASSUME NEW j \in 1..(i - 1) PROVE c[j] = s[j]
    <3>1. j \in 1..(Len(a) + 1) /\ j <= Len(a)
      BY <1>1, <2>2
    <3>2. QED
      BY <1>2, <2>1, <3>1
  <2>5. QED
    BY <2>1, <2>2, <2>3, <2>4
<1> HIDE DEF c
<1>6. t = c \o b
  BY DEF InsertAt, a, b, c, n
<1> HIDE DEF t
<1>7. t \in Seq(T) /\ Len(t) = i + (n - i + 1)
      /\ \A j \in 1..(i + (n - i + 1)) : t[j] = IF j <= i THEN c[j] ELSE b[j - i]
  <2>1. /\ t \in Seq(T) /\ Len(t) = Len(c) + Len(b)
        /\ \A j \in 1..(Len(c) + Len(b)) : t[j] = IF j <= Len(c) THEN c[j] ELSE b[j - Len(c)]
    BY <1>3, <1>5, <1>6, ConcatProperties
  <2>2. QED
    BY <1>3, <1>5, <2>1
<1>8. Len(t) = n + 1 /\ \A j \in 1..(n + 1) : t[j] = IF j <= i THEN c[j] ELSE b[j - i]
  BY <1>1, <1>7
<1>9. t[i] = e /\ \A j \in 1..(i - 1) : t[j] = s[j]
  BY <1>1, <1>5, <1>8
<1>10. ASSUME NEW j \in (i + 1)..(n + 1) PROVE t[j] = s[j - 1]
  <2>1. t[j] = b[j - i] /\ j - i \in 1..(n - i + 1)
    BY <1>1, <1>8
  <2>2. b[j - i] = s[i + (j - i) - 1] /\ i + (j - i) - 1 = j - 1
    BY <1>1, <1>3, <2>1
  <2>3. QED
    BY <2>1, <2>2
<1>11. QED
  BY <1>7, <1>8, <1>9, <1>10 DEF t, n, Inserted

LeftOut(T, s, i, t) ==
  /\ t \in Seq(T) /\ Len(t) = Len(s) - 1
  /\ \A j \in 1..(i - 1) : t[j] = s[j]
  /\ \A j \in i..(Len(s) - 1) : t[j] = s[j + 1]

\* Removing an entry moves those after it down.
LEMMA RemoveAtIs ==
  ASSUME NEW T, NEW s \in Seq(T), NEW i \in 1..Len(s)
  PROVE  LeftOut(T, s, i, RemoveAt(s, i))
<1> DEFINE n == Len(s)
           a == SubSeq(s, 1, i - 1)
           b == SubSeq(s, i + 1, n)
           t == RemoveAt(s, i)
<1>1. n \in Nat /\ i \in Int /\ 1 <= i /\ i <= n /\ \A j \in 1..n : s[j] \in T
  BY LenProperties
<1>2. a \in Seq(T) /\ Len(a) = i - 1 /\ \A j \in 1..(i - 1) : a[j] = s[j]
  BY <1>1, SubSeqProperties, Z3
<1>3. b \in Seq(T) /\ Len(b) = n - i /\ \A j \in 1..(n - i) : b[j] = s[i + j]
  <2>1. i + 1 \in Int /\ n \in Int /\ \A j \in (i + 1)..n : s[j] \in T
    BY <1>1
  <2>2. /\ b \in Seq(T)
        /\ Len(b) = IF i + 1 <= n THEN n - (i + 1) + 1 ELSE 0
        /\ \A j \in 1..(n - (i + 1) + 1) : b[j] = s[(i + 1) + j - 1]
    BY <2>1, SubSeqProperties, Z3
  <2> HIDE DEF b, n
  <2>3. n - (i + 1) + 1 = n - i /\ \A j \in Int : (i + 1) + j - 1 = i + j
    BY <1>1
  <2>4. Len(b) = n - i
    BY <1>1, <2>2
  <2>5. ASSUME NEW j \in 1..(n - i) PROVE b[j] = s[i + j]
    BY <1>1, <2>2, <2>3
  <2>6. QED
    BY <2>2, <2>4, <2>5
<1> HIDE DEF a, b, n
<1>4. t = a \o b
  BY DEF RemoveAt, a, b, n
<1> HIDE DEF t
<1>5. t \in Seq(T) /\ Len(t) = (i - 1) + (n - i)
      /\ \A j \in 1..((i - 1) + (n - i)) : t[j] = IF j <= i - 1 THEN a[j] ELSE b[j - (i - 1)]
  BY <1>2, <1>3, <1>4, ConcatProperties
<1>6. Len(t) = n - 1 /\ \A j \in 1..(n - 1) : t[j] = IF j <= i - 1 THEN a[j] ELSE b[j - (i - 1)]
  BY <1>1, <1>5
<1>7. ASSUME NEW j \in i..(n - 1) PROVE t[j] = s[j + 1]
  <2>1. t[j] = b[j - (i - 1)] /\ j - (i - 1) \in 1..(n - i)
    BY <1>1, <1>6
  <2>2. b[j - (i - 1)] = s[i + (j - (i - 1))] /\ i + (j - (i - 1)) = j + 1
    BY <1>1, <1>3, <2>1
  <2>3. QED
    BY <2>1, <2>2
<1>8. \A j \in 1..(i - 1) : t[j] = s[j]
  BY <1>1, <1>2, <1>6
<1>9. QED
  BY <1>5, <1>6, <1>7, <1>8 DEF t, n, LeftOut

\* A stretch of a sequence.
StretchOf(T, s, m, n, t) ==
  /\ t \in Seq(T) /\ Len(t) = n - m + 1
  /\ \A j \in 1..(n - m + 1) : t[j] = s[m + j - 1]

\* The part of a sequence that a split copies into one of the two pages.
LEMMA Stretch ==
  ASSUME NEW T, NEW s \in Seq(T), NEW m \in 1..(Len(s) + 1), NEW n \in (m - 1)..Len(s)
  PROVE  StretchOf(T, s, m, n, SubSeq(s, m, n))
<1>1. m \in Int /\ n \in Int /\ 1 <= m /\ m - 1 <= n /\ n <= Len(s) /\ Len(s) \in Nat /\ \A j \in 1..Len(s) : s[j] \in T
  BY LenProperties
<1>2. \A j \in m..n : s[j] \in T
  BY <1>1
<1>3. /\ SubSeq(s, m, n) \in Seq(T)
      /\ Len(SubSeq(s, m, n)) = IF m <= n THEN n - m + 1 ELSE 0
      /\ \A j \in 1..(n - m + 1) : SubSeq(s, m, n)[j] = s[m + j - 1]
  BY <1>1, <1>2, SubSeqProperties, Z3
<1>4. m <= n \/ n - m + 1 = 0
  BY <1>1
<1>5. QED
  BY <1>3, <1>4 DEF StretchOf

----------------------------------------------------------------------------
(* Pages. *)

LeafRecord == {[key |-> e[1], value |-> e[2]] : e \in Entries}
Separator == [key : Keys, child : Nat]
LeafPage == [type : {"leaf"}, entries : Seq(LeafRecord), left : {0}]
InnerPage == [type : {"internal"}, entries : Seq(Separator), left : Nat]

\* The keys of a page are in order.
Sorted(entries) == \A i, j \in 1..Len(entries) : i < j => entries[i].key < entries[j].key

Slots(page) == 0..Len(page.entries)

\* The separators that the child of a slot is between.
Between(page, s, q) ==
  /\ s = 0 \/ page.entries[s].key <= q
  /\ s = Len(page.entries) \/ q < page.entries[s + 1].key

\* A leaf record is one of the entries that the program puts.
LEMMA LeafRecords ==
  /\ \A e \in LeafRecord : /\ e.key \in Keys /\ e.value \in Values
                           /\ e = [key |-> e.key, value |-> e.value] /\ <<e.key, e.value>> \in Entries
                           /\ SizeOf[e.value] \in Nat \ {0}
  /\ \A e \in Entries : [key |-> e[1], value |-> e[2]] \in LeafRecord
<1>1. \A e \in Entries : e = <<e[1], e[2]>> /\ e[1] \in Keys /\ e[2] \in Values
  BY BTreeAssumption DEF BTreeAssumption
<1>2. SizeOf \in [Values -> Nat \ {0}]
  BY BTreeAssumption DEF BTreeAssumption
<1>3. QED
  BY <1>1, <1>2 DEF LeafRecord

\* The number of keys up to a bound, in a sorted sequence.
LEMMA Ranks ==
  ASSUME NEW n \in Nat, NEW e, DOMAIN e = 1..n, \A i \in 1..n : e[i].key \in Int,
         \A i, j \in 1..n : i < j => e[i].key < e[j].key, NEW q \in Int
  PROVE  LET r == Cardinality({i \in DOMAIN e : e[i].key <= q})
         IN /\ r \in 0..n
            /\ \A i \in 1..n : e[i].key <= q <=> i <= r
            /\ \A s \in 0..n : r = s <=> (s = 0 \/ e[s].key <= q) /\ (s = n \/ q < e[s + 1].key)
<1> DEFINE I == {i \in DOMAIN e : e[i].key <= q}
           r == Cardinality(I)
<1>1. r \in 0..n /\ I = 1..r
  <2>1. I \subseteq 1..n
    OBVIOUS
  <2>2. ASSUME NEW i \in I, NEW j \in 1..n, j <= i PROVE j \in I
    <3>1. i \in 1..n /\ e[i].key <= q /\ e[i].key \in Int /\ e[j].key \in Int
      OBVIOUS
    <3>2. CASE j = i
      BY <3>2
    <3>3. CASE j # i
      <4>1. j < i
        BY <2>2, <3>1, <3>3
      <4>2. e[j].key < e[i].key
        BY <3>1, <4>1
      <4>3. e[j].key <= q
        BY <3>1, <4>2
      <4>4. QED
        BY <4>3
    <3>4. QED
      BY <3>2, <3>3
  <2> HIDE DEF I
  <2>3. QED
    BY <2>1, <2>2, InitialSegment
<1>2. \A i \in 1..n : e[i].key <= q <=> i \in I
  OBVIOUS
<1> HIDE DEF I, r
<1>3. \A i \in 1..n : e[i].key <= q <=> i <= r
  BY <1>1, <1>2
<1>4. ASSUME NEW s \in 0..n
      PROVE  r = s <=> (s = 0 \/ e[s].key <= q) /\ (s = n \/ q < e[s + 1].key)
  <2>1. CASE r = s
    <3>1. s = 0 \/ e[s].key <= q
      <4>1. s = 0 \/ s \in 1..n
        OBVIOUS
      <4>2. QED
        BY <1>3, <2>1, <4>1
    <3>2. s = n \/ q < e[s + 1].key
      <4>1. s # n => s + 1 \in 1..n /\ ~(s + 1 <= s)
        OBVIOUS
      <4>2. s # n => ~(e[s + 1].key <= q) /\ e[s + 1].key \in Int
        BY <1>3, <2>1, <4>1
      <4>3. QED
        BY <4>2
    <3>3. QED
      BY <2>1, <3>1, <3>2
  <2>2. ASSUME s = 0 \/ e[s].key <= q, s = n \/ q < e[s + 1].key PROVE r = s
    <3>1. s <= r
      <4>1. s = 0 \/ s \in 1..n
        OBVIOUS
      <4>2. QED
        BY <1>1, <1>3, <2>2, <4>1
    <3>2. r <= s
      <4>1. s # n => s + 1 \in 1..n
        OBVIOUS
      <4>2. s # n => ~(e[s + 1].key <= q)
        BY <2>2, <4>1
      <4>3. s # n => ~(s + 1 <= r)
        BY <1>3, <4>1, <4>2
      <4>4. QED
        BY <1>1, <4>3
    <3>3. QED
      BY <1>1, <3>1, <3>2
  <2>3. QED
    BY <2>1, <2>2
<1>5. QED
  BY <1>1, <1>3, <1>4 DEF r, I

\* Keys are numbers.
LEMMA KeysAreNumbers == \A k \in Keys : k \in Nat /\ k \in Int
BY BTreeAssumption DEF BTreeAssumption

\* internal_find_route finds the one child between whose separators a key is.
LEMMA RouteIs ==
  ASSUME NEW page \in InnerPage, Sorted(page.entries), NEW q \in Int
  PROVE  /\ Route(page, q) \in Slots(page)
         /\ \A s \in Slots(page) : Route(page, q) = s <=> Between(page, s, q)
<1> DEFINE e == page.entries
           n == Len(e)
<1>1. e \in Seq(Separator)
  BY DEF InnerPage
<1>2. n \in Nat /\ DOMAIN e = 1..n /\ \A i \in 1..n : e[i] \in Separator
  <2> HIDE DEF e
  <2>1. QED
    BY <1>1, LenProperties, ElementOfSeq
<1>3. \A i \in 1..n : e[i].key \in Int
  <2> HIDE DEF e, n
  <2>1. QED
    BY <1>2, KeysAreNumbers DEF Separator
<1>4. \A i, j \in 1..n : i < j => e[i].key < e[j].key
  BY DEF Sorted
<1>5. /\ Route(page, q) \in 0..n
      /\ \A s \in 0..n : Route(page, q) = s <=> (s = 0 \/ e[s].key <= q) /\ (s = n \/ q < e[s + 1].key)
  <2> HIDE DEF e, n
  <2> DEFINE r == Cardinality({i \in DOMAIN e : e[i].key <= q})
  <2>1. r \in 0..n /\ \A s \in 0..n : r = s <=> (s = 0 \/ e[s].key <= q) /\ (s = n \/ q < e[s + 1].key)
    BY <1>2, <1>3, <1>4, Ranks
  <2>2. Route(page, q) = r
    BY DEF Route, e
  <2>3. QED
    BY <2>1, <2>2
<1>6. QED
  BY <1>5 DEF Slots, Between

\* leaf_find_slot finds the place of a key: the smaller keys are before it.
LEMMA LeafSlotIs ==
  ASSUME NEW page \in LeafPage, Sorted(page.entries), NEW k \in Keys
  PROVE  LET p == LeafSlot(page, k)
             e == page.entries
         IN /\ p \in 1..(Len(e) + 1)
            /\ \A i \in 1..Len(e) : e[i].key < k <=> i < p
            /\ InLeaf(page, k) <=> p <= Len(e) /\ e[p].key = k
            /\ ~InLeaf(page, k) => \A i \in 1..Len(e) : k < e[i].key <=> p <= i
<1> DEFINE e == page.entries
           n == Len(e)
           p == LeafSlot(page, k)
           r == Cardinality({i \in DOMAIN e : e[i].key <= k - 1})
<1>1. e \in Seq(LeafRecord)
  BY DEF LeafPage
<1>2. n \in Nat /\ DOMAIN e = 1..n /\ \A i \in 1..n : e[i] \in LeafRecord
  <2> HIDE DEF e
  <2>1. QED
    BY <1>1, LenProperties, ElementOfSeq
<1>3. k \in Int /\ \A i \in 1..n : e[i].key \in Int
  <2> HIDE DEF e, n
  <2>1. QED
    BY <1>2, KeysAreNumbers, LeafRecords
<1>4. \A i, j \in 1..n : i < j => e[i].key < e[j].key
  BY DEF Sorted
<1>5. InLeaf(page, k) <=> \E i \in 1..n : e[i].key = k
  BY <1>2 DEF InLeaf
<1>6. p = r + 1
  <2>1. {i \in DOMAIN e : e[i].key < k} = {i \in DOMAIN e : e[i].key <= k - 1}
    BY <1>2, <1>3
  <2>2. QED
    BY <2>1 DEF LeafSlot
<1> HIDE DEF e, n, p
<1>7. r \in 0..n /\ \A i \in 1..n : e[i].key <= k - 1 <=> i <= r
  <2> DEFINE q == k - 1
  <2>1. q \in Int
    BY <1>3
  <2> HIDE DEF q, r
  <2>3. LET u == Cardinality({i \in DOMAIN e : e[i].key <= q})
        IN u \in 0..n /\ \A i \in 1..n : e[i].key <= q <=> i <= u
    BY <1>2, <1>3, <1>4, <2>1, Ranks
  <2>2. QED
    BY <2>3 DEF q, r
<1> HIDE DEF r
<1>8. p \in 1..(n + 1) /\ \A i \in 1..n : e[i].key < k <=> i < p
  <2>1. \A i \in 1..n : e[i].key < k <=> e[i].key <= k - 1
    BY <1>3
  <2>2. QED
    BY <1>2, <1>6, <1>7, <2>1
<1>9. ASSUME NEW i \in 1..n, e[i].key = k PROVE p = i
  <2>1. ~(i < p)
    BY <1>3, <1>8, <1>9
  <2>2. ASSUME p < i PROVE FALSE
    <3>1. p \in 1..n
      BY <1>2, <1>8, <2>2
    <3>2. e[p].key < k /\ ~(p < p)
      BY <1>4, <1>8, <1>9, <2>2, <3>1
    <3>3. QED
      BY <1>8, <3>1, <3>2
  <2>3. QED
    BY <1>2, <1>8, <2>1, <2>2
<1>10. InLeaf(page, k) <=> p <= n /\ e[p].key = k
  <2>1. p <= n => p \in 1..n
    BY <1>2, <1>8
  <2>2. QED
    BY <1>2, <1>5, <1>9, <2>1
<1>11. ASSUME ~InLeaf(page, k), NEW i \in 1..n PROVE k < e[i].key <=> p <= i
  <2>1. e[i].key # k
    BY <1>5, <1>11
  <2>2. QED
    BY <1>2, <1>3, <1>8, <2>1
<1>12. QED
  BY <1>8, <1>10, <1>11 DEF e, n, p

----------------------------------------------------------------------------
(* Trees of pages.  b[p] is the set of pages at and below page p.          *)

IsNode(d, p) ==
  /\ p \in DOMAIN d /\ p \in Nat \ {0}
  /\ d[p] \in LeafPage \/ d[p] \in InnerPage
  /\ Sorted(d[p].entries)
  /\ Fits(d[p])

KeysAt(page) == {page.entries[i].key : i \in DOMAIN page.entries}
KeysIn(d, P) == UNION {KeysAt(d[q]) : q \in P}

ChildrenApart(d, S, b, p) ==
  \A s \in Slots(d[p]) :
    /\ Child(d[p], s) \in S
    /\ p \notin b[Child(d[p], s)]
    /\ \A t \in Slots(d[p]) : t # s => b[Child(d[p], s)] \cap b[Child(d[p], t)] = {}

\* The keys of a child, and the separators in it, are those routed to it.
ChildrenRouted(d, b, p) ==
  \A s \in Slots(d[p]) : \A q \in KeysIn(d, b[Child(d[p], s)]) : Route(d[p], q) = s

Nodes(d, S) == \A p \in S : IsNode(d, p)

Ordered(S, b) ==
  /\ b \in [S -> SUBSET S]
  /\ \A p \in S : p \in b[p]
  /\ \A p \in S : \A q \in b[p] : b[q] \subseteq b[p] /\ (p \in b[q] => q = p)

Laminar(S, b) == \A p, q, u \in S : u \in b[p] /\ u \in b[q] => p \in b[q] \/ q \in b[p]

Parent(d, S, b, p) ==
  /\ ChildrenApart(d, S, b, p)
  /\ ChildrenRouted(d, b, p)
  /\ b[p] = {p} \cup UNION {b[Child(d[p], s)] : s \in Slots(d[p])}

Linked(d, S, b) ==
  \A p \in S : /\ d[p] \in LeafPage => b[p] = {p}
               /\ d[p] \in InnerPage => Parent(d, S, b, p)

Forest(d, S, b) == Nodes(d, S) /\ Ordered(S, b) /\ Laminar(S, b) /\ Linked(d, S, b)

\* A page is not both a leaf and an internal page; the type byte tells which.
LEMMA PageKinds ==
  ASSUME NEW page
  PROVE  /\ page \in LeafPage => page \notin InnerPage /\ page.type = "leaf"
         /\ page \in InnerPage => page \notin LeafPage /\ page.type = "internal"
BY DEF LeafPage, InnerPage

\* Keys are members of Keys.
LEMMA KeysOfPage ==
  ASSUME NEW page, page \in LeafPage \/ page \in InnerPage
  PROVE  /\ KeysAt(page) \subseteq Keys
         /\ Len(page.entries) \in Nat /\ DOMAIN page.entries = 1..Len(page.entries)
         /\ \A i \in 1..Len(page.entries) : page.entries[i].key \in Keys
<1>1. CASE page \in LeafPage
  <2> DEFINE e == page.entries
  <2>1. e \in Seq(LeafRecord)
    BY <1>1 DEF LeafPage
  <2> HIDE DEF e
  <2>2. Len(e) \in Nat /\ DOMAIN e = 1..Len(e) /\ \A i \in 1..Len(e) : e[i] \in LeafRecord
    BY <2>1, LenProperties, ElementOfSeq
  <2>3. \A i \in 1..Len(e) : e[i].key \in Keys
    BY <2>2, LeafRecords
  <2>4. QED
    BY <2>2, <2>3 DEF KeysAt, e
<1>2. CASE page \in InnerPage
  <2> DEFINE e == page.entries
  <2>1. e \in Seq(Separator)
    BY <1>2 DEF InnerPage
  <2> HIDE DEF e
  <2>2. Len(e) \in Nat /\ DOMAIN e = 1..Len(e) /\ \A i \in 1..Len(e) : e[i] \in Separator
    BY <2>1, LenProperties, ElementOfSeq
  <2>3. \A i \in 1..Len(e) : e[i].key \in Keys
    BY <2>2 DEF Separator
  <2>4. QED
    BY <2>2, <2>3 DEF KeysAt, e
<1>3. QED
  BY <1>1, <1>2

\* The keys on the pages of a tree are keys of the program.
LEMMA KeysOfNodes ==
  ASSUME NEW d, NEW P, Nodes(d, P)
  PROVE  KeysIn(d, P) \subseteq Keys /\ \A q \in KeysIn(d, P) : q \in Int
<1>1. \A p \in P : KeysAt(d[p]) \subseteq Keys
  BY KeysOfPage DEF Nodes, IsNode
<1>2. KeysIn(d, P) \subseteq Keys
  BY <1>1 DEF KeysIn
<1>3. QED
  BY <1>2, KeysAreNumbers

\* The route that internal_find_route finds is a child that the page has.
LEMMA RouteIsSlot ==
  ASSUME NEW d, NEW p, IsNode(d, p), d[p] \in InnerPage, NEW q \in Int
  PROVE  Route(d[p], q) \in Slots(d[p])
BY RouteIs DEF IsNode

\* The keys of two sets of pages.
LEMMA KeysInUnion ==
  ASSUME NEW d, NEW P, NEW Q
  PROVE  KeysIn(d, P \cup Q) = KeysIn(d, P) \cup KeysIn(d, Q)
BY DEF KeysIn

\* The keys of some of the pages.
LEMMA KeysInSubset ==
  ASSUME NEW d, NEW P, NEW Q, P \subseteq Q
  PROVE  KeysIn(d, P) \subseteq KeysIn(d, Q)
BY DEF KeysIn

\* Pages that have not changed have the keys they had.
LEMMA KeysInSame ==
  ASSUME NEW d, NEW d2, NEW P, \A p \in P : d2[p] = d[p]
  PROVE  KeysIn(d2, P) = KeysIn(d, P)
BY DEF KeysIn

\* A forest does not depend on the other pages of the file.
LEMMA SameForest ==
  ASSUME NEW d, NEW S, NEW b, Forest(d, S, b), NEW d2,
         \A p \in S : p \in DOMAIN d2 /\ d2[p] = d[p]
  PROVE  Forest(d2, S, b)
<1>1. Nodes(d2, S)
  BY DEF Forest, Nodes, IsNode
<1>2. ASSUME NEW p \in S, d2[p] \in InnerPage PROVE Parent(d2, S, b, p)
  <2>1. Parent(d, S, b, p) /\ d2[p] = d[p]
    BY <1>2 DEF Forest, Linked
  <2>2. ChildrenApart(d2, S, b, p)
    BY <2>1 DEF Parent, ChildrenApart
  <2>3. \A s \in Slots(d[p]) : KeysIn(d2, b[Child(d[p], s)]) = KeysIn(d, b[Child(d[p], s)])
    <3>1. \A s \in Slots(d[p]) : b[Child(d[p], s)] \subseteq S
      BY <2>1 DEF Parent, ChildrenApart, Forest, Ordered
    <3>2. QED
      BY <3>1, KeysInSame
  <2>4. ChildrenRouted(d2, b, p)
    BY <2>1, <2>3 DEF Parent, ChildrenRouted
  <2>5. QED
    BY <2>1, <2>2, <2>4 DEF Parent
<1>3. Linked(d2, S, b)
  BY <1>2 DEF Forest, Linked
<1>4. QED
  BY <1>1, <1>3 DEF Forest

\* A set of pages that has with a page those below it is a forest.
LEMMA PartOfForest ==
  ASSUME NEW d, NEW S, NEW b, Forest(d, S, b), NEW Q, Q \subseteq S, \A q \in Q : b[q] \subseteq Q
  PROVE  Forest(d, Q, [q \in Q |-> b[q]])
<1> DEFINE c == [q \in Q |-> b[q]]
<1>1. \A q \in Q : c[q] = b[q]
  OBVIOUS
<1>2. c \in [Q -> SUBSET Q]
  OBVIOUS
<1> HIDE DEF c
<1>3. Nodes(d, Q)
  BY DEF Forest, Nodes
<1>4. Ordered(Q, c)
  BY <1>1, <1>2 DEF Forest, Ordered
<1>5. Laminar(Q, c)
  BY <1>1 DEF Forest, Laminar
<1>6. ASSUME NEW p \in Q, d[p] \in InnerPage PROVE Parent(d, Q, c, p)
  <2>1. Parent(d, S, b, p)
    BY <1>6 DEF Forest, Linked
  <2>2. \A s \in Slots(d[p]) : Child(d[p], s) \in Q
    <3>1. ASSUME NEW s \in Slots(d[p]) PROVE Child(d[p], s) \in b[p]
      <4>1. Child(d[p], s) \in b[Child(d[p], s)]
        BY <2>1 DEF Parent, ChildrenApart, Forest, Ordered
      <4>2. QED
        BY <2>1, <4>1 DEF Parent
    <3>2. QED
      BY <3>1
  <2>3. \A s \in Slots(d[p]) : c[Child(d[p], s)] = b[Child(d[p], s)]
    BY <1>1, <2>2
  <2>4. ChildrenApart(d, Q, c, p)
    BY <2>1, <2>2, <2>3 DEF Parent, ChildrenApart
  <2>5. ChildrenRouted(d, c, p)
    BY <2>1, <2>3 DEF Parent, ChildrenRouted
  <2>6. c[p] = {p} \cup UNION {c[Child(d[p], s)] : s \in Slots(d[p])}
    <3>1. {c[Child(d[p], s)] : s \in Slots(d[p])} = {b[Child(d[p], s)] : s \in Slots(d[p])}
      BY <2>3
    <3>2. QED
      BY <1>1, <2>1, <3>1 DEF Parent
  <2>7. QED
    BY <2>4, <2>5, <2>6 DEF Parent
<1>7. Linked(d, Q, c)
  BY <1>1, <1>6 DEF Forest, Linked
<1>8. QED
  BY <1>3, <1>4, <1>5, <1>7 DEF Forest, c

\* The pages P are a tree with root p.
Tree(d, P, p) == \E w : Forest(d, P, w) /\ p \in P /\ w[p] = P

\* G[s] are the pages of a tree below slot s of a page, written or not.
Family(d, page, G) ==
  /\ page \in InnerPage /\ Sorted(page.entries)
  /\ \A s \in Slots(page) :
       /\ Tree(d, G[s], Child(page, s))
       /\ \A t \in Slots(page) : t # s => G[s] \cap G[t] = {}
       /\ \A q \in KeysIn(d, G[s]) : Between(page, s, q)

AllOf(page, G) == UNION {G[s] : s \in Slots(page)}

\* A page above its children stays so among more pages.
LEMMA ParentElsewhere ==
  ASSUME NEW d, NEW T, NEW v, NEW p, Parent(d, T, v, p), \A q \in T : q \in v[q] /\ v[q] \subseteq T,
         NEW Q, NEW c, T \subseteq Q, \A q \in T : c[q] = v[q], p \in T
  PROVE  Parent(d, Q, c, p)
<1>1. \A s \in Slots(d[p]) : Child(d[p], s) \in Q /\ c[Child(d[p], s)] = v[Child(d[p], s)]
  BY DEF Parent, ChildrenApart
<1>2. ChildrenApart(d, Q, c, p)
  BY <1>1 DEF Parent, ChildrenApart
<1>3. ChildrenRouted(d, c, p)
  BY <1>1 DEF Parent, ChildrenRouted
<1>4. {c[Child(d[p], s)] : s \in Slots(d[p])} = {v[Child(d[p], s)] : s \in Slots(d[p])}
  BY <1>1
<1>5. c[p] = {p} \cup UNION {c[Child(d[p], s)] : s \in Slots(d[p])}
  BY <1>4 DEF Parent
<1>6. QED
  BY <1>2, <1>3, <1>5 DEF Parent

\* A page with trees below it is a tree.
LEMMA TreeJoin ==
  ASSUME NEW d, NEW p, IsNode(d, p), NEW G, Family(d, d[p], G), p \notin AllOf(d[p], G)
  PROVE  Tree(d, {p} \cup AllOf(d[p], G), p)
<1> DEFINE page == d[p]
           W(s) == CHOOSE w : Forest(d, G[s], w) /\ Child(page, s) \in G[s] /\ w[Child(page, s)] = G[s]
           P == AllOf(page, G)
           Q == {p} \cup P
           at(a) == CHOOSE s \in Slots(page) : a \in G[s]
           v == [a \in Q |-> IF a = p THEN Q ELSE W(at(a))[a]]
<1>1. \A s \in Slots(page) : Forest(d, G[s], W(s)) /\ Child(page, s) \in G[s] /\ W(s)[Child(page, s)] = G[s]
  <2> SUFFICES ASSUME NEW s \in Slots(page)
               PROVE  Forest(d, G[s], W(s)) /\ Child(page, s) \in G[s] /\ W(s)[Child(page, s)] = G[s]
    OBVIOUS
  <2>1. \E w : Forest(d, G[s], w) /\ Child(page, s) \in G[s] /\ w[Child(page, s)] = G[s]
    BY DEF Family, Tree
  <2>2. QED
    BY <2>1
<1>2. \A s \in Slots(page) : W(s) \in [G[s] -> SUBSET G[s]] /\ \A a \in G[s] : a \in W(s)[a] /\ W(s)[a] \subseteq G[s]
  <2> HIDE DEF W
  <2>1. QED
    BY <1>1 DEF Forest, Ordered
<1>3. \A s \in Slots(page) : G[s] \subseteq P
  BY DEF AllOf
<1>4. \A s \in Slots(page) : \A a \in G[s] : v[a] = W(s)[a]
  <2> SUFFICES ASSUME NEW s \in Slots(page), NEW a \in G[s] PROVE v[a] = W(s)[a]
    OBVIOUS
  <2>1. a \in P /\ a # p
    BY <1>3
  <2>2. at(a) \in Slots(page) /\ a \in G[at(a)]
    OBVIOUS
  <2>3. at(a) = s
    BY <2>2 DEF Family
  <2>4. QED
    BY <2>1, <2>3
<1>5. \A a \in P : \E s \in Slots(page) : a \in G[s]
  BY DEF AllOf
<1>6. v[p] = Q
  OBVIOUS
<1>7. v \in [Q -> SUBSET Q]
  <2>1. \A a \in P : v[a] \subseteq Q
    <3> HIDE DEF W, v
    <3>1. QED
      BY <1>2, <1>3, <1>4, <1>5
  <2>2. \A a \in Q : v[a] \subseteq Q
    <3> HIDE DEF v
    <3>1. QED
      BY <1>6, <2>1
  <2>3. v = [a \in Q |-> v[a]]
    OBVIOUS
  <2> HIDE DEF v
  <2>4. QED
    BY <2>2, <2>3
<1>8. p \notin P
  OBVIOUS
<1>9. Family(d, page, G) /\ page \in InnerPage /\ Sorted(page.entries)
  BY DEF Family
<1> HIDE DEF v, W, P, page
<1>10. Nodes(d, Q)
  <2>1. \A s \in Slots(page) : Nodes(d, G[s])
    BY <1>1 DEF Forest
  <2>2. QED
    BY <1>5, <2>1 DEF Nodes
<1>11. Ordered(Q, v)
  <2>1. \A a \in Q : a \in v[a]
    BY <1>2, <1>4, <1>5, <1>6
  <2>2. \A q \in v[p] : v[q] \subseteq v[p] /\ (p \in v[q] => q = p)
    BY <1>2, <1>3, <1>4, <1>5, <1>6, <1>7, <1>8
  <2>3. ASSUME NEW s \in Slots(page), NEW a \in G[s], NEW q \in v[a] PROVE v[q] \subseteq v[a] /\ (a \in v[q] => q = a)
    <3>1. q \in G[s] /\ v[a] = W(s)[a] /\ v[q] = W(s)[q]
      BY <1>2, <1>4
    <3>2. Ordered(G[s], W(s))
      BY <1>1 DEF Forest
    <3>3. QED
      BY <3>1, <3>2 DEF Ordered
  <2>4. QED
    BY <1>5, <1>7, <2>1, <2>2, <2>3 DEF Ordered
<1>12. Laminar(Q, v)
  <2> SUFFICES ASSUME NEW a \in Q, NEW q \in Q, NEW u \in Q, u \in v[a], u \in v[q]
               PROVE  a \in v[q] \/ q \in v[a]
    BY DEF Laminar
  <2>1. CASE a = p \/ q = p
    BY <1>6, <2>1
  <2>2. CASE a # p /\ q # p
    <3>1. PICK s \in Slots(page) : a \in G[s]
      BY <1>5, <2>2
    <3>2. PICK t \in Slots(page) : q \in G[t]
      BY <1>5, <2>2
    <3>3. v[a] = W(s)[a] /\ v[q] = W(t)[q] /\ u \in G[s] /\ u \in G[t]
      BY <1>2, <1>4, <3>1, <3>2
    <3>4. s = t
      BY <1>9, <3>3 DEF Family
    <3>5. Laminar(G[s], W(s))
      BY <1>1 DEF Forest
    <3>6. QED
      BY <3>1, <3>2, <3>3, <3>4, <3>5 DEF Laminar
  <2>3. QED
    BY <2>1, <2>2
<1>13. ASSUME NEW s \in Slots(page), NEW a \in G[s]
       PROVE  /\ d[a] \in LeafPage => v[a] = {a}
              /\ d[a] \in InnerPage => Parent(d, Q, v, a)
  <2>1. Linked(d, G[s], W(s))
    BY <1>1 DEF Forest
  <2>2. v[a] = W(s)[a] /\ \A q \in G[s] : v[q] = W(s)[q]
    BY <1>4
  <2>3. d[a] \in InnerPage => Parent(d, G[s], W(s), a)
    BY <2>1 DEF Linked
  <2>4. G[s] \subseteq Q
    BY <1>3
  <2>5. d[a] \in InnerPage => Parent(d, Q, v, a)
    BY <1>2, <2>2, <2>3, <2>4, ParentElsewhere
  <2>6. QED
    BY <2>1, <2>2, <2>5 DEF Linked
<1>14. Parent(d, Q, v, p)
  <2>1. \A s \in Slots(page) : Child(page, s) \in Q /\ v[Child(page, s)] = G[s] /\ p \notin G[s]
    BY <1>1, <1>3, <1>4, <1>8
  <2>2. \A s, t \in Slots(page) : t # s => G[s] \cap G[t] = {}
    BY <1>9 DEF Family
  <2>3. ChildrenApart(d, Q, v, p)
    BY <2>1, <2>2 DEF ChildrenApart, page
  <2>4. ASSUME NEW s \in Slots(page), NEW q \in KeysIn(d, G[s]) PROVE Route(page, q) = s
    <3>1. Nodes(d, G[s])
      BY <1>1 DEF Forest
    <3>2. q \in Int
      BY <3>1, KeysOfNodes
    <3>3. Between(page, s, q)
      BY <1>9 DEF Family
    <3>4. QED
      BY <1>9, <3>2, <3>3, RouteIs
  <2>5. ChildrenRouted(d, v, p)
    BY <2>1, <2>4 DEF ChildrenRouted, page
  <2>6. {v[Child(page, s)] : s \in Slots(page)} = {G[s] : s \in Slots(page)}
    BY <2>1
  <2>7. v[p] = {p} \cup UNION {v[Child(page, s)] : s \in Slots(page)}
    BY <1>6, <2>6 DEF P, AllOf
  <2>8. QED
    BY <2>3, <2>5, <2>7 DEF Parent, page
<1>15. Linked(d, Q, v)
  <2>1. d[p] \in InnerPage /\ d[p] \notin LeafPage
    BY <1>9, PageKinds DEF page
  <2>2. QED
    BY <1>5, <1>13, <1>14, <2>1 DEF Linked
<1>16. Forest(d, Q, v) /\ p \in Q
  BY <1>10, <1>11, <1>12, <1>15 DEF Forest
<1>17. QED
  BY <1>6, <1>16 DEF Tree, P, page

\* A leaf is a tree.
LEMMA TreeOfLeaf ==
  ASSUME NEW d, NEW p, IsNode(d, p), d[p] \in LeafPage
  PROVE  Tree(d, {p}, p)
<1> DEFINE v == [a \in {p} |-> {p}]
<1>1. v[p] = {p} /\ v \in [{p} -> SUBSET {p}]
  OBVIOUS
<1> HIDE DEF v
<1>2. d[p] \notin InnerPage
  BY PageKinds
<1>3. Forest(d, {p}, v)
  BY <1>1, <1>2 DEF Forest, Nodes, Ordered, Laminar, Linked
<1>4. QED
  BY <1>1, <1>3 DEF Tree

\* The pages at and below a page of a forest are a tree.
LEMMA TreeBelow ==
  ASSUME NEW d, NEW S, NEW b, Forest(d, S, b), NEW p \in S
  PROVE  Tree(d, b[p], p)
<1>1. b[p] \subseteq S /\ p \in b[p] /\ \A q \in b[p] : b[q] \subseteq b[p]
  BY DEF Forest, Ordered
<1> DEFINE w == [q \in b[p] |-> b[q]]
<1>2. Forest(d, b[p], w)
  BY <1>1, PartOfForest
<1>3. w[p] = b[p]
  BY <1>1
<1>4. QED
  BY <1>1, <1>2, <1>3 DEF Tree

\* The pages below an internal page are a family.
LEMMA FamilyBelow ==
  ASSUME NEW d, NEW S, NEW b, Forest(d, S, b), NEW p \in S, d[p] \in InnerPage,
         NEW G, \A s \in Slots(d[p]) : G[s] = b[Child(d[p], s)]
  PROVE  /\ Family(d, d[p], G)
         /\ p \notin AllOf(d[p], G)
         /\ b[p] = {p} \cup AllOf(d[p], G)
         /\ \A s \in Slots(d[p]) : Child(d[p], s) \in S
<1>1. Parent(d, S, b, p) /\ IsNode(d, p)
  BY DEF Forest, Linked, Nodes
<1>2. \A s \in Slots(d[p]) : Child(d[p], s) \in S /\ p \notin G[s]
  BY <1>1 DEF Parent, ChildrenApart
<1>3. \A s \in Slots(d[p]) : Tree(d, G[s], Child(d[p], s))
  BY <1>2, TreeBelow
<1>4. ASSUME NEW s \in Slots(d[p]), NEW q \in KeysIn(d, G[s]) PROVE Between(d[p], s, q)
  <2>1. G[s] \subseteq S
    BY <1>2 DEF Forest, Ordered
  <2>2. Nodes(d, G[s])
    BY <2>1 DEF Forest, Nodes
  <2>3. q \in Int
    BY <2>2, KeysOfNodes
  <2>4. Route(d[p], q) = s
    BY <1>1, <1>2 DEF Parent, ChildrenRouted
  <2>5. QED
    BY <1>1, <2>3, <2>4, RouteIs DEF IsNode
<1>5. Family(d, d[p], G)
  <2>1. \A s, t \in Slots(d[p]) : t # s => G[s] \cap G[t] = {}
    BY <1>1 DEF Parent, ChildrenApart
  <2>2. Sorted(d[p].entries)
    BY <1>1 DEF IsNode
  <2>3. QED
    BY <1>3, <1>4, <2>1, <2>2 DEF Family
<1>6. p \notin AllOf(d[p], G)
  BY <1>2 DEF AllOf
<1>7. b[p] = {p} \cup AllOf(d[p], G)
  <2>1. {b[Child(d[p], s)] : s \in Slots(d[p])} = {G[s] : s \in Slots(d[p])}
    OBVIOUS
  <2>2. QED
    BY <1>1, <2>1 DEF Parent, AllOf
<1>8. QED
  BY <1>2, <1>5, <1>6, <1>7

\* A tree does not depend on the other pages of the file.
LEMMA TreeSame ==
  ASSUME NEW d, NEW P, NEW p, Tree(d, P, p), NEW d2, \A q \in P : q \in DOMAIN d2 /\ d2[q] = d[q]
  PROVE  Tree(d2, P, p)
<1>1. PICK w : Forest(d, P, w) /\ p \in P /\ w[p] = P
  BY DEF Tree
<1>2. Forest(d2, P, w)
  BY <1>1, SameForest
<1>3. QED
  BY <1>1, <1>2 DEF Tree

\* The trees under a page stay while their pages are not written.
LEMMA FamilySame ==
  ASSUME NEW d, NEW page, NEW G, Family(d, page, G),
         NEW d2, \A q \in AllOf(page, G) : q \in DOMAIN d2 /\ d2[q] = d[q]
  PROVE  Family(d2, page, G)
<1>1. \A s \in Slots(page) : G[s] \subseteq AllOf(page, G)
  BY DEF AllOf
<1>2. ASSUME NEW s \in Slots(page) PROVE Tree(d2, G[s], Child(page, s)) /\ KeysIn(d2, G[s]) = KeysIn(d, G[s])
  <2>1. \A q \in G[s] : q \in DOMAIN d2 /\ d2[q] = d[q]
    BY <1>1
  <2>2. Tree(d, G[s], Child(page, s))
    BY DEF Family
  <2>3. QED
    BY <2>1, <2>2, TreeSame, KeysInSame
<1>3. QED
  BY <1>2 DEF Family

\* The pages of a tree are nodes; the root is one of them.
LEMMA TreeNodes ==
  ASSUME NEW d, NEW P, NEW p, Tree(d, P, p)
  PROVE  Nodes(d, P) /\ p \in P /\ P \subseteq DOMAIN d /\ P \subseteq Nat \ {0}
<1>1. Nodes(d, P) /\ p \in P
  BY DEF Tree, Forest
<1>2. QED
  BY <1>1 DEF Nodes, IsNode

----------------------------------------------------------------------------
(* What trees hold. *)

Records(page) == IF page.type = "leaf" THEN {page.entries[i] : i \in DOMAIN page.entries} ELSE {}
Held(d, P) == UNION {Records(d[q]) : q \in P}

Full(d, P) == \A q \in P : d[q].entries # <<>>

\* The records on two sets of pages.
LEMMA HeldInUnion ==
  ASSUME NEW d, NEW P, NEW Q
  PROVE  Held(d, P \cup Q) = Held(d, P) \cup Held(d, Q)
BY DEF Held

\* Pages that have not changed have the records they had.
LEMMA HeldSame ==
  ASSUME NEW d, NEW d2, NEW P, \A p \in P : d2[p] = d[p]
  PROVE  Held(d2, P) = Held(d, P)
BY DEF Held

\* The records of a leaf; an internal page has none.
LEMMA RecordsOfPage ==
  ASSUME NEW page
  PROVE  /\ page \in LeafPage => /\ Records(page) = {page.entries[i] : i \in 1..Len(page.entries)}
                                 /\ Records(page) \subseteq LeafRecord
                                 /\ \A e \in Records(page) : e.key \in KeysAt(page) /\ e.key \in Keys
                                 /\ \A q \in KeysAt(page) : \E e \in Records(page) : e.key = q
         /\ page \in InnerPage => Records(page) = {}
<1>1. ASSUME page \in LeafPage
      PROVE  /\ Records(page) = {page.entries[i] : i \in 1..Len(page.entries)}
             /\ Records(page) \subseteq LeafRecord
             /\ \A e \in Records(page) : e.key \in KeysAt(page)
             /\ \A q \in KeysAt(page) : \E e \in Records(page) : e.key = q
  <2> DEFINE e == page.entries
  <2>1. e \in Seq(LeafRecord) /\ page.type = "leaf"
    BY <1>1 DEF LeafPage
  <2> HIDE DEF e
  <2>2. Len(e) \in Nat /\ DOMAIN e = 1..Len(e) /\ \A i \in 1..Len(e) : e[i] \in LeafRecord
    BY <2>1, LenProperties, ElementOfSeq
  <2>3. Records(page) = {e[i] : i \in 1..Len(e)}
    BY <2>1, <2>2 DEF Records, e
  <2>4. KeysAt(page) = {e[i].key : i \in 1..Len(e)}
    BY <2>2 DEF KeysAt, e
  <2>5. QED
    BY <2>2, <2>3, <2>4 DEF e
<1>2. page \in InnerPage => Records(page) = {}
  BY PageKinds DEF Records
<1>3. QED
  BY <1>1, <1>2, LeafRecords

\* The key of a record is on its page.
LEMMA HeldKeys ==
  ASSUME NEW d, NEW P, Nodes(d, P)
  PROVE  /\ Held(d, P) \subseteq LeafRecord
         /\ \A e \in Held(d, P) : e.key \in KeysIn(d, P)
<1>1. \A p \in P : d[p] \in LeafPage \/ d[p] \in InnerPage
  BY DEF Nodes, IsNode
<1>2. \A p \in P : Records(d[p]) \subseteq LeafRecord /\ \A e \in Records(d[p]) : e.key \in KeysAt(d[p])
  BY <1>1, RecordsOfPage
<1>3. QED
  BY <1>2 DEF Held, KeysIn

\* The records and the keys below a page are those of its children's trees.
LEMMA HeldOfAll ==
  ASSUME NEW d, NEW page, NEW G
  PROVE  /\ Held(d, AllOf(page, G)) = UNION {Held(d, G[s]) : s \in Slots(page)}
         /\ KeysIn(d, AllOf(page, G)) = UNION {KeysIn(d, G[s]) : s \in Slots(page)}
BY DEF Held, KeysIn, AllOf

\* No page is empty in two sets of pages, or in a part of one.
LEMMA FullParts ==
  ASSUME NEW d, NEW P, NEW Q
  PROVE  /\ Full(d, P \cup Q) <=> Full(d, P) /\ Full(d, Q)
         /\ Q \subseteq P /\ Full(d, P) => Full(d, Q)
BY DEF Full

\* A full tree has keys.
LEMMA FullHasKeys ==
  ASSUME NEW d, NEW P, NEW p, Tree(d, P, p), Full(d, P)
  PROVE  KeysIn(d, P) # {}
<1>1. p \in P /\ IsNode(d, p) /\ d[p].entries # <<>>
  BY TreeNodes DEF Nodes, Full
<1> DEFINE e == d[p].entries
<1>2. e \in Seq(LeafRecord) \/ e \in Seq(Separator)
  BY <1>1 DEF IsNode, LeafPage, InnerPage
<1>3. e # <<>> /\ DOMAIN e = 1..Len(e)
  BY <1>1, KeysOfPage DEF IsNode
<1> HIDE DEF e
<1>4. 1 \in DOMAIN e
  <2>1. Len(e) \in Nat /\ Len(e) # 0
    BY <1>2, <1>3, EmptySeq, LenProperties
  <2>2. QED
    BY <1>3, <2>1
<1>5. e[1].key \in KeysAt(d[p])
  BY <1>4 DEF KeysAt, e
<1>6. QED
  BY <1>1, <1>5 DEF KeysIn

----------------------------------------------------------------------------
(* The way of a key. *)

\* The two sorts of pages of a tree, as page_type tells them.
LEMMA InnerIs ==
  ASSUME NEW d, NEW p, IsNode(d, p)
  PROVE  /\ Readable(d, p)
         /\ Inner(d, p) <=> d[p] \in InnerPage
         /\ IsLeaf(d, p) <=> d[p] \in LeafPage
         /\ d[p] \in LeafPage <=> d[p] \notin InnerPage
BY PageKinds DEF IsNode, Readable, Inner, IsLeaf

\* Each page of a way is the child that the page before it routes the key to.
Way(d, S, q, path) ==
  /\ path \in Seq(S) /\ Len(path) \in Nat \ {0}
  /\ \A j \in 1..(Len(path) - 1) :
       d[path[j]] \in InnerPage /\ path[j + 1] = Child(d[path[j]], Route(d[path[j]], q))

\* f[i] is the way of q from p after i steps.
Steps(d, S, p, q, f) ==
  LET n == Cardinality(DOMAIN d)
      next(path) == Append(path, Child(d[Last(path)], Route(d[Last(path)], q)))
  IN /\ n \in Nat
     /\ f[0] = <<p>>
     /\ \A i \in 0..n : f[i] \in Seq(S) /\ Len(f[i]) \in Nat \ {0}
     /\ \A i \in 1..n : f[i] = IF d[Last(f[i - 1])] \in InnerPage THEN next(f[i - 1]) ELSE f[i - 1]

\* insert_recursive, btree_delete_recursive and btree_find_leaf go from a page to a child.
LEMMA DescentIs ==
  ASSUME NEW d, NEW S, NEW b, Forest(d, S, b), IsFiniteSet(DOMAIN d), NEW p \in S, NEW q \in Int
  PROVE  Steps(d, S, p, q, Descent(d, p, q))
<1> DEFINE T == Seq(S) \ {<<>>}
           n == Cardinality(DOMAIN d)
           x == <<p>>
           next(path) == Append(path, Child(d[Last(path)], Route(d[Last(path)], q)))
           Step(path) == LET page == Last(path)
                         IN IF Inner(d, page) THEN Append(path, Child(d[page], Route(d[page], q))) ELSE path
           step == [u \in T \X (1..n) |-> Step(u[1])]
<1>1. n \in Nat
  BY FS_CardinalityType
<1>2. x \in T
  OBVIOUS
<1>3. \A path \in T : Last(path) \in S /\ Len(path) \in Nat \ {0}
  BY FrontOfSeq
<1>4. \A path \in T : Step(path) = IF d[Last(path)] \in InnerPage THEN next(path) ELSE path
  <2>1. \A path \in T : IsNode(d, Last(path))
    BY <1>3 DEF Forest, Nodes
  <2>2. QED
    BY <2>1, InnerIs
<1>5. ASSUME NEW path \in T, d[Last(path)] \in InnerPage PROVE next(path) \in T
  <2> DEFINE a == Last(path)
  <2>1. a \in S /\ d[a] \in InnerPage
    BY <1>3, <1>5
  <2> HIDE DEF a
  <2>2. Parent(d, S, b, a) /\ IsNode(d, a)
    BY <2>1 DEF Forest, Linked, Nodes
  <2>3. Route(d[a], q) \in Slots(d[a])
    BY <2>1, <2>2, RouteIsSlot
  <2>4. Child(d[a], Route(d[a], q)) \in S
    BY <2>2, <2>3 DEF Parent, ChildrenApart
  <2>5. Append(path, Child(d[a], Route(d[a], q))) \in Seq(S)
    BY <2>4
  <2>6. Append(path, Child(d[a], Route(d[a], q))) # <<>>
    BY <2>4
  <2>7. QED
    BY <2>5, <2>6 DEF a
<1>6. \A path \in T : Step(path) \in T
  BY <1>4, <1>5
<1> HIDE DEF Step, T, x, n
<1>7. IsStep(step, T, n)
  BY <1>6 DEF IsStep
<1>8. \A path \in T, i \in 1..n : step[<<path, i>>] = Step(path)
  OBVIOUS
<1> HIDE DEF step
<1>9. PICK g \in [0..n -> T] : g[0] = x /\ \A i \in 1..n : g[i] = step[<<g[i - 1], i>>]
  <2>1. PICK g : IsLoop(g, step, x, T, n)
    BY <1>1, <1>2, <1>7, LoopExists
  <2>2. QED
    BY <2>1 DEF IsLoop
<1>10. \A i \in 1..n : i - 1 \in 0..n /\ g[i - 1] \in T
  BY <1>1, <1>9
<1>11. g = [i \in 0..n |-> IF i = 0 THEN x ELSE Step(g[i - 1])]
  <2>1. \A i \in 1..n : g[i] = Step(g[i - 1])
    BY <1>8, <1>9, <1>10
  <2>2. \A i \in 0..n : i = 0 \/ i \in 1..n
    BY <1>1
  <2>3. \A i \in 0..n : g[i] = IF i = 0 THEN x ELSE Step(g[i - 1])
    BY <1>9, <2>1, <2>2
  <2>4. QED
    BY <1>9, <2>3
<1> DEFINE f == Descent(d, p, q)
<1>12. f = [i \in 0..n |-> IF i = 0 THEN x ELSE Step(f[i - 1])]
  BY <1>11, Zenon DEF Descent, Step, x, n
<1> HIDE DEF f
<1>13. f[0] = x /\ \A i \in 1..n : f[i] = Step(f[i - 1])
  BY <1>1, <1>12
<1>14. \A i \in 0..n : f[i] \in T
  <2> DEFINE I == {i \in 0..n : f[i] \in T}
  <2>1. 0 \in I /\ \A i \in 1..n : i - 1 \in I => i \in I
    BY <1>1, <1>2, <1>6, <1>13
  <2> HIDE DEF I
  <2>2. 0..n \subseteq I
    BY <1>1, <2>1, IntervalInduction
  <2>3. QED
    BY <2>2 DEF I
<1>15. \A i \in 1..n : f[i] = IF d[Last(f[i - 1])] \in InnerPage THEN next(f[i - 1]) ELSE f[i - 1]
  <2>1. \A i \in 1..n : f[i - 1] \in T
    BY <1>1, <1>14
  <2>2. QED
    BY <1>4, <1>13, <2>1
<1>16. \A i \in 0..n : f[i] \in Seq(S) /\ Len(f[i]) \in Nat \ {0}
  BY <1>3, <1>14 DEF T
<1>17. QED
  <2>1. Steps(d, S, p, q, f)
    BY <1>1, <1>13, <1>15, <1>16 DEF Steps, x, n
  <2>2. QED
    BY <2>1 DEF f

\* The search for a key ends at a leaf.
LEMMA WayOf ==
  ASSUME NEW d, NEW S, NEW b, Forest(d, S, b), IsFiniteSet(DOMAIN d), NEW p \in S, NEW q \in Int
  PROVE  LET path == Path(d, p, q)
         IN /\ Way(d, S, q, path) /\ path[1] = p
            /\ Last(path) = path[Len(path)]
            /\ path[Len(path)] \in S /\ d[path[Len(path)]] \in LeafPage
<1> DEFINE n == Cardinality(DOMAIN d)
           f == Descent(d, p, q)
           next(path) == Append(path, Child(d[Last(path)], Route(d[Last(path)], q)))
           Measure(path, i) == d[Last(path)] \in LeafPage \/ Cardinality(b[Last(path)]) <= n - i
           Good(i) == Way(d, S, q, f[i]) /\ f[i][1] = p /\ Measure(f[i], i)
           T == {i \in 0..n : Good(i)}
<1>1. /\ n \in Nat
      /\ f[0] = <<p>>
      /\ \A i \in 0..n : f[i] \in Seq(S) /\ Len(f[i]) \in Nat \ {0}
      /\ \A i \in 1..n : f[i] = IF d[Last(f[i - 1])] \in InnerPage THEN next(f[i - 1]) ELSE f[i - 1]
  <2>1. Steps(d, S, p, q, f)
    BY DescentIs
  <2> HIDE DEF f
  <2>2. QED
    BY <2>1 DEF Steps
<1> HIDE DEF f
<1>2. S \subseteq DOMAIN d /\ \A a \in S : IsFiniteSet(b[a]) /\ Cardinality(b[a]) \in Nat /\ Cardinality(b[a]) <= n
  <2>1. S \subseteq DOMAIN d /\ \A a \in S : b[a] \subseteq S
    BY DEF Forest, Ordered, Nodes, IsNode
  <2>2. QED
    BY <2>1, FS_Subset, FS_CardinalityType
<1>3. \A i \in 0..n : f[i] # <<>> /\ Last(f[i]) = f[i][Len(f[i])] /\ Last(f[i]) \in S
  <2>1. \A i \in 0..n : f[i] # <<>>
    BY <1>1
  <2>2. QED
    BY <1>1, <2>1, FrontOfSeq
<1>4. 0 \in T
  <2>1. 0 \in 0..n /\ Last(f[0]) = p /\ Len(f[0]) = 1
    BY <1>1, <1>3
  <2>2. Way(d, S, q, f[0]) /\ f[0][1] = p
    BY <1>1, <2>1 DEF Way
  <2>3. Measure(f[0], 0)
    BY <1>1, <1>2, <2>1
  <2>4. QED
    BY <2>1, <2>2, <2>3
<1>5. ASSUME NEW i \in 1..n, i - 1 \in T PROVE i \in T
  <2> DEFINE before == f[i - 1]
             a == Last(before)
  <2>1. i - 1 \in 0..n /\ i \in 0..n /\ Way(d, S, q, before) /\ before[1] = p /\ Measure(before, i - 1)
    BY <1>5
  <2>2. before \in Seq(S) /\ Len(before) \in Nat \ {0} /\ a = before[Len(before)] /\ a \in S
    BY <1>1, <1>3, <2>1
  <2>3. f[i] = IF d[a] \in InnerPage THEN next(before) ELSE before
    BY <1>1
  <2>4. IsNode(d, a)
    BY <2>2 DEF Forest, Nodes
  <2>5. CASE d[a] \in LeafPage
    <3>1. f[i] = before
      BY <2>3, <2>5, PageKinds
    <3>2. QED
      BY <2>1, <2>5, <3>1
  <2>6. CASE d[a] \in InnerPage
    <3> DEFINE c == Child(d[a], Route(d[a], q))
    <3>1. f[i] = Append(before, c)
      BY <2>3, <2>6
    <3>2. Parent(d, S, b, a)
      BY <2>2, <2>6 DEF Forest, Linked
    <3>3. Route(d[a], q) \in Slots(d[a])
      BY <2>4, <2>6, RouteIsSlot
    <3>4. c \in S /\ a \notin b[c] /\ b[c] \subseteq b[a]
      BY <3>2, <3>3 DEF Parent, ChildrenApart
    <3>5. a \in b[a]
      BY <2>2 DEF Forest, Ordered
    <3>6. Cardinality(b[c]) <= Cardinality(b[a]) - 1
      <4>1. Cardinality(b[c]) <= Cardinality(b[a]) /\ Cardinality(b[c]) # Cardinality(b[a])
        BY <1>2, <2>2, <3>4, <3>5, FS_Subset
      <4>2. QED
        BY <1>2, <2>2, <3>4, <4>1
    <3> HIDE DEF c, a, before
    <3>7. /\ f[i] \in Seq(S) /\ Len(f[i]) = Len(before) + 1 /\ f[i][Len(before) + 1] = c
          /\ \A j \in 1..Len(before) : f[i][j] = before[j]
      BY <2>2, <3>1, <3>4, AppendToSeq
    <3>8. Last(f[i]) = c
      BY <1>3, <2>1, <3>7
    <3>9. Measure(f[i], i)
      <4>1. d[a] \notin LeafPage
        BY <2>6, PageKinds
      <4>2. Cardinality(b[a]) <= n - (i - 1)
        BY <2>1, <4>1 DEF a
      <4>3. Cardinality(b[c]) \in Nat /\ Cardinality(b[a]) \in Nat
        BY <1>2, <2>2, <3>4
      <4>4. Cardinality(b[c]) <= n - i
        BY <1>1, <3>6, <4>2, <4>3
      <4>5. QED
        BY <3>8, <4>4
    <3>10. Way(d, S, q, f[i]) /\ f[i][1] = p
      <4>1. ASSUME NEW j \in 1..(Len(f[i]) - 1)
            PROVE  d[f[i][j]] \in InnerPage /\ f[i][j + 1] = Child(d[f[i][j]], Route(d[f[i][j]], q))
        <5>1. j \in 1..Len(before) /\ f[i][j] = before[j]
          BY <2>2, <3>7
        <5>2. CASE j = Len(before)
          BY <2>2, <2>6, <3>7, <5>1, <5>2 DEF c
        <5>3. CASE j # Len(before)
          <6>1. j \in 1..(Len(before) - 1) /\ j + 1 \in 1..Len(before)
            BY <2>2, <5>1, <5>3
          <6>2. QED
            BY <2>1, <3>7, <5>1, <6>1 DEF Way
        <5>4. QED
          BY <5>2, <5>3
      <4>2. f[i][1] = p /\ Len(f[i]) \in Nat \ {0}
        BY <2>1, <2>2, <3>7
      <4>3. QED
        BY <3>7, <4>1, <4>2 DEF Way
    <3>11. QED
      BY <2>1, <3>9, <3>10
  <2>7. QED
    BY <2>4, <2>5, <2>6 DEF IsNode
<1>6. n \in T
  <2> HIDE DEF T
  <2>1. 0..n \subseteq T
    BY <1>1, <1>4, <1>5, IntervalInduction
  <2>2. QED
    BY <1>1, <2>1
<1>7. d[Last(f[n])] \in LeafPage
  <2>1. n \in 0..n /\ Last(f[n]) \in S
    BY <1>1, <1>3
  <2>2. Cardinality(b[Last(f[n])]) # 0
    <3>1. Last(f[n]) \in b[Last(f[n])]
      BY <2>1 DEF Forest, Ordered
    <3>2. QED
      BY <1>2, <2>1, <3>1, FS_EmptySet
  <2>3. QED
    BY <1>1, <1>2, <1>6, <2>1, <2>2
<1>8. QED
  BY <1>1, <1>3, <1>6, <1>7 DEF Path, f

\* Page a routes key k to its child c.
Routes(d, S, b, k, a, c) ==
  /\ a \in S /\ c \in S /\ IsNode(d, a) /\ d[a] \in InnerPage /\ Parent(d, S, b, a)
  /\ Route(d[a], k) \in Slots(d[a]) /\ c = Child(d[a], Route(d[a], k))
  /\ b[c] \subseteq b[a] /\ a \notin b[c] /\ a \in b[a] /\ c \in b[c] /\ b[a] \subseteq S

\* One step of a way, in a forest.
LEMMA WayStep ==
  ASSUME NEW d, NEW S, NEW b, Forest(d, S, b), NEW k \in Int, NEW path, Way(d, S, k, path),
         NEW j \in 1..(Len(path) - 1)
  PROVE  j \in 1..Len(path) /\ j + 1 \in 1..Len(path) /\ Routes(d, S, b, k, path[j], path[j + 1])
<1> DEFINE a == path[j]
           c == path[j + 1]
           s == Route(d[a], k)
<1>1. j \in 1..Len(path) /\ j + 1 \in 1..Len(path)
  BY DEF Way
<1>2. a \in S /\ d[a] \in InnerPage /\ c = Child(d[a], s)
  <2>1. path \in Seq(S)
    BY DEF Way
  <2>2. a \in S
    BY <1>1, <2>1, ElementOfSeq
  <2>3. QED
    BY <2>2 DEF Way
<1> HIDE DEF a, c
<1>3. IsNode(d, a) /\ Parent(d, S, b, a)
  BY <1>2 DEF Forest, Nodes, Linked
<1>4. s \in Slots(d[a])
  BY <1>2, <1>3, RouteIsSlot
<1>5. c \in S /\ a \notin b[c] /\ b[c] \subseteq b[a]
  BY <1>2, <1>3, <1>4 DEF Parent, ChildrenApart
<1>6. a \in b[a] /\ c \in b[c] /\ b[a] \subseteq S
  BY <1>2, <1>5 DEF Forest, Ordered
<1>7. Routes(d, S, b, k, a, c)
  BY <1>2, <1>3, <1>4, <1>5, <1>6 DEF Routes, s
<1>8. QED
  BY <1>1, <1>7 DEF a, c

\* The pages below a that are not below its child c.
Beside(b, a, c) == b[a] \ (b[c] \cup {a})

\* H is the family of a page that has tree P in slot s, and otherwise what page a had in file d.
Regrown(d, b, a, s, d2, page, P, H) ==
  /\ Family(d2, page, H)
  /\ AllOf(page, H) = P \cup Beside(b, a, Child(d[a], s))
  /\ \A t \in Slots(page) : H[t] = IF t = s THEN P ELSE b[Child(d[a], t)]
  /\ \A t \in Slots(page) \ {s} : KeysIn(d2, H[t]) = KeysIn(d, H[t]) /\ Held(d2, H[t]) = Held(d, H[t])

\* A page with other separators and another tree in one of its slots.
LEMMA FamilyWith ==
  ASSUME NEW d, NEW S, NEW b, Forest(d, S, b), NEW a \in S, d[a] \in InnerPage,
         NEW s \in Slots(d[a]),
         NEW page \in InnerPage, Sorted(page.entries), Slots(page) = Slots(d[a]),
         \A t \in Slots(d[a]) \ {s} : /\ Child(page, t) = Child(d[a], t)
                                      /\ \A q \in KeysIn(d, b[Child(d[a], t)]) : Between(page, t, q),
         NEW d2, \A p \in Beside(b, a, Child(d[a], s)) : p \in DOMAIN d2 /\ d2[p] = d[p],
         NEW P, Tree(d2, P, Child(page, s)), P \cap Beside(b, a, Child(d[a], s)) = {},
         \A q \in KeysIn(d2, P) : Between(page, s, q)
  PROVE  \E H : Regrown(d, b, a, s, d2, page, P, H)
<1> DEFINE G == [t \in Slots(d[a]) |-> b[Child(d[a], t)]]
           H == [t \in Slots(page) |-> IF t = s THEN P ELSE b[Child(d[a], t)]]
           B == Beside(b, a, Child(d[a], s))
<1>1. Parent(d, S, b, a)
  BY DEF Forest, Linked
<1>2. \A t \in Slots(d[a]) : /\ Child(d[a], t) \in S /\ a \notin G[t]
                             /\ \A u \in Slots(d[a]) : u # t => G[t] \cap G[u] = {}
                             /\ G[t] \subseteq b[a]
  BY <1>1 DEF Parent, ChildrenApart
<1>3. b[a] = {a} \cup UNION {G[t] : t \in Slots(d[a])}
  <2>1. {b[Child(d[a], t)] : t \in Slots(d[a])} = {G[t] : t \in Slots(d[a])}
    OBVIOUS
  <2>2. QED
    BY <1>1, <2>1 DEF Parent
<1>4. H[s] = P /\ \A t \in Slots(page) \ {s} : H[t] = G[t]
  OBVIOUS
<1>5. \A t \in Slots(d[a]) : G[t] = b[Child(d[a], t)]
  OBVIOUS
<1> HIDE DEF G, H
<1>6. \A t \in Slots(d[a]) \ {s} : G[t] \subseteq B
  BY <1>2, <1>5 DEF Beside
<1>7. B = UNION {G[t] : t \in Slots(d[a]) \ {s}}
  <2>1. \A p \in B : \E t \in Slots(d[a]) \ {s} : p \in G[t]
    BY <1>3, <1>5 DEF Beside
  <2>2. QED
    BY <1>6, <2>1
<1>8. ASSUME NEW t \in Slots(page) \ {s}
      PROVE  KeysIn(d2, H[t]) = KeysIn(d, H[t]) /\ Held(d2, H[t]) = Held(d, H[t]) /\ Tree(d2, H[t], Child(page, t))
  <2>1. H[t] = G[t] /\ Child(page, t) = Child(d[a], t) /\ Child(d[a], t) \in S
    BY <1>2, <1>4
  <2>2. Tree(d, G[t], Child(d[a], t))
    BY <1>5, <2>1, TreeBelow
  <2>3. \A p \in G[t] : p \in DOMAIN d2 /\ d2[p] = d[p]
    BY <1>6
  <2>4. QED
    BY <2>1, <2>2, <2>3, TreeSame, KeysInSame, HeldSame
<1>9. AllOf(page, H) = P \cup B
  <2>1. \A t \in Slots(page) : H[t] \subseteq P \cup B
    BY <1>4, <1>6
  <2>2. \A p \in B : \E t \in Slots(page) : p \in H[t]
    BY <1>4, <1>7
  <2>3. QED
    BY <1>4, <2>1, <2>2 DEF AllOf
<1>10. Family(d2, page, H)
  <2>1. \A t \in Slots(page) : Tree(d2, H[t], Child(page, t))
    BY <1>4, <1>8
  <2>2. \A t \in Slots(page) : \A u \in Slots(page) : u # t => H[t] \cap H[u] = {}
    <3>1. \A t \in Slots(page) \ {s} : H[t] \cap P = {}
      BY <1>4, <1>6
    <3>2. QED
      BY <1>2, <1>4, <3>1
  <2>3. ASSUME NEW t \in Slots(page), NEW q \in KeysIn(d2, H[t]) PROVE Between(page, t, q)
    <3>1. CASE t = s
      BY <1>4, <2>3, <3>1
    <3>2. CASE t # s
      BY <1>4, <1>5, <1>8, <2>3, <3>2
    <3>3. QED
      BY <3>1, <3>2
  <2>4. QED
    BY <2>1, <2>2, <2>3 DEF Family
<1>11. Regrown(d, b, a, s, d2, page, P, H)
  BY <1>4, <1>5, <1>8, <1>9, <1>10 DEF Regrown
<1>12. QED
  BY <1>11

\* The page itself is kept.
LEMMA FamilyKept ==
  ASSUME NEW d, NEW S, NEW b, Forest(d, S, b), NEW a \in S, d[a] \in InnerPage,
         NEW s \in Slots(d[a]),
         NEW d2, \A p \in Beside(b, a, Child(d[a], s)) : p \in DOMAIN d2 /\ d2[p] = d[p],
         NEW P, Tree(d2, P, Child(d[a], s)), P \cap Beside(b, a, Child(d[a], s)) = {},
         \A q \in KeysIn(d2, P) : Route(d[a], q) = s
  PROVE  \E H : Regrown(d, b, a, s, d2, d[a], P, H)
<1>1. IsNode(d, a) /\ Sorted(d[a].entries)
  BY DEF Forest, Nodes, IsNode
<1>2. \A q \in KeysIn(d2, P) : Between(d[a], s, q)
  <2>1. \A q \in KeysIn(d2, P) : q \in Int
    BY TreeNodes, KeysOfNodes
  <2>2. QED
    BY <1>1, <2>1, RouteIs
<1>3. \A t \in Slots(d[a]) : \A q \in KeysIn(d, b[Child(d[a], t)]) : Between(d[a], t, q)
  <2> DEFINE G == [t \in Slots(d[a]) |-> b[Child(d[a], t)]]
  <2>1. \A t \in Slots(d[a]) : G[t] = b[Child(d[a], t)]
    OBVIOUS
  <2> HIDE DEF G
  <2>2. Family(d, d[a], G)
    BY <2>1, FamilyBelow
  <2>3. QED
    BY <2>1, <2>2 DEF Family
<1>4. QED
  BY <1>1, <1>2, <1>3, FamilyWith

\* A page above a changed tree is the root of a changed tree.
LEMMA ParentKept ==
  ASSUME NEW d, NEW S, NEW b, Forest(d, S, b), NEW a \in S, d[a] \in InnerPage,
         NEW s \in Slots(d[a]), NEW c, c = Child(d[a], s),
         NEW d2, \A p \in b[a] \ b[c] : p \in DOMAIN d2 /\ d2[p] = d[p],
         NEW P, Tree(d2, P, c), P \cap (b[a] \ b[c]) = {},
         \A q \in KeysIn(d2, P) : Route(d[a], q) = s
  PROVE  Tree(d2, P \cup (b[a] \ b[c]), a)
<1> DEFINE B == Beside(b, a, c)
<1>1. Parent(d, S, b, a) /\ a \in b[a] /\ a \notin b[c] /\ IsNode(d, a)
  BY DEF Parent, ChildrenApart, Forest, Linked, Ordered, Nodes
<1>2. B \subseteq b[a] \ b[c] /\ a \in b[a] \ b[c] /\ {a} \cup B = b[a] \ b[c]
  BY <1>1 DEF Beside
<1>3. PICK H : Family(d2, d[a], H) /\ AllOf(d[a], H) = P \cup B
  BY <1>2, FamilyKept DEF Regrown
<1> HIDE DEF B
<1>4. d2[a] = d[a] /\ IsNode(d2, a)
  BY <1>1, <1>2 DEF IsNode
<1>5. a \notin AllOf(d2[a], H)
  <2>1. a \notin P /\ a \notin B
    BY <1>2 DEF Beside, B
  <2>2. QED
    BY <1>3, <1>4, <2>1
<1>6. Tree(d2, {a} \cup AllOf(d2[a], H), a)
  BY <1>3, <1>4, <1>5, TreeJoin
<1>7. {a} \cup AllOf(d2[a], H) = P \cup (b[a] \ b[c])
  BY <1>2, <1>3, <1>4
<1>8. QED
  BY <1>6, <1>7

\* A tree with a changed tree on the way of k.
LEMMA Lift ==
  ASSUME NEW d, NEW S, NEW b, Forest(d, S, b), NEW k \in Int, NEW path, Way(d, S, k, path), b[path[1]] = S,
         NEW i \in 1..Len(path), NEW d2, \A p \in S \ b[path[i]] : p \in DOMAIN d2 /\ d2[p] = d[p],
         NEW P, Tree(d2, P, path[i]), P \cap (S \ b[path[i]]) = {},
         KeysIn(d2, P) \subseteq KeysIn(d, b[path[i]]) \cup {k}
  PROVE  Tree(d2, P \cup (S \ b[path[i]]), path[1])
<1> DEFINE B == b[path[i]]
           Q(j) == P \cup (b[path[j]] \ B)
           Good(j) == /\ Tree(d2, Q(j), path[j]) /\ B \subseteq b[path[j]]
                      /\ KeysIn(d2, Q(j)) \subseteq KeysIn(d, b[path[j]]) \cup {k}
           T == {m \in 0..(i - 1) : Good(i - m)}
<1>1. Len(path) \in Nat /\ i \in Nat /\ i \in 1..Len(path) /\ path[i] \in S /\ path \in Seq(S)
  <2>1. path \in Seq(S) /\ Len(path) \in Nat
    BY DEF Way
  <2>2. QED
    BY <2>1, ElementOfSeq
<1> HIDE DEF B
<1>2. 0 \in T
  <2>1. i - 0 = i /\ 0 \in 0..(i - 1)
    BY <1>1
  <2>2. Q(i) = P
    BY DEF B
  <2>3. Good(i)
    BY <2>2 DEF B
  <2>4. QED
    BY <2>1, <2>3
<1>3. ASSUME NEW m \in 1..(i - 1), m - 1 \in T PROVE m \in T
  <2> DEFINE j == i - m
             a == path[j]
             c == path[j + 1]
             s == Route(d[a], k)
  <2>1. j \in 1..(Len(path) - 1) /\ i - (m - 1) = j + 1 /\ m \in 0..(i - 1)
    BY <1>1
  <2>2. Good(j + 1)
    BY <1>3, <2>1
  <2> HIDE DEF j
  <2>3. Routes(d, S, b, k, a, c)
    BY <2>1, WayStep
  <2>4. Tree(d2, Q(j + 1), c) /\ B \subseteq b[c] /\ KeysIn(d2, Q(j + 1)) \subseteq KeysIn(d, b[c]) \cup {k}
    BY <2>2
  <2>5. Q(j + 1) = P \cup (b[c] \ B) /\ Q(j) = P \cup (b[a] \ B)
    OBVIOUS
  <2> DEFINE R == Q(j + 1)
  <2> HIDE DEF Q, c, a, R
  <2>20. /\ a \in S /\ d[a] \in InnerPage /\ s \in Slots(d[a]) /\ c = Child(d[a], s) /\ Parent(d, S, b, a)
         /\ b[c] \subseteq b[a] /\ a \notin b[c] /\ a \in b[a] /\ c \in b[c] /\ b[a] \subseteq S
    BY <2>3 DEF Routes
  <2>21. Tree(d2, R, c) /\ KeysIn(d2, R) \subseteq KeysIn(d, b[c]) \cup {k} /\ R = P \cup (b[c] \ B)
    BY <2>4, <2>5 DEF R
  <2> HIDE DEF s
  <2>6. \A p \in b[a] \ b[c] : p \in DOMAIN d2 /\ d2[p] = d[p]
    BY <2>20, <2>4, <2>21 DEF B
  <2>7. R \cap (b[a] \ b[c]) = {}
    BY <2>20, <2>4, <2>21, <2>5 DEF B
  <2>8. \A q \in KeysIn(d2, R) : Route(d[a], q) = s
    <3>1. \A q \in KeysIn(d, b[c]) : Route(d[a], q) = s
      BY <2>20 DEF Parent, ChildrenRouted
    <3>2. QED
      BY <2>21, <3>1 DEF s
  <2>9. Tree(d2, R \cup (b[a] \ b[c]), a)
    <3>1. a \in S /\ d[a] \in InnerPage /\ s \in Slots(d[a]) /\ c = Child(d[a], s) /\ Tree(d2, R, c)
      BY <2>20, <2>21
    <3>2. QED
      BY <2>6, <2>7, <2>8, <3>1, ParentKept
  <2>10. Q(j) = R \cup (b[a] \ b[c])
    BY <2>20, <2>4, <2>21, <2>5
  <2>11. KeysIn(d2, Q(j)) \subseteq KeysIn(d, b[a]) \cup {k}
    <3>1. KeysIn(d2, Q(j)) = KeysIn(d2, R) \cup KeysIn(d2, b[a] \ b[c])
      BY <2>10, KeysInUnion
    <3>2. KeysIn(d2, b[a] \ b[c]) = KeysIn(d, b[a] \ b[c])
      BY <2>6, KeysInSame
    <3>3. KeysIn(d, b[a] \ b[c]) \subseteq KeysIn(d, b[a]) /\ KeysIn(d, b[c]) \subseteq KeysIn(d, b[a])
      BY <2>20, KeysInSubset
    <3>4. QED
      BY <2>21, <3>1, <3>2, <3>3
  <2>12. Good(j)
    BY <2>20, <2>4, <2>9, <2>10, <2>11 DEF a
  <2>13. QED
    BY <2>1, <2>12 DEF j
<1>4. i - 1 \in T
  <2> HIDE DEF T
  <2>1. i - 1 \in Nat
    BY <1>1
  <2>2. 0..(i - 1) \subseteq T
    BY <1>2, <1>3, <2>1, IntervalInduction
  <2>3. QED
    BY <2>1, <2>2
<1>5. Good(1)
  <2>1. i - (i - 1) = 1
    BY <1>1
  <2>2. QED
    BY <1>4, <2>1
<1>6. QED
  BY <1>5 DEF B

----------------------------------------------------------------------------
(* The room of pages. *)

\* u[i] is the room of the first i records of a page.
Rooms(page, u) ==
  /\ Len(page.entries) \in Nat
  /\ u[0] = 0 /\ \A i \in 0..Len(page.entries) : u[i] \in Nat
  /\ \A i \in 1..Len(page.entries) : u[i] = u[i - 1] + RecordSize(page.type, page.entries[i])

IsPage(page) == page \in LeafPage \/ page \in InnerPage

\* Every record takes some room, a separator always the same.
LEMMA Sizes ==
  ASSUME NEW page, IsPage(page)
  PROVE  /\ Len(page.entries) \in Nat
         /\ \A i \in 1..Len(page.entries) : RecordSize(page.type, page.entries[i]) \in Nat \ {0}
         /\ page \in InnerPage => \A i \in 1..Len(page.entries) : RecordSize(page.type, page.entries[i]) = SepSize
         /\ page \in LeafPage => \A i \in 1..Len(page.entries) : /\ page.entries[i] \in LeafRecord
                                                                 /\ RecordSize(page.type, page.entries[i]) = SizeOf[page.entries[i].value]
<1> DEFINE e == page.entries
<1>1. CASE page \in LeafPage
  <2>1. e \in Seq(LeafRecord) /\ page.type = "leaf" /\ page \notin InnerPage
    BY <1>1, PageKinds DEF LeafPage
  <2> HIDE DEF e
  <2>2. Len(e) \in Nat /\ \A i \in 1..Len(e) : e[i] \in LeafRecord
    BY <2>1, LenProperties, ElementOfSeq
  <2>3. \A i \in 1..Len(e) : SizeOf[e[i].value] \in Nat \ {0}
    BY <2>2, LeafRecords
  <2>4. \A i \in 1..Len(e) : RecordSize(page.type, e[i]) = SizeOf[e[i].value]
    BY <2>1 DEF RecordSize
  <2>5. QED
    BY <2>1, <2>2, <2>3, <2>4 DEF e
<1>2. CASE page \in InnerPage
  <2>1. page.type = "internal" /\ page \notin LeafPage
    BY <1>2, PageKinds
  <2>2. \A i \in 1..Len(e) : RecordSize(page.type, e[i]) = SepSize
    BY <2>1 DEF RecordSize
  <2>3. QED
    BY <1>2, <2>1, <2>2, KeysOfPage, BTreeAssumption DEF BTreeAssumption
<1>3. QED
  BY <1>1, <1>2 DEF IsPage

\* The room in use, record by record.
LEMMA UsedIs ==
  ASSUME NEW page, IsPage(page)
  PROVE  Rooms(page, Used(page))
<1> DEFINE n == Len(page.entries)
           size(i) == RecordSize(page.type, page.entries[i])
           step == [u \in Nat \X (1..n) |-> u[1] + size(u[2])]
<1>1. n \in Nat /\ \A i \in 1..n : size(i) \in Nat
  BY Sizes
<1> HIDE DEF n, size
<1>2. IsStep(step, Nat, n)
  BY <1>1 DEF IsStep
<1>3. \A r \in Nat, i \in 1..n : step[<<r, i>>] = r + size(i)
  OBVIOUS
<1> HIDE DEF step
<1>4. PICK g \in [0..n -> Nat] : g[0] = 0 /\ \A i \in 1..n : g[i] = step[<<g[i - 1], i>>]
  <2>1. PICK g : IsLoop(g, step, 0, Nat, n)
    BY <1>1, <1>2, LoopExists
  <2>2. QED
    BY <2>1 DEF IsLoop
<1>5. g = [i \in 0..n |-> IF i = 0 THEN 0 ELSE g[i - 1] + RecordSize(page.type, page.entries[i])]
  <2>1. \A i \in 1..n : i - 1 \in 0..n /\ g[i - 1] \in Nat
    BY <1>1, <1>4
  <2>2. \A i \in 1..n : g[i] = g[i - 1] + size(i)
    BY <1>3, <1>4, <2>1
  <2>3. \A i \in 0..n : i = 0 \/ i \in 1..n
    BY <1>1
  <2>4. \A i \in 0..n : g[i] = IF i = 0 THEN 0 ELSE g[i - 1] + size(i)
    BY <1>4, <2>2, <2>3
  <2>5. QED
    BY <1>4, <2>4 DEF size
<1> DEFINE f == Used(page)
<1>6. f = [i \in 0..n |-> IF i = 0 THEN 0 ELSE f[i - 1] + RecordSize(page.type, page.entries[i])]
  BY <1>5, Zenon DEF Used, n
<1> HIDE DEF f
<1>7. f[0] = 0 /\ \A i \in 1..n : f[i] = f[i - 1] + size(i)
  BY <1>1, <1>6 DEF size
<1>8. \A i \in 0..n : f[i] \in Nat
  <2> DEFINE I == {i \in 0..n : f[i] \in Nat}
  <2>1. 0 \in I /\ \A i \in 1..n : i - 1 \in I => i \in I
    BY <1>1, <1>7
  <2> HIDE DEF I
  <2>2. 0..n \subseteq I
    BY <1>1, <2>1, IntervalInduction
  <2>3. QED
    BY <2>2 DEF I
<1>9. QED
  BY <1>1, <1>7, <1>8 DEF Rooms, f, n, size

\* Records of one size.
LEMMA UsedSame ==
  ASSUME NEW page, IsPage(page), NEW z \in Nat,
         \A i \in 1..Len(page.entries) : RecordSize(page.type, page.entries[i]) = z
  PROVE  Used(page)[Len(page.entries)] = Len(page.entries) * z
<1> DEFINE n == Len(page.entries)
           u == Used(page)
           T == {i \in 0..n : u[i] = i * z}
<1>1. /\ n \in Nat /\ u[0] = 0 /\ \A i \in 1..n : u[i] = u[i - 1] + z
  BY UsedIs DEF Rooms
<1> HIDE DEF u, n
<1>2. 0 \in T
  BY <1>1
<1>3. ASSUME NEW i \in 1..n, i - 1 \in T PROVE i \in T
  <2>1. u[i] = (i - 1) * z + z
    BY <1>1, <1>3
  <2>2. (i - 1) * z + z = i * z
    OBVIOUS
  <2>3. QED
    BY <2>1, <2>2
<1>4. n \in T
  <2> HIDE DEF T
  <2>1. 0..n \subseteq T
    BY <1>1, <1>2, <1>3, IntervalInduction
  <2>2. QED
    BY <1>1, <2>1
<1>5. QED
  BY <1>4 DEF u, n

\* Multiplying by the same number keeps the order.
LEMMA Products ==
  ASSUME NEW m \in Nat, NEW n \in Nat, NEW z \in Nat, m <= n
  PROVE  m * z <= n * z
<1>1. PICK a \in Nat : n = m + a
  <2>1. n - m \in Nat /\ n = m + (n - m)
    OBVIOUS
  <2>2. QED
    BY <2>1
<1>2. n * z = m * z + a * z
  BY <1>1
<1>3. a * z \in Nat /\ m * z \in Nat
  OBVIOUS
<1> DEFINE p == m * z
           r == a * z
<1>4. p \in Nat /\ r \in Nat
  BY <1>3
<1> HIDE DEF p, r
<1>5. p <= p + r
  BY <1>4
<1>6. QED
  BY <1>2, <1>5 DEF p, r

\* An internal page with no more separators than one that fits.
LEMMA InnerFits ==
  ASSUME NEW page \in InnerPage
  PROVE  /\ Fits(page) <=> Len(page.entries) * SepSize <= PageRoom
         /\ Len(page.entries) <= 2 => Fits(page)
         /\ \A other \in InnerPage : Fits(other) /\ Len(page.entries) <= Len(other.entries) => Fits(page)
<1>1. SepSize \in Nat /\ PageRoom \in Nat /\ 2 * SepSize <= PageRoom
  BY BTreeAssumption, TwoSeparatorsFit DEF BTreeAssumption
<1>2. \A p \in InnerPage : Len(p.entries) \in Nat /\ (Fits(p) <=> Len(p.entries) * SepSize <= PageRoom)
  <2> SUFFICES ASSUME NEW p \in InnerPage
               PROVE  Len(p.entries) \in Nat /\ (Fits(p) <=> Len(p.entries) * SepSize <= PageRoom)
    OBVIOUS
  <2>1. IsPage(p)
    BY DEF IsPage
  <2>2. Used(p)[Len(p.entries)] = Len(p.entries) * SepSize /\ Len(p.entries) \in Nat
    BY <1>1, <2>1, Sizes, UsedSame
  <2>3. QED
    BY <2>2 DEF Fits
<1>3. ASSUME NEW m \in Nat, NEW n \in Nat, m <= n, n * SepSize <= PageRoom PROVE m * SepSize <= PageRoom
  <2>1. m * SepSize <= n * SepSize
    BY <1>1, <1>3, Products
  <2>2. m * SepSize \in Nat /\ n * SepSize \in Nat
    BY <1>1
  <2> DEFINE p == m * SepSize
             r == n * SepSize
  <2>3. p \in Nat /\ r \in Nat /\ p <= r /\ r <= PageRoom
    BY <1>3, <2>1, <2>2
  <2> HIDE DEF p, r
  <2>4. p <= PageRoom
    BY <1>1, <2>3
  <2>5. QED
    BY <2>4 DEF p
<1>4. QED
  BY <1>1, <1>2, <1>3

\* A page without one of its records.
LEMMA RestFits ==
  ASSUME NEW page \in LeafPage, Fits(page), NEW pos \in 1..Len(page.entries)
  PROVE  Leaf(RemoveAt(page.entries, pos)) \in LeafPage /\ Fits(Leaf(RemoveAt(page.entries, pos)))
<1> DEFINE e == page.entries
           n == Len(e)
           r == RemoveAt(e, pos)
           rest == Leaf(r)
           u == Used(page)
           v == Used(rest)
           size(i) == SizeOf[e[i].value]
<1>1. e \in Seq(LeafRecord) /\ n \in Nat /\ pos \in 1..n /\ IsPage(page)
  BY LenProperties DEF LeafPage, IsPage
<1>2. /\ r \in Seq(LeafRecord) /\ Len(r) = n - 1
      /\ \A j \in 1..(pos - 1) : r[j] = e[j]
      /\ \A j \in pos..(n - 1) : r[j] = e[j + 1]
  <2> HIDE DEF e
  <2>1. QED
    BY <1>1, RemoveAtIs DEF LeftOut
<1> HIDE DEF r
<1>3. rest \in LeafPage /\ rest.entries = r /\ IsPage(rest)
  BY <1>2 DEF Leaf, Page, LeafPage, IsPage
<1> HIDE DEF rest
<1>4. /\ u[0] = 0 /\ \A i \in 0..n : u[i] \in Nat
      /\ \A i \in 1..n : u[i] = u[i - 1] + size(i) /\ size(i) \in Nat
  <2>1. Rooms(page, u)
    BY <1>1, UsedIs
  <2>2. \A i \in 1..n : RecordSize(page.type, page.entries[i]) = size(i) /\ RecordSize(page.type, page.entries[i]) \in Nat
    BY <1>1, Sizes
  <2>3. QED
    BY <2>1, <2>2 DEF Rooms
<1>5. /\ v[0] = 0 /\ \A i \in 0..(n - 1) : v[i] \in Nat
      /\ \A i \in 1..(n - 1) : v[i] = v[i - 1] + SizeOf[r[i].value]
  BY <1>2, <1>3, UsedIs, Sizes DEF Rooms
<1> HIDE DEF u, v
<1> DEFINE T == {i \in 0..(n - 1) : (i < pos => v[i] = u[i]) /\ v[i] <= u[i + 1]}
<1>6. 0 \in T
  <2>1. 0 \in 0..(n - 1) /\ 1 \in 0..n /\ 0 + 1 = 1
    BY <1>1
  <2>2. u[1] \in Nat
    BY <1>4, <2>1
  <2>3. QED
    BY <1>4, <1>5, <2>1, <2>2
<1>7. ASSUME NEW i \in 1..(n - 1), i - 1 \in T PROVE i \in T
  <2>1. /\ i \in 0..(n - 1) /\ i \in 1..n /\ i + 1 \in 1..n /\ (i + 1) - 1 = i /\ (i - 1) + 1 = i /\ i - 1 \in 0..n
        /\ i - 1 \in 0..(n - 1)
    BY <1>1
  <2>2. v[i] = v[i - 1] + SizeOf[r[i].value] /\ v[i - 1] \in Nat /\ v[i - 1] <= u[i] /\ (i - 1 < pos => v[i - 1] = u[i - 1])
    BY <1>5, <1>7, <2>1
  <2>3. u[i] = u[i - 1] + size(i) /\ u[i + 1] = u[i] + size(i + 1) /\ size(i) \in Nat /\ size(i + 1) \in Nat /\ u[i] \in Nat /\ u[i - 1] \in Nat
    BY <1>4, <2>1
  <2>4. CASE i < pos
    <3>1. r[i] = e[i]
      BY <1>2, <2>4
    <3>2. v[i] = u[i]
      BY <2>2, <2>3, <2>4, <3>1
    <3>3. v[i] <= u[i + 1]
      BY <2>3, <3>2
    <3>4. QED
      BY <2>1, <3>2, <3>3
  <2>5. CASE ~(i < pos)
    <3>1. r[i] = e[i + 1]
      BY <1>1, <1>2, <2>5
    <3>2. v[i] = v[i - 1] + size(i + 1)
      BY <2>2, <3>1
    <3> HIDE DEF size
    <3>3. v[i] <= u[i + 1]
      BY <2>2, <2>3, <3>2
    <3>4. QED
      BY <2>1, <2>5, <3>3
  <2>6. QED
    BY <2>4, <2>5
<1>8. n - 1 \in T
  <2> HIDE DEF T
  <2>1. n - 1 \in Nat
    BY <1>1
  <2>2. 0..(n - 1) \subseteq T
    BY <1>6, <1>7, <2>1, IntervalInduction
  <2>3. QED
    BY <2>1, <2>2
<1>9. v[n - 1] <= u[n] /\ v[n - 1] \in Nat /\ u[n] \in Nat
  <2>1. (n - 1) + 1 = n /\ n - 1 \in 0..(n - 1) /\ n \in 0..n
    BY <1>1
  <2>2. QED
    BY <1>4, <1>5, <1>8, <2>1
<1>10. u[n] <= PageRoom /\ PageRoom \in Nat
  BY BTreeAssumption DEF Fits, u, BTreeAssumption
<1>11. v[n - 1] <= PageRoom
  BY <1>9, <1>10
<1>12. Fits(rest)
  BY <1>2, <1>3, <1>11 DEF Fits, v
<1>13. QED
  BY <1>3, <1>12 DEF rest, r

EvenSizes == \A e, f \in Entries : SizeOf[e[2]] = SizeOf[f[2]]

\* When all records take the same room, a page with no more of them than one that fits.
LEMMA EvenFits ==
  ASSUME EvenSizes, NEW page \in LeafPage, NEW other \in LeafPage, Fits(other),
         Len(page.entries) <= Len(other.entries)
  PROVE  Fits(page)
<1> DEFINE m == Len(page.entries)
           n == Len(other.entries)
<1>1. m \in Nat /\ n \in Nat /\ IsPage(page) /\ IsPage(other)
  BY Sizes DEF IsPage
<1>2. PageRoom \in Nat
  BY BTreeAssumption DEF BTreeAssumption
<1>3. CASE m = 0
  <2>1. Used(page)[0] = 0
    BY <1>1, UsedIs DEF Rooms
  <2>2. QED
    BY <1>2, <1>3, <2>1 DEF Fits
<1>4. CASE m # 0
  <2> DEFINE z == SizeOf[other.entries[1].value]
  <2>1. 1 \in 1..n
    BY <1>1, <1>4
  <2>2. other.entries[1] \in LeafRecord
    BY <1>1, <2>1, Sizes
  <2>3. z \in Nat /\ \A e \in LeafRecord : SizeOf[e.value] = z
    <3>1. \A e \in LeafRecord : <<e.key, e.value>> \in Entries /\ <<e.key, e.value>>[2] = e.value
      BY LeafRecords
    <3>2. QED
      BY <2>2, <3>1, LeafRecords DEF EvenSizes
  <2> HIDE DEF z
  <2>4. Used(page)[m] = m * z
    <3>1. \A i \in 1..Len(page.entries) : RecordSize(page.type, page.entries[i]) = z
      BY <1>1, <2>3, Sizes
    <3>2. QED
      BY <1>1, <2>3, <3>1, UsedSame
  <2>5. Used(other)[n] = n * z
    <3>1. \A i \in 1..Len(other.entries) : RecordSize(other.type, other.entries[i]) = z
      BY <1>1, <2>3, Sizes
    <3>2. QED
      BY <1>1, <2>3, <3>1, UsedSame
  <2>6. m * z <= n * z
    BY <1>1, <2>3, Products
  <2>7. m * z \in Nat /\ n * z \in Nat
    BY <1>1, <2>3
  <2> DEFINE p == m * z
             r == n * z
  <2>8. p \in Nat /\ r \in Nat /\ p <= r /\ Used(page)[m] = p /\ Used(other)[n] = r
    BY <2>4, <2>5, <2>6, <2>7
  <2> HIDE DEF p, r
  <2>9. r <= PageRoom
    BY <2>8 DEF Fits
  <2>10. p <= PageRoom
    BY <1>2, <2>8, <2>9
  <2>11. QED
    BY <2>8, <2>10 DEF Fits
<1>5. QED
  BY <1>3, <1>4

----------------------------------------------------------------------------
(* Separators come and go. *)

\* What an internal page is made of.
LEMMA InnerEntries ==
  ASSUME NEW page \in InnerPage
  PROVE  /\ page.entries \in Seq(Separator) /\ page.left \in Nat /\ Len(page.entries) \in Nat
         /\ \A i \in 1..Len(page.entries) : /\ page.entries[i] \in Separator /\ page.entries[i].key \in Int
                                            /\ page.entries[i].key \in Keys /\ page.entries[i].child \in Nat
         /\ KeysAt(page) = {page.entries[i].key : i \in 1..Len(page.entries)}
         /\ Internal(page.left, page.entries) = page
<1> DEFINE e == page.entries
<1>1. e \in Seq(Separator) /\ page.left \in Nat
  BY DEF InnerPage
<1>2. Len(e) \in Nat /\ DOMAIN e = 1..Len(e) /\ \A i \in 1..Len(e) : e[i] \in Separator
  <2> HIDE DEF e
  <2>1. QED
    BY <1>1, LenProperties, ElementOfSeq
<1>3. KeysAt(page) = {e[i].key : i \in 1..Len(e)}
  BY <1>2 DEF KeysAt
<1>4. Internal(page.left, page.entries) = page
  BY DEF Internal, Page, InnerPage
<1> HIDE DEF e
<1>5. \A i \in 1..Len(e) : e[i].key \in Keys /\ e[i].child \in Nat /\ e[i].key \in Int
  BY <1>2, KeysAreNumbers DEF Separator
<1>6. QED
  BY <1>1, <1>2, <1>3, <1>4, <1>5 DEF e

InnerOf(page, left, e) ==
  /\ page \in InnerPage /\ page.entries = e /\ page.left = left /\ page.type = "internal"
  /\ Slots(page) = 0..Len(e)
  /\ \A t \in 0..Len(e) : Child(page, t) = IF t = 0 THEN left ELSE e[t].child

\* An internal page made of a left child and separators.
LEMMA MadeInner ==
  ASSUME NEW left \in Nat, NEW e \in Seq(Separator)
  PROVE  InnerOf(Internal(left, e), left, e)
BY DEF Internal, Page, InnerPage, Slots, Child, InnerOf

\* The keys below a child are between its separators.
LEMMA FamilyKeys ==
  ASSUME NEW d, NEW page, NEW G, Family(d, page, G), NEW s \in Slots(page)
  PROVE  /\ Nodes(d, G[s]) /\ KeysIn(d, G[s]) \subseteq Keys
         /\ \A q \in KeysIn(d, G[s]) : q \in Int /\ Between(page, s, q)
<1>1. Tree(d, G[s], Child(page, s)) /\ \A q \in KeysIn(d, G[s]) : Between(page, s, q)
  BY DEF Family
<1>2. QED
  BY <1>1, TreeNodes, KeysOfNodes

\* Below the separators all are the trees H of a page and the tree R.
Widened(d, page, H, R, key, all) ==
  /\ all \in Seq(Separator) /\ Len(all) = Len(page.entries) + 1
  /\ KeysAt(Internal(page.left, all)) = KeysAt(page) \cup {key}
  /\ \E J : /\ Family(d, Internal(page.left, all), J)
            /\ AllOf(Internal(page.left, all), J) = AllOf(page, H) \cup R

\* A separator and a tree to its right go in where the tree to its left is.
LEMMA FamilyInsert ==
  ASSUME NEW d, NEW page, NEW H, Family(d, page, H), NEW s \in Slots(page),
         NEW key \in Keys, NEW right \in Nat, NEW R, Tree(d, R, right), R \cap AllOf(page, H) = {},
         KeysIn(d, H[s]) # {}, \A q \in KeysIn(d, H[s]) : q < key,
         \A q \in KeysIn(d, R) : key <= q /\ Between(page, s, q), Between(page, s, key),
         NEW all, all = InsertAt(page.entries, s + 1, [key |-> key, child |-> right])
  PROVE  Widened(d, page, H, R, key, all)
<1> DEFINE e == page.entries
           n == Len(e)
           sep == [key |-> key, child |-> right]
           new == Internal(page.left, all)
           J == [t \in 0..(n + 1) |-> IF t <= s THEN H[t] ELSE IF t = s + 1 THEN R ELSE H[t - 1]]
<1>1. /\ e \in Seq(Separator) /\ page.left \in Nat /\ n \in Nat /\ KeysAt(page) = {e[i].key : i \in 1..n}
      /\ \A i \in 1..n : e[i].key \in Int
      /\ page \in InnerPage
  <2>1. page \in InnerPage
    BY DEF Family
  <2>2. QED
    BY <2>1, InnerEntries
<1>2. s \in 0..n /\ Slots(page) = 0..n
  BY DEF Slots
<1>3. \A i, j \in 1..n : i < j => e[i].key < e[j].key
  BY DEF Family, Sorted
<1>4. (s = 0 \/ e[s].key <= key) /\ (s = n \/ key < e[s + 1].key)
  BY DEF Between
<1>5. \A t \in 0..n : Child(page, t) = IF t = 0 THEN page.left ELSE e[t].child
  BY DEF Child
<1>6. key \in Int /\ sep \in Separator /\ sep.key = key /\ sep.child = right
  BY KeysAreNumbers DEF Separator
<1> HIDE DEF sep
<1>60. all = InsertAt(e, s + 1, sep)
  BY DEF sep
<1> HIDE DEF e, n
<1>7. /\ all \in Seq(Separator) /\ Len(all) = n + 1
      /\ all[s + 1] = sep
      /\ \A j \in 1..s : all[j] = e[j]
      /\ \A j \in (s + 2)..(n + 1) : all[j] = e[j - 1]
  <2> DEFINE pos == s + 1
  <2>1. pos \in 1..(Len(e) + 1) /\ pos - 1 = s /\ pos + 1 = s + 2 /\ Len(e) = n
    BY <1>1, <1>2 DEF n
  <2> HIDE DEF pos
  <2>2. Inserted(Separator, e, pos, sep, all)
    BY <1>1, <1>6, <1>60, <2>1, InsertAtIs DEF pos
  <2>3. QED
    BY <2>1, <2>2 DEF pos, Inserted
<1>70. all[s + 1].key = key
  BY <1>6, <1>7
<1>8. /\ new \in InnerPage /\ new.entries = all /\ Slots(new) = 0..(n + 1)
      /\ \A t \in 0..(n + 1) : Child(new, t) = IF t = 0 THEN page.left ELSE all[t].child
  BY <1>1, <1>7, MadeInner DEF InnerOf
<1> HIDE DEF new
<1>9. s # 0 => e[s].key < key
  <2>1. PICK q \in KeysIn(d, H[s]) : TRUE
    OBVIOUS
  <2>2. q \in Int /\ q < key /\ Between(page, s, q)
    BY FamilyKeys
  <2>3. s = 0 \/ e[s].key <= q
    BY <2>2 DEF Between, e
  <2>4. s # 0 => e[s].key \in Int
    BY <1>1, <1>2
  <2>5. QED
    BY <1>6, <2>2, <2>3, <2>4
<1>10. Sorted(all)
  <2> SUFFICES ASSUME NEW i \in 1..(n + 1), NEW j \in 1..(n + 1), i < j PROVE all[i].key < all[j].key
    BY <1>7 DEF Sorted
  <2>1. \A m \in 1..s : m \in 1..n /\ all[m] = e[m] /\ all[m].key < key
    <3> SUFFICES ASSUME NEW m \in 1..s PROVE m \in 1..n /\ all[m] = e[m] /\ all[m].key < key
      OBVIOUS
    <3>1. m \in 1..n /\ s \in 1..n /\ all[m] = e[m]
      BY <1>1, <1>2, <1>7
    <3>2. m = s \/ e[m].key < e[s].key
      BY <1>3, <3>1
    <3>3. e[m].key \in Int /\ e[s].key \in Int /\ e[s].key < key /\ key \in Int
      BY <1>1, <1>6, <1>9, <3>1
    <3>4. all[m].key = e[m].key
      BY <3>1
    <3>5. QED
      BY <3>1, <3>2, <3>3, <3>4
  <2>2. \A m \in (s + 2)..(n + 1) : m - 1 \in 1..n /\ all[m] = e[m - 1] /\ key < all[m].key
    <3> SUFFICES ASSUME NEW m \in (s + 2)..(n + 1) PROVE m - 1 \in 1..n /\ all[m] = e[m - 1] /\ key < all[m].key
      OBVIOUS
    <3>1. m - 1 \in 1..n /\ s + 1 \in 1..n /\ all[m] = e[m - 1] /\ s # n
      <4>1. all[m] = e[m - 1]
        BY <1>7
      <4>2. n \in Nat /\ s \in 0..n
        BY <1>1, <1>2
      <4>3. m - 1 \in 1..n /\ s + 1 \in 1..n /\ s # n
        BY <4>2
      <4>4. QED
        BY <4>1, <4>3
    <3>2. m - 1 = s + 1 \/ e[s + 1].key < e[m - 1].key
      BY <1>2, <1>3, <3>1
    <3>3. key < e[s + 1].key
      BY <1>4, <3>1 DEF e, n
    <3>4. e[m - 1].key \in Int /\ e[s + 1].key \in Int /\ all[m].key = e[m - 1].key /\ key \in Int
      BY <1>1, <1>6, <3>1
    <3>5. QED
      BY <3>1, <3>2, <3>3, <3>4
  <2>3. CASE i <= s
    <3>1. i \in 1..n /\ all[i] = e[i] /\ all[i].key < key /\ e[i].key \in Int
      BY <1>1, <2>1, <2>3
    <3>2. CASE j <= s
      BY <1>3, <2>1, <3>1, <3>2
    <3>3. CASE j = s + 1
      BY <1>70, <3>1, <3>3
    <3>4. CASE j > s + 1
      <4>1. j - 1 \in 1..n /\ all[j] = e[j - 1] /\ key < all[j].key /\ all[j].key \in Int
        BY <1>1, <1>2, <2>2, <3>4
      <4>2. QED
        BY <1>6, <3>1, <4>1
    <3>5. QED
      BY <1>2, <3>2, <3>3, <3>4
  <2>4. CASE i = s + 1
    BY <1>2, <1>70, <2>2, <2>4
  <2>5. CASE i > s + 1
    <3>1. i \in (s + 2)..(n + 1) /\ j \in (s + 2)..(n + 1)
      BY <1>1, <1>2, <2>5
    <3>2. i - 1 \in 1..n /\ j - 1 \in 1..n /\ i - 1 < j - 1 /\ all[i] = e[i - 1] /\ all[j] = e[j - 1]
      BY <2>2, <3>1
    <3>3. QED
      BY <1>3, <3>2
  <2>6. QED
    BY <1>2, <2>3, <2>4, <2>5
<1>11. /\ \A t \in 0..s : t \in 0..n /\ t \in 0..(n + 1) /\ J[t] = H[t] /\ Child(new, t) = Child(page, t)
       /\ s + 1 \in 0..(n + 1) /\ J[s + 1] = R /\ Child(new, s + 1) = right
       /\ \A t \in (s + 2)..(n + 1) : /\ t - 1 \in (s + 1)..n /\ t - 1 \in 0..n /\ t \in 0..(n + 1)
                                      /\ J[t] = H[t - 1] /\ Child(new, t) = Child(page, t - 1)
       /\ \A t \in 0..(n + 1) : t \in 0..s \/ t = s + 1 \/ t \in (s + 2)..(n + 1)
  <2>1. \A t \in 0..s : t \in 0..n /\ t \in 0..(n + 1) /\ J[t] = H[t] /\ (t = 0 \/ t \in 1..s)
    BY <1>1, <1>2
  <2>2. s + 1 \in 0..(n + 1) /\ J[s + 1] = R /\ s + 1 # 0
    BY <1>1, <1>2
  <2>3. \A t \in (s + 2)..(n + 1) : t - 1 \in (s + 1)..n /\ t - 1 \in 0..n /\ t \in 0..(n + 1) /\ J[t] = H[t - 1] /\ t # 0 /\ t - 1 # 0
    BY <1>1, <1>2
  <2>4. \A t \in 0..(n + 1) : t \in 0..s \/ t = s + 1 \/ t \in (s + 2)..(n + 1)
    BY <1>1, <1>2
  <2> HIDE DEF J
  <2>5. \A t \in 0..s : Child(new, t) = Child(page, t)
    BY <1>5, <1>7, <1>8, <2>1 DEF n, e
  <2>6. Child(new, s + 1) = right
    BY <1>6, <1>7, <1>8, <2>2
  <2>7. \A t \in (s + 2)..(n + 1) : Child(new, t) = Child(page, t - 1)
    BY <1>5, <1>7, <1>8, <2>3 DEF n, e
  <2>8. QED
    BY <2>1, <2>2, <2>3, <2>4, <2>5, <2>6, <2>7
<1> HIDE DEF J
<1>12. \A t \in Slots(new) : Tree(d, J[t], Child(new, t))
  <2>1. \A t \in 0..n : Tree(d, H[t], Child(page, t))
    BY <1>2 DEF Family
  <2>2. QED
    BY <1>8, <1>11, <2>1
<1>13. \A t \in 0..n : H[t] \cap R = {} /\ \A u \in 0..n : t # u => H[t] \cap H[u] = {}
  BY <1>2 DEF Family, AllOf
<1>14. \A t \in Slots(new) : \A u \in Slots(new) : u # t => J[t] \cap J[u] = {}
  <2> SUFFICES ASSUME NEW t \in 0..(n + 1), NEW u \in 0..(n + 1), t < u PROVE J[t] \cap J[u] = {}
    BY <1>1, <1>8
  <2>1. CASE t \in 0..s
    <3>1. J[t] = H[t] /\ t \in 0..n
      BY <1>11, <2>1
    <3>2. CASE u \in 0..s
      <4>1. J[u] = H[u] /\ u \in 0..n
        BY <1>11, <3>2
      <4>2. QED
        BY <1>13, <3>1, <4>1
    <3>3. CASE u = s + 1
      BY <1>11, <1>13, <3>1, <3>3
    <3>4. CASE u \in (s + 2)..(n + 1)
      <4>1. J[u] = H[u - 1] /\ u - 1 \in 0..n /\ u - 1 # t
        BY <1>2, <1>11, <2>1, <3>4
      <4>2. QED
        BY <1>13, <3>1, <4>1
    <3>5. QED
      BY <1>11, <3>2, <3>3, <3>4
  <2>2. CASE t = s + 1
    <3>1. u \in (s + 2)..(n + 1)
      BY <1>2, <2>2
    <3>2. J[u] = H[u - 1] /\ u - 1 \in 0..n /\ J[t] = R
      BY <1>11, <2>2, <3>1
    <3>3. QED
      BY <1>13, <3>2
  <2>3. CASE t \in (s + 2)..(n + 1)
    <3>1. u \in (s + 2)..(n + 1)
      BY <1>1, <1>2, <2>3
    <3>2. J[u] = H[u - 1] /\ u - 1 \in 0..n /\ J[t] = H[t - 1] /\ t - 1 \in 0..n /\ t - 1 # u - 1
      BY <1>11, <2>3, <3>1
    <3>3. QED
      BY <1>13, <3>2
  <2>4. QED
    BY <1>11, <2>1, <2>2, <2>3
<1>15. ASSUME NEW t \in Slots(new), NEW q \in KeysIn(d, J[t]) PROVE Between(new, t, q)
  <2>1. t \in 0..(n + 1)
    BY <1>8
  <2>2. \A u \in 0..n : \A r \in KeysIn(d, H[u]) : Between(page, u, r)
    BY <1>2 DEF Family
  <2>3. CASE t \in 0..s /\ t # s
    <3>1. q \in KeysIn(d, H[t]) /\ t \in 0..n /\ t + 1 \in 1..s /\ (t = 0 \/ t \in 1..s) /\ t # n /\ t + 1 \in 1..n
      BY <1>1, <1>2, <1>11, <1>15, <2>3
    <3>2. (t = 0 \/ e[t].key <= q) /\ q < e[t + 1].key
      BY <2>2, <3>1 DEF Between, e, n
    <3>3. (t = 0 \/ all[t] = e[t]) /\ all[t + 1] = e[t + 1]
      BY <1>7, <3>1
    <3>4. QED
      BY <1>8, <3>2, <3>3 DEF Between
  <2>4. CASE t = s
    <3>1. q \in KeysIn(d, H[s]) /\ s \in 0..n /\ (s = 0 \/ s \in 1..s)
      BY <1>2, <1>11, <1>15, <2>4
    <3>2. (s = 0 \/ e[s].key <= q) /\ q < key
      BY <2>2, <3>1 DEF Between, e
    <3>3. (s = 0 \/ all[s] = e[s]) /\ all[s + 1].key = key
      BY <1>7, <1>70, <3>1
    <3>4. QED
      BY <1>8, <2>4, <3>2, <3>3 DEF Between
  <2>5. CASE t = s + 1
    <3>1. q \in KeysIn(d, R)
      BY <1>11, <1>15, <2>5
    <3>2. key <= q /\ (s = n \/ q < e[s + 1].key)
      BY <3>1 DEF Between, e, n
    <3>3. t # n + 1 => s # n /\ t + 1 \in (s + 2)..(n + 1) /\ (t + 1) - 1 = s + 1
      BY <1>1, <1>2, <2>1, <2>5
    <3>4. t # n + 1 => all[t + 1] = e[s + 1]
      BY <1>7, <3>3
    <3>5. QED
      BY <1>7, <1>8, <1>70, <2>5, <3>2, <3>3, <3>4 DEF Between
  <2>6. CASE t \in (s + 2)..(n + 1)
    <3>1. q \in KeysIn(d, H[t - 1]) /\ t - 1 \in 0..n /\ t - 1 # 0 /\ all[t] = e[t - 1]
      BY <1>2, <1>7, <1>11, <1>15, <2>6
    <3>2. e[t - 1].key <= q /\ (t - 1 = n \/ q < e[(t - 1) + 1].key)
      BY <2>2, <3>1 DEF Between, e, n
    <3>3. t # n + 1 => t - 1 # n /\ t + 1 \in (s + 2)..(n + 1) /\ (t + 1) - 1 = t /\ (t - 1) + 1 = t
      BY <1>1, <1>2, <2>6
    <3>4. t # n + 1 => all[t + 1] = e[t] /\ q < e[t].key
      BY <1>7, <3>2, <3>3
    <3>5. QED
      BY <1>7, <1>8, <3>1, <3>2, <3>4 DEF Between
  <2>7. QED
    BY <1>11, <2>1, <2>3, <2>4, <2>5, <2>6
<1>16. Family(d, new, J)
  BY <1>8, <1>10, <1>12, <1>14, <1>15 DEF Family
<1>17. AllOf(new, J) = AllOf(page, H) \cup R
  <2>1. \A t \in 0..n : \E u \in 0..(n + 1) : J[u] = H[t]
    <3> SUFFICES ASSUME NEW t \in 0..n PROVE \E u \in 0..(n + 1) : J[u] = H[t]
      OBVIOUS
    <3>1. CASE t <= s
      BY <1>2, <1>11, <3>1
    <3>2. CASE ~(t <= s)
      <4>1. t + 1 \in (s + 2)..(n + 1) /\ (t + 1) - 1 = t
        BY <1>1, <1>2, <3>2
      <4>2. QED
        BY <1>11, <4>1
    <3>3. QED
      BY <3>1, <3>2
  <2>2. \A u \in 0..(n + 1) : J[u] = R \/ \E t \in 0..n : J[u] = H[t]
    BY <1>11
  <2>3. \A x : x \in AllOf(new, J) <=> \E u \in 0..(n + 1) : x \in J[u]
    BY <1>8 DEF AllOf
  <2>4. \A x : x \in AllOf(page, H) <=> \E t \in 0..n : x \in H[t]
    BY <1>2 DEF AllOf
  <2>5. \A x : x \in R => \E u \in 0..(n + 1) : x \in J[u]
    BY <1>11
  <2>6. QED
    BY <2>1, <2>2, <2>3, <2>4, <2>5
<1>18. KeysAt(new) = KeysAt(page) \cup {key}
  <2>1. KeysAt(new) = {all[i].key : i \in 1..(n + 1)}
    <3>1. KeysAt(new) = {new.entries[i].key : i \in 1..Len(new.entries)}
      BY <1>8, InnerEntries
    <3>2. QED
      BY <1>7, <1>8, <3>1
  <2>2. \A i \in 1..(n + 1) : all[i].key = key \/ \E j \in 1..n : all[i].key = e[j].key
    <3> SUFFICES ASSUME NEW i \in 1..(n + 1) PROVE all[i].key = key \/ \E j \in 1..n : all[i].key = e[j].key
      OBVIOUS
    <3>1. i \in 1..s \/ i = s + 1 \/ i \in (s + 2)..(n + 1)
      BY <1>1, <1>2
    <3>2. CASE i \in 1..s
      <4>1. i \in 1..n /\ all[i] = e[i]
        BY <1>1, <1>2, <1>7, <3>2
      <4>2. QED
        BY <4>1
    <3>3. CASE i \in (s + 2)..(n + 1)
      <4>1. i - 1 \in 1..n /\ all[i] = e[i - 1]
        BY <1>1, <1>2, <1>7, <3>3
      <4>2. QED
        BY <4>1
    <3>4. QED
      BY <1>70, <3>1, <3>2, <3>3
  <2>3. \A j \in 1..n : \E i \in 1..(n + 1) : all[i].key = e[j].key
    <3> SUFFICES ASSUME NEW j \in 1..n PROVE \E i \in 1..(n + 1) : all[i].key = e[j].key
      OBVIOUS
    <3>1. CASE j <= s
      <4>1. j \in 1..s /\ j \in 1..(n + 1) /\ all[j] = e[j]
        BY <1>1, <1>2, <1>7, <3>1
      <4>2. QED
        BY <4>1
    <3>2. CASE ~(j <= s)
      <4>1. j + 1 \in (s + 2)..(n + 1) /\ (j + 1) - 1 = j /\ j + 1 \in 1..(n + 1)
        BY <1>1, <1>2, <3>2
      <4>2. all[j + 1] = e[j]
        BY <1>7, <4>1
      <4>3. QED
        BY <4>1, <4>2
    <3>3. QED
      BY <3>1, <3>2
  <2>4. s + 1 \in 1..(n + 1)
    BY <1>1, <1>2
  <2>5. \A x : x \in KeysAt(new) <=> \E i \in 1..(n + 1) : x = all[i].key
    BY <2>1
  <2>6. \A x : x \in KeysAt(page) <=> \E i \in 1..n : x = e[i].key
    BY <1>1
  <2>7. key \in KeysAt(new)
    BY <1>70, <2>4, <2>5
  <2>8. QED
    BY <2>2, <2>3, <2>5, <2>6, <2>7
<1>19. QED
  BY <1>7, <1>16, <1>17, <1>18 DEF Widened, new, n, e

\* What a family is like, slot by slot.
SlotBySlot(d, page, G, n) ==
         /\ page \in InnerPage /\ n \in Nat /\ Slots(page) = 0..n
         /\ page.entries \in Seq(Separator) /\ page.left \in Nat
         /\ \A i \in 1..n : /\ page.entries[i].key \in Int /\ page.entries[i].key \in Keys
                            /\ page.entries[i].child \in Nat /\ page.entries[i] \in Separator
         /\ \A i, j \in 1..n : i < j => page.entries[i].key < page.entries[j].key
         /\ KeysAt(page) = {page.entries[i].key : i \in 1..n}
         /\ \A t \in 0..n : /\ Tree(d, G[t], Child(page, t))
                            /\ Child(page, t) = IF t = 0 THEN page.left ELSE page.entries[t].child
                            /\ \A u \in 0..n : t # u => G[t] \cap G[u] = {}
                            /\ \A q \in KeysIn(d, G[t]) : /\ q \in Int
                                                          /\ t = 0 \/ page.entries[t].key <= q
                                                          /\ t = n \/ q < page.entries[t + 1].key

\* The children of a page one by one, with the keys below each.
LEMMA FamilySlots ==
  ASSUME NEW d, NEW page, NEW G, Family(d, page, G), NEW n, n = Len(page.entries)
  PROVE  SlotBySlot(d, page, G, n)
<1>1. page \in InnerPage /\ Sorted(page.entries) /\ Slots(page) = 0..n
  BY DEF Family, Slots
<1>2. \A t \in 0..n : /\ Tree(d, G[t], Child(page, t))
                      /\ \A u \in 0..n : t # u => G[t] \cap G[u] = {}
                      /\ \A q \in KeysIn(d, G[t]) : Between(page, t, q)
  BY <1>1 DEF Family
<1>3. \A t \in 0..n : \A q \in KeysIn(d, G[t]) : q \in Int
  BY <1>1, FamilyKeys
<1>4. QED
  BY <1>1, <1>2, <1>3, InnerEntries DEF Between, Sorted, Child, SlotBySlot

\* The other way round.
LEMMA MakeFamily ==
  ASSUME NEW d, NEW page \in InnerPage, NEW n, n = Len(page.entries), NEW G,
         \A i, j \in 1..n : i < j => page.entries[i].key < page.entries[j].key,
         \A t \in 0..n : /\ Tree(d, G[t], Child(page, t))
                         /\ \A u \in 0..n : t < u => G[t] \cap G[u] = {}
                         /\ \A q \in KeysIn(d, G[t]) : /\ t = 0 \/ page.entries[t].key <= q
                                                       /\ t = n \/ q < page.entries[t + 1].key
  PROVE  Family(d, page, G)
<1>1. Slots(page) = 0..n /\ Sorted(page.entries) /\ n \in Nat
  BY InnerEntries DEF Slots, Sorted
<1>2. \A t \in 0..n : \A u \in 0..n : t # u => G[t] \cap G[u] = {}
  <2> SUFFICES ASSUME NEW t \in 0..n, NEW u \in 0..n, t # u PROVE G[t] \cap G[u] = {}
    OBVIOUS
  <2>1. t < u \/ u < t
    BY <1>1
  <2>2. QED
    BY <2>1
<1>3. \A t \in 0..n : \A q \in KeysIn(d, G[t]) : Between(page, t, q)
  BY DEF Between
<1>4. QED
  BY <1>1, <1>2, <1>3 DEF Family

\* The two halves of a page that is split, and the separator between them.
Halves(d, page, J, left, right, sep) ==
  /\ left \in InnerPage /\ right \in InnerPage
  /\ sep \in Keys /\ sep \in KeysAt(page)
  /\ KeysAt(left) \subseteq KeysAt(page) /\ KeysAt(right) \subseteq KeysAt(page)
  /\ \A q \in KeysAt(left) : q < sep
  /\ \A q \in KeysAt(right) : sep <= q
  /\ \E L, R : /\ Family(d, left, L) /\ Family(d, right, R)
               /\ AllOf(page, J) = AllOf(left, L) \cup AllOf(right, R)
               /\ AllOf(left, L) \cap AllOf(right, R) = {}
               /\ \A q \in KeysIn(d, AllOf(left, L)) : q < sep
               /\ \A q \in KeysIn(d, AllOf(right, R)) : sep <= q

\* A page cut after so many separators: the next one is taken out.
SplitAt(d, page, J, mid) ==
  LET e == page.entries
      l == SubSeq(e, 1, mid)
      r == SubSeq(e, mid + 2, Len(e))
  IN /\ l \in Seq(Separator) /\ Len(l) = mid /\ r \in Seq(Separator) /\ Len(r) = Len(e) - mid - 1
     /\ Halves(d, page, J, Internal(page.left, l), Internal(e[mid + 1].child, r), e[mid + 1].key)

\* split_internal: the children and their keys on the two sides of the middle separator.
LEMMA FamilySplit ==
  ASSUME NEW d, NEW page, NEW J, Family(d, page, J), NEW mid \in 1..(Len(page.entries) - 1)
  PROVE  SplitAt(d, page, J, mid)
<1> DEFINE n == Len(page.entries)
           l == SubSeq(page.entries, 1, mid)
           r == SubSeq(page.entries, mid + 2, n)
           sep == page.entries[mid + 1].key
<1>00. /\ mid \in 1..(n - 1) /\ n = Len(page.entries) /\ l = SubSeq(page.entries, 1, mid)
       /\ r = SubSeq(page.entries, mid + 2, n) /\ sep = page.entries[mid + 1].key
  OBVIOUS
<1> HIDE DEF n, l, r, sep
<1> USE <1>00
<1> DEFINE e == page.entries
           m == n - mid - 1
           left == Internal(page.left, l)
           right == Internal(e[mid + 1].child, r)
           L == [t \in 0..mid |-> J[t]]
           R == [t \in 0..m |-> J[mid + 1 + t]]
<1>0. SlotBySlot(d, page, J, n)
  BY FamilySlots
<1> HIDE DEF L, R, left, right
<1>1. /\ e \in Seq(Separator) /\ page.left \in Nat /\ n \in Nat
      /\ \A i \in 1..n : e[i].key \in Int /\ e[i].key \in Keys /\ e[i].child \in Nat
      /\ \A i, j \in 1..n : i < j => e[i].key < e[j].key
      /\ KeysAt(page) = {e[i].key : i \in 1..n}
      /\ Slots(page) = 0..n
      /\ n = Len(e)
  BY <1>0 DEF SlotBySlot
<1>2. \A t \in 0..n : /\ Tree(d, J[t], Child(page, t))
                      /\ Child(page, t) = IF t = 0 THEN page.left ELSE e[t].child
                      /\ \A u \in 0..n : t # u => J[t] \cap J[u] = {}
                      /\ \A q \in KeysIn(d, J[t]) : /\ q \in Int
                                                    /\ t = 0 \/ e[t].key <= q
                                                    /\ t = n \/ q < e[t + 1].key
  BY <1>0 DEF SlotBySlot
<1> HIDE DEF e
<1>3. mid \in Nat /\ 1 <= mid /\ mid + 1 \in 1..n /\ m \in Nat /\ mid + 1 + m = n
  BY <1>1
<1> HIDE DEF m
<1>4. sep = e[mid + 1].key /\ sep \in Keys /\ sep \in Int /\ e[mid + 1].child \in Nat
  BY <1>1, <1>3 DEF e
<1>5. l \in Seq(Separator) /\ Len(l) = mid /\ \A j \in 1..mid : l[j] = e[j] /\ j \in 1..n
  <2>1. 1 \in 1..(Len(e) + 1) /\ mid \in (1 - 1)..Len(e) /\ mid - 1 + 1 = mid /\ \A j \in 1..mid : 1 + j - 1 = j /\ j \in 1..n
    BY <1>1
  <2>2. StretchOf(Separator, e, 1, mid, l)
    BY <1>1, <2>1, Stretch DEF e
  <2>3. QED
    BY <2>1, <2>2 DEF StretchOf
<1>6. r \in Seq(Separator) /\ Len(r) = m /\ \A j \in 1..m : r[j] = e[mid + 1 + j] /\ mid + 1 + j \in 1..n
  <2> DEFINE f == mid + 2
  <2>1. f \in 1..(Len(e) + 1) /\ n \in (f - 1)..Len(e) /\ n - f + 1 = m /\ \A j \in 1..m : f + j - 1 = mid + 1 + j /\ mid + 1 + j \in 1..n
    BY <1>1, <1>3 DEF m
  <2>2. r = SubSeq(e, f, n)
    BY DEF e
  <2> HIDE DEF f
  <2>3. StretchOf(Separator, e, f, n, r)
    BY <1>1, <2>1, <2>2, Stretch
  <2>4. QED
    BY <2>1, <2>3 DEF StretchOf
<1>7. /\ left \in InnerPage /\ left.entries = l
      /\ \A t \in 0..mid : Child(left, t) = IF t = 0 THEN page.left ELSE l[t].child
      /\ Slots(left) = 0..mid
  <2>1. InnerOf(left, page.left, l)
    BY <1>1, <1>5, MadeInner DEF left
  <2>2. QED
    BY <1>5, <2>1 DEF InnerOf
<1>8. /\ right \in InnerPage /\ right.entries = r
      /\ \A t \in 0..m : Child(right, t) = IF t = 0 THEN e[mid + 1].child ELSE r[t].child
      /\ Slots(right) = 0..m
  <2>1. InnerOf(right, e[mid + 1].child, r)
    BY <1>4, <1>6, MadeInner DEF right
  <2>2. QED
    BY <1>6, <2>1 DEF InnerOf
<1>9. \A t \in 0..mid : t \in 0..n /\ L[t] = J[t]
  BY <1>1 DEF L
<1>10. \A t \in 0..m : mid + 1 + t \in 0..n /\ mid + 1 + t \in 1..n /\ R[t] = J[mid + 1 + t]
  <2> SUFFICES ASSUME NEW t \in 0..m
               PROVE  mid + 1 + t \in 0..n /\ mid + 1 + t \in 1..n /\ R[t] = J[mid + 1 + t]
    OBVIOUS
  <2>1. mid + 1 + t \in 0..n /\ mid + 1 + t \in 1..n
    BY <1>1, <1>3
  <2>2. R[t] = J[mid + 1 + t]
    BY DEF R
  <2>3. QED
    BY <2>1, <2>2
<1>11. Family(d, left, L)
  <2>1. \A i, j \in 1..mid : i < j => l[i].key < l[j].key
    BY <1>1, <1>5
  <2>2. ASSUME NEW t \in 0..mid PROVE Tree(d, L[t], Child(left, t))
    <3>1. t = 0 \/ t \in 1..mid
      BY <1>3
    <3>2. Child(left, t) = Child(page, t)
      BY <1>2, <1>5, <1>7, <1>9, <3>1
    <3>3. QED
      BY <1>2, <1>9, <3>2
  <2>3. ASSUME NEW t \in 0..mid, NEW q \in KeysIn(d, L[t])
        PROVE  (t = 0 \/ l[t].key <= q) /\ (t = mid \/ q < l[t + 1].key)
    <3>1. q \in KeysIn(d, J[t]) /\ t \in 0..n /\ (t = 0 \/ t \in 1..mid) /\ (t = mid \/ (t # n /\ t + 1 \in 1..mid))
      BY <1>1, <1>3, <1>9, <2>3
    <3>2. (t = 0 \/ e[t].key <= q) /\ (t = n \/ q < e[t + 1].key)
      BY <1>2, <3>1
    <3>3. QED
      BY <1>5, <3>1, <3>2
  <2>4. \A t, u \in 0..mid : t < u => L[t] \cap L[u] = {}
    <3> SUFFICES ASSUME NEW t \in 0..mid, NEW u \in 0..mid, t < u PROVE L[t] \cap L[u] = {}
      OBVIOUS
    <3>1. t # u /\ t \in 0..n /\ u \in 0..n /\ L[t] = J[t] /\ L[u] = J[u]
      BY <1>9
    <3>2. QED
      BY <1>2, <3>1
  <2>5. QED
    BY <1>5, <1>7, <2>1, <2>2, <2>3, <2>4, MakeFamily
<1>12. Family(d, right, R)
  <2>1. \A i, j \in 1..m : i < j => r[i].key < r[j].key
    <3> SUFFICES ASSUME NEW i \in 1..m, NEW j \in 1..m, i < j PROVE r[i].key < r[j].key
      OBVIOUS
    <3>1. mid + 1 + i \in 1..n /\ mid + 1 + j \in 1..n /\ mid + 1 + i < mid + 1 + j
      BY <1>3, <1>6
    <3>2. QED
      BY <1>1, <1>6, <3>1
  <2>2. ASSUME NEW t \in 0..m PROVE Tree(d, R[t], Child(right, t))
    <3>1. t = 0 \/ t \in 1..m
      BY <1>3
    <3>2. mid + 1 + t # 0 /\ (t = 0 => mid + 1 + t = mid + 1)
      BY <1>3
    <3>3. Child(right, t) = Child(page, mid + 1 + t)
      BY <1>2, <1>6, <1>8, <1>10, <3>1, <3>2
    <3>4. QED
      BY <1>2, <1>10, <3>3
  <2>3. ASSUME NEW t \in 0..m, NEW q \in KeysIn(d, R[t])
        PROVE  (t = 0 \/ r[t].key <= q) /\ (t = m \/ q < r[t + 1].key)
    <3> DEFINE f == mid + 1 + t
    <3>1. /\ q \in KeysIn(d, J[f]) /\ f \in 0..n /\ (t = 0 \/ t \in 1..m) /\ f # 0
          /\ (t = m \/ (f # n /\ t + 1 \in 1..m)) /\ f + 1 = mid + 1 + (t + 1)
      BY <1>1, <1>3, <1>10, <2>3
    <3>2. (t = 0 \/ r[t] = e[f]) /\ (t = m \/ r[t + 1] = e[f + 1])
      BY <1>6, <3>1
    <3> HIDE DEF f
    <3>3. e[f].key <= q /\ (f = n \/ q < e[f + 1].key)
      BY <1>2, <3>1
    <3>4. QED
      BY <3>1, <3>2, <3>3
  <2>4. \A t, u \in 0..m : t < u => R[t] \cap R[u] = {}
    <3> SUFFICES ASSUME NEW t \in 0..m, NEW u \in 0..m, t < u PROVE R[t] \cap R[u] = {}
      OBVIOUS
    <3>1. mid + 1 + t # mid + 1 + u
      BY <1>3
    <3>2. QED
      BY <1>2, <1>10, <3>1
  <2>5. QED
    BY <1>6, <1>8, <2>1, <2>2, <2>3, <2>4, MakeFamily
<1>13. \A t \in 0..n : (t \in 0..mid /\ J[t] = L[t]) \/ (\E u \in 0..m : t = mid + 1 + u /\ J[t] = R[u])
  <2> SUFFICES ASSUME NEW t \in 0..n, t \notin 0..mid PROVE \E u \in 0..m : t = mid + 1 + u /\ J[t] = R[u]
    BY <1>9
  <2>1. t - mid - 1 \in 0..m /\ t = mid + 1 + (t - mid - 1)
    BY <1>3
  <2>2. QED
    BY <1>10, <2>1
<1>14. /\ \A x : x \in AllOf(page, J) <=> \E t \in 0..n : x \in J[t]
       /\ \A x : x \in AllOf(left, L) <=> \E t \in 0..mid : x \in L[t]
       /\ \A x : x \in AllOf(right, R) <=> \E t \in 0..m : x \in R[t]
  BY <1>1, <1>7, <1>8 DEF AllOf
<1>15. AllOf(page, J) = AllOf(left, L) \cup AllOf(right, R)
  <2>1. \A t \in 0..mid : t \in 0..n /\ L[t] = J[t]
    BY <1>9
  <2>2. \A t \in 0..m : \E u \in 0..n : R[t] = J[u]
    BY <1>10
  <2>3. \A t \in 0..n : (\E u \in 0..mid : J[t] = L[u]) \/ (\E u \in 0..m : J[t] = R[u])
    BY <1>13
  <2>4. ASSUME NEW x PROVE x \in AllOf(page, J) <=> x \in AllOf(left, L) \/ x \in AllOf(right, R)
    <3>1. x \in AllOf(page, J) => x \in AllOf(left, L) \/ x \in AllOf(right, R)
      BY <1>14, <2>3
    <3>2. x \in AllOf(left, L) => x \in AllOf(page, J)
      BY <1>14, <2>1
    <3>3. x \in AllOf(right, R) => x \in AllOf(page, J)
      BY <1>14, <2>2
    <3>4. QED
      BY <3>1, <3>2, <3>3
  <2>5. QED
    BY <2>4
<1>16. AllOf(left, L) \cap AllOf(right, R) = {}
  <2> SUFFICES ASSUME NEW t \in 0..mid, NEW u \in 0..m PROVE L[t] \cap R[u] = {}
    BY <1>14
  <2>1. t # mid + 1 + u
    BY <1>3
  <2>2. QED
    BY <1>2, <1>9, <1>10, <2>1
<1>17. \A i \in 1..mid : e[i].key < sep
  <2> SUFFICES ASSUME NEW i \in 1..mid PROVE e[i].key < sep
    OBVIOUS
  <2>1. i \in 1..n /\ i < mid + 1 /\ mid + 1 \in 1..n
    BY <1>3
  <2>2. e[i].key < e[mid + 1].key
    BY <1>1, <2>1
  <2>3. QED
    BY <1>4, <2>2
<1>18. \A i \in 1..n : i > mid => sep <= e[i].key
  <2> SUFFICES ASSUME NEW i \in 1..n, i > mid PROVE sep <= e[i].key
    OBVIOUS
  <2>1. i = mid + 1 \/ mid + 1 < i
    BY <1>3
  <2>2. e[i].key \in Int /\ sep \in Int
    BY <1>1, <1>4
  <2>3. CASE i = mid + 1
    BY <1>4, <2>2, <2>3
  <2>4. CASE mid + 1 < i
    <3>1. e[mid + 1].key < e[i].key
      BY <1>1, <1>3, <2>4
    <3>2. QED
      BY <1>4, <2>2, <3>1
  <2>5. QED
    BY <2>1, <2>3, <2>4
<1>19. \A q \in KeysIn(d, AllOf(left, L)) : q < sep
  <2> SUFFICES ASSUME NEW t \in 0..mid, NEW q \in KeysIn(d, L[t]) PROVE q < sep
    <3>1. KeysIn(d, AllOf(left, L)) = UNION {KeysIn(d, L[t]) : t \in 0..mid}
      BY <1>7, HeldOfAll
    <3>2. QED
      BY <3>1
  <2>1. q \in KeysIn(d, J[t]) /\ t \in 0..n /\ t # n /\ t + 1 \in 1..n
    BY <1>1, <1>3, <1>9
  <2>2. q \in Int /\ q < e[t + 1].key
    BY <1>2, <2>1
  <2>3. t + 1 = mid + 1 \/ t + 1 \in 1..mid
    <3>1. mid \in Nat
      BY <1>3
    <3>2. QED
      BY <3>1
  <2>4. e[t + 1].key \in Int /\ e[t + 1].key <= sep
    BY <1>1, <1>4, <1>17, <2>1, <2>3
  <2>5. QED
    BY <1>4, <2>2, <2>4
<1>20. \A q \in KeysIn(d, AllOf(right, R)) : sep <= q
  <2> SUFFICES ASSUME NEW t \in 0..m, NEW q \in KeysIn(d, R[t]) PROVE sep <= q
    <3>1. KeysIn(d, AllOf(right, R)) = UNION {KeysIn(d, R[t]) : t \in 0..m}
      BY <1>8, HeldOfAll
    <3>2. QED
      BY <3>1
  <2> DEFINE f == mid + 1 + t
  <2>0. f \in 0..n /\ f \in 1..n /\ R[t] = J[f]
    BY <1>10
  <2>1. q \in KeysIn(d, J[f]) /\ f \in 0..n /\ f # 0 /\ f \in 1..n /\ f > mid
    BY <1>3, <2>0
  <2> HIDE DEF f
  <2>2. q \in Int /\ e[f].key <= q /\ sep <= e[f].key /\ e[f].key \in Int
    BY <1>1, <1>2, <1>18, <2>1
  <2>3. QED
    BY <1>4, <2>2
<1>21. KeysAt(left) = {l[i].key : i \in 1..mid} /\ KeysAt(right) = {r[i].key : i \in 1..m}
  <2>1. /\ KeysAt(left) = {left.entries[i].key : i \in 1..Len(left.entries)}
        /\ KeysAt(right) = {right.entries[i].key : i \in 1..Len(right.entries)}
    BY <1>7, <1>8, InnerEntries
  <2>2. left.entries = l /\ right.entries = r /\ Len(l) = mid /\ Len(r) = m
    BY <1>5, <1>6, <1>7, <1>8
  <2>3. QED
    BY <2>1, <2>2
<1>22. /\ \A q \in KeysAt(left) : q \in KeysAt(page) /\ q < sep
       /\ \A q \in KeysAt(right) : q \in KeysAt(page) /\ sep <= q
  <2>1. ASSUME NEW i \in 1..mid PROVE l[i].key \in KeysAt(page) /\ l[i].key < sep
    BY <1>1, <1>5, <1>17
  <2>2. ASSUME NEW i \in 1..m PROVE r[i].key \in KeysAt(page) /\ sep <= r[i].key
    <3> DEFINE f == mid + 1 + i
    <3>1. f \in 1..n /\ r[i] = e[f]
      BY <1>6
    <3>2. f > mid
      BY <1>3
    <3> HIDE DEF f
    <3>3. QED
      BY <1>1, <1>18, <3>1, <3>2
  <2>3. QED
    BY <1>21, <2>1, <2>2
<1>23. sep \in KeysAt(page)
  BY <1>1, <1>3, <1>4
<1>24. Halves(d, page, J, left, right, sep)
  BY <1>4, <1>7, <1>8, <1>11, <1>12, <1>15, <1>16, <1>19, <1>20, <1>22, <1>23 DEF Halves
<1>25. QED
  BY <1>5, <1>6, <1>24 DEF SplitAt, left, right, e, m, n, l, r, sep

\* What is left of a page and its family without the child in slot s.
Bereft(d, page, G, s, new) ==
  /\ new \in InnerPage /\ Len(new.entries) = Len(page.entries) - 1
  /\ KeysAt(new) \subseteq KeysAt(page)
  /\ \E H : /\ Family(d, new, H)
            /\ AllOf(page, G) = AllOf(new, H) \cup G[s]
            /\ AllOf(new, H) \cap G[s] = {}

\* internal_remove_child: the other children keep their places in the order.
LEMMA FamilyRemove ==
  ASSUME NEW d, NEW page, NEW G, Family(d, page, G), page.entries # <<>>, NEW s \in Slots(page)
  PROVE  Bereft(d, page, G, s, RemoveChild(page, s))
<1> DEFINE e == page.entries
           n == Len(e)
           cut == IF s = 0 THEN 1 ELSE s
           r == RemoveAt(e, cut)
           c == IF s = 0 THEN e[1].child ELSE page.left
           new == Internal(c, r)
           H == [t \in 0..(n - 1) |-> IF t < s THEN G[t] ELSE G[t + 1]]
<1> HIDE DEF H, new, c, r, cut
<1>0. SlotBySlot(d, page, G, n)
  BY FamilySlots
<1>1. /\ e \in Seq(Separator) /\ page.left \in Nat /\ n \in Nat
      /\ \A i \in 1..n : e[i].key \in Int /\ e[i].key \in Keys /\ e[i].child \in Nat
      /\ \A i, j \in 1..n : i < j => e[i].key < e[j].key
      /\ KeysAt(page) = {e[i].key : i \in 1..n}
      /\ Slots(page) = 0..n
      /\ n = Len(e)
  BY <1>0 DEF SlotBySlot
<1>2. \A t \in 0..n : /\ Tree(d, G[t], Child(page, t))
                      /\ Child(page, t) = IF t = 0 THEN page.left ELSE e[t].child
                      /\ \A u \in 0..n : t # u => G[t] \cap G[u] = {}
                      /\ \A q \in KeysIn(d, G[t]) : /\ q \in Int
                                                    /\ t = 0 \/ e[t].key <= q
                                                    /\ t = n \/ q < e[t + 1].key
  BY <1>0 DEF SlotBySlot
<1>3. n # 0 /\ e # <<>>
  BY <1>1, EmptySeq
<1> HIDE DEF e, n
<1>4. s \in 0..n /\ n - 1 \in Nat /\ cut \in 1..n /\ (s = 0 => cut = 1) /\ (s # 0 => cut = s)
  BY <1>1, <1>3 DEF cut
<1>5. c \in Nat /\ (s = 0 => c = Child(page, 1)) /\ (s # 0 => c = Child(page, 0))
  BY <1>1, <1>2, <1>4 DEF c
<1>6. /\ r \in Seq(Separator) /\ Len(r) = n - 1
      /\ \A j \in 1..(cut - 1) : r[j] = e[j]
      /\ \A j \in cut..(n - 1) : r[j] = e[j + 1]
  <2>1. LeftOut(Separator, e, cut, r)
    BY <1>1, <1>4, RemoveAtIs DEF r
  <2>2. QED
    BY <1>1, <2>1 DEF LeftOut
<1>7. /\ new \in InnerPage /\ new.entries = r /\ Slots(new) = 0..(n - 1)
      /\ \A t \in 0..(n - 1) : Child(new, t) = IF t = 0 THEN c ELSE r[t].child
  <2>1. InnerOf(new, c, r)
    BY <1>5, <1>6, MadeInner DEF new
  <2>2. QED
    BY <1>6, <2>1 DEF InnerOf
<1>8. RemoveChild(page, s) = new
  BY DEF RemoveChild, new, c, r, cut, e
\* old(t) is the slot that slot t of the new page was.
<1> DEFINE old(t) == IF t < s THEN t ELSE t + 1
<1>9. \A t \in 0..(n - 1) : /\ old(t) \in 0..n /\ old(t) # s /\ H[t] = G[old(t)]
                            /\ \A u \in 0..(n - 1) : t < u => old(t) < old(u)
  BY <1>1, <1>4 DEF H
<1>10. \A i \in 1..(n - 1) : r[i] = e[IF i < cut THEN i ELSE i + 1]
  <2> SUFFICES ASSUME NEW i \in 1..(n - 1) PROVE r[i] = e[IF i < cut THEN i ELSE i + 1]
    OBVIOUS
  <2>1. i < cut => i \in 1..(cut - 1)
    BY <1>4
  <2>2. ~(i < cut) => i \in cut..(n - 1)
    BY <1>4
  <2>3. QED
    BY <1>6, <2>1, <2>2
<1>11. \A i, j \in 1..(n - 1) : i < j => r[i].key < r[j].key
  <2> SUFFICES ASSUME NEW i \in 1..(n - 1), NEW j \in 1..(n - 1), i < j PROVE r[i].key < r[j].key
    OBVIOUS
  <2> DEFINE a == IF i < cut THEN i ELSE i + 1
             b == IF j < cut THEN j ELSE j + 1
  <2>1. a \in 1..n /\ b \in 1..n /\ a < b
    BY <1>1, <1>4
  <2>2. r[i] = e[a] /\ r[j] = e[b]
    BY <1>10
  <2> HIDE DEF a, b
  <2>3. QED
    BY <1>1, <2>1, <2>2
<1>12. ASSUME NEW t \in 0..(n - 1) PROVE Tree(d, H[t], Child(new, t))
  <2>1. Child(new, t) = Child(page, old(t))
    <3>1. CASE t = 0
      <4>1. old(t) = IF s = 0 THEN 1 ELSE 0
        BY <1>4, <3>1
      <4>2. QED
        BY <1>5, <1>7, <3>1, <4>1
    <3>2. CASE t # 0
      <4>1. t \in 1..(n - 1) /\ old(t) # 0 /\ old(t) \in 0..n
        BY <1>9, <3>2
      <4>2. r[t] = e[old(t)]
        <5>1. CASE s = 0
          BY <1>4, <1>10, <4>1, <5>1
        <5>2. CASE s # 0
          BY <1>4, <1>10, <4>1, <5>2
        <5>3. QED
          BY <5>1, <5>2
      <4> HIDE DEF old
      <4>3. Child(page, old(t)) = e[old(t)].child
        BY <1>2, <4>1
      <4>4. QED
        BY <1>7, <3>2, <4>2, <4>3
    <3>3. QED
      BY <3>1, <3>2
  <2> HIDE DEF old
  <2>2. QED
    BY <1>2, <1>9, <2>1
<1>13. ASSUME NEW t \in 0..(n - 1), NEW q \in KeysIn(d, H[t])
       PROVE  (t = 0 \/ r[t].key <= q) /\ (t = n - 1 \/ q < r[t + 1].key)
  <2> DEFINE o == old(t)
  <2>1. o \in 0..n /\ q \in KeysIn(d, G[o])
    BY <1>9, <1>13
  <2>2. q \in Int /\ (o = 0 \/ e[o].key <= q) /\ (o = n \/ q < e[o + 1].key)
    <3> HIDE DEF o
    <3>1. QED
      BY <1>2, <2>1
  <2>3. t # 0 => r[t] = e[o] /\ o # 0
    <3> SUFFICES ASSUME t # 0 PROVE r[t] = e[o] /\ o # 0
      OBVIOUS
    <3>1. t \in 1..(n - 1)
      OBVIOUS
    <3>2. o = (IF t < cut THEN t ELSE t + 1) /\ o # 0
      BY <1>4, <3>1
    <3>3. QED
      BY <1>10, <3>1, <3>2
  <2>4. t = 0 \/ r[t].key <= q
    BY <2>2, <2>3
  <2>5. ASSUME t # n - 1 PROVE q < r[t + 1].key
    <3>1. t + 1 \in 1..(n - 1) /\ o # n /\ o + 1 \in 1..n
      BY <1>1, <1>4, <2>5
    <3>2. q < e[o + 1].key /\ e[o + 1].key \in Int
      BY <1>1, <2>2, <3>1
    <3>3. r[t + 1] = e[IF t + 1 < cut THEN t + 1 ELSE t + 2]
      BY <1>10, <3>1
    <3>4. CASE s = 0 \/ t + 1 # s
      <4>1. (IF t + 1 < cut THEN t + 1 ELSE t + 2) = o + 1
        BY <1>4, <3>4
      <4>2. QED
        BY <3>2, <3>3, <4>1
    <3>5. CASE s # 0 /\ t + 1 = s
      <4>1. o = t /\ cut = t + 1 /\ t + 2 \in 1..n /\ t + 1 < t + 2
        BY <1>1, <1>4, <3>1, <3>5
      <4>2. e[t + 1].key < e[t + 2].key /\ e[t + 2].key \in Int /\ r[t + 1] = e[t + 2]
        BY <1>1, <3>1, <3>3, <4>1
      <4>3. QED
        BY <2>2, <3>2, <4>1, <4>2
    <3>6. QED
      BY <3>4, <3>5
  <2>6. QED
    BY <2>4, <2>5
<1>14. \A t, u \in 0..(n - 1) : t < u => H[t] \cap H[u] = {}
  <2> SUFFICES ASSUME NEW t \in 0..(n - 1), NEW u \in 0..(n - 1), t < u PROVE H[t] \cap H[u] = {}
    OBVIOUS
  <2>1. old(t) \in 0..n /\ old(u) \in 0..n /\ old(t) # old(u) /\ H[t] = G[old(t)] /\ H[u] = G[old(u)]
    BY <1>9
  <2> HIDE DEF old
  <2>2. QED
    BY <1>2, <2>1
<1>15. Family(d, new, H)
  <2>1. new \in InnerPage /\ n - 1 = Len(new.entries) /\ new.entries = r
    BY <1>6, <1>7
  <2> HIDE DEF old
  <2>2. \A i, j \in 1..(n - 1) : i < j => new.entries[i].key < new.entries[j].key
    BY <1>11, <2>1
  <2>3. \A t \in 0..(n - 1) : /\ Tree(d, H[t], Child(new, t))
                              /\ \A u \in 0..(n - 1) : t < u => H[t] \cap H[u] = {}
                              /\ \A q \in KeysIn(d, H[t]) : /\ t = 0 \/ new.entries[t].key <= q
                                                            /\ t = n - 1 \/ q < new.entries[t + 1].key
    BY <1>12, <1>13, <1>14, <2>1
  <2> DEFINE m == n - 1
  <2> HIDE DEF m
  <2>4. QED
    BY <2>1, <2>2, <2>3, MakeFamily DEF m
<1>16. /\ \A x : x \in AllOf(page, G) <=> \E t \in 0..n : x \in G[t]
       /\ \A x : x \in AllOf(new, H) <=> \E t \in 0..(n - 1) : x \in H[t]
  BY <1>1, <1>7 DEF AllOf
<1>17. \A t \in 0..n : t = s \/ \E u \in 0..(n - 1) : H[u] = G[t]
  <2> SUFFICES ASSUME NEW t \in 0..n, t # s PROVE \E u \in 0..(n - 1) : H[u] = G[t]
    OBVIOUS
  <2>1. CASE t < s
    <3>1. t \in 0..(n - 1) /\ old(t) = t
      BY <1>1, <1>4, <2>1
    <3>2. QED
      BY <1>9, <3>1
  <2>2. CASE ~(t < s)
    <3>1. t - 1 \in 0..(n - 1) /\ old(t - 1) = t
      BY <1>1, <1>4, <2>2
    <3>2. QED
      BY <1>9, <3>1
  <2>3. QED
    BY <2>1, <2>2
<1>18. \A t \in 0..(n - 1) : \E u \in 0..n : u # s /\ H[t] = G[u]
  BY <1>9
<1>19. AllOf(page, G) = AllOf(new, H) \cup G[s]
  <2> HIDE DEF old
  <2>1. ASSUME NEW x, x \in AllOf(page, G), x \notin G[s] PROVE x \in AllOf(new, H)
    <3>1. PICK t \in 0..n : x \in G[t]
      BY <1>16, <2>1
    <3>2. PICK u \in 0..(n - 1) : H[u] = G[t]
      BY <1>17, <2>1, <3>1
    <3>3. QED
      BY <1>16, <3>1, <3>2
  <2>2. ASSUME NEW x, x \in AllOf(new, H) PROVE x \in AllOf(page, G)
    BY <1>16, <1>18, <2>2
  <2>3. ASSUME NEW x, x \in G[s] PROVE x \in AllOf(page, G)
    BY <1>4, <1>16, <2>3
  <2>4. QED
    BY <2>1, <2>2, <2>3
<1>20. AllOf(new, H) \cap G[s] = {}
  <2>1. \A t \in 0..(n - 1) : H[t] \cap G[s] = {}
    BY <1>2, <1>4, <1>18
  <2>2. QED
    BY <1>16, <2>1
<1>21. KeysAt(new) \subseteq KeysAt(page)
  <2>1. KeysAt(new) = {r[i].key : i \in 1..(n - 1)}
    <3>1. KeysAt(new) = {new.entries[i].key : i \in 1..Len(new.entries)}
      BY <1>7, InnerEntries
    <3>2. QED
      BY <1>6, <1>7, <3>1
  <2>2. ASSUME NEW i \in 1..(n - 1) PROVE r[i].key \in KeysAt(page)
    <3> DEFINE a == IF i < cut THEN i ELSE i + 1
    <3>1. a \in 1..n
      BY <1>1, <1>4
    <3>2. r[i] = e[a]
      BY <1>10
    <3> HIDE DEF a
    <3>3. QED
      BY <1>1, <3>1, <3>2
  <2>3. QED
    BY <2>1, <2>2
<1>22. Bereft(d, page, G, s, new)
  <2>1. Len(new.entries) = Len(page.entries) - 1
    BY <1>6, <1>7 DEF n, e
  <2>2. QED
    BY <1>7, <1>15, <1>19, <1>20, <1>21, <2>1 DEF Bereft
<1>23. QED
  BY <1>8, <1>22

\* A page with another child in slot s, under key m if there is a separator.
Rekeyed(d, page, G, s, c, m, new) ==
  /\ new \in InnerPage /\ Sorted(new.entries) /\ Slots(new) = Slots(page)
  /\ Len(new.entries) = Len(page.entries)
  /\ Child(new, s) = c /\ \A t \in Slots(page) \ {s} : Child(new, t) = Child(page, t)
  /\ \A t \in Slots(page) \ {s} : \A q \in KeysIn(d, G[t]) : Between(new, t, q)
  /\ \A q \in Int : Between(page, s, q) /\ m <= q => Between(new, s, q)
  /\ KeysAt(new) \subseteq KeysAt(page) \cup {m}

\* A separator may become any key between its neighbours' keys that bounds its child.
LEMMA RekeySlot ==
  ASSUME NEW d, NEW page, NEW G, Family(d, page, G), NEW s \in Slots(page), s # 0,
         NEW m \in Keys, Between(page, s, m), NEW c \in Nat,
         NEW new, new = [page EXCEPT !.entries[s] = [key |-> m, child |-> c]]
  PROVE  Rekeyed(d, page, G, s, c, m, new)
<1> DEFINE e == page.entries
           n == Len(e)
           f == new.entries
           sep == [key |-> m, child |-> c]
<1>0. SlotBySlot(d, page, G, n)
  BY FamilySlots
<1>1. /\ e \in Seq(Separator) /\ page.left \in Nat /\ n \in Nat /\ page \in InnerPage
      /\ \A i \in 1..n : e[i].key \in Int /\ e[i] \in Separator
      /\ \A i, j \in 1..n : i < j => e[i].key < e[j].key
      /\ KeysAt(page) = {e[i].key : i \in 1..n}
      /\ Slots(page) = 0..n
  BY <1>0 DEF SlotBySlot
<1>2. \A t \in 0..n : /\ Child(page, t) = IF t = 0 THEN page.left ELSE e[t].child
                      /\ \A q \in KeysIn(d, G[t]) : /\ q \in Int
                                                    /\ t = 0 \/ e[t].key <= q
                                                    /\ t = n \/ q < e[t + 1].key
  BY <1>0 DEF SlotBySlot
<1>3. s \in 1..n /\ m \in Int /\ sep \in Separator /\ sep.key = m /\ sep.child = c
  BY <1>1, KeysAreNumbers DEF Separator
<1>4. e[s].key <= m /\ (s = n \/ m < e[s + 1].key)
  BY DEF Between
<1>5. f = [e EXCEPT ![s] = sep] /\ new.left = page.left /\ new.type = page.type /\ new = [page EXCEPT !.entries = f]
  BY <1>1 DEF InnerPage
<1> HIDE DEF sep
<1>6. DOMAIN e = 1..n /\ e = [i \in 1..n |-> e[i]]
  BY <1>1, LenProperties DEF n
<1>7. f = [i \in 1..n |-> IF i = s THEN sep ELSE e[i]]
  BY <1>5, <1>6
<1>8. f \in Seq(Separator) /\ Len(f) = n
  <2>1. \A i \in 1..n : (IF i = s THEN sep ELSE e[i]) \in Separator
    BY <1>1, <1>3
  <2> DEFINE g == [i \in 1..n |-> IF i = s THEN sep ELSE e[i]]
  <2>2. g \in [1..n -> Separator]
    BY <2>1
  <2> HIDE DEF g, n, f
  <2>3. g \in Seq(Separator) /\ Len(g) = n
    BY <1>1, <2>2, SeqDef, LenProperties
  <2>4. QED
    BY <1>7, <2>3 DEF g
<1>9. f[s] = sep /\ \A i \in 1..n : i # s => f[i] = e[i]
  BY <1>3, <1>7
<1>10. new \in InnerPage
  BY <1>1, <1>5, <1>8 DEF InnerPage
<1> HIDE DEF e, f, n
<1>11. f[s].key = m /\ f[s].child = c
  BY <1>3, <1>9
<1>12. Sorted(new.entries)
  <2> SUFFICES ASSUME NEW i \in 1..n, NEW j \in 1..n, i < j PROVE f[i].key < f[j].key
    BY <1>8 DEF Sorted, f
  <2>1. e[i].key < e[j].key /\ e[i].key \in Int /\ e[j].key \in Int /\ e[s].key \in Int
    BY <1>1, <1>3
  <2>2. CASE i = s
    <3>1. f[j] = e[j] /\ s # n /\ s + 1 \in 1..n
      BY <1>1, <1>3, <1>9, <2>2
    <3>2. m < e[s + 1].key /\ e[s + 1].key \in Int /\ (j = s + 1 \/ e[s + 1].key < e[j].key)
      BY <1>1, <1>4, <2>2, <3>1
    <3>3. QED
      BY <1>3, <1>11, <2>1, <2>2, <3>1, <3>2
  <2>3. CASE j = s
    <3>1. f[i] = e[i]
      BY <1>9, <2>3
    <3>2. QED
      BY <1>3, <1>4, <1>11, <2>1, <2>3, <3>1
  <2>4. CASE i # s /\ j # s
    BY <1>9, <2>1, <2>4
  <2>5. QED
    BY <2>2, <2>3, <2>4
<1>13. Slots(new) = Slots(page) /\ Len(new.entries) = Len(page.entries)
  BY <1>1, <1>8 DEF Slots, f, n, e
<1>14. Child(new, s) = c /\ \A t \in Slots(page) \ {s} : Child(new, t) = Child(page, t)
  <2>1. \A t \in 0..n : Child(new, t) = IF t = 0 THEN new.left ELSE f[t].child
    BY DEF Child, f
  <2>2. s \in 0..n /\ s # 0 /\ s \in 1..n
    BY <1>3
  <2>3. Child(new, s) = c
    BY <1>11, <2>1, <2>2
  <2>4. ASSUME NEW t \in Slots(page) \ {s} PROVE Child(new, t) = Child(page, t)
    <3>1. t \in 0..n /\ t # s
      BY <1>1
    <3>2. CASE t = 0
      BY <1>2, <1>5, <2>1, <3>1, <3>2
    <3>3. CASE t # 0
      <4>1. t \in 1..n /\ f[t] = e[t]
        BY <1>9, <3>1, <3>3
      <4>2. QED
        BY <1>2, <2>1, <3>1, <3>3, <4>1
    <3>4. QED
      BY <3>2, <3>3
  <2>5. QED
    BY <2>3, <2>4
<1>15. ASSUME NEW t \in Slots(page) \ {s}, NEW q \in KeysIn(d, G[t]) PROVE Between(new, t, q)
  <2>1. t \in 0..n /\ t # s /\ q \in Int /\ (t = 0 \/ e[t].key <= q) /\ (t = n \/ q < e[t + 1].key)
    BY <1>1, <1>2
  <2>2. t = 0 \/ f[t].key <= q
    BY <1>9, <2>1
  <2>3. ASSUME t # n PROVE q < f[t + 1].key
    <3>1. t + 1 \in 1..n /\ q < e[t + 1].key /\ e[t + 1].key \in Int
      BY <1>1, <2>1, <2>3
    <3>2. CASE t + 1 = s
      BY <1>3, <1>4, <1>11, <2>1, <3>1, <3>2
    <3>3. CASE t + 1 # s
      BY <1>9, <3>1, <3>3
    <3>4. QED
      BY <3>2, <3>3
  <2>4. QED
    BY <1>8, <2>2, <2>3 DEF Between, f
<1>16. ASSUME NEW q \in Int, Between(page, s, q), m <= q PROVE Between(new, s, q)
  <2>1. s = n \/ q < e[s + 1].key
    BY <1>16 DEF Between, e, n
  <2>2. ASSUME s # n PROVE q < f[s + 1].key
    <3>1. s + 1 \in 1..n /\ s + 1 # s
      BY <1>1, <1>3, <2>2
    <3>2. QED
      BY <1>9, <2>1, <2>2, <3>1
  <2>3. QED
    BY <1>8, <1>11, <1>16, <2>2 DEF Between, f
<1>17. KeysAt(new) \subseteq KeysAt(page) \cup {m}
  <2>1. KeysAt(new) = {f[i].key : i \in 1..n}
    BY <1>8, <1>10, InnerEntries DEF f
  <2>2. QED
    BY <1>1, <1>9, <1>11, <2>1
<1>18. QED
  BY <1>10, <1>12, <1>13, <1>14, <1>15, <1>16, <1>17 DEF Rekeyed

\* The child in front of the first separator has no key of its own.
LEMMA RelinkFirst ==
  ASSUME NEW d, NEW page, NEW G, Family(d, page, G), NEW c \in Nat, NEW m,
         NEW new, new = [page EXCEPT !.left = c]
  PROVE  Rekeyed(d, page, G, 0, c, m, new)
<1>1. page \in InnerPage /\ Sorted(page.entries)
  BY DEF Family
<1>2. new \in InnerPage /\ new.entries = page.entries /\ new.left = c
  BY <1>1 DEF InnerPage
<1>3. Slots(new) = Slots(page) /\ KeysAt(new) = KeysAt(page) /\ \A t : \A q : Between(new, t, q) <=> Between(page, t, q)
  BY <1>2 DEF Slots, KeysAt, Between
<1>4. Child(new, 0) = c /\ \A t \in Slots(page) \ {0} : Child(new, t) = Child(page, t)
  BY <1>2 DEF Child
<1>5. \A t \in Slots(page) : \A q \in KeysIn(d, G[t]) : Between(page, t, q)
  BY DEF Family
<1>6. QED
  BY <1>1, <1>2, <1>3, <1>4, <1>5 DEF Rekeyed

----------------------------------------------------------------------------
(* Searches. *)

\* The foot of a way is below every page of it.
LEMMA WayNested ==
  ASSUME NEW d, NEW S, NEW b, Forest(d, S, b), NEW k \in Int, NEW path, Way(d, S, k, path),
         NEW j \in 1..Len(path)
  PROVE  path[j] \in S /\ path[Len(path)] \in S /\ path[Len(path)] \in b[path[j]] /\ b[path[j]] \subseteq S
<1> DEFINE n == Len(path)
           T == {m \in 0..(n - 1) : path[n] \in b[path[n - m]]}
<1>1. path \in Seq(S) /\ n \in Nat \ {0} /\ n - 1 \in Nat
  BY DEF Way
<1>2. \A i \in 1..n : path[i] \in S
  BY <1>1, ElementOfSeq
<1> HIDE DEF n
<1>3. n \in 1..n
  BY <1>1
<1>4. 0 \in T
  <2>1. path[n] \in b[path[n]] /\ n - 0 = n
    BY <1>1, <1>2, <1>3 DEF Forest, Ordered
  <2>2. QED
    BY <1>1, <2>1
<1>5. ASSUME NEW m \in 1..(n - 1), m - 1 \in T PROVE m \in T
  <2>1. n - m \in 1..(n - 1) /\ n - (m - 1) = (n - m) + 1 /\ m \in 0..(n - 1)
    BY <1>1
  <2>2. Routes(d, S, b, k, path[n - m], path[(n - m) + 1])
    BY <2>1, WayStep DEF n
  <2>3. path[n] \in b[path[(n - m) + 1]]
    BY <1>5, <2>1
  <2>4. QED
    BY <2>1, <2>2, <2>3 DEF Routes
<1>6. 0..(n - 1) \subseteq T
  <2> HIDE DEF T
  <2>1. QED
    BY <1>1, <1>4, <1>5, IntervalInduction
<1>7. n - j \in T /\ n - (n - j) = j
  <2>1. j \in 1..n
    BY DEF n
  <2>2. n - j \in 0..(n - 1) /\ n - (n - j) = j
    BY <1>1, <2>1
  <2>3. QED
    BY <1>6, <2>2
<1>8. path[n] \in b[path[j]]
  BY <1>7
<1>9. b[path[j]] \subseteq S
  BY <1>2 DEF Forest, Ordered, n
<1>10. QED
  BY <1>2, <1>3, <1>8, <1>9 DEF n

\* The records of a key are in the leaf that the search for the key ends at.
LEMMA FootHolds ==
  ASSUME NEW d, NEW S, NEW b, Forest(d, S, b), NEW k \in Int, NEW path, Way(d, S, k, path),
         NEW e \in Held(d, b[path[1]]), e.key = k
  PROVE  e \in Held(d, b[path[Len(path)]])
<1> DEFINE n == Len(path)
           T == {m \in 0..(n - 1) : e \in Held(d, b[path[m + 1]])}
<1>1. n \in Nat \ {0} /\ n - 1 \in Nat
  BY DEF Way
<1> HIDE DEF n
<1>2. 0 \in T
  BY <1>1
<1>3. ASSUME NEW m \in 1..(n - 1), m - 1 \in T PROVE m \in T
  <2> DEFINE a == path[m]
             c == path[m + 1]
             s == Route(d[a], k)
  <2>1. m - 1 + 1 = m /\ m \in 0..(n - 1)
    BY <1>1
  <2>2. Routes(d, S, b, k, a, c)
    BY WayStep DEF n
  <2>3. e \in Held(d, b[a])
    BY <1>3, <2>1
  <2> HIDE DEF a, c
  <2>4. PICK q \in b[a] : e \in Records(d[q])
    BY <2>3 DEF Held
  <2>5. q # a
    <3>1. d[a] \in InnerPage
      BY <2>2 DEF Routes
    <3>2. Records(d[a]) = {}
      BY <3>1, RecordsOfPage
    <3>3. QED
      BY <2>4, <3>2
  <2>6. PICK t \in Slots(d[a]) : q \in b[Child(d[a], t)]
    <3>1. b[a] = {a} \cup UNION {b[Child(d[a], u)] : u \in Slots(d[a])}
      BY <2>2 DEF Routes, Parent
    <3>2. QED
      BY <2>4, <2>5, <3>1
  <2>7. b[Child(d[a], t)] \subseteq S /\ Nodes(d, S)
    <3>1. Child(d[a], t) \in S
      BY <2>2, <2>6 DEF Routes, Parent, ChildrenApart
    <3>2. QED
      BY <3>1 DEF Forest, Ordered
  <2>8. e.key \in KeysIn(d, b[Child(d[a], t)])
    <3>1. e \in Held(d, b[Child(d[a], t)])
      BY <2>4, <2>6 DEF Held
    <3>2. Nodes(d, b[Child(d[a], t)])
      BY <2>7 DEF Nodes
    <3>3. QED
      BY <3>1, <3>2, HeldKeys
  <2>9. s = t
    BY <2>2, <2>6, <2>8 DEF Routes, Parent, ChildrenRouted
  <2>10. c = Child(d[a], t)
    BY <2>2, <2>9 DEF Routes
  <2>11. e \in Held(d, b[c])
    BY <2>4, <2>6, <2>10 DEF Held
  <2>12. QED
    BY <2>1, <2>11 DEF c
<1>4. 0..(n - 1) \subseteq T
  <2> HIDE DEF T
  <2>1. QED
    BY <1>1, <1>2, <1>3, IntervalInduction
<1>5. n - 1 \in T /\ n - 1 + 1 = n
  BY <1>1, <1>4
<1>6. QED
  BY <1>5 DEF n

\* A lookup finds the record of the key in the tree, and no other.
Looked(d, P, p, k) ==
  /\ \A e \in Held(d, P) : e.key = k => Lookup(d, p, k) = e.value
  /\ (\A e \in Held(d, P) : e.key # k) => Lookup(d, p, k) = Missing
  /\ Lookup(d, p, k) \in Values \cup {Missing}
  /\ Lookup(d, p, k) \in Values => [key |-> k, value |-> Lookup(d, p, k)] \in Held(d, P)

\* btree_get finds the record of a key on the leaf that the key is routed to, if any leaf has one.
LEMMA LookupIs ==
  ASSUME NEW d, NEW P, NEW p, Tree(d, P, p), IsFiniteSet(DOMAIN d), NEW k \in Keys
  PROVE  Looked(d, P, p, k)
<1>1. PICK b : Forest(d, P, b) /\ p \in P /\ b[p] = P
  BY DEF Tree
<1> DEFINE path == Path(d, p, k)
           foot == path[Len(path)]
           page == d[foot]
<1>2. k \in Int
  BY KeysAreNumbers
<1>3. Way(d, P, k, path) /\ path[1] = p /\ Last(path) = foot /\ foot \in P /\ page \in LeafPage
  BY <1>1, <1>2, WayOf
<1> HIDE DEF path
<1>4. b[foot] = {foot} /\ IsNode(d, foot)
  BY <1>1, <1>3 DEF Forest, Linked, Nodes
<1>5. IsLeaf(d, foot) /\ Sorted(page.entries)
  BY <1>3, <1>4, InnerIs DEF IsNode
<1> DEFINE v == Lookup(d, p, k)
<1>6. v = IF InLeaf(page, k) THEN page.entries[LeafSlot(page, k)].value ELSE Missing
  BY <1>3, <1>5 DEF Lookup, path
<1> HIDE DEF foot
<1> DEFINE pos == LeafSlot(page, k)
           e == page.entries
<1> HIDE DEF v
<1>7. /\ pos \in 1..(Len(e) + 1)
      /\ InLeaf(page, k) <=> pos <= Len(e) /\ e[pos].key = k
  BY <1>3, <1>5, LeafSlotIs
<1>8. e \in Seq(LeafRecord) /\ Len(e) \in Nat /\ Records(page) = {e[i] : i \in 1..Len(e)}
  <2>1. e \in Seq(LeafRecord)
    BY <1>3 DEF LeafPage
  <2>2. QED
    BY <1>3, <2>1, RecordsOfPage, LenProperties
<1>9. \A i \in 1..Len(e) : e[i] \in LeafRecord
  BY <1>8, ElementOfSeq
<1>10. ASSUME NEW r \in Held(d, P), r.key = k PROVE v = r.value
  <2>1. r \in Held(d, b[foot])
    BY <1>1, <1>2, <1>3, <1>10, FootHolds DEF foot
  <2>2. r \in Records(page)
    BY <1>4, <2>1 DEF Held
  <2>3. PICK i \in 1..Len(e) : r = e[i]
    BY <1>8, <2>2
  <2>4. InLeaf(page, k)
    <3>1. DOMAIN page.entries = 1..Len(e)
      BY <1>8, LenProperties
    <3>2. QED
      BY <1>10, <2>3, <3>1 DEF InLeaf
  <2> HIDE DEF pos
  <2>5. pos = i
    <3>1. pos \in 1..Len(e) /\ e[pos].key = k
      BY <1>7, <1>8, <2>4
    <3>2. e[pos].key \in Nat /\ e[i].key \in Nat
      BY <1>9, <2>3, <3>1, LeafRecords, KeysAreNumbers
    <3>3. ~(pos < i) /\ ~(i < pos)
      BY <1>5, <1>10, <2>3, <3>1, <3>2 DEF Sorted
    <3>4. QED
      BY <3>1, <3>3
  <2>6. QED
    BY <1>6, <2>3, <2>4, <2>5 DEF pos
<1>11. ASSUME InLeaf(page, k) PROVE v \in Values /\ [key |-> k, value |-> v] \in Held(d, P)
  <2>1. pos \in 1..Len(e) /\ e[pos].key = k
    BY <1>7, <1>8, <1>11
  <2>2. v = e[pos].value
    BY <1>6, <1>11
  <2> HIDE DEF pos, e
  <2>3. e[pos] \in LeafRecord
    BY <1>9, <2>1
  <2>4. v \in Values /\ [key |-> k, value |-> v] = e[pos]
    BY <2>1, <2>2, <2>3, LeafRecords
  <2>5. e[pos] \in Held(d, P)
    BY <1>3, <1>8, <2>1 DEF Held
  <2>6. QED
    BY <2>4, <2>5
<1>12. (\A r \in Held(d, P) : r.key # k) => v = Missing
  BY <1>6, <1>11
<1>13. v \in Values \cup {Missing} /\ (v \in Values => [key |-> k, value |-> v] \in Held(d, P))
  BY <1>6, <1>11, BTreeAssumption DEF BTreeAssumption
<1>14. QED
  BY <1>10, <1>12, <1>13 DEF Looked, v

\* The smallest key of the pages P.
Least(d, P, m) == m \in KeysIn(d, P) /\ \A q \in KeysIn(d, P) : m <= q

\* Below a page, no key is smaller than those on the way of a key below all keys.
LEMMA LeastAbove ==
  ASSUME NEW d, NEW S, NEW b, Forest(d, S, b), NEW a, NEW c, Routes(d, S, b, -1, a, c),
         NEW m, Least(d, b[c], m)
  PROVE  Least(d, b[a], m)
<1> DEFINE s == Route(d[a], -1)
           page == d[a]
           n == Len(page.entries)
<1>1. /\ a \in S /\ c \in S /\ page \in InnerPage /\ Parent(d, S, b, a) /\ IsNode(d, a)
      /\ s \in Slots(page) /\ c = Child(page, s) /\ b[c] \subseteq b[a] /\ b[a] \subseteq S
  BY DEF Routes
<1>2. Sorted(page.entries) /\ n \in Nat /\ \A i \in 1..n : page.entries[i].key \in Nat
  BY <1>1, InnerEntries, KeysAreNumbers DEF IsNode
<1>3. s = 0
  <2>1. s = 0 \/ page.entries[s].key <= -1
    BY <1>1, <1>2, RouteIs DEF Between
  <2>2. s = 0 \/ s \in 1..n
    BY <1>1, <1>2 DEF Slots
  <2> HIDE DEF s
  <2>3. QED
    BY <1>2, <2>1, <2>2
<1>4. Nodes(d, S)
  BY DEF Forest
<1>5. m \in KeysIn(d, b[a]) /\ m \in KeysIn(d, b[c]) /\ m \in Int
  <2>1. m \in KeysIn(d, b[c]) /\ KeysIn(d, b[c]) \subseteq KeysIn(d, b[a])
    BY <1>1, KeysInSubset DEF Least
  <2>2. KeysIn(d, b[a]) \subseteq KeysIn(d, S)
    BY <1>1, KeysInSubset
  <2>3. QED
    BY <1>4, <2>1, <2>2, KeysOfNodes
<1>6. Route(page, m) = 0
  BY <1>1, <1>3, <1>5 DEF Parent, ChildrenRouted
<1> HIDE DEF s
<1>7. \A i \in 1..n : m < page.entries[i].key
  <2> SUFFICES ASSUME NEW i \in 1..n PROVE m < page.entries[i].key
    OBVIOUS
  <2>1. 0 \in Slots(page) /\ n # 0 /\ 1 \in 1..n
    BY <1>2 DEF Slots
  <2>2. m < page.entries[1].key
    <3>1. Between(page, 0, m)
      BY <1>1, <1>2, <1>5, <1>6, <2>1, RouteIs
    <3>2. QED
      BY <2>1, <3>1 DEF Between
  <2>3. i = 1 \/ page.entries[1].key < page.entries[i].key
    BY <1>2, <2>1 DEF Sorted
  <2>4. page.entries[1].key \in Int /\ page.entries[i].key \in Int
    BY <1>2, <2>1
  <2> HIDE DEF page
  <2>5. QED
    BY <1>5, <2>2, <2>3, <2>4
<1>8. ASSUME NEW q \in KeysIn(d, b[a]) PROVE m <= q
  <2>1. PICK u \in b[a] : q \in KeysAt(d[u])
    BY DEF KeysIn
  <2>2. CASE u = a
    <3>1. PICK i \in 1..n : q = page.entries[i].key
      BY <1>1, <2>1, <2>2, InnerEntries
    <3>2. m < q /\ q \in Int
      BY <1>2, <1>7, <3>1
    <3>3. QED
      BY <1>5, <3>2
  <2>3. CASE u # a
    <3>1. PICK t \in Slots(page) : u \in b[Child(page, t)]
      <4>1. b[a] = {a} \cup UNION {b[Child(page, t)] : t \in Slots(page)}
        BY <1>1 DEF Parent
      <4>2. QED
        BY <2>3, <4>1
    <3>2. q \in KeysIn(d, b[Child(page, t)])
      BY <2>1, <3>1 DEF KeysIn
    <3>3. CASE t = 0
      <4>1. c = Child(page, t)
        BY <1>1, <1>3, <3>3 DEF s
      <4>2. QED
        BY <3>2, <4>1 DEF Least
    <3>4. CASE t # 0
      <4>1. t \in 1..n
        BY <1>2, <3>4 DEF Slots
      <4>2. Route(page, q) = t
        BY <1>1, <3>2 DEF Parent, ChildrenRouted
      <4>3. q \in Int
        <5>1. KeysIn(d, b[a]) \subseteq KeysIn(d, S)
          BY <1>1, KeysInSubset
        <5>2. QED
          BY <1>4, <5>1, KeysOfNodes
      <4>4. page.entries[t].key <= q
        <5>1. Between(page, t, q)
          BY <1>1, <1>2, <4>2, <4>3, RouteIs
        <5>2. QED
          BY <3>4, <5>1 DEF Between
      <4>5. m < page.entries[t].key /\ page.entries[t].key \in Int
        BY <1>2, <1>7, <4>1
      <4> HIDE DEF page
      <4>6. QED
        BY <1>5, <4>3, <4>4, <4>5
    <3>5. QED
      BY <3>3, <3>4
  <2>4. QED
    BY <2>2, <2>3
<1>9. QED
  BY <1>5, <1>8 DEF Least

\* subtree_first_key finds the smallest key of a tree without empty pages.
LEMMA SubtreeMinIs ==
  ASSUME NEW d, NEW P, NEW p, Tree(d, P, p), Full(d, P), IsFiniteSet(DOMAIN d)
  PROVE  \E m \in Keys : SubtreeMin(d, p) = {m} /\ Only(SubtreeMin(d, p)) = m /\ Least(d, P, m)
<1>1. PICK b : Forest(d, P, b) /\ p \in P /\ b[p] = P
  BY DEF Tree
<1> DEFINE path == Path(d, p, -1)
           n == Len(path)
           foot == path[n]
           e == d[foot].entries
<1>2. Way(d, P, -1, path) /\ path[1] = p /\ Last(path) = foot /\ foot \in P /\ d[foot] \in LeafPage
  BY <1>1, WayOf
<1>3. b[foot] = {foot} /\ IsNode(d, foot) /\ d[foot].entries # <<>>
  BY <1>1, <1>2 DEF Forest, Linked, Nodes, Full
<1>4. IsLeaf(d, foot)
  BY <1>2, <1>3, InnerIs
<1>5. SubtreeMin(d, p) = {e[i].key : i \in DOMAIN e \cap {1}}
  BY <1>2, <1>4 DEF SubtreeMin
<1> HIDE DEF path
<1>6. e \in Seq(LeafRecord) /\ Len(e) \in Nat \ {0} /\ DOMAIN e = 1..Len(e) /\ 1 \in 1..Len(e)
  <2>1. e \in Seq(LeafRecord)
    BY <1>2 DEF LeafPage
  <2>2. Len(e) \in Nat /\ Len(e) # 0 /\ DOMAIN e = 1..Len(e)
    BY <1>3, <2>1, EmptySeq, LenProperties
  <2>3. QED
    BY <2>1, <2>2
<1>7. \A i \in 1..Len(e) : e[i].key \in Keys /\ e[i].key \in Nat
  <2>1. \A i \in 1..Len(e) : e[i] \in LeafRecord
    BY <1>6, ElementOfSeq
  <2>2. QED
    BY <2>1, LeafRecords, KeysAreNumbers
<1> DEFINE m == e[1].key
<1>8. Least(d, b[foot], m)
  <2>1. KeysIn(d, b[foot]) = KeysAt(d[foot])
    BY <1>3 DEF KeysIn
  <2>2. KeysAt(d[foot]) = {e[i].key : i \in 1..Len(e)}
    BY <1>6 DEF KeysAt
  <2>3. \A i \in 1..Len(e) : m <= e[i].key
    <3> SUFFICES ASSUME NEW i \in 1..Len(e) PROVE m <= e[i].key
      OBVIOUS
    <3>1. Sorted(e)
      BY <1>3 DEF IsNode
    <3>2. i = 1 \/ e[1].key < e[i].key
      BY <1>6, <3>1 DEF Sorted
    <3> HIDE DEF e
    <3>3. e[1].key \in Nat /\ e[i].key \in Nat
      BY <1>6, <1>7
    <3>4. QED
      BY <3>2, <3>3
  <2>4. QED
    BY <1>6, <2>1, <2>2, <2>3 DEF Least
<1> DEFINE T == {j \in 0..(n - 1) : Least(d, b[path[n - j]], m)}
<1>9. n \in Nat \ {0} /\ n - 1 \in Nat
  BY <1>2 DEF Way
<1> HIDE DEF n, m
<1>10. 0 \in T
  <2>1. n - 0 = n
    BY <1>9
  <2>2. QED
    BY <1>8, <1>9, <2>1
<1>11. ASSUME NEW j \in 1..(n - 1), j - 1 \in T PROVE j \in T
  <2>1. n - j \in 1..(n - 1) /\ n - (j - 1) = (n - j) + 1 /\ j \in 0..(n - 1)
    BY <1>9
  <2>2. Routes(d, P, b, -1, path[n - j], path[(n - j) + 1])
    BY <1>1, <1>2, <2>1, WayStep DEF n
  <2>3. Least(d, b[path[(n - j) + 1]], m)
    BY <1>11, <2>1
  <2>4. QED
    BY <1>1, <2>1, <2>2, <2>3, LeastAbove
<1>12. 0..(n - 1) \subseteq T
  <2> HIDE DEF T
  <2>1. QED
    BY <1>9, <1>10, <1>11, IntervalInduction
<1>13. n - 1 \in T /\ n - (n - 1) = 1
  BY <1>9, <1>12
<1>14. Least(d, P, m)
  BY <1>1, <1>2, <1>13
<1>15. SubtreeMin(d, p) = {m}
  BY <1>5, <1>6 DEF m
<1>16. QED
  BY <1>6, <1>7, <1>14, <1>15 DEF Only, m

----------------------------------------------------------------------------
(* Records come and go. *)

LeafOf(page, e, n) ==
  /\ page = Leaf(e) /\ page \in LeafPage /\ page.entries = e
  /\ n \in Nat /\ Len(e) = n /\ DOMAIN e = 1..n
  /\ \A i \in 1..n : e[i] \in LeafRecord /\ e[i].key \in Keys /\ e[i].key \in Int
  /\ KeysAt(page) = {e[i].key : i \in 1..n}
  /\ Records(page) = {e[i] : i \in 1..n}

\* A leaf made of records.
LEMMA MadeLeaf ==
  ASSUME NEW e \in Seq(LeafRecord)
  PROVE  LeafOf(Leaf(e), e, Len(e))
<1> DEFINE page == Leaf(e)
<1>1. page \in LeafPage /\ page.entries = e /\ page.type = "leaf"
  BY DEF LeafPage, Leaf, Page
<1>2. Len(e) \in Nat /\ DOMAIN e = 1..Len(e)
  BY LenProperties
<1>3. \A i \in 1..Len(e) : e[i] \in LeafRecord /\ e[i].key \in Keys /\ e[i].key \in Int
  BY ElementOfSeq, LeafRecords, KeysAreNumbers
<1>4. KeysAt(page) = {e[i].key : i \in 1..Len(e)} /\ Records(page) = {e[i] : i \in 1..Len(e)}
  BY <1>1, <1>2 DEF KeysAt, Records
<1> HIDE DEF page
<1>5. QED
  BY <1>1, <1>2, <1>3, <1>4 DEF LeafOf, page

\* What a leaf is made of.
LEMMA LeafIs ==
  ASSUME NEW page \in LeafPage
  PROVE  page.entries \in Seq(LeafRecord) /\ LeafOf(page, page.entries, Len(page.entries))
<1>1. page.entries \in Seq(LeafRecord) /\ page = Leaf(page.entries)
  BY DEF LeafPage, Leaf, Page
<1>2. QED
  BY <1>1, MadeLeaf

\* The records after a put.
Upsert(H, k, v) == {e \in H : e.key # k} \cup {[key |-> k, value |-> v]}

\* new has the records of page and the one of k.
Grew(page, new, k, v) ==
  /\ new \in LeafPage /\ Sorted(new.entries) /\ new.entries # <<>>
  /\ KeysAt(new) \subseteq KeysAt(page) \cup {k}
  /\ Records(new) = Upsert(Records(page), k, v)

\* leaf_insert of a key that is there replaces its record.
LEMMA LeafReplace ==
  ASSUME NEW page \in LeafPage, Sorted(page.entries), NEW k \in Keys, NEW v, <<k, v>> \in Entries,
         InLeaf(page, k),
         NEW all, all = ReplaceAt(page.entries, LeafSlot(page, k), [key |-> k, value |-> v])
  PROVE  Grew(page, Leaf(all), k, v) /\ Len(all) = Len(page.entries)
<1> DEFINE e == page.entries
           n == Len(e)
           p == LeafSlot(page, k)
           r == [key |-> k, value |-> v]
<1>1. e \in Seq(LeafRecord) /\ LeafOf(page, e, n)
  BY LeafIs
<1>2. p \in 1..n /\ e[p].key = k
  <2>1. n \in Nat
    BY <1>1 DEF LeafOf
  <2>2. p \in 1..(n + 1) /\ p <= n /\ e[p].key = k
    BY LeafSlotIs
  <2> HIDE DEF p, n
  <2>3. QED
    BY <2>1, <2>2
<1>3. r \in LeafRecord /\ r.key = k
  BY LeafRecords
<1>4. all = [e EXCEPT ![p] = r]
  BY DEF ReplaceAt
<1> HIDE DEF p, r, e, n
<1>5. n \in Nat /\ DOMAIN e = 1..n /\ \A i \in 1..n : e[i] \in LeafRecord /\ e[i].key \in Int
  BY <1>1 DEF LeafOf
<1>6. all \in Seq(LeafRecord) /\ Len(all) = n /\ \A i \in 1..n : all[i] = IF i = p THEN r ELSE e[i]
  BY <1>1, <1>3, <1>4, <1>5, ExceptSeq DEF n
<1>7. LeafOf(Leaf(all), all, n)
  BY <1>6, MadeLeaf
<1>8. \A i \in 1..n : all[i].key = e[i].key
  BY <1>2, <1>3, <1>6
<1>9. Sorted(all)
  BY <1>6, <1>8 DEF Sorted, n, e
<1>10. all # <<>>
  <2>1. n # 0
    BY <1>2, <1>5
  <2>2. QED
    BY <1>6, <2>1
<1>11. KeysAt(Leaf(all)) \subseteq KeysAt(page) \cup {k}
  BY <1>1, <1>7, <1>8 DEF LeafOf
<1>12. \A i \in 1..n : e[i].key = k <=> i = p
  <2> SUFFICES ASSUME NEW i \in 1..n, e[i].key = k PROVE i = p
    BY <1>2
  <2>1. ~(i < p) /\ ~(p < i)
    BY <1>2, <1>5 DEF Sorted, e, n
  <2>2. QED
    BY <1>2, <2>1
<1>13. Records(Leaf(all)) = Upsert(Records(page), k, v)
  <2>1. Records(Leaf(all)) = {all[i] : i \in 1..n} /\ Records(page) = {e[i] : i \in 1..n}
    BY <1>1, <1>7 DEF LeafOf
  <2>2. ASSUME NEW i \in 1..n PROVE all[i] \in Upsert(Records(page), k, v)
    <3>1. CASE i = p
      BY <1>6, <3>1 DEF Upsert, r
    <3>2. CASE i # p
      BY <1>6, <1>12, <2>1, <3>2 DEF Upsert
    <3>3. QED
      BY <3>1, <3>2
  <2>3. ASSUME NEW i \in 1..n, e[i].key # k PROVE e[i] \in Records(Leaf(all))
    <3>1. all[i] = e[i]
      BY <1>6, <1>12, <2>3
    <3>2. QED
      BY <2>1, <3>1
  <2>4. r \in Records(Leaf(all))
    BY <1>2, <1>6, <2>1
  <2>5. QED
    BY <2>1, <2>2, <2>3, <2>4 DEF Upsert, r
<1>14. Leaf(all) \in LeafPage /\ Leaf(all).entries = all
  BY <1>7 DEF LeafOf
<1>15. QED
  BY <1>6, <1>9, <1>10, <1>11, <1>13, <1>14 DEF Grew, n, e

\* leaf_insert of a new key puts its record where the order wants it.
LEMMA LeafInsertAt ==
  ASSUME NEW page \in LeafPage, Sorted(page.entries), NEW k \in Keys, NEW v, <<k, v>> \in Entries,
         ~InLeaf(page, k),
         NEW all, all = InsertAt(page.entries, LeafSlot(page, k), [key |-> k, value |-> v])
  PROVE  /\ Grew(page, Leaf(all), k, v) /\ all \in Seq(LeafRecord) /\ Len(all) = Len(page.entries) + 1
         /\ \A e \in Records(page) : e.key # k
<1> DEFINE e == page.entries
           n == Len(e)
           p == LeafSlot(page, k)
           r == [key |-> k, value |-> v]
<1>1. e \in Seq(LeafRecord) /\ LeafOf(page, e, n)
  BY LeafIs
<1>2. p \in 1..(n + 1) /\ (\A i \in 1..n : e[i].key < k <=> i < p) /\ (\A i \in 1..n : k < e[i].key <=> p <= i)
  BY LeafSlotIs
<1>3. r \in LeafRecord /\ r.key = k /\ k \in Int
  BY LeafRecords, KeysAreNumbers
<1>4. all = InsertAt(e, p, r)
  OBVIOUS
<1> HIDE DEF p, r, e, n
<1>5. n \in Nat /\ DOMAIN e = 1..n /\ \A i \in 1..n : e[i] \in LeafRecord /\ e[i].key \in Int
  BY <1>1 DEF LeafOf
<1>6. Inserted(LeafRecord, e, p, r, all)
  BY <1>1, <1>2, <1>3, <1>4, InsertAtIs DEF n
<1>7. /\ all \in Seq(LeafRecord) /\ Len(all) = n + 1 /\ all[p] = r
      /\ \A j \in 1..(p - 1) : all[j] = e[j]
      /\ \A j \in (p + 1)..(n + 1) : all[j] = e[j - 1]
  BY <1>6 DEF Inserted, n
<1>8. LeafOf(Leaf(all), all, n + 1)
  BY <1>7, MadeLeaf
<1>9. \A i \in 1..n : e[i].key # k
  <2> SUFFICES ASSUME NEW i \in 1..n, e[i].key = k PROVE FALSE
    OBVIOUS
  <2>1. ~(i < p) /\ ~(p <= i) /\ i \in Int /\ p \in Int
    BY <1>2, <1>3
  <2>2. QED
    BY <2>1
<1>10. \A j \in 1..(n + 1) : \/ j \in 1..(p - 1) /\ j \in 1..n /\ all[j] = e[j] /\ e[j].key < k
                             \/ j = p /\ all[j] = r
                             \/ j \in (p + 1)..(n + 1) /\ j - 1 \in 1..n /\ all[j] = e[j - 1] /\ k < e[j - 1].key
  <2> SUFFICES ASSUME NEW j \in 1..(n + 1), j # p
               PROVE  \/ j \in 1..(p - 1) /\ j \in 1..n /\ all[j] = e[j] /\ e[j].key < k
                      \/ j \in (p + 1)..(n + 1) /\ j - 1 \in 1..n /\ all[j] = e[j - 1] /\ k < e[j - 1].key
    BY <1>7
  <2>1. CASE j < p
    <3>1. j \in 1..(p - 1) /\ j \in 1..n
      BY <1>2, <1>5, <2>1
    <3>2. QED
      BY <1>2, <1>7, <2>1, <3>1
  <2>2. CASE p < j
    <3>1. j \in (p + 1)..(n + 1) /\ j - 1 \in 1..n /\ p <= j - 1
      BY <1>2, <1>5, <2>2
    <3>2. QED
      BY <1>2, <1>7, <2>2, <3>1
  <2>3. QED
    BY <1>2, <1>5, <2>1, <2>2
<1>11. \A i \in 1..n : \E j \in 1..(n + 1) : all[j] = e[i]
  <2> SUFFICES ASSUME NEW i \in 1..n PROVE \E j \in 1..(n + 1) : all[j] = e[i]
    OBVIOUS
  <2>1. CASE i < p
    <3>1. i \in 1..(p - 1) /\ i \in 1..(n + 1)
      BY <1>2, <1>5, <2>1
    <3>2. QED
      BY <1>7, <3>1
  <2>2. CASE ~(i < p)
    <3>1. i + 1 \in (p + 1)..(n + 1) /\ i + 1 \in 1..(n + 1) /\ (i + 1) - 1 = i
      BY <1>2, <1>5, <2>2
    <3>2. QED
      BY <1>7, <3>1
  <2>3. QED
    BY <2>1, <2>2
<1>12. Sorted(all)
  <2> SUFFICES ASSUME NEW i \in 1..(n + 1), NEW j \in 1..(n + 1), i < j PROVE all[i].key < all[j].key
    BY <1>7 DEF Sorted
  <2>1. \A a, c \in 1..n : a < c => e[a].key < e[c].key
    BY DEF Sorted, e, n
  <2>2. CASE j < p
    <3>1. all[i] = e[i] /\ all[j] = e[j] /\ i \in 1..n /\ j \in 1..n
      BY <1>2, <1>10, <2>2
    <3>2. QED
      BY <2>1, <3>1
  <2>3. CASE j = p
    <3>1. all[i] = e[i] /\ e[i].key < k /\ all[j] = r
      BY <1>2, <1>10, <2>3
    <3>2. QED
      BY <1>3, <3>1
  <2>4. CASE p < j
    <3>1. all[j] = e[j - 1] /\ j - 1 \in 1..n /\ k < e[j - 1].key
      BY <1>2, <1>10, <2>4
    <3>2. CASE i < p
      <4>1. all[i] = e[i] /\ i \in 1..n /\ e[i].key < k
        BY <1>2, <1>10, <3>2
      <4>2. e[i].key \in Int /\ e[j - 1].key \in Int
        BY <1>5, <3>1, <4>1
      <4>3. QED
        BY <1>3, <3>1, <4>1, <4>2
    <3>3. CASE i = p
      BY <1>3, <1>7, <3>1, <3>3
    <3>4. CASE p < i
      <4>1. all[i] = e[i - 1] /\ i - 1 \in 1..n
        BY <1>2, <1>10, <3>4
      <4>2. i - 1 < j - 1
        OBVIOUS
      <4>3. QED
        BY <2>1, <3>1, <4>1, <4>2
    <3>5. QED
      BY <1>2, <3>2, <3>3, <3>4
  <2>5. QED
    BY <1>2, <2>2, <2>3, <2>4
<1>13. all # <<>>
  BY <1>5, <1>7
<1>14. /\ Records(Leaf(all)) = {all[i] : i \in 1..(n + 1)} /\ Records(page) = {e[i] : i \in 1..n}
       /\ KeysAt(Leaf(all)) = {all[i].key : i \in 1..(n + 1)} /\ KeysAt(page) = {e[i].key : i \in 1..n}
       /\ Leaf(all) \in LeafPage /\ Leaf(all).entries = all
  BY <1>1, <1>8 DEF LeafOf
<1>15. KeysAt(Leaf(all)) \subseteq KeysAt(page) \cup {k}
  <2>1. \A j \in 1..(n + 1) : all[j].key = k \/ \E i \in 1..n : all[j].key = e[i].key
    BY <1>3, <1>10
  <2>2. QED
    BY <1>14, <2>1
<1>16. Records(Leaf(all)) = Upsert(Records(page), k, v)
  <2>1. \A j \in 1..(n + 1) : all[j] = r \/ \E i \in 1..n : all[j] = e[i]
    BY <1>10
  <2>2. r \in Records(Leaf(all))
    BY <1>2, <1>7, <1>14
  <2>3. \A x \in Records(page) : x.key # k /\ x \in Records(Leaf(all))
    BY <1>9, <1>11, <1>14
  <2>4. QED
    BY <1>14, <2>1, <2>2, <2>3 DEF Upsert, r
<1>17. QED
  BY <1>7, <1>9, <1>12, <1>13, <1>14, <1>15, <1>16 DEF Grew, n, e

\* The two halves of a leaf that is split, and the key between them.
LeafHalves(page, left, right, key) ==
  /\ left \in LeafPage /\ right \in LeafPage /\ Sorted(left.entries) /\ Sorted(right.entries)
  /\ left.entries # <<>> /\ right.entries # <<>>
  /\ key \in Keys /\ key \in KeysAt(page)
  /\ Records(left) \cup Records(right) = Records(page)
  /\ KeysAt(left) \subseteq KeysAt(page) /\ KeysAt(right) \subseteq KeysAt(page)
  /\ \A q \in KeysAt(left) : q < key
  /\ \A q \in KeysAt(right) : key <= q

\* A leaf cut after so many records.
HalvesAt(e, mid) ==
  LET l == SubSeq(e, 1, mid)
      r == SubSeq(e, mid + 1, Len(e))
  IN LeafHalves(Leaf(e), Leaf(l), Leaf(r), e[mid + 1].key) /\ Len(l) = mid /\ Len(r) = Len(e) - mid

\* split_leaf: two leaves with the records between them, all keys of the left one smaller.
LEMMA LeafSplit ==
  ASSUME NEW e \in Seq(LeafRecord), Sorted(e), NEW mid \in 1..(Len(e) - 1)
  PROVE  HalvesAt(e, mid)
<1> DEFINE n == Len(e)
           l == SubSeq(e, 1, mid)
           r == SubSeq(e, mid + 1, n)
           key == e[mid + 1].key
<1>0. mid \in 1..(n - 1) /\ n = Len(e) /\ l = SubSeq(e, 1, mid) /\ r = SubSeq(e, mid + 1, n) /\ key = e[mid + 1].key
  OBVIOUS
<1> HIDE DEF n, l, r, key
<1> USE <1>0
<1>1. LeafOf(Leaf(e), e, n)
  BY MadeLeaf
<1>2. /\ n \in Nat /\ DOMAIN e = 1..n /\ \A i \in 1..n : e[i] \in LeafRecord /\ e[i].key \in Int /\ e[i].key \in Keys
      /\ KeysAt(Leaf(e)) = {e[i].key : i \in 1..n} /\ Records(Leaf(e)) = {e[i] : i \in 1..n}
  BY <1>1 DEF LeafOf
<1>3. \A i, j \in 1..n : i < j => e[i].key < e[j].key
  BY DEF Sorted
<1>4. mid \in Nat \ {0} /\ mid < n /\ mid + 1 \in 1..n /\ mid \in 1..n
  BY <1>2
<1>5. StretchOf(LeafRecord, e, 1, mid, l) /\ StretchOf(LeafRecord, e, mid + 1, n, r)
  <2>1. 1 \in 1..(Len(e) + 1) /\ mid \in (1 - 1)..Len(e) /\ mid + 1 \in 1..(Len(e) + 1) /\ n \in ((mid + 1) - 1)..Len(e)
    BY <1>2, <1>4
  <2>2. QED
    BY <2>1, Stretch
<1>6. /\ l \in Seq(LeafRecord) /\ Len(l) = mid /\ \A i \in 1..mid : l[i] = e[i]
      /\ r \in Seq(LeafRecord) /\ Len(r) = n - mid /\ \A i \in 1..(n - mid) : r[i] = e[mid + i]
  <2>1. /\ mid - 1 + 1 = mid /\ n - (mid + 1) + 1 = n - mid
        /\ \A i \in 1..(n - mid) : mid + 1 + i - 1 = mid + i
    <3>1. mid \in Int /\ n \in Int
      BY <1>2, <1>4
    <3>2. mid - 1 + 1 = mid /\ n - (mid + 1) + 1 = n - mid
      BY <3>1
    <3>3. \A i \in Int : mid + 1 + i - 1 = mid + i
      BY <3>1
    <3>4. QED
      BY <3>2, <3>3
  <2>2. \A i \in 1..mid : 1 + i - 1 = i
    OBVIOUS
  <2>3. /\ l \in Seq(LeafRecord) /\ Len(l) = mid - 1 + 1 /\ \A j \in 1..(mid - 1 + 1) : l[j] = e[1 + j - 1]
        /\ r \in Seq(LeafRecord) /\ Len(r) = n - (mid + 1) + 1
        /\ \A j \in 1..(n - (mid + 1) + 1) : r[j] = e[mid + 1 + j - 1]
    BY <1>5 DEF StretchOf
  <2>4. QED
    BY <2>1, <2>2, <2>3
<1> DEFINE f == n - mid
           at(i) == mid + i
<1>7. f \in Nat \ {0} /\ \A i \in 1..f : at(i) \in 1..n /\ mid < at(i) /\ at(i) \in Nat
  BY <1>2, <1>4
<1>8. \A i, j \in 1..f : i < j => at(i) < at(j)
  BY <1>2, <1>4
<1>9. \A i \in 1..n : i \in 1..mid \/ \E j \in 1..f : at(j) = i
  <2> SUFFICES ASSUME NEW i \in 1..n, i \notin 1..mid PROVE \E j \in 1..f : at(j) = i
    OBVIOUS
  <2>1. i - mid \in 1..f /\ at(i - mid) = i
    BY <1>2, <1>4
  <2>2. QED
    BY <2>1
<1>10. \A i \in 1..f : i = 1 \/ mid + 1 < at(i)
  BY <1>2, <1>4
<1>11. at(1) = mid + 1 /\ 1 \in 1..f /\ 1 \in 1..mid /\ \A i \in 1..mid : i \in 1..n /\ i < mid + 1
  BY <1>2, <1>4, <1>7
<1>12. Len(r) = f /\ \A i \in 1..f : r[i] = e[at(i)]
  BY <1>6
<1> HIDE DEF at, f
<1>13. LeafOf(Leaf(l), l, mid) /\ LeafOf(Leaf(r), r, f)
  BY <1>6, <1>12, MadeLeaf
<1>14. /\ KeysAt(Leaf(l)) = {l[i].key : i \in 1..mid} /\ Records(Leaf(l)) = {l[i] : i \in 1..mid}
       /\ KeysAt(Leaf(r)) = {r[i].key : i \in 1..f} /\ Records(Leaf(r)) = {r[i] : i \in 1..f}
       /\ Leaf(l) \in LeafPage /\ Leaf(r) \in LeafPage /\ Leaf(l).entries = l /\ Leaf(r).entries = r
  BY <1>13 DEF LeafOf
<1>15. Sorted(l) /\ Sorted(r)
  <2>1. Sorted(l)
    BY <1>3, <1>6, <1>11 DEF Sorted
  <2>2. Sorted(r)
    <3>1. ASSUME NEW i \in 1..f, NEW j \in 1..f, i < j PROVE r[i].key < r[j].key
      <4>1. at(i) \in 1..n /\ at(j) \in 1..n /\ at(i) < at(j)
        BY <1>7, <1>8, <3>1
      <4>2. e[at(i)].key < e[at(j)].key
        BY <1>3, <4>1
      <4>3. QED
        BY <1>12, <4>2
    <3>2. QED
      BY <1>12, <3>1 DEF Sorted
  <2>3. QED
    BY <2>1, <2>2
<1>16. l # <<>> /\ r # <<>>
  BY <1>4, <1>6, <1>7, <1>12
<1>17. Records(Leaf(l)) \cup Records(Leaf(r)) = Records(Leaf(e))
  <2>1. \A i \in 1..mid : l[i] \in Records(Leaf(e)) /\ e[i] \in Records(Leaf(l))
    BY <1>2, <1>6, <1>11, <1>14
  <2>2. \A i \in 1..f : r[i] \in Records(Leaf(e)) /\ e[at(i)] \in Records(Leaf(r))
    BY <1>2, <1>7, <1>12, <1>14
  <2>3. \A i \in 1..n : e[i] \in Records(Leaf(l)) \cup Records(Leaf(r))
    BY <1>9, <2>1, <2>2
  <2>4. ASSUME NEW x, x \in Records(Leaf(l)) \/ x \in Records(Leaf(r)) PROVE x \in Records(Leaf(e))
    BY <1>14, <2>1, <2>2, <2>4
  <2>5. ASSUME NEW x, x \in Records(Leaf(e)) PROVE x \in Records(Leaf(l)) \cup Records(Leaf(r))
    BY <1>2, <2>3, <2>5
  <2>6. QED
    BY <2>4, <2>5
<1>18. KeysAt(Leaf(l)) \subseteq KeysAt(Leaf(e)) /\ \A q \in KeysAt(Leaf(l)) : q < key
  <2>1. \A i \in 1..mid : l[i].key \in KeysAt(Leaf(e)) /\ l[i].key < key
    BY <1>2, <1>3, <1>4, <1>6, <1>11
  <2>2. QED
    BY <1>14, <2>1
<1>19. KeysAt(Leaf(r)) \subseteq KeysAt(Leaf(e)) /\ \A q \in KeysAt(Leaf(r)) : key <= q
  <2>1. \A i \in 1..f : r[i].key \in KeysAt(Leaf(e)) /\ r[i].key \in Int
    BY <1>2, <1>7, <1>12
  <2>2. ASSUME NEW i \in 1..f PROVE key <= r[i].key
    <3>1. r[i] = e[at(i)] /\ at(i) \in 1..n /\ key \in Int
      BY <1>2, <1>4, <1>7, <1>12
    <3>2. i = 1 \/ key < e[at(i)].key
      BY <1>3, <1>4, <1>10, <3>1
    <3>3. i = 1 => e[at(i)].key = key
      BY <1>11
    <3>4. e[at(i)].key \in Int
      BY <1>2, <3>1
    <3> DEFINE q == e[at(i)].key
    <3> HIDE DEF q
    <3>5. key <= q
      BY <3>1, <3>2, <3>3, <3>4 DEF q
    <3>6. QED
      BY <3>1, <3>5 DEF q
  <2>3. QED
    BY <1>14, <2>1, <2>2
<1>20. key \in Keys /\ key \in KeysAt(Leaf(e))
  BY <1>2, <1>4
<1>21. LeafHalves(Leaf(e), Leaf(l), Leaf(r), key)
  BY <1>14, <1>15, <1>16, <1>17, <1>18, <1>19, <1>20 DEF LeafHalves
<1>22. QED
  BY <1>6, <1>21 DEF HalvesAt, n, l, r, key

\* new has the records of page but the one of k; m is its smallest key, if that has changed.
Shrank(page, new, k, m) ==
  /\ new \in LeafPage /\ Sorted(new.entries)
  /\ KeysAt(new) \subseteq KeysAt(page)
  /\ Records(new) = {e \in Records(page) : e.key # k}
  /\ m = {} \/ \E q \in Keys : m = {q} /\ q \in KeysAt(new) /\ \A u \in KeysAt(new) : q <= u

\* leaf_delete removes the record; if it was the first, the next one is the new smallest.
LEMMA LeafRemove ==
  ASSUME NEW page \in LeafPage, Sorted(page.entries), NEW k \in Keys, InLeaf(page, k),
         NEW p, p = LeafSlot(page, k), NEW rest, rest = RemoveAt(page.entries, p)
  PROVE  /\ p \in 1..Len(page.entries)
         /\ Shrank(page, Leaf(rest), k, IF p = 1 /\ rest # <<>> THEN {rest[1].key} ELSE {})
<1> DEFINE e == page.entries
           n == Len(e)
<1>1. e \in Seq(LeafRecord) /\ LeafOf(page, e, n)
  BY LeafIs
<1>2. p \in 1..n /\ e[p].key = k
  <2>1. n \in Nat
    BY <1>1 DEF LeafOf
  <2>2. p \in 1..(n + 1) /\ p <= n /\ e[p].key = k
    BY LeafSlotIs
  <2> HIDE DEF n
  <2>3. QED
    BY <2>1, <2>2
<1>3. LeftOut(LeafRecord, e, p, rest)
  BY <1>1, <1>2, RemoveAtIs
<1> HIDE DEF e, n
<1>4. /\ n \in Nat /\ \A i \in 1..n : e[i] \in LeafRecord /\ e[i].key \in Int
      /\ KeysAt(page) = {e[i].key : i \in 1..n} /\ Records(page) = {e[i] : i \in 1..n}
  BY <1>1 DEF LeafOf
<1> DEFINE f == n - 1
           old(i) == IF i < p THEN i ELSE i + 1
<1>5. /\ f \in Nat /\ rest \in Seq(LeafRecord) /\ Len(rest) = f
      /\ \A j \in 1..f : old(j) \in 1..n /\ old(j) # p /\ rest[j] = e[old(j)]
      /\ \A i, j \in 1..f : i < j => old(i) < old(j)
  <2>1. /\ rest \in Seq(LeafRecord) /\ Len(rest) = f
        /\ \A j \in 1..(p - 1) : rest[j] = e[j]
        /\ \A j \in p..f : rest[j] = e[j + 1]
    BY <1>3 DEF LeftOut, n
  <2>2. f \in Nat /\ \A j \in 1..f : /\ old(j) \in 1..n /\ old(j) # p
                                     /\ j < p => j \in 1..(p - 1)
                                     /\ ~(j < p) => j \in p..f
    BY <1>2, <1>4
  <2>3. \A j \in 1..f : rest[j] = e[old(j)]
    BY <2>1, <2>2
  <2>4. \A i, j \in 1..f : i < j => old(i) < old(j)
    BY <1>2, <1>4
  <2>5. QED
    BY <2>1, <2>2, <2>3, <2>4
<1>6. \A i \in 1..n : i = p \/ \E j \in 1..f : old(j) = i
  <2> SUFFICES ASSUME NEW i \in 1..n, i # p PROVE \E j \in 1..f : old(j) = i
    OBVIOUS
  <2>1. CASE i < p
    <3>1. i \in 1..f /\ old(i) = i
      BY <1>2, <1>4, <2>1
    <3>2. QED
      BY <3>1
  <2>2. CASE ~(i < p)
    <3>1. i - 1 \in 1..f /\ old(i - 1) = i
      BY <1>2, <1>4, <2>2
    <3>2. QED
      BY <3>1
  <2>3. QED
    BY <2>1, <2>2
<1> HIDE DEF old, f
<1>7. LeafOf(Leaf(rest), rest, f)
  BY <1>5, MadeLeaf
<1>8. /\ KeysAt(Leaf(rest)) = {rest[i].key : i \in 1..f} /\ Records(Leaf(rest)) = {rest[i] : i \in 1..f}
      /\ Leaf(rest) \in LeafPage /\ Leaf(rest).entries = rest
      /\ \A i \in 1..f : rest[i].key \in Int /\ rest[i].key \in Keys
  BY <1>7 DEF LeafOf
<1>9. \A i, j \in 1..n : i < j => e[i].key < e[j].key
  BY DEF Sorted, n, e
<1>10. Sorted(rest)
  BY <1>5, <1>9 DEF Sorted
<1>11. \A i \in 1..n : e[i].key = k => i = p
  <2> SUFFICES ASSUME NEW i \in 1..n, e[i].key = k PROVE i = p
    OBVIOUS
  <2>1. ~(i < p) /\ ~(p < i)
    BY <1>2, <1>4, <1>9
  <2>2. QED
    BY <1>2, <2>1
<1>12. KeysAt(Leaf(rest)) \subseteq KeysAt(page)
  BY <1>4, <1>5, <1>8
<1>13. Records(Leaf(rest)) = {x \in Records(page) : x.key # k}
  <2>1. \A j \in 1..f : rest[j] \in Records(page) /\ rest[j].key # k
    BY <1>4, <1>5, <1>11
  <2>2. \A i \in 1..n : e[i].key # k => e[i] \in Records(Leaf(rest))
    <3> SUFFICES ASSUME NEW i \in 1..n, e[i].key # k PROVE e[i] \in Records(Leaf(rest))
      OBVIOUS
    <3>1. PICK j \in 1..f : old(j) = i
      BY <1>2, <1>6
    <3>2. rest[j] = e[i]
      BY <1>5, <3>1
    <3>3. QED
      BY <1>8, <3>2
  <2>3. QED
    BY <1>4, <1>8, <2>1, <2>2
<1> DEFINE m == IF p = 1 /\ rest # <<>> THEN {rest[1].key} ELSE {}
<1>14. m = {} \/ \E q \in Keys : m = {q} /\ q \in KeysAt(Leaf(rest)) /\ \A u \in KeysAt(Leaf(rest)) : q <= u
  <2> SUFFICES ASSUME rest # <<>>
               PROVE  rest[1].key \in Keys /\ rest[1].key \in KeysAt(Leaf(rest)) /\ \A u \in KeysAt(Leaf(rest)) : rest[1].key <= u
    OBVIOUS
  <2>1. f # 0 /\ 1 \in 1..f
    BY <1>5, EmptySeq
  <2>2. \A i \in 1..f : i = 1 \/ rest[1].key < rest[i].key
    BY <1>5, <1>10, <2>1 DEF Sorted
  <2>3. \A i \in 1..f : rest[1].key <= rest[i].key
    BY <1>8, <2>1, <2>2
  <2>4. QED
    BY <1>8, <2>1, <2>3
<1>15. Shrank(page, Leaf(rest), k, m)
  BY <1>8, <1>10, <1>12, <1>13, <1>14 DEF Shrank
<1>16. QED
  BY <1>2, <1>15 DEF n, e

----------------------------------------------------------------------------
(* Files. *)

Headers == [root : Nat, count : Nat \ {0}, free : Nat]

\* fl is the list of free pages that begins with page h.
FreeList(d, h, fl) ==
  /\ fl \in Seq(Nat \ {0})
  /\ \A i, j \in 1..Len(fl) : fl[i] = fl[j] => i = j
  /\ h = IF Len(fl) = 0 THEN 0 ELSE fl[1]
  /\ \A i \in 1..Len(fl) : /\ d[fl[i]].type = "free"
                           /\ d[fl[i]].left = IF i = Len(fl) THEN 0 ELSE fl[i + 1]

\* The pages U of a file are in use, those of the list fl are free.
Space(d, U, fl) ==
  /\ IsFiniteSet(DOMAIN d) /\ DOMAIN d \subseteq Nat /\ 0 \in DOMAIN d
  /\ d[0] \in Headers
  /\ FreeList(d, d[0].free, fl)
  /\ U \cup ToSet(fl) \subseteq (1..(d[0].count - 1)) \cap DOMAIN d
  /\ U \cap ToSet(fl) = {}

Accounted(d, U, fl) == U \cup ToSet(fl) \cup {0} = DOMAIN d

\* The pages on a list, by place.
LEMMA ListMembers ==
  ASSUME NEW fl \in Seq(Nat \ {0})
  PROVE  /\ Len(fl) \in Nat /\ DOMAIN fl = 1..Len(fl)
         /\ \A i \in 1..Len(fl) : fl[i] \in ToSet(fl) /\ fl[i] \in Nat \ {0}
         /\ \A p \in ToSet(fl) : \E i \in 1..Len(fl) : fl[i] = p
<1>1. \A i \in 1..Len(fl) : fl[i] \in Nat \ {0}
  BY ElementOfSeq
<1>2. QED
  BY <1>1, Members, LenProperties

\* Other pages are written; pages are taken into use at the end.
LEMMA SpaceKept ==
  ASSUME NEW d, NEW U, NEW fl, Space(d, U, fl),
         NEW d2, DOMAIN d \subseteq DOMAIN d2, IsFiniteSet(DOMAIN d2), DOMAIN d2 \subseteq Nat,
         d2[0] \in Headers, d[0].count <= d2[0].count, d2[0].free = d[0].free,
         \A p \in ToSet(fl) : d2[p] = d[p],
         NEW U2, U2 \subseteq (1..(d2[0].count - 1)) \cap DOMAIN d2, U2 \cap ToSet(fl) = {}
  PROVE  Space(d2, U2, fl)
<1>1. fl \in Seq(Nat \ {0}) /\ FreeList(d, d[0].free, fl)
  BY DEF Space, FreeList
<1>2. FreeList(d2, d2[0].free, fl)
  <2>1. \A i \in 1..Len(fl) : d2[fl[i]] = d[fl[i]]
    BY <1>1, ListMembers
  <2>2. QED
    BY <1>1, <2>1 DEF FreeList
<1>3. ToSet(fl) \subseteq (1..(d2[0].count - 1)) \cap DOMAIN d2
  <2>1. ToSet(fl) \subseteq 1..(d[0].count - 1) /\ ToSet(fl) \subseteq DOMAIN d2
    BY DEF Space
  <2>2. d[0].count \in Nat /\ d2[0].count \in Nat
    BY DEF Space, Headers
  <2>3. QED
    BY <2>1, <2>2
<1>4. 0 \in DOMAIN d2
  BY DEF Space
<1>5. QED
  BY <1>2, <1>3, <1>4 DEF Space

\* A page that is neither in use nor on the free list is lost, and harms nothing.
LEMMA SpaceSmaller ==
  ASSUME NEW d, NEW U, NEW fl, Space(d, U, fl), NEW U2, U2 \subseteq U
  PROVE  Space(d, U2, fl)
BY DEF Space

\* The first page of the free list is taken.
Taking(d, U, fl, d2, rest) ==
  /\ d[0].free = fl[1] /\ fl[1] \in Nat \ {0} /\ fl[1] \notin U /\ d[fl[1]].type = "free"
  /\ ToSet(fl) = {fl[1]} \cup ToSet(rest)
  /\ Space(d2, U \cup {fl[1]}, rest)

\* btree_alloc_page takes the first page of the free list.
LEMMA SpaceTaken ==
  ASSUME NEW d, NEW U, NEW fl, Space(d, U, fl), d[0].free # 0,
         NEW d2, DOMAIN d2 = DOMAIN d, \A p \in DOMAIN d \ {0} : d2[p] = d[p],
         d2[0] \in Headers, d2[0].count = d[0].count, d2[0].free = d[d[0].free].left
  PROVE  Taking(d, U, fl, d2, Tail(fl))
<1> DEFINE n == Len(fl) - 1
           r == Tail(fl)
<1>1. /\ fl \in Seq(Nat \ {0})
      /\ \A i, j \in 1..Len(fl) : fl[i] = fl[j] => i = j
      /\ d[0].free = IF Len(fl) = 0 THEN 0 ELSE fl[1]
      /\ \A i \in 1..Len(fl) : /\ d[fl[i]].type = "free"
                               /\ d[fl[i]].left = IF i = Len(fl) THEN 0 ELSE fl[i + 1]
      /\ U \cup ToSet(fl) \subseteq (1..(d[0].count - 1)) \cap DOMAIN d
      /\ U \cap ToSet(fl) = {} /\ IsFiniteSet(DOMAIN d) /\ DOMAIN d \subseteq Nat /\ 0 \in DOMAIN d
  BY DEF Space, FreeList
<1>2. Len(fl) \in Nat /\ \A i \in 1..Len(fl) : fl[i] \in ToSet(fl) /\ fl[i] \in Nat \ {0}
  BY <1>1, ListMembers
<1>3. n \in Nat /\ Len(fl) = n + 1 /\ 1 \in 1..Len(fl)
  BY <1>1, <1>2
<1> HIDE DEF n
<1>4. r \in Seq(Nat \ {0}) /\ Len(r) = n /\ \A i \in 1..n : r[i] = fl[i + 1]
  BY <1>1, <1>3, TailOfOne
<1> HIDE DEF r
<1>5. \A i \in 1..n : i + 1 \in 1..Len(fl) /\ i + 1 # 1 /\ (i + 1 = Len(fl) <=> i = n)
  BY <1>3
<1>6. \A i \in 1..n : i = n \/ i + 1 \in 1..n
  BY <1>3
<1>7. ToSet(r) = {r[i] : i \in 1..n} /\ ToSet(fl) = {fl[i] : i \in 1..Len(fl)}
  <2>1. DOMAIN r = 1..n /\ DOMAIN fl = 1..Len(fl)
    BY <1>1, <1>4, ListMembers
  <2>2. QED
    BY <2>1 DEF ToSet
<1>8. ToSet(fl) = {fl[1]} \cup ToSet(r)
  <2>1. \A i \in 1..n : r[i] \in ToSet(fl)
    BY <1>2, <1>4, <1>5
  <2>2. ASSUME NEW i \in 1..Len(fl), i # 1 PROVE fl[i] \in ToSet(r)
    <3>1. i - 1 \in 1..n /\ (i - 1) + 1 = i
      BY <1>3, <2>2
    <3>2. r[i - 1] = fl[i]
      BY <1>4, <3>1
    <3>3. QED
      BY <1>7, <3>1, <3>2
  <2>3. QED
    BY <1>3, <1>7, <2>1, <2>2
<1>9. fl[1] \notin ToSet(r)
  <2>1. \A i \in 1..n : r[i] # fl[1]
    BY <1>1, <1>3, <1>4, <1>5
  <2>2. QED
    BY <1>7, <2>1
<1>10. d[0].free = fl[1] /\ d[fl[1]].type = "free" /\ d2[0].free = IF n = 0 THEN 0 ELSE fl[2]
  BY <1>1, <1>3
<1>11. \A i \in 1..n : d2[r[i]] = d[fl[i + 1]] /\ r[i] = fl[i + 1]
  <2>1. ASSUME NEW i \in 1..n PROVE r[i] \in DOMAIN d \ {0}
    <3>1. r[i] = fl[i + 1] /\ fl[i + 1] \in ToSet(fl) /\ fl[i + 1] # 0
      BY <1>2, <1>4, <1>5
    <3>2. QED
      BY <1>1, <3>1
  <2>2. QED
    BY <1>4, <2>1
<1>12. FreeList(d2, d2[0].free, r)
  <2>1. \A i, j \in 1..n : r[i] = r[j] => i = j
    BY <1>1, <1>3, <1>4, <1>5
  <2>2. d2[0].free = IF n = 0 THEN 0 ELSE r[1]
    BY <1>3, <1>4, <1>10
  <2>3. ASSUME NEW i \in 1..n PROVE d2[r[i]].type = "free" /\ d2[r[i]].left = IF i = n THEN 0 ELSE r[i + 1]
    <3>1. d2[r[i]].type = "free" /\ d2[r[i]].left = IF i = n THEN 0 ELSE fl[(i + 1) + 1]
      <4> DEFINE j == i + 1
      <4>1. j \in 1..Len(fl) /\ (j = Len(fl) <=> i = n) /\ d2[r[i]] = d[fl[j]]
        BY <1>5, <1>11
      <4> HIDE DEF j
      <4>2. d2[r[i]].type = "free" /\ d2[r[i]].left = IF i = n THEN 0 ELSE fl[j + 1]
        BY <1>1, <4>1
      <4>3. QED
        BY <4>2 DEF j
    <3>2. i # n => r[i + 1] = fl[(i + 1) + 1]
      BY <1>4, <1>6
    <3>3. QED
      BY <3>1, <3>2
  <2>4. QED
    BY <1>4, <2>1, <2>2, <2>3 DEF FreeList
<1>13. U \cup {fl[1]} \cup ToSet(r) \subseteq (1..(d2[0].count - 1)) \cap DOMAIN d2
  BY <1>1, <1>8
<1>14. (U \cup {fl[1]}) \cap ToSet(r) = {} /\ fl[1] \notin U
  BY <1>1, <1>8, <1>9
<1>15. Space(d2, U \cup {fl[1]}, r)
  BY <1>1, <1>12, <1>13, <1>14 DEF Space
<1>16. QED
  BY <1>2, <1>3, <1>8, <1>10, <1>14, <1>15 DEF Taking, r

\* A page is given back, in front of the free list.
Giving(U, fl, id, d2) ==
  \E list : ToSet(list) = {id} \cup ToSet(fl) /\ Space(d2, U \ {id}, list)

\* btree_free_page puts a page in front of the free list.
LEMMA SpaceGiven ==
  ASSUME NEW d, NEW U, NEW fl, Space(d, U, fl), NEW id \in U,
         NEW d2, DOMAIN d2 = DOMAIN d, \A p \in DOMAIN d \ {0, id} : d2[p] = d[p],
         d2[0] \in Headers, d2[0].count = d[0].count, d2[0].free = id,
         d2[id].type = "free", d2[id].left = d[0].free
  PROVE  Giving(U, fl, id, d2)
<1> DEFINE n == Len(fl)
           list == [i \in 1..(n + 1) |-> IF i = 1 THEN id ELSE fl[i - 1]]
<1>1. /\ fl \in Seq(Nat \ {0})
      /\ \A i, j \in 1..n : fl[i] = fl[j] => i = j
      /\ d[0].free = IF n = 0 THEN 0 ELSE fl[1]
      /\ \A i \in 1..n : /\ d[fl[i]].type = "free"
                               /\ d[fl[i]].left = IF i = n THEN 0 ELSE fl[i + 1]
      /\ U \cup ToSet(fl) \subseteq (1..(d[0].count - 1)) \cap DOMAIN d
      /\ U \cap ToSet(fl) = {} /\ IsFiniteSet(DOMAIN d) /\ DOMAIN d \subseteq Nat /\ 0 \in DOMAIN d
  BY DEF Space, FreeList
<1>2. /\ n \in Nat /\ \A i \in 1..n : fl[i] \in ToSet(fl) /\ fl[i] \in Nat \ {0}
      /\ \A p \in ToSet(fl) : \E i \in 1..n : fl[i] = p
  BY <1>1, ListMembers
<1>3. id \in Nat \ {0} /\ id \notin ToSet(fl)
  BY <1>1
<1> HIDE DEF n
<1>4. \A i \in 1..(n + 1) : i = 1 \/ i - 1 \in 1..n
  BY <1>2
<1>5. list \in Seq(Nat \ {0}) /\ Len(list) = n + 1
  <2>1. list \in [1..(n + 1) -> Nat \ {0}] /\ n + 1 \in Nat
    BY <1>2, <1>3, <1>4
  <2> HIDE DEF list
  <2>2. QED
    BY <2>1, SeqDef, LenProperties
<1>6. \A i \in 1..(n + 1) : list[i] = IF i = 1 THEN id ELSE fl[i - 1]
  OBVIOUS
<1> HIDE DEF list
<1>7. \A i \in 1..(n + 1) : i = n + 1 \/ (i + 1 \in 1..(n + 1) /\ i + 1 # 1 /\ (i + 1) - 1 = i)
  BY <1>2
<1>8. ToSet(list) = {id} \cup ToSet(fl)
  <2>1. ToSet(list) = {list[i] : i \in 1..(n + 1)}
    BY <1>5, ListMembers
  <2>2. \A i \in 1..(n + 1) : list[i] \in {id} \cup ToSet(fl)
    BY <1>2, <1>4, <1>6
  <2>3. ASSUME NEW p \in ToSet(fl) PROVE p \in ToSet(list)
    <3>1. PICK i \in 1..n : fl[i] = p
      BY <1>2
    <3>2. i + 1 \in 1..(n + 1) /\ i + 1 # 1 /\ (i + 1) - 1 = i
      BY <1>2
    <3>3. list[i + 1] = p
      BY <1>6, <3>1, <3>2
    <3>4. QED
      BY <2>1, <3>2, <3>3
  <2>4. id \in ToSet(list)
    <3>1. 1 \in 1..(n + 1)
      BY <1>2
    <3>2. QED
      BY <1>6, <2>1, <3>1
  <2>5. QED
    BY <2>1, <2>2, <2>3, <2>4
<1>9. \A p \in ToSet(fl) : d2[p] = d[p]
  BY <1>1, <1>3
<1>10. FreeList(d2, id, list)
  <2>1. ASSUME NEW i \in 1..(n + 1), NEW j \in 1..(n + 1), list[i] = list[j] PROVE i = j
    <3>1. i = 1 <=> j = 1
      BY <1>2, <1>3, <1>4, <1>6, <2>1
    <3>2. i # 1 => i - 1 = j - 1
      BY <1>1, <1>4, <1>6, <2>1, <3>1
    <3>3. QED
      BY <3>1, <3>2
  <2>2. ASSUME NEW i \in 1..(n + 1)
        PROVE  d2[list[i]].type = "free" /\ d2[list[i]].left = IF i = n + 1 THEN 0 ELSE list[i + 1]
    <3>1. i # n + 1 => list[i + 1] = fl[i] /\ i \in 1..n
      BY <1>2, <1>6, <1>7
    <3>2. CASE i = 1
      <4>1. list[i] = id /\ (i = n + 1 <=> n = 0)
        BY <1>2, <1>6, <3>2
      <4>2. QED
        BY <1>1, <3>1, <3>2, <4>1
    <3>3. CASE i # 1
      <4>1. i - 1 \in 1..n /\ list[i] = fl[i - 1] /\ (i = n + 1 <=> i - 1 = n) /\ (i - 1) + 1 = i
        BY <1>2, <1>4, <1>6, <3>3
      <4>2. d2[list[i]] = d[fl[i - 1]]
        BY <1>2, <1>9, <4>1
      <4>3. d[fl[i - 1]].type = "free" /\ d[fl[i - 1]].left = IF i - 1 = n THEN 0 ELSE fl[(i - 1) + 1]
        BY <1>1, <4>1
      <4>4. QED
        BY <3>1, <4>1, <4>2, <4>3
    <3>4. QED
      BY <3>2, <3>3
  <2>3. id = IF n + 1 = 0 THEN 0 ELSE list[1]
    <3>1. 1 \in 1..(n + 1) /\ n + 1 # 0
      BY <1>2
    <3>2. QED
      BY <1>6, <3>1
  <2>4. QED
    BY <1>5, <2>1, <2>2, <2>3 DEF FreeList
<1>11. Space(d2, U \ {id}, list)
  BY <1>1, <1>8, <1>10 DEF Space
<1>12. QED
  BY <1>8, <1>11 DEF Giving

----------------------------------------------------------------------------
(* A database under operation. *)

IsSeq(s) == \E T : s \in Seq(T)

IsDb(x) ==
  /\ DOMAIN x = {"disk", "root", "count", "free", "files", "ok"}
  /\ IsSeq(x.files) /\ x.ok \in BOOLEAN

\* The header in the file agrees with the fields.
Sound(x, U, fl) == IsDb(x) /\ x.disk[0] = Fields(x) /\ Space(x.disk, U, fl)

\* One element more.
LEMMA AppendToAny ==
  ASSUME NEW s, IsSeq(s), NEW e
  PROVE  IsSeq(Append(s, e)) /\ ToSet(Append(s, e)) = ToSet(s) \cup {e}
<1>1. PICK T : s \in Seq(T)
  BY DEF IsSeq
<1> DEFINE V == T \cup {e}
           t == Append(s, e)
           n == Len(s)
<1>2. s \in Seq(V) /\ e \in V /\ n \in Nat
  <2>1. s \in [1..Len(s) -> T] /\ Len(s) \in Nat
    BY <1>1, LenProperties
  <2>2. s \in [1..Len(s) -> V]
    BY <2>1
  <2> HIDE DEF V
  <2>3. s \in Seq(V)
    BY <2>1, <2>2, SeqDef
  <2>4. QED
    BY <2>1, <2>3 DEF V
<1> HIDE DEF V
<1>3. /\ t \in Seq(V) /\ Len(t) = n + 1 /\ DOMAIN t = 1..(n + 1) /\ t[n + 1] = e /\ \A i \in 1..n : t[i] = s[i]
      /\ DOMAIN s = 1..n
  BY <1>2, AppendToSeq, LenProperties
<1> HIDE DEF t, n
<1>4. \A i \in 1..(n + 1) : i = n + 1 \/ i \in 1..n
  BY <1>2 DEF n
<1>5. n \in Nat /\ n + 1 \in 1..(n + 1) /\ \A i \in 1..n : i \in 1..(n + 1)
  BY <1>2 DEF n
<1>6. ToSet(t) = ToSet(s) \cup {e}
  <2>1. ASSUME NEW y \in ToSet(t) PROVE y \in ToSet(s) \cup {e}
    BY <1>3, <1>4, <2>1 DEF ToSet
  <2>2. ASSUME NEW y \in ToSet(s) \cup {e} PROVE y \in ToSet(t)
    BY <1>3, <1>5, <2>2 DEF ToSet
  <2>3. QED
    BY <2>1, <2>2
<1>7. QED
  BY <1>3, <1>6 DEF IsSeq, t

\* What one write to the file makes of a database.
OneWrite(x, y, id, page) ==
  /\ IsDb(y) /\ y.ok = x.ok /\ Fields(y) = Fields(x)
  /\ y.root = x.root /\ y.count = x.count /\ y.free = x.free
  /\ DOMAIN y.disk = DOMAIN x.disk \cup {id} /\ y.disk[id] = page
  /\ \A q \in DOMAIN x.disk \ {id} : y.disk[q] = x.disk[q]
  /\ ToSet(y.files) = ToSet(x.files) \cup {y.disk}

\* One page is written, and the file is a new one.
LEMMA WritePageIs ==
  ASSUME NEW x, IsDb(x), NEW id, NEW page
  PROVE  OneWrite(x, WritePage(x, id, page), id, page)
<1> DEFINE y == WritePage(x, id, page)
           file == With(x.disk, id, page)
<1>1. /\ DOMAIN y = {"disk", "root", "count", "free", "files", "ok"}
      /\ y.disk = file /\ y.root = x.root /\ y.count = x.count /\ y.free = x.free
      /\ y.files = Append(x.files, file) /\ y.ok = x.ok
  BY DEF WritePage, IsDb
<1> HIDE DEF y
<1>2. DOMAIN file = DOMAIN x.disk \cup {id} /\ file[id] = page /\ \A q \in DOMAIN x.disk \ {id} : file[q] = x.disk[q]
  <2> DEFINE d == x.disk
  <2> HIDE DEF d
  <2>1. DOMAIN With(d, id, page) = DOMAIN d \cup {id} /\ With(d, id, page)[id] = page
        /\ \A q \in DOMAIN d \ {id} : With(d, id, page)[q] = d[q]
    BY DEF With
  <2>2. QED
    BY <2>1 DEF d
<1> HIDE DEF file
<1>3. IsSeq(y.files) /\ ToSet(y.files) = ToSet(x.files) \cup {file}
  BY <1>1, AppendToAny DEF IsDb
<1>4. y.ok = x.ok /\ y.root = x.root /\ y.count = x.count /\ y.free = x.free /\ y.disk = file
  BY <1>1
<1>5. IsDb(y)
  BY <1>1, <1>3, <1>4 DEF IsDb
<1>6. Fields(y) = Fields(x)
  BY <1>4 DEF Fields
<1>7. OneWrite(x, y, id, page)
  BY <1>2, <1>3, <1>4, <1>5, <1>6 DEF OneWrite
<1>8. QED
  BY <1>7 DEF y

\* A page in use is written.
LEMMA WriteSound ==
  ASSUME NEW x, NEW U, NEW fl, Sound(x, U, fl), NEW id \in U, NEW y, NEW page, OneWrite(x, y, id, page)
  PROVE  Sound(y, U, fl) /\ DOMAIN y.disk = DOMAIN x.disk
<1>1. id \in DOMAIN x.disk /\ id # 0 /\ id \notin ToSet(fl) /\ DOMAIN y.disk = DOMAIN x.disk
  BY DEF Sound, Space, OneWrite
<1>2. 0 \in DOMAIN x.disk /\ ToSet(fl) \subseteq DOMAIN x.disk
  BY DEF Sound, Space
<1>3. y.disk[0] = x.disk[0] /\ \A p \in ToSet(fl) : y.disk[p] = x.disk[p]
  BY <1>1, <1>2 DEF OneWrite
<1>4. /\ Space(x.disk, U, fl) /\ DOMAIN x.disk \subseteq DOMAIN y.disk /\ IsFiniteSet(DOMAIN y.disk) /\ DOMAIN y.disk \subseteq Nat
      /\ y.disk[0] \in Headers /\ x.disk[0].count <= y.disk[0].count /\ y.disk[0].free = x.disk[0].free
      /\ U \subseteq (1..(y.disk[0].count - 1)) \cap DOMAIN y.disk /\ U \cap ToSet(fl) = {}
  BY <1>1, <1>3 DEF Sound, Space, Headers
<1>5. Space(y.disk, U, fl)
  BY <1>3, <1>4, SpaceKept
<1>6. QED
  BY <1>1, <1>3, <1>5 DEF Sound, OneWrite

\* A page that fits is written, one that does not makes the operation fail.
LEMMA WriteNodeIs ==
  ASSUME NEW x, IsDb(x), NEW id, NEW page, NEW y, y = WriteNode(x, id, page)
  PROVE  /\ x.ok /\ Fits(page) => OneWrite(x, y, id, page)
         /\ ~(x.ok /\ Fits(page)) => y = Fail(x)
BY WritePageIs DEF WriteNode

\* A failure changes nothing in the file or in BTreeDb.
LEMMA FailIs ==
  ASSUME NEW x, IsDb(x)
  PROVE  /\ IsDb(Fail(x)) /\ ~Fail(x).ok /\ Fields(Fail(x)) = Fields(x)
         /\ Fail(x).disk = x.disk /\ Fail(x).files = x.files /\ Fail(x).root = x.root
<1> DEFINE y == Fail(x)
<1>1. DOMAIN y = {"disk", "root", "count", "free", "files", "ok"}
  BY DEF Fail, IsDb
<1>2. /\ y.disk = x.disk /\ y.root = x.root /\ y.count = x.count /\ y.free = x.free
      /\ y.files = x.files /\ y.ok = FALSE
  BY DEF Fail, IsDb
<1> HIDE DEF y
<1>3. IsDb(y) /\ Fields(y) = Fields(x)
  BY <1>1, <1>2 DEF IsDb, Fields
<1>4. QED
  BY <1>2, <1>3 DEF y

\* A failed operation leaves its pages and the free list as they are.
LEMMA FailSound ==
  ASSUME NEW x, NEW U, NEW fl, Sound(x, U, fl)
  PROVE  Sound(Fail(x), U, fl)
BY FailIs DEF Sound

\* What is left alone when a page is allocated or freed: g is such a file.
Untouched(x, U, g) ==
  /\ g[0] \in Headers /\ g[0].root = x.root
  /\ \A p \in U : p \in DOMAIN g /\ g[p] = x.disk[p]
  /\ \E fl : Space(g, U, fl)

\* A page has been taken that was not in use.
Allocated(x, y, page, U, fl) ==
  /\ IsDb(y) /\ y.ok = x.ok /\ y.root = x.root
  /\ page \notin U /\ page \in Nat \ {0}
  /\ \E rest : /\ Sound(y, U \cup {page}, rest)
               /\ Accounted(x.disk, U, fl) => Accounted(y.disk, U \cup {page}, rest)
  /\ \A p \in U : y.disk[p] = x.disk[p]
  /\ \A g \in ToSet(y.files) : g \in ToSet(x.files) \/ Untouched(x, U, g)

\* BTreeDb has the values that the header page has.
LEMMA FieldsAre ==
  ASSUME NEW x, NEW U, NEW fl, Sound(x, U, fl)
  PROVE  /\ x.root \in Nat /\ x.count \in Nat \ {0} /\ x.free \in Nat
         /\ x.disk[0].root = x.root /\ x.disk[0].count = x.count /\ x.disk[0].free = x.free
         /\ x.disk[0] \in Headers
<1>1. x.disk[0] = [root |-> x.root, count |-> x.count, free |-> x.free] /\ x.disk[0] \in Headers
  BY DEF Sound, Fields, Space
<1> DEFINE h == x.disk[0]
<1>2. h.root = x.root /\ h.count = x.count /\ h.free = x.free
  BY <1>1
<1>3. h.root \in Nat /\ h.count \in Nat \ {0} /\ h.free \in Nat
  BY <1>1 DEF Headers
<1>4. QED
  BY <1>1, <1>2, <1>3

\* What the header page is made of.
LEMMA HeaderIs ==
  ASSUME NEW root \in Nat, NEW count \in Nat \ {0}, NEW free \in Nat
  PROVE  LET h == [root |-> root, count |-> count, free |-> free]
         IN h \in Headers /\ h.root = root /\ h.count = count /\ h.free = free
BY DEF Headers

\* btree_alloc_page with an empty free list appends a page to the file.
LEMMA AllocAppends ==
  ASSUME NEW x, NEW U, NEW fl, Sound(x, U, fl), x.free = 0
  PROVE  Allocated(x, AllocPage(x), AllocatedPage(x), U, fl)
<1> DEFINE z == [x EXCEPT !.count = @ + 1]
           page == x.count
           w == WritePage(z, page, ZeroPage)
           h == Fields(w)
           y == WriteHeader(w)
<1>1. AllocPage(x) = y /\ AllocatedPage(x) = page
  BY DEF AllocPage, AllocatedPage
<1>2. /\ IsDb(z) /\ z.disk = x.disk /\ z.root = x.root /\ z.count = page + 1 /\ z.free = x.free
      /\ z.files = x.files /\ z.ok = x.ok
  BY DEF Sound, IsDb
<1> HIDE DEF z
<1>3. OneWrite(z, w, page, ZeroPage)
  BY <1>2, WritePageIs
<1> HIDE DEF w
<1>4. OneWrite(w, y, 0, h)
  BY <1>3, WritePageIs DEF WriteHeader, OneWrite
<1> HIDE DEF y
<1>5. /\ x.root \in Nat /\ page \in Nat \ {0} /\ x.free \in Nat /\ IsDb(x)
      /\ x.disk[0].root = x.root /\ x.disk[0].count = page /\ x.disk[0].free = x.free
      /\ x.disk[0] \in Headers
  BY FieldsAre DEF Sound
<1>6. /\ w.root = x.root /\ w.count = page + 1 /\ w.free = x.free /\ w.ok = x.ok
      /\ DOMAIN w.disk = DOMAIN x.disk \cup {page} /\ w.disk[page] = ZeroPage
      /\ \A q \in DOMAIN x.disk \ {page} : w.disk[q] = x.disk[q]
      /\ ToSet(w.files) = ToSet(x.files) \cup {w.disk}
  BY <1>2, <1>3 DEF OneWrite
<1>7. h = [root |-> x.root, count |-> page + 1, free |-> x.free]
  BY <1>6 DEF Fields
<1> HIDE DEF h, page
<1>8. h \in Headers /\ h.root = x.root /\ h.count = page + 1 /\ h.free = x.free
  <2>1. page + 1 \in Nat \ {0}
    BY <1>5
  <2>2. QED
    BY <1>5, <1>7, <2>1, HeaderIs
<1>9. /\ IsDb(y) /\ y.root = x.root /\ y.ok = x.ok /\ Fields(y) = h
      /\ DOMAIN y.disk = DOMAIN w.disk \cup {0} /\ y.disk[0] = h
      /\ \A q \in DOMAIN w.disk \ {0} : y.disk[q] = w.disk[q]
      /\ ToSet(y.files) = ToSet(w.files) \cup {y.disk}
  BY <1>4, <1>6 DEF OneWrite, h
<1>10. /\ Space(x.disk, U, fl) /\ IsFiniteSet(DOMAIN x.disk) /\ DOMAIN x.disk \subseteq Nat /\ 0 \in DOMAIN x.disk
       /\ U \cup ToSet(fl) \subseteq 1..(page - 1) /\ U \cup ToSet(fl) \subseteq DOMAIN x.disk
       /\ U \cap ToSet(fl) = {}
  BY <1>5 DEF Sound, Space
<1>11. page \notin U /\ page \notin ToSet(fl) /\ 0 \notin U /\ 0 \notin ToSet(fl) /\ page # 0
  BY <1>5, <1>10
<1>12. \A p \in U \cup ToSet(fl) : w.disk[p] = x.disk[p] /\ y.disk[p] = x.disk[p] /\ p \in DOMAIN w.disk /\ p \in DOMAIN y.disk
  BY <1>6, <1>9, <1>10, <1>11
<1>13. w.disk[0] = x.disk[0] /\ IsFiniteSet(DOMAIN w.disk) /\ DOMAIN w.disk \subseteq Nat
  BY <1>5, <1>6, <1>10, <1>11, FS_AddElement
<1>14. Space(w.disk, U, fl)
  <2>1. U \subseteq (1..(w.disk[0].count - 1)) \cap DOMAIN w.disk
    BY <1>5, <1>10, <1>12, <1>13
  <2>2. w.disk[0] \in Headers /\ x.disk[0].count <= w.disk[0].count /\ w.disk[0].free = x.disk[0].free
    BY <1>5, <1>13
  <2>3. DOMAIN x.disk \subseteq DOMAIN w.disk
    BY <1>6
  <2>4. QED
    BY <1>10, <1>12, <1>13, <2>1, <2>2, <2>3, SpaceKept
<1>15. DOMAIN y.disk = DOMAIN x.disk \cup {page} /\ IsFiniteSet(DOMAIN y.disk) /\ DOMAIN y.disk \subseteq Nat
  BY <1>6, <1>9, <1>10, <1>13
<1>16. \A V : V \subseteq 1..page /\ V \subseteq DOMAIN y.disk /\ V \cap ToSet(fl) = {} => Space(y.disk, V, fl)
  <2> SUFFICES ASSUME NEW V, V \subseteq 1..page, V \subseteq DOMAIN y.disk, V \cap ToSet(fl) = {}
               PROVE  Space(y.disk, V, fl)
    OBVIOUS
  <2>1. V \subseteq (1..(y.disk[0].count - 1)) \cap DOMAIN y.disk
    BY <1>5, <1>8, <1>9
  <2>2. y.disk[0] \in Headers /\ x.disk[0].count <= y.disk[0].count /\ y.disk[0].free = x.disk[0].free
    BY <1>5, <1>8, <1>9
  <2>3. DOMAIN x.disk \subseteq DOMAIN y.disk
    BY <1>15
  <2>4. QED
    BY <1>10, <1>12, <1>15, <2>1, <2>2, <2>3, SpaceKept
<1>17. Space(y.disk, U, fl) /\ Space(y.disk, U \cup {page}, fl)
  <2>1. 1..(page - 1) \subseteq 1..page /\ page \in 1..page
    BY <1>5
  <2>2. U \subseteq 1..page /\ U \cup {page} \subseteq 1..page /\ U \cup {page} \subseteq DOMAIN y.disk
        /\ (U \cup {page}) \cap ToSet(fl) = {} /\ U \cap ToSet(fl) = {}
    BY <1>10, <1>11, <1>15, <2>1
  <2>3. QED
    BY <1>16, <2>2
<1>18. Sound(y, U \cup {page}, fl)
  BY <1>9, <1>17 DEF Sound
<1>19. Accounted(x.disk, U, fl) => Accounted(y.disk, U \cup {page}, fl)
  BY <1>15 DEF Accounted
<1>20. Untouched(x, U, w.disk)
  BY <1>5, <1>12, <1>13, <1>14 DEF Untouched
<1>21. Untouched(x, U, y.disk)
  BY <1>8, <1>9, <1>12, <1>17 DEF Untouched
<1>22. QED
  BY <1>1, <1>5, <1>6, <1>9, <1>11, <1>12, <1>18, <1>19, <1>20, <1>21 DEF Allocated

\* btree_alloc_page with a free page links its successor in first.
LEMMA AllocTakes ==
  ASSUME NEW x, NEW U, NEW fl, Sound(x, U, fl), x.free # 0
  PROVE  Allocated(x, AllocPage(x), AllocatedPage(x), U, fl)
<1> DEFINE page == x.free
           z == [x EXCEPT !.free = x.disk[x.free].left]
           h == Fields(z)
           y == WriteHeader(z)
           rest == Tail(fl)
           link == x.disk[page].left
<1>1. /\ IsDb(z) /\ z.disk = x.disk /\ z.root = x.root /\ z.count = x.count /\ z.free = link
      /\ z.files = x.files /\ z.ok = x.ok
  BY DEF Sound, IsDb
<1>2. AllocatedPage(x) = page /\ (x.disk[page].type = "free" => AllocPage(x) = y)
  BY DEF AllocPage, AllocatedPage
<1> HIDE DEF z
<1>3. OneWrite(z, y, 0, h)
  BY <1>1, WritePageIs DEF WriteHeader
<1> HIDE DEF y
<1>4. /\ x.root \in Nat /\ x.count \in Nat \ {0} /\ page \in Nat /\ IsDb(x)
      /\ x.disk[0].root = x.root /\ x.disk[0].count = x.count /\ x.disk[0].free = page
      /\ x.disk[0] \in Headers
  BY FieldsAre DEF Sound
<1>5. h = [root |-> x.root, count |-> x.count, free |-> link]
  BY <1>1 DEF Fields
<1>6. /\ Space(x.disk, U, fl) /\ IsFiniteSet(DOMAIN x.disk) /\ DOMAIN x.disk \subseteq Nat /\ 0 \in DOMAIN x.disk
      /\ U \cup ToSet(fl) \subseteq DOMAIN x.disk /\ U \cup ToSet(fl) \subseteq 1..(x.count - 1)
      /\ FreeList(x.disk, page, fl) /\ U \cap ToSet(fl) = {}
  BY <1>4 DEF Sound, Space
<1>7. /\ IsDb(y) /\ y.root = x.root /\ y.ok = x.ok /\ Fields(y) = h
      /\ DOMAIN y.disk = DOMAIN x.disk /\ y.disk[0] = h
      /\ \A q \in DOMAIN x.disk \ {0} : y.disk[q] = x.disk[q]
      /\ ToSet(y.files) = ToSet(x.files) \cup {y.disk}
  BY <1>1, <1>3, <1>6 DEF OneWrite, h
<1> HIDE DEF h
<1>8. link \in Nat
  <2>1. /\ fl \in Seq(Nat \ {0}) /\ page = (IF Len(fl) = 0 THEN 0 ELSE fl[1])
        /\ \A i \in 1..Len(fl) : x.disk[fl[i]].left = IF i = Len(fl) THEN 0 ELSE fl[i + 1]
    BY <1>6 DEF FreeList
  <2> DEFINE n == Len(fl)
  <2>2. n \in Nat /\ n # 0 /\ page = fl[1] /\ \A i \in 1..n : fl[i] \in Nat
    BY <2>1, ListMembers
  <2>3. \A i \in 1..n : x.disk[fl[i]].left = IF i = n THEN 0 ELSE fl[i + 1]
    BY <2>1
  <2> HIDE DEF n
  <2>4. 1 \in 1..n /\ (n # 1 => 1 + 1 \in 1..n)
    BY <2>2
  <2>5. link = IF 1 = n THEN 0 ELSE fl[1 + 1]
    BY <2>2, <2>3, <2>4
  <2>6. QED
    BY <2>2, <2>4, <2>5
<1>9. h \in Headers /\ h.root = x.root /\ h.count = x.count /\ h.free = link
  BY <1>4, <1>5, <1>8, HeaderIs
<1> HIDE DEF page, link
<1>10. Taking(x.disk, U, fl, y.disk, rest)
  <2>1. /\ x.disk[0].free # 0 /\ y.disk[0] \in Headers /\ y.disk[0].count = x.disk[0].count
        /\ y.disk[0].free = x.disk[x.disk[0].free].left
    BY <1>4, <1>7, <1>9 DEF page, link
  <2>2. QED
    BY <1>6, <1>7, <2>1, SpaceTaken
<1>11. /\ page \in Nat \ {0} /\ page \notin U /\ x.disk[page].type = "free"
       /\ ToSet(fl) = {page} \cup ToSet(rest) /\ Space(y.disk, U \cup {page}, rest)
  BY <1>4, <1>10 DEF Taking
<1>12. AllocPage(x) = y
  BY <1>2, <1>11
<1>13. Sound(y, U \cup {page}, rest)
  BY <1>7, <1>11 DEF Sound
<1>14. \A p \in U : y.disk[p] = x.disk[p] /\ p \in DOMAIN y.disk
  <2>1. U \subseteq DOMAIN x.disk \ {0}
    BY <1>4, <1>6
  <2>2. QED
    BY <1>7, <2>1
<1>15. Accounted(x.disk, U, fl) => Accounted(y.disk, U \cup {page}, rest)
  BY <1>7, <1>11 DEF Accounted
<1>16. Untouched(x, U, y.disk)
  <2>1. Space(y.disk, U, rest)
    BY <1>11, SpaceSmaller
  <2>2. QED
    BY <1>7, <1>9, <1>14, <2>1 DEF Untouched
<1>17. QED
  BY <1>2, <1>4, <1>7, <1>11, <1>12, <1>13, <1>14, <1>15, <1>16 DEF Allocated

\* btree_alloc_page hands out a page that is not in use.
LEMMA AllocIs ==
  ASSUME NEW x, NEW U, NEW fl, Sound(x, U, fl)
  PROVE  Allocated(x, AllocPage(x), AllocatedPage(x), U, fl)
BY AllocAppends, AllocTakes

\* A page has been given back.
Freed(x, y, id, U, fl) ==
  /\ IsDb(y) /\ y.ok = x.ok /\ y.root = x.root
  /\ \E list : /\ Sound(y, U \ {id}, list)
               /\ Accounted(x.disk, U, fl) => Accounted(y.disk, U \ {id}, list)
  /\ \A p \in U \ {id} : y.disk[p] = x.disk[p]

\* btree_free_page writes the page, then the header.
LEMMA FreeIs ==
  ASSUME NEW x, NEW U, NEW fl, Sound(x, U, fl), NEW id \in U, id # x.root
  PROVE  Freed(x, FreePage(x, id), id, U, fl)
<1> DEFINE page == Page("free", <<>>, x.free)
           w == WritePage(x, id, page)
           z == [w EXCEPT !.free = id]
           h == Fields(z)
           y == WriteHeader(z)
<1>1. /\ x.root \in Nat /\ x.count \in Nat \ {0} /\ x.free \in Nat /\ IsDb(x)
      /\ x.disk[0].root = x.root /\ x.disk[0].count = x.count /\ x.disk[0].free = x.free
      /\ x.disk[0] \in Headers
  BY FieldsAre DEF Sound
<1>2. /\ Space(x.disk, U, fl) /\ DOMAIN x.disk \subseteq Nat /\ 0 \in DOMAIN x.disk
      /\ U \subseteq 1..(x.count - 1) /\ U \subseteq DOMAIN x.disk
  BY <1>1 DEF Sound, Space
<1>3. id \in Nat \ {0} /\ id < x.count /\ id \in DOMAIN x.disk
  BY <1>1, <1>2
<1>4. FreePage(x, id) = y
  <2>1. ~(id = 0 \/ id >= x.count \/ id = x.root)
    BY <1>1, <1>3
  <2>2. QED
    BY <2>1, Zenon DEF FreePage
<1>5. OneWrite(x, w, id, page)
  BY <1>1, WritePageIs
<1>6. page.type = "free" /\ page.left = x.free
  BY DEF Page
<1> HIDE DEF page, w
<1>7. /\ IsDb(z) /\ z.disk = w.disk /\ z.root = w.root /\ z.count = w.count /\ z.free = id
      /\ z.ok = w.ok
  BY <1>5 DEF OneWrite, IsDb
<1> HIDE DEF z
<1>8. OneWrite(z, y, 0, h)
  BY <1>7, WritePageIs DEF WriteHeader
<1> HIDE DEF y
<1>9. /\ w.root = x.root /\ w.count = x.count /\ w.ok = x.ok
      /\ DOMAIN w.disk = DOMAIN x.disk /\ w.disk[id] = page
      /\ \A q \in DOMAIN x.disk \ {id} : w.disk[q] = x.disk[q]
  BY <1>3, <1>5 DEF OneWrite
<1>10. h = [root |-> x.root, count |-> x.count, free |-> id]
  BY <1>7, <1>9 DEF Fields
<1>11. /\ IsDb(y) /\ y.root = x.root /\ y.ok = x.ok /\ Fields(y) = h
       /\ DOMAIN y.disk = DOMAIN x.disk /\ y.disk[0] = h
       /\ \A q \in DOMAIN x.disk \ {0} : y.disk[q] = w.disk[q]
  BY <1>2, <1>7, <1>8, <1>9 DEF OneWrite, h
<1> HIDE DEF h
<1>12. h \in Headers /\ h.root = x.root /\ h.count = x.count /\ h.free = id
  BY <1>1, <1>3, <1>10, HeaderIs
<1>13. /\ \A p \in DOMAIN x.disk \ {0, id} : y.disk[p] = x.disk[p]
       /\ y.disk[id] = page
  BY <1>3, <1>9, <1>11
<1>14. PICK list : ToSet(list) = {id} \cup ToSet(fl) /\ Space(y.disk, U \ {id}, list)
  <2>1. /\ y.disk[0] \in Headers /\ y.disk[0].count = x.disk[0].count /\ y.disk[0].free = id
        /\ y.disk[id].type = "free" /\ y.disk[id].left = x.disk[0].free
    BY <1>1, <1>6, <1>11, <1>12, <1>13
  <2> DEFINE d == x.disk
             d2 == y.disk
  <2>2. /\ Space(d, U, fl) /\ DOMAIN d2 = DOMAIN d /\ \A p \in DOMAIN d \ {0, id} : d2[p] = d[p]
        /\ d2[0] \in Headers /\ d2[0].count = d[0].count /\ d2[0].free = id
        /\ d2[id].type = "free" /\ d2[id].left = d[0].free
    BY <1>2, <1>11, <1>13, <2>1
  <2> HIDE DEF d, d2
  <2>3. Giving(U, fl, id, d2)
    BY <2>2, SpaceGiven
  <2>4. QED
    BY <2>3 DEF d, d2, Giving
<1>15. Sound(y, U \ {id}, list)
  BY <1>11, <1>14 DEF Sound
<1>16. Accounted(x.disk, U, fl) => Accounted(y.disk, U \ {id}, list)
  BY <1>3, <1>11, <1>14 DEF Accounted
<1>17. \A p \in U \ {id} : y.disk[p] = x.disk[p]
  <2>1. U \ {id} \subseteq DOMAIN x.disk \ {0, id}
    BY <1>2
  <2>2. QED
    BY <1>13, <2>1
<1>18. QED
  BY <1>4, <1>11, <1>15, <1>16, <1>17 DEF Freed

----------------------------------------------------------------------------
(* The pages that can be reached. *)

\* The pages that a page points to.
LEMMA ChildrenAre ==
  ASSUME NEW page
  PROVE  /\ page \in LeafPage => ToSet(Children(page)) = {}
         /\ page \in InnerPage => ToSet(Children(page)) = {Child(page, s) : s \in Slots(page)}
<1>1. ASSUME page \in LeafPage PROVE ToSet(Children(page)) = {}
  <2>1. page.type = "leaf"
    BY <1>1, PageKinds
  <2>2. QED
    BY <2>1 DEF Children, ToSet
<1>2. ASSUME page \in InnerPage PROVE ToSet(Children(page)) = {Child(page, s) : s \in Slots(page)}
  <2> DEFINE n == Len(page.entries)
  <2>1. page.type = "internal" /\ n \in Nat
    BY <1>2, PageKinds, InnerEntries
  <2>2. Children(page) = [i \in 1..(n + 1) |-> Child(page, i - 1)]
    BY <2>1 DEF Children
  <2>3. ToSet(Children(page)) = {Child(page, i - 1) : i \in 1..(n + 1)}
    BY <2>2 DEF ToSet
  <2>4. Slots(page) = 0..n
    BY DEF Slots
  <2> HIDE DEF n
  <2>5. \A i \in 1..(n + 1) : i - 1 \in 0..n
    BY <2>1
  <2>6. \A s \in 0..n : s + 1 \in 1..(n + 1) /\ (s + 1) - 1 = s
    BY <2>1
  <2>7. QED
    BY <2>3, <2>4, <2>5, <2>6
<1>3. QED
  BY <1>1, <1>2

\* A set of pages with the children of its pages.
Closed(d, C) == \A q \in C : d[q] \in InnerPage => \A s \in Slots(d[q]) : Child(d[q], s) \in C

\* Such a set is the whole tree if it has the root.
LEMMA ClosedIsAll ==
  ASSUME NEW d, NEW P, NEW b, Forest(d, P, b), IsFiniteSet(DOMAIN d), NEW p \in P, b[p] = P,
         NEW C, C \subseteq P, p \in C, Closed(d, C)
  PROVE  C = P
<1> SUFFICES ASSUME NEW u \in P, u \notin C PROVE FALSE
  OBVIOUS
<1> DEFINE R == {Cardinality(b[q]) : q \in {a \in C : u \in b[a]}}
<1>1. \A a \in P : IsFiniteSet(b[a]) /\ Cardinality(b[a]) \in Nat /\ b[a] \subseteq P /\ a \in b[a]
  <2>1. P \subseteq DOMAIN d /\ \A a \in P : b[a] \subseteq P /\ a \in b[a]
    BY DEF Forest, Ordered, Nodes, IsNode
  <2>2. QED
    BY <2>1, FS_Subset, FS_CardinalityType
<1>2. R \subseteq Nat /\ R # {}
  BY <1>1
<1>3. PICK x \in R : \A y \in R : x <= y
  <2> HIDE DEF R
  <2>1. QED
    BY <1>2, LeastNatural
<1>4. PICK a \in C : u \in b[a] /\ x = Cardinality(b[a])
  BY <1>3
<1>5. a # u /\ a \in P /\ IsNode(d, a)
  BY <1>4 DEF Forest, Nodes
<1>6. d[a] \in InnerPage /\ Parent(d, P, b, a)
  <2>1. d[a] \notin LeafPage
    BY <1>4, <1>5 DEF Forest, Linked
  <2>2. QED
    BY <1>5, <2>1 DEF IsNode, Forest, Linked
<1>7. PICK s \in Slots(d[a]) : u \in b[Child(d[a], s)]
  <2>1. b[a] = {a} \cup UNION {b[Child(d[a], s)] : s \in Slots(d[a])}
    BY <1>6 DEF Parent
  <2>2. QED
    BY <1>4, <1>5, <2>1
<1> DEFINE c == Child(d[a], s)
<1>8. c \in C /\ c \in P /\ a \notin b[c] /\ b[c] \subseteq b[a]
  BY <1>4, <1>6, <1>7 DEF Closed, Parent, ChildrenApart
<1> HIDE DEF c
<1>9. Cardinality(b[c]) <= Cardinality(b[a]) /\ Cardinality(b[c]) # Cardinality(b[a])
  BY <1>1, <1>5, <1>8, FS_Subset
<1>10. Cardinality(b[c]) \in R
  BY <1>7, <1>8 DEF c
<1>11. QED
  BY <1>1, <1>3, <1>4, <1>5, <1>8, <1>9, <1>10

\* The pages that can be reached from the root of a tree are those of the tree.
LEMMA PagesBelowIs ==
  ASSUME NEW d, NEW P, NEW p, Tree(d, P, p), IsFiniteSet(DOMAIN d)
  PROVE  PagesBelow(d, p) = P
<1>1. PICK b : Forest(d, P, b) /\ p \in P /\ b[p] = P
  BY DEF Tree
<1> DEFINE T == SUBSET P
           n == Cardinality(DOMAIN d)
           x == {p}
           Body(C) == C \cup UNION {ToSet(Children(d[q])) : q \in {a \in C : Readable(d, a)}}
           step == [u \in T \X (1..n) |-> Body(u[1])]
<1>2. n \in Nat
  BY FS_CardinalityType
<1>3. \A q \in P : IsNode(d, q) /\ Readable(d, q) /\ (d[q] \in LeafPage \/ d[q] \in InnerPage)
  BY <1>1, InnerIs DEF Forest, Nodes, IsNode
<1>4. \A q \in P : d[q] \in InnerPage => \A s \in Slots(d[q]) : Child(d[q], s) \in P
  BY <1>1 DEF Forest, Linked, Parent, ChildrenApart
<1>5. \A q \in P : ToSet(Children(d[q])) \subseteq P
  BY <1>3, <1>4, ChildrenAre
<1>6. \A C \in T : Body(C) \in T
  BY <1>5
<1>7. \A C \in T : C \subseteq Body(C) /\ (Closed(d, C) <=> Body(C) = C)
  <2> SUFFICES ASSUME NEW C \in T PROVE Closed(d, C) <=> Body(C) = C
    OBVIOUS
  <2>1. ASSUME Closed(d, C) PROVE Body(C) = C
    <3>1. ASSUME NEW q \in C PROVE ToSet(Children(d[q])) \subseteq C
      BY <1>3, <2>1, ChildrenAre DEF Closed
    <3>2. QED
      BY <3>1
  <2>2. ASSUME Body(C) = C, NEW q \in C, d[q] \in InnerPage, NEW s \in Slots(d[q])
        PROVE  Child(d[q], s) \in C
    <3>1. Readable(d, q) /\ Child(d[q], s) \in ToSet(Children(d[q]))
      BY <1>3, <2>2, ChildrenAre
    <3>2. Child(d[q], s) \in Body(C)
      BY <3>1
    <3>3. QED
      BY <2>2, <3>2
  <2>3. QED
    BY <2>1, <2>2 DEF Closed
<1>8. x \in T
  BY <1>1
<1> HIDE DEF Body, T, x, n
<1>9. IsStep(step, T, n)
  BY <1>6 DEF IsStep
<1>10. \A C \in T, i \in 1..n : step[<<C, i>>] = Body(C)
  OBVIOUS
<1> HIDE DEF step
<1>11. PICK g \in [0..n -> T] : g[0] = x /\ \A i \in 1..n : g[i] = step[<<g[i - 1], i>>]
  <2>1. PICK g : IsLoop(g, step, x, T, n)
    BY <1>2, <1>8, <1>9, LoopExists
  <2>2. QED
    BY <2>1 DEF IsLoop
<1>12. \A i \in 1..n : i - 1 \in 0..n /\ g[i - 1] \in T
  BY <1>2, <1>11
<1>13. g = [i \in 0..n |-> IF i = 0 THEN x ELSE Body(g[i - 1])]
  <2>1. \A i \in 1..n : g[i] = Body(g[i - 1])
    BY <1>10, <1>11, <1>12
  <2>2. \A i \in 0..n : i = 0 \/ i \in 1..n
    BY <1>2
  <2>3. \A i \in 0..n : g[i] = IF i = 0 THEN x ELSE Body(g[i - 1])
    BY <1>11, <2>1, <2>2
  <2>4. QED
    BY <1>11, <2>3
<1> DEFINE f == Reached(d, p)
<1>14. f = [i \in 0..n |-> IF i = 0 THEN x ELSE Body(f[i - 1])]
  BY <1>13, Zenon DEF Reached, Body, x, n
<1> HIDE DEF f
<1>15. f[0] = x /\ \A i \in 1..n : f[i] = Body(f[i - 1])
  BY <1>2, <1>14
<1> DEFINE Good(i) == /\ f[i] \in T /\ p \in f[i]
                      /\ Closed(d, f[i]) \/ i + 1 <= Cardinality(f[i])
           I == {i \in 0..n : Good(i)}
<1>16. \A C \in T : IsFiniteSet(C) /\ Cardinality(C) \in Nat /\ Cardinality(C) <= n
  <2>1. P \subseteq DOMAIN d
    BY <1>3 DEF IsNode
  <2>2. QED
    BY <2>1, FS_Subset, FS_CardinalityType DEF T, n
<1>17. 0 \in I
  <2>1. Cardinality({p}) = 1
    BY FS_Singleton
  <2>2. f[0] = {p} /\ f[0] \in T
    BY <1>8, <1>15 DEF x
  <2>3. p \in f[0] /\ 0 + 1 <= Cardinality(f[0])
    BY <2>1, <2>2
  <2>4. 0 \in 0..n
    BY <1>2
  <2>5. QED
    BY <2>2, <2>3, <2>4
<1>18. ASSUME NEW i \in 1..n, i - 1 \in I PROVE i \in I
  <2> DEFINE C == f[i - 1]
             E == f[i]
  <2>1. C \in T /\ p \in C /\ (Closed(d, C) \/ (i - 1) + 1 <= Cardinality(C)) /\ E = Body(C)
    BY <1>15, <1>18
  <2>2. E \in T /\ C \subseteq E
    BY <1>6, <1>7, <2>1
  <2> HIDE DEF C, E
  <2>3. CASE Closed(d, C)
    <3>1. E = C
      BY <1>7, <2>1, <2>3
    <3>2. QED
      BY <1>2, <2>1, <2>3, <3>1 DEF E
  <2>4. CASE ~Closed(d, C)
    <3>1. E # C
      BY <1>7, <2>1, <2>4
    <3>2. Cardinality(C) <= Cardinality(E) /\ Cardinality(C) # Cardinality(E)
      BY <1>16, <2>2, <3>1, FS_Subset
    <3>3. Cardinality(C) \in Nat /\ Cardinality(E) \in Nat
      BY <1>16, <2>1, <2>2
    <3>4. i + 1 <= Cardinality(E)
      BY <2>1, <2>4, <3>2, <3>3
    <3>5. QED
      BY <1>2, <2>1, <2>2, <3>4 DEF E
  <2>5. QED
    BY <2>3, <2>4
<1>19. 0..n \subseteq I
  <2> HIDE DEF I
  <2>1. QED
    BY <1>2, <1>17, <1>18, IntervalInduction
<1>20. n \in 0..n /\ Good(n)
  BY <1>2, <1>19
<1>21. Closed(d, f[n])
  BY <1>2, <1>16, <1>20
<1>22. f[n] = P
  BY <1>1, <1>20, <1>21, ClosedIsAll DEF T
<1>23. QED
  BY <1>22 DEF PagesBelow, f, n

\* The pages that can be reached by the links of the free list are those on it.
LEMMA FreePagesIs ==
  ASSUME NEW d, NEW U, NEW fl, Space(d, U, fl)
  PROVE  FreePages(d, d[0].free) = ToSet(fl)
<1> DEFINE n == Cardinality(DOMAIN d)
           m == Len(fl)
           id == d[0].free
           g == [i \in 0..n |-> IF i < m THEN fl[i + 1] ELSE 0]
           Next1(page) == IF page = 0 THEN 0 ELSE d[page].left
<1>1. /\ fl \in Seq(Nat \ {0})
      /\ \A i, j \in 1..m : fl[i] = fl[j] => i = j
      /\ id = IF m = 0 THEN 0 ELSE fl[1]
      /\ \A i \in 1..m : d[fl[i]].left = IF i = m THEN 0 ELSE fl[i + 1]
      /\ ToSet(fl) \subseteq DOMAIN d /\ IsFiniteSet(DOMAIN d)
  BY DEF Space, FreeList
<1>2. /\ m \in Nat /\ n \in Nat
      /\ \A i \in 1..m : fl[i] \in ToSet(fl) /\ fl[i] \in Nat \ {0}
      /\ \A p \in ToSet(fl) : \E i \in 1..m : fl[i] = p
  BY <1>1, ListMembers, FS_CardinalityType
<1>3. m <= n
  <2>1. fl \in [1..m -> DOMAIN d]
    BY <1>1, <1>2, LenProperties
  <2>2. fl \in Injection(1..m, DOMAIN d)
    BY <1>1, <2>1 DEF Injection, IsInjective
  <2>3. Cardinality(1..m) <= n
    BY <1>1, <2>2, FS_Injection
  <2> HIDE DEF m, n
  <2>4. Cardinality(1..m) = m
    BY <1>2, FS_Interval
  <2>5. QED
    BY <2>3, <2>4
<1> HIDE DEF m, n, id
<1>4. /\ \A i \in 0..n : g[i] = IF i < m THEN fl[i + 1] ELSE 0
      /\ g \in [0..n -> Nat]
  <2>1. \A i \in 0..n : i < m => i + 1 \in 1..m
    BY <1>2
  <2>2. QED
    BY <1>2, <2>1
<1> HIDE DEF g
<1>5. g = [i \in 0..n |-> IF i = 0 THEN id ELSE Next1(g[i - 1])]
  <2>1. ASSUME NEW i \in 0..n PROVE g[i] = IF i = 0 THEN id ELSE Next1(g[i - 1])
    <3>1. CASE i = 0
      <4>1. 0 < m <=> m # 0
        BY <1>2
      <4>2. 0 + 1 = 1
        OBVIOUS
      <4>3. QED
        BY <1>1, <1>4, <3>1, <4>1, <4>2
    <3>2. CASE i # 0 /\ i - 1 < m
      <4>1. i \in 1..m /\ i - 1 \in 0..n /\ (i - 1) + 1 = i /\ (i < m <=> i # m)
        BY <1>2, <3>2
      <4>2. g[i - 1] = fl[i] /\ fl[i] # 0 /\ d[fl[i]].left = IF i = m THEN 0 ELSE fl[i + 1]
        BY <1>1, <1>2, <1>4, <3>2, <4>1
      <4>3. QED
        BY <1>4, <3>2, <4>1, <4>2
    <3>3. CASE i # 0 /\ ~(i - 1 < m)
      <4>1. i - 1 \in 0..n /\ ~(i < m)
        BY <1>2, <3>3
      <4>2. QED
        BY <1>4, <3>3, <4>1
    <3>4. QED
      BY <3>1, <3>2, <3>3
  <2>2. QED
    BY <1>4, <2>1
<1> DEFINE f == FreeLinks(d, id)
<1>6. f = [i \in 0..n |-> IF i = 0 THEN id ELSE Next1(f[i - 1])]
  BY <1>5, Zenon DEF FreeLinks, Next1, n
<1> HIDE DEF f
<1>7. \A i \in 0..n : f[i] = g[i]
  <2> DEFINE I == {i \in 0..n : f[i] = g[i]}
  <2>1. 0 \in I
    BY <1>2, <1>5, <1>6
  <2>2. ASSUME NEW i \in 1..n, i - 1 \in I PROVE i \in I
    <3>1. f[i] = Next1(f[i - 1]) /\ g[i] = Next1(g[i - 1]) /\ i \in 0..n
      BY <1>2, <1>5, <1>6
    <3>2. QED
      BY <2>2, <3>1
  <2> HIDE DEF I
  <2>3. 0..n \subseteq I
    BY <1>2, <2>1, <2>2, IntervalInduction
  <2>4. QED
    BY <2>3 DEF I
<1>8. FreePages(d, id) = {f[i] : i \in 0..n} \ {0}
  BY DEF FreePages, f, n
<1>9. \A i \in 0..n : f[i] # 0 => f[i] \in ToSet(fl)
  <2> SUFFICES ASSUME NEW i \in 0..n, f[i] # 0 PROVE f[i] \in ToSet(fl)
    OBVIOUS
  <2>1. i < m /\ f[i] = fl[i + 1]
    BY <1>4, <1>7
  <2>2. i + 1 \in 1..m
    BY <1>2, <2>1
  <2>3. QED
    BY <1>2, <2>1, <2>2
<1>10. \A p \in ToSet(fl) : p # 0 /\ \E i \in 0..n : f[i] = p
  <2> SUFFICES ASSUME NEW p \in ToSet(fl) PROVE p # 0 /\ \E i \in 0..n : f[i] = p
    OBVIOUS
  <2>1. PICK i \in 1..m : fl[i] = p
    BY <1>2
  <2>2. i - 1 \in 0..n /\ i - 1 < m /\ (i - 1) + 1 = i
    BY <1>2, <1>3
  <2>3. f[i - 1] = p
    BY <1>4, <1>7, <2>1, <2>2
  <2>4. QED
    BY <1>2, <2>1, <2>2, <2>3
<1>11. QED
  BY <1>8, <1>9, <1>10 DEF id

----------------------------------------------------------------------------
(* A split. *)

\* File g differs from that of x, in the pages U, by page id.
Rewritten(x, U, id, page, g) ==
  /\ id \in DOMAIN g /\ g[id] = page /\ g[0].root = x.root
  /\ \A p \in U \ {id} : p \in DOMAIN g /\ g[p] = x.disk[p]
  /\ \E fl : Space(g, U, fl)

\* What a split makes of a database.
SplitOf(x, U, fl, id, left, right, z, page) ==
  /\ IsDb(z) /\ z.root = x.root /\ (z.ok <=> Fits(left) /\ Fits(right))
  /\ page \notin U /\ page \in Nat \ {0}
  /\ \E rest : /\ Sound(z, U \cup {page}, rest)
               /\ Accounted(x.disk, U, fl) => Accounted(z.disk, U \cup {page}, rest)
  /\ \A p \in U \ {id} : z.disk[p] = x.disk[p]
  /\ z.disk[id] = IF Fits(left) THEN left ELSE x.disk[id]
  /\ Fits(right) => z.disk[page] = right
  /\ \A g \in ToSet(z.files) : \/ g \in ToSet(x.files)
                               \/ Untouched(x, U, g)
                               \/ Fits(left) /\ Rewritten(x, U, id, left, g)

\* The same database, whether an operation has failed or not.
SameDb(x, y) ==
  /\ IsDb(y) /\ y.disk = x.disk /\ y.files = x.files /\ y.root = x.root /\ Fields(y) = Fields(x)

\* Only whether the operation has failed changes.
LEMMA OkIs ==
  ASSUME NEW x, IsDb(x), NEW ok \in BOOLEAN, NEW y, y = [x EXCEPT !.ok = ok]
  PROVE  SameDb(x, y) /\ y.ok = ok
BY DEF IsDb, Fields, SameDb

\* The two halves of a split are written: the left one in place, the right one on a new page.
LEMMA SplitIs ==
  ASSUME NEW x, NEW U, NEW fl, Sound(x, U, fl), x.ok, NEW id \in U, NEW left, NEW right, NEW key
  PROVE  /\ SplitOf(x, U, fl, id, left, right, Split(x, id, left, key, right).x, Split(x, id, left, key, right).right)
         /\ Split(x, id, left, key, right).split /\ Split(x, id, left, key, right).key = key
<1> DEFINE page == AllocatedPage(x)
           y == AllocPage(x)
           l == WriteNode(y, id, left)
           m == [l EXCEPT !.ok = y.ok]
           r == WriteNode(m, page, right)
           z == [r EXCEPT !.ok = l.ok /\ r.ok]
           V == U \cup {page}
<1>1. Allocated(x, y, page, U, fl)
  BY AllocIs
<1>2. Split(x, id, left, key, right) = [x |-> z, split |-> TRUE, key |-> key, right |-> page]
  BY DEF Split
<1> HIDE DEF page, y
<1>3. PICK rest : Sound(y, V, rest) /\ (Accounted(x.disk, U, fl) => Accounted(y.disk, V, rest))
  BY <1>1 DEF Allocated
<1>4. /\ IsDb(y) /\ y.ok /\ y.root = x.root /\ page \notin U /\ page \in Nat \ {0}
      /\ \A p \in U : y.disk[p] = x.disk[p]
      /\ \A g \in ToSet(y.files) : g \in ToSet(x.files) \/ Untouched(x, U, g)
  BY <1>1 DEF Allocated
<1>5. page # id /\ id \in V /\ page \in V /\ U \subseteq V
  BY <1>4
<1>6. /\ Fits(left) => OneWrite(y, l, id, left)
      /\ ~Fits(left) => l = Fail(y)
  BY <1>4, WriteNodeIs
<1> HIDE DEF l
<1>7. /\ IsDb(l) /\ l.ok \in BOOLEAN /\ (l.ok <=> Fits(left)) /\ l.root = x.root /\ Fields(l) = Fields(y)
      /\ DOMAIN l.disk = DOMAIN y.disk
      /\ l.disk[id] = IF Fits(left) THEN left ELSE x.disk[id]
      /\ \A p \in V \ {id} : l.disk[p] = y.disk[p]
      /\ ToSet(l.files) \subseteq ToSet(y.files) \cup {l.disk}
      /\ ~Fits(left) => l.disk = y.disk /\ l.files = y.files
  <2>1. CASE Fits(left)
    <3>1. OneWrite(y, l, id, left) /\ DOMAIN l.disk = DOMAIN y.disk
      BY <1>3, <1>5, <1>6, <2>1, WriteSound
    <3>2. V \subseteq DOMAIN y.disk
      BY <1>3 DEF Sound, Space
    <3>3. QED
      BY <1>4, <2>1, <3>1, <3>2 DEF OneWrite, IsDb
  <2>2. CASE ~Fits(left)
    <3>1. IsDb(l) /\ ~l.ok /\ Fields(l) = Fields(y) /\ l.disk = y.disk /\ l.files = y.files /\ l.root = y.root
      BY <1>4, <1>6, <2>2, FailIs
    <3>2. QED
      BY <1>4, <2>2, <3>1 DEF IsDb
  <2>3. QED
    BY <2>1, <2>2
<1>8. Sound(l, V, rest)
  <2>1. CASE Fits(left)
    BY <1>3, <1>5, <1>6, <2>1, WriteSound
  <2>2. CASE ~Fits(left)
    BY <1>3, <1>6, <2>2, FailSound
  <2>3. QED
    BY <2>1, <2>2
<1>9. IsDb(m) /\ m.ok /\ m.disk = l.disk /\ m.files = l.files /\ m.root = l.root /\ Fields(m) = Fields(l)
  <2> DEFINE ok == y.ok
  <2>1. ok \in BOOLEAN /\ ok /\ m = [l EXCEPT !.ok = ok]
    BY <1>4 DEF IsDb
  <2> HIDE DEF m, ok
  <2>2. SameDb(l, m) /\ m.ok = ok
    BY <1>7, <2>1, OkIs
  <2>3. QED
    BY <2>1, <2>2 DEF SameDb
<1> HIDE DEF m
<1>10. Sound(m, V, rest)
  BY <1>8, <1>9 DEF Sound
<1>11. /\ Fits(right) => OneWrite(m, r, page, right)
       /\ ~Fits(right) => r = Fail(m)
  BY <1>9, WriteNodeIs
<1> HIDE DEF r
<1>12. /\ IsDb(r) /\ r.ok \in BOOLEAN /\ (r.ok <=> Fits(right)) /\ r.root = x.root /\ Fields(r) = Fields(m)
       /\ DOMAIN r.disk = DOMAIN l.disk
       /\ Fits(right) => r.disk[page] = right
       /\ \A p \in U : r.disk[p] = l.disk[p]
       /\ ToSet(r.files) \subseteq ToSet(l.files) \cup {r.disk}
  <2>1. CASE Fits(right)
    <3>1. OneWrite(m, r, page, right) /\ DOMAIN r.disk = DOMAIN m.disk
      BY <1>10, <1>5, <1>11, <2>1, WriteSound
    <3>2. U \subseteq DOMAIN m.disk \ {page}
      BY <1>4, <1>5, <1>10 DEF Sound, Space
    <3>3. QED
      BY <1>7, <1>9, <2>1, <3>1, <3>2 DEF OneWrite, IsDb
  <2>2. CASE ~Fits(right)
    <3>1. IsDb(r) /\ ~r.ok /\ Fields(r) = Fields(m) /\ r.disk = m.disk /\ r.files = m.files /\ r.root = m.root
      BY <1>9, <1>11, <2>2, FailIs
    <3>2. QED
      BY <1>7, <1>9, <2>2, <3>1 DEF IsDb
  <2>3. QED
    BY <2>1, <2>2
<1>13. Sound(r, V, rest)
  <2>1. CASE Fits(right)
    BY <1>10, <1>5, <1>11, <2>1, WriteSound
  <2>2. CASE ~Fits(right)
    BY <1>10, <1>11, <2>2, FailSound
  <2>3. QED
    BY <2>1, <2>2
<1>14. IsDb(z) /\ (z.ok <=> l.ok /\ r.ok) /\ z.disk = r.disk /\ z.files = r.files /\ z.root = r.root /\ Fields(z) = Fields(r)
  <2>1. (l.ok /\ r.ok) \in BOOLEAN
    OBVIOUS
  <2> DEFINE ok == l.ok /\ r.ok
  <2>2. z = [r EXCEPT !.ok = ok] /\ ok \in BOOLEAN
    BY <2>1
  <2> HIDE DEF z, ok
  <2>3. SameDb(r, z) /\ z.ok = ok
    BY <1>12, <2>2, OkIs
  <2>4. QED
    BY <2>3 DEF SameDb, ok
<1> HIDE DEF z
<1>15. Sound(z, V, rest)
  BY <1>13, <1>14 DEF Sound
<1>16. Accounted(x.disk, U, fl) => Accounted(z.disk, V, rest)
  BY <1>3, <1>7, <1>12, <1>14 DEF Accounted
<1>17. /\ \A p \in U \ {id} : l.disk[p] = x.disk[p] /\ r.disk[p] = x.disk[p]
       /\ r.disk[id] = l.disk[id]
  BY <1>4, <1>5, <1>7, <1>12
<1>18. \A d : d = l.disk \/ d = r.disk =>
         (Fits(left) /\ Rewritten(x, U, id, left, d)) \/ Untouched(x, U, d)
  <2> SUFFICES ASSUME NEW d, d = l.disk \/ d = r.disk
               PROVE  (Fits(left) /\ Rewritten(x, U, id, left, d)) \/ Untouched(x, U, d)
    OBVIOUS
  <2>1. Space(d, V, rest) /\ d[0] = Fields(y)
    BY <1>7, <1>8, <1>9, <1>12, <1>13 DEF Sound
  <2>2. Space(d, U, rest) /\ U \subseteq DOMAIN d /\ d[0] \in Headers
    <3>1. Space(d, U, rest)
      BY <1>5, <2>1, SpaceSmaller
    <3>2. QED
      BY <3>1 DEF Space
  <2>3. d[0].root = x.root
    BY <1>4, <2>1 DEF Fields
  <2>4. /\ \A p \in U \ {id} : d[p] = x.disk[p]
        /\ d[id] = IF Fits(left) THEN left ELSE x.disk[id]
    BY <1>7, <1>17
  <2>5. CASE Fits(left)
    BY <2>2, <2>3, <2>4, <2>5 DEF Rewritten
  <2>6. CASE ~Fits(left)
    BY <2>2, <2>3, <2>4, <2>6 DEF Untouched
  <2>7. QED
    BY <2>5, <2>6
<1>19. \A g \in ToSet(z.files) : \/ g \in ToSet(x.files)
                                 \/ Untouched(x, U, g)
                                 \/ Fits(left) /\ Rewritten(x, U, id, left, g)
  <2>1. \A g \in ToSet(z.files) : g \in ToSet(y.files) \/ g = l.disk \/ g = r.disk
    BY <1>7, <1>12, <1>14
  <2>2. QED
    BY <1>4, <1>18, <2>1
<1>20. SplitOf(x, U, fl, id, left, right, z, page)
  <2>1. z.root = x.root /\ (z.ok <=> Fits(left) /\ Fits(right)) /\ (Fits(right) => z.disk[page] = right)
    BY <1>7, <1>12, <1>14
  <2>2. (\A p \in U \ {id} : z.disk[p] = x.disk[p]) /\ z.disk[id] = IF Fits(left) THEN left ELSE x.disk[id]
    BY <1>7, <1>14, <1>17
  <2>3. QED
    BY <1>4, <1>14, <1>15, <1>16, <1>19, <2>1, <2>2 DEF SplitOf
<1>21. QED
  BY <1>2, <1>20

----------------------------------------------------------------------------
(* Files a crash may leave. *)

\* The pages P of a file are its tree; none of them is empty, but for an empty root.
Rooted(g, P) ==
  /\ Tree(g, P, g[0].root)
  /\ Full(g, P) \/ P = {g[0].root}

GoodFile(g) == \E P, fl : Space(g, P, fl) /\ Rooted(g, P)
GoodFiles(x) == \A g \in ToSet(x.files) : GoodFile(g)

\* The tree S of file d, and the way of a key in it.
Setting(d, S, b, k, path) ==
  /\ Forest(d, S, b) /\ k \in Keys /\ Way(d, S, k, path)
  /\ path[1] = d[0].root /\ b[path[1]] = S
  /\ Full(d, S) \/ S = {path[1]}

\* In file g the tree P has grown from what was at page id in file d.
Stands(d, S, b, k, id, g, P) ==
  /\ Tree(g, P, id) /\ Full(g, P) /\ P \cap (S \ b[id]) = {}
  /\ KeysIn(g, P) \subseteq KeysIn(d, b[id]) \cup {k}
  /\ g[0].root = d[0].root
  /\ \A p \in S \ b[id] : p \in DOMAIN g /\ g[p] = d[p]

\* The pages on the way of a key are pages of the tree.
LEMMA PathPages ==
  ASSUME NEW d, NEW S, NEW b, NEW k, NEW path, Setting(d, S, b, k, path), NEW j \in 1..Len(path)
  PROVE  /\ k \in Int /\ Len(path) \in Nat \ {0}
         /\ path[j] \in S /\ path[j] \in b[path[j]] /\ b[path[j]] \subseteq S /\ IsNode(d, path[j])
         /\ path[1] \in S
<1>1. Forest(d, S, b) /\ Way(d, S, k, path) /\ k \in Int /\ k \in Keys
  BY KeysAreNumbers DEF Setting
<1>2. path[j] \in S /\ b[path[j]] \subseteq S
  BY <1>1, WayNested
<1>3. Len(path) \in Nat \ {0} /\ 1 \in 1..Len(path)
  BY <1>1 DEF Way
<1>4. path[1] \in S
  BY <1>1, <1>3, WayNested
<1>5. QED
  BY <1>1, <1>2, <1>3, <1>4 DEF Forest, Ordered, Nodes

\* Such a file is as good as d.
LEMMA StandsGood ==
  ASSUME NEW d, NEW S, NEW b, NEW k, NEW path, Setting(d, S, b, k, path), NEW j \in 1..Len(path),
         NEW g, NEW P, Stands(d, S, b, k, path[j], g, P),
         NEW fl, Space(g, P \cup (S \ b[path[j]]), fl)
  PROVE  GoodFile(g)
<1> DEFINE id == path[j]
           Q == P \cup (S \ b[id])
<1>1. Forest(d, S, b) /\ Way(d, S, k, path) /\ k \in Int /\ b[path[1]] = S
  BY KeysAreNumbers DEF Setting
<1>2. Tree(g, Q, path[1])
  BY <1>1, Lift DEF Stands
<1>3. Full(g, S \ b[id])
  <2>1. CASE Full(d, S)
    BY <2>1 DEF Full, Stands
  <2>2. CASE S = {path[1]}
    <3>1. S \ b[id] = {}
      BY <2>2, PathPages
    <3>2. QED
      BY <3>1 DEF Full
  <2>3. QED
    BY <2>1, <2>2 DEF Setting
<1>4. Full(g, Q)
  BY <1>3, FullParts DEF Stands
<1>5. g[0].root = path[1]
  BY DEF Setting, Stands
<1>6. QED
  BY <1>2, <1>4, <1>5 DEF GoodFile, Rooted

\* It does not matter what the other pages are.
LEMMA StandsSame ==
  ASSUME NEW d, NEW S, NEW b, NEW k, NEW id, NEW g, NEW P, Stands(d, S, b, k, id, g, P),
         NEW g2, g2[0].root = g[0].root, \A p \in P \cup (S \ b[id]) : p \in DOMAIN g2 /\ g2[p] = g[p]
  PROVE  Stands(d, S, b, k, id, g2, P) /\ Held(g2, P) = Held(g, P) /\ KeysIn(g2, P) = KeysIn(g, P)
<1>1. Tree(g2, P, id)
  BY TreeSame DEF Stands
<1>2. KeysIn(g2, P) = KeysIn(g, P) /\ Held(g2, P) = Held(g, P)
  BY KeysInSame, HeldSame
<1>3. Full(g2, P)
  BY DEF Stands, Full
<1>4. QED
  BY <1>1, <1>2, <1>3 DEF Stands

----------------------------------------------------------------------------
(* Results of an insertion. *)

\* In file g, tree P is at page id; pages R are a tree to the right of it, if there are any.
Pieces(d, S, b, k, id, g, P, R) ==
  /\ Tree(g, P, id) /\ P \cap R = {} /\ (P \cup R) \cap (S \ b[id]) = {}
  /\ KeysIn(g, P) \subseteq KeysIn(d, b[id]) \cup {k} /\ KeysIn(g, R) \subseteq KeysIn(d, b[id]) \cup {k}
  /\ \A p \in S \ b[id] : g[p] = d[p]

\* The page and the key that are to be linked.
Parted(d, b, k, id, g, P, R, r) ==
  /\ Tree(g, R, r.right) /\ r.key \in Keys /\ r.key \in KeysIn(d, b[id]) \cup {k}
  /\ \A q \in KeysIn(g, P) : q < r.key
  /\ \A q \in KeysIn(g, R) : r.key <= q

Succeeded(d, S, b, k, v, acc, id, r, P, R, fl) ==
  LET g == r.x.disk
  IN /\ Full(g, P \cup R)
     /\ Held(g, P \cup R) = Upsert(Held(d, b[id]), k, v)
     /\ acc => Accounted(g, P \cup R \cup (S \ b[id]), fl)
     /\ IF r.split THEN Parted(d, b, k, id, g, P, R, r) ELSE R = {}

Failed(d, b, id, g, P, R) ==
  /\ R = {} /\ (Full(g, P) \/ P = {d[0].root})
  /\ EvenSizes => Held(g, P) = Held(d, b[id])

InsertedAt(d, S, b, k, v, acc, id, r) ==
  /\ r.x.root = d[0].root /\ GoodFiles(r.x) /\ r.split \in BOOLEAN
  /\ \E P, R, fl :
       /\ Sound(r.x, P \cup R \cup (S \ b[id]), fl)
       /\ Pieces(d, S, b, k, id, r.x.disk, P, R)
       /\ r.x.ok => Succeeded(d, S, b, k, v, acc, id, r, P, R, fl)
       /\ ~r.x.ok => Failed(d, b, id, r.x.disk, P, R)

\* A database before an operation.
Ready(x, d, S, fl, acc) ==
  /\ Sound(x, S, fl) /\ x.disk = d /\ x.ok /\ x.root = d[0].root /\ GoodFiles(x)
  /\ acc => Accounted(d, S, fl)

\* A leaf is written where a leaf was.
LeafAt(d, S, b, k, id, g, new) ==
  /\ b[id] = {id} /\ Stands(d, S, b, k, id, g, {id})
  /\ Held(g, {id}) = Records(new) /\ KeysIn(g, {id}) = KeysAt(new)

\* A leaf rewritten with records between its neighbours' stands where the old one stood.
LEMMA LeafStands ==
  ASSUME NEW d, NEW S, NEW b, NEW k, NEW path, Setting(d, S, b, k, path), NEW j \in 1..Len(path),
         NEW id, id = path[j], d[id] \in LeafPage,
         NEW new \in LeafPage, Sorted(new.entries), Fits(new), new.entries # <<>>,
         KeysAt(new) \subseteq KeysAt(d[id]) \cup {k},
         NEW g, id \in DOMAIN g, g[id] = new, g[0].root = d[0].root,
         \A p \in S \ {id} : p \in DOMAIN g /\ g[p] = d[p]
  PROVE  LeafAt(d, S, b, k, id, g, new)
<1>1. id \in S /\ id \in Nat \ {0}
  BY PathPages DEF IsNode
<1>2. Forest(d, S, b)
  BY DEF Setting
<1>3. b[id] = {id}
  BY <1>1, <1>2 DEF Forest, Linked
<1>4. IsNode(g, id)
  BY <1>1 DEF IsNode
<1>5. Tree(g, {id}, id)
  BY <1>4, TreeOfLeaf
<1>6. KeysIn(g, {id}) = KeysAt(new) /\ Held(g, {id}) = Records(new) /\ KeysIn(d, {id}) = KeysAt(d[id])
  BY DEF KeysIn, Held
<1>7. Full(g, {id})
  BY DEF Full
<1>8. QED
  BY <1>3, <1>5, <1>6, <1>7 DEF Stands, LeafAt

\* Nothing has been written.
LEMMA InsertFails ==
  ASSUME NEW d, NEW S, NEW b, NEW k, NEW path, Setting(d, S, b, k, path), NEW j \in 1..Len(path),
         NEW x, NEW fl, NEW acc, Ready(x, d, S, fl, acc), NEW v
  PROVE  InsertedAt(d, S, b, k, v, acc, path[j], Done(Fail(x)))
<1> DEFINE y == Fail(x)
           id == path[j]
           P == b[id]
           R == {}
           r == Done(y)
<1>1. Sound(x, S, fl) /\ x.disk = d /\ IsDb(x) /\ x.root = d[0].root /\ GoodFiles(x)
  BY DEF Ready, Sound
<1>2. Sound(y, S, fl) /\ IsDb(y) /\ ~y.ok /\ y.disk = d /\ y.files = x.files /\ y.root = x.root
  BY <1>1, FailIs, FailSound
<1> HIDE DEF y
<1>3. id \in S /\ P \subseteq S /\ Forest(d, S, b) /\ Setting(d, S, b, k, path)
  <2>1. id \in S /\ P \subseteq S
    BY PathPages
  <2>2. QED
    BY <2>1 DEF Setting
<1> HIDE DEF id
<1>4. Tree(d, P, id)
  BY <1>3, TreeBelow
<1>5. S = P \cup R \cup (S \ b[id])
  BY <1>3
<1>6. Pieces(d, S, b, k, id, d, P, R)
  BY <1>4 DEF Pieces, KeysIn
<1>7. Full(d, P) \/ P = {d[0].root}
  <2>1. id \in P
    BY <1>4 DEF Tree
  <2>2. QED
    BY <1>3, <2>1 DEF Full, Setting
<1>8. Failed(d, b, id, d, P, R)
  BY <1>7 DEF Failed
<1>9. GoodFiles(y)
  BY <1>1, <1>2 DEF GoodFiles
<1>10. r.x = y /\ r.split = FALSE
  BY DEF Done
<1> HIDE DEF r, P, R
<1>11. Sound(y, P \cup R \cup (S \ b[id]), fl)
  BY <1>2, <1>5
<1>12. InsertedAt(d, S, b, k, v, acc, id, r)
  BY <1>1, <1>2, <1>6, <1>8, <1>9, <1>10, <1>11 DEF InsertedAt
<1>13. QED
  BY <1>12 DEF r, y, id

\* The leaf with the new record has been written in its place.
LEMMA LeafWritten ==
  ASSUME NEW d, NEW S, NEW b, NEW k, NEW path, Setting(d, S, b, k, path), NEW j \in 1..Len(path),
         NEW id, id = path[j], d[id] \in LeafPage,
         NEW x, NEW fl, NEW acc, Ready(x, d, S, fl, acc), NEW v,
         NEW new, Grew(d[id], new, k, v), NEW y, y = WriteNode(x, id, new)
  PROVE  InsertedAt(d, S, b, k, v, acc, id, Done(y))
<1>1. Sound(x, S, fl) /\ x.disk = d /\ IsDb(x) /\ x.ok /\ x.root = d[0].root /\ GoodFiles(x) /\ (acc => Accounted(d, S, fl))
  BY DEF Ready, Sound
<1>2. CASE ~Fits(new)
  <2>1. y = Fail(x)
    BY <1>1, <1>2, WriteNodeIs
  <2>2. QED
    BY <2>1, InsertFails
<1>3. CASE Fits(new)
  <2> DEFINE P == {id}
             R == {}
             r == Done(y)
             g == y.disk
  <2>1. OneWrite(x, y, id, new)
    BY <1>1, <1>3, WriteNodeIs
  <2>2. id \in S
    BY PathPages
  <2>3. Sound(y, S, fl) /\ DOMAIN g = DOMAIN d
    BY <1>1, <2>1, <2>2, WriteSound
  <2>4. S \subseteq DOMAIN d /\ 0 \notin S /\ 0 \in DOMAIN d /\ Space(g, S, fl)
    BY <1>1, <2>3 DEF Sound, Space
  <2>5. /\ g[id] = new /\ y.ok /\ y.root = d[0].root /\ id \in DOMAIN g
        /\ \A p \in S \ {id} : p \in DOMAIN g /\ g[p] = d[p]
        /\ g[0].root = d[0].root
        /\ ToSet(y.files) = ToSet(x.files) \cup {g}
    BY <1>1, <2>1, <2>2, <2>3, <2>4 DEF OneWrite
  <2> HIDE DEF g
  <2>6. new \in LeafPage /\ Sorted(new.entries) /\ new.entries # <<>> /\ KeysAt(new) \subseteq KeysAt(d[id]) \cup {k}
        /\ Records(new) = Upsert(Records(d[id]), k, v)
    BY DEF Grew
  <2>7. /\ b[id] = {id} /\ Stands(d, S, b, k, id, g, {id})
        /\ Held(g, {id}) = Records(new) /\ KeysIn(g, {id}) = KeysAt(new)
    <3>1. LeafAt(d, S, b, k, id, g, new)
      BY <1>3, <2>5, <2>6, LeafStands
    <3>2. QED
      BY <3>1 DEF LeafAt
  <2>8. S = P \cup R \cup (S \ b[id]) /\ S = P \cup (S \ b[id]) /\ P \cup R = P
    BY <2>2, <2>7
  <2>9. GoodFile(g)
    <3>1. Space(g, P \cup (S \ b[path[j]]), fl) /\ Stands(d, S, b, k, path[j], g, P)
      BY <2>4, <2>7, <2>8
    <3> HIDE DEF P
    <3>2. QED
      BY <3>1, StandsGood
  <2>10. GoodFiles(y)
    <3> SUFFICES ASSUME NEW h \in ToSet(y.files) PROVE GoodFile(h)
      BY DEF GoodFiles
    <3>1. h = g \/ h \in ToSet(x.files)
      BY <2>5
    <3>2. QED
      BY <1>1, <2>9, <3>1 DEF GoodFiles
  <2>11. Pieces(d, S, b, k, id, g, P, R)
    BY <2>7 DEF Pieces, Stands, KeysIn
  <2>12. r.x = y /\ r.split = FALSE
    BY DEF Done
  <2>13. Held(d, b[id]) = Records(d[id])
    BY <2>7 DEF Held
  <2> HIDE DEF P, R, r
  <2>14. Succeeded(d, S, b, k, v, acc, id, r, P, R, fl)
    <3>1. Full(g, P \cup R)
      BY <2>7, <2>8 DEF Stands, P
    <3>2. Held(g, P \cup R) = Upsert(Held(d, b[id]), k, v)
      BY <2>6, <2>7, <2>8, <2>13 DEF P
    <3>3. acc => Accounted(g, P \cup R \cup (S \ b[id]), fl)
      BY <1>1, <2>3, <2>8 DEF Accounted
    <3>4. QED
      BY <2>12, <3>1, <3>2, <3>3 DEF Succeeded, R, g
  <2>15. Sound(y, P \cup R \cup (S \ b[id]), fl)
    BY <2>3, <2>8
  <2>16. InsertedAt(d, S, b, k, v, acc, id, r)
    BY <2>5, <2>10, <2>11, <2>12, <2>14, <2>15 DEF InsertedAt, g
  <2>17. QED
    BY <2>16 DEF r
<1>4. QED
  BY <1>2, <1>3

\* The middle of the entries of a page.
LEMMA Halving ==
  ASSUME NEW n \in Nat, NEW m, m = n \div 2
  PROVE  m \in Nat /\ (m # 0 <=> n >= 2) /\ (n >= 2 => m \in 1..(n - 1)) /\ (n >= 3 => n - m - 1 >= 1)
OBVIOUS

\* Files made while the first page is allocated are good.
LEMMA FirstUntouchedGood ==
  ASSUME NEW d, NEW S, NEW b, NEW k, NEW path, Setting(d, S, b, k, path),
         NEW x, x.disk = d, x.root = d[0].root, NEW g, Untouched(x, S, g)
  PROVE  GoodFile(g)
<1>1. Forest(d, S, b) /\ path[1] \in S /\ b[path[1]] = S /\ path[1] = d[0].root /\ (Full(d, S) \/ S = {path[1]})
  <2>1. Forest(d, S, b) /\ Way(d, S, k, path)
    BY DEF Setting
  <2>2. 1 \in 1..Len(path)
    BY <2>1 DEF Way
  <2>3. path[1] \in S
    BY <2>2, PathPages
  <2>4. QED
    BY <2>1, <2>3 DEF Setting
<1>2. Tree(d, S, path[1])
  BY <1>1, TreeBelow
<1>3. PICK fl : Space(g, S, fl)
  BY DEF Untouched
<1>4. g[0].root = path[1] /\ \A p \in S : p \in DOMAIN g /\ g[p] = d[p]
  BY <1>1 DEF Untouched
<1>5. Tree(g, S, path[1])
  BY <1>2, <1>4, TreeSame
<1>6. Full(g, S) \/ S = {path[1]}
  BY <1>1, <1>4 DEF Full
<1>7. QED
  BY <1>3, <1>4, <1>5, <1>6 DEF GoodFile, Rooted

\* The leaf with the new record has been split.
LEMMA LeafParted ==
  ASSUME NEW d, NEW S, NEW b, NEW k, NEW path, Setting(d, S, b, k, path), NEW j \in 1..Len(path),
         NEW id, id = path[j], d[id] \in LeafPage,
         NEW x, NEW fl, NEW acc, Ready(x, d, S, fl, acc), NEW v,
         NEW new, Grew(d[id], new, k, v), NEW left, NEW right, NEW key, LeafHalves(new, left, right, key),
         EvenSizes => Fits(left) /\ Fits(right), NEW r, r = Split(x, id, left, key, right)
  PROVE  InsertedAt(d, S, b, k, v, acc, id, r)
<1>1. Sound(x, S, fl) /\ x.disk = d /\ x.ok /\ x.root = d[0].root /\ GoodFiles(x) /\ (acc => Accounted(d, S, fl))
  BY DEF Ready
<1>2. id \in S
  BY PathPages
<1> DEFINE z == r.x
           page == r.right
           g == z.disk
<1>3. SplitOf(x, S, fl, id, left, right, z, page) /\ r.split /\ r.key = key
  BY <1>1, <1>2, SplitIs
<1> HIDE DEF z, page
<1>4. PICK rest : Sound(z, S \cup {page}, rest) /\ (acc => Accounted(g, S \cup {page}, rest))
  BY <1>1, <1>3 DEF SplitOf
<1>5. /\ IsDb(z) /\ z.root = d[0].root /\ (z.ok <=> Fits(left) /\ Fits(right))
      /\ page \notin S /\ page \in Nat \ {0}
      /\ \A p \in S \ {id} : g[p] = d[p]
      /\ g[id] = (IF Fits(left) THEN left ELSE d[id])
      /\ Fits(right) => g[page] = right
      /\ \A f \in ToSet(z.files) : f \in ToSet(x.files) \/ Untouched(x, S, f) \/ (Fits(left) /\ Rewritten(x, S, id, left, f))
  BY <1>1, <1>3 DEF SplitOf
<1>6. Space(g, S \cup {page}, rest) /\ g[0] = Fields(z) /\ S \cup {page} \subseteq DOMAIN g
  BY <1>4 DEF Sound, Space
<1>7. g[0].root = d[0].root
  BY <1>5, <1>6 DEF Fields
<1>8. /\ left \in LeafPage /\ right \in LeafPage /\ Sorted(left.entries) /\ Sorted(right.entries)
      /\ left.entries # <<>> /\ right.entries # <<>>
      /\ key \in Keys /\ key \in KeysAt(d[id]) \cup {k}
      /\ Records(left) \cup Records(right) = Upsert(Records(d[id]), k, v)
      /\ KeysAt(left) \subseteq KeysAt(d[id]) \cup {k} /\ KeysAt(right) \subseteq KeysAt(d[id]) \cup {k}
      /\ \A q \in KeysAt(left) : q < key
      /\ \A q \in KeysAt(right) : key <= q
  BY DEF LeafHalves, Grew
<1> HIDE DEF g
<1>9. ASSUME NEW f, f[id] = left, id \in DOMAIN f, f[0].root = d[0].root, Fits(left),
             \A p \in S \ {id} : p \in DOMAIN f /\ f[p] = d[p]
      PROVE  LeafAt(d, S, b, k, id, f, left)
  BY <1>8, <1>9, LeafStands
<1>10. b[id] = {id} /\ Forest(d, S, b)
  BY <1>2 DEF Setting, Forest, Linked
<1>11. S = {id} \cup (S \ b[id]) /\ S \cup {page} = {id} \cup {page} \cup (S \ b[id]) /\ S = {id} \cup {} \cup (S \ b[id])
  BY <1>2, <1>10
<1>12. GoodFiles(z)
  <2> SUFFICES ASSUME NEW f \in ToSet(z.files) PROVE GoodFile(f)
    BY DEF GoodFiles
  <2>1. CASE f \in ToSet(x.files)
    BY <1>1, <2>1 DEF GoodFiles
  <2>2. CASE Untouched(x, S, f)
    BY <1>1, <2>2, FirstUntouchedGood
  <2>3. CASE Fits(left) /\ Rewritten(x, S, id, left, f)
    <3>1. PICK fl2 : Space(f, S, fl2)
      BY <2>3 DEF Rewritten
    <3>2. LeafAt(d, S, b, k, id, f, left)
      BY <1>1, <1>9, <2>3 DEF Rewritten
    <3>3. Stands(d, S, b, k, id, f, {id})
      BY <3>2 DEF LeafAt
    <3>4. Stands(d, S, b, k, path[j], f, {id}) /\ Space(f, {id} \cup (S \ b[path[j]]), fl2)
      BY <1>11, <3>1, <3>3
    <3>5. QED
      BY <3>4, StandsGood
  <2>4. QED
    BY <1>5, <2>1, <2>2, <2>3
<1>13. KeysIn(d, b[id]) = KeysAt(d[id]) /\ Held(d, b[id]) = Records(d[id])
  BY <1>10 DEF KeysIn, Held
<1>14. ASSUME Fits(left)
       PROVE  Tree(g, {id}, id) /\ Full(g, {id}) /\ KeysIn(g, {id}) = KeysAt(left) /\ Held(g, {id}) = Records(left)
  <2>1. /\ g[id] = left /\ id \in DOMAIN g
        /\ \A p \in S \ {id} : p \in DOMAIN g /\ g[p] = d[p]
    BY <1>2, <1>5, <1>6, <1>14
  <2>2. LeafAt(d, S, b, k, id, g, left)
    BY <1>7, <1>9, <1>14, <2>1
  <2>3. QED
    BY <2>2 DEF LeafAt, Stands
<1>15. CASE z.ok
  <2> DEFINE P == {id}
             R == {page}
  <2>1. IsNode(g, page) /\ g[page] = right
    <3>1. g[page] = right /\ Fits(right) /\ page \in DOMAIN g
      BY <1>5, <1>6, <1>15
    <3>2. QED
      BY <1>5, <1>8, <3>1 DEF IsNode
  <2>2. Tree(g, R, page)
    BY <1>8, <2>1, TreeOfLeaf
  <2>3. KeysIn(g, R) = KeysAt(right) /\ Held(g, R) = Records(right) /\ Full(g, R)
    BY <1>8, <2>1 DEF KeysIn, Held, Full
  <2>4. Tree(g, P, id) /\ Full(g, P) /\ KeysIn(g, P) = KeysAt(left) /\ Held(g, P) = Records(left)
    BY <1>5, <1>14, <1>15
  <2>5. P \cap R = {} /\ (P \cup R) \cap (S \ b[id]) = {}
    BY <1>2, <1>5, <1>10
  <2> HIDE DEF P, R
  <2>6. \A p \in S \ b[id] : g[p] = d[p]
    BY <1>5, <1>10
  <2>7. Pieces(d, S, b, k, id, g, P, R)
    BY <1>8, <1>13, <2>2, <2>3, <2>4, <2>5, <2>6 DEF Pieces
  <2>8. Parted(d, b, k, id, g, P, R, r)
    BY <1>3, <1>8, <1>13, <2>2, <2>3, <2>4 DEF Parted, page
  <2>9. Full(g, P \cup R)
    BY <2>3, <2>4, FullParts
  <2>10. Held(g, P \cup R) = Upsert(Held(d, b[id]), k, v)
    <3>1. Held(g, P \cup R) = Held(g, P) \cup Held(g, R)
      BY HeldInUnion
    <3>2. QED
      BY <1>8, <1>13, <2>3, <2>4, <3>1
  <2>11. S \cup {page} = P \cup R \cup (S \ b[id])
    BY <1>11 DEF P, R
  <2>12. Succeeded(d, S, b, k, v, acc, id, r, P, R, rest)
    BY <1>3, <1>4, <2>8, <2>9, <2>10, <2>11 DEF Succeeded, g, z
  <2>13. Sound(z, P \cup R \cup (S \ b[id]), rest)
    BY <1>4, <2>11
  <2>14. QED
    BY <1>3, <1>5, <1>12, <1>15, <2>7, <2>12, <2>13 DEF InsertedAt, z, g
<1>16. CASE ~z.ok
  <2> DEFINE P == {id}
             R == {}
  <2>1. ~EvenSizes
    BY <1>5, <1>16
  <2>2. Tree(g, P, id) /\ (Full(g, P) \/ P = {d[0].root}) /\ KeysIn(g, P) \subseteq KeysIn(d, b[id]) \cup {k}
    <3>1. CASE Fits(left)
      BY <1>8, <1>13, <1>14, <3>1
    <3>2. CASE ~Fits(left)
      <4>1. g[id] = d[id]
        BY <1>5, <3>2
      <4>2. Tree(d, P, id)
        <5>1. Tree(d, b[id], id)
          BY <1>2, <1>10, TreeBelow
        <5>2. QED
          BY <1>10, <5>1 DEF P
      <4>3. Tree(g, P, id)
        BY <1>2, <1>6, <4>1, <4>2, TreeSame
      <4>4. KeysIn(g, P) = KeysAt(d[id])
        BY <4>1 DEF KeysIn
      <4>5. Full(g, P) \/ P = {d[0].root}
        BY <1>2, <4>1 DEF Full, Setting
      <4>6. QED
        BY <1>13, <4>3, <4>4, <4>5
    <3>3. QED
      BY <3>1, <3>2
  <2>3. \A p \in S \ b[id] : g[p] = d[p]
    BY <1>5, <1>10
  <2>4. KeysIn(g, R) = {} /\ P \cap R = {} /\ (P \cup R) \cap (S \ b[id]) = {}
    BY <1>10 DEF KeysIn
  <2>5. Sound(z, S, rest)
    <3>1. Space(g, S, rest)
      BY <1>6, SpaceSmaller
    <3>2. QED
      BY <1>4, <3>1 DEF Sound, g
  <2>6. S = P \cup R \cup (S \ b[id]) /\ R = {}
    BY <1>11
  <2> HIDE DEF P, R
  <2>7. Pieces(d, S, b, k, id, g, P, R)
    BY <2>2, <2>3, <2>4 DEF Pieces
  <2>8. Failed(d, b, id, g, P, R)
    BY <2>1, <2>2, <2>6 DEF Failed
  <2>9. Sound(z, P \cup R \cup (S \ b[id]), rest)
    BY <2>5, <2>6
  <2>10. QED
    BY <1>3, <1>5, <1>12, <1>16, <2>7, <2>8, <2>9 DEF InsertedAt, z, g
<1>17. QED
  BY <1>15, <1>16

\* insert_recursive at the leaf that the key belongs to.
LEMMA LeafInsertIs ==
  ASSUME NEW d, NEW S, NEW b, NEW k, NEW path, Setting(d, S, b, k, path), NEW j \in 1..Len(path),
         NEW id, id = path[j], d[id] \in LeafPage,
         NEW x, NEW fl, NEW acc, Ready(x, d, S, fl, acc), NEW v, <<k, v>> \in Entries
  PROVE  InsertedAt(d, S, b, k, v, acc, id, LeafInsert(x, id, k, v))
<1> DEFINE page == d[id]
           pos == LeafSlot(page, k)
           new == [key |-> k, value |-> v]
           all == InsertAt(page.entries, pos, new)
           over == ReplaceAt(page.entries, pos, new)
           n == Len(all)
           mid == n \div 2
           left == Leaf(SubSeq(all, 1, mid))
           right == Leaf(SubSeq(all, mid + 1, n))
           key == all[mid + 1].key
<1>1. x.disk = d /\ IsNode(d, id) /\ k \in Keys
  <2>1. IsNode(d, path[j])
    BY PathPages
  <2>2. QED
    BY <2>1 DEF Setting, Ready
<1>2. IsLeaf(x.disk, id)
  BY <1>1, InnerIs
<1>3. page \in LeafPage /\ Sorted(page.entries) /\ Fits(page)
  BY <1>1 DEF IsNode
<1>4. LeafInsert(x, id, k, v) =
        IF InLeaf(page, k) THEN Done(WriteNode(x, id, Leaf(over)))
        ELSE IF Fits(Leaf(all)) THEN Done(WriteNode(x, id, Leaf(all)))
        ELSE IF mid = 0 THEN Done(Fail(x))
        ELSE Split(x, id, left, key, right)
  BY <1>1, <1>2 DEF LeafInsert
<1> HIDE DEF page
<1>5. CASE InLeaf(page, k)
  <2>1. Grew(page, Leaf(over), k, v)
    BY <1>1, <1>3, <1>5, LeafReplace
  <2> HIDE DEF over, all, left, right, key
  <2>2. InsertedAt(d, S, b, k, v, acc, id, Done(WriteNode(x, id, Leaf(over))))
    <3> DEFINE y == WriteNode(x, id, Leaf(over))
    <3>1. y = WriteNode(x, id, Leaf(over)) /\ Grew(d[id], Leaf(over), k, v)
      BY <2>1 DEF page
    <3> HIDE DEF y
    <3>2. InsertedAt(d, S, b, k, v, acc, id, Done(y))
      BY <3>1, LeafWritten
    <3>3. QED
      BY <3>2 DEF y
  <2>3. QED
    BY <1>4, <1>5, <2>2
<1>6. CASE ~InLeaf(page, k)
  <2>1. Grew(page, Leaf(all), k, v) /\ all \in Seq(LeafRecord) /\ n = Len(page.entries) + 1
    BY <1>1, <1>3, <1>6, LeafInsertAt
  <2> HIDE DEF all, over
  <2>2. CASE Fits(Leaf(all))
    <3> DEFINE y == WriteNode(x, id, Leaf(all))
    <3>1. y = WriteNode(x, id, Leaf(all)) /\ Grew(d[id], Leaf(all), k, v)
      BY <2>1 DEF page
    <3>2. LeafInsert(x, id, k, v) = Done(y)
      BY <1>4, <1>6, <2>2
    <3> HIDE DEF y
    <3>3. InsertedAt(d, S, b, k, v, acc, id, Done(y))
      BY <3>1, LeafWritten
    <3>4. QED
      BY <3>2, <3>3
  <2>3. CASE ~Fits(Leaf(all)) /\ mid = 0
    <3>1. InsertedAt(d, S, b, k, v, acc, id, Done(Fail(x)))
      BY InsertFails
    <3>2. QED
      BY <1>4, <1>6, <2>3, <3>1
  <2>4. CASE ~Fits(Leaf(all)) /\ mid # 0
    <3> DEFINE r == Split(x, id, left, key, right)
               nl == SubSeq(all, 1, mid)
               nr == SubSeq(all, mid + 1, n)
    <3>1. n \in Nat /\ mid \in 1..(n - 1) /\ Len(page.entries) \in Nat
      <4>1. Len(page.entries) \in Nat
        BY <1>3, KeysOfPage
      <4>2. n \in Nat /\ mid = n \div 2 /\ mid # 0
        <5>1. n \in Nat
          BY <2>1, <4>1
        <5>2. mid # 0
          BY <2>4
        <5>3. QED
          BY <5>1, <5>2
      <4> HIDE DEF n, mid
      <4>3. mid \in 1..(n - 1)
        BY <4>2, Halving
      <4>4. QED
        BY <4>1, <4>2, <4>3
    <3>2. Leaf(all).entries = all
      BY DEF Leaf, Page
    <3>3. Sorted(all)
      BY <2>1, <3>2 DEF Grew
    <3>4. LeafHalves(Leaf(all), left, right, key) /\ Len(nl) = mid /\ Len(nr) = n - mid
      <4>1. all \in Seq(LeafRecord) /\ Sorted(all) /\ mid \in 1..(Len(all) - 1)
        BY <2>1, <3>1, <3>3
      <4> HIDE DEF mid
      <4>2. HalvesAt(all, mid)
        BY <4>1, LeafSplit
      <4>3. QED
        BY <4>2 DEF HalvesAt
    <3>5. left.entries = nl /\ right.entries = nr
      BY DEF Leaf, Page
    <3> HIDE DEF left, right, key, nl, nr, mid
    <3>6. EvenSizes => Fits(left) /\ Fits(right)
      <4>1. left \in LeafPage /\ right \in LeafPage
        BY <3>4 DEF LeafHalves
      <4>2. Len(left.entries) <= Len(page.entries) /\ Len(right.entries) <= Len(page.entries)
        BY <2>1, <3>1, <3>4, <3>5
      <4>3. QED
        BY <1>3, <4>1, <4>2, EvenFits
    <3>7. LeafInsert(x, id, k, v) = r
      BY <1>4, <1>6, <2>4
    <3>8. Grew(d[id], Leaf(all), k, v)
      BY <2>1 DEF page
    <3>9. r = Split(x, id, left, key, right)
      OBVIOUS
    <3> HIDE DEF r
    <3>10. InsertedAt(d, S, b, k, v, acc, id, r)
      BY <3>4, <3>6, <3>8, <3>9, LeafParted
    <3>11. QED
      BY <3>7, <3>10
  <2>5. QED
    BY <2>2, <2>3, <2>4
<1>7. QED
  BY <1>5, <1>6

----------------------------------------------------------------------------
(* An internal page on the way. *)

\* In file f page p is above the pages A, which are as in file g.
Placed(f, g, p, page, A) ==
  /\ Tree(f, {p} \cup A, p)
  /\ KeysIn(f, {p} \cup A) = KeysAt(page) \cup KeysIn(g, A)
  /\ Held(f, {p} \cup A) = Held(g, A)
  /\ page.entries # <<>> /\ Full(g, A) => Full(f, {p} \cup A)

\* A page written over some trees makes them one.
LEMMA PlacedIs ==
  ASSUME NEW g, NEW page, NEW G, Family(g, page, G), Fits(page), NEW A, A = AllOf(page, G),
         NEW f, NEW p \in Nat \ {0}, p \in DOMAIN f, f[p] = page, p \notin A,
         \A q \in A : q \in DOMAIN f /\ f[q] = g[q]
  PROVE  Placed(f, g, p, page, A)
<1>1. page \in InnerPage /\ Sorted(page.entries)
  BY DEF Family
<1>2. IsNode(f, p)
  BY <1>1 DEF IsNode
<1>3. Family(f, page, G)
  BY FamilySame
<1>4. Tree(f, {p} \cup A, p)
  <2>1. Family(f, f[p], G) /\ p \notin AllOf(f[p], G)
    BY <1>3
  <2>2. Tree(f, {p} \cup AllOf(f[p], G), p)
    BY <1>2, <2>1, TreeJoin
  <2>3. QED
    BY <2>2
<1>5. KeysIn(f, {p}) = KeysAt(page) /\ Held(f, {p}) = {}
  <2>1. Records(page) = {}
    BY <1>1, RecordsOfPage
  <2>2. QED
    BY <2>1 DEF KeysIn, Held
<1>6. KeysIn(f, A) = KeysIn(g, A) /\ Held(f, A) = Held(g, A)
  BY KeysInSame, HeldSame
<1>7. KeysIn(f, {p} \cup A) = KeysIn(f, {p}) \cup KeysIn(f, A)
  BY KeysInUnion
<1>8. Held(f, {p} \cup A) = Held(f, {p}) \cup Held(f, A)
  BY HeldInUnion
<1>9. page.entries # <<>> /\ Full(g, A) => Full(f, {p} \cup A)
  BY DEF Full
<1>10. QED
  BY <1>4, <1>5, <1>6, <1>7, <1>8, <1>9 DEF Placed

\* What is around the child c of page a, in file d and in a file g that differs below c only.
Around(d, S, b, k, a, c, g) ==
  LET rest == b[a] \ b[c]
      beside == Beside(b, a, c)
      s == Route(d[a], k)
  IN /\ rest = {a} \cup beside /\ a \notin beside /\ b[a] = b[c] \cup rest
     /\ KeysIn(g, rest) = KeysIn(d, rest) /\ KeysIn(d, rest) \subseteq KeysIn(d, b[a])
     /\ KeysIn(g, beside) = KeysIn(d, beside) /\ KeysIn(d, beside) \subseteq KeysIn(d, b[a])
     /\ KeysIn(d, b[c]) \subseteq KeysIn(d, b[a]) /\ KeysAt(d[a]) \subseteq KeysIn(d, b[a])
     /\ Held(g, rest) = Held(d, rest) /\ Held(g, beside) = Held(d, rest)
     /\ Held(d, b[a]) = Held(d, b[c]) \cup Held(d, rest)
     /\ \A e \in Held(d, rest) : e.key # k
     /\ \A q \in KeysIn(d, b[c]) \cup {k} : Route(d[a], q) = s /\ Between(d[a], s, q)

\* The pages beside a child, which the operation below it does not touch.
LEMMA AroundIs ==
  ASSUME NEW d, NEW S, NEW b, Forest(d, S, b), NEW k \in Int, NEW a, NEW c, Routes(d, S, b, k, a, c),
         NEW g, \A p \in S \ b[c] : g[p] = d[p]
  PROVE  Around(d, S, b, k, a, c, g)
<1> DEFINE rest == b[a] \ b[c]
           beside == Beside(b, a, c)
           s == Route(d[a], k)
<1>1. /\ a \in S /\ c \in S /\ IsNode(d, a) /\ d[a] \in InnerPage /\ Parent(d, S, b, a)
      /\ s \in Slots(d[a]) /\ c = Child(d[a], s)
      /\ b[c] \subseteq b[a] /\ a \notin b[c] /\ a \in b[a] /\ c \in b[c] /\ b[a] \subseteq S
  BY DEF Routes
<1>2. rest = {a} \cup beside /\ a \notin beside /\ b[a] = b[c] \cup rest /\ rest \subseteq S \ b[c] /\ beside \subseteq rest
  BY <1>1 DEF Beside
<1>3. Nodes(d, S)
  BY DEF Forest
<1>4. Held(d, rest) = Held(d, beside)
  <2>1. Records(d[a]) = {}
    BY <1>1, RecordsOfPage
  <2>2. QED
    BY <1>2, <2>1 DEF Held
<1>5. \A q \in KeysIn(d, b[c]) \cup {k} : Route(d[a], q) = s /\ Between(d[a], s, q)
  <2> SUFFICES ASSUME NEW q \in KeysIn(d, b[c]) \cup {k} PROVE Route(d[a], q) = s /\ Between(d[a], s, q)
    OBVIOUS
  <2>1. Nodes(d, b[c])
    BY <1>1, <1>3 DEF Nodes
  <2>2. q \in Int
    BY <2>1, KeysOfNodes
  <2>3. Route(d[a], q) = s
    BY <1>1 DEF Parent, ChildrenRouted
  <2>4. Between(d[a], s, q)
    BY <1>1, <2>2, <2>3, RouteIs DEF IsNode
  <2>5. QED
    BY <2>3, <2>4
<1>6. \A e \in Held(d, rest) : e.key # k
  <2> SUFFICES ASSUME NEW e \in Held(d, beside), e.key = k PROVE FALSE
    BY <1>4
  <2>1. PICK q \in beside : e \in Records(d[q])
    BY DEF Held
  <2>2. PICK t \in Slots(d[a]) : q \in b[Child(d[a], t)]
    BY <1>1, <1>2, <2>1 DEF Parent
  <2>3. t # s
    BY <1>1, <1>2, <2>1, <2>2
  <2>4. IsNode(d, q)
    BY <1>1, <1>2, <1>3, <2>1 DEF Nodes
  <2>5. k \in KeysAt(d[q])
    BY <2>1, <2>4, RecordsOfPage DEF IsNode
  <2>6. k \in KeysIn(d, b[Child(d[a], t)])
    BY <2>2, <2>5 DEF KeysIn
  <2>7. Route(d[a], k) = t
    BY <1>1, <2>2, <2>6 DEF Parent, ChildrenRouted
  <2>8. QED
    BY <2>3, <2>7
<1>7. KeysIn(g, rest) = KeysIn(d, rest) /\ KeysIn(g, beside) = KeysIn(d, beside)
  <2>1. (\A p \in rest : g[p] = d[p]) /\ (\A p \in beside : g[p] = d[p])
    BY <1>2
  <2> HIDE DEF rest, beside
  <2>2. QED
    BY <2>1, KeysInSame
<1>8. Held(g, rest) = Held(d, rest) /\ Held(g, beside) = Held(d, beside)
  <2>1. (\A p \in rest : g[p] = d[p]) /\ (\A p \in beside : g[p] = d[p])
    BY <1>2
  <2> HIDE DEF rest, beside
  <2>2. QED
    BY <2>1, HeldSame
<1>9. Held(d, b[a]) = Held(d, b[c]) \cup Held(d, rest)
  <2>1. Held(d, b[c] \cup rest) = Held(d, b[c]) \cup Held(d, rest)
    BY HeldInUnion
  <2>2. QED
    BY <1>2, <2>1
<1>10. /\ KeysIn(d, rest) \subseteq KeysIn(d, b[a]) /\ KeysIn(d, beside) \subseteq KeysIn(d, b[a])
       /\ KeysIn(d, b[c]) \subseteq KeysIn(d, b[a]) /\ KeysAt(d[a]) \subseteq KeysIn(d, b[a])
  BY <1>1, <1>2 DEF KeysIn
<1> HIDE DEF rest, beside, s
<1>11. QED
  BY <1>2, <1>4, <1>5, <1>6, <1>7, <1>8, <1>9, <1>10 DEF Around, rest, beside, s

\* A page on the way and the one after it.
Above(d, S, b, k, path, j, a, c) ==
  /\ Setting(d, S, b, k, path) /\ j \in 1..(Len(path) - 1) /\ a = path[j] /\ c = path[j + 1]

\* What holds at a page above the one being rewritten.
LEMMA AboveIs ==
  ASSUME NEW d, NEW S, NEW b, NEW k, NEW path, NEW j, NEW a, NEW c, Above(d, S, b, k, path, j, a, c)
  PROVE  /\ Forest(d, S, b) /\ k \in Int /\ k \in Keys /\ Routes(d, S, b, k, a, c)
         /\ j \in 1..Len(path) /\ j + 1 \in 1..Len(path)
         /\ Full(d, S) /\ S # {d[0].root} /\ IsNode(d, a) /\ a \in S /\ a \in Nat \ {0}
         /\ d[a] \in InnerPage /\ Sorted(d[a].entries) /\ Fits(d[a])
<1>1. Forest(d, S, b) /\ Way(d, S, k, path) /\ k \in Int /\ k \in Keys
  BY KeysAreNumbers DEF Above, Setting
<1>2. j \in 1..(Len(path) - 1)
  BY DEF Above
<1>3. j \in 1..Len(path) /\ j + 1 \in 1..Len(path) /\ Routes(d, S, b, k, path[j], path[j + 1])
  BY <1>1, <1>2, WayStep
<1>4. Routes(d, S, b, k, a, c)
  BY <1>3 DEF Above
<1>5. a \in S /\ c \in S /\ a # c /\ IsNode(d, a) /\ d[a] \in InnerPage
  BY <1>4 DEF Routes
<1>6. S # {d[0].root} /\ Full(d, S)
  BY <1>5 DEF Above, Setting
<1>7. QED
  BY <1>1, <1>3, <1>4, <1>5, <1>6 DEF IsNode

\* The page is left as it is: nothing was split below it.
LEMMA InsertKept ==
  ASSUME NEW d, NEW S, NEW b, NEW k, NEW path, NEW j, NEW a, NEW c, Above(d, S, b, k, path, j, a, c),
         NEW v, NEW acc, NEW r, InsertedAt(d, S, b, k, v, acc, c, r), ~r.x.ok \/ ~r.split
  PROVE  InsertedAt(d, S, b, k, v, acc, a, r)
<1>1. PICK P, R, fl : /\ Sound(r.x, P \cup R \cup (S \ b[c]), fl)
                      /\ Pieces(d, S, b, k, c, r.x.disk, P, R)
                      /\ r.x.ok => Succeeded(d, S, b, k, v, acc, c, r, P, R, fl)
                      /\ ~r.x.ok => Failed(d, b, c, r.x.disk, P, R)
  BY DEF InsertedAt
<1> DEFINE g == r.x.disk
           s == Route(d[a], k)
           rest == b[a] \ b[c]
           Q == P \cup rest
<1>2. R = {}
  BY <1>1 DEF Succeeded, Failed
<1>3. /\ Forest(d, S, b) /\ k \in Int /\ Routes(d, S, b, k, a, c)
      /\ Full(d, S) /\ S # {d[0].root} /\ a \in S /\ d[a] \in InnerPage
  BY AboveIs
<1>4. s \in Slots(d[a]) /\ c = Child(d[a], s) /\ b[c] \subseteq b[a] /\ b[a] \subseteq S
  BY <1>3 DEF Routes
<1>5. S \ b[c] \subseteq DOMAIN g
  BY <1>1 DEF Sound, Space
<1>6. /\ Tree(g, P, c) /\ P \cap (S \ b[c]) = {} /\ KeysIn(g, P) \subseteq KeysIn(d, b[c]) \cup {k}
      /\ \A p \in S \ b[c] : g[p] = d[p]
  BY <1>1, <1>2 DEF Pieces
<1> HIDE DEF g
<1>7. Around(d, S, b, k, a, c, g)
  BY <1>3, <1>6, AroundIs
<1>8. /\ KeysIn(g, rest) = KeysIn(d, rest) /\ KeysIn(d, rest) \subseteq KeysIn(d, b[a])
      /\ KeysIn(d, b[c]) \subseteq KeysIn(d, b[a])
      /\ Held(g, rest) = Held(d, rest) /\ Held(d, b[a]) = Held(d, b[c]) \cup Held(d, rest)
      /\ \A e \in Held(d, rest) : e.key # k
      /\ \A q \in KeysIn(d, b[c]) \cup {k} : Route(d[a], q) = s
  BY <1>7 DEF Around
<1>9. rest \subseteq S \ b[c] /\ S \ b[c] = rest \cup (S \ b[a]) /\ rest \cap (S \ b[a]) = {}
  BY <1>4
<1>10. Tree(g, Q, a)
  <2>1. \A q \in KeysIn(g, P) : Route(d[a], q) = s
    BY <1>6, <1>8
  <2>2. (\A p \in b[a] \ b[c] : p \in DOMAIN g /\ g[p] = d[p]) /\ P \cap (b[a] \ b[c]) = {}
    BY <1>5, <1>6, <1>9
  <2> HIDE DEF s
  <2>3. Tree(g, P \cup (b[a] \ b[c]), a)
    BY <1>3, <1>4, <1>6, <2>1, <2>2, ParentKept
  <2>4. QED
    BY <2>3
<1> HIDE DEF s, rest
<1>11. KeysIn(g, Q) = KeysIn(g, P) \cup KeysIn(g, rest) /\ Held(g, Q) = Held(g, P) \cup Held(g, rest)
  BY KeysInUnion, HeldInUnion
<1>12. Full(g, rest)
  BY <1>3, <1>6, <1>9 DEF Full
<1>13. P \cup R \cup (S \ b[c]) = Q \cup R \cup (S \ b[a])
  BY <1>9
<1>14. Q \cap R = {} /\ (Q \cup R) \cap (S \ b[a]) = {} /\ Q \cup R = Q /\ P \cup R = P
  BY <1>2, <1>6, <1>9
<1> HIDE DEF Q
<1>15. Pieces(d, S, b, k, a, g, Q, R)
  <2>1. KeysIn(g, Q) \subseteq KeysIn(d, b[a]) \cup {k}
    BY <1>6, <1>8, <1>11
  <2>2. KeysIn(g, R) = {}
    BY <1>2 DEF KeysIn
  <2>3. QED
    BY <1>6, <1>9, <1>10, <1>14, <2>1, <2>2 DEF Pieces
<1>16. CASE r.x.ok
  <2>1. Full(g, P) /\ Held(g, P) = Upsert(Held(d, b[c]), k, v) /\ (acc => Accounted(g, P \cup R \cup (S \ b[c]), fl))
    BY <1>1, <1>14, <1>16 DEF Succeeded, g
  <2>2. Full(g, Q \cup R)
    BY <1>12, <1>14, <2>1, FullParts DEF Q
  <2>3. Held(g, Q \cup R) = Upsert(Held(d, b[a]), k, v)
    BY <1>8, <1>11, <1>14, <2>1 DEF Upsert
  <2>4. r.split = FALSE
    BY <1>16 DEF InsertedAt
  <2>5. Succeeded(d, S, b, k, v, acc, a, r, Q, R, fl)
    BY <1>2, <1>13, <2>1, <2>2, <2>3, <2>4 DEF Succeeded, g
  <2>6. Sound(r.x, Q \cup R \cup (S \ b[a]), fl)
    BY <1>1, <1>13
  <2>7. QED
    BY <1>15, <1>16, <2>5, <2>6 DEF InsertedAt, g
<1>17. CASE ~r.x.ok
  <2>1. Full(g, P) /\ (EvenSizes => Held(g, P) = Held(d, b[c]))
    <3>1. (Full(g, P) \/ P = {d[0].root}) /\ (EvenSizes => Held(g, P) = Held(d, b[c]))
      BY <1>1, <1>17 DEF Failed, g
    <3>2. c # d[0].root
      BY <1>3 DEF Above, Setting, Routes
    <3>3. c \in P
      BY <1>6 DEF Tree
    <3>4. QED
      BY <3>1, <3>2, <3>3
  <2>2. Full(g, Q)
    BY <1>12, <2>1, FullParts DEF Q
  <2>3. EvenSizes => Held(g, Q) = Held(d, b[a])
    BY <1>8, <1>11, <2>1
  <2>4. Failed(d, b, a, g, Q, R)
    BY <1>2, <2>2, <2>3 DEF Failed
  <2>5. Sound(r.x, Q \cup R \cup (S \ b[a]), fl)
    BY <1>1, <1>13
  <2>6. QED
    BY <1>15, <1>17, <2>4, <2>5 DEF InsertedAt, g
<1>18. QED
  BY <1>16, <1>17

\* All pages that are below page a after something was split below it.
Below(b, a, c, P, R) == P \cup R \cup Beside(b, a, c)

\* new is page a with the new separator, A the pages below it.
Linking(d, S, b, k, v, a, c, g, P, R, new, A) ==
  /\ new \in InnerPage /\ Len(new.entries) = Len(d[a].entries) + 1
  /\ KeysAt(new) \subseteq KeysIn(d, b[a]) \cup {k}
  /\ \E J : Family(g, new, J) /\ AllOf(new, J) = A
  /\ a \notin A /\ A \cap (S \ b[a]) = {} /\ {a} \cup A \cup (S \ b[a]) = P \cup R \cup (S \ b[c])
  /\ Full(g, A) /\ KeysIn(g, A) \subseteq KeysIn(d, b[a]) \cup {k}
  /\ Held(g, A) = Upsert(Held(d, b[a]), k, v)

\* internal_insert of the separator and the right half after the child that was split.
LEMMA LinkingIs ==
  ASSUME NEW d, NEW S, NEW b, NEW k, NEW path, NEW j, NEW a, NEW c, Above(d, S, b, k, path, j, a, c),
         NEW v, NEW acc, NEW r, NEW P, NEW R, NEW fl, NEW g, g = r.x.disk,
         S \ b[c] \subseteq DOMAIN g, Pieces(d, S, b, k, c, g, P, R),
         Succeeded(d, S, b, k, v, acc, c, r, P, R, fl), r.split,
         NEW all, all = InsertAt(d[a].entries, Route(d[a], k) + 1, [key |-> r.key, child |-> r.right])
  PROVE  /\ Linking(d, S, b, k, v, a, c, g, P, R, Internal(d[a].left, all), Below(b, a, c, P, R))
         /\ all \in Seq(Separator)
<1> DEFINE s == Route(d[a], k)
           page == d[a]
           rest == b[a] \ b[c]
           beside == Beside(b, a, c)
           new == Internal(page.left, all)
           A == Below(b, a, c, P, R)
           key == r.key
           right == r.right
<1>1. /\ Forest(d, S, b) /\ k \in Int /\ k \in Keys /\ Routes(d, S, b, k, a, c)
      /\ Full(d, S) /\ a \in S /\ page \in InnerPage /\ Sorted(page.entries)
  BY AboveIs
<1>2. s \in Slots(page) /\ c = Child(page, s) /\ b[c] \subseteq b[a] /\ b[a] \subseteq S /\ a \in b[a] /\ a \notin b[c]
  BY <1>1 DEF Routes
<1>3. /\ Tree(g, P, c) /\ P \cap R = {} /\ (P \cup R) \cap (S \ b[c]) = {}
      /\ KeysIn(g, P) \subseteq KeysIn(d, b[c]) \cup {k} /\ KeysIn(g, R) \subseteq KeysIn(d, b[c]) \cup {k}
      /\ \A p \in S \ b[c] : g[p] = d[p]
  BY DEF Pieces
<1>4. /\ Full(g, P \cup R) /\ Held(g, P \cup R) = Upsert(Held(d, b[c]), k, v)
      /\ Tree(g, R, right) /\ key \in Keys /\ key \in KeysIn(d, b[c]) \cup {k}
      /\ \A q \in KeysIn(g, P) : q < key
      /\ \A q \in KeysIn(g, R) : key <= q
  BY DEF Succeeded, Parted
<1>5. Around(d, S, b, k, a, c, g)
  BY <1>1, <1>3, AroundIs
<1>6. /\ rest = {a} \cup beside /\ a \notin beside /\ b[a] = b[c] \cup rest
      /\ KeysIn(g, beside) = KeysIn(d, beside) /\ KeysIn(d, beside) \subseteq KeysIn(d, b[a])
      /\ KeysIn(d, b[c]) \subseteq KeysIn(d, b[a]) /\ KeysAt(page) \subseteq KeysIn(d, b[a])
      /\ Held(g, beside) = Held(d, rest)
      /\ Held(d, b[a]) = Held(d, b[c]) \cup Held(d, rest)
      /\ \A e \in Held(d, rest) : e.key # k
      /\ \A q \in KeysIn(d, b[c]) \cup {k} : Route(page, q) = s /\ Between(page, s, q)
  BY <1>5 DEF Around
<1> HIDE DEF s, key, right
<1>7. PICK H : Regrown(d, b, a, s, g, page, P, H)
  <2>1. \A q \in KeysIn(g, P) : Route(page, q) = s
    BY <1>3, <1>6
  <2>2. /\ \A p \in Beside(b, a, Child(page, s)) : p \in DOMAIN g /\ g[p] = d[p]
        /\ P \cap Beside(b, a, Child(page, s)) = {}
    BY <1>2, <1>3 DEF Beside
  <2>3. Tree(g, P, Child(page, s))
    BY <1>2, <1>3
  <2>4. QED
    BY <1>1, <1>2, <2>1, <2>2, <2>3, FamilyKept
<1>8. /\ Family(g, page, H) /\ AllOf(page, H) = P \cup beside /\ H[s] = P
  BY <1>2, <1>7 DEF Regrown
<1>9. KeysIn(g, P) # {}
  BY <1>3, <1>4, FullHasKeys, FullParts
<1>10. right \in Nat
  BY <1>4, TreeNodes
<1>11. R \cap AllOf(page, H) = {}
  BY <1>2, <1>3, <1>8 DEF Beside
<1>12. all = InsertAt(page.entries, s + 1, [key |-> key, child |-> right])
  BY DEF s, key, right
<1>13. /\ all \in Seq(Separator) /\ Len(all) = Len(page.entries) + 1
       /\ KeysAt(new) = KeysAt(page) \cup {key}
       /\ \E J : /\ Family(g, new, J)
                 /\ AllOf(new, J) = AllOf(page, H) \cup R
  <2>1. KeysIn(g, H[s]) # {} /\ \A q \in KeysIn(g, H[s]) : q < key
    BY <1>4, <1>8, <1>9
  <2>2. (\A q \in KeysIn(g, R) : key <= q /\ Between(page, s, q)) /\ Between(page, s, key)
    BY <1>3, <1>4, <1>6
  <2> HIDE DEF page, new
  <2>3. Widened(g, page, H, R, key, all)
    BY <1>2, <1>4, <1>8, <1>10, <1>11, <1>12, <2>1, <2>2, FamilyInsert
  <2>4. QED
    BY <2>3 DEF Widened, new
<1>14. new \in InnerPage /\ new.entries = all
  <2>1. page.left \in Nat
    BY <1>1, InnerEntries
  <2>2. InnerOf(new, page.left, all)
    BY <1>13, <2>1, MadeInner
  <2>3. QED
    BY <2>2 DEF InnerOf
<1>15. A = AllOf(page, H) \cup R /\ A = P \cup R \cup beside
  BY <1>8 DEF Below
<1>16. a \notin A /\ A \cap (S \ b[a]) = {} /\ {a} \cup A \cup (S \ b[a]) = P \cup R \cup (S \ b[c])
  BY <1>1, <1>2, <1>3, <1>6, <1>15
<1> HIDE DEF beside, rest, page, A, new
<1>17. Full(g, A)
  <2>1. Full(g, beside)
    BY <1>1, <1>2, <1>3 DEF Full, beside, Beside
  <2>2. QED
    BY <1>4, <1>15, <2>1, FullParts
<1>18. KeysIn(g, A) \subseteq KeysIn(d, b[a]) \cup {k}
  <2>1. KeysIn(g, A) = KeysIn(g, P \cup R) \cup KeysIn(g, beside) /\ KeysIn(g, P \cup R) = KeysIn(g, P) \cup KeysIn(g, R)
    BY <1>15, KeysInUnion
  <2>2. QED
    BY <1>3, <1>6, <2>1
<1>19. Held(g, A) = Upsert(Held(d, b[a]), k, v)
  <2>1. Held(g, A) = Held(g, P \cup R) \cup Held(g, beside)
    BY <1>15, HeldInUnion
  <2>2. QED
    BY <1>4, <1>6, <2>1 DEF Upsert
<1>20. KeysAt(new) \subseteq KeysIn(d, b[a]) \cup {k}
  BY <1>4, <1>6, <1>13
<1>21. Linking(d, S, b, k, v, a, c, g, P, R, new, A)
  <2>1. \E J : Family(g, new, J) /\ AllOf(new, J) = A
    BY <1>13, <1>15
  <2>2. Len(new.entries) = Len(d[a].entries) + 1
    BY <1>13, <1>14 DEF page
  <2>3. QED
    BY <1>14, <1>16, <1>17, <1>18, <1>19, <1>20, <2>1, <2>2 DEF Linking
<1>22. QED
  BY <1>13, <1>21 DEF new, A, page

\* A database when insert_recursive is back from page c.
Back(x, d, S, b, c, P, R, fl, acc) ==
  LET U == P \cup R \cup (S \ b[c])
  IN /\ Sound(x, U, fl) /\ x.ok /\ x.root = d[0].root /\ GoodFiles(x)
     /\ acc => Accounted(x.disk, U, fl)
     /\ \A p \in S \ b[c] : x.disk[p] = d[p]

\* A page of an internal node in a file in which nothing else has changed since.
Rewrites(d, S, b, k, a, g, f, page, A) ==
  /\ Stands(d, S, b, k, a, f, {a} \cup A)
  /\ Held(f, {a} \cup A) = Held(g, A)
  /\ KeysIn(f, {a} \cup A) = KeysAt(page) \cup KeysIn(g, A)

\* A page rewritten on the way back, with what hangs below it, stands where the old one stood.
LEMMA RewritesIs ==
  ASSUME NEW d, NEW S, NEW b, NEW k, NEW path, NEW j, NEW a, NEW c, Above(d, S, b, k, path, j, a, c),
         NEW g, NEW page, NEW J, Family(g, page, J), Fits(page), page.entries # <<>>,
         NEW A, A = AllOf(page, J), Full(g, A), a \notin A, A \cap (S \ b[a]) = {},
         KeysAt(page) \subseteq KeysIn(d, b[a]) \cup {k}, KeysIn(g, A) \subseteq KeysIn(d, b[a]) \cup {k},
         NEW f, a \in DOMAIN f, f[a] = page, \A q \in A : q \in DOMAIN f /\ f[q] = g[q],
         f[0].root = d[0].root, \A p \in S \ b[a] : p \in DOMAIN f /\ f[p] = d[p]
  PROVE  Rewrites(d, S, b, k, a, g, f, page, A)
<1>1. a \in Nat \ {0} /\ a \in b[a]
  <2>1. a \in Nat \ {0} /\ Routes(d, S, b, k, a, c)
    BY AboveIs
  <2>2. QED
    BY <2>1 DEF Routes
<1>2. Placed(f, g, a, page, A)
  BY <1>1, PlacedIs
<1>3. Tree(f, {a} \cup A, a) /\ Full(f, {a} \cup A) /\ Held(f, {a} \cup A) = Held(g, A)
      /\ KeysIn(f, {a} \cup A) = KeysAt(page) \cup KeysIn(g, A)
  BY <1>2 DEF Placed
<1>4. ({a} \cup A) \cap (S \ b[a]) = {}
  BY <1>1
<1>5. Stands(d, S, b, k, a, f, {a} \cup A)
  BY <1>3, <1>4 DEF Stands
<1>6. QED
  BY <1>3, <1>5 DEF Rewrites

\* The page with the new separator has been written.
LEMMA LinkWritten ==
  ASSUME NEW d, NEW S, NEW b, NEW k, NEW path, NEW j, NEW a, NEW c, Above(d, S, b, k, path, j, a, c),
         NEW v, NEW acc, NEW x, NEW P, NEW R, NEW fl, Back(x, d, S, b, c, P, R, fl, acc),
         NEW new, NEW A, Linking(d, S, b, k, v, a, c, x.disk, P, R, new, A), Fits(new),
         NEW y, y = WriteNode(x, a, new)
  PROVE  InsertedAt(d, S, b, k, v, acc, a, Done(y))
<1> DEFINE g == x.disk
           h == y.disk
           U == P \cup R \cup (S \ b[c])
           Q == {a} \cup A
           N == {}
           r == Done(y)
<1>1. /\ Sound(x, U, fl) /\ x.ok /\ x.root = d[0].root /\ GoodFiles(x) /\ (acc => Accounted(g, U, fl))
      /\ \A p \in S \ b[c] : g[p] = d[p]
  BY DEF Back
<1>2. /\ new \in InnerPage /\ Len(new.entries) = Len(d[a].entries) + 1
      /\ KeysAt(new) \subseteq KeysIn(d, b[a]) \cup {k}
      /\ a \notin A /\ A \cap (S \ b[a]) = {} /\ Q \cup (S \ b[a]) = U
      /\ Full(g, A) /\ KeysIn(g, A) \subseteq KeysIn(d, b[a]) \cup {k}
      /\ Held(g, A) = Upsert(Held(d, b[a]), k, v)
  BY DEF Linking
<1>3. PICK J : Family(g, new, J) /\ AllOf(new, J) = A
  BY DEF Linking
<1> HIDE DEF g, U
<1>4. Forest(d, S, b) /\ a \in S /\ d[a] \in InnerPage /\ Routes(d, S, b, k, a, c)
      /\ j \in 1..Len(path) /\ path[j] = a /\ Setting(d, S, b, k, path)
  <2>1. Forest(d, S, b) /\ a \in S /\ d[a] \in InnerPage /\ Routes(d, S, b, k, a, c) /\ j \in 1..Len(path)
    BY AboveIs
  <2>2. QED
    BY <2>1 DEF Above
<1>5. new.entries # <<>>
  <2>1. Len(d[a].entries) \in Nat
    BY <1>4, InnerEntries
  <2>2. QED
    BY <1>2, <2>1
<1>6. OneWrite(x, y, a, new)
  BY <1>1, WriteNodeIs DEF Sound
<1>7. a \in U
  BY <1>2
<1>8. Sound(y, U, fl) /\ DOMAIN h = DOMAIN g
  BY <1>1, <1>6, <1>7, WriteSound DEF g
<1>9. /\ h[a] = new /\ \A p \in DOMAIN g \ {a} : h[p] = g[p]
      /\ y.ok /\ y.root = d[0].root /\ ToSet(y.files) = ToSet(x.files) \cup {h}
      /\ U \subseteq DOMAIN h /\ Space(h, U, fl) /\ h[0].root = d[0].root
  BY <1>1, <1>6, <1>8 DEF OneWrite, Sound, Space, Fields, g
<1> HIDE DEF h
<1>10. (\A q \in A : q \in DOMAIN h /\ h[q] = g[q]) /\ \A p \in S \ b[a] : p \in DOMAIN h /\ h[p] = d[p]
  <2>1. A \subseteq U /\ S \ b[a] \subseteq U \ {a} /\ S \ b[a] \subseteq S \ b[c]
    BY <1>2, <1>4 DEF Routes
  <2>2. QED
    BY <1>1, <1>2, <1>8, <1>9, <2>1
<1>11. Rewrites(d, S, b, k, a, g, h, new, A)
  BY <1>2, <1>3, <1>5, <1>7, <1>9, <1>10, RewritesIs
<1>12. /\ Stands(d, S, b, k, a, h, Q) /\ Held(h, Q) = Held(g, A)
  BY <1>11 DEF Rewrites
<1>13. GoodFile(h)
  <2>1. Stands(d, S, b, k, path[j], h, Q) /\ Space(h, Q \cup (S \ b[path[j]]), fl)
    BY <1>2, <1>4, <1>9, <1>12
  <2> HIDE DEF Q
  <2>2. QED
    BY <1>4, <2>1, StandsGood
<1>14. GoodFiles(y)
  BY <1>1, <1>9, <1>13 DEF GoodFiles
<1> HIDE DEF Q
<1>15. Q \cup N = Q /\ U = Q \cup N \cup (S \ b[a])
  BY <1>2
<1>16. Pieces(d, S, b, k, a, h, Q, N)
  BY <1>12 DEF Stands, Pieces, KeysIn
<1>17. r.x = y /\ r.split = FALSE
  BY DEF Done
<1> HIDE DEF N, r
<1>18. Succeeded(d, S, b, k, v, acc, a, r, Q, N, fl)
  <2>1. Full(h, Q \cup N)
    BY <1>12, <1>15 DEF Stands
  <2>2. Held(h, Q \cup N) = Upsert(Held(d, b[a]), k, v)
    BY <1>2, <1>12, <1>15
  <2>3. acc => Accounted(h, Q \cup N \cup (S \ b[a]), fl)
    BY <1>1, <1>8, <1>15 DEF Accounted
  <2>4. QED
    BY <1>17, <2>1, <2>2, <2>3 DEF Succeeded, N, h
<1>19. Sound(y, Q \cup N \cup (S \ b[a]), fl)
  BY <1>8, <1>15
<1>20. InsertedAt(d, S, b, k, v, acc, a, r)
  BY <1>9, <1>14, <1>16, <1>17, <1>18, <1>19 DEF InsertedAt, h
<1>21. QED
  BY <1>20 DEF r

\* The middle of so many records.
Middle(m, n) == m = n \div 2
MiddleOf(m, n, o) ==
  /\ m \in Int /\ m \in 1..(n - 1) /\ m <= o /\ n - m - 1 <= o
  /\ m # 0 /\ n - m - 1 # 0 /\ n \in Nat /\ o \in Nat

\* Where an internal page is split, both sides keep at least one separator.
LEMMA MiddleIs ==
  ASSUME NEW o \in Nat, NEW n, n = o + 1, n >= 3, NEW m, Middle(m, n)
  PROVE  MiddleOf(m, n, o)
BY DEF Middle, MiddleOf

\* An internal page that does not fit is cut into two that do.
Cut(d, g, a, new, J, left, right, key) ==
  /\ Halves(g, new, J, left, right, key)
  /\ Fits(left) /\ Fits(right) /\ left.entries # <<>> /\ right.entries # <<>>

\* split_internal: the two halves, and the middle separator that goes up.
LEMMA CutIs ==
  ASSUME NEW d, NEW a, d[a] \in InnerPage, Fits(d[a]),
         NEW all \in Seq(Separator), Len(all) = Len(d[a].entries) + 1, NEW new, new = Internal(d[a].left, all),
         ~Fits(new), NEW g, NEW J, Family(g, new, J), NEW mid, Middle(mid, Len(all))
  PROVE  Cut(d, g, a, new, J, Internal(d[a].left, SubSeq(all, 1, mid)),
             Internal(all[mid + 1].child, SubSeq(all, mid + 2, Len(all))), all[mid + 1].key)
<1> DEFINE old == d[a]
           n == Len(all)
           l == SubSeq(all, 1, mid)
           r == SubSeq(all, mid + 2, n)
           child == all[mid + 1].child
           key == all[mid + 1].key
           left == Internal(old.left, l)
           right == Internal(child, r)
<1>1. Len(old.entries) \in Nat /\ old.left \in Nat
  BY InnerEntries
<1>2. new \in InnerPage /\ new.entries = all /\ new.left = old.left
  <2>1. InnerOf(new, old.left, all)
    BY <1>1, MadeInner
  <2>2. QED
    BY <2>1 DEF InnerOf
<1>3. n \in Nat /\ n = Len(old.entries) + 1 /\ n = Len(new.entries)
  BY <1>1, <1>2
<1>4. n >= 3
  <2>1. ~(n <= 2)
    BY <1>2, <1>3, InnerFits
  <2>2. QED
    BY <1>3, <2>1
<1>5. MiddleOf(mid, n, Len(old.entries))
  <2> DEFINE o == Len(old.entries)
  <2>1. n = o + 1 /\ o \in Nat /\ Middle(mid, n)
    BY <1>1, <1>3
  <2> HIDE DEF n, o
  <2>2. MiddleOf(mid, n, o)
    BY <1>4, <2>1, MiddleIs
  <2>3. QED
    BY <2>2 DEF o
<1>50. mid \in 1..(n - 1)
  BY <1>5 DEF MiddleOf
<1>6. SplitAt(g, new, J, mid)
  BY <1>2, <1>50, FamilySplit
<1>7. /\ l \in Seq(Separator) /\ Len(l) = mid /\ r \in Seq(Separator) /\ Len(r) = n - mid - 1
      /\ Halves(g, new, J, left, right, key)
  BY <1>2, <1>6 DEF SplitAt
<1>8. left \in InnerPage /\ right \in InnerPage
  BY <1>7 DEF Halves
<1>9. left.entries = l /\ right.entries = r
  BY DEF Internal, Page
<1> HIDE DEF left, right, l, r, n, key, child, old
<1>10. mid \in Int /\ Len(old.entries) \in Int /\ mid <= Len(old.entries) /\ n - mid - 1 <= Len(old.entries)
  BY <1>5 DEF MiddleOf
<1>11. old \in InnerPage /\ Fits(old)
  BY DEF old
<1>12. Fits(left) /\ Fits(right)
  <2>1. Len(left.entries) <= Len(old.entries) /\ Len(right.entries) <= Len(old.entries)
    BY <1>7, <1>9, <1>10
  <2>2. QED
    BY <1>8, <1>11, <2>1, InnerFits
<1>13. left.entries # <<>> /\ right.entries # <<>>
  <2>1. mid # 0 /\ n - mid - 1 # 0
    BY <1>5 DEF MiddleOf
  <2>2. Len(l) # 0 /\ Len(r) # 0
    BY <1>7, <2>1
  <2>3. QED
    BY <1>9, <2>2
<1>14. QED
  BY <1>7, <1>12, <1>13 DEF Cut, left, right, l, r, n, key, child, old

\* The page with the new separator has been split.
LEMMA LinkSplit ==
  ASSUME NEW d, NEW S, NEW b, NEW k, NEW path, NEW j, NEW a, NEW c, Above(d, S, b, k, path, j, a, c),
         NEW v, NEW acc, NEW x, NEW P, NEW R, NEW fl, Back(x, d, S, b, c, P, R, fl, acc),
         Stands(d, S, b, k, c, x.disk, P),
         NEW new, NEW A, Linking(d, S, b, k, v, a, c, x.disk, P, R, new, A),
         NEW J, Family(x.disk, new, J), A = AllOf(new, J),
         NEW left, NEW right, NEW key, Cut(d, x.disk, a, new, J, left, right, key),
         NEW r, r = Split(x, a, left, key, right)
  PROVE  InsertedAt(d, S, b, k, v, acc, a, r)
<1> DEFINE g == x.disk
           U == P \cup R \cup (S \ b[c])
           z == r.x
           page == r.right
           h == z.disk
<1>1. /\ Sound(x, U, fl) /\ x.ok /\ x.root = d[0].root /\ GoodFiles(x) /\ (acc => Accounted(g, U, fl))
      /\ \A p \in S \ b[c] : g[p] = d[p]
  BY DEF Back
<1>2. /\ a \notin A /\ A \cap (S \ b[a]) = {} /\ {a} \cup A \cup (S \ b[a]) = U
      /\ Full(g, A) /\ KeysIn(g, A) \subseteq KeysIn(d, b[a]) \cup {k}
      /\ KeysAt(new) \subseteq KeysIn(d, b[a]) \cup {k}
      /\ Held(g, A) = Upsert(Held(d, b[a]), k, v)
  BY DEF Linking
<1> HIDE DEF U
<1>3. Forest(d, S, b) /\ a \in S /\ Routes(d, S, b, k, a, c) /\ j \in 1..Len(path) /\ j + 1 \in 1..Len(path)
      /\ path[j] = a /\ path[j + 1] = c /\ Setting(d, S, b, k, path) /\ path[1] = d[0].root
  <2>1. Forest(d, S, b) /\ a \in S /\ Routes(d, S, b, k, a, c) /\ j \in 1..Len(path) /\ j + 1 \in 1..Len(path)
    BY AboveIs
  <2>2. QED
    BY <2>1 DEF Above, Setting
<1>4. a \in U
  BY <1>2
<1>5. Fits(left) /\ Fits(right) /\ left.entries # <<>> /\ right.entries # <<>> /\ Halves(g, new, J, left, right, key)
  BY DEF Cut
<1>6. /\ key \in Keys /\ key \in KeysAt(new)
      /\ KeysAt(left) \subseteq KeysAt(new) /\ KeysAt(right) \subseteq KeysAt(new)
      /\ \A q \in KeysAt(left) : q < key
      /\ \A q \in KeysAt(right) : key <= q
  BY <1>5 DEF Halves
<1>7. PICK L, M : /\ Family(g, left, L) /\ Family(g, right, M)
                  /\ A = AllOf(left, L) \cup AllOf(right, M)
                  /\ AllOf(left, L) \cap AllOf(right, M) = {}
                  /\ \A q \in KeysIn(g, AllOf(left, L)) : q < key
                  /\ \A q \in KeysIn(g, AllOf(right, M)) : key <= q
  BY <1>5 DEF Halves
<1> DEFINE AL == AllOf(left, L)
           AR == AllOf(right, M)
           Q == {a} \cup AL
           N == {page} \cup AR
<1>8. SplitOf(x, U, fl, a, left, right, z, page) /\ r.split /\ r.key = key
  BY <1>1, <1>4, SplitIs
<1> HIDE DEF z, page
<1>9. PICK rest : Sound(z, U \cup {page}, rest) /\ (acc => Accounted(h, U \cup {page}, rest))
  BY <1>1, <1>8 DEF SplitOf
<1>10. /\ IsDb(z) /\ z.root = d[0].root /\ z.ok /\ page \notin U /\ page \in Nat \ {0}
       /\ \A p \in U \ {a} : h[p] = g[p]
       /\ h[a] = left /\ h[page] = right
       /\ \A f \in ToSet(z.files) : f \in ToSet(x.files) \/ Untouched(x, U, f) \/ Rewritten(x, U, a, left, f)
  BY <1>1, <1>5, <1>8 DEF SplitOf
<1>11. U \cup {page} \subseteq DOMAIN h /\ h[0].root = d[0].root
  BY <1>9, <1>10 DEF Sound, Space, Fields
<1> HIDE DEF g, h
<1>12. /\ AL \subseteq A /\ AR \subseteq A /\ A = AL \cup AR /\ AL \cap AR = {} /\ A \subseteq U \ {a}
       /\ Full(g, AL) /\ Full(g, AR) /\ KeysIn(g, AL) \subseteq KeysIn(g, A) /\ KeysIn(g, AR) \subseteq KeysIn(g, A)
       /\ Held(g, A) = Held(g, AL) \cup Held(g, AR)
  <2>1. A = AL \cup AR /\ AL \cap AR = {} /\ A \subseteq U \ {a}
    BY <1>2, <1>7
  <2> HIDE DEF AL, AR
  <2>2. AL \subseteq A /\ AR \subseteq A
    BY <2>1
  <2>3. Full(g, AL) /\ Full(g, AR)
    BY <1>2, <2>2, FullParts
  <2>4. KeysIn(g, AL) \subseteq KeysIn(g, A) /\ KeysIn(g, AR) \subseteq KeysIn(g, A)
    BY <2>2, KeysInSubset
  <2>5. Held(g, A) = Held(g, AL) \cup Held(g, AR)
    BY <2>1, HeldInUnion
  <2>6. QED
    BY <2>1, <2>2, <2>3, <2>4, <2>5
<1>13. S \ b[a] \subseteq U \ {a} /\ S \ b[a] \subseteq S \ b[c]
  BY <1>2, <1>3 DEF Routes
<1>14. ASSUME NEW f, f[a] = left, U \subseteq DOMAIN f, f[0].root = d[0].root, \A p \in U \ {a} : f[p] = g[p]
       PROVE  Rewrites(d, S, b, k, a, g, f, left, AL)
  <2>1. a \in DOMAIN f /\ (\A q \in AL : q \in DOMAIN f /\ f[q] = g[q])
    BY <1>4, <1>12, <1>14
  <2>2. \A p \in S \ b[a] : p \in DOMAIN f /\ f[p] = d[p]
    BY <1>1, <1>13, <1>14
  <2>3. a \notin AL /\ AL \cap (S \ b[a]) = {} /\ Full(g, AL)
        /\ KeysAt(left) \subseteq KeysIn(d, b[a]) \cup {k} /\ KeysIn(g, AL) \subseteq KeysIn(d, b[a]) \cup {k}
    BY <1>2, <1>6, <1>12
  <2>4. Family(g, left, L) /\ AL = AllOf(left, L)
    BY <1>7
  <2> HIDE DEF AL
  <2>5. QED
    BY <1>5, <1>14, <2>1, <2>2, <2>3, <2>4, RewritesIs
<1>15. Rewrites(d, S, b, k, a, g, h, left, AL)
  BY <1>10, <1>11, <1>14
<1>16. Placed(h, g, page, right, AR)
  <2>1. page \in DOMAIN h /\ page \notin AR /\ \A q \in AR : q \in DOMAIN h /\ h[q] = g[q]
    BY <1>10, <1>11, <1>12
  <2>2. Family(g, right, M) /\ AR = AllOf(right, M)
    BY <1>7
  <2> HIDE DEF AR
  <2>3. QED
    BY <1>5, <1>10, <2>1, <2>2, PlacedIs
<1> HIDE DEF AL, AR
<1>17. GoodFiles(z)
  <2> SUFFICES ASSUME NEW f \in ToSet(z.files) PROVE GoodFile(f)
    BY DEF GoodFiles
  <2>1. CASE f \in ToSet(x.files)
    BY <1>1, <2>1 DEF GoodFiles
  <2>2. CASE Untouched(x, U, f)
    <3> DEFINE i == j + 1
    <3>1. i \in 1..Len(path) /\ c = path[i] /\ P \cup (S \ b[c]) \subseteq U
      BY <1>3 DEF U
    <3> HIDE DEF i
    <3>2. PICK fl2 : Space(f, U, fl2)
      BY <2>2 DEF Untouched
    <3>3. Space(f, P \cup (S \ b[path[i]]), fl2)
      BY <3>1, <3>2, SpaceSmaller
    <3>4. g[0].root = x.root
      BY <1>1, <1>8 DEF Sound, Fields, g
    <3>5. f[0].root = g[0].root /\ \A p \in P \cup (S \ b[c]) : p \in DOMAIN f /\ f[p] = g[p]
      BY <2>2, <3>1, <3>4 DEF Untouched, g
    <3>6. Stands(d, S, b, k, c, g, P)
      BY DEF g
    <3>7. Stands(d, S, b, k, path[i], f, P)
      BY <3>1, <3>5, <3>6, StandsSame
    <3>8. QED
      BY <1>3, <3>1, <3>3, <3>7, StandsGood
  <2>3. CASE Rewritten(x, U, a, left, f)
    <3>1. PICK fl2 : Space(f, U, fl2)
      BY <2>3 DEF Rewritten
    <3>2. f[a] = left /\ U \subseteq DOMAIN f /\ f[0].root = d[0].root /\ \A p \in U \ {a} : f[p] = g[p]
      BY <1>1, <2>3, <3>1 DEF Rewritten, Space, g
    <3>3. Rewrites(d, S, b, k, a, g, f, left, AL)
      BY <1>14, <3>2
    <3>4. Stands(d, S, b, k, path[j], f, Q)
      BY <1>3, <3>3 DEF Rewrites
    <3>5. Q \cup (S \ b[path[j]]) \subseteq U
      BY <1>3, <1>4, <1>12, <1>13
    <3>6. Space(f, Q \cup (S \ b[path[j]]), fl2)
      BY <3>1, <3>5, SpaceSmaller
    <3> HIDE DEF Q
    <3>7. QED
      BY <1>3, <3>4, <3>6, StandsGood
  <2>4. QED
    BY <1>10, <2>1, <2>2, <2>3
<1>18. /\ Tree(h, Q, a) /\ Full(h, Q) /\ Held(h, Q) = Held(g, AL) /\ KeysIn(h, Q) = KeysAt(left) \cup KeysIn(g, AL)
       /\ Tree(h, N, page) /\ Full(h, N) /\ Held(h, N) = Held(g, AR) /\ KeysIn(h, N) = KeysAt(right) \cup KeysIn(g, AR)
  BY <1>5, <1>12, <1>15, <1>16 DEF Rewrites, Stands, Placed
<1>19. U \cup {page} = Q \cup N \cup (S \ b[a]) /\ Q \cap N = {} /\ (Q \cup N) \cap (S \ b[a]) = {}
  <2>1. a \in b[a]
    BY <1>3 DEF Routes
  <2>2. QED
    BY <1>2, <1>4, <1>10, <1>12, <1>13, <2>1
<1>20. (\A q \in KeysIn(g, AL) : q < key) /\ (\A q \in KeysIn(g, AR) : key <= q)
  BY <1>7 DEF AL, AR
<1> HIDE DEF Q, N
<1>21. Pieces(d, S, b, k, a, h, Q, N)
  <2>1. KeysIn(h, Q) \subseteq KeysIn(d, b[a]) \cup {k} /\ KeysIn(h, N) \subseteq KeysIn(d, b[a]) \cup {k}
    BY <1>2, <1>6, <1>12, <1>18
  <2>2. \A p \in S \ b[a] : h[p] = d[p]
    BY <1>1, <1>10, <1>13
  <2>3. QED
    BY <1>18, <1>19, <2>1, <2>2 DEF Pieces
<1>22. Parted(d, b, k, a, h, Q, N, r)
  <2>1. key \in KeysIn(d, b[a]) \cup {k}
    BY <1>2, <1>6
  <2>2. QED
    BY <1>6, <1>8, <1>18, <1>20, <2>1 DEF Parted, page
<1>23. Succeeded(d, S, b, k, v, acc, a, r, Q, N, rest)
  <2>1. Full(h, Q \cup N)
    BY <1>18, FullParts
  <2>2. Held(h, Q \cup N) = Upsert(Held(d, b[a]), k, v)
    <3>1. Held(h, Q \cup N) = Held(h, Q) \cup Held(h, N)
      BY HeldInUnion
    <3>2. QED
      BY <1>2, <1>12, <1>18, <3>1
  <2>3. acc => Accounted(h, Q \cup N \cup (S \ b[a]), rest)
    BY <1>9, <1>19
  <2>4. QED
    BY <1>8, <1>22, <2>1, <2>2, <2>3 DEF Succeeded, h, z
<1>24. Sound(z, Q \cup N \cup (S \ b[a]), rest)
  BY <1>9, <1>19
<1>25. QED
  BY <1>8, <1>10, <1>17, <1>21, <1>23, <1>24 DEF InsertedAt, h, z

\* insert_recursive at an internal page, back from the page below it.
LEMMA InnerInsertIs ==
  ASSUME NEW d, NEW S, NEW b, NEW k, NEW path, NEW j, NEW a, NEW c, Above(d, S, b, k, path, j, a, c),
         NEW v, NEW acc, NEW r, InsertedAt(d, S, b, k, v, acc, c, r)
  PROVE  InsertedAt(d, S, b, k, v, acc, a, InternalInsert(a, d[a], k, r))
<1> DEFINE all == InsertAt(d[a].entries, Route(d[a], k) + 1, [key |-> r.key, child |-> r.right])
           new == Internal(d[a].left, all)
           x == r.x
           g == x.disk
           t == InternalInsert(a, d[a], k, r)
           mid == Len(all) \div 2
           left == Internal(d[a].left, SubSeq(all, 1, mid))
           right == Internal(all[mid + 1].child, SubSeq(all, mid + 2, Len(all)))
           key == all[mid + 1].key
<1>1. CASE ~r.x.ok \/ ~r.split
  <2>1. t = r
    BY <1>1 DEF InternalInsert
  <2>2. InsertedAt(d, S, b, k, v, acc, a, r)
    BY <1>1, InsertKept
  <2>3. QED
    BY <2>1, <2>2
<1>2. CASE r.x.ok /\ r.split
  <2>1. t = IF Fits(new) THEN Done(WriteNode(x, a, new)) ELSE Split(x, a, left, key, right)
    BY <1>2 DEF InternalInsert, SplitInternal
  <2>2. PICK P, R, fl : /\ Sound(x, P \cup R \cup (S \ b[c]), fl)
                        /\ Pieces(d, S, b, k, c, g, P, R)
                        /\ Succeeded(d, S, b, k, v, acc, c, r, P, R, fl)
    BY <1>2 DEF InsertedAt
  <2>3. x.root = d[0].root /\ GoodFiles(x) /\ x.ok /\ r.split
    BY <1>2 DEF InsertedAt
  <2> DEFINE A == Below(b, a, c, P, R)
  <2>4. S \ b[c] \subseteq DOMAIN g /\ x.disk[0].root = x.root
    BY <2>2 DEF Sound, Space, Fields
  <2> HIDE DEF A, t, left, right, key, mid
  <2>5. Linking(d, S, b, k, v, a, c, g, P, R, new, A) /\ all \in Seq(Separator)
    <3>1. g = r.x.disk /\ all = InsertAt(d[a].entries, Route(d[a], k) + 1, [key |-> r.key, child |-> r.right])
      OBVIOUS
    <3> HIDE DEF g, all, x, new
    <3>2. Linking(d, S, b, k, v, a, c, g, P, R, Internal(d[a].left, all), Below(b, a, c, P, R)) /\ all \in Seq(Separator)
      BY <2>2, <2>3, <2>4, <3>1, LinkingIs
    <3>3. QED
      BY <3>2 DEF new, A
  <2>6. new.entries = all /\ new = Internal(d[a].left, all)
    BY DEF Internal, Page
  <2> HIDE DEF all
  <2>7. Back(x, d, S, b, c, P, R, fl, acc)
    <3>1. \A p \in S \ b[c] : g[p] = d[p]
      BY <2>2 DEF Pieces
    <3>2. acc => Accounted(g, P \cup R \cup (S \ b[c]), fl)
      BY <2>2 DEF Succeeded
    <3>3. QED
      BY <2>2, <2>3, <3>1, <3>2 DEF Back
  <2>8. Stands(d, S, b, k, c, g, P)
    <3>1. Full(g, P \cup R)
      BY <2>2 DEF Succeeded
    <3>2. Full(g, P)
      BY <3>1, FullParts
    <3>3. QED
      BY <2>2, <2>3, <2>4, <3>2 DEF Stands, Pieces
  <2>9. CASE Fits(new)
    <3> DEFINE y == WriteNode(x, a, new)
    <3>1. y = WriteNode(x, a, new) /\ t = Done(y)
      BY <2>1, <2>9
    <3> HIDE DEF y, new
    <3>2. InsertedAt(d, S, b, k, v, acc, a, Done(y))
      BY <2>5, <2>7, <2>9, <3>1, LinkWritten
    <3>3. QED
      BY <3>1, <3>2 DEF t
  <2>10. CASE ~Fits(new)
    <3>1. PICK J : Family(g, new, J) /\ A = AllOf(new, J)
      BY <2>5 DEF Linking
    <3>2. d[a] \in InnerPage /\ Fits(d[a])
      BY AboveIs
    <3>3. Len(all) = Len(d[a].entries) + 1
      BY <2>5, <2>6 DEF Linking
    <3>4. Middle(mid, Len(all))
      BY DEF Middle, mid
    <3>5. Cut(d, g, a, new, J, left, right, key)
      <4> HIDE DEF new
      <4>1. Cut(d, g, a, new, J, Internal(d[a].left, SubSeq(all, 1, mid)),
                Internal(all[mid + 1].child, SubSeq(all, mid + 2, Len(all))), all[mid + 1].key)
        BY <2>5, <2>6, <2>10, <3>1, <3>2, <3>3, <3>4, CutIs
      <4>2. QED
        BY <4>1 DEF left, right, key
    <3>6. t = Split(x, a, left, key, right)
      BY <2>1, <2>10
    <3> HIDE DEF new
    <3>7. InsertedAt(d, S, b, k, v, acc, a, t)
      BY <2>5, <2>7, <2>8, <3>1, <3>5, <3>6, LinkSplit
    <3>8. QED
      BY <3>7 DEF t
  <2>11. QED
    BY <2>9, <2>10
<1>3. QED
  BY <1>1, <1>2

----------------------------------------------------------------------------
(* The way back. *)

\* What an operation does at the page that i pages of the way are below, back with r.
Turn(op, x, k, v, path, i, r) ==
  IF i = 0
  THEN IF op = "put" THEN LeafInsert(x, path[Len(path)], k, v) ELSE LeafDelete(x, path[Len(path)], k)
  ELSE LET id == path[Len(path) - i]
       IN IF op = "put" THEN InternalInsert(id, x.disk[id], k, r) ELSE InternalDelete(id, x.disk[id], k, r)

Turns(op, x, k, v, path, n, f) ==
  /\ DOMAIN f = 0..n /\ f = [i \in 0..n |-> f[i]]
  /\ \A i \in 0..n : f[i] = Turn(op, x, k, v, path, i, f[i - 1])

\* The way back of a recursion is a sequence of results, one for each page.
LEMMA TurnsExist ==
  ASSUME NEW op, NEW x, NEW k, NEW v, NEW path, NEW n \in Nat
  PROVE  \E f : Turns(op, x, k, v, path, n, f)
<1> DEFINE T == {m \in 0..n : \E f : Turns(op, x, k, v, path, m, f)}
<1>1. 0 \in T
  <2> DEFINE f == [i \in 0..0 |-> Turn(op, x, k, v, path, 0, 0)]
  <2>1. f[0] = Turn(op, x, k, v, path, 0, f[0 - 1])
    BY DEF Turn
  <2>2. DOMAIN f = 0..0 /\ f = [i \in 0..0 |-> f[i]]
    OBVIOUS
  <2> HIDE DEF f
  <2>3. Turns(op, x, k, v, path, 0, f)
    BY <2>1, <2>2 DEF Turns
  <2>4. QED
    BY <2>3
<1>2. ASSUME NEW m \in 1..n, m - 1 \in T PROVE m \in T
  <2>1. PICK f : Turns(op, x, k, v, path, m - 1, f)
    BY <1>2
  <2>2. \A i \in 0..(m - 1) : f[i] = Turn(op, x, k, v, path, i, f[i - 1])
    BY <2>1 DEF Turns
  <2> DEFINE g == [i \in 0..m |-> IF i = m THEN Turn(op, x, k, v, path, m, f[m - 1]) ELSE f[i]]
  <2>3. DOMAIN g = 0..m /\ g = [i \in 0..m |-> g[i]]
    OBVIOUS
  <2>4. \A i \in 0..(m - 1) : g[i] = f[i]
    OBVIOUS
  <2>5. g[m] = Turn(op, x, k, v, path, m, f[m - 1])
    OBVIOUS
  <2> HIDE DEF g
  <2>6. ASSUME NEW i \in 0..m PROVE g[i] = Turn(op, x, k, v, path, i, g[i - 1])
    <3>1. CASE i = 0
      <4>1. g[0] = f[0] /\ f[0] = Turn(op, x, k, v, path, 0, f[0 - 1])
        BY <2>2, <2>4
      <4>2. QED
        BY <3>1, <4>1 DEF Turn
    <3>2. CASE i # 0
      <4>1. i - 1 \in 0..(m - 1) /\ g[i - 1] = f[i - 1]
        BY <2>4, <3>2
      <4>2. CASE i = m
        BY <2>5, <4>1, <4>2
      <4>3. CASE i # m
        <5>1. i \in 0..(m - 1)
          BY <4>3
        <5>2. QED
          BY <2>2, <2>4, <4>1, <5>1
      <4>4. QED
        BY <4>2, <4>3
    <3>3. QED
      BY <3>1, <3>2
  <2>7. Turns(op, x, k, v, path, m, g)
    BY <2>3, <2>6 DEF Turns
  <2>8. QED
    BY <2>7
<1>3. 0..n \subseteq T
  <2> HIDE DEF T
  <2>1. QED
    BY <1>1, <1>2, IntervalInduction
<1>4. n \in T
  BY <1>3
<1>5. QED
  BY <1>4

\* The results of insert_recursive from the leaf up.
LEMMA InsertionsAre ==
  ASSUME NEW x, NEW k, NEW v, NEW path, path = Path(x.disk, x.root, k), NEW n \in Nat, n = Len(path) - 1
  PROVE  Turns("put", x, k, v, path, n, Insertions(x, k, v))
<1>1. PICK g : Turns("put", x, k, v, path, n, g)
  BY TurnsExist
<1> DEFINE way == Path(x.disk, x.root, k)
           m == Len(way) - 1
           Body(i, r) == IF i = 0 THEN LeafInsert(x, way[Len(way)], k, v)
                         ELSE LET id == way[Len(way) - i] IN InternalInsert(id, x.disk[id], k, r)
           f == Insertions(x, k, v)
<1>2. \A i, r : Turn("put", x, k, v, path, i, r) = Body(i, r)
  BY DEF Turn
<1>3. g = [i \in 0..m |-> Body(i, g[i - 1])]
  <2> HIDE DEF Body
  <2>1. QED
    BY <1>1, <1>2 DEF Turns
<1>4. f = [i \in 0..m |-> Body(i, f[i - 1])]
  BY <1>3, Zenon DEF Insertions
<1>5. n = m
  OBVIOUS
<1> HIDE DEF f, Body, m
<1>6. DOMAIN f = 0..n /\ f = [i \in 0..n |-> f[i]] /\ \A i \in 0..n : f[i] = Body(i, f[i - 1])
  BY <1>4, <1>5
<1>7. Turns("put", x, k, v, path, n, f)
  BY <1>2, <1>6 DEF Turns
<1>8. QED
  BY <1>7 DEF f

\* The way of a key from the root, in a file with its tree.
LEMMA SettingIs ==
  ASSUME NEW d, NEW S, Rooted(d, S), IsFiniteSet(DOMAIN d), NEW k \in Keys,
         NEW path, path = Path(d, d[0].root, k)
  PROVE  \E b : /\ Setting(d, S, b, k, path)
                /\ d[path[Len(path)]] \in LeafPage
<1>1. PICK b : Forest(d, S, b) /\ d[0].root \in S /\ b[d[0].root] = S
  BY DEF Rooted, Tree
<1>2. k \in Int
  BY KeysAreNumbers
<1>3. Way(d, S, k, path) /\ path[1] = d[0].root /\ d[path[Len(path)]] \in LeafPage
  BY <1>1, <1>2, WayOf
<1>4. Setting(d, S, b, k, path)
  BY <1>1, <1>3 DEF Setting, Rooted
<1>5. QED
  BY <1>3, <1>4

\* insert_recursive from the root.
LEMMA InsertIs ==
  ASSUME NEW d, NEW S, Rooted(d, S), NEW k \in Keys, NEW v, <<k, v>> \in Entries,
         NEW x, NEW fl, NEW acc, Ready(x, d, S, fl, acc)
  PROVE  \E b : /\ b[d[0].root] = S
                /\ InsertedAt(d, S, b, k, v, acc, d[0].root, Insert(x, k, v))
<1> DEFINE path == Path(d, d[0].root, k)
           N == Len(path)
           n == N - 1
           f == Insertions(x, k, v)
<1>1. IsFiniteSet(DOMAIN d) /\ x.disk = d /\ x.root = d[0].root
  BY DEF Ready, Sound, Space
<1>2. PICK b : Setting(d, S, b, k, path) /\ d[path[Len(path)]] \in LeafPage
  BY <1>1, SettingIs
<1>3. Insert(x, k, v) = f[n]
  BY <1>1 DEF Insert
<1>4. path = Path(x.disk, x.root, k)
  BY <1>1
<1> HIDE DEF path, f
<1>5. N \in Nat \ {0} /\ path[1] = d[0].root /\ b[path[1]] = S
  BY <1>2 DEF Setting, Way
<1>6. n \in Nat
  BY <1>5
<1>7. Turns("put", x, k, v, path, n, f)
  BY <1>4, <1>6, InsertionsAre DEF f
<1>8. \A i \in 0..n : f[i] = Turn("put", x, k, v, path, i, f[i - 1])
  BY <1>7 DEF Turns
<1> HIDE DEF n
<1> DEFINE At(i) == InsertedAt(d, S, b, k, v, acc, path[N - i], f[i])
           T == {i \in 0..n : At(i)}
<1>9. 0 \in T
  <2>1. 0 \in 0..n /\ N - 0 = N /\ N \in 1..N
    BY <1>5, <1>6
  <2>2. f[0] = LeafInsert(x, path[N], k, v)
    BY <1>8, <2>1 DEF Turn
  <2> DEFINE id == path[N]
  <2>3. id = path[N] /\ d[id] \in LeafPage
    BY <1>2
  <2> HIDE DEF id
  <2>4. InsertedAt(d, S, b, k, v, acc, id, LeafInsert(x, id, k, v))
    BY <1>2, <2>1, <2>3, LeafInsertIs
  <2>5. At(0)
    BY <2>1, <2>2, <2>4 DEF id
  <2>6. QED
    BY <2>1, <2>5
<1>10. ASSUME NEW i \in 1..n, i - 1 \in T PROVE i \in T
  <2> DEFINE j == N - i
             a == path[j]
             c == path[j + 1]
             r == f[i - 1]
  <2>1. j \in 1..(N - 1) /\ N - (i - 1) = j + 1 /\ i # 0 /\ i \in 0..n
    BY <1>5, <1>6 DEF n
  <2>2. Above(d, S, b, k, path, j, a, c)
    BY <1>2, <2>1 DEF Above
  <2>3. InsertedAt(d, S, b, k, v, acc, c, r)
    BY <1>10, <2>1
  <2>4. f[i] = InternalInsert(a, d[a], k, r)
    BY <1>1, <1>8, <2>1 DEF Turn
  <2> HIDE DEF r, a, c, j, N
  <2>5. InsertedAt(d, S, b, k, v, acc, a, InternalInsert(a, d[a], k, r))
    BY <2>2, <2>3, InnerInsertIs
  <2>6. At(i)
    BY <2>4, <2>5 DEF j, a
  <2>7. QED
    BY <2>1, <2>6
<1>11. 0..n \subseteq T
  <2> HIDE DEF T
  <2>1. QED
    BY <1>6, <1>9, <1>10, IntervalInduction
<1>12. At(n) /\ N - n = 1
  BY <1>5, <1>6, <1>11 DEF n
<1>13. InsertedAt(d, S, b, k, v, acc, d[0].root, Insert(x, k, v))
  BY <1>3, <1>5, <1>12
<1>14. QED
  BY <1>5, <1>13

\* The header names another root.
Rerooted(y, z, page, U, fl) ==
  /\ IsDb(z) /\ z.ok = y.ok /\ z.root = page /\ Sound(z, U, fl)
  /\ DOMAIN z.disk = DOMAIN y.disk /\ \A p \in DOMAIN y.disk \ {0} : z.disk[p] = y.disk[p]
  /\ ToSet(z.files) = ToSet(y.files) \cup {z.disk}

\* write_header with a new root.
LEMMA RerootedIs ==
  ASSUME NEW y, NEW U, NEW fl, Sound(y, U, fl), NEW page \in Nat, NEW z, z = WriteHeader([y EXCEPT !.root = page])
  PROVE  Rerooted(y, z, page, U, fl)
<1> DEFINE w == [y EXCEPT !.root = page]
           h == Fields(w)
           e == y.disk
<1>1. IsDb(y) /\ e[0] = Fields(y) /\ Space(e, U, fl)
  BY DEF Sound
<1>2. y.count \in Nat \ {0} /\ y.free \in Nat /\ e[0].count = y.count /\ e[0].free = y.free
  BY FieldsAre
<1>3. /\ IsDb(w) /\ w.disk = e /\ w.root = page /\ w.count = y.count /\ w.free = y.free /\ w.files = y.files
      /\ w.ok = y.ok
  BY <1>1 DEF IsDb
<1>4. z = WritePage(w, 0, h)
  BY DEF WriteHeader
<1> HIDE DEF w
<1>5. h = [root |-> page, count |-> y.count, free |-> y.free]
  BY <1>3 DEF Fields
<1> HIDE DEF h, e
<1>6. h \in Headers /\ h.count = y.count /\ h.free = y.free
  BY <1>2, <1>5, HeaderIs
<1>7. OneWrite(w, z, 0, h)
  BY <1>3, <1>4, WritePageIs
<1> DEFINE g == z.disk
<1>8. /\ IsDb(z) /\ z.ok = y.ok /\ Fields(z) = h /\ z.root = page
      /\ DOMAIN g = DOMAIN e \cup {0} /\ g[0] = h /\ \A q \in DOMAIN e \ {0} : g[q] = e[q]
      /\ ToSet(z.files) = ToSet(y.files) \cup {g}
  <2>1. IsDb(z) /\ z.ok = w.ok /\ Fields(z) = Fields(w) /\ z.root = w.root
    BY <1>7 DEF OneWrite
  <2>2. DOMAIN g = DOMAIN w.disk \cup {0} /\ g[0] = h /\ \A q \in DOMAIN w.disk \ {0} : g[q] = w.disk[q]
    BY <1>7 DEF OneWrite
  <2>3. ToSet(z.files) = ToSet(w.files) \cup {g}
    BY <1>7 DEF OneWrite
  <2> HIDE DEF g
  <2>4. QED
    BY <1>3, <2>1, <2>2, <2>3 DEF h
<1> HIDE DEF g
<1>9. /\ IsFiniteSet(DOMAIN e) /\ DOMAIN e \subseteq Nat /\ 0 \in DOMAIN e
      /\ U \cup ToSet(fl) \subseteq (1..(e[0].count - 1)) \cap DOMAIN e /\ U \cap ToSet(fl) = {}
  BY <1>1 DEF Space
<1>10. DOMAIN g = DOMAIN e
  BY <1>8, <1>9
<1>11. Space(g, U, fl)
  <2>1. U \subseteq (1..(g[0].count - 1)) \cap DOMAIN g
    BY <1>2, <1>6, <1>8, <1>9, <1>10
  <2>2. g[0] \in Headers /\ g[0].count = e[0].count /\ g[0].free = e[0].free
    BY <1>2, <1>6, <1>8
  <2>3. e[0].count <= g[0].count
    BY <1>2, <2>2
  <2>4. \A p \in ToSet(fl) : g[p] = e[p]
    BY <1>8, <1>9
  <2>5. QED
    BY <1>1, <1>9, <1>10, <2>1, <2>2, <2>3, <2>4, SpaceKept
<1>12. Sound(z, U, fl)
  BY <1>8, <1>11 DEF Sound, g
<1>13. QED
  BY <1>8, <1>10, <1>12 DEF Rerooted, g, e

----------------------------------------------------------------------------
(* btree_put. *)

\* What a put makes of a database whose tree is S.
PutOf(d, S, k, v, acc, y) ==
  /\ IsDb(y) /\ GoodFiles(y)
  /\ \E U, fl :
       /\ Sound(y, U, fl) /\ Rooted(y.disk, U)
       /\ y.ok => /\ Held(y.disk, U) = Upsert(Held(d, S), k, v)
                  /\ acc => Accounted(y.disk, U, fl)
       /\ ~y.ok /\ EvenSizes => Held(y.disk, U) = Held(d, S)

\* The root was split: a page above both halves is the new root.
LEMMA RootSplit ==
  ASSUME NEW d, NEW S, NEW k \in Keys, NEW v, NEW acc,
         NEW x, NEW P, NEW R, NEW fl, NEW right, NEW key \in Keys,
         Sound(x, P \cup R, fl), x.ok, GoodFiles(x), x.root = d[0].root, acc => Accounted(x.disk, P \cup R, fl),
         Tree(x.disk, P, x.root), Tree(x.disk, R, right), P \cap R = {},
         Full(x.disk, P \cup R), Held(x.disk, P \cup R) = Upsert(Held(d, S), k, v),
         \A q \in KeysIn(x.disk, P) : q < key, \A q \in KeysIn(x.disk, R) : key <= q,
         NEW page, page = AllocatedPage(x),
         NEW new, new = Internal(x.root, <<[key |-> key, child |-> right]>>),
         NEW y, y = WriteNode(AllocPage(x), page, new),
         NEW z, z = WriteHeader([y EXCEPT !.root = page])
  PROVE  y.ok /\ PutOf(d, S, k, v, acc, z)
<1> DEFINE g == x.disk
           U == P \cup R
           root == x.root
           sep == [key |-> key, child |-> right]
           w == AllocPage(x)
           V == {page} \cup U
<1>1. right \in Nat /\ root \in Nat
  <2>1. right \in R /\ R \subseteq Nat \ {0}
    BY TreeNodes
  <2>2. root \in P /\ P \subseteq Nat \ {0}
    BY TreeNodes
  <2>3. QED
    BY <2>1, <2>2
<1>2. Allocated(x, w, page, U, fl)
  BY AllocIs
<1> HIDE DEF w, U, root
<1>3. PICK rest : Sound(w, V, rest) /\ (acc => Accounted(w.disk, V, rest))
  <2>1. U \cup {page} = V
    OBVIOUS
  <2>2. QED
    BY <1>2, <2>1 DEF Allocated, U
<1>4. /\ IsDb(w) /\ w.ok /\ w.root = root /\ page \notin U /\ page \in Nat \ {0}
      /\ \A p \in U : w.disk[p] = g[p]
      /\ \A f \in ToSet(w.files) : f \in ToSet(x.files) \/ Untouched(x, U, f)
  BY <1>2 DEF Allocated, root
<1>5. InnerOf(new, root, <<sep>>) /\ new \in InnerPage /\ new.entries = <<sep>> /\ Len(new.entries) = 1 /\ new.entries # <<>>
  <2>1. sep \in Separator
    BY <1>1 DEF Separator
  <2>2. <<sep>> \in Seq(Separator) /\ Len(<<sep>>) = 1
    BY <2>1
  <2> HIDE DEF sep
  <2>3. InnerOf(new, root, <<sep>>)
    BY <1>1, <2>2, MadeInner DEF root, sep
  <2>4. new \in InnerPage /\ new.entries = <<sep>>
    BY <2>3 DEF InnerOf
  <2>5. new.entries # <<>>
    BY <2>2, <2>4
  <2>6. QED
    BY <2>2, <2>3, <2>4, <2>5
<1>6. Fits(new)
  <2> DEFINE len == Len(new.entries)
  <2>1. len = 1
    BY <1>5
  <2> HIDE DEF len
  <2>2. len <= 2
    BY <2>1
  <2>3. new \in InnerPage
    BY <1>5
  <2>4. Len(new.entries) <= 2
    BY <2>2 DEF len
  <2>5. QED
    BY <2>3, <2>4, InnerFits
<1> DEFINE G == [t \in 0..1 |-> IF t = 0 THEN P ELSE R]
<1>7. Family(g, new, G) /\ AllOf(new, G) = U
  <2>1. new.entries[1].key = key /\ Child(new, 0) = root /\ Child(new, 1) = right
    BY <1>5 DEF InnerOf
  <2>2. \A t \in 0..1 : t = 0 \/ t = 1
    OBVIOUS
  <2>3. \A q \in KeysIn(g, P) \cup KeysIn(g, R) : q \in Int
    <3>1. Nodes(g, P) /\ Nodes(g, R)
      BY TreeNodes
    <3>2. QED
      BY <3>1, KeysOfNodes
  <2>4. key \in Int
    BY KeysAreNumbers
  <2>5. G[0] = P /\ G[1] = R
    OBVIOUS
  <2> HIDE DEF G, g
  <2>6. ASSUME NEW t \in 0..1
        PROVE  /\ Tree(g, G[t], Child(new, t))
               /\ \A u \in 0..1 : t < u => G[t] \cap G[u] = {}
               /\ \A q \in KeysIn(g, G[t]) : /\ t = 0 \/ new.entries[t].key <= q
                                             /\ t = 1 \/ q < new.entries[t + 1].key
    <3>1. CASE t = 0
      <4>1. \A u \in 0..1 : t < u => u = 1
        BY <2>2, <3>1
      <4>2. QED
        BY <2>1, <2>5, <3>1, <4>1 DEF g, root
    <3>2. CASE t = 1
      <4>1. \A u \in 0..1 : ~(t < u)
        BY <2>2, <3>2
      <4>2. QED
        BY <2>1, <2>5, <3>2, <4>1 DEF g
    <3>3. QED
      BY <2>2, <3>1, <3>2
  <2> DEFINE n == 1
  <2>7. n = Len(new.entries)
    BY <1>5
  <2>8. Family(g, new, G)
    <3>1. \A i, j \in 1..n : i < j => new.entries[i].key < new.entries[j].key
      OBVIOUS
    <3>2. QED
      BY <1>5, <2>6, <2>7, <3>1, MakeFamily
  <2>9. Slots(new) = 0..1
    BY <1>5 DEF Slots
  <2>10. AllOf(new, G) = G[0] \cup G[1]
    BY <2>2, <2>9 DEF AllOf
  <2>11. QED
    BY <2>5, <2>8, <2>10 DEF U
<1> HIDE DEF G, g, V
<1>8. page \in V /\ V = {page} \cup U
  BY DEF V
<1>9. OneWrite(w, y, page, new)
  BY <1>4, <1>6, WriteNodeIs DEF w
<1>10. Sound(y, V, rest) /\ DOMAIN y.disk = DOMAIN w.disk
  BY <1>3, <1>8, <1>9, WriteSound
<1> DEFINE e == y.disk
           h == z.disk
<1>11. V \subseteq DOMAIN w.disk /\ V \subseteq DOMAIN e /\ 0 \notin V /\ Space(e, V, rest) /\ e[0] = Fields(y)
  <2>1. Space(e, V, rest) /\ e[0] = Fields(y)
    BY <1>10 DEF Sound
  <2> HIDE DEF V, e
  <2>2. V \subseteq DOMAIN e /\ 0 \notin V
    BY <2>1 DEF Space
  <2>3. QED
    BY <1>10, <2>1, <2>2 DEF e
<1>12. /\ y.ok /\ y.root = root /\ e[page] = new /\ \A p \in U : e[p] = g[p]
       /\ ToSet(y.files) = ToSet(w.files) \cup {e}
  <2>1. U \subseteq DOMAIN w.disk \ {page}
    BY <1>4, <1>8, <1>11
  <2>2. QED
    BY <1>4, <1>9, <2>1 DEF OneWrite
<1>13. Rerooted(y, z, page, V, rest)
  BY <1>4, <1>10, RerootedIs
<1>14. /\ IsDb(z) /\ z.ok /\ z.root = page /\ Sound(z, V, rest)
       /\ DOMAIN h = DOMAIN e /\ \A p \in V : h[p] = e[p]
       /\ ToSet(z.files) = ToSet(y.files) \cup {h}
  BY <1>11, <1>12, <1>13 DEF Rerooted
<1> HIDE DEF e, h
<1>15. Placed(h, g, page, new, U)
  <2>1. page \in DOMAIN h /\ h[page] = new /\ \A q \in U : q \in DOMAIN h /\ h[q] = g[q]
    BY <1>8, <1>11, <1>12, <1>14
  <2>2. QED
    BY <1>4, <1>6, <1>7, <2>1, PlacedIs
<1>16. Tree(h, V, page) /\ Full(h, V) /\ Held(h, V) = Held(g, U)
  <2>1. Full(g, U)
    BY DEF g, U
  <2>2. QED
    BY <1>5, <1>8, <1>15, <2>1 DEF Placed
<1>17. Rooted(h, V) /\ Space(h, V, rest)
  <2>1. h[0] = Fields(z) /\ Space(h, V, rest)
    BY <1>14 DEF Sound, h
  <2>2. h[0].root = page
    BY <1>14, <2>1 DEF Fields
  <2>3. QED
    BY <1>16, <2>1, <2>2 DEF Rooted
<1>18. ASSUME NEW f, NEW W, U \subseteq W, NEW l, Space(f, W, l), f[0].root = root, \A p \in U : p \in DOMAIN f /\ f[p] = g[p]
       PROVE  GoodFile(f)
  <2>1. Tree(f, P, root)
    <3>1. \A p \in P : p \in DOMAIN f /\ f[p] = g[p]
      BY <1>18 DEF U
    <3>2. Tree(g, P, root)
      BY DEF g, root
    <3>3. QED
      BY <3>1, <3>2, TreeSame
  <2>2. Full(f, P)
    BY <1>18 DEF Full, U, g
  <2>3. P \subseteq W
    BY <1>18 DEF U
  <2>4. Space(f, P, l)
    BY <1>18, <2>3, SpaceSmaller
  <2>5. Rooted(f, P)
    BY <1>18, <2>1, <2>2 DEF Rooted
  <2>6. QED
    BY <2>4, <2>5 DEF GoodFile
<1>19. GoodFiles(z)
  <2> SUFFICES ASSUME NEW f \in ToSet(z.files) PROVE GoodFile(f)
    BY DEF GoodFiles
  <2>1. CASE f \in ToSet(x.files)
    BY <2>1 DEF GoodFiles
  <2>2. CASE Untouched(x, U, f)
    <3>1. PICK l : Space(f, U, l)
      BY <2>2 DEF Untouched
    <3>2. f[0].root = root /\ \A p \in U : p \in DOMAIN f /\ f[p] = g[p]
      BY <2>2 DEF Untouched, root, g
    <3>3. QED
      BY <1>18, <3>1, <3>2
  <2>3. CASE f = e
    <3>1. e[0].root = root
      BY <1>11, <1>12 DEF Fields
    <3>2. \A p \in U : p \in DOMAIN e /\ e[p] = g[p]
      BY <1>8, <1>11, <1>12
    <3>3. U \subseteq V
      BY <1>8
    <3>4. QED
      BY <1>11, <1>18, <2>3, <3>1, <3>2, <3>3
  <2>4. CASE f = h
    BY <1>17, <2>4 DEF GoodFile
  <2>5. QED
    BY <1>4, <1>12, <1>14, <2>1, <2>2, <2>3, <2>4
<1>20. Held(h, V) = Upsert(Held(d, S), k, v)
  BY <1>16 DEF g, U
<1>21. acc => Accounted(h, V, rest)
  BY <1>3, <1>10, <1>14 DEF Accounted, e
<1>22. PutOf(d, S, k, v, acc, z)
  BY <1>14, <1>17, <1>19, <1>20, <1>21 DEF PutOf, h
<1>23. QED
  BY <1>12, <1>22

\* btree_put: the tree holds the record, or what it held before.
LEMMA PutIs ==
  ASSUME NEW d, NEW S, Rooted(d, S), NEW k \in Keys, NEW v, <<k, v>> \in Entries,
         NEW x, NEW fl, NEW acc, Ready(x, d, S, fl, acc)
  PROVE  PutOf(d, S, k, v, acc, BtPut(x, k, v))
<1> DEFINE r == Insert(x, k, v)
           root == d[0].root
           p == r.x
           g == p.disk
           page == AllocatedPage(p)
           new == Internal(p.root, <<[key |-> r.key, child |-> r.right]>>)
           y == WriteNode(AllocPage(p), page, new)
           z == WriteHeader([y EXCEPT !.root = page])
           t == BtPut(x, k, v)
<1>1. PICK b : b[root] = S /\ InsertedAt(d, S, b, k, v, acc, root, r)
  BY InsertIs
<1>2. t = IF ~p.ok \/ ~r.split THEN p ELSE IF ~y.ok THEN y ELSE z
  BY DEF BtPut, NewRoot
<1> HIDE DEF r, t, root, y, z, page
<1>3. p.root = root /\ GoodFiles(p) /\ r.split \in BOOLEAN
  BY <1>1 DEF InsertedAt, root
<1>4. PICK P, R, l : /\ Sound(p, P \cup R \cup (S \ b[root]), l)
                     /\ Pieces(d, S, b, k, root, g, P, R)
                     /\ p.ok => Succeeded(d, S, b, k, v, acc, root, r, P, R, l)
                     /\ ~p.ok => Failed(d, b, root, g, P, R)
  BY <1>1 DEF InsertedAt
<1>5. P \cup R \cup (S \ b[root]) = P \cup R
  BY <1>1
<1>6. Sound(p, P \cup R, l) /\ Tree(g, P, root) /\ P \cap R = {}
  BY <1>4, <1>5 DEF Pieces
<1>7. IsDb(p) /\ g[0].root = root
  BY <1>3, <1>6 DEF Sound, Fields
<1> HIDE DEF p, g
<1>8. CASE ~p.ok
  <2>1. R = {} /\ (Full(g, P) \/ P = {root}) /\ (EvenSizes => Held(g, P) = Held(d, S))
    BY <1>1, <1>4, <1>8 DEF Failed, root
  <2>2. P \cup R = P
    BY <2>1
  <2>3. Sound(p, P, l)
    BY <1>6, <2>2
  <2>4. Rooted(g, P)
    BY <1>6, <1>7, <2>1 DEF Rooted
  <2>5. PutOf(d, S, k, v, acc, p)
    BY <1>3, <1>7, <1>8, <2>1, <2>3, <2>4 DEF PutOf, g
  <2>6. QED
    BY <1>2, <1>8, <2>5 DEF t
<1>9. CASE p.ok
  <2>1. Succeeded(d, S, b, k, v, acc, root, r, P, R, l)
    BY <1>4, <1>9
  <2>2. /\ Full(g, P \cup R) /\ Held(g, P \cup R) = Upsert(Held(d, S), k, v)
        /\ acc => Accounted(g, P \cup R, l)
    BY <1>1, <1>5, <2>1 DEF Succeeded, g, p
  <2>3. CASE ~r.split
    <3>1. R = {}
      BY <2>1, <2>3 DEF Succeeded
    <3>2. P \cup R = P
      BY <3>1
    <3>3. Sound(p, P, l) /\ Rooted(g, P)
      BY <1>6, <1>7, <2>2, <3>2 DEF Rooted
    <3>4. PutOf(d, S, k, v, acc, p)
      BY <1>3, <1>7, <1>9, <2>2, <3>2, <3>3 DEF PutOf, g
    <3>5. QED
      BY <1>2, <2>3, <3>4 DEF t
  <2>4. CASE r.split
    <3>1. /\ Tree(g, R, r.right) /\ r.key \in Keys
          /\ \A q \in KeysIn(g, P) : q < r.key
          /\ \A q \in KeysIn(g, R) : r.key <= q
      BY <2>1, <2>4 DEF Succeeded, Parted, g, p
    <3> DEFINE key == r.key
               right == r.right
    <3>2. /\ page = AllocatedPage(p) /\ new = Internal(p.root, <<[key |-> key, child |-> right]>>)
          /\ y = WriteNode(AllocPage(p), page, new) /\ z = WriteHeader([y EXCEPT !.root = page])
      BY DEF page, y, z
    <3>3. /\ p.root = d[0].root /\ GoodFiles(p) /\ Tree(p.disk, P, p.root) /\ Tree(p.disk, R, right)
          /\ Full(p.disk, P \cup R) /\ Held(p.disk, P \cup R) = Upsert(Held(d, S), k, v)
          /\ acc => Accounted(p.disk, P \cup R, l)
          /\ key \in Keys
          /\ \A q \in KeysIn(p.disk, P) : q < key
          /\ \A q \in KeysIn(p.disk, R) : key <= q
      BY <1>3, <1>6, <2>2, <3>1 DEF g, root
    <3> HIDE DEF key, right, new
    <3>4. y.ok /\ PutOf(d, S, k, v, acc, z)
      BY <1>6, <1>9, <3>2, <3>3, RootSplit
    <3>5. QED
      BY <1>2, <1>9, <2>4, <3>4 DEF t
  <2>5. QED
    BY <1>3, <2>3, <2>4
<1>10. QED
  BY <1>7, <1>8, <1>9 DEF IsDb

----------------------------------------------------------------------------
(* Results of a deletion. *)

\* btree_delete_recursive of a key that is not there.
LEMMA NoChangeIs ==
  ASSUME NEW x
  PROVE  NoChange(x).x = x /\ NoChange(x).deleted = FALSE
BY DEF NoChange

\* The records of the other keys.
Others(H, k) == {e \in H : e.key # k}

\* The smallest key, if it is known.
Smallest(g, P, set) == set = {} \/ \E m \in Keys : set = {m} /\ Only(set) = m /\ Least(g, P, m)

\* The pages P are what is left of those below page id.
Remain(d, S, b, k, acc, id, r, P, fl) ==
  LET g == r.x.disk
  IN /\ Sound(r.x, P \cup (S \ b[id]), fl)
     /\ acc => Accounted(g, P \cup (S \ b[id]), fl)
     /\ P \cap (S \ b[id]) = {} /\ Full(g, P)
     /\ KeysIn(g, P) \subseteq KeysIn(d, b[id])
     /\ Held(g, P) = Others(Held(d, b[id]), k)
     /\ \A p \in S \ b[id] : g[p] = d[p]

\* Where they are linked from.
Linkage(g, P, id, r) ==
  /\ r.remove \in BOOLEAN
  /\ ~r.remove => Tree(g, P, id) /\ Smallest(g, P, r.newMin)
  /\ r.remove /\ r.replacement = 0 => P = {}
  /\ r.remove /\ r.replacement # 0 => Tree(g, P, r.replacement)

\* btree_delete_recursive below the root, from database x.
DeletedAt(d, S, b, k, acc, x, id, r) ==
  /\ r.x.ok /\ r.x.root = d[0].root /\ r.deleted \in BOOLEAN
  /\ ~r.deleted => r.x = x /\ Held(d, b[id]) = Others(Held(d, b[id]), k)
  /\ r.deleted => \E P, fl : Remain(d, S, b, k, acc, id, r, P, fl) /\ Linkage(r.x.disk, P, id, r)

\* The whole of a deletion.
DeleteOf(d, S, k, acc, y) ==
  /\ y.ok
  /\ \E U, fl : /\ Sound(y, U, fl) /\ Rooted(y.disk, U)
                /\ Held(y.disk, U) = Others(Held(d, S), k)
                /\ acc => Accounted(y.disk, U, fl)

AfterDelete(d, S, b, k, acc, x, id, r) ==
  IF id = d[0].root THEN DeleteOf(d, S, k, acc, r.x) ELSE DeletedAt(d, S, b, k, acc, x, id, r)

\* The database is not changed.
LEMMA DeletesNothing ==
  ASSUME NEW d, NEW S, Rooted(d, S), NEW b, NEW k, NEW x, NEW fl, NEW acc, Ready(x, d, S, fl, acc),
         NEW id, id = d[0].root => b[id] = S, Held(d, b[id]) = Others(Held(d, b[id]), k),
         NEW r, r.x = x, r.deleted = FALSE
  PROVE  AfterDelete(d, S, b, k, acc, x, id, r)
<1>1. Sound(x, S, fl) /\ x.disk = d /\ x.ok /\ x.root = d[0].root /\ (acc => Accounted(d, S, fl))
  BY DEF Ready
<1>2. CASE id = d[0].root
  <2>1. DeleteOf(d, S, k, acc, x)
    BY <1>1, <1>2 DEF DeleteOf
  <2>2. QED
    BY <1>2, <2>1 DEF AfterDelete
<1>3. CASE id # d[0].root
  BY <1>1, <1>3 DEF AfterDelete, DeletedAt
<1>4. QED
  BY <1>2, <1>3

\* The leaf without the record has been written.
LEMMA LeafShrunk ==
  ASSUME NEW d, NEW S, Rooted(d, S), NEW b, NEW k, NEW path, Setting(d, S, b, k, path), NEW j \in 1..Len(path),
         NEW id, id = path[j], d[id] \in LeafPage,
         NEW x, NEW fl, NEW acc, Ready(x, d, S, fl, acc),
         NEW new, NEW m, Shrank(d[id], new, k, m), Fits(new), new.entries # <<>> \/ id = x.root,
         NEW y, y = WriteNode(x, id, new), NEW r, r = Deleted(y, m)
  PROVE  AfterDelete(d, S, b, k, acc, x, id, r)
<1>1. Sound(x, S, fl) /\ x.disk = d /\ IsDb(x) /\ x.ok /\ x.root = d[0].root /\ (acc => Accounted(d, S, fl))
  BY DEF Ready, Sound
<1>2. id \in S /\ id \in Nat \ {0} /\ path[1] = d[0].root /\ b[path[1]] = S /\ Forest(d, S, b)
  <2>1. path[j] \in S /\ IsNode(d, path[j])
    BY PathPages
  <2>2. QED
    BY <2>1 DEF IsNode, Setting
<1>3. b[id] = {id}
  BY <1>2 DEF Forest, Linked
<1>4. OneWrite(x, y, id, new)
  BY <1>1, WriteNodeIs
<1>5. Sound(y, S, fl) /\ DOMAIN y.disk = DOMAIN d
  BY <1>1, <1>2, <1>4, WriteSound
<1> DEFINE g == y.disk
           P == {id}
<1>6. S \subseteq DOMAIN d
  BY <1>1 DEF Sound, Space
<1>7. /\ y.ok /\ y.root = d[0].root /\ id \in DOMAIN g /\ g[id] = new
      /\ \A p \in S \ {id} : p \in DOMAIN g /\ g[p] = d[p]
      /\ g[0] = Fields(y)
  BY <1>1, <1>2, <1>4, <1>5, <1>6 DEF OneWrite, Sound
<1> HIDE DEF g
<1>8. /\ new \in LeafPage /\ Sorted(new.entries) /\ KeysAt(new) \subseteq KeysAt(d[id])
      /\ Records(new) = Others(Records(d[id]), k)
      /\ m = {} \/ \E q \in Keys : m = {q} /\ q \in KeysAt(new) /\ \A u \in KeysAt(new) : q <= u
  BY DEF Shrank, Others
<1>9. Tree(g, P, id)
  <2>1. IsNode(g, id)
    BY <1>2, <1>7, <1>8 DEF IsNode
  <2>2. QED
    BY <1>7, <1>8, <2>1, TreeOfLeaf
<1>10. /\ KeysIn(g, P) = KeysAt(new) /\ Held(g, P) = Records(new)
       /\ KeysIn(d, b[id]) = KeysAt(d[id]) /\ Held(d, b[id]) = Records(d[id])
  BY <1>3, <1>7 DEF KeysIn, Held
<1>11. r.x = y /\ r.deleted = TRUE /\ r.remove = FALSE /\ r.newMin = m
  BY DEF Deleted, NoChange
<1>12. acc => Accounted(g, S, fl)
  BY <1>1, <1>5 DEF Accounted, g
<1>13. Smallest(g, P, m)
  <2>1. ASSUME NEW q \in Keys, m = {q}, q \in KeysAt(new), \A u \in KeysAt(new) : q <= u
        PROVE  Only(m) = q /\ Least(g, P, q)
    BY <1>10, <2>1 DEF Only, Least
  <2>2. QED
    BY <1>8, <2>1 DEF Smallest
<1> HIDE DEF P
<1>14. CASE id = d[0].root
  <2>1. S = P
    BY <1>2, <1>3, <1>14 DEF P
  <2>2. Rooted(g, S)
    <3>1. g[0].root = id
      BY <1>7, <1>14 DEF Fields
    <3>2. P = {g[0].root}
      BY <3>1 DEF P
    <3>3. QED
      BY <1>9, <2>1, <3>1, <3>2 DEF Rooted
  <2>3. Held(d, S) = Held(d, b[id])
    BY <1>2, <1>14
  <2>4. Held(g, S) = Others(Held(d, S), k)
    BY <1>8, <1>10, <2>1, <2>3
  <2>5. DeleteOf(d, S, k, acc, y)
    BY <1>5, <1>7, <1>12, <2>2, <2>4 DEF DeleteOf, g
  <2>6. QED
    BY <1>11, <1>14, <2>5 DEF AfterDelete
<1>15. CASE id # d[0].root
  <2>1. S = P \cup (S \ b[id]) /\ P \cap (S \ b[id]) = {}
    BY <1>2, <1>3 DEF P
  <2>2. Full(g, P)
    BY <1>1, <1>7, <1>15 DEF Full, P
  <2>3. \A p \in S \ b[id] : g[p] = d[p]
    BY <1>3, <1>7
  <2>4. Remain(d, S, b, k, acc, id, r, P, fl)
    <3>1. Sound(y, P \cup (S \ b[id]), fl) /\ (acc => Accounted(g, P \cup (S \ b[id]), fl))
      BY <1>5, <1>12, <2>1
    <3>2. KeysIn(g, P) \subseteq KeysIn(d, b[id]) /\ Held(g, P) = Others(Held(d, b[id]), k)
      BY <1>8, <1>10
    <3>3. QED
      BY <1>11, <2>1, <2>2, <2>3, <3>1, <3>2 DEF Remain, g
  <2>5. Linkage(g, P, id, r)
    BY <1>9, <1>11, <1>13 DEF Linkage
  <2>6. QED
    BY <1>7, <1>11, <1>15, <2>4, <2>5 DEF AfterDelete, DeletedAt, g
<1>16. QED
  BY <1>14, <1>15

\* The leaf has lost its only record and is freed.
LEMMA LeafEmptied ==
  ASSUME NEW d, NEW S, NEW b, NEW k, NEW path, Setting(d, S, b, k, path), NEW j \in 1..Len(path),
         NEW id, id = path[j], d[id] \in LeafPage,
         NEW x, NEW fl, NEW acc, Ready(x, d, S, fl, acc), id # x.root,
         NEW new, new.entries = <<>>, Shrank(d[id], new, k, {}),
         NEW y, y = FreePage(x, id), NEW r, r = Removed(y, 0)
  PROVE  AfterDelete(d, S, b, k, acc, x, id, r)
<1>1. Sound(x, S, fl) /\ x.disk = d /\ x.ok /\ x.root = d[0].root /\ (acc => Accounted(d, S, fl))
  BY DEF Ready
<1>2. id \in S /\ Forest(d, S, b)
  <2>1. path[j] \in S
    BY PathPages
  <2>2. QED
    BY <2>1 DEF Setting
<1>3. b[id] = {id}
  BY <1>2 DEF Forest, Linked
<1>4. Freed(x, y, id, S, fl)
  BY <1>1, <1>2, FreeIs
<1> DEFINE g == y.disk
           P == {}
<1>5. PICK list : Sound(y, S \ {id}, list) /\ (Accounted(d, S, fl) => Accounted(g, S \ {id}, list))
  BY <1>1, <1>4 DEF Freed
<1>6. y.ok /\ y.root = d[0].root /\ \A p \in S \ {id} : g[p] = d[p]
  BY <1>1, <1>4 DEF Freed
<1>7. r.x = y /\ r.deleted = TRUE /\ r.remove = TRUE /\ r.replacement = 0
  BY DEF Removed, NoChange
<1>8. Records(new) = {} /\ Records(new) = Others(Records(d[id]), k)
  BY PageKinds DEF Shrank, Others, Records, LeafPage
<1>9. Held(d, b[id]) = Records(d[id]) /\ Held(g, P) = {} /\ KeysIn(g, P) = {}
  BY <1>3 DEF Held, KeysIn
<1> HIDE DEF g
<1>10. P \cup (S \ b[id]) = S \ {id}
  BY <1>3
<1>11. Remain(d, S, b, k, acc, id, r, P, list)
  <2>1. Sound(y, P \cup (S \ b[id]), list) /\ (acc => Accounted(g, P \cup (S \ b[id]), list))
    BY <1>1, <1>5, <1>10
  <2>2. Full(g, P) /\ P \cap (S \ b[id]) = {} /\ KeysIn(g, P) \subseteq KeysIn(d, b[id])
    BY <1>9 DEF Full
  <2>3. \A p \in S \ b[id] : g[p] = d[p]
    BY <1>3, <1>6
  <2>4. Held(g, P) = Others(Held(d, b[id]), k)
    BY <1>8, <1>9
  <2>5. QED
    BY <1>7, <2>1, <2>2, <2>3, <2>4 DEF Remain, g
<1>12. Linkage(y.disk, P, id, r)
  BY <1>7 DEF Linkage
<1>13. DeletedAt(d, S, b, k, acc, x, id, r)
  <2>1. r.x.ok /\ r.x.root = d[0].root /\ r.deleted \in BOOLEAN /\ r.deleted
    BY <1>6, <1>7
  <2>2. Linkage(r.x.disk, P, id, r)
    BY <1>7, <1>12
  <2>3. QED
    BY <1>11, <2>1, <2>2 DEF DeletedAt
<1>14. QED
  BY <1>1, <1>13 DEF AfterDelete

\* A key that is not in a leaf.
LEMMA NotInLeaf ==
  ASSUME NEW page \in LeafPage, NEW k, ~InLeaf(page, k)
  PROVE  Records(page) = Others(Records(page), k)
BY RecordsOfPage, LeafIs DEF InLeaf, Others, LeafOf

\* btree_delete_recursive at the leaf that the key belongs to.
LEMMA LeafDeleteIs ==
  ASSUME NEW d, NEW S, Rooted(d, S), NEW b, NEW k, NEW path, Setting(d, S, b, k, path), NEW j \in 1..Len(path),
         NEW id, id = path[j], d[id] \in LeafPage,
         NEW x, NEW fl, NEW acc, Ready(x, d, S, fl, acc)
  PROVE  AfterDelete(d, S, b, k, acc, x, id, LeafDelete(x, id, k))
<1> DEFINE page == d[id]
           r == LeafDelete(x, id, k)
           pos == LeafSlot(page, k)
           rest == RemoveAt(page.entries, pos)
           newMin == IF pos = 1 /\ rest # <<>> THEN {rest[1].key} ELSE {}
           y == WriteNode(x, id, Leaf(rest))
           z == FreePage(x, id)
<1>1. x.disk = d /\ x.root = d[0].root
  BY DEF Ready
<1>2. IsNode(d, id) /\ k \in Keys /\ Forest(d, S, b) /\ id \in S /\ (id = d[0].root => b[id] = S)
  <2>1. IsNode(d, path[j]) /\ path[j] \in S
    BY PathPages
  <2>2. QED
    BY <2>1 DEF Setting
<1>3. IsLeaf(d, id) /\ page \in LeafPage /\ Sorted(page.entries) /\ Fits(page)
  BY <1>2, InnerIs DEF IsNode
<1>4. r = IF ~InLeaf(page, k) THEN NoChange(x)
          ELSE IF rest = <<>> /\ id # x.root THEN Removed(z, 0) ELSE Deleted(y, newMin)
  BY <1>1, <1>3 DEF LeafDelete
<1>5. b[id] = {id} /\ Held(d, b[id]) = Records(page)
  <2>1. b[id] = {id}
    BY <1>2 DEF Forest, Linked
  <2>2. QED
    BY <2>1 DEF Held
<1> HIDE DEF r, rest, newMin, y, z, pos, page
<1>6. CASE ~InLeaf(page, k)
  <2>1. Held(d, b[id]) = Others(Held(d, b[id]), k)
    BY <1>3, <1>5, <1>6, NotInLeaf
  <2>2. r = NoChange(x)
    BY <1>4, <1>6
  <2>3. r.x = x /\ r.deleted = FALSE
    BY <2>2, NoChangeIs
  <2>4. QED
    BY <1>2, <2>1, <2>3, DeletesNothing DEF r
<1>7. CASE InLeaf(page, k)
  <2>1. pos \in 1..Len(page.entries) /\ Shrank(page, Leaf(rest), k, newMin)
    BY <1>2, <1>3, <1>7, LeafRemove DEF pos, rest, newMin
  <2>2. Leaf(rest) \in LeafPage /\ Fits(Leaf(rest)) /\ Leaf(rest).entries = rest
    <3>1. Leaf(RemoveAt(page.entries, pos)) \in LeafPage /\ Fits(Leaf(RemoveAt(page.entries, pos)))
      BY <1>3, <2>1, RestFits
    <3>2. Leaf(rest).entries = rest
      BY DEF Leaf, Page
    <3>3. QED
      BY <3>1, <3>2 DEF rest
  <2> DEFINE new == Leaf(rest)
  <2>3. new.entries = rest /\ Fits(new) /\ Shrank(d[id], new, k, newMin) /\ d[id] \in LeafPage
    BY <2>1, <2>2 DEF page
  <2>4. y = WriteNode(x, id, new)
    BY DEF y
  <2> HIDE DEF new
  <2>5. CASE rest = <<>> /\ id # x.root
    <3>1. newMin = {}
      BY <2>5 DEF newMin
    <3>2. r = Removed(z, 0) /\ z = FreePage(x, id)
      BY <1>4, <1>7, <2>5 DEF z
    <3>3. QED
      BY <2>3, <2>5, <3>1, <3>2, LeafEmptied DEF r
  <2>6. CASE ~(rest = <<>> /\ id # x.root)
    <3>1. r = Deleted(y, newMin)
      BY <1>4, <1>7, <2>6
    <3>2. new.entries # <<>> \/ id = x.root
      BY <2>3, <2>6
    <3>3. AfterDelete(d, S, b, k, acc, x, id, r)
      BY <2>3, <2>4, <3>1, <3>2, LeafShrunk
    <3>4. QED
      BY <3>3 DEF r
  <2>7. QED
    BY <2>5, <2>6
<1>8. QED
  BY <1>6, <1>7

\* In file g the pages P are what is left of those below page c.
Left(d, S, b, k, c, g, P) ==
  /\ IsFiniteSet(DOMAIN g) /\ S \ b[c] \subseteq DOMAIN g
  /\ P \cap (S \ b[c]) = {} /\ Full(g, P)
  /\ KeysIn(g, P) \subseteq KeysIn(d, b[c])
  /\ Held(g, P) = Others(Held(d, b[c]), k)
  /\ \A p \in S \ b[c] : g[p] = d[p]

\* page is what page a becomes; it is above the pages P in place of those below c.
Kept(d, b, a, c, g, P, page) ==
  /\ page \in InnerPage /\ Len(page.entries) <= Len(d[a].entries)
  /\ KeysAt(page) \subseteq KeysIn(d, b[a])
  /\ \E H : Family(g, page, H) /\ AllOf(page, H) = P \cup Beside(b, a, c)

\* The surroundings of the page, in both files.
NextTo(d, S, b, k, a, c, g, P) ==
  LET beside == Beside(b, a, c)
  IN /\ Around(d, S, b, k, a, c, g)
     /\ \A p \in beside : p \in DOMAIN g /\ g[p] = d[p]
     /\ P \cap beside = {} /\ beside \subseteq S

\* The pages beside the child below which a key was deleted, and their keys.
LEMMA NextToIs ==
  ASSUME NEW d, NEW S, NEW b, NEW k, NEW path, NEW j, NEW a, NEW c, Above(d, S, b, k, path, j, a, c),
         NEW g, NEW P, Left(d, S, b, k, c, g, P)
  PROVE  NextTo(d, S, b, k, a, c, g, P)
<1>1. Forest(d, S, b) /\ k \in Int /\ Routes(d, S, b, k, a, c)
  BY AboveIs
<1>2. b[c] \subseteq b[a] /\ b[a] \subseteq S
  BY <1>1 DEF Routes
<1>3. Around(d, S, b, k, a, c, g)
  BY <1>1, AroundIs DEF Left
<1>4. Beside(b, a, c) \subseteq S \ b[c]
  BY <1>2 DEF Beside
<1>5. QED
  BY <1>3, <1>4 DEF NextTo, Left

\* The child is kept, or another one put in its place, and its separator made to agree.
LEMMA KeptRekeyed ==
  ASSUME NEW d, NEW S, NEW b, NEW k, NEW path, NEW j, NEW a, NEW c, Above(d, S, b, k, path, j, a, c),
         NEW g, NEW P, Left(d, S, b, k, c, g, P),
         NEW G, \A s \in Slots(d[a]) : G[s] = b[Child(d[a], s)],
         NEW root, Tree(g, P, root), NEW m \in Keys, Least(g, P, m),
         NEW new, Rekeyed(d, d[a], G, Route(d[a], k), root, m, new)
  PROVE  Kept(d, b, a, c, g, P, new)
<1> DEFINE s == Route(d[a], k)
           beside == Beside(b, a, c)
<1>1. /\ Forest(d, S, b) /\ k \in Int /\ Routes(d, S, b, k, a, c)
      /\ a \in S /\ d[a] \in InnerPage
  BY AboveIs
<1>2. s \in Slots(d[a]) /\ c = Child(d[a], s)
  BY <1>1 DEF Routes
<1>3. NextTo(d, S, b, k, a, c, g, P)
  BY NextToIs
<1>4. /\ (\A p \in beside : p \in DOMAIN g /\ g[p] = d[p]) /\ P \cap beside = {}
      /\ Around(d, S, b, k, a, c, g)
  BY <1>3 DEF NextTo
<1>5. /\ KeysIn(d, b[c]) \subseteq KeysIn(d, b[a]) /\ KeysAt(d[a]) \subseteq KeysIn(d, b[a])
      /\ \A q \in KeysIn(d, b[c]) : Between(d[a], s, q)
  BY <1>4 DEF Around
<1> HIDE DEF s, beside
<1>6. /\ new \in InnerPage /\ Sorted(new.entries) /\ Slots(new) = Slots(d[a])
      /\ Len(new.entries) = Len(d[a].entries)
      /\ Child(new, s) = root
      /\ \A t \in Slots(d[a]) \ {s} : Child(new, t) = Child(d[a], t)
      /\ \A t \in Slots(d[a]) \ {s} : \A q \in KeysIn(d, G[t]) : Between(new, t, q)
      /\ \A q \in Int : Between(d[a], s, q) /\ m <= q => Between(new, s, q)
      /\ KeysAt(new) \subseteq KeysAt(d[a]) \cup {m}
  BY DEF Rekeyed, s
<1>7. KeysIn(g, P) \subseteq KeysIn(d, b[c]) /\ m \in KeysIn(g, P) /\ \A q \in KeysIn(g, P) : m <= q
  BY DEF Left, Least
<1>8. \A q \in KeysIn(g, P) : q \in Int
  BY TreeNodes, KeysOfNodes
<1>9. PICK H : Regrown(d, b, a, s, g, new, P, H)
  <2>1. \A t \in Slots(d[a]) \ {s} : /\ Child(new, t) = Child(d[a], t)
                                     /\ \A q \in KeysIn(d, b[Child(d[a], t)]) : Between(new, t, q)
    BY <1>6
  <2>2. Tree(g, P, Child(new, s)) /\ \A q \in KeysIn(g, P) : Between(new, s, q)
    BY <1>5, <1>6, <1>7, <1>8
  <2>3. /\ \A p \in Beside(b, a, Child(d[a], s)) : p \in DOMAIN g /\ g[p] = d[p]
        /\ P \cap Beside(b, a, Child(d[a], s)) = {}
    BY <1>2, <1>4 DEF beside
  <2>4. new \in InnerPage /\ Sorted(new.entries) /\ Slots(new) = Slots(d[a])
    BY <1>6
  <2>5. QED
    BY <1>1, <1>2, <2>1, <2>2, <2>3, <2>4, FamilyWith
<1>10. Family(g, new, H) /\ AllOf(new, H) = P \cup Beside(b, a, c)
  BY <1>2, <1>9 DEF Regrown
<1>11. KeysAt(new) \subseteq KeysIn(d, b[a])
  BY <1>5, <1>6, <1>7
<1>12. Len(new.entries) <= Len(d[a].entries)
  <2>1. Len(d[a].entries) \in Nat
    BY <1>1, InnerEntries
  <2>2. QED
    BY <1>6, <2>1
<1>13. QED
  BY <1>6, <1>10, <1>11, <1>12 DEF Kept

\* The page itself is kept.
LEMMA KeptAsIs ==
  ASSUME NEW d, NEW S, NEW b, NEW k, NEW path, NEW j, NEW a, NEW c, Above(d, S, b, k, path, j, a, c),
         NEW g, NEW P, Left(d, S, b, k, c, g, P), Tree(g, P, c)
  PROVE  Kept(d, b, a, c, g, P, d[a])
<1> DEFINE s == Route(d[a], k)
           beside == Beside(b, a, c)
<1>1. /\ Forest(d, S, b) /\ k \in Int /\ Routes(d, S, b, k, a, c)
      /\ a \in S /\ d[a] \in InnerPage
  BY AboveIs
<1>2. s \in Slots(d[a]) /\ c = Child(d[a], s)
  BY <1>1 DEF Routes
<1>3. NextTo(d, S, b, k, a, c, g, P)
  BY NextToIs
<1>4. /\ (\A p \in beside : p \in DOMAIN g /\ g[p] = d[p]) /\ P \cap beside = {}
      /\ Around(d, S, b, k, a, c, g)
  BY <1>3 DEF NextTo
<1>5. KeysAt(d[a]) \subseteq KeysIn(d, b[a]) /\ \A q \in KeysIn(d, b[c]) : Route(d[a], q) = s
  BY <1>4 DEF Around
<1> HIDE DEF s, beside
<1>6. PICK H : Regrown(d, b, a, s, g, d[a], P, H)
  <2>1. Tree(g, P, Child(d[a], s)) /\ \A q \in KeysIn(g, P) : Route(d[a], q) = s
    BY <1>2, <1>5 DEF Left
  <2>2. /\ \A p \in Beside(b, a, Child(d[a], s)) : p \in DOMAIN g /\ g[p] = d[p]
        /\ P \cap Beside(b, a, Child(d[a], s)) = {}
    BY <1>2, <1>4 DEF beside
  <2>3. QED
    BY <1>1, <1>2, <2>1, <2>2, FamilyKept
<1>7. Family(g, d[a], H) /\ AllOf(d[a], H) = P \cup Beside(b, a, c)
  BY <1>2, <1>6 DEF Regrown
<1>8. Len(d[a].entries) \in Nat
  BY <1>1, InnerEntries
<1>9. QED
  BY <1>1, <1>5, <1>7, <1>8 DEF Kept

\* The child is dropped: nothing is left below it.
LEMMA KeptWithout ==
  ASSUME NEW d, NEW S, NEW b, NEW k, NEW path, NEW j, NEW a, NEW c, Above(d, S, b, k, path, j, a, c),
         NEW g, NEW P, Left(d, S, b, k, c, g, P), P = {},
         NEW G, \A s \in Slots(d[a]) : G[s] = b[Child(d[a], s)]
  PROVE  Kept(d, b, a, c, g, P, RemoveChild(d[a], Route(d[a], k)))
<1> DEFINE s == Route(d[a], k)
           beside == Beside(b, a, c)
           new == RemoveChild(d[a], s)
<1>1. /\ Forest(d, S, b) /\ k \in Int /\ Routes(d, S, b, k, a, c)
      /\ a \in S /\ d[a] \in InnerPage /\ Full(d, S)
  BY AboveIs
<1>2. s \in Slots(d[a]) /\ c = Child(d[a], s) /\ d[a].entries # <<>>
  BY <1>1 DEF Routes, Full
<1>3. NextTo(d, S, b, k, a, c, g, P)
  BY NextToIs
<1>4. (\A p \in beside : p \in DOMAIN g /\ g[p] = d[p]) /\ Around(d, S, b, k, a, c, g)
  BY <1>3 DEF NextTo
<1>5. KeysAt(d[a]) \subseteq KeysIn(d, b[a])
  BY <1>4 DEF Around
<1>6. Family(d, d[a], G) /\ a \notin AllOf(d[a], G) /\ b[a] = {a} \cup AllOf(d[a], G)
  BY <1>1, FamilyBelow
<1> HIDE DEF s, new
<1>7. Bereft(d, d[a], G, s, new)
  BY <1>2, <1>6, FamilyRemove DEF new
<1>8. PICK H : Family(d, new, H) /\ AllOf(d[a], G) = AllOf(new, H) \cup G[s] /\ AllOf(new, H) \cap G[s] = {}
  BY <1>7 DEF Bereft
<1>9. G[s] = b[c]
  BY <1>2
<1>10. AllOf(new, H) = beside
  BY <1>6, <1>8, <1>9 DEF Beside
<1> HIDE DEF beside
<1>11. Family(g, new, H)
  BY <1>4, <1>8, <1>10, FamilySame
<1>12. new \in InnerPage /\ Len(new.entries) <= Len(d[a].entries) /\ KeysAt(new) \subseteq KeysAt(d[a])
  <2>1. Len(d[a].entries) \in Nat
    BY <1>1, InnerEntries
  <2>2. QED
    BY <1>7, <2>1 DEF Bereft
<1>13. AllOf(new, H) = P \cup Beside(b, a, c)
  BY <1>10 DEF beside
<1>14. Kept(d, b, a, c, g, P, new)
  BY <1>5, <1>11, <1>12, <1>13 DEF Kept
<1>15. QED
  BY <1>14 DEF new, s

\* What the deletion writes in place of a page.
LEMMA WithoutIs ==
  ASSUME NEW d, NEW S, NEW b, NEW k, NEW path, NEW j, NEW a, NEW c, Above(d, S, b, k, path, j, a, c),
         NEW r, NEW g, g = r.x.disk, NEW P, Left(d, S, b, k, c, g, P), Linkage(g, P, c, r)
  PROVE  /\ Kept(d, b, a, c, g, P, WithoutChild(d[a], Route(d[a], k), r))
         /\ r.remove /\ r.replacement # 0 => SubtreeMin(g, r.replacement) # {}
<1> DEFINE s == Route(d[a], k)
           page == d[a]
           new == WithoutChild(page, s, r)
           rep == r.replacement
           beside == Beside(b, a, c)
           G == [t \in Slots(d[a]) |-> b[Child(d[a], t)]]
<1>1. /\ Forest(d, S, b) /\ k \in Int /\ k \in Keys /\ Routes(d, S, b, k, a, c)
      /\ a \in S /\ page \in InnerPage
  BY AboveIs
<1>2. s \in Slots(page) /\ c = Child(page, s)
  BY <1>1 DEF Routes
<1>3. \A t \in Slots(d[a]) : G[t] = b[Child(d[a], t)]
  OBVIOUS
<1> HIDE DEF G
<1>4. Family(d, page, G)
  BY <1>1, <1>3, FamilyBelow
<1>5. NextTo(d, S, b, k, a, c, g, P)
  BY NextToIs
<1>6. \A q \in KeysIn(d, b[c]) : Between(page, s, q)
  BY <1>5 DEF NextTo, Around
<1>7. /\ KeysIn(g, P) \subseteq KeysIn(d, b[c]) /\ Full(g, P) /\ IsFiniteSet(DOMAIN g)
  BY DEF Left
<1>8. new = IF r.remove /\ rep # 0 THEN Relink(page, s, rep, g)
            ELSE IF r.remove THEN RemoveChild(page, s)
            ELSE IF r.newMin # {} /\ s > 0
                 THEN [page EXCEPT !.entries[s].key = Only(r.newMin)]
            ELSE page
  BY DEF WithoutChild
<1>9. page.entries \in Seq(Separator) /\ s \in 0..Len(page.entries) /\ Len(page.entries) \in Nat
  BY <1>1, <1>2, InnerEntries DEF Slots
<1> HIDE DEF s, new, rep
<1>10. CASE r.remove /\ rep # 0
  <2>1. Tree(g, P, rep)
    BY <1>10 DEF Linkage, rep
  <2>2. PICK m \in Keys : SubtreeMin(g, rep) = {m} /\ Only(SubtreeMin(g, rep)) = m /\ Least(g, P, m)
    BY <1>7, <2>1, SubtreeMinIs
  <2>3. rep \in Nat
    BY <2>1, TreeNodes
  <2>4. new = Relink(page, s, rep, g)
    BY <1>8, <1>10
  <2>5. Rekeyed(d, page, G, s, rep, m, new)
    <3>1. CASE s = 0
      <4>1. new = [page EXCEPT !.left = rep]
        BY <2>4, <3>1 DEF Relink
      <4>2. Rekeyed(d, page, G, 0, rep, m, new)
        BY <1>4, <2>3, <4>1, RelinkFirst
      <4>3. QED
        BY <3>1, <4>2
    <3>2. CASE s # 0
      <4>1. new = [page EXCEPT !.entries[s] = [key |-> m, child |-> rep]]
        BY <2>2, <2>4, <3>2 DEF Relink
      <4>2. Between(page, s, m)
        BY <1>6, <1>7, <2>2 DEF Least
      <4>3. QED
        BY <1>2, <1>4, <2>3, <3>2, <4>1, <4>2, RekeySlot
    <3>3. QED
      BY <3>1, <3>2
  <2>6. Kept(d, b, a, c, g, P, new)
    BY <1>3, <2>1, <2>2, <2>5, KeptRekeyed DEF s
  <2>7. QED
    BY <2>2, <2>6 DEF new, s, rep
<1>11. CASE r.remove /\ rep = 0
  <2>1. P = {}
    BY <1>11 DEF Linkage, rep
  <2>2. new = RemoveChild(page, s)
    BY <1>8, <1>11
  <2>3. Kept(d, b, a, c, g, P, new)
    BY <1>3, <2>1, <2>2, KeptWithout DEF s
  <2>4. QED
    BY <1>11, <2>3 DEF new, s, rep
<1>12. CASE ~r.remove /\ ~(r.newMin # {} /\ s > 0)
  <2>1. Tree(g, P, c)
    BY <1>12 DEF Linkage
  <2>2. new = page
    BY <1>8, <1>12
  <2>3. Kept(d, b, a, c, g, P, new)
    BY <2>1, <2>2, KeptAsIs
  <2>4. QED
    BY <1>12, <2>3 DEF new, s
<1>13. CASE ~r.remove /\ r.newMin # {} /\ s > 0
  <2>1. Tree(g, P, c) /\ Smallest(g, P, r.newMin)
    BY <1>13 DEF Linkage
  <2>2. PICK m \in Keys : Only(r.newMin) = m /\ Least(g, P, m)
    BY <1>13, <2>1 DEF Smallest
  <2>3. new = [page EXCEPT !.entries[s].key = m]
    BY <1>8, <1>13, <2>2
  <2>4. s \in 1..Len(page.entries) /\ page.entries[s] \in Separator /\ s # 0
    BY <1>1, <1>9, <1>13, InnerEntries
  <2>5. page.entries[s].child = c
    BY <1>2, <2>4 DEF Child
  <2>6. [page.entries[s] EXCEPT !.key = m] = [key |-> m, child |-> c]
    BY <2>4, <2>5 DEF Separator
  <2>7. new = [page EXCEPT !.entries[s] = [key |-> m, child |-> c]]
    BY <2>3, <2>6
  <2>8. Between(page, s, m)
    BY <1>6, <1>7, <2>2 DEF Least
  <2>9. c \in Nat
    BY <2>1, TreeNodes
  <2>10. Rekeyed(d, page, G, s, c, m, new)
    BY <1>2, <1>4, <2>4, <2>7, <2>8, <2>9, RekeySlot
  <2>11. Kept(d, b, a, c, g, P, new)
    BY <1>3, <2>1, <2>2, <2>10, KeptRekeyed DEF s
  <2>12. QED
    BY <1>13, <2>11 DEF new, s
<1>14. QED
  BY <1>10, <1>11, <1>12, <1>13

\* new is what page a becomes, A the pages below it.
Dropping(d, S, b, k, a, c, g, P, new, A) ==
  /\ new \in InnerPage /\ Fits(new) /\ KeysAt(new) \subseteq KeysIn(d, b[a])
  /\ \E H : Family(g, new, H) /\ AllOf(new, H) = A
  /\ a \notin A /\ A \cap (S \ b[a]) = {} /\ {a} \cup A \cup (S \ b[a]) = P \cup (S \ b[c])
  /\ Full(g, A) /\ KeysIn(g, A) \subseteq KeysIn(d, b[a])
  /\ Held(g, A) = Others(Held(d, b[a]), k)

\* A page rewritten without a child, or with another key for it, has the trees beside it.
LEMMA DroppingIs ==
  ASSUME NEW d, NEW S, NEW b, NEW k, NEW path, NEW j, NEW a, NEW c, Above(d, S, b, k, path, j, a, c),
         NEW g, NEW P, Left(d, S, b, k, c, g, P), NEW new, Kept(d, b, a, c, g, P, new)
  PROVE  Dropping(d, S, b, k, a, c, g, P, new, P \cup Beside(b, a, c))
<1> DEFINE beside == Beside(b, a, c)
           rest == b[a] \ b[c]
           A == P \cup beside
<1>1. /\ Forest(d, S, b) /\ k \in Int /\ Routes(d, S, b, k, a, c)
      /\ Full(d, S) /\ a \in S /\ d[a] \in InnerPage /\ Fits(d[a])
  BY AboveIs
<1>2. b[c] \subseteq b[a] /\ b[a] \subseteq S /\ a \in b[a] /\ a \notin b[c]
  BY <1>1 DEF Routes
<1>3. NextTo(d, S, b, k, a, c, g, P)
  BY NextToIs
<1>4. (\A p \in beside : p \in DOMAIN g /\ g[p] = d[p]) /\ Around(d, S, b, k, a, c, g) /\ beside \subseteq S
  BY <1>3 DEF NextTo
<1>5. /\ rest = {a} \cup beside /\ a \notin beside /\ b[a] = b[c] \cup rest
      /\ KeysIn(g, beside) = KeysIn(d, beside) /\ KeysIn(d, beside) \subseteq KeysIn(d, b[a])
      /\ KeysIn(d, b[c]) \subseteq KeysIn(d, b[a])
      /\ Held(g, beside) = Held(d, rest)
      /\ Held(d, b[a]) = Held(d, b[c]) \cup Held(d, rest)
      /\ \A e \in Held(d, rest) : e.key # k
  BY <1>4 DEF Around
<1>6. /\ P \cap (S \ b[c]) = {} /\ Full(g, P)
      /\ KeysIn(g, P) \subseteq KeysIn(d, b[c])
      /\ Held(g, P) = Others(Held(d, b[c]), k)
  BY DEF Left
<1>7. a \notin A /\ A \cap (S \ b[a]) = {} /\ {a} \cup A \cup (S \ b[a]) = P \cup (S \ b[c])
  BY <1>1, <1>2, <1>5, <1>6
<1> HIDE DEF beside, rest, A
<1>8. Full(g, A)
  <2>1. Full(g, beside)
    BY <1>1, <1>4 DEF Full
  <2>2. QED
    BY <1>6, <2>1, FullParts DEF A
<1>9. KeysIn(g, A) \subseteq KeysIn(d, b[a])
  <2>1. KeysIn(g, A) = KeysIn(g, P) \cup KeysIn(g, beside)
    BY KeysInUnion DEF A
  <2>2. QED
    BY <1>5, <1>6, <2>1
<1>10. Held(g, A) = Others(Held(d, b[a]), k)
  <2>1. Held(g, A) = Held(g, P) \cup Held(g, beside)
    BY HeldInUnion DEF A
  <2>2. QED
    BY <1>5, <1>6, <2>1 DEF Others
<1>11. new \in InnerPage /\ KeysAt(new) \subseteq KeysIn(d, b[a]) /\ \E H : Family(g, new, H) /\ AllOf(new, H) = A
  BY DEF Kept, A, beside
<1>12. Fits(new)
  <2>1. Len(new.entries) <= Len(d[a].entries)
    BY DEF Kept
  <2>2. QED
    BY <1>1, <1>11, <2>1, InnerFits
<1>13. Dropping(d, S, b, k, a, c, g, P, new, A)
  BY <1>7, <1>8, <1>9, <1>10, <1>11, <1>12 DEF Dropping
<1>14. QED
  BY <1>13 DEF A, beside

\* A database when btree_delete_recursive is back from below page a.
Ascending(y, d, S, b, a, A, fl, acc) ==
  LET U == {a} \cup A \cup (S \ b[a])
  IN /\ Sound(y, U, fl) /\ y.ok /\ y.root = d[0].root
     /\ acc => Accounted(y.disk, U, fl)
     /\ \A p \in S \ b[a] : y.disk[p] = d[p]

\* The page in place of page a has been written.
Rewrote(d, S, b, k, acc, a, A, fl, z) ==
  LET U == {a} \cup A \cup (S \ b[a])
  IN /\ Sound(z, U, fl) /\ z.ok /\ z.root = d[0].root
     /\ acc => Accounted(z.disk, U, fl)
     /\ \A p \in S \ b[a] : z.disk[p] = d[p]
     /\ Tree(z.disk, {a} \cup A, a) /\ Full(z.disk, {a} \cup A)
     /\ KeysIn(z.disk, {a} \cup A) \subseteq KeysIn(d, b[a])
     /\ Held(z.disk, {a} \cup A) = Others(Held(d, b[a]), k)
     /\ ({a} \cup A) \cap (S \ b[a]) = {}

\* The page that has lost a child or changed a separator is written.
LEMMA DropWritten ==
  ASSUME NEW d, NEW S, NEW b, NEW k, NEW path, NEW j, NEW a, NEW c, Above(d, S, b, k, path, j, a, c),
         NEW y, NEW A, NEW fl, NEW acc, Ascending(y, d, S, b, a, A, fl, acc),
         NEW P, NEW new, Dropping(d, S, b, k, a, c, y.disk, P, new, A), new.entries # <<>>,
         NEW z, z = WriteNode(y, a, new)
  PROVE  Rewrote(d, S, b, k, acc, a, A, fl, z)
<1> DEFINE U == {a} \cup A \cup (S \ b[a])
           g == y.disk
           f == z.disk
           T == {a} \cup A
<1>1. /\ Sound(y, U, fl) /\ y.ok /\ y.root = d[0].root /\ (acc => Accounted(g, U, fl))
      /\ \A p \in S \ b[a] : g[p] = d[p]
  BY DEF Ascending
<1>2. IsDb(y) /\ U \subseteq DOMAIN g /\ a \in U
  BY <1>1 DEF Sound, Space
<1>3. a \in Nat \ {0} /\ a \in S /\ a \in b[a]
  <2>1. Routes(d, S, b, k, a, c) /\ a \in Nat \ {0} /\ a \in S
    BY AboveIs
  <2>2. QED
    BY <2>1 DEF Routes
<1>4. /\ Fits(new) /\ KeysAt(new) \subseteq KeysIn(d, b[a]) /\ a \notin A /\ A \cap (S \ b[a]) = {}
      /\ Full(g, A) /\ KeysIn(g, A) \subseteq KeysIn(d, b[a]) /\ Held(g, A) = Others(Held(d, b[a]), k)
  BY DEF Dropping
<1>5. PICK H : Family(g, new, H) /\ AllOf(new, H) = A
  BY DEF Dropping
<1>6. OneWrite(y, z, a, new)
  BY <1>1, <1>2, <1>4, WriteNodeIs
<1>7. Sound(z, U, fl) /\ DOMAIN f = DOMAIN g
  BY <1>1, <1>2, <1>6, WriteSound
<1>8. z.ok /\ z.root = d[0].root /\ f[a] = new /\ \A q \in DOMAIN g \ {a} : f[q] = g[q]
  BY <1>1, <1>6 DEF OneWrite
<1> HIDE DEF f, g
<1>9. a \in DOMAIN f /\ \A q \in A : q \in DOMAIN f /\ f[q] = g[q]
  BY <1>2, <1>4, <1>7, <1>8
<1>10. Placed(f, g, a, new, A)
  BY <1>3, <1>4, <1>5, <1>8, <1>9, PlacedIs
<1>11. Tree(f, T, a) /\ Full(f, T) /\ KeysIn(f, T) \subseteq KeysIn(d, b[a]) /\ Held(f, T) = Others(Held(d, b[a]), k)
  BY <1>4, <1>10 DEF Placed
<1>12. (\A p \in S \ b[a] : f[p] = d[p]) /\ T \cap (S \ b[a]) = {}
  BY <1>1, <1>2, <1>3, <1>4, <1>8
<1>13. acc => Accounted(f, U, fl)
  BY <1>1, <1>7 DEF Accounted
<1>14. QED
  BY <1>7, <1>8, <1>11, <1>12, <1>13 DEF Rewrote, f

\* The page has been written: it stays where it is.
LEMMA DropKept ==
  ASSUME NEW d, NEW S, NEW b, NEW k, NEW acc, NEW a, b[d[0].root] = S,
         NEW A, NEW fl, NEW z, Rewrote(d, S, b, k, acc, a, A, fl, z),
         NEW r, r.x = z, r.deleted = TRUE, r.remove = FALSE,
         a # d[0].root => Smallest(z.disk, {a} \cup A, r.newMin), NEW x
  PROVE  AfterDelete(d, S, b, k, acc, x, a, r)
<1> DEFINE f == z.disk
           T == {a} \cup A
           U == T \cup (S \ b[a])
<1>1. /\ Sound(z, U, fl) /\ z.ok /\ z.root = d[0].root
      /\ acc => Accounted(f, U, fl)
      /\ \A p \in S \ b[a] : f[p] = d[p]
      /\ Tree(f, T, a) /\ Full(f, T)
      /\ KeysIn(f, T) \subseteq KeysIn(d, b[a])
      /\ Held(f, T) = Others(Held(d, b[a]), k)
      /\ T \cap (S \ b[a]) = {}
  BY DEF Rewrote
<1> HIDE DEF f, T
<1>2. CASE a = d[0].root
  <2>1. U = T /\ b[a] = S
    BY <1>2
  <2>2. f[0].root = a
    BY <1>1, <1>2 DEF Sound, Fields, f
  <2>3. Rooted(f, T)
    BY <1>1, <2>2 DEF Rooted
  <2>4. Sound(z, T, fl) /\ Held(f, T) = Others(Held(d, S), k) /\ (acc => Accounted(f, T, fl))
    BY <1>1, <2>1
  <2>5. DeleteOf(d, S, k, acc, z)
    BY <1>1, <2>3, <2>4 DEF DeleteOf, f
  <2>6. QED
    BY <1>2, <2>5 DEF AfterDelete
<1>3. CASE a # d[0].root
  <2>1. Remain(d, S, b, k, acc, a, r, T, fl)
    BY <1>1 DEF Remain, f
  <2>2. Linkage(f, T, a, r)
    BY <1>1, <1>3 DEF Linkage, f, T
  <2>3. DeletedAt(d, S, b, k, acc, x, a, r)
    BY <1>1, <2>1, <2>2 DEF DeletedAt, f
  <2>4. QED
    BY <1>3, <2>3 DEF AfterDelete
<1>4. QED
  BY <1>2, <1>3

\* A page without separators has one child.
LEMMA OnlyChild ==
  ASSUME NEW g, NEW new, NEW H, Family(g, new, H), new.entries = <<>>, NEW A, AllOf(new, H) = A
  PROVE  Tree(g, A, new.left) /\ new.left \in A /\ new.left \in Nat \ {0}
<1>1. Len(new.entries) = 0
  OBVIOUS
<1>2. Slots(new) = {0}
  BY <1>1 DEF Slots
<1>3. A = H[0]
  BY <1>2 DEF AllOf
<1>4. Child(new, 0) = new.left
  BY DEF Child
<1>5. Tree(g, A, new.left)
  BY <1>2, <1>3, <1>4 DEF Family
<1>6. QED
  BY <1>5, TreeNodes

\* The page is freed; the parent is to link its only child.
LEMMA DropRemoved ==
  ASSUME NEW d, NEW S, NEW b, NEW k, NEW path, NEW j, NEW a, NEW c, Above(d, S, b, k, path, j, a, c),
         NEW y, NEW A, NEW fl, NEW acc, Ascending(y, d, S, b, a, A, fl, acc),
         NEW P, NEW new, Dropping(d, S, b, k, a, c, y.disk, P, new, A), new.entries = <<>>,
         a # d[0].root, NEW r, r = Removed(FreePage(y, a), new.left), NEW x
  PROVE  AfterDelete(d, S, b, k, acc, x, a, r)
<1> DEFINE U == {a} \cup A \cup (S \ b[a])
           V == A \cup (S \ b[a])
           g == y.disk
           z == FreePage(y, a)
           f == z.disk
<1>1. /\ Sound(y, U, fl) /\ y.ok /\ y.root = d[0].root /\ (acc => Accounted(g, U, fl))
      /\ \A p \in S \ b[a] : g[p] = d[p]
  BY DEF Ascending
<1>2. a \in U /\ a \in b[a]
  <2>1. Routes(d, S, b, k, a, c)
    BY AboveIs
  <2>2. QED
    BY <2>1 DEF Routes
<1>3. /\ a \notin A /\ A \cap (S \ b[a]) = {}
      /\ Full(g, A) /\ KeysIn(g, A) \subseteq KeysIn(d, b[a]) /\ Held(g, A) = Others(Held(d, b[a]), k)
  BY DEF Dropping
<1>4. PICK H : Family(g, new, H) /\ AllOf(new, H) = A
  BY DEF Dropping
<1>5. Tree(g, A, new.left) /\ new.left \in Nat \ {0}
  BY <1>4, OnlyChild
<1>6. Freed(y, z, a, U, fl)
  BY <1>1, <1>2, FreeIs
<1>7. U \ {a} = V
  BY <1>2, <1>3
<1> HIDE DEF z
<1>8. PICK list : Sound(z, V, list) /\ (Accounted(g, U, fl) => Accounted(f, V, list))
  BY <1>6, <1>7 DEF Freed
<1>9. z.ok /\ z.root = d[0].root /\ \A p \in V : f[p] = g[p]
  BY <1>1, <1>6, <1>7 DEF Freed
<1>10. r.x = z /\ r.deleted = TRUE /\ r.remove = TRUE /\ r.replacement = new.left
  BY DEF Removed, NoChange, z
<1>11. V \subseteq DOMAIN f
  BY <1>8 DEF Sound, Space
<1> HIDE DEF f, g
<1>12. Tree(f, A, new.left) /\ Held(f, A) = Held(g, A) /\ KeysIn(f, A) = KeysIn(g, A)
  <2>1. \A p \in A : p \in DOMAIN f /\ f[p] = g[p]
    BY <1>9, <1>11
  <2>2. QED
    BY <1>5, <2>1, TreeSame, HeldSame, KeysInSame
<1>13. Full(f, A)
  BY <1>3, <1>9 DEF Full
<1>14. Remain(d, S, b, k, acc, a, r, A, list)
  <2>1. Sound(z, V, list) /\ (acc => Accounted(f, V, list))
    BY <1>1, <1>8
  <2>2. \A p \in S \ b[a] : f[p] = d[p]
    BY <1>1, <1>9
  <2>3. QED
    BY <1>3, <1>10, <1>12, <1>13, <2>1, <2>2 DEF Remain, f
<1>15. Linkage(f, A, a, r)
  BY <1>5, <1>10, <1>12 DEF Linkage
<1>16. DeletedAt(d, S, b, k, acc, x, a, r)
  BY <1>9, <1>10, <1>14, <1>15 DEF DeletedAt, f
<1>17. QED
  BY <1>16 DEF AfterDelete

\* The root is freed: its only child is the new root.
LEMMA DropRoot ==
  ASSUME NEW d, NEW S, NEW b, NEW k, NEW path, NEW j, NEW a, NEW c, Above(d, S, b, k, path, j, a, c),
         NEW y, NEW A, NEW fl, NEW acc, Ascending(y, d, S, b, a, A, fl, acc),
         NEW P, NEW new, Dropping(d, S, b, k, a, c, y.disk, P, new, A), new.entries = <<>>,
         a = d[0].root, b[a] = S, NEW z, z = WriteHeader([y EXCEPT !.root = new.left])
  PROVE  DeleteOf(d, S, k, acc, FreePage(z, a))
<1> DEFINE U == {a} \cup A
           g == y.disk
           e == z.disk
           w == FreePage(z, a)
           f == w.disk
<1>1. U = {a} \cup A \cup (S \ b[a])
  OBVIOUS
<1>2. Sound(y, U, fl) /\ y.ok /\ (acc => Accounted(g, U, fl))
  BY <1>1 DEF Ascending
<1>3. a \notin A /\ Full(g, A) /\ Held(g, A) = Others(Held(d, S), k)
  BY DEF Dropping
<1>4. PICK H : Family(g, new, H) /\ AllOf(new, H) = A
  BY DEF Dropping
<1>5. Tree(g, A, new.left) /\ new.left \in A /\ new.left \in Nat
  BY <1>4, OnlyChild
<1>6. Rerooted(y, z, new.left, U, fl)
  BY <1>2, <1>5, RerootedIs
<1>7. /\ z.ok /\ z.root = new.left /\ Sound(z, U, fl)
      /\ DOMAIN e = DOMAIN g /\ \A p \in DOMAIN g \ {0} : e[p] = g[p]
  BY <1>2, <1>6 DEF Rerooted
<1>8. a \in U /\ a # z.root
  BY <1>3, <1>5, <1>7
<1>9. Freed(z, w, a, U, fl)
  BY <1>7, <1>8, FreeIs
<1>10. U \ {a} = A
  BY <1>3
<1> HIDE DEF w
<1>11. PICK list : Sound(w, A, list) /\ (Accounted(e, U, fl) => Accounted(f, A, list))
  BY <1>9, <1>10 DEF Freed
<1>12. w.ok /\ w.root = new.left /\ \A p \in A : f[p] = e[p]
  BY <1>7, <1>9, <1>10 DEF Freed
<1>13. A \subseteq DOMAIN f /\ A \subseteq DOMAIN g \ {0} /\ f[0] = Fields(w)
  <2>1. A \subseteq DOMAIN f /\ f[0] = Fields(w)
    BY <1>11 DEF Sound, Space
  <2>2. A \subseteq DOMAIN g /\ A \subseteq Nat \ {0}
    BY <1>5, TreeNodes
  <2>3. QED
    BY <2>1, <2>2
<1> HIDE DEF e, f, g
<1>14. \A p \in A : p \in DOMAIN f /\ f[p] = g[p]
  BY <1>7, <1>12, <1>13
<1>15. Tree(f, A, new.left) /\ Held(f, A) = Held(g, A)
  BY <1>5, <1>14, TreeSame, HeldSame
<1>16. Full(f, A)
  BY <1>3, <1>14 DEF Full
<1>17. f[0].root = new.left
  BY <1>12, <1>13 DEF Fields
<1>18. Rooted(f, A)
  BY <1>15, <1>16, <1>17 DEF Rooted
<1>19. acc => Accounted(f, A, list)
  BY <1>2, <1>7, <1>11 DEF Accounted
<1>20. DeleteOf(d, S, k, acc, w)
  BY <1>3, <1>11, <1>12, <1>15, <1>18, <1>19 DEF DeleteOf, f
<1>21. QED
  BY <1>20 DEF w

\* The key is not below the page if it is not below its child.
LEMMA NotBelow ==
  ASSUME NEW d, NEW S, NEW b, NEW k, NEW path, NEW j, NEW a, NEW c, Above(d, S, b, k, path, j, a, c),
         Held(d, b[c]) = Others(Held(d, b[c]), k)
  PROVE  Held(d, b[a]) = Others(Held(d, b[a]), k)
<1>1. Forest(d, S, b) /\ k \in Int /\ Routes(d, S, b, k, a, c)
  BY AboveIs
<1>2. Around(d, S, b, k, a, c, d)
  BY <1>1, AroundIs
<1>3. Held(d, b[a]) = Held(d, b[c]) \cup Held(d, b[a] \ b[c]) /\ \A e \in Held(d, b[a] \ b[c]) : e.key # k
  BY <1>2 DEF Around
<1>4. QED
  BY <1>3 DEF Others

\* What is left below the child, and the page above it.
LEMMA AscendingIs ==
  ASSUME NEW d, NEW S, NEW b, NEW k, NEW path, NEW j, NEW a, NEW c, Above(d, S, b, k, path, j, a, c),
         NEW acc, NEW r, r.x.ok, r.x.root = d[0].root,
         NEW P, NEW fl, Remain(d, S, b, k, acc, c, r, P, fl), Linkage(r.x.disk, P, c, r),
         NEW new, new = WithoutChild(d[a], Route(d[a], k), r)
  PROVE  /\ Ascending(r.x, d, S, b, a, P \cup Beside(b, a, c), fl, acc)
         /\ Dropping(d, S, b, k, a, c, r.x.disk, P, new, P \cup Beside(b, a, c))
         /\ r.remove /\ r.replacement # 0 => SubtreeMin(r.x.disk, r.replacement) # {}
<1> DEFINE y == r.x
           g == y.disk
           A == P \cup Beside(b, a, c)
<1>1. /\ Sound(y, P \cup (S \ b[c]), fl)
      /\ acc => Accounted(g, P \cup (S \ b[c]), fl)
      /\ P \cap (S \ b[c]) = {} /\ Full(g, P)
      /\ KeysIn(g, P) \subseteq KeysIn(d, b[c])
      /\ Held(g, P) = Others(Held(d, b[c]), k)
      /\ \A p \in S \ b[c] : g[p] = d[p]
  BY DEF Remain
<1>2. IsFiniteSet(DOMAIN g) /\ S \ b[c] \subseteq DOMAIN g
  BY <1>1 DEF Sound, Space
<1>3. Left(d, S, b, k, c, g, P)
  BY <1>1, <1>2 DEF Left
<1>4. Kept(d, b, a, c, g, P, new) /\ (r.remove /\ r.replacement # 0 => SubtreeMin(g, r.replacement) # {})
  BY <1>3, WithoutIs
<1>5. Dropping(d, S, b, k, a, c, g, P, new, A)
  BY <1>3, <1>4, DroppingIs
<1>6. {a} \cup A \cup (S \ b[a]) = P \cup (S \ b[c])
  BY <1>5 DEF Dropping
<1>7. S \ b[a] \subseteq S \ b[c]
  <2>1. Routes(d, S, b, k, a, c)
    BY AboveIs
  <2>2. QED
    BY <2>1 DEF Routes
<1> HIDE DEF A
<1>8. Ascending(y, d, S, b, a, A, fl, acc)
  <2>1. Sound(y, {a} \cup A \cup (S \ b[a]), fl) /\ (acc => Accounted(g, {a} \cup A \cup (S \ b[a]), fl))
    BY <1>1, <1>6
  <2>2. QED
    BY <1>1, <1>7, <2>1 DEF Ascending
<1>9. QED
  BY <1>4, <1>5, <1>8 DEF A

\* btree_delete_recursive at an internal page, back from its child.
LEMMA InnerDeleteIs ==
  ASSUME NEW d, NEW S, Rooted(d, S), NEW b, NEW k, NEW path, NEW j, NEW a, NEW c,
         Above(d, S, b, k, path, j, a, c),
         NEW x, NEW fl, NEW acc, Ready(x, d, S, fl, acc),
         NEW r, DeletedAt(d, S, b, k, acc, x, c, r)
  PROVE  AfterDelete(d, S, b, k, acc, x, a, InternalDelete(a, d[a], k, r))
<1> DEFINE s == Route(d[a], k)
           y == r.x
           g == y.disk
           new == WithoutChild(d[a], s, r)
           written == WriteNode(y, a, new)
           shrunk == WriteHeader([y EXCEPT !.root = new.left])
           t == InternalDelete(a, d[a], k, r)
<1>1. y.ok /\ y.root = d[0].root /\ r.deleted \in BOOLEAN
  BY DEF DeletedAt
<1>2. b[d[0].root] = S
  BY DEF Above, Setting
<1>3. t = IF ~y.ok \/ ~r.deleted THEN r
          ELSE IF r.remove /\ s > 0 /\ r.replacement # 0 /\ SubtreeMin(g, r.replacement) = {} THEN NoChange(Fail(y))
          ELSE IF a = y.root
          THEN Deleted(IF new.entries # <<>> THEN written ELSE FreePage(shrunk, a), {})
          ELSE IF new.entries = <<>> THEN Removed(FreePage(y, a), new.left)
          ELSE IF s > 0 \/ ~written.ok THEN Deleted(written, {})
          ELSE IF SubtreeMin(written.disk, a) = {} THEN NoChange(Fail(written))
          ELSE Deleted(written, SubtreeMin(written.disk, a))
  BY DEF InternalDelete
<1> HIDE DEF t
<1>4. CASE ~r.deleted
  <2>1. y = x /\ Held(d, b[c]) = Others(Held(d, b[c]), k)
    BY <1>4 DEF DeletedAt
  <2>2. Held(d, b[a]) = Others(Held(d, b[a]), k)
    BY <2>1, NotBelow
  <2>3. t = r /\ r.deleted = FALSE
    BY <1>1, <1>3, <1>4
  <2>4. a = d[0].root => b[a] = S
    BY <1>2
  <2> HIDE DEF s, written, shrunk, new
  <2>5. AfterDelete(d, S, b, k, acc, x, a, r)
    BY <2>1, <2>2, <2>3, <2>4, DeletesNothing
  <2>6. QED
    BY <2>3, <2>5 DEF t
<1>5. CASE r.deleted
  <2>1. PICK P, l : Remain(d, S, b, k, acc, c, r, P, l) /\ Linkage(g, P, c, r)
    BY <1>5 DEF DeletedAt
  <2> DEFINE A == P \cup Beside(b, a, c)
  <2>2. /\ Ascending(y, d, S, b, a, A, l, acc)
        /\ Dropping(d, S, b, k, a, c, g, P, new, A)
        /\ r.remove /\ r.replacement # 0 => SubtreeMin(g, r.replacement) # {}
    BY <1>1, <2>1, AscendingIs
  <2>3. t = IF a = d[0].root
            THEN Deleted(IF new.entries # <<>> THEN written ELSE FreePage(shrunk, a), {})
            ELSE IF new.entries = <<>> THEN Removed(FreePage(y, a), new.left)
            ELSE IF s > 0 \/ ~written.ok THEN Deleted(written, {})
            ELSE IF SubtreeMin(written.disk, a) = {} THEN NoChange(Fail(written))
            ELSE Deleted(written, SubtreeMin(written.disk, a))
    BY <1>1, <1>3, <1>5, <2>2
  <2>4. written = WriteNode(y, a, new) /\ shrunk = WriteHeader([y EXCEPT !.root = new.left])
    OBVIOUS
  <2> HIDE DEF s, written, shrunk, new, A
  <2>5. CASE new.entries = <<>> /\ a = d[0].root
    <3>1. t = Deleted(FreePage(shrunk, a), {}) /\ b[a] = S
      BY <1>2, <2>3, <2>5
    <3>2. t.x = FreePage(shrunk, a)
      BY <3>1 DEF Deleted, NoChange
    <3>3. DeleteOf(d, S, k, acc, FreePage(shrunk, a))
      BY <2>2, <2>4, <2>5, <3>1, DropRoot
    <3>4. QED
      BY <2>5, <3>2, <3>3 DEF AfterDelete, t
  <2>6. CASE new.entries = <<>> /\ a # d[0].root
    <3>1. t = Removed(FreePage(y, a), new.left)
      BY <2>3, <2>6
    <3>2. AfterDelete(d, S, b, k, acc, x, a, t)
      BY <2>2, <2>6, <3>1, DropRemoved
    <3>3. QED
      BY <3>2 DEF t
  <2>7. CASE new.entries # <<>>
    <3>1. Rewrote(d, S, b, k, acc, a, A, l, written)
      BY <2>2, <2>4, <2>7, DropWritten
    <3>2. written.ok
      BY <3>1 DEF Rewrote
    <3>3. PICK m \in Keys : LET least == SubtreeMin(written.disk, a)
                            IN least = {m} /\ Only(least) = m /\ Least(written.disk, {a} \cup A, m)
      <4>1. Tree(written.disk, {a} \cup A, a) /\ Full(written.disk, {a} \cup A)
        BY <3>1 DEF Rewrote
      <4>2. IsFiniteSet(DOMAIN written.disk)
        BY <3>1 DEF Rewrote, Sound, Space
      <4>3. QED
        BY <4>1, <4>2, SubtreeMinIs
    <3> DEFINE f == written.disk
               least == SubtreeMin(f, a)
    <3>4. Smallest(f, {a} \cup A, least) /\ Smallest(f, {a} \cup A, {}) /\ least # {}
      BY <3>3 DEF Smallest
    <3>5. \E q : t = Deleted(written, q) /\ (a # d[0].root => Smallest(f, {a} \cup A, q))
      BY <2>3, <2>7, <3>2, <3>4
    <3> HIDE DEF f, least
    <3>6. PICK q : t = Deleted(written, q) /\ (a # d[0].root => Smallest(f, {a} \cup A, q))
      BY <3>5
    <3>7. t.x = written /\ t.deleted = TRUE /\ t.remove = FALSE /\ t.newMin = q
      BY <3>6 DEF Deleted, NoChange
    <3>8. a # d[0].root => Smallest(written.disk, {a} \cup A, t.newMin)
      BY <3>6, <3>7 DEF f
    <3>9. AfterDelete(d, S, b, k, acc, x, a, t)
      BY <1>2, <3>1, <3>7, <3>8, DropKept
    <3>10. QED
      BY <3>9 DEF t
  <2>8. QED
    BY <2>5, <2>6, <2>7
<1>6. QED
  BY <1>1, <1>4, <1>5

\* The results of btree_delete_recursive from the leaf up.
LEMMA DeletionsAre ==
  ASSUME NEW x, NEW k, NEW path, path = Path(x.disk, x.root, k), NEW n \in Nat, n = Len(path) - 1
  PROVE  Turns("delete", x, k, 0, path, n, Deletions(x, k))
<1>1. PICK g : Turns("delete", x, k, 0, path, n, g)
  BY TurnsExist
<1> DEFINE way == Path(x.disk, x.root, k)
           m == Len(way) - 1
           Body(i, r) == IF i = 0 THEN LeafDelete(x, way[Len(way)], k)
                         ELSE LET id == way[Len(way) - i] IN InternalDelete(id, x.disk[id], k, r)
           f == Deletions(x, k)
<1>2. \A i, r : Turn("delete", x, k, 0, path, i, r) = Body(i, r)
  BY DEF Turn
<1>3. g = [i \in 0..m |-> Body(i, g[i - 1])]
  <2> HIDE DEF Body
  <2>1. QED
    BY <1>1, <1>2 DEF Turns
<1>4. f = [i \in 0..m |-> Body(i, f[i - 1])]
  BY <1>3, Zenon DEF Deletions
<1>5. n = m
  OBVIOUS
<1> HIDE DEF f, Body, m
<1>6. DOMAIN f = 0..n /\ f = [i \in 0..n |-> f[i]] /\ \A i \in 0..n : f[i] = Body(i, f[i - 1])
  BY <1>4, <1>5
<1>7. Turns("delete", x, k, 0, path, n, f)
  BY <1>2, <1>6 DEF Turns
<1>8. QED
  BY <1>7 DEF f

\* btree_delete_recursive from the root: the record of the key is gone, the others are there.
LEMMA DeleteIs ==
  ASSUME NEW d, NEW S, Rooted(d, S), NEW k \in Keys,
         NEW x, NEW fl, NEW acc, Ready(x, d, S, fl, acc)
  PROVE  DeleteOf(d, S, k, acc, Delete(x, k).x)
<1> DEFINE path == Path(d, d[0].root, k)
           N == Len(path)
           n == N - 1
           f == Deletions(x, k)
<1>1. IsFiniteSet(DOMAIN d) /\ x.disk = d /\ x.root = d[0].root
  BY DEF Ready, Sound, Space
<1>2. PICK b : Setting(d, S, b, k, path) /\ d[path[Len(path)]] \in LeafPage
  BY <1>1, SettingIs
<1>3. Delete(x, k) = f[n]
  BY <1>1 DEF Delete
<1>4. path = Path(x.disk, x.root, k)
  BY <1>1
<1> HIDE DEF path, f
<1>5. N \in Nat \ {0} /\ path[1] = d[0].root /\ b[path[1]] = S
  BY <1>2 DEF Setting, Way
<1>6. n \in Nat
  BY <1>5
<1>7. Turns("delete", x, k, 0, path, n, f)
  BY <1>4, <1>6, DeletionsAre DEF f
<1>8. \A i \in 0..n : f[i] = Turn("delete", x, k, 0, path, i, f[i - 1])
  BY <1>7 DEF Turns
<1> HIDE DEF n
<1> DEFINE At(i) == AfterDelete(d, S, b, k, acc, x, path[N - i], f[i])
           T == {i \in 0..n : At(i)}
<1>9. 0 \in T
  <2>1. 0 \in 0..n /\ N - 0 = N /\ N \in 1..N
    BY <1>5, <1>6
  <2>2. f[0] = LeafDelete(x, path[N], k)
    BY <1>8, <2>1 DEF Turn
  <2> DEFINE id == path[N]
  <2>3. id = path[N] /\ d[id] \in LeafPage
    BY <1>2
  <2> HIDE DEF id
  <2>4. AfterDelete(d, S, b, k, acc, x, id, LeafDelete(x, id, k))
    BY <1>2, <2>1, <2>3, LeafDeleteIs
  <2>5. At(0)
    BY <2>1, <2>2, <2>4 DEF id
  <2>6. QED
    BY <2>1, <2>5
<1>10. ASSUME NEW i \in 1..n, i - 1 \in T PROVE i \in T
  <2> DEFINE j == N - i
             a == path[j]
             c == path[j + 1]
             r == f[i - 1]
  <2>1. j \in 1..(N - 1) /\ N - (i - 1) = j + 1 /\ i # 0 /\ i \in 0..n
    BY <1>5, <1>6 DEF n
  <2>2. Above(d, S, b, k, path, j, a, c)
    BY <1>2, <2>1 DEF Above
  <2>3. AfterDelete(d, S, b, k, acc, x, c, r)
    BY <1>10, <2>1
  <2>4. f[i] = InternalDelete(a, d[a], k, r)
    BY <1>1, <1>8, <2>1 DEF Turn
  <2> HIDE DEF r, a, c, j, N
  <2>5. c # d[0].root
    <3>1. a \in S /\ a \notin b[c]
      <4>1. Routes(d, S, b, k, a, c)
        BY <2>2, AboveIs
      <4>2. QED
        BY <4>1 DEF Routes
    <3>2. QED
      BY <1>5, <3>1
  <2>6. DeletedAt(d, S, b, k, acc, x, c, r)
    BY <2>3, <2>5 DEF AfterDelete
  <2>7. AfterDelete(d, S, b, k, acc, x, a, InternalDelete(a, d[a], k, r))
    BY <2>2, <2>6, InnerDeleteIs
  <2>8. At(i)
    BY <2>4, <2>7 DEF j, a
  <2>9. QED
    BY <2>1, <2>8
<1>11. 0..n \subseteq T
  <2> HIDE DEF T
  <2>1. QED
    BY <1>6, <1>9, <1>10, IntervalInduction
<1>12. At(n) /\ N - n = 1
  BY <1>5, <1>6, <1>11 DEF n
<1>13. AfterDelete(d, S, b, k, acc, x, d[0].root, Delete(x, k))
  BY <1>3, <1>5, <1>12
<1>14. QED
  BY <1>13 DEF AfterDelete

----------------------------------------------------------------------------
(* The store. *)

\* The records that the program has put.
Entered == {[key |-> k, value |-> store[k]] : k \in DOMAIN store}

Safe == lastOk \/ EvenSizes
NoLoss == crashes = <<>> /\ lastOk

\* The file has a tree, a list of free pages, and in the tree what has been entered.
StoreOf(S, fl) ==
  /\ Space(disk, S, fl) /\ Rooted(disk, S)
  /\ Safe => Held(disk, S) = Entered
  /\ NoLoss => Accounted(disk, S, fl)

BtInv ==
  /\ IsSeq(crashes) /\ lastOk \in BOOLEAN
  /\ Intact => db = disk[0] /\ \E S, fl : StoreOf(S, fl)

\* The file is opened.
LEMMA OpenedIs ==
  ASSUME NEW S, NEW fl, StoreOf(S, fl), db = disk[0], lastOk \in BOOLEAN
  PROVE  Ready(Opened(disk, db), disk, S, fl, NoLoss)
<1> DEFINE x == Opened(disk, db)
<1>1. disk[0] \in Headers
  BY DEF StoreOf, Space
<1>2. IsDb(x) /\ x.disk = disk /\ x.ok /\ x.files = <<>> /\ x.root = db.root
  BY DEF Opened, IsDb, IsSeq
<1>3. Fields(x) = disk[0]
  BY <1>1 DEF Opened, Fields, Headers
<1>4. ToSet(x.files) = {}
  BY <1>2 DEF ToSet
<1> HIDE DEF x
<1>5. Sound(x, S, fl)
  BY <1>2, <1>3 DEF Sound, StoreOf
<1>6. GoodFiles(x)
  BY <1>4 DEF GoodFiles
<1>7. QED
  BY <1>2, <1>5, <1>6 DEF Ready, StoreOf, x

\* Records by key, after a put and after a deletion.
LEMMA EnteredWith ==
  ASSUME NEW k, NEW v, store' = With(store, k, v)
  PROVE  Entered' = Upsert(Entered, k, v)
<1>1. DOMAIN store' = DOMAIN store \cup {k} /\ \A i \in DOMAIN store' : store'[i] = IF i = k THEN v ELSE store[i]
  BY DEF With
<1>2. Entered' = {[key |-> i, value |-> store'[i]] : i \in DOMAIN store'}
  BY DEF Entered
<1>3. QED
  BY <1>1, <1>2 DEF Upsert, Entered

\* Records by key, after a deletion.
LEMMA EnteredWithout ==
  ASSUME NEW k, store' = Without(store, k)
  PROVE  Entered' = Others(Entered, k)
<1>1. DOMAIN store' = DOMAIN store \ {k} /\ \A i \in DOMAIN store' : store'[i] = store[i]
  BY DEF Without
<1>2. Entered' = {[key |-> i, value |-> store'[i]] : i \in DOMAIN store'}
  BY DEF Entered
<1>3. QED
  BY <1>1, <1>2 DEF Others, Entered

\* What the lookups of a good file find is what its tree has.
LEMMA Survivors ==
  ASSUME NEW d, NEW S, NEW fl, Space(d, S, fl), Rooted(d, S)
  PROVE  Held(d, S) = {[key |-> k, value |-> Lookup(d, d[0].root, k)] : k \in Surviving(d)}
<1> DEFINE root == d[0].root
           R == {[key |-> k, value |-> Lookup(d, root, k)] : k \in Surviving(d)}
<1>1. Tree(d, S, root) /\ IsFiniteSet(DOMAIN d)
  BY DEF Rooted, Space
<1>2. Held(d, S) \subseteq LeafRecord
  BY <1>1, TreeNodes, HeldKeys
<1>3. \A k \in Keys : Looked(d, S, root, k)
  BY <1>1, LookupIs
<1>4. ASSUME NEW e \in Held(d, S) PROVE e \in R
  <2>1. e.key \in Keys /\ e.value \in Values /\ e = [key |-> e.key, value |-> e.value]
    BY <1>2, LeafRecords
  <2>2. Lookup(d, root, e.key) = e.value
    BY <1>3, <2>1 DEF Looked
  <2>3. QED
    BY <2>1, <2>2 DEF Surviving
<1>5. ASSUME NEW e \in R PROVE e \in Held(d, S)
  <2>1. PICK k \in Keys : Lookup(d, root, k) \in Values /\ e = [key |-> k, value |-> Lookup(d, root, k)]
    BY DEF Surviving
  <2>2. QED
    BY <1>3, <2>1 DEF Looked
<1>6. QED
  BY <1>4, <1>5

\* btree_put keeps the invariant, whether it succeeds or fails.
LEMMA PutKeeps ==
  ASSUME BtInv, NEW k \in Keys, NEW v, <<k, v>> \in Entries, Put(k, v)
  PROVE  BtInv'
<1> DEFINE x == BtPut(Opened(disk, db), k, v)
<1>1. /\ disk' = x.disk /\ db' = Fields(x) /\ lastOk' = (lastOk /\ x.ok) /\ crashes' = crashes
      /\ store' = IF x.ok THEN With(store, k, v) ELSE store
  BY DEF Put, EndPut
<1>2. Intact' = Intact /\ IsSeq(crashes')
  BY <1>1 DEF Intact, BtInv
<1>3. lastOk' \in BOOLEAN
  BY <1>1 DEF BtInv
<1>4. ASSUME Intact PROVE db' = disk'[0] /\ \E S, fl : StoreOf(S, fl)'
  <2>1. PICK S, fl : StoreOf(S, fl) /\ db = disk[0]
    BY <1>4 DEF BtInv
  <2>2. Ready(Opened(disk, db), disk, S, fl, NoLoss)
    BY <2>1, OpenedIs DEF BtInv
  <2>3. Rooted(disk, S)
    BY <2>1 DEF StoreOf
  <2>4. PutOf(disk, S, k, v, NoLoss, x)
    BY <2>2, <2>3, PutIs
  <2> HIDE DEF x
  <2>5. PICK U, l : /\ Sound(x, U, l) /\ Rooted(x.disk, U)
                    /\ x.ok => /\ Held(x.disk, U) = Upsert(Held(disk, S), k, v)
                               /\ NoLoss => Accounted(x.disk, U, l)
                    /\ ~x.ok /\ EvenSizes => Held(x.disk, U) = Held(disk, S)
    BY <2>4 DEF PutOf
  <2>6. db' = disk'[0] /\ Space(disk', U, l) /\ Rooted(disk', U) /\ x.ok \in BOOLEAN
    BY <1>1, <2>5 DEF Sound, IsDb
  <2>7. Safe' => Held(disk', U) = Entered'
    <3>1. CASE x.ok
      <4>1. Entered' = Upsert(Entered, k, v)
        BY <1>1, <3>1, EnteredWith
      <4>2. Safe' => Safe
        BY <1>1 DEF Safe
      <4>3. QED
        BY <1>1, <2>1, <2>5, <3>1, <4>1, <4>2 DEF StoreOf
    <3>2. CASE ~x.ok
      <4>1. Entered' = Entered
        BY <1>1, <3>2 DEF Entered
      <4>2. Safe' => EvenSizes /\ Safe
        BY <1>1, <3>2 DEF Safe
      <4>3. QED
        BY <1>1, <2>1, <2>5, <3>2, <4>1, <4>2 DEF StoreOf
    <3>3. QED
      BY <3>1, <3>2
  <2>8. NoLoss' => Accounted(disk', U, l)
    BY <1>1, <2>5 DEF NoLoss
  <2>9. StoreOf(U, l)'
    BY <2>6, <2>7, <2>8 DEF StoreOf
  <2>10. QED
    BY <2>6, <2>9
<1>5. QED
  BY <1>2, <1>3, <1>4 DEF BtInv

\* btree_delete keeps the invariant, whether it succeeds or fails.
LEMMA DeleteKeeps ==
  ASSUME BtInv, NEW k \in Keys, DeleteKey(k)
  PROVE  BtInv'
<1> DEFINE x == Delete(Opened(disk, db), k).x
<1>1. /\ disk' = x.disk /\ db' = Fields(x) /\ lastOk' = (lastOk /\ x.ok) /\ crashes' = crashes
      /\ store' = IF x.ok THEN Without(store, k) ELSE store
  BY DEF DeleteKey, EndDelete
<1>2. Intact' = Intact /\ IsSeq(crashes')
  BY <1>1 DEF Intact, BtInv
<1>3. lastOk' \in BOOLEAN
  BY <1>1 DEF BtInv
<1>4. ASSUME Intact PROVE db' = disk'[0] /\ \E S, fl : StoreOf(S, fl)'
  <2>1. PICK S, fl : StoreOf(S, fl) /\ db = disk[0]
    BY <1>4 DEF BtInv
  <2>2. Ready(Opened(disk, db), disk, S, fl, NoLoss)
    BY <2>1, OpenedIs DEF BtInv
  <2>3. Rooted(disk, S)
    BY <2>1 DEF StoreOf
  <2>4. DeleteOf(disk, S, k, NoLoss, x)
    BY <2>2, <2>3, DeleteIs
  <2> HIDE DEF x
  <2>5. x.ok
    BY <2>4 DEF DeleteOf
  <2>6. PICK U, l : /\ Sound(x, U, l) /\ Rooted(x.disk, U)
                    /\ Held(x.disk, U) = Others(Held(disk, S), k)
                    /\ NoLoss => Accounted(x.disk, U, l)
    BY <2>4 DEF DeleteOf
  <2>7. db' = disk'[0] /\ Space(disk', U, l) /\ Rooted(disk', U)
    BY <1>1, <2>6 DEF Sound
  <2>8. Safe' => Held(disk', U) = Entered'
    <3>1. Entered' = Others(Entered, k)
      BY <1>1, <2>5, EnteredWithout
    <3>2. Safe' => Safe
      BY <1>1 DEF Safe
    <3>3. QED
      BY <1>1, <2>1, <2>6, <3>1, <3>2 DEF StoreOf
  <2>9. NoLoss' => Accounted(disk', U, l)
    BY <1>1, <2>6 DEF NoLoss
  <2>10. StoreOf(U, l)'
    BY <2>7, <2>8, <2>9 DEF StoreOf
  <2>11. QED
    BY <2>7, <2>10
<1>5. QED
  BY <1>2, <1>3, <1>4 DEF BtInv

\* A crash in a put leaves a file with a tree.
LEMMA CrashInPutKeeps ==
  ASSUME BtInv, NEW k \in Keys, NEW v, <<k, v>> \in Entries, CrashInPut(k, v)
  PROVE  BtInv'
<1> DEFINE x == BtPut(Opened(disk, db), k, v)
<1>1. PICK n \in 1..(Len(x.files) - 1) : disk' = x.files[n]
  BY DEF CrashInPut, Crash
<1>2. /\ disk' = x.files[n] /\ db' = disk'[0] /\ crashes' = Append(crashes, "put") /\ lastOk' = lastOk
      /\ store' = [q \in Surviving(disk') |-> Lookup(disk', disk'[0].root, q)]
  BY <1>1 DEF CrashInPut, Crash
<1>3. IsSeq(crashes') /\ ToSet(crashes') = ToSet(crashes) \cup {"put"}
  BY <1>2, AppendToAny DEF BtInv
<1>4. Intact' = Intact /\ ~NoLoss'
  <2>1. "put" \in ToSet(crashes')
    BY <1>3
  <2>2. crashes' # <<>>
    BY <2>1 DEF ToSet
  <2>3. Intact' <=> Intact
    BY <1>3 DEF Intact
  <2>4. QED
    BY <2>2, <2>3 DEF NoLoss, Intact
<1>5. lastOk' \in BOOLEAN
  BY <1>2 DEF BtInv
<1>6. ASSUME Intact PROVE \E S, fl : StoreOf(S, fl)'
  <2>1. PICK S, fl : StoreOf(S, fl) /\ db = disk[0]
    BY <1>6 DEF BtInv
  <2>2. Ready(Opened(disk, db), disk, S, fl, NoLoss)
    BY <2>1, OpenedIs DEF BtInv
  <2>3. Rooted(disk, S)
    BY <2>1 DEF StoreOf
  <2>4. PutOf(disk, S, k, v, NoLoss, x)
    BY <2>2, <2>3, PutIs
  <2> HIDE DEF x
  <2>5. IsSeq(x.files) /\ GoodFiles(x)
    BY <2>4 DEF PutOf, IsDb
  <2>6. disk' \in ToSet(x.files)
    <3>1. PICK T : x.files \in Seq(T)
      BY <2>5 DEF IsSeq
    <3>2. DOMAIN x.files = 1..Len(x.files) /\ Len(x.files) \in Nat
      BY <3>1
    <3>3. n \in DOMAIN x.files
      BY <3>2
    <3>4. QED
      BY <1>2, <3>3 DEF ToSet
  <2>7. PICK P, l : Space(disk', P, l) /\ Rooted(disk', P)
    BY <2>5, <2>6 DEF GoodFiles, GoodFile
  <2>8. Held(disk', P) = Entered'
    <3>1. Held(disk', P) = {[key |-> q, value |-> Lookup(disk', disk'[0].root, q)] : q \in Surviving(disk')}
      BY <2>7, Survivors
    <3>2. DOMAIN store' = Surviving(disk') /\ \A q \in Surviving(disk') : store'[q] = Lookup(disk', disk'[0].root, q)
      BY <1>2
    <3>3. Entered' = {[key |-> q, value |-> store'[q]] : q \in DOMAIN store'}
      BY DEF Entered
    <3>4. QED
      BY <3>1, <3>2, <3>3
  <2>9. StoreOf(P, l)'
    BY <1>4, <2>7, <2>8 DEF StoreOf
  <2>10. QED
    BY <2>9
<1>7. QED
  BY <1>2, <1>3, <1>4, <1>5, <1>6 DEF BtInv

\* A crash in a delete: the file is no longer claimed to be intact.
LEMMA CrashInDeleteKeeps ==
  ASSUME BtInv, NEW k, CrashInDelete(k)
  PROVE  BtInv'
<1> DEFINE x == Delete(Opened(disk, db), k).x
<1>1. Crash(x, "delete")
  BY DEF CrashInDelete
<1>2. crashes' = Append(crashes, "delete") /\ lastOk' = lastOk
  BY <1>1 DEF Crash
<1>3. IsSeq(crashes') /\ ToSet(crashes') = ToSet(crashes) \cup {"delete"}
  BY <1>2, AppendToAny DEF BtInv
<1>4. ~Intact'
  BY <1>3 DEF Intact
<1>5. QED
  BY <1>2, <1>3, <1>4 DEF BtInv

\* A new file has the header and one empty leaf.
LEMMA InitInv == BtInit => BtInv
<1> SUFFICES ASSUME BtInit PROVE BtInv
  OBVIOUS
<1> DEFINE leaf == Leaf(<<>>)
<1>1. /\ DOMAIN disk = {0, 1} /\ disk[0] = NewFile /\ disk[1] = leaf /\ db = NewFile
      /\ lastOk = TRUE /\ crashes = <<>> /\ DOMAIN store = {}
  BY DEF BtInit
<1>2. /\ NewFile \in Headers /\ NewFile.root = 1 /\ NewFile.count = 2 /\ NewFile.free = 0
  BY DEF NewFile, Headers
<1>3. <<>> \in Seq(LeafRecord) /\ Len(<<>>) = 0
  OBVIOUS
<1>4. LeafOf(leaf, <<>>, 0)
  BY <1>3, MadeLeaf
<1>5. leaf \in LeafPage /\ leaf.entries = <<>> /\ Records(leaf) = {}
  BY <1>4 DEF LeafOf
<1> HIDE DEF leaf
<1>6. Fits(leaf)
  <2>1. Rooms(leaf, Used(leaf))
    BY <1>5, UsedIs DEF IsPage
  <2>2. Used(leaf)[0] = 0
    BY <2>1 DEF Rooms
  <2>3. Len(leaf.entries) = 0 /\ PageRoom \in Nat
    BY <1>3, <1>5, BTreeAssumption DEF BTreeAssumption
  <2>4. QED
    BY <2>2, <2>3 DEF Fits
<1>7. IsNode(disk, 1)
  <2>1. Sorted(leaf.entries)
    BY <1>3, <1>5 DEF Sorted
  <2>2. QED
    BY <1>1, <1>5, <1>6, <2>1 DEF IsNode
<1>8. Tree(disk, {1}, 1)
  BY <1>1, <1>5, <1>7, TreeOfLeaf
<1>9. Rooted(disk, {1})
  BY <1>1, <1>2, <1>8 DEF Rooted
<1>10. ToSet(<<>>) = {}
  BY DEF ToSet
<1>11. Space(disk, {1}, <<>>)
  <2>1. IsFiniteSet(DOMAIN disk) /\ DOMAIN disk \subseteq Nat
    BY <1>1, FS_EmptySet, FS_AddElement, FS_Singleton
  <2>2. FreeList(disk, disk[0].free, <<>>)
    BY <1>1, <1>2 DEF FreeList
  <2>3. {1} \subseteq (1..(disk[0].count - 1)) \cap DOMAIN disk
    BY <1>1, <1>2
  <2>4. QED
    BY <1>1, <1>2, <1>10, <2>1, <2>2, <2>3 DEF Space
<1>12. Held(disk, {1}) = {} /\ Entered = {}
  BY <1>1, <1>5 DEF Held, Entered
<1>13. Accounted(disk, {1}, <<>>)
  BY <1>1, <1>10 DEF Accounted
<1>14. StoreOf({1}, <<>>)
  BY <1>9, <1>11, <1>12, <1>13 DEF StoreOf
<1>15. IsSeq(crashes)
  BY <1>1 DEF IsSeq
<1>16. QED
  BY <1>1, <1>14, <1>15 DEF BtInv

\* Every operation, and every crash in one, keeps the invariant.
LEMMA NextInv == BtInv /\ [BtNext]_btVars => BtInv'
<1> SUFFICES ASSUME BtInv, [BtNext]_btVars PROVE BtInv'
  OBVIOUS
<1>1. CASE \E e \in Entries : Put(e[1], e[2]) \/ CrashInPut(e[1], e[2])
  <2>1. PICK e \in Entries : Put(e[1], e[2]) \/ CrashInPut(e[1], e[2])
    BY <1>1
  <2>2. e[1] \in Keys /\ <<e[1], e[2]>> \in Entries
    BY BTreeAssumption DEF BTreeAssumption
  <2>3. QED
    BY <2>1, <2>2, PutKeeps, CrashInPutKeeps
<1>2. CASE \E k \in Keys : DeleteKey(k) \/ CrashInDelete(k)
  BY <1>2, DeleteKeeps, CrashInDeleteKeeps
<1>3. CASE UNCHANGED btVars
  <2>1. disk' = disk /\ db' = db /\ store' = store /\ lastOk' = lastOk /\ crashes' = crashes
    BY <1>3 DEF btVars
  <2>2. QED
    BY <2>1 DEF BtInv, StoreOf, Intact, Safe, NoLoss, Entered
<1>4. QED
  BY <1>1, <1>2, <1>3 DEF BtNext

\* The invariant of the store: while no crash has cut a delete short, the file has a
\* tree whose pages fit, are in order and routed to, a list of free pages apart from
\* it, and in the tree the records that were put.
THEOREM StoreInvariant == BtSpec => []BtInv
<1>1. QED
  BY InitInv, NextInv, PTL DEF BtSpec

\* What the invariant says of the pages.
LEMMA PagesFromInv == BtInv => PagesAccounted
<1> SUFFICES ASSUME BtInv, Intact PROVE
      LET live == PagesBelow(disk, db.root)
          free == FreePages(disk, db.free)
      IN /\ \A id \in live : Readable(disk, id)
         /\ \A id \in free : disk[id].type = "free"
         /\ live \cap free = {}
         /\ crashes = <<>> /\ lastOk => live \cup free \cup {0} = DOMAIN disk
  BY DEF PagesAccounted
<1>1. PICK S, fl : StoreOf(S, fl) /\ db = disk[0]
  BY DEF BtInv
<1>2. Space(disk, S, fl) /\ Tree(disk, S, db.root) /\ IsFiniteSet(DOMAIN disk)
  BY <1>1 DEF StoreOf, Rooted, Space
<1>3. PagesBelow(disk, db.root) = S /\ FreePages(disk, db.free) = ToSet(fl)
  BY <1>1, <1>2, PagesBelowIs, FreePagesIs
<1>4. \A id \in S : Readable(disk, id)
  BY <1>2, TreeNodes, InnerIs DEF Nodes
<1>5. \A id \in ToSet(fl) : disk[id].type = "free"
  <2>1. FreeList(disk, db.free, fl)
    BY <1>1, <1>2 DEF Space
  <2>2. QED
    BY <2>1, ListMembers DEF FreeList
<1>6. S \cap ToSet(fl) = {}
  BY <1>2 DEF Space
<1>7. crashes = <<>> /\ lastOk => S \cup ToSet(fl) \cup {0} = DOMAIN disk
  BY <1>1 DEF StoreOf, NoLoss, Accounted
<1>8. QED
  BY <1>3, <1>4, <1>5, <1>6, <1>7

\* btree_alloc_page, btree_free_page, splits and deletions: a page is never in the tree
\* and on the free list, and none is lost while nothing fails.
THEOREM PagesAccountedTheorem == BtSpec => []PagesAccounted
<1>1. QED
  BY StoreInvariant, PagesFromInv, PTL

\* What the invariant says of btree_get, unless a put of another size has failed.
LEMMA LookupsFromInv == BtInv /\ Safe => LookupsAgree
<1> SUFFICES ASSUME BtInv, Safe, Intact, NEW k \in Keys
             PROVE  Lookup(disk, db.root, k) = IF k \in DOMAIN store THEN store[k] ELSE Missing
  BY DEF LookupsAgree
<1>1. PICK S, fl : StoreOf(S, fl) /\ db = disk[0]
  BY DEF BtInv
<1>2. Tree(disk, S, db.root) /\ IsFiniteSet(DOMAIN disk) /\ Held(disk, S) = Entered
  BY <1>1 DEF StoreOf, Rooted, Space
<1>3. Looked(disk, S, db.root, k)
  BY <1>2, LookupIs
<1>4. CASE k \in DOMAIN store
  <2> DEFINE e == [key |-> k, value |-> store[k]]
  <2>1. e \in Held(disk, S) /\ e.key = k /\ e.value = store[k]
    BY <1>2, <1>4 DEF Entered
  <2>2. QED
    BY <1>3, <1>4, <2>1 DEF Looked
<1>5. CASE k \notin DOMAIN store
  <2>1. \A e \in Held(disk, S) : e.key # k
    BY <1>2, <1>5 DEF Entered
  <2>2. QED
    BY <1>3, <1>5, <2>1 DEF Looked
<1>6. QED
  BY <1>4, <1>5

\* btree_get after any operations none of which has failed.
THEOREM LookupsAgreeTheorem == BtSpec => [](lastOk => LookupsAgree)
<1>1. BtInv => (lastOk => LookupsAgree)
  BY LookupsFromInv DEF Safe
<1>2. QED
  BY <1>1, StoreInvariant, PTL

\* When all records take the same room, a put that fails leaves the tree as it was, too.
THEOREM LookupsAgreeAfterFailures ==
  ASSUME EvenSizes
  PROVE  BtSpec => []LookupsAgree
<1>1. BtInv => LookupsAgree
  BY LookupsFromInv DEF Safe
<1>2. QED
  BY <1>1, StoreInvariant, PTL

----------------------------------------------------------------------------
(* Ranges. *)

Within(e, min, max) == min <= e.key /\ e.key <= max

\* The rows are the records of H between two keys, in order, as many of the first ones
\* as the limit allows.
Rows(rows, H, min, max, limit) ==
  /\ rows \in Seq(LeafRecord) /\ (limit >= 0 => Len(rows) <= limit)
  /\ \A i, j \in 1..Len(rows) : i < j => rows[i].key < rows[j].key
  /\ \A i \in 1..Len(rows) : rows[i] \in H /\ Within(rows[i], min, max)
  /\ \A e \in H : Within(e, min, max) =>
       \/ \E i \in 1..Len(rows) : rows[i] = e
       \/ Enough(rows, limit) /\ \A i \in 1..Len(rows) : rows[i].key < e.key

\* What happens to the rows at one record.
Take(rows, e, min, max, limit) ==
  IF Enough(rows, limit) \/ e.key < min \/ e.key > max THEN rows ELSE Append(rows, e)

\* Records with greater keys do not come in once there are enough.
LEMMA RowsEnough ==
  ASSUME NEW min \in Int, NEW max \in Int, NEW limit \in Int, NEW H, NEW rows, Rows(rows, H, min, max, limit),
         NEW H2, \A u \in H, e \in H2 : u.key < e.key,
         Enough(rows, limit) \/ \A e \in H2 : ~Within(e, min, max)
  PROVE  Rows(rows, H \cup H2, min, max, limit)
BY DEF Rows

\* Taking the next record, in the order of the keys.
LEMMA RowsTake ==
  ASSUME NEW min \in Int, NEW max \in Int, NEW limit \in Int, NEW H, NEW rows, Rows(rows, H, min, max, limit),
         NEW e \in LeafRecord, \A u \in H : u.key < e.key,
         NEW new, new = Take(rows, e, min, max, limit)
  PROVE  Rows(new, H \cup {e}, min, max, limit)
<1>1. e.key \in Int
  BY LeafRecords, KeysAreNumbers
<1>2. CASE Enough(rows, limit) \/ e.key < min \/ e.key > max
  <2>1. new = rows
    BY <1>2 DEF Take
  <2>2. Enough(rows, limit) \/ ~Within(e, min, max)
    BY <1>1, <1>2 DEF Within
  <2>3. \A u \in H, f \in {e} : u.key < f.key
    OBVIOUS
  <2>4. Enough(rows, limit) \/ \A f \in {e} : ~Within(f, min, max)
    BY <2>2
  <2>5. QED
    BY <2>1, <2>3, <2>4, RowsEnough
<1>3. CASE ~(Enough(rows, limit) \/ e.key < min \/ e.key > max)
  <2> DEFINE n == Len(rows)
  <2>1. rows \in Seq(LeafRecord) /\ n \in Nat
    BY DEF Rows
  <2>2. new = Append(rows, e)
    BY <1>3 DEF Take
  <2>3. new \in Seq(LeafRecord) /\ Len(new) = n + 1 /\ new[n + 1] = e /\ \A i \in 1..n : new[i] = rows[i]
    BY <2>1, <2>2, AppendToSeq
  <2>4. limit >= 0 => n < limit
    BY <1>3, <2>1 DEF Enough
  <2> DEFINE m == n + 1
  <2>5. m \in Nat /\ \A i \in 1..m : i = m \/ i \in 1..n
    BY <2>1
  <2>6. \A i \in 1..n : i \in 1..m /\ i < m
    BY <2>1
  <2>7. \A i, j \in 1..m : i < j => i \in 1..n
    BY <2>1
  <2>8. limit >= 0 => m <= limit
    BY <2>1, <2>4
  <2>9. /\ \A i, j \in 1..n : i < j => rows[i].key < rows[j].key
        /\ \A i \in 1..n : rows[i] \in H /\ Within(rows[i], min, max)
        /\ \A u \in H : Within(u, min, max) => \E i \in 1..n : rows[i] = u
    BY <1>3 DEF Rows
  <2>10. Len(new) = m /\ new[m] = e /\ m \in 1..m
    BY <2>1, <2>3
  <2> HIDE DEF m, n
  <2>11. Within(e, min, max)
    BY <1>1, <1>3 DEF Within
  <2>12. \A i, j \in 1..m : i < j => new[i].key < new[j].key
    BY <2>3, <2>5, <2>7, <2>9, <2>10
  <2>13. \A i \in 1..m : new[i] \in H \cup {e} /\ Within(new[i], min, max)
    BY <2>3, <2>5, <2>9, <2>10, <2>11
  <2>14. \A u \in H \cup {e} : Within(u, min, max) => \E i \in 1..m : new[i] = u
    BY <2>3, <2>6, <2>9, <2>10
  <2>15. QED
    BY <2>3, <2>8, <2>10, <2>12, <2>13, <2>14 DEF Rows
<1>4. QED
  BY <1>2, <1>3

\* The rows after each record of a leaf.
Takes(f, entries, min, max, limit, rows) ==
  /\ f[0] = rows
  /\ \A i \in 1..Len(entries) : f[i] = Take(f[i - 1], entries[i], min, max, limit)
  /\ \A i \in 0..Len(entries) : f[i] \in Seq(LeafRecord)

\* The loop of btree_collect_range over a leaf.
LEMMA TakenIs ==
  ASSUME NEW e \in Seq(LeafRecord), NEW rows \in Seq(LeafRecord), NEW min, NEW max, NEW limit
  PROVE  Takes(Taken(e, min, max, limit, rows), e, min, max, limit, rows)
<1> DEFINE T == Seq(LeafRecord)
           n == Len(e)
           Step(r, i) == Take(r, e[i], min, max, limit)
           step == [u \in T \X (1..n) |-> Step(u[1], u[2])]
<1>1. n \in Nat /\ \A i \in 1..n : e[i] \in LeafRecord
  OBVIOUS
<1>2. ASSUME NEW r \in T, NEW i \in 1..n PROVE Step(r, i) \in T
  <2>1. Append(r, e[i]) \in T
    BY <1>1, <1>2, AppendToSeq
  <2>2. QED
    BY <1>2, <2>1 DEF Take
<1> HIDE DEF Step, T, n
<1>3. IsStep(step, T, n)
  BY <1>2 DEF IsStep
<1>4. \A r \in T, i \in 1..n : step[<<r, i>>] = Step(r, i)
  OBVIOUS
<1> HIDE DEF step
<1>5. PICK g \in [0..n -> T] : g[0] = rows /\ \A i \in 1..n : g[i] = step[<<g[i - 1], i>>]
  <2>1. PICK g : IsLoop(g, step, rows, T, n)
    BY <1>1, <1>3, LoopExists DEF T
  <2>2. QED
    BY <2>1 DEF IsLoop
<1>6. \A i \in 1..n : i - 1 \in 0..n /\ g[i - 1] \in T
  BY <1>1, <1>5
<1>7. g = [i \in 0..n |-> IF i = 0 THEN rows ELSE Step(g[i - 1], i)]
  <2>1. \A i \in 1..n : g[i] = Step(g[i - 1], i)
    BY <1>4, <1>5, <1>6
  <2>2. \A i \in 0..n : i = 0 \/ i \in 1..n
    BY <1>1
  <2>3. \A i \in 0..n : g[i] = IF i = 0 THEN rows ELSE Step(g[i - 1], i)
    BY <1>5, <2>1, <2>2
  <2>4. QED
    BY <1>5, <2>3
<1> DEFINE f == Taken(e, min, max, limit, rows)
<1>8. f = [i \in 0..n |-> IF i = 0 THEN rows ELSE Step(f[i - 1], i)]
  BY <1>7, Zenon DEF Taken, Step, Take, n
<1> HIDE DEF f
<1>9. f[0] = rows /\ \A i \in 1..n : f[i] = Step(f[i - 1], i)
  BY <1>1, <1>8
<1>10. \A i \in 0..n : f[i] \in T
  <2> DEFINE I == {i \in 0..n : f[i] \in T}
  <2>1. 0 \in I
    BY <1>1, <1>9 DEF T
  <2>3. ASSUME NEW i \in 1..n, i - 1 \in I PROVE i \in I
    <3>1. i \in 0..n /\ f[i] = Step(f[i - 1], i) /\ f[i - 1] \in T
      BY <1>9, <2>3
    <3>2. Step(f[i - 1], i) \in T
      BY <1>2, <3>1
    <3>3. QED
      BY <3>1, <3>2
  <2> HIDE DEF I
  <2>2. 0..n \subseteq I
    BY <1>1, <2>1, <2>3, IntervalInduction
  <2>4. QED
    BY <2>2 DEF I
<1>11. QED
  BY <1>9, <1>10 DEF Takes, Step, T, n, f

\* A leaf with greater keys than before.
LEMMA RowsTaken ==
  ASSUME NEW min \in Int, NEW max \in Int, NEW limit \in Int, NEW H, NEW rows, Rows(rows, H, min, max, limit),
         NEW page \in LeafPage, Sorted(page.entries), \A u \in H, q \in KeysAt(page) : u.key < q,
         NEW new, new = Taken(page.entries, min, max, limit, rows)[Len(page.entries)]
  PROVE  Rows(new, H \cup Records(page), min, max, limit)
<1> DEFINE e == page.entries
           n == Len(e)
           f == Taken(e, min, max, limit, rows)
           Before(i) == H \cup {e[j] : j \in 1..i}
           T == {i \in 0..n : Rows(f[i], Before(i), min, max, limit)}
<1>1. e \in Seq(LeafRecord) /\ LeafOf(page, e, n)
  BY LeafIs
<1>2. Takes(f, e, min, max, limit, rows)
  BY <1>1, TakenIs DEF Rows
<1>3. /\ n \in Nat /\ \A i \in 1..n : e[i] \in LeafRecord /\ e[i].key \in KeysAt(page)
      /\ Records(page) = {e[i] : i \in 1..n}
  BY <1>1 DEF LeafOf
<1>4. \A i, j \in 1..n : i < j => e[i].key < e[j].key
  BY DEF Sorted
<1>5. f[0] = rows /\ \A i \in 1..n : f[i] = Take(f[i - 1], e[i], min, max, limit)
  BY <1>2 DEF Takes
<1> HIDE DEF f, e, n
<1>6. 0 \in T
  <2>1. Before(0) = H /\ 0 \in 0..n
    BY <1>3
  <2>2. QED
    BY <1>5, <2>1
<1>7. ASSUME NEW i \in 1..n, i - 1 \in T PROVE i \in T
  <2>1. Rows(f[i - 1], Before(i - 1), min, max, limit) /\ i \in 0..n
    BY <1>7
  <2>2. Before(i) = Before(i - 1) \cup {e[i]}
    <3>1. \A j \in 1..i : j = i \/ j \in 1..(i - 1)
      OBVIOUS
    <3>2. \A j \in 1..(i - 1) : j \in 1..i
      OBVIOUS
    <3>3. i \in 1..i
      OBVIOUS
    <3>4. QED
      BY <3>1, <3>2, <3>3
  <2>3. \A u \in Before(i - 1) : u.key < e[i].key
    <3>1. \A j \in 1..(i - 1) : j \in 1..n /\ j < i
      BY <1>3
    <3>2. QED
      BY <1>3, <1>4, <3>1 DEF e
  <2> HIDE DEF Before
  <2>4. Rows(f[i], Before(i - 1) \cup {e[i]}, min, max, limit)
    BY <1>3, <1>5, <2>1, <2>3, RowsTake
  <2>5. QED
    BY <2>1, <2>2, <2>4
<1>8. 0..n \subseteq T
  <2> HIDE DEF T
  <2>1. QED
    BY <1>3, <1>6, <1>7, IntervalInduction
<1>9. Rows(f[n], Before(n), min, max, limit)
  <2>1. n \in 0..n
    BY <1>3
  <2>2. n \in T
    BY <1>8, <2>1
  <2> HIDE DEF Before
  <2>3. QED
    BY <2>2
<1>10. new = f[n] /\ Before(n) = H \cup Records(page)
  BY <1>3 DEF f, e, n
<1>11. QED
  BY <1>9, <1>10

\* The trees at two pages have no page in common, and all keys of one are smaller.
Apart(d, b, p, q) ==
  /\ b[p] \cap b[q] = {}
  /\ \A x \in KeysIn(d, b[p]), y \in KeysIn(d, b[q]) : x < y

\* All pages below the pages of a sequence.
PagesOf(b, calls) == UNION {b[calls[i]] : i \in 1..Len(calls)}

\* btree_collect_range is through with the pages D; it is to be called for the others.
Pending(d, S, b, D, calls) ==
  /\ calls \in Seq(S)
  /\ D \cup PagesOf(b, calls) = S /\ D \cap PagesOf(b, calls) = {}
  /\ \A i, j \in 1..Len(calls) : i < j => Apart(d, b, calls[i], calls[j])
  /\ \A i \in 1..Len(calls) : \A e \in Held(d, D), q \in KeysIn(d, b[calls[i]]) : e.key < q

\* The next page and the calls after it.
NextCall(d, S, b, D, p, t) ==
  /\ p \in S /\ t \in Seq(S) /\ Len(t) \in Nat
  /\ D \cup b[p] \cup PagesOf(b, t) = S /\ D \cap b[p] = {} /\ D \cap PagesOf(b, t) = {}
  /\ b[p] \cap PagesOf(b, t) = {}
  /\ \A i \in 1..Len(t) : Apart(d, b, p, t[i])
  /\ \A i, j \in 1..Len(t) : i < j => Apart(d, b, t[i], t[j])
  /\ \A e \in Held(d, D), q \in KeysIn(d, b[p]) : e.key < q
  /\ \A i \in 1..Len(t) : \A e \in Held(d, D), q \in KeysIn(d, b[t[i]]) : e.key < q

\* The first of the pages yet to be called for has the smaller keys.
LEMMA NextCallIs ==
  ASSUME NEW d, NEW S, NEW b, NEW D, NEW calls, Pending(d, S, b, D, calls), calls # <<>>
  PROVE  NextCall(d, S, b, D, Head(calls), Tail(calls))
<1> DEFINE p == Head(calls)
           t == Tail(calls)
           n == Len(t)
           m == n + 1
<1>1. calls \in Seq(S)
  BY DEF Pending
<1>2. p = calls[1] /\ p \in S /\ t \in Seq(S) /\ n \in Nat /\ Len(calls) = m /\ \A i \in 1..n : t[i] = calls[i + 1]
  BY <1>1, HeadTailProperties, LenProperties, EmptySeq
<1>3. 1 \in 1..m /\ \A i \in 1..n : i + 1 \in 1..m /\ 1 < i + 1
  BY <1>2
<1>4. \A i \in 1..m : i = 1 \/ \E j \in 1..n : i = j + 1
  <2> SUFFICES ASSUME NEW i \in 1..m, i # 1 PROVE \E j \in 1..n : i = j + 1
    OBVIOUS
  <2>1. i - 1 \in 1..n /\ i = (i - 1) + 1
    BY <1>2
  <2>2. QED
    BY <2>1
<1>5. \A i, j \in 1..n : i < j => i + 1 < j + 1
  BY <1>2
<1> HIDE DEF p, t, n, m
<1>6. PagesOf(b, calls) = b[p] \cup PagesOf(b, t)
  <2>1. ASSUME NEW x \in PagesOf(b, calls) PROVE x \in b[p] \cup PagesOf(b, t)
    <3>1. PICK i \in 1..m : x \in b[calls[i]]
      BY <1>2 DEF PagesOf
    <3>2. QED
      BY <1>2, <1>4, <3>1 DEF PagesOf, n
  <2>2. b[p] \subseteq PagesOf(b, calls)
    BY <1>2, <1>3 DEF PagesOf
  <2>3. ASSUME NEW x \in PagesOf(b, t) PROVE x \in PagesOf(b, calls)
    <3>1. PICK i \in 1..n : x \in b[t[i]]
      BY DEF PagesOf, n
    <3>2. QED
      BY <1>2, <1>3, <3>1 DEF PagesOf
  <2>4. QED
    BY <2>1, <2>2, <2>3
<1>7. /\ \A i, j \in 1..m : i < j => Apart(d, b, calls[i], calls[j])
      /\ \A i \in 1..m : \A e \in Held(d, D), q \in KeysIn(d, b[calls[i]]) : e.key < q
  BY <1>2 DEF Pending
<1>8. \A i \in 1..n : Apart(d, b, p, t[i])
  BY <1>2, <1>3, <1>7
<1>9. \A i, j \in 1..n : i < j => Apart(d, b, t[i], t[j])
  BY <1>2, <1>3, <1>5, <1>7
<1>10. /\ \A e \in Held(d, D), q \in KeysIn(d, b[p]) : e.key < q
       /\ \A i \in 1..n : \A e \in Held(d, D), q \in KeysIn(d, b[t[i]]) : e.key < q
  BY <1>2, <1>3, <1>7
<1>11. b[p] \cap PagesOf(b, t) = {}
  BY <1>8 DEF Apart, PagesOf, n
<1>12. D \cup b[p] \cup PagesOf(b, t) = S /\ D \cap b[p] = {} /\ D \cap PagesOf(b, t) = {}
  BY <1>6 DEF Pending
<1>13. QED
  BY <1>2, <1>8, <1>9, <1>10, <1>11, <1>12 DEF NextCall, p, t, n

\* The tree at the next page is done.
LEMMA PendingAfter ==
  ASSUME NEW d, NEW S, NEW b, Forest(d, S, b), NEW D, NEW p, NEW t, NextCall(d, S, b, D, p, t)
  PROVE  Pending(d, S, b, D \cup b[p], t)
<1>1. b[p] \subseteq S /\ Nodes(d, b[p])
  BY DEF Forest, Ordered, Nodes, NextCall
<1>2. \A e \in Held(d, b[p]) : e.key \in KeysIn(d, b[p])
  BY <1>1, HeldKeys
<1>3. \A i \in 1..Len(t) : \A e \in Held(d, D \cup b[p]), q \in KeysIn(d, b[t[i]]) : e.key < q
  <2>1. Held(d, D \cup b[p]) = Held(d, D) \cup Held(d, b[p])
    BY HeldInUnion
  <2>2. QED
    BY <1>2, <2>1 DEF NextCall, Apart
<1>4. QED
  BY <1>3 DEF Pending, NextCall

\* Two sequences, one after the other.
Joined(S, s, t, u) ==
  /\ u \in Seq(S) /\ Len(s) \in Nat /\ Len(t) \in Nat
  /\ \A i \in 1..Len(u) : \/ i \in 1..Len(s) /\ u[i] = s[i]
                          \/ \E j \in 1..Len(t) : i = Len(s) + j /\ u[i] = t[j]
  /\ \A i \in 1..Len(s) : i \in 1..Len(u) /\ u[i] = s[i]
  /\ \A j \in 1..Len(t) : Len(s) + j \in 1..Len(u) /\ u[Len(s) + j] = t[j]

\* What two sequences make one after the other.
LEMMA JoinedIs ==
  ASSUME NEW S, NEW s \in Seq(S), NEW t \in Seq(S)
  PROVE  Joined(S, s, t, s \o t)
<1> DEFINE u == s \o t
           m == Len(s)
           n == Len(t)
<1>1. m \in Nat /\ n \in Nat /\ u \in Seq(S) /\ Len(u) = m + n
  BY ConcatProperties, LenProperties
<1>2. \A i \in 1..(m + n) : u[i] = IF i <= m THEN s[i] ELSE t[i - m]
  BY ConcatProperties
<1> HIDE DEF u, m, n
<1>3. ASSUME NEW i \in 1..(m + n)
      PROVE  (i \in 1..m /\ u[i] = s[i]) \/ \E j \in 1..n : i = m + j /\ u[i] = t[j]
  <2>1. CASE i <= m
    BY <1>1, <1>2, <2>1
  <2>2. CASE ~(i <= m)
    <3>1. i - m \in 1..n /\ i = m + (i - m) /\ u[i] = t[i - m]
      BY <1>1, <1>2, <2>2
    <3>2. QED
      BY <3>1
  <2>3. QED
    BY <2>1, <2>2
<1>4. \A i \in 1..m : i \in 1..(m + n) /\ u[i] = s[i]
  BY <1>1, <1>2
<1>5. ASSUME NEW j \in 1..n PROVE m + j \in 1..(m + n) /\ u[m + j] = t[j]
  <2>1. m + j \in 1..(m + n) /\ ~(m + j <= m) /\ (m + j) - m = j
    BY <1>1
  <2>2. QED
    BY <1>2, <2>1
<1>6. QED
  BY <1>1, <1>3, <1>4, <1>5 DEF Joined, u, m, n

\* The children of an internal page, in order.
Brood(d, S, b, p, ch) ==
  /\ ch \in Seq(S) /\ Len(ch) \in Nat
  /\ \A i \in 1..Len(ch) : b[ch[i]] \subseteq b[p] /\ p \notin b[ch[i]]
  /\ \A i, j \in 1..Len(ch) : i < j => Apart(d, b, ch[i], ch[j])
  /\ b[p] = {p} \cup PagesOf(b, ch)

\* btree_collect_range calls itself for the children in the order of their keys.
LEMMA BroodIs ==
  ASSUME NEW d, NEW S, NEW b, Forest(d, S, b), NEW p \in S, d[p] \in InnerPage
  PROVE  Brood(d, S, b, p, Children(d[p]))
<1> DEFINE page == d[p]
           n == Len(page.entries)
           m == n + 1
           ch == Children(page)
           G == [s \in Slots(d[p]) |-> b[Child(d[p], s)]]
<1>1. \A s \in Slots(d[p]) : G[s] = b[Child(d[p], s)]
  OBVIOUS
<1> HIDE DEF G
<1>2. /\ Family(d, page, G) /\ p \notin AllOf(page, G) /\ b[p] = {p} \cup AllOf(page, G)
      /\ \A s \in Slots(page) : Child(page, s) \in S
  BY <1>1, FamilyBelow
<1>3. SlotBySlot(d, page, G, n)
  BY <1>2, FamilySlots
<1>4. n \in Nat /\ Slots(page) = 0..n
  BY <1>3 DEF SlotBySlot
<1>5. ch = [i \in 1..m |-> Child(page, i - 1)]
  BY PageKinds DEF Children
<1> HIDE DEF ch
<1>6. ch \in Seq(S) /\ Len(ch) = m /\ \A i \in 1..m : i - 1 \in 0..n /\ ch[i] = Child(page, i - 1)
  <2>1. \A i \in 1..m : i - 1 \in 0..n
    BY <1>4
  <2>2. \A i \in 1..m : Child(page, i - 1) \in S
    BY <1>2, <1>4, <2>1
  <2>3. ch \in [1..m -> S] /\ m \in Nat
    BY <1>4, <1>5, <2>2
  <2>4. QED
    BY <1>5, <2>1, <2>3
<1>7. \A s \in 0..n : G[s] = b[Child(page, s)]
  BY <1>1, <1>4
<1>8. AllOf(page, G) = PagesOf(b, ch)
  <2>1. ASSUME NEW x \in AllOf(page, G) PROVE x \in PagesOf(b, ch)
    <3>1. PICK s \in 0..n : x \in G[s]
      BY <1>4 DEF AllOf
    <3>2. s + 1 \in 1..m /\ (s + 1) - 1 = s
      BY <1>4
    <3>3. ch[s + 1] = Child(page, s)
      BY <1>6, <3>2
    <3> HIDE DEF m
    <3>4. s + 1 \in 1..Len(ch) /\ x \in b[ch[s + 1]]
      BY <1>6, <1>7, <3>1, <3>2, <3>3
    <3>5. QED
      BY <3>4 DEF PagesOf
  <2>2. ASSUME NEW x \in PagesOf(b, ch) PROVE x \in AllOf(page, G)
    <3>1. PICK i \in 1..Len(ch) : x \in b[ch[i]]
      BY DEF PagesOf
    <3>2. i \in 1..m
      BY <1>6, <3>1
    <3>3. i - 1 \in 0..n /\ ch[i] = Child(page, i - 1)
      BY <1>6, <3>2
    <3>4. x \in G[i - 1]
      BY <1>7, <3>1, <3>3
    <3>5. QED
      BY <1>4, <3>3, <3>4 DEF AllOf
  <2>3. QED
    BY <2>1, <2>2
<1>9. ASSUME NEW i \in 1..m PROVE b[ch[i]] \subseteq b[p] /\ p \notin b[ch[i]]
  <2>1. b[ch[i]] \subseteq PagesOf(b, ch)
    BY <1>6 DEF PagesOf
  <2>2. QED
    BY <1>2, <1>8, <2>1
<1>10. ASSUME NEW i \in 1..m, NEW j \in 1..m, i < j PROVE Apart(d, b, ch[i], ch[j])
  <2> DEFINE s == i - 1
             t == j - 1
  <2>1. s \in 0..n /\ t \in 0..n /\ s < t /\ s # t /\ s # n /\ t # 0 /\ s + 1 \in 1..n /\ t \in 1..n /\ s + 1 <= t
    BY <1>4, <1>10
  <2>2. ch[i] = Child(page, s) /\ ch[j] = Child(page, t)
    BY <1>6
  <2> HIDE DEF s, t
  <2>3. b[ch[i]] = G[s] /\ b[ch[j]] = G[t]
    BY <1>7, <2>1, <2>2
  <2>4. G[s] \cap G[t] = {}
    BY <1>3, <2>1 DEF SlotBySlot
  <2>5. ASSUME NEW x \in KeysIn(d, G[s]), NEW y \in KeysIn(d, G[t]) PROVE x < y
    <3> DEFINE u == s + 1
               k1 == page.entries[u].key
               k2 == page.entries[t].key
    <3>1. x \in Int /\ x < k1
      BY <1>3, <2>1, <2>5 DEF SlotBySlot
    <3>2. y \in Int /\ k2 <= y
      BY <1>3, <2>1, <2>5 DEF SlotBySlot
    <3>3. u \in 1..n /\ u <= t
      BY <2>1
    <3> HIDE DEF u
    <3>4. k1 \in Int /\ k2 \in Int /\ k1 <= k2
      <4>1. k1 \in Int /\ k2 \in Int
        BY <1>3, <2>1, <3>3 DEF SlotBySlot
      <4>2. CASE u = t
        BY <4>1, <4>2
      <4>3. CASE u < t
        <5>1. k1 < k2
          BY <1>3, <2>1, <3>3, <4>3 DEF SlotBySlot
        <5> HIDE DEF k1, k2
        <5>2. QED
          BY <4>1, <5>1
      <4>4. u \in Int /\ t \in Int
        BY <2>1, <3>3
      <4>5. QED
        BY <3>3, <4>2, <4>3, <4>4
    <3> HIDE DEF k1, k2
    <3>5. QED
      BY <3>1, <3>2, <3>4
  <2>6. QED
    BY <2>3, <2>4, <2>5 DEF Apart
<1>11. /\ ch \in Seq(S) /\ Len(ch) \in Nat
       /\ \A i \in 1..Len(ch) : b[ch[i]] \subseteq b[p] /\ p \notin b[ch[i]]
       /\ \A i, j \in 1..Len(ch) : i < j => Apart(d, b, ch[i], ch[j])
       /\ b[p] = {p} \cup PagesOf(b, ch)
  <2>1. m \in Nat /\ Len(ch) = m
    BY <1>4, <1>6
  <2> HIDE DEF m
  <2>2. QED
    BY <1>2, <1>6, <1>8, <1>9, <1>10, <2>1
<1>12. QED
  BY <1>11 DEF Brood, ch, page

\* The calls for the children go in front.
LEMMA PendingBelow ==
  ASSUME NEW d, NEW S, NEW b, Forest(d, S, b), NEW D, NEW p, NEW t, NextCall(d, S, b, D, p, t),
         d[p] \in InnerPage
  PROVE  Pending(d, S, b, D \cup {p}, Children(d[p]) \o t) /\ Held(d, D \cup {p}) = Held(d, D)
<1> DEFINE ch == Children(d[p])
           u == ch \o t
           m == Len(ch)
           n == Len(t)
           E == D \cup {p}
<1>1. Brood(d, S, b, p, ch)
  BY BroodIs DEF NextCall
<1>2. Joined(S, ch, t, u)
  BY <1>1, JoinedIs DEF Brood, NextCall
<1> HIDE DEF ch, u
<1>3. Held(d, E) = Held(d, D)
  <2>1. Held(d, E) = Held(d, D) \cup Held(d, {p})
    BY HeldInUnion
  <2>2. Records(d[p]) = {}
    BY RecordsOfPage
  <2>3. Held(d, {p}) = {}
    BY <2>2 DEF Held
  <2>4. QED
    BY <2>1, <2>3
<1>4. /\ p \in S /\ D \cup b[p] \cup PagesOf(b, t) = S /\ D \cap b[p] = {} /\ D \cap PagesOf(b, t) = {}
      /\ b[p] \cap PagesOf(b, t) = {}
      /\ \A i \in 1..n : Apart(d, b, p, t[i])
      /\ \A i, j \in 1..n : i < j => Apart(d, b, t[i], t[j])
      /\ \A e \in Held(d, D), q \in KeysIn(d, b[p]) : e.key < q
      /\ \A i \in 1..n : \A e \in Held(d, D), q \in KeysIn(d, b[t[i]]) : e.key < q
  BY DEF NextCall
<1>5. /\ \A i \in 1..m : b[ch[i]] \subseteq b[p] /\ p \notin b[ch[i]]
      /\ \A i, j \in 1..m : i < j => Apart(d, b, ch[i], ch[j])
      /\ b[p] = {p} \cup PagesOf(b, ch)
  BY <1>1 DEF Brood
<1>6. /\ u \in Seq(S) /\ m \in Nat /\ n \in Nat
      /\ \A i \in 1..Len(u) : \/ i \in 1..m /\ u[i] = ch[i]
                              \/ \E j \in 1..n : i = m + j /\ u[i] = t[j]
      /\ \A i \in 1..m : i \in 1..Len(u) /\ u[i] = ch[i]
      /\ \A j \in 1..n : m + j \in 1..Len(u) /\ u[m + j] = t[j]
  BY <1>2 DEF Joined
<1> HIDE DEF m, n
<1>7. PagesOf(b, u) = PagesOf(b, ch) \cup PagesOf(b, t)
  <2>1. ASSUME NEW x \in PagesOf(b, u) PROVE x \in PagesOf(b, ch) \cup PagesOf(b, t)
    <3>1. PICK i \in 1..Len(u) : x \in b[u[i]]
      BY DEF PagesOf
    <3>2. CASE i \in 1..m /\ u[i] = ch[i]
      BY <3>1, <3>2 DEF PagesOf, m
    <3>3. CASE \E j \in 1..n : i = m + j /\ u[i] = t[j]
      BY <3>1, <3>3 DEF PagesOf, n
    <3>4. QED
      BY <1>6, <3>2, <3>3
  <2>2. ASSUME NEW x \in PagesOf(b, ch) PROVE x \in PagesOf(b, u)
    <3>1. PICK i \in 1..m : x \in b[ch[i]]
      BY DEF PagesOf, m
    <3>2. i \in 1..Len(u) /\ u[i] = ch[i]
      BY <1>6, <3>1
    <3>3. QED
      BY <3>1, <3>2 DEF PagesOf
  <2>3. ASSUME NEW x \in PagesOf(b, t) PROVE x \in PagesOf(b, u)
    <3>1. PICK j \in 1..n : x \in b[t[j]]
      BY DEF PagesOf, n
    <3>2. m + j \in 1..Len(u) /\ u[m + j] = t[j]
      BY <1>6, <3>1
    <3>3. QED
      BY <3>1, <3>2 DEF PagesOf
  <2>4. QED
    BY <2>1, <2>2, <2>3
<1>8. p \notin PagesOf(b, ch)
  BY <1>5 DEF PagesOf, m
<1>9. p \in b[p]
  BY <1>5
<1>10. E \cup PagesOf(b, u) = S /\ E \cap PagesOf(b, u) = {}
  <2>1. E \cup PagesOf(b, u) = D \cup b[p] \cup PagesOf(b, t)
    BY <1>5, <1>7
  <2>2. D \cap PagesOf(b, ch) = {}
    BY <1>4, <1>5
  <2>3. p \notin PagesOf(b, t)
    BY <1>4, <1>9
  <2>4. QED
    BY <1>4, <1>7, <1>8, <2>1, <2>2, <2>3
<1>11. ASSUME NEW i \in 1..m, NEW j \in 1..n PROVE Apart(d, b, ch[i], t[j])
  <2>1. b[ch[i]] \subseteq b[p] /\ Apart(d, b, p, t[j])
    BY <1>4, <1>5
  <2>2. KeysIn(d, b[ch[i]]) \subseteq KeysIn(d, b[p])
    BY <2>1, KeysInSubset
  <2>3. QED
    BY <2>1, <2>2 DEF Apart
<1>12. ASSUME NEW i \in 1..Len(u), NEW j \in 1..Len(u), i < j PROVE Apart(d, b, u[i], u[j])
  <2>1. CASE i \in 1..m /\ u[i] = ch[i] /\ j \in 1..m /\ u[j] = ch[j]
    BY <1>5, <1>12, <2>1
  <2>2. CASE i \in 1..m /\ u[i] = ch[i] /\ \E l \in 1..n : j = m + l /\ u[j] = t[l]
    BY <1>11, <2>2
  <2>3. CASE (\E l \in 1..n : i = m + l /\ u[i] = t[l]) /\ j \in 1..m
    BY <1>6, <1>12, <2>3
  <2>4. CASE (\E l \in 1..n : i = m + l /\ u[i] = t[l]) /\ \E l \in 1..n : j = m + l /\ u[j] = t[l]
    <3>1. PICK k \in 1..n : i = m + k /\ u[i] = t[k]
      BY <2>4
    <3>2. PICK l \in 1..n : j = m + l /\ u[j] = t[l]
      BY <2>4
    <3>3. k < l
      BY <1>6, <1>12, <3>1, <3>2
    <3>4. QED
      BY <1>4, <3>1, <3>2, <3>3
  <2>5. QED
    BY <1>6, <2>1, <2>2, <2>3, <2>4
<1>13. ASSUME NEW i \in 1..Len(u), NEW e \in Held(d, E), NEW q \in KeysIn(d, b[u[i]]) PROVE e.key < q
  <2>1. CASE i \in 1..m /\ u[i] = ch[i]
    <3>1. KeysIn(d, b[ch[i]]) \subseteq KeysIn(d, b[p])
      BY <1>5, <2>1, KeysInSubset
    <3>2. QED
      BY <1>3, <1>4, <2>1, <3>1
  <2>2. CASE \E l \in 1..n : u[i] = t[l]
    BY <1>3, <1>4, <2>2
  <2>3. QED
    BY <1>6, <2>1, <2>2
<1>14. Pending(d, S, b, E, u)
  BY <1>6, <1>10, <1>12, <1>13 DEF Pending
<1>15. QED
  BY <1>3, <1>14 DEF u, ch

\* What btree_collect_range has collected and is to be called for.
Collected(S) == [ok : BOOLEAN, rows : Seq(LeafRecord), calls : Seq(S)]

\* One call.
Called(d, min, max, limit, c, new) ==
  LET p == Head(c.calls)
      t == Tail(c.calls)
      e == d[p].entries
  IN /\ c.calls = <<>> => new = c
     /\ c.ok /\ c.calls # <<>> =>
          /\ new.ok
          /\ Enough(c.rows, limit) => new.rows = c.rows /\ new.calls = t
          /\ ~Enough(c.rows, limit) /\ d[p] \in LeafPage =>
               new.rows = Taken(e, min, max, limit, c.rows)[Len(e)] /\ new.calls = t
          /\ ~Enough(c.rows, limit) /\ d[p] \in InnerPage =>
               new.rows = c.rows /\ new.calls = Children(d[p]) \o t

\* One call of btree_collect_range, on a page of a tree.
LEMMA CalledIs ==
  ASSUME NEW d, NEW S, NEW b, Forest(d, S, b), NEW min, NEW max, NEW limit, NEW c \in Collected(S),
         NEW new, new = CollectFrom(d, min, max, limit, c)
  PROVE  new \in Collected(S) /\ Called(d, min, max, limit, c, new)
<1> DEFINE p == Head(c.calls)
           t == Tail(c.calls)
           e == d[p].entries
<1>1. c = [ok |-> c.ok, rows |-> c.rows, calls |-> c.calls] /\ c.ok \in BOOLEAN
      /\ c.rows \in Seq(LeafRecord) /\ c.calls \in Seq(S)
  BY DEF Collected
<1>2. CASE c.calls = <<>> \/ ~c.ok
  <2>1. new = c
    BY <1>2 DEF CollectFrom
  <2>2. QED
    BY <1>2, <2>1 DEF Called
<1>3. CASE ~(c.calls = <<>> \/ ~c.ok)
  <2>1. p \in S /\ t \in Seq(S)
    BY <1>1, <1>3, HeadTailProperties
  <2>2. IsNode(d, p)
    BY <2>1 DEF Forest, Nodes
  <2>3. /\ Readable(d, p) /\ (d[p].type = "leaf" <=> d[p] \in LeafPage)
        /\ (d[p] \in LeafPage <=> d[p] \notin InnerPage)
    BY <2>2, InnerIs DEF IsLeaf
  <2>4. CASE Enough(c.rows, limit)
    <3>1. new = [c EXCEPT !.calls = t]
      BY <1>3, <2>4 DEF CollectFrom
    <3> HIDE DEF p, t
    <3>2. new = [ok |-> c.ok, rows |-> c.rows, calls |-> t]
      BY <1>1, <3>1
    <3>3. new \in Collected(S)
      BY <1>1, <2>1, <3>2 DEF Collected
    <3>4. new.ok = c.ok /\ new.rows = c.rows /\ new.calls = t
      BY <3>2
    <3>5. QED
      BY <1>3, <2>4, <3>3, <3>4 DEF Called, p, t
  <2>5. CASE ~Enough(c.rows, limit) /\ d[p] \in LeafPage
    <3> DEFINE r == Taken(e, min, max, limit, c.rows)[Len(e)]
    <3>1. new = [[c EXCEPT !.calls = t] EXCEPT !.rows = r]
      BY <1>1, <1>3, <2>3, <2>5 DEF CollectFrom
    <3>2. e \in Seq(LeafRecord) /\ Len(e) \in Nat
      BY <2>5, LeafIs DEF LeafOf
    <3>3. Takes(Taken(e, min, max, limit, c.rows), e, min, max, limit, c.rows)
      BY <1>1, <3>2, TakenIs
    <3> HIDE DEF e
    <3>4. r \in Seq(LeafRecord)
      BY <3>2, <3>3 DEF Takes
    <3> HIDE DEF p, t, r
    <3>5. new = [ok |-> c.ok, rows |-> r, calls |-> t]
      BY <1>1, <3>1
    <3>6. new \in Collected(S)
      BY <1>1, <2>1, <3>4, <3>5 DEF Collected
    <3>7. new.ok = c.ok /\ new.rows = r /\ new.calls = t
      BY <3>5
    <3>8. d[p] \notin InnerPage
      BY <2>3, <2>5
    <3>9. QED
      BY <1>3, <2>5, <3>6, <3>7, <3>8 DEF Called, p, t, r, e
  <2>6. CASE ~Enough(c.rows, limit) /\ d[p] \in InnerPage
    <3> DEFINE u == Children(d[p]) \o t
    <3>1. new = [[c EXCEPT !.calls = t] EXCEPT !.calls = u]
      BY <1>1, <1>3, <2>3, <2>6 DEF CollectFrom
    <3>2. Brood(d, S, b, p, Children(d[p]))
      BY <2>1, <2>6, BroodIs
    <3>3. Joined(S, Children(d[p]), t, u)
      BY <2>1, <3>2, JoinedIs DEF Brood
    <3>4. u \in Seq(S)
      BY <3>3 DEF Joined
    <3> HIDE DEF p, t, u
    <3>5. new = [ok |-> c.ok, rows |-> c.rows, calls |-> u]
      BY <1>1, <3>1
    <3>6. new \in Collected(S)
      BY <1>1, <3>4, <3>5 DEF Collected
    <3>7. new.ok = c.ok /\ new.rows = c.rows /\ new.calls = u
      BY <3>5
    <3>8. d[p] \notin LeafPage
      BY <2>3, <2>6
    <3>9. QED
      BY <1>3, <2>6, <3>6, <3>7, <3>8 DEF Called, p, t, u
  <2>7. QED
    BY <2>3, <2>4, <2>5, <2>6
<1>4. QED
  BY <1>2, <1>3

\* All calls.
Collects(d, S, p, min, max, limit, f) ==
  LET n == Cardinality(DOMAIN d) IN
  /\ n \in Nat
  /\ f[0] = [ok |-> TRUE, rows |-> <<>>, calls |-> <<p>>]
  /\ \A i \in 0..n : f[i] \in Collected(S)
  /\ \A i \in 1..n : f[i] = CollectFrom(d, min, max, limit, f[i - 1])

\* All calls of btree_collect_range.
LEMMA CollectIs ==
  ASSUME NEW d, NEW S, NEW b, Forest(d, S, b), IsFiniteSet(DOMAIN d), NEW p \in S,
         NEW min, NEW max, NEW limit
  PROVE  Collects(d, S, p, min, max, limit, Collect(d, p, min, max, limit))
<1> DEFINE T == Collected(S)
           n == Cardinality(DOMAIN d)
           x == [ok |-> TRUE, rows |-> <<>>, calls |-> <<p>>]
           Step(c) == CollectFrom(d, min, max, limit, c)
           step == [u \in T \X (1..n) |-> Step(u[1])]
<1>1. n \in Nat
  BY FS_CardinalityType
<1>2. x \in T
  BY DEF Collected
<1>3. \A c \in T : Step(c) \in T
  BY CalledIs
<1> HIDE DEF Step, T, x, n
<1>4. IsStep(step, T, n)
  BY <1>3 DEF IsStep
<1>5. \A c \in T, i \in 1..n : step[<<c, i>>] = Step(c)
  OBVIOUS
<1> HIDE DEF step
<1>6. PICK g \in [0..n -> T] : g[0] = x /\ \A i \in 1..n : g[i] = step[<<g[i - 1], i>>]
  <2>1. PICK g : IsLoop(g, step, x, T, n)
    BY <1>1, <1>2, <1>4, LoopExists
  <2>2. QED
    BY <2>1 DEF IsLoop
<1>7. \A i \in 1..n : i - 1 \in 0..n /\ g[i - 1] \in T
  BY <1>1, <1>6
<1>8. g = [i \in 0..n |-> IF i = 0 THEN x ELSE Step(g[i - 1])]
  <2>1. \A i \in 1..n : g[i] = Step(g[i - 1])
    BY <1>5, <1>6, <1>7
  <2>2. \A i \in 0..n : i = 0 \/ i \in 1..n
    BY <1>1
  <2>3. \A i \in 0..n : g[i] = IF i = 0 THEN x ELSE Step(g[i - 1])
    BY <1>6, <2>1, <2>2
  <2>4. QED
    BY <1>6, <2>3
<1> DEFINE f == Collect(d, p, min, max, limit)
<1>9. f = [i \in 0..n |-> IF i = 0 THEN x ELSE Step(f[i - 1])]
  BY <1>8, Zenon DEF Collect, Step, x, n
<1> HIDE DEF f
<1>10. f[0] = x /\ \A i \in 1..n : f[i] = Step(f[i - 1])
  BY <1>1, <1>9
<1>11. \A i \in 0..n : f[i] \in T
  <2> DEFINE I == {i \in 0..n : f[i] \in T}
  <2>1. 0 \in I /\ \A i \in 1..n : i - 1 \in I => i \in I
    BY <1>1, <1>2, <1>3, <1>10
  <2> HIDE DEF I
  <2>2. 0..n \subseteq I
    BY <1>1, <2>1, IntervalInduction
  <2>3. QED
    BY <2>2 DEF I
<1>12. QED
  BY <1>1, <1>10, <1>11 DEF Collects, Step, T, x, n, f

\* A set with one page more.
LEMMA OneMore ==
  ASSUME NEW S, IsFiniteSet(S), NEW D \in SUBSET S, NEW E \in SUBSET S, D \subseteq E, NEW p \in E, p \notin D
  PROVE  Cardinality(D) \in Nat /\ Cardinality(E) \in Nat /\ Cardinality(S) \in Nat
         /\ Cardinality(D) < Cardinality(E) /\ Cardinality(E) <= Cardinality(S)
<1>1. /\ IsFiniteSet(D) /\ IsFiniteSet(E) /\ Cardinality(E) <= Cardinality(S)
  BY FS_Subset
<1>2. Cardinality(D) \in Nat /\ Cardinality(E) \in Nat /\ Cardinality(S) \in Nat
  BY <1>1, FS_CardinalityType
<1>3. Cardinality(D \cup {p}) = Cardinality(D) + 1
  BY <1>1, FS_AddElement
<1>4. Cardinality(D \cup {p}) <= Cardinality(E)
  <2>1. D \cup {p} \subseteq E
    OBVIOUS
  <2>2. QED
    BY <1>1, <2>1, FS_Subset
<1>5. QED
  BY <1>1, <1>2, <1>3, <1>4

\* After some calls: as many pages are done, or all.
Progress(d, S, b, min, max, limit, c, i) ==
  /\ c \in Collected(S) /\ c.ok
  /\ \E D : /\ Pending(d, S, b, D, c.calls)
            /\ Rows(c.rows, Held(d, D), min, max, limit)
            /\ c.calls # <<>> => Cardinality(D) >= i

\* One call does one page more, and the rows stay the records of the pages done.
LEMMA ProgressMade ==
  ASSUME NEW d, NEW S, NEW b, Forest(d, S, b), IsFiniteSet(S),
         NEW min \in Int, NEW max \in Int, NEW limit \in Int,
         NEW i \in Nat, NEW c, Progress(d, S, b, min, max, limit, c, i),
         NEW new, new = CollectFrom(d, min, max, limit, c)
  PROVE  Progress(d, S, b, min, max, limit, new, i + 1)
<1> DEFINE p == Head(c.calls)
           t == Tail(c.calls)
<1>1. c \in Collected(S) /\ c.ok
  BY DEF Progress
<1>2. new \in Collected(S) /\ Called(d, min, max, limit, c, new)
  BY <1>1, CalledIs
<1>3. PICK D : /\ Pending(d, S, b, D, c.calls)
               /\ Rows(c.rows, Held(d, D), min, max, limit)
               /\ c.calls # <<>> => Cardinality(D) >= i
  BY DEF Progress
<1>4. CASE c.calls = <<>>
  <2>1. new = c
    BY <1>2, <1>4 DEF Called
  <2>2. QED
    BY <1>1, <1>3, <1>4, <2>1 DEF Progress
<1>5. CASE c.calls # <<>>
  <2>1. NextCall(d, S, b, D, p, t)
    BY <1>3, <1>5, NextCallIs
  <2>2. /\ new.ok
        /\ Enough(c.rows, limit) => new.rows = c.rows /\ new.calls = t
        /\ ~Enough(c.rows, limit) /\ d[p] \in LeafPage =>
             new.rows = Taken(d[p].entries, min, max, limit, c.rows)[Len(d[p].entries)] /\ new.calls = t
        /\ ~Enough(c.rows, limit) /\ d[p] \in InnerPage =>
             new.rows = c.rows /\ new.calls = Children(d[p]) \o t
    BY <1>1, <1>2, <1>5 DEF Called
  <2> HIDE DEF p, t
  <2>3. p \in S /\ b[p] \subseteq S /\ p \in b[p] /\ D \subseteq S /\ p \notin D
    <3>1. p \in S /\ D \cup b[p] \cup PagesOf(b, t) = S /\ D \cap b[p] = {}
      BY <2>1 DEF NextCall
    <3>2. p \in b[p]
      BY <3>1 DEF Forest, Ordered
    <3>3. QED
      BY <3>1, <3>2
  <2>4. IsNode(d, p) /\ (d[p] \in LeafPage => b[p] = {p})
    BY <2>3 DEF Forest, Nodes, Linked
  <2>5. \A u \in Held(d, D), q \in KeysIn(d, b[p]) : u.key < q
    BY <2>1 DEF NextCall
  <2>6. ASSUME NEW E, D \subseteq E, E \subseteq S, p \in E PROVE Cardinality(E) >= i + 1
    <3>1. Cardinality(D) >= i
      BY <1>3, <1>5
    <3>2. Cardinality(D) \in Nat /\ Cardinality(E) \in Nat /\ Cardinality(D) < Cardinality(E)
      BY <2>3, <2>6, OneMore
    <3>3. QED
      BY <3>1, <3>2
  <2>7. Pending(d, S, b, D \cup b[p], t) /\ Cardinality(D \cup b[p]) >= i + 1
    BY <2>1, <2>3, <2>6, PendingAfter
  <2>8. Held(d, D \cup b[p]) = Held(d, D) \cup Held(d, b[p])
    BY HeldInUnion
  <2>9. CASE Enough(c.rows, limit)
    <3>1. Nodes(d, b[p])
      BY <2>3 DEF Forest, Nodes
    <3>2. \A e \in Held(d, b[p]) : e.key \in KeysIn(d, b[p])
      BY <3>1, HeldKeys
    <3>3. \A u \in Held(d, D), e \in Held(d, b[p]) : u.key < e.key
      BY <2>5, <3>2
    <3>4. Rows(c.rows, Held(d, D) \cup Held(d, b[p]), min, max, limit)
      BY <1>3, <2>9, <3>3, RowsEnough
    <3>5. QED
      BY <1>2, <2>2, <2>7, <2>8, <2>9, <3>4 DEF Progress
  <2>10. CASE ~Enough(c.rows, limit) /\ d[p] \in LeafPage
    <3> DEFINE r == Taken(d[p].entries, min, max, limit, c.rows)[Len(d[p].entries)]
    <3>1. b[p] = {p} /\ Sorted(d[p].entries)
      BY <2>4, <2>10 DEF IsNode
    <3>2. KeysIn(d, b[p]) = KeysAt(d[p]) /\ Held(d, b[p]) = Records(d[p])
      BY <2>10, <3>1, PageKinds DEF KeysIn, Held, Records
    <3>3. Rows(r, Held(d, D) \cup Records(d[p]), min, max, limit)
      BY <1>3, <2>5, <2>10, <3>1, <3>2, RowsTaken
    <3>4. new.rows = r /\ new.calls = t
      BY <2>2, <2>10
    <3> HIDE DEF r
    <3>5. QED
      BY <1>2, <2>2, <2>7, <2>8, <3>2, <3>3, <3>4 DEF Progress
  <2>11. CASE ~Enough(c.rows, limit) /\ d[p] \in InnerPage
    <3> DEFINE u == Children(d[p]) \o t
               E == D \cup {p}
    <3>0. Pending(d, S, b, D \cup {p}, Children(d[p]) \o t) /\ Held(d, D \cup {p}) = Held(d, D)
      <4>1. d[p] \in InnerPage
        BY <2>11
      <4> HIDE DEF u, E
      <4>2. QED
        BY <2>1, <4>1, PendingBelow
    <3>1. Pending(d, S, b, E, u) /\ Held(d, E) = Held(d, D)
      BY <3>0
    <3>2. new.rows = c.rows /\ new.calls = u
      BY <2>2, <2>11
    <3>3. Cardinality(E) >= i + 1
      BY <2>3, <2>6
    <3> HIDE DEF u, E
    <3>4. QED
      BY <1>2, <1>3, <2>2, <3>1, <3>2, <3>3 DEF Progress
  <2>12. QED
    BY <2>4, <2>9, <2>10, <2>11 DEF IsNode
<1>6. QED
  BY <1>4, <1>5

\* What btree_range returns.
LEMMA CollectedAll ==
  ASSUME NEW d, NEW S, NEW p, Tree(d, S, p), IsFiniteSet(DOMAIN d),
         NEW min \in Int, NEW max \in Int, NEW limit \in Int, limit # 0,
         NEW c, c = Collect(d, p, min, max, limit)[Cardinality(DOMAIN d)]
  PROVE  c.ok /\ Rows(c.rows, Held(d, S), min, max, limit)
<1> DEFINE n == Cardinality(DOMAIN d)
           f == Collect(d, p, min, max, limit)
<1>1. PICK b : Forest(d, S, b) /\ p \in S /\ b[p] = S
  BY DEF Tree
<1> DEFINE I == {i \in 0..n : Progress(d, S, b, min, max, limit, f[i], i)}
<1>2. Collects(d, S, p, min, max, limit, f)
  BY <1>1, CollectIs
<1>3. /\ n \in Nat /\ f[0] = [ok |-> TRUE, rows |-> <<>>, calls |-> <<p>>]
      /\ f[0] \in Collected(S)
      /\ \A i \in 1..n : f[i] = CollectFrom(d, min, max, limit, f[i - 1])
  BY <1>2 DEF Collects
<1>4. S \subseteq DOMAIN d
  BY <1>1 DEF Forest, Nodes, IsNode
<1>5. IsFiniteSet(S) /\ Cardinality(S) <= n /\ Cardinality(S) \in Nat
  BY <1>4, FS_Subset, FS_CardinalityType
<1> HIDE DEF n, f
<1>6. 0 \in I
  <2> DEFINE calls == <<p>>
  <2>1. calls \in Seq(S) /\ Len(calls) = 1 /\ calls[1] = p
    BY <1>1
  <2> HIDE DEF calls
  <2>2. PagesOf(b, calls) = S
    BY <1>1, <2>1 DEF PagesOf
  <2>3. Held(d, {}) = {}
    BY DEF Held
  <2>4. Pending(d, S, b, {}, calls)
    BY <2>1, <2>2, <2>3 DEF Pending
  <2>5. Rows(<<>>, {}, min, max, limit)
    BY DEF Rows
  <2>6. Cardinality({}) >= 0
    BY FS_EmptySet
  <2>7. 0 \in 0..n
    BY <1>3
  <2>8. f[0].ok /\ f[0].rows = <<>> /\ f[0].calls = calls
    BY <1>3 DEF calls
  <2>9. QED
    BY <1>3, <2>3, <2>4, <2>5, <2>6, <2>7, <2>8 DEF Progress
<1>7. ASSUME NEW i \in 1..n, i - 1 \in I PROVE i \in I
  <2>1. i - 1 \in Nat /\ i \in 0..n /\ (i - 1) + 1 = i
    BY <1>3
  <2>2. Progress(d, S, b, min, max, limit, f[i - 1], i - 1)
    BY <1>7
  <2>3. Progress(d, S, b, min, max, limit, f[i], (i - 1) + 1)
    BY <1>1, <1>3, <1>5, <2>1, <2>2, ProgressMade
  <2>4. QED
    BY <2>1, <2>3
<1>8. Progress(d, S, b, min, max, limit, f[n], n)
  <2> HIDE DEF I
  <2>1. n \in Nat /\ \A i \in 1..n : i - 1 \in I => i \in I
    BY <1>3, <1>7
  <2>2. 0..n \subseteq I
    BY <1>6, <2>1, IntervalInduction
  <2>3. n \in 0..n
    BY <1>3
  <2>4. QED
    BY <2>2, <2>3 DEF I
<1>9. c = f[n]
  BY DEF f, n
<1>10. PICK D : /\ Pending(d, S, b, D, c.calls)
                /\ Rows(c.rows, Held(d, D), min, max, limit)
                /\ c.calls # <<>> => Cardinality(D) >= n
  BY <1>8, <1>9 DEF Progress
<1>11. c.calls = <<>>
  <2> SUFFICES ASSUME c.calls # <<>> PROVE FALSE
    OBVIOUS
  <2> DEFINE h == Head(c.calls)
             t == Tail(c.calls)
  <2>1. NextCall(d, S, b, D, h, t)
    BY <1>10, NextCallIs
  <2> HIDE DEF h, t
  <2>2. h \in S /\ D \subseteq S /\ h \notin D
    BY <1>1, <2>1 DEF NextCall, Forest, Ordered
  <2>3. Cardinality(D) \in Nat /\ Cardinality(D) < Cardinality(S)
    BY <1>5, <2>2, OneMore
  <2>4. QED
    BY <1>3, <1>5, <1>10, <2>3
<1>12. D = S
  <2>1. PagesOf(b, <<>>) = {}
    BY DEF PagesOf
  <2>2. QED
    BY <1>10, <1>11, <2>1 DEF Pending
<1>13. QED
  BY <1>8, <1>9, <1>10, <1>12 DEF Progress

\* A finite set of numbers has a bound.
LEMMA FiniteBound ==
  ASSUME NEW K, K \subseteq Nat, IsFiniteSet(K)
  PROVE  \E n \in Nat : K \subseteq 0..n
<1> DEFINE m == Cardinality(K)
<1>1. m \in Nat /\ ExistsBijection(1..m, K)
  BY FS_CardinalityType
<1>2. PICK f : f \in [1..m -> K] /\ \A k \in K : \E i \in 1..m : f[i] = k
  BY <1>1 DEF ExistsBijection, Bijection, Surjection
<1> HIDE DEF m
<1> DEFINE T == {j \in 0..m : \E n \in Nat : \A i \in 1..j : f[i] <= n}
<1>3. 0 \in T
  <2>1. 0 \in 0..m /\ \A i \in 1..0 : f[i] <= 0
    BY <1>1
  <2>2. QED
    BY <2>1
<1>4. ASSUME NEW j \in 1..m, j - 1 \in T PROVE j \in T
  <2>1. PICK n \in Nat : \A i \in 1..(j - 1) : f[i] <= n
    BY <1>4
  <2>2. j \in 0..m /\ j \in 1..j /\ (\A i \in 1..j : i \in 1..m) /\ \A i \in 1..j : i = j \/ i \in 1..(j - 1)
    BY <1>1
  <2>3. \A i \in 1..m : f[i] \in Nat
    BY <1>2
  <2> DEFINE s == n + f[j]
  <2>4. s \in Nat /\ n <= s /\ f[j] <= s
    BY <2>2, <2>3
  <2> HIDE DEF s
  <2>5. ASSUME NEW i \in 1..j PROVE f[i] <= s
    <3>1. CASE i = j
      BY <2>4, <3>1
    <3>2. CASE i \in 1..(j - 1)
      <4>1. f[i] <= n /\ f[i] \in Nat
        BY <2>1, <2>2, <2>3, <3>2
      <4>2. QED
        BY <2>4, <4>1
    <3>3. QED
      BY <2>2, <3>1, <3>2
  <2>6. QED
    BY <2>2, <2>4, <2>5
<1>5. m \in T
  <2> HIDE DEF T
  <2>1. \A j \in 1..m : j - 1 \in T => j \in T
    BY <1>4
  <2>2. 0..m \subseteq T
    BY <1>1, <1>3, <2>1, IntervalInduction
  <2>3. m \in 0..m
    BY <1>1
  <2>4. QED
    BY <2>2, <2>3
<1>6. PICK n \in Nat : \A i \in 1..m : f[i] <= n
  BY <1>5
<1>7. K \subseteq 0..n
  BY <1>2, <1>6
<1>8. QED
  BY <1>7

\* As many numbers as places, in a sequence that rises.
LEMMA RisingCount ==
  ASSUME NEW n \in Nat, NEW g, \A i \in 1..n : g[i] \in Int, \A i, j \in 1..n : i < j => g[i] < g[j]
  PROVE  IsFiniteSet({g[i] : i \in 1..n}) /\ Cardinality({g[i] : i \in 1..n}) = n
<1> DEFINE First(m) == {g[i] : i \in 1..m}
           T == {m \in 0..n : IsFiniteSet(First(m)) /\ Cardinality(First(m)) = m}
<1>1. 0 \in T
  <2>1. First(0) = {} /\ 0 \in 0..n
    OBVIOUS
  <2>2. QED
    BY <2>1, FS_EmptySet
<1>2. ASSUME NEW m \in 1..n, m - 1 \in T PROVE m \in T
  <2>1. IsFiniteSet(First(m - 1)) /\ Cardinality(First(m - 1)) = m - 1 /\ m \in 0..n
    BY <1>2
  <2>2. First(m) = First(m - 1) \cup {g[m]}
    <3>1. \A i \in 1..m : i = m \/ i \in 1..(m - 1)
      OBVIOUS
    <3>2. m \in 1..m /\ \A i \in 1..(m - 1) : i \in 1..m
      OBVIOUS
    <3>3. QED
      BY <3>1, <3>2
  <2>3. g[m] \notin First(m - 1)
    <3>1. \A i \in 1..(m - 1) : i \in 1..n /\ i < m
      OBVIOUS
    <3>2. \A i \in 1..(m - 1) : g[i] < g[m] /\ g[i] \in Int /\ g[m] \in Int
      BY <3>1
    <3>3. QED
      BY <3>2
  <2> HIDE DEF First
  <2>4. IsFiniteSet(First(m)) /\ Cardinality(First(m)) = (m - 1) + 1
    BY <2>1, <2>2, <2>3, FS_AddElement
  <2>5. QED
    BY <2>1, <2>4
<1>3. n \in T
  <2> HIDE DEF T
  <2>1. \A m \in 1..n : m - 1 \in T => m \in T
    BY <1>2
  <2>2. 0..n \subseteq T
    BY <1>1, <2>1, IntervalInduction
  <2>3. QED
    BY <2>2
<1>4. QED
  BY <1>3

\* The keys entered between two.
KeysWithin(min, max) == {k \in DOMAIN store : min <= k /\ k <= max}

\* The keys of the rows are the first ones entered, each in its place.
Ranked(rows, min, max, limit, g) ==
  LET n == Len(rows)
      in == KeysWithin(min, max)
  IN /\ n \in Nat /\ (limit >= 0 => n <= limit) /\ DOMAIN rows = 1..n
     /\ \A i \in 1..n : /\ g[i] = rows[i].key /\ g[i] \in Int
                        /\ rows[i].key \in in /\ rows[i].value = store[rows[i].key]
     /\ \A i, j \in 1..n : i < j => g[i] < g[j]
     /\ \A k \in in : k \in Int /\ ((\E i \in 1..n : g[i] = k) \/ (limit >= 0 /\ n >= limit /\ \A i \in 1..n : g[i] < k))

\* The rows against the keys entered.
LEMMA RankedIs ==
  ASSUME NEW rows, NEW min, NEW max, NEW limit, Rows(rows, Entered, min, max, limit),
         Entered \subseteq LeafRecord
  PROVE  \E g : Ranked(rows, min, max, limit, g)
<1> DEFINE n == Len(rows)
           in == KeysWithin(min, max)
           g == [i \in 1..n |-> rows[i].key]
<1>1. rows \in Seq(LeafRecord)
  BY DEF Rows
<1>2. n \in Nat /\ DOMAIN rows = 1..n
  BY <1>1
<1>3. /\ limit >= 0 => n <= limit
      /\ \A i, j \in 1..n : i < j => rows[i].key < rows[j].key
      /\ \A i \in 1..n : rows[i] \in Entered /\ min <= rows[i].key /\ rows[i].key <= max
      /\ \A e \in Entered : min <= e.key /\ e.key <= max =>
            \/ \E i \in 1..n : rows[i] = e
            \/ limit >= 0 /\ n >= limit /\ \A i \in 1..n : rows[i].key < e.key
  BY DEF Rows, Within, Enough
<1>4. \A i \in 1..n : g[i] = rows[i].key
  OBVIOUS
<1> HIDE DEF g, n
<1>5. ASSUME NEW i \in 1..n
      PROVE  rows[i].key \in Int /\ rows[i].key \in in /\ rows[i].value = store[rows[i].key]
  <2>1. PICK k \in DOMAIN store : rows[i] = [key |-> k, value |-> store[k]]
    BY <1>3 DEF Entered
  <2>2. rows[i].key = k /\ rows[i].value = store[k]
    BY <2>1
  <2>3. rows[i].key \in Int
    BY <1>3, LeafRecords, KeysAreNumbers
  <2>4. QED
    BY <1>3, <2>2, <2>3 DEF KeysWithin
<1>6. ASSUME NEW k \in in
      PROVE  k \in Int /\ ((\E i \in 1..n : g[i] = k) \/ (limit >= 0 /\ n >= limit /\ \A i \in 1..n : g[i] < k))
  <2> DEFINE e == [key |-> k, value |-> store[k]]
  <2>1. k \in DOMAIN store /\ min <= k /\ k <= max
    BY DEF KeysWithin
  <2>2. e \in Entered /\ e.key = k
    BY <2>1 DEF Entered
  <2> HIDE DEF e
  <2>3. k \in Int
    BY <2>2, LeafRecords, KeysAreNumbers
  <2>4. QED
    BY <1>3, <1>4, <2>1, <2>2, <2>3
<1>7. \A i, j \in 1..n : i < j => g[i] < g[j]
  BY <1>3, <1>4
<1>8. Ranked(rows, min, max, limit, g)
  BY <1>2, <1>3, <1>4, <1>5, <1>6, <1>7 DEF Ranked, n
<1>9. QED
  BY <1>8

\* The rows are as many, and each has as many keys before it, as it should.
Counted(rows, min, max, limit) ==
  LET in == KeysWithin(min, max)
  IN /\ IsFiniteSet(in)
     /\ Len(rows) = IF limit = -1 THEN Cardinality(in) ELSE Min({limit, Cardinality(in)})
     /\ \A i \in 1..Len(rows) : Cardinality({k \in in : k < rows[i].key}) = i - 1

\* From the order of the rows follows how many there are.
LEMMA RankedCount ==
  ASSUME NEW rows, NEW min, NEW max, NEW limit, limit = -1 \/ limit \in Nat, NEW g,
         Ranked(rows, min, max, limit, g), limit = -1 \/ IsFiniteSet(KeysWithin(min, max))
  PROVE  Counted(rows, min, max, limit)
<1> DEFINE n == Len(rows)
           in == KeysWithin(min, max)
           G == {g[i] : i \in 1..n}
<1>1. /\ n \in Nat /\ (limit >= 0 => n <= limit)
      /\ \A i \in 1..n : g[i] = rows[i].key /\ g[i] \in Int /\ rows[i].key \in in
      /\ \A i, j \in 1..n : i < j => g[i] < g[j]
      /\ \A k \in in : k \in Int /\ ((\E i \in 1..n : g[i] = k) \/ (limit >= 0 /\ n >= limit /\ \A i \in 1..n : g[i] < k))
  BY DEF Ranked
<1> HIDE DEF n, in
<1>2. IsFiniteSet(G) /\ Cardinality(G) = n
  BY <1>1, RisingCount
<1>3. G \subseteq in
  BY <1>1
<1>4. limit \in Int
  OBVIOUS
<1>5. ASSUME NEW i \in 1..n PROVE Cardinality({k \in in : k < rows[i].key}) = i - 1
  <2> DEFINE m == i - 1
             H == {g[j] : j \in 1..m}
  <2>1. m \in Nat /\ \A j \in 1..m : j \in 1..n /\ j < i
    BY <1>1
  <2>2. \A j \in 1..n : j < i => j \in 1..m
    BY <1>1
  <2>3. \A j \in 1..n : j = i \/ j < i \/ i < j
    BY <1>1
  <2> HIDE DEF m
  <2>4. \A j \in 1..n : ~(j < i) => ~(g[j] < g[i])
    <3> SUFFICES ASSUME NEW j \in 1..n, ~(j < i) PROVE ~(g[j] < g[i])
      OBVIOUS
    <3>1. g[j] \in Int /\ g[i] \in Int
      BY <1>1
    <3>2. j = i \/ g[i] < g[j]
      BY <1>1, <2>3
    <3>3. QED
      BY <3>1, <3>2
  <2>5. ASSUME NEW k \in in, k < g[i] PROVE k \in H
    <3>1. k \in Int /\ g[i] \in Int
      BY <1>1
    <3>2. \E j \in 1..n : g[j] = k
      BY <1>1, <2>5, <3>1
    <3>3. PICK j \in 1..n : g[j] = k
      BY <3>2
    <3>4. QED
      BY <2>2, <2>4, <2>5, <3>3
  <2>6. ASSUME NEW k \in H PROVE k \in in /\ k < g[i]
    BY <1>1, <2>1
  <2>7. {k \in in : k < g[i]} = H
    BY <2>5, <2>6
  <2>8. Cardinality(H) = m
    BY <1>1, <2>1, RisingCount
  <2> HIDE DEF H
  <2>9. rows[i].key = g[i]
    BY <1>1
  <2>10. QED
    BY <2>7, <2>8, <2>9 DEF m
<1>6. CASE limit = -1
  <2>1. in = G
    BY <1>1, <1>3, <1>6
  <2>2. QED
    BY <1>2, <1>5, <1>6, <2>1 DEF Counted, n, in
<1>7. CASE limit \in Nat /\ limit # -1
  <2> DEFINE c == Cardinality(in)
  <2>1. IsFiniteSet(in)
    BY <1>7 DEF in
  <2>2. c \in Nat /\ n <= c
    BY <1>2, <1>3, <2>1, FS_CardinalityType, FS_Subset
  <2>3. n = limit \/ n = c
    <3>1. CASE in = G
      BY <1>2, <3>1
    <3>2. CASE in # G
      <4>1. PICK k \in in : k \notin G
        BY <1>3, <3>2
      <4>2. n >= limit
        BY <1>1, <4>1
      <4>3. QED
        BY <1>1, <1>7, <4>2
    <3>3. QED
      BY <3>1, <3>2
  <2>4. n <= limit
    BY <1>1, <1>7
  <2> HIDE DEF c
  <2>5. Min({limit, c}) \in {limit, c} /\ \A y \in {limit, c} : Min({limit, c}) <= y
    BY <1>7, <2>2, MinOfNaturals
  <2>6. Min({limit, c}) = n
    BY <1>1, <1>7, <2>2, <2>3, <2>4, <2>5
  <2>7. QED
    BY <1>5, <1>7, <2>1, <2>6 DEF Counted, n, in, c
<1>8. QED
  BY <1>6, <1>7

\* btree_range on a tree returns the records between the two keys, up to the limit.
LEMMA BtRangeIs ==
  ASSUME NEW d, NEW S, NEW p, Tree(d, S, p), IsFiniteSet(DOMAIN d),
         NEW min \in Int, NEW max \in Int, min <= max, NEW limit \in Int, limit # 0,
         NEW r, r = BtRange(d, p, min, max, limit)
  PROVE  r.ok /\ Rows(r.rows, Held(d, S), min, max, limit)
<1> DEFINE c == Collect(d, p, min, max, limit)[Cardinality(DOMAIN d)]
<1>1. c.ok /\ Rows(c.rows, Held(d, S), min, max, limit)
  BY CollectedAll
<1> HIDE DEF c
<1>2. r = [ok |-> c.ok, rows |-> c.rows]
  BY DEF BtRange, c
<1>3. QED
  BY <1>1, <1>2

\* All ranges of the store, with all limits.
RangesRight == Intact => \A min, max \in Int, limit \in Nat \cup {-1} : RangeAgrees(min, max, limit)

\* What the invariant says of btree_range.
LEMMA RangesFromInv == BtInv /\ Safe => RangesRight
<1> SUFFICES ASSUME BtInv, Safe, Intact, NEW min \in Int, NEW max \in Int, NEW limit \in Nat \cup {-1}
             PROVE  RangeAgrees(min, max, limit)
  BY DEF RangesRight
<1> DEFINE r == BtRange(disk, db.root, min, max, limit)
           in == KeysWithin(min, max)
<1>1. PICK S, fl : StoreOf(S, fl) /\ db = disk[0]
  BY DEF BtInv
<1>2. Tree(disk, S, db.root) /\ IsFiniteSet(DOMAIN disk) /\ Held(disk, S) = Entered
  BY <1>1 DEF StoreOf, Rooted, Space
<1>3. Entered \subseteq LeafRecord
  BY <1>2, TreeNodes, HeldKeys
<1>4. limit \in Int /\ (limit = -1 \/ limit \in Nat)
  OBVIOUS
<1>5. SUFFICES /\ r.ok
               /\ Len(r.rows) = IF limit = -1 THEN Cardinality(in) ELSE Min({limit, Cardinality(in)})
               /\ \A i \in DOMAIN r.rows :
                    /\ r.rows[i].key \in in
                    /\ r.rows[i].value = store[r.rows[i].key]
                    /\ Cardinality({k \in in : k < r.rows[i].key}) = i - 1
  BY DEF RangeAgrees, KeysWithin
<1>6. min <= max => IsFiniteSet(in)
  <2> SUFFICES ASSUME min <= max PROVE IsFiniteSet(in)
    OBVIOUS
  <2> DEFINE all == BtRange(disk, db.root, min, max, -1)
             m == -1
  <2>1. m \in Int /\ m # 0 /\ m = -1
    OBVIOUS
  <2> HIDE DEF m
  <2>2. Rows(all.rows, Entered, min, max, m)
    BY <1>2, <2>1, BtRangeIs
  <2>3. PICK g : Ranked(all.rows, min, max, m, g)
    BY <1>3, <2>2, RankedIs
  <2>4. QED
    BY <2>1, <2>3, RankedCount DEF Counted
<1>7. CASE limit = 0 \/ min > max
  <2>1. r = [ok |-> TRUE, rows |-> <<>>]
    BY <1>7 DEF BtRange
  <2>2. IsFiniteSet(in) /\ (in = {} \/ limit = 0)
    <3>1. CASE min <= max
      BY <1>6, <1>7, <3>1
    <3>2. CASE ~(min <= max)
      <4>1. ASSUME NEW k \in in PROVE FALSE
        <5> DEFINE e == [key |-> k, value |-> store[k]]
        <5>1. e \in Entered /\ e.key = k
          BY DEF Entered, KeysWithin
        <5> HIDE DEF e
        <5>2. k \in Int
          BY <1>3, <5>1, LeafRecords, KeysAreNumbers
        <5>3. min <= k /\ k <= max
          BY DEF KeysWithin
        <5>4. QED
          BY <3>2, <5>2, <5>3
      <4>2. in = {}
        BY <4>1
      <4>3. QED
        BY <4>2, FS_EmptySet
    <3>3. QED
      BY <3>1, <3>2
  <2> DEFINE c == Cardinality(in)
  <2>3. c \in Nat /\ (c = 0 \/ limit = 0)
    BY <2>2, FS_CardinalityType, FS_EmptySet
  <2> HIDE DEF c
  <2>4. limit # -1 => Min({limit, c}) = 0
    <3> SUFFICES ASSUME limit # -1 PROVE Min({limit, c}) = 0
      OBVIOUS
    <3>1. limit \in Nat
      BY <1>4
    <3>2. Min({limit, c}) \in {limit, c} /\ \A y \in {limit, c} : Min({limit, c}) <= y
      BY <2>3, <3>1, MinOfNaturals
    <3>3. QED
      BY <2>3, <3>1, <3>2
  <2>5. Len(r.rows) = 0 /\ DOMAIN r.rows = {} /\ r.ok
    BY <2>1
  <2> HIDE DEF r
  <2>6. Len(r.rows) = IF limit = -1 THEN c ELSE Min({limit, c})
    BY <2>3, <2>4, <2>5
  <2>7. QED
    BY <2>5, <2>6 DEF c
<1>8. CASE ~(limit = 0 \/ min > max)
  <2>1. min <= max /\ limit # 0
    BY <1>8
  <2>2. r.ok /\ Rows(r.rows, Entered, min, max, limit)
    BY <1>2, <1>4, <2>1, BtRangeIs
  <2> HIDE DEF r, in
  <2>3. PICK g : Ranked(r.rows, min, max, limit, g)
    BY <1>3, <2>2, RankedIs
  <2>4. IsFiniteSet(in)
    BY <1>6, <2>1
  <2>5. /\ Len(r.rows) = IF limit = -1 THEN Cardinality(in) ELSE Min({limit, Cardinality(in)})
        /\ \A i \in 1..Len(r.rows) : Cardinality({k \in in : k < r.rows[i].key}) = i - 1
    <3> DEFINE rows == r.rows
    <3>1. Ranked(rows, min, max, limit, g)
      BY <2>3
    <3>2. limit = -1 \/ IsFiniteSet(KeysWithin(min, max))
      BY <2>4 DEF in
    <3> HIDE DEF rows
    <3>3. Counted(rows, min, max, limit)
      BY <1>4, <3>1, <3>2, RankedCount
    <3>4. QED
      BY <3>3 DEF Counted, rows, in
  <2>6. DOMAIN r.rows = 1..Len(r.rows) /\ \A i \in 1..Len(r.rows) : /\ r.rows[i].key \in in
                                                                     /\ r.rows[i].value = store[r.rows[i].key]
    BY <2>3 DEF Ranked, in
  <2>7. QED
    BY <2>2, <2>5, <2>6
<1>9. QED
  BY <1>7, <1>8

\* btree_range between any two bounds and with any limit, after operations none of which
\* has failed: the entries in between, in order, and no more than the limit.
THEOREM RangesRightTheorem == BtSpec => [](lastOk => RangesRight)
<1>1. BtInv => (lastOk => RangesRight)
  BY RangesFromInv DEF Safe
<1>2. QED
  BY <1>1, StoreInvariant, PTL

\* The bounds that the run takes are some of them.
LEMMA RunBounds == IsFiniteSet(Keys) /\ RangesRight => RangesAgree
<1> SUFFICES ASSUME IsFiniteSet(Keys), RangesRight, Intact, NEW k \in Keys
             PROVE  RangeAgrees(k, Max(Keys), -1) /\ RangeAgrees(Min(Keys), k, 2)
  BY DEF RangesAgree
<1>1. Keys \subseteq Nat /\ Keys # {}
  BY BTreeAssumption DEF BTreeAssumption
<1>2. PICK n \in Nat : Keys \subseteq 0..n
  BY <1>1, FiniteBound
<1>3. Max(Keys) \in Keys
  BY <1>1, <1>2, MaxOfNaturals
<1>4. Min(Keys) \in Keys
  BY <1>1, MinOfNaturals
<1>5. Max(Keys) \in Int /\ Min(Keys) \in Int /\ k \in Int
  BY <1>3, <1>4, KeysAreNumbers
<1>6. \A min, max \in Int, limit \in Nat \cup {-1} : RangeAgrees(min, max, limit)
  BY DEF RangesRight
<1>7. -1 \in Nat \cup {-1} /\ 2 \in Nat \cup {-1}
  OBVIOUS
<1>8. QED
  BY <1>5, <1>6, <1>7

\* The ranges that the run checks, whatever failed before, when all records take the
\* same room.
THEOREM RangesAgreeTheorem ==
  ASSUME IsFiniteSet(Keys)
  PROVE  /\ BtSpec => [](lastOk => RangesAgree)
         /\ EvenSizes => (BtSpec => []RangesAgree)
<1>1. BtInv => (lastOk => RangesAgree)
  BY RangesFromInv, RunBounds DEF Safe
<1>2. BtSpec => [](lastOk => RangesAgree)
  BY <1>1, StoreInvariant, PTL
<1>3. ASSUME EvenSizes PROVE BtSpec => []RangesAgree
  <2>1. BtInv => RangesAgree
    BY <1>3, RangesFromInv, RunBounds DEF Safe
  <2>2. QED
    BY <2>1, StoreInvariant, PTL
<1>4. QED
  BY <1>2, <1>3
=============================================================================
