---------------------------- MODULE DataLemmas ----------------------------
(***************************************************************************)
(* Facts about numbers and sequences that the proofs about the components  *)
(* cite: least and greatest elements of sets of numbers, prefixes of       *)
(* sequences.                                                              *)
(***************************************************************************)
EXTENDS Integers, SequencesExt, FiniteSetTheorems, SequenceTheorems, TLAPS

\* A set of natural numbers has a least element.
LEMMA LeastNatural ==
  ASSUME NEW S, S \subseteq Nat, S # {}
  PROVE  \E x \in S : \A y \in S : x <= y
<1> DEFINE T == {0..m : m \in S}
<1>1. T \subseteq FiniteSubsetsOf(Nat)
  <2>1. \A m \in Nat : 0..m \in SUBSET Nat /\ IsFiniteSet(0..m)
    BY FS_Interval
  <2>2. QED
    BY <2>1 DEF FiniteSubsetsOf
<1>2. PICK I \in T : \A J \in T : <<J, I>> \notin StrictSubsetOrdering(Nat)
  <2>1. T # {}
    OBVIOUS
  <2> HIDE DEF T
  <2>2. QED
    BY <1>1, <2>1, FS_StrictSubsetOrderingWellFounded, WFMin
<1>3. PICK x \in S : I = 0..x
  OBVIOUS
<1>4. \A y \in S : x <= y
  <2> SUFFICES ASSUME NEW y \in S, y < x PROVE FALSE
    OBVIOUS
  <2>1. 0..y \in T /\ 0..y \subseteq 0..x /\ x \in 0..x /\ x \notin 0..y
    OBVIOUS
  <2>2. 0..y # 0..x
    BY <2>1
  <2>3. <<0..y, 0..x>> \in StrictSubsetOrdering(Nat)
    BY <2>1, <2>2 DEF StrictSubsetOrdering
  <2>4. QED
    BY <1>2, <1>3, <2>1, <2>3
<1>5. QED
  BY <1>4

\* Min of a set of natural numbers.
LEMMA MinOfNaturals ==
  ASSUME NEW S, S \subseteq Nat, S # {}
  PROVE  Min(S) \in S /\ \A y \in S : Min(S) <= y
BY LeastNatural DEF Min

\* Max of a set of natural numbers with a bound.
LEMMA MaxOfNaturals ==
  ASSUME NEW n \in Nat, NEW S, S \subseteq 0..n, S # {}
  PROVE  Max(S) \in S /\ \A y \in S : y <= Max(S)
<1> DEFINE Bounds == {m \in 0..n : \A y \in S : y <= m}
<1>1. Bounds \subseteq Nat /\ n \in Bounds
  OBVIOUS
<1>2. PICK x \in Bounds : \A y \in Bounds : x <= y
  <2> HIDE DEF Bounds
  <2>1. QED
    BY <1>1, LeastNatural
<1>3. x \in S
  <2> SUFFICES ASSUME x \notin S PROVE FALSE
    OBVIOUS
  <2>1. \A y \in S : y <= x - 1
    OBVIOUS
  <2>2. PICK y \in S : TRUE
    OBVIOUS
  <2>3. x - 1 \in 0..n
    BY <2>1, <2>2
  <2>4. x - 1 \in Bounds
    BY <2>1, <2>3
  <2>5. QED
    BY <1>2, <2>4
<1>4. QED
  BY <1>3 DEF Max

\* The places of a sequence with one more element.
LEMMA BelowAndNext ==
  \A n \in Nat \ {0} :
    /\ 1 \in 1..n /\ n \in 1..n /\ n + 1 \in Nat \ {0}
    /\ \A i \in 1..(n + 1) : i \in 1..n \/ i = n + 1
    /\ \A i \in 2..(n + 1) : (i \in 2..n /\ i - 1 \in 1..n) \/ (i = n + 1 /\ i - 1 = n)
    /\ \A i \in 2..n : i \in 1..n
<1> TAKE n \in Nat \ {0}
<1>1. 1 \in 1..n /\ n \in 1..n /\ n + 1 \in Nat \ {0}
  OBVIOUS
<1>2. \A i \in 1..(n + 1) : i \in 1..n \/ i = n + 1
  OBVIOUS
<1>3. ASSUME NEW i \in 2..(n + 1)
      PROVE  (i \in 2..n /\ i - 1 \in 1..n) \/ (i = n + 1 /\ i - 1 = n)
  <2>1. CASE i = n + 1
    BY <2>1
  <2>2. CASE i # n + 1
    <3>1. i \in Int /\ n \in Int /\ 2 <= i /\ i <= n + 1 /\ i # n + 1
      BY <2>2
    <3>2. i <= n /\ i - 1 \in Int /\ 1 <= i - 1 /\ i - 1 <= n
      BY <3>1
    <3>3. QED
      BY <3>1, <3>2
  <2>3. QED
    BY <2>1, <2>2
<1>4. \A i \in 2..n : i \in 1..n
  OBVIOUS
<1>5. QED
  BY <1>1, <1>2, <1>3, <1>4

\* The place below the last one.
LEMMA BelowTop ==
  \A n \in Nat \ {0} :
    /\ 1 \in 1..n /\ n \in 1..n
    /\ ~(n > 1) => n = 1
    /\ n # 1 => n \in 2..n /\ n - 1 \in 1..n /\ n > 1
    /\ \A m \in 1..n : m # n => m < n
<1> TAKE n \in Nat \ {0}
<1>1. 1 \in 1..n /\ n \in 1..n /\ (~(n > 1) => n = 1)
  OBVIOUS
<1>2. ASSUME n # 1 PROVE n \in 2..n /\ n - 1 \in 1..n /\ n > 1
  <2>1. n \in Int /\ 2 <= n
    BY <1>2
  <2>2. n - 1 \in Int /\ 1 <= n - 1 /\ n - 1 <= n
    BY <2>1
  <2>3. QED
    BY <2>1, <2>2
<1>3. \A m \in 1..n : m # n => m < n
  OBVIOUS
<1>4. QED
  BY <1>1, <1>2, <1>3

\* One place less.
LEMMA OneLess ==
  /\ \A n \in Nat \ {0} : n # 1 =>
       /\ n - 1 \in 1..n /\ n - 1 \in 0..n
       /\ \A i \in 2..(n - 1) : i \in 2..n
       /\ n # 2 => n - 1 \in 2..n /\ n - 1 - 1 \in 1..n
  /\ \A n \in Nat : \A k \in 1..n : k # 1 => k - 1 \in 1..n
<1>1. ASSUME NEW n \in Nat \ {0}, n # 1
      PROVE  /\ n - 1 \in 1..n /\ n - 1 \in 0..n
             /\ \A i \in 2..(n - 1) : i \in 2..n
             /\ n # 2 => n - 1 \in 2..n /\ n - 1 - 1 \in 1..n
  <2>1. n - 1 \in Int /\ 1 <= n - 1 /\ n - 1 <= n
    BY <1>1
  <2>2. ASSUME n # 2 PROVE n - 1 - 1 \in Int /\ 2 <= n - 1 /\ 1 <= n - 1 - 1 /\ n - 1 - 1 <= n
    BY <1>1, <2>2
  <2>3. \A i \in 2..(n - 1) : i \in 2..n
    BY <1>1
  <2>4. n - 1 \in 1..n /\ n - 1 \in 0..n
    BY <2>1
  <2>5. ASSUME n # 2 PROVE n - 1 \in 2..n /\ n - 1 - 1 \in 1..n
    BY <2>1, <2>2, <2>5
  <2>6. QED
    BY <2>3, <2>4, <2>5
<1>2. ASSUME NEW n \in Nat, NEW k \in 1..n, k # 1 PROVE k - 1 \in 1..n
  <2>1. k - 1 \in Int /\ 1 <= k - 1 /\ k - 1 <= n
    BY <1>2
  <2>2. QED
    BY <2>1
<1>3. QED
  BY <1>1, <1>2

\* Induction up to a bound, for a set of numbers.
LEMMA IntervalInduction ==
  ASSUME NEW n \in Nat, NEW T, 0 \in T, \A i \in 1..n : i - 1 \in T => i \in T
  PROVE  0..n \subseteq T
<1> DEFINE Out == {i \in 0..n : i \notin T}
<1> SUFFICES ASSUME Out # {} PROVE FALSE
  OBVIOUS
<1>1. Out \subseteq Nat
  OBVIOUS
<1>2. PICK x \in Out : \A y \in Out : x <= y
  <2> HIDE DEF Out
  <2>1. QED
    BY <1>1, LeastNatural
<1>3. x \in 1..n /\ x - 1 \in 0..n
  OBVIOUS
<1>4. x - 1 \notin Out
  BY <1>2, <1>3
<1>5. QED
  BY <1>3, <1>4

\* A loop of n steps over S that begins with x: step gives the next value.
IsStep(step, S, n) == step \in [S \X (1..n) -> S]
IsLoop(f, step, x, S, n) ==
  f \in [0..n -> S] /\ f[0] = x /\ \A i \in 1..n : f[i] = step[<<f[i - 1], i>>]

\* The values of a loop exist, whatever it computes.
LEMMA LoopExists ==
  ASSUME NEW n \in Nat, NEW S, NEW x \in S, NEW step, IsStep(step, S, n)
  PROVE  \E f : IsLoop(f, step, x, S, n)
<1>0. step \in [S \X (1..n) -> S]
  BY DEF IsStep
<1> DEFINE Loop(m, f) == f \in [0..m -> S] /\ f[0] = x /\ \A i \in 1..m : f[i] = step[<<f[i - 1], i>>]
           T == {m \in 0..n : \E f : Loop(m, f)}
<1>1. 0 \in T
  <2>1. Loop(0, [i \in 0..0 |-> x])
    OBVIOUS
  <2>2. 0 \in 0..n
    OBVIOUS
  <2> HIDE DEF Loop
  <2>3. QED
    BY <2>1, <2>2
<1>2. ASSUME NEW m \in 1..n, m - 1 \in T PROVE m \in T
  <2>1. PICK f : Loop(m - 1, f)
    BY <1>2
  <2> DEFINE g == [i \in 0..m |-> IF i = m THEN step[<<f[m - 1], m>>] ELSE f[i]]
  <2>2. m - 1 \in 0..(m - 1) /\ f[m - 1] \in S
    BY <2>1
  <2>3. step[<<f[m - 1], m>>] \in S
    BY <1>0, <2>2
  <2>4. g \in [0..m -> S]
    <3>1. ASSUME NEW i \in 0..m, i # m PROVE i \in 0..(m - 1) /\ f[i] \in S
      BY <2>1, <3>1
    <3>2. QED
      BY <2>3, <3>1
  <2>5. g[0] = x
    BY <2>1
  <2>6. ASSUME NEW i \in 1..m PROVE g[i] = step[<<g[i - 1], i>>]
    <3>1. i - 1 \in 0..m /\ i - 1 # m /\ g[i - 1] = f[i - 1]
      OBVIOUS
    <3>2. CASE i = m
      BY <3>1, <3>2
    <3>3. CASE i # m
      <4>1. i \in 1..(m - 1)
        BY <3>3
      <4>2. QED
        BY <2>1, <3>1, <3>3, <4>1
    <3>4. QED
      BY <3>2, <3>3
  <2>7. Loop(m, g)
    <3> HIDE DEF g
    <3>1. QED
      BY <2>4, <2>5, <2>6
  <2>8. m \in 0..n
    OBVIOUS
  <2> HIDE DEF Loop, g
  <2>9. QED
    BY <2>7, <2>8
<1>3. 0..n \subseteq T
  <2> HIDE DEF T
  <2>1. QED
    BY <1>1, <1>2, IntervalInduction
<1>4. \E f : Loop(n, f)
  BY <1>3
<1>5. QED
  BY <1>4 DEF IsLoop

\* The remainder of a division is the one number below the divisor that is left.
LEMMA RemainderIs ==
  ASSUME NEW a \in Nat, NEW q \in Nat, NEW b \in Nat, NEW c \in Nat \ {0}, a = c * q + b, b < c
  PROVE  a % c = b
OBVIOUS

\* The remainder of a division.
LEMMA Remainder ==
  /\ \A a \in Nat, c \in Nat \ {0} : a % c \in 0..(c - 1)
  /\ \A a \in Nat, c \in Nat \ {0} : \E q \in Nat : a = c * q + (a % c)
<1>1. \A a \in Nat, c \in Nat \ {0} : a % c \in 0..(c - 1)
  OBVIOUS
<1>3. \A a \in Nat, c \in Nat \ {0} : \E q \in Nat : a = c * q + (a % c)
  <2>1. \A a \in Nat, c \in Nat \ {0} : a \div c \in Nat /\ a = c * (a \div c) + (a % c)
    OBVIOUS
  <2>2. QED
    BY <2>1
<1>4. QED
  BY <1>1, <1>3

\* Counting on from any number modulo c reaches every remainder within c steps.
LEMMA CyclesThrough ==
  ASSUME NEW h \in Nat, NEW c \in Nat \ {0}, NEW r \in 0..(c - 1)
  PROVE  \E d \in 0..(c - 1) : (h + d) % c = r
<1> DEFINE s == h % c
<1>1. s \in 0..(c - 1)
  BY Remainder
<1>2. PICK q \in Nat : h = c * q + s
  BY Remainder
<1> HIDE DEF s
<1>3. CASE r >= s
  <2>1. h + (r - s) = c * q + r /\ h + (r - s) \in Nat /\ r - s \in 0..(c - 1)
    BY <1>1, <1>2, <1>3
  <2> DEFINE a == h + (r - s)
  <2>2. a % c = r
    <3>1. a \in Nat /\ a = c * q + r /\ r \in Nat /\ r < c
      BY <2>1
    <3> HIDE DEF a
    <3>2. QED
      BY <3>1, RemainderIs
  <2>3. QED
    BY <2>1, <2>2
<1>4. CASE r < s
  <2>1. c * (q + 1) = c * q + c
    OBVIOUS
  <2>2. h + (r - s + c) = c * (q + 1) + r /\ h + (r - s + c) \in Nat /\ r - s + c \in 0..(c - 1)
    BY <1>1, <1>2, <1>4, <2>1
  <2> DEFINE a == h + (r - s + c)
  <2>3. a % c = r
    <3>1. a \in Nat /\ a = c * (q + 1) + r /\ r \in Nat /\ r < c /\ q + 1 \in Nat
      BY <2>2
    <3> HIDE DEF a
    <3>2. QED
      BY <3>1, RemainderIs
  <2>4. QED
    BY <2>2, <2>3
<1>5. QED
  BY <1>1, <1>3, <1>4

----------------------------------------------------------------------------
\* The first n elements of a sequence.
LEMMA PrefixOfSeq ==
  ASSUME NEW S, NEW s \in Seq(S), NEW n \in 0..Len(s)
  PROVE  /\ SubSeq(s, 1, n) \in Seq(S)
         /\ Len(SubSeq(s, 1, n)) = n
         /\ DOMAIN SubSeq(s, 1, n) = 1..n
         /\ \A i \in 1..n : SubSeq(s, 1, n)[i] = s[i]
<1>1. Len(s) \in Nat /\ \A i \in 1..n : s[i] \in S
  BY LenProperties
<1>2. SubSeq(s, 1, n) \in Seq(S) /\ Len(SubSeq(s, 1, n)) = n
  BY <1>1, SubSeqProperties
<1>3. \A i \in 1..n : SubSeq(s, 1, n)[i] = s[i]
  BY <1>1, SubSeqProperties
<1>4. QED
  BY <1>2, <1>3, LenProperties

\* A sequence whose elements are the first ones of another is a prefix of it.
LEMMA PrefixEqual ==
  ASSUME NEW S, NEW s \in Seq(S), NEW t \in Seq(S), Len(t) <= Len(s),
         \A i \in 1..Len(t) : t[i] = s[i]
  PROVE  t = SubSeq(s, 1, Len(t))
<1>1. Len(s) \in Nat /\ Len(t) \in Nat /\ Len(t) \in 0..Len(s)
  BY LenProperties
<1>2. QED
  BY <1>1, PrefixOfSeq, SeqEqual

\* Append, with its domain.
LEMMA AppendToSeq ==
  ASSUME NEW S, NEW s \in Seq(S), NEW e \in S
  PROVE  /\ Append(s, e) \in Seq(S)
         /\ Len(Append(s, e)) = Len(s) + 1
         /\ DOMAIN Append(s, e) = 1..(Len(s) + 1)
         /\ Append(s, e)[Len(s) + 1] = e
         /\ \A i \in 1..Len(s) : Append(s, e)[i] = s[i]
BY AppendProperties, LenProperties

\* Front and Last of a sequence that is not empty.
LEMMA FrontOfSeq ==
  ASSUME NEW S, NEW s \in Seq(S), s # <<>>
  PROVE  /\ Len(s) \in Nat \ {0}
         /\ Len(s) - 1 \in 0..Len(s)
         /\ Front(s) = SubSeq(s, 1, Len(s) - 1)
         /\ Last(s) = s[Len(s)]
         /\ Last(s) \in S
<1>1. Len(s) \in Nat \ {0}
  BY EmptySeq
<1>2. QED
  BY <1>1, ElementOfSeq DEF Front, Last

\* The members of a sequence.
LEMMA Members ==
  ASSUME NEW S, NEW s \in Seq(S)
  PROVE  \A x : x \in ToSet(s) <=> \E i \in 1..Len(s) : s[i] = x
BY LenProperties DEF ToSet

\* The whole of a sequence is a prefix of it.
LEMMA WholePrefix ==
  ASSUME NEW S, NEW s \in Seq(S)
  PROVE  SubSeq(s, 1, Len(s)) = s
<1>1. Len(s) \in Nat
  BY LenProperties
<1>2. QED
  BY <1>1, PrefixEqual

\* The tail of a sequence that is not empty.
LEMMA TailOfOne ==
  ASSUME NEW S, NEW s \in Seq(S), NEW n \in Nat, Len(s) = n + 1
  PROVE  /\ Tail(s) \in Seq(S) /\ Len(Tail(s)) = n
         /\ \A i \in 1..n : Tail(s)[i] = s[i + 1]
         /\ n = 0 => Tail(s) = <<>>
<1>1. s # <<>>
  BY EmptySeq
<1>2. Tail(s) \in Seq(S) /\ Len(Tail(s)) = Len(s) - 1
      /\ \A i \in 1..Len(Tail(s)) : Tail(s)[i] = s[i + 1]
  BY <1>1, HeadTailProperties
<1>3. Len(s) - 1 = n
  OBVIOUS
<1>4. n = 0 => Tail(s) = <<>>
  BY <1>2, <1>3, EmptySeq
<1>5. QED
  BY <1>2, <1>3, <1>4

\* The tail of a sequence, with one more element and with one less.
LEMMA TailOfSeq ==
  ASSUME NEW S, NEW r \in Seq(S), Len(r) \in Nat \ {0}
  PROVE  /\ Tail(r) = <<>> <=> Len(r) = 1
         /\ Len(r) # 1 => Last(Tail(r)) = r[Len(r)]
         /\ Len(r) # 1 => Tail(SubSeq(r, 1, Len(r) - 1)) = Front(Tail(r))
         /\ Tail(SubSeq(r, 1, 1)) = <<>>
         /\ \A e \in S : Tail(Append(r, e)) = Append(Tail(r), e)
<1> DEFINE n == Len(r)
           t == Tail(r)
<1>1. n \in Nat \ {0} /\ r # <<>> /\ 1 \in 0..n
  BY EmptySeq
<1>2. t \in Seq(S) /\ Len(t) = n - 1 /\ \A i \in 1..(n - 1) : t[i] = r[i + 1]
  BY <1>1, HeadTailProperties
<1> HIDE DEF t
<1>3. t = <<>> <=> n = 1
  <2>1. t = <<>> <=> Len(t) = 0
    BY <1>2, EmptySeq
  <2>2. QED
    BY <1>1, <1>2, <2>1
<1>4. Tail(SubSeq(r, 1, 1)) = <<>>
  <2> DEFINE q == SubSeq(r, 1, 1)
  <2>1. q \in Seq(S) /\ Len(q) = 1
    BY <1>1, PrefixOfSeq
  <2> HIDE DEF q
  <2>2. Len(q) = 0 + 1
    BY <2>1
  <2>3. Tail(q) = <<>>
    BY <2>1, <2>2, TailOfOne
  <2>4. QED
    BY <2>3 DEF q
<1>5. ASSUME NEW e \in S PROVE Tail(Append(r, e)) = Append(t, e)
  <2> DEFINE q == Append(r, e)
             u == Append(t, e)
  <2>1. q \in Seq(S) /\ Len(q) = n + 1 /\ q[n + 1] = e /\ \A i \in 1..n : q[i] = r[i]
    BY AppendToSeq
  <2>2. u \in Seq(S) /\ Len(u) = n - 1 + 1 /\ u[n - 1 + 1] = e
        /\ \A i \in 1..(n - 1) : u[i] = t[i]
    BY <1>2, AppendToSeq
  <2> HIDE DEF q, u, n
  <2>3. n \in Nat /\ n - 1 + 1 = n
    BY <1>1
  <2>4. Tail(q) \in Seq(S) /\ Len(Tail(q)) = n /\ \A i \in 1..n : Tail(q)[i] = q[i + 1]
    BY <2>1, <2>3, TailOfOne
  <2>5. n - 1 + 1 = n
    BY <2>3
  <2>6. ASSUME NEW i \in 1..n PROVE Tail(q)[i] = u[i]
    <3>1. CASE i = n
      BY <2>1, <2>2, <2>4, <2>5, <3>1
    <3>2. CASE i # n
      <4>1. i \in 1..(n - 1) /\ i + 1 \in 1..n
        BY <1>1, <3>2
      <4>2. Tail(q)[i] = r[i + 1]
        BY <2>1, <2>4, <2>5, <4>1
      <4>3. QED
        BY <1>2, <2>2, <4>1, <4>2 DEF n
    <3>3. QED
      BY <3>1, <3>2
  <2>7. Tail(q) = u
    BY <2>2, <2>4, <2>5, <2>6, SeqEqual
  <2>8. QED
    BY <2>7 DEF q, u
<1>6. ASSUME n # 1 PROVE Last(t) = r[n] /\ Tail(SubSeq(r, 1, n - 1)) = Front(t)
  <2> DEFINE q == SubSeq(r, 1, n - 1)
             u == SubSeq(t, 1, Len(t) - 1)
  <2>1. n - 1 \in 1..n /\ n - 1 \in 0..n /\ n - 1 \in 1..(n - 1) /\ n - 1 + 1 = n
        /\ n - 1 - 1 \in 0..(n - 1) /\ n - 1 \in Nat \ {0}
        /\ \A i \in 1..(n - 1 - 1) : i \in 1..(n - 1) /\ i + 1 \in 1..(n - 1)
    <3> HIDE DEF n
    <3>1. n \in Int /\ 2 <= n
      BY <1>1, <1>6
    <3>2. /\ n - 1 \in Int /\ 1 <= n - 1 /\ n - 1 <= n /\ n - 1 + 1 = n
          /\ n - 1 - 1 \in Int /\ 0 <= n - 1 - 1 /\ n - 1 - 1 <= n - 1
      BY <3>1
    <3>3. ASSUME NEW i \in 1..(n - 1 - 1) PROVE i \in 1..(n - 1) /\ i + 1 \in 1..(n - 1)
      <4>1. i \in Int /\ 1 <= i /\ i <= n - 1 - 1
        BY <3>2
      <4>2. i <= n - 1 /\ i + 1 \in Int /\ 1 <= i + 1 /\ i + 1 <= n - 1
        BY <3>1, <4>1
      <4>3. QED
        BY <3>2, <4>1, <4>2
    <3>4. QED
      BY <3>2, <3>3
  <2>2. t # <<>>
    BY <1>3, <1>6
  <2> HIDE DEF n
  <2>3. Last(t) = t[n - 1] /\ Front(t) = u
    BY <1>2, <2>2, FrontOfSeq
  <2>4. Last(t) = r[n]
    BY <1>2, <2>1, <2>3
  <2>5. q \in Seq(S) /\ Len(q) = n - 1 /\ \A i \in 1..(n - 1) : q[i] = r[i]
    BY <2>1, PrefixOfSeq DEF n
  <2>6. u \in Seq(S) /\ Len(u) = n - 1 - 1 /\ \A i \in 1..(n - 1 - 1) : u[i] = t[i]
    BY <1>2, <2>1, PrefixOfSeq
  <2> HIDE DEF q, u
  <2>7. n - 1 - 1 \in Nat /\ n - 1 = n - 1 - 1 + 1
    BY <1>1, <2>1
  <2>8. Tail(q) \in Seq(S) /\ Len(Tail(q)) = n - 1 - 1
        /\ \A i \in 1..(n - 1 - 1) : Tail(q)[i] = q[i + 1]
    BY <2>5, <2>7, TailOfOne
  <2>9. \A i \in 1..(n - 1 - 1) : Tail(q)[i] = u[i]
    BY <1>2, <2>1, <2>5, <2>6, <2>8
  <2>10. Tail(q) = u
    BY <2>6, <2>8, <2>9, SeqEqual
  <2>11. QED
    BY <2>3, <2>4, <2>10 DEF q
<1>7. QED
  BY <1>3, <1>4, <1>5, <1>6 DEF t
============================================================================
