-------------------------- MODULE ExceptionsProofs --------------------------
(***************************************************************************)
(* Proofs about Exceptions: the stack of handlers is the nesting of the    *)
(* try statements around the current instruction, no way out of a try goes *)
(* past its finally clause, and the slot for the pending exception is that *)
(* of the innermost finally clause an exception led into until an except   *)
(* clause takes it, for every nesting depth and every set of exceptions.   *)
(***************************************************************************)
EXTENDS Exceptions, DataLemmas

----------------------------------------------------------------------------
(* Types. *)

RegionSet ==
  [kind : {"fn", "loop", "try", "except", "finally"}, exc : BOOLEAN, fin : BOOLEAN,
   cause : Exceptions \cup {NoException}]

HandlerSet ==
  [frame : Nat, exc : BOOLEAN, fin : BOOLEAN, inExcept : BOOLEAN, at : Seq(RegionSet)]

Typed ==
  /\ regions \in Seq(RegionSet)
  /\ handlers \in Seq(HandlerSet)
  /\ hasException \in BOOLEAN
  /\ exception \in Exceptions \cup {NoException}
  /\ hasException => exception \in Exceptions

\* The program is in a function until it has ended.
InFunction ==
  IF Running THEN regions # <<>> /\ regions[1].kind = "fn" ELSE regions = <<>>

----------------------------------------------------------------------------
(* The nesting, for any regions rs and handlers hs.                        *)

FnCount(rs) == Cardinality({i \in DOMAIN rs : rs[i].kind = "fn"})

\* Handler h guards the statement behind its place in rs.
Guards(h, rs) ==
  LET p == Len(h.at) IN
  /\ p < Len(rs)
  /\ \A i \in 1..p : h.at[i] = rs[i]
  /\ rs[p + 1].kind = IF h.inExcept THEN "except" ELSE "try"
  /\ rs[p + 1].exc = h.exc /\ rs[p + 1].fin = h.fin
  /\ h.frame = FnCount(h.at)

Nested(rs, hs) ==
  /\ \A k \in 1..Len(hs) : Guards(hs[k], rs)
  /\ \A j, k \in 1..Len(hs) : j < k => Len(hs[j].at) < Len(hs[k].at)
  /\ \A i \in 1..Len(rs) :
       rs[i].kind \in {"try", "except"} => \E k \in 1..Len(hs) : i = Len(hs[k].at) + 1

NestInv == Typed /\ InFunction /\ Nested(regions, handlers)

\* The fields of a region and of a handler.
LEMMA RegionFields ==
  /\ \A r \in RegionSet :
       /\ r.kind \in {"fn", "loop", "try", "except", "finally"}
       /\ r.exc \in BOOLEAN /\ r.fin \in BOOLEAN /\ r.cause \in Exceptions \cup {NoException}
  /\ \A h \in HandlerSet :
       /\ h.frame \in Nat /\ h.exc \in BOOLEAN /\ h.fin \in BOOLEAN /\ h.inExcept \in BOOLEAN
       /\ h.at \in Seq(RegionSet) /\ Len(h.at) \in Nat
BY LenProperties DEF RegionSet, HandlerSet

\* What the invariant says of a handler in place k of the stack.
LEMMA HandlerAt ==
  ASSUME NEW rs \in Seq(RegionSet), NEW hs \in Seq(HandlerSet), Nested(rs, hs),
         NEW k \in 1..Len(hs)
  PROVE  /\ hs[k] \in HandlerSet /\ hs[k].at \in Seq(RegionSet)
         /\ Len(hs[k].at) \in 0..(Len(rs) - 1) /\ Len(rs) \in Nat
         /\ hs[k].at = SubSeq(rs, 1, Len(hs[k].at))
         /\ Guards(hs[k], rs)
<1>1. hs[k] \in HandlerSet /\ Len(rs) \in Nat
  BY ElementOfSeq, LenProperties
<1>2. hs[k].at \in Seq(RegionSet) /\ Len(hs[k].at) \in Nat
  BY <1>1, RegionFields
<1>3. Guards(hs[k], rs)
  BY DEF Nested
<1>4. Len(hs[k].at) < Len(rs) /\ \A i \in 1..Len(hs[k].at) : hs[k].at[i] = rs[i]
  BY <1>3 DEF Guards
<1>5. hs[k].at = SubSeq(rs, 1, Len(hs[k].at))
  BY <1>1, <1>2, <1>4, PrefixEqual
<1>6. QED
  BY <1>1, <1>2, <1>3, <1>4, <1>5

\* Cutting off regions together with the handlers for them.
LEMMA NestedCut ==
  ASSUME NEW rs \in Seq(RegionSet), NEW hs \in Seq(HandlerSet), Nested(rs, hs),
         NEW n \in 0..Len(rs), NEW m \in 0..Len(hs),
         \A k \in 1..m : Len(hs[k].at) < n,
         \A k \in (m + 1)..Len(hs) : n <= Len(hs[k].at)
  PROVE  Nested(SubSeq(rs, 1, n), SubSeq(hs, 1, m))
<1> DEFINE r == SubSeq(rs, 1, n)
           h == SubSeq(hs, 1, m)
<1>1. /\ r \in Seq(RegionSet) /\ Len(r) = n /\ \A i \in 1..n : r[i] = rs[i]
      /\ h \in Seq(HandlerSet) /\ Len(h) = m /\ \A k \in 1..m : h[k] = hs[k]
  BY PrefixOfSeq
<1>2. Len(rs) \in Nat /\ Len(hs) \in Nat
  BY LenProperties
<1> HIDE DEF r, h
<1>3. ASSUME NEW k \in 1..m PROVE Guards(hs[k], r)
  <2>1. k \in 1..Len(hs)
    BY <1>2
  <2>2. Guards(hs[k], rs) /\ Len(hs[k].at) \in Nat /\ Len(hs[k].at) < n
    BY <2>1, HandlerAt
  <2>3. r[Len(hs[k].at) + 1] = rs[Len(hs[k].at) + 1] /\ \A i \in 1..Len(hs[k].at) : r[i] = rs[i]
    BY <1>1, <1>2, <2>2
  <2>4. QED
    BY <1>1, <2>2, <2>3 DEF Guards
<1>4. ASSUME NEW j \in 1..m, NEW k \in 1..m, j < k PROVE Len(hs[j].at) < Len(hs[k].at)
  <2>1. j \in 1..Len(hs) /\ k \in 1..Len(hs)
    BY <1>2
  <2>2. QED
    BY <1>4, <2>1 DEF Nested
<1>5. ASSUME NEW i \in 1..n, r[i].kind \in {"try", "except"}
      PROVE  \E k \in 1..m : i = Len(hs[k].at) + 1
  <2>1. i \in 1..Len(rs) /\ r[i] = rs[i]
    <3>1. n \in Nat /\ n <= Len(rs)
      BY <1>2
    <3>2. i \in 1..Len(rs)
      BY <1>2, <3>1
    <3>3. r[i] = rs[i]
      BY <1>1
    <3>4. QED
      BY <3>2, <3>3
  <2>2. PICK k \in 1..Len(hs) : i = Len(hs[k].at) + 1
    BY <1>5, <2>1 DEF Nested
  <2>3. Len(hs[k].at) \in Nat
    BY HandlerAt
  <2>4. k \in 1..m
    BY <1>2, <2>2, <2>3
  <2>5. QED
    BY <2>2, <2>4
<1>6. QED
  BY <1>1, <1>3, <1>4, <1>5 DEF Nested, r, h

\* A new region that no handler is for.
LEMMA NestedGrow ==
  ASSUME NEW rs \in Seq(RegionSet), NEW hs \in Seq(HandlerSet), Nested(rs, hs),
         NEW x \in RegionSet, x.kind \notin {"try", "except"}
  PROVE  Nested(Append(rs, x), hs)
<1> DEFINE r == Append(rs, x)
<1>1. /\ r \in Seq(RegionSet) /\ Len(r) = Len(rs) + 1 /\ Len(rs) \in Nat
      /\ r[Len(rs) + 1] = x /\ \A i \in 1..Len(rs) : r[i] = rs[i]
  BY AppendToSeq, LenProperties
<1> HIDE DEF r
<1>2. ASSUME NEW k \in 1..Len(hs) PROVE Guards(hs[k], r)
  <2>1. Guards(hs[k], rs) /\ Len(hs[k].at) \in 0..(Len(rs) - 1)
    BY HandlerAt
  <2>2. r[Len(hs[k].at) + 1] = rs[Len(hs[k].at) + 1] /\ \A i \in 1..Len(hs[k].at) : r[i] = rs[i]
    BY <1>1, <2>1
  <2>3. QED
    BY <1>1, <2>1, <2>2 DEF Guards
<1>3. ASSUME NEW i \in 1..Len(r), r[i].kind \in {"try", "except"}
      PROVE  \E k \in 1..Len(hs) : i = Len(hs[k].at) + 1
  <2>1. i \in 1..Len(rs) /\ rs[i].kind \in {"try", "except"}
    BY <1>1, <1>3
  <2>2. QED
    BY <2>1 DEF Nested
<1>4. QED
  BY <1>2, <1>3 DEF Nested, r

\* A new statement with its handler.
LEMMA NestedTry ==
  ASSUME NEW rs \in Seq(RegionSet), NEW hs \in Seq(HandlerSet), Nested(rs, hs),
         NEW x \in RegionSet, NEW h \in HandlerSet,
         h.at = rs, h.frame = FnCount(rs), h.exc = x.exc, h.fin = x.fin,
         x.kind = IF h.inExcept THEN "except" ELSE "try"
  PROVE  Nested(Append(rs, x), Append(hs, h))
<1> DEFINE r == Append(rs, x)
           g == Append(hs, h)
<1>1. /\ r \in Seq(RegionSet) /\ Len(r) = Len(rs) + 1 /\ Len(rs) \in Nat
      /\ r[Len(rs) + 1] = x /\ \A i \in 1..Len(rs) : r[i] = rs[i]
  BY AppendToSeq, LenProperties
<1>2. /\ Len(g) = Len(hs) + 1 /\ Len(hs) \in Nat
      /\ g[Len(hs) + 1] = h /\ \A k \in 1..Len(hs) : g[k] = hs[k]
  BY AppendToSeq, LenProperties
<1> HIDE DEF r, g
<1>3. ASSUME NEW k \in 1..Len(g) PROVE Guards(g[k], r)
  <2>1. CASE k = Len(hs) + 1
    <3>1. g[k] = h
      BY <1>2, <2>1
    <3>2. Guards(h, r)
      BY <1>1 DEF Guards
    <3>3. QED
      BY <3>1, <3>2
  <2>2. CASE k \in 1..Len(hs)
    <3>1. Guards(hs[k], rs) /\ Len(hs[k].at) \in 0..(Len(rs) - 1) /\ g[k] = hs[k]
      BY <1>2, <2>2, HandlerAt
    <3>2. Len(hs[k].at) + 1 \in 1..Len(rs) /\ \A i \in 1..Len(hs[k].at) : i \in 1..Len(rs)
      BY <1>1, <3>1
    <3>3. r[Len(hs[k].at) + 1] = rs[Len(hs[k].at) + 1]
          /\ \A i \in 1..Len(hs[k].at) : r[i] = rs[i]
      BY <1>1, <3>2
    <3>4. QED
      BY <1>1, <3>1, <3>3 DEF Guards
  <2>3. QED
    BY <1>2, <2>1, <2>2
<1>4. ASSUME NEW j \in 1..Len(g), NEW k \in 1..Len(g), j < k
      PROVE  Len(g[j].at) < Len(g[k].at)
  <2>1. j \in 1..Len(hs) /\ g[j] = hs[j] /\ Len(hs[j].at) \in 0..(Len(rs) - 1)
    BY <1>2, <1>4, HandlerAt
  <2>2. CASE k = Len(hs) + 1
    BY <1>1, <1>2, <2>1, <2>2
  <2>3. CASE k \in 1..Len(hs)
    BY <1>2, <1>4, <2>1, <2>3 DEF Nested
  <2>4. QED
    BY <1>2, <2>2, <2>3
<1>5. ASSUME NEW i \in 1..Len(r), r[i].kind \in {"try", "except"}
      PROVE  \E k \in 1..Len(g) : i = Len(g[k].at) + 1
  <2>1. CASE i = Len(rs) + 1
    <3>1. Len(hs) + 1 \in 1..Len(g) /\ i = Len(g[Len(hs) + 1].at) + 1
      BY <1>2, <2>1
    <3>2. QED
      BY <3>1
  <2>2. CASE i \in 1..Len(rs)
    <3>1. PICK k \in 1..Len(hs) : i = Len(hs[k].at) + 1
      BY <1>1, <1>5, <2>2 DEF Nested
    <3>2. k \in 1..Len(g) /\ g[k] = hs[k]
      BY <1>2
    <3>3. QED
      BY <3>1, <3>2
  <2>3. QED
    BY <1>1, <2>1, <2>2
<1>6. QED
  BY <1>3, <1>4, <1>5 DEF Nested, r, g

----------------------------------------------------------------------------
(* Frames. *)

FnsUpTo(rs, p) == {i \in 1..p : rs[i].kind = "fn"}

\* The functions among the first regions, counted.
LEMMA FnCountOfPrefix ==
  ASSUME NEW rs \in Seq(RegionSet), NEW p \in 0..Len(rs)
  PROVE  /\ FnCount(SubSeq(rs, 1, p)) = Cardinality(FnsUpTo(rs, p))
         /\ IsFiniteSet(FnsUpTo(rs, p)) /\ Cardinality(FnsUpTo(rs, p)) \in Nat
<1>1. Len(rs) \in Nat /\ p \in Nat
  BY LenProperties
<1>2. IsFiniteSet(1..p)
  BY <1>1, FS_Interval
<1>3. IsFiniteSet(FnsUpTo(rs, p)) /\ Cardinality(FnsUpTo(rs, p)) \in Nat
  BY <1>2, FS_Subset, FS_CardinalityType DEF FnsUpTo
<1>4. DOMAIN SubSeq(rs, 1, p) = 1..p /\ \A i \in 1..p : SubSeq(rs, 1, p)[i] = rs[i]
  BY PrefixOfSeq
<1>5. {i \in DOMAIN SubSeq(rs, 1, p) : SubSeq(rs, 1, p)[i].kind = "fn"} = FnsUpTo(rs, p)
  BY <1>4 DEF FnsUpTo
<1>6. QED
  BY <1>3, <1>5 DEF FnCount

\* The prefixes with fewer functions are those that end before the last one.
LEMMA FewerFunctions ==
  ASSUME NEW rs \in Seq(RegionSet), NEW p \in 0..Len(rs), NEW f \in 1..Len(rs),
         rs[f].kind = "fn", \A i \in 1..Len(rs) : rs[i].kind = "fn" => i <= f
  PROVE  FnCount(SubSeq(rs, 1, p)) < FnCount(rs) <=> p < f
<1>1. Len(rs) \in Nat /\ p \in Nat /\ Len(rs) \in 0..Len(rs)
  BY LenProperties
<1>2. rs = SubSeq(rs, 1, Len(rs))
  BY <1>1, PrefixEqual
<1>3. /\ FnCount(SubSeq(rs, 1, p)) = Cardinality(FnsUpTo(rs, p))
      /\ FnCount(rs) = Cardinality(FnsUpTo(rs, Len(rs)))
      /\ IsFiniteSet(FnsUpTo(rs, Len(rs)))
      /\ Cardinality(FnsUpTo(rs, p)) \in Nat /\ Cardinality(FnsUpTo(rs, Len(rs))) \in Nat
  BY <1>1, <1>2, FnCountOfPrefix
<1>4. FnsUpTo(rs, p) \subseteq FnsUpTo(rs, Len(rs))
  BY <1>1 DEF FnsUpTo
<1>5. CASE p < f
  <2>1. f \in FnsUpTo(rs, Len(rs)) /\ f \notin FnsUpTo(rs, p)
    BY <1>1, <1>5 DEF FnsUpTo
  <2>2. /\ Cardinality(FnsUpTo(rs, p)) <= Cardinality(FnsUpTo(rs, Len(rs)))
        /\ Cardinality(FnsUpTo(rs, Len(rs))) # Cardinality(FnsUpTo(rs, p))
    BY <1>3, <1>4, <2>1, FS_Subset
  <2>3. QED
    BY <1>3, <1>5, <2>2
<1>6. CASE ~(p < f)
  <2>1. FnsUpTo(rs, Len(rs)) = FnsUpTo(rs, p)
    BY <1>1, <1>4, <1>6 DEF FnsUpTo
  <2>2. QED
    BY <1>3, <1>6, <2>1
<1>7. QED
  BY <1>5, <1>6

\* discard_handlers_for_frame_return keeps the handlers of the callers.
LEMMA KeptAreCallers ==
  ASSUME NestInv, Running, NEW f \in 1..Len(regions), regions[f].kind = "fn",
         \A i \in 1..Len(regions) : regions[i].kind = "fn" => i <= f
  PROVE  \E m \in 0..Len(handlers) :
           /\ KeptHandlers = SubSeq(handlers, 1, m)
           /\ \A k \in 1..m : Len(handlers[k].at) < f - 1
           /\ \A k \in (m + 1)..Len(handlers) : f - 1 <= Len(handlers[k].at)
<1> DEFINE callers == {k \in DOMAIN handlers : handlers[k].frame < FrameCount}
           m == Max({0} \cup callers)
<1>1. /\ regions \in Seq(RegionSet) /\ handlers \in Seq(HandlerSet) /\ Nested(regions, handlers)
      /\ Len(regions) \in Nat /\ Len(handlers) \in Nat /\ DOMAIN handlers = 1..Len(handlers)
  BY LenProperties DEF NestInv, Typed
<1>2. m \in {0} \cup callers /\ \A k \in {0} \cup callers : k <= m
  <2>1. {0} \cup callers \subseteq 0..Len(handlers) /\ {0} \cup callers # {}
    BY <1>1
  <2> HIDE DEF callers
  <2>2. QED
    BY <1>1, <2>1, MaxOfNaturals
<1>3. KeptHandlers = SubSeq(handlers, 1, m)
  BY DEF KeptHandlers
<1>4. FrameCount = FnCount(regions)
  BY DEF FrameCount, FnCount
<1>5. ASSUME NEW k \in 1..Len(handlers)
      PROVE  /\ k \in callers <=> Len(handlers[k].at) < f
             /\ Len(handlers[k].at) \in Nat /\ Len(handlers[k].at) # f - 1
  <2>1. /\ handlers[k].at = SubSeq(regions, 1, Len(handlers[k].at))
        /\ Len(handlers[k].at) \in 0..(Len(regions) - 1) /\ Guards(handlers[k], regions)
    BY <1>1, HandlerAt
  <2>2. handlers[k].frame = FnCount(handlers[k].at)
    BY <2>1 DEF Guards
  <2>3. Len(handlers[k].at) \in 0..Len(regions)
    BY <1>1, <2>1
  <2>4. FnCount(SubSeq(regions, 1, Len(handlers[k].at))) < FnCount(regions)
          <=> Len(handlers[k].at) < f
    BY <1>1, <2>3, FewerFunctions
  <2>5. k \in callers <=> Len(handlers[k].at) < f
    BY <1>1, <1>4, <2>1, <2>2, <2>4
  <2>6. regions[Len(handlers[k].at) + 1].kind \in {"try", "except"}
    BY <2>1 DEF Guards
  <2>7. Len(handlers[k].at) # f - 1
    BY <2>1, <2>6
  <2>8. QED
    BY <2>1, <2>5, <2>7
<1>6. callers \subseteq 1..Len(handlers)
  BY <1>1
<1> HIDE DEF callers, m
<1>7. m \in 0..Len(handlers)
  BY <1>1, <1>2, <1>6
<1>8. ASSUME NEW k \in 1..m PROVE Len(handlers[k].at) < f - 1
  <2>1. m \in callers /\ m \in 1..Len(handlers) /\ k \in 1..Len(handlers)
    BY <1>1, <1>2, <1>6, <1>7
  <2>2. Len(handlers[m].at) < f - 1 /\ Len(handlers[m].at) \in Nat /\ Len(handlers[k].at) \in Nat
    BY <1>5, <2>1
  <2>3. CASE k = m
    BY <2>2, <2>3
  <2>4. CASE k < m
    <3>1. Len(handlers[k].at) < Len(handlers[m].at)
      BY <1>1, <2>1, <2>4 DEF Nested
    <3>2. QED
      BY <2>2, <3>1
  <2>5. QED
    BY <1>7, <2>3, <2>4
<1>9. ASSUME NEW k \in (m + 1)..Len(handlers) PROVE f - 1 <= Len(handlers[k].at)
  <2>1. k \in 1..Len(handlers) /\ k \notin callers
    BY <1>1, <1>2, <1>7
  <2>2. QED
    BY <1>5, <2>1
<1>10. QED
  BY <1>3, <1>7, <1>8, <1>9

----------------------------------------------------------------------------
(* The steps keep the nesting. *)

Fns == {i \in DOMAIN regions : regions[i].kind = "fn"}

\* The innermost function.
LEMMA InnermostFunction ==
  ASSUME NestInv, Running
  PROVE  /\ Max(Fns) \in 1..Len(regions) /\ regions[Max(Fns)].kind = "fn"
         /\ \A i \in 1..Len(regions) : regions[i].kind = "fn" => i <= Max(Fns)
         /\ Len(regions) \in Nat \ {0} /\ DOMAIN regions = 1..Len(regions)
<1>1. /\ regions \in Seq(RegionSet) /\ regions # <<>> /\ regions[1].kind = "fn"
      /\ Len(regions) \in Nat \ {0} /\ DOMAIN regions = 1..Len(regions)
  BY EmptySeq, LenProperties DEF NestInv, Typed, InFunction
<1>2. Fns \subseteq 0..Len(regions) /\ Fns # {}
  BY <1>1 DEF Fns
<1>3. Max(Fns) \in Fns /\ \A i \in Fns : i <= Max(Fns)
  BY <1>1, <1>2, MaxOfNaturals
<1>4. QED
  BY <1>1, <1>3 DEF Fns

\* The regions are cut or grow behind the first function, which is still running.
LEMMA StaysInFunction ==
  ASSUME NestInv, Running, UNCHANGED ended, regions' \in Seq(RegionSet), Len(regions') >= 1,
         regions'[1] = regions[1]
  PROVE  InFunction'
<1>1. regions' # <<>>
  BY EmptySeq
<1>2. QED
  BY <1>1 DEF NestInv, InFunction, Running

LEMMA EnterKeeps ==
  ASSUME NestInv, NEW kind \in {"fn", "loop"}, Enter(kind)
  PROVE  NestInv'
<1>1. /\ regions \in Seq(RegionSet) /\ handlers \in Seq(HandlerSet) /\ Nested(regions, handlers)
      /\ Len(regions) \in Nat \ {0}
  BY InnermostFunction DEF NestInv, Typed, Enter
<1>2. Plain(kind) \in RegionSet /\ Plain(kind).kind \notin {"try", "except"}
  BY DEF Plain, Region, RegionSet
<1>3. /\ regions' \in Seq(RegionSet) /\ Len(regions') >= 1 /\ regions'[1] = regions[1]
      /\ Nested(regions', handlers')
  BY <1>1, <1>2, AppendToSeq, NestedGrow DEF Enter
<1>4. InFunction'
  BY <1>3, StaysInFunction DEF Enter
<1>5. QED
  BY <1>1, <1>3, <1>4 DEF NestInv, Typed, Enter

LEMMA ReturnKeeps ==
  ASSUME NestInv, Return
  PROVE  NestInv'
<1> DEFINE f == Max(Fns)
<1>1. /\ regions \in Seq(RegionSet) /\ handlers \in Seq(HandlerSet) /\ Nested(regions, handlers)
      /\ Running /\ f \in 1..Len(regions) /\ Len(regions) \in Nat \ {0}
  BY InnermostFunction DEF NestInv, Typed, Return
<1>2. PICK m \in 0..Len(handlers) :
        /\ KeptHandlers = SubSeq(handlers, 1, m)
        /\ \A k \in 1..m : Len(handlers[k].at) < f - 1
        /\ \A k \in (m + 1)..Len(handlers) : f - 1 <= Len(handlers[k].at)
  BY <1>1, InnermostFunction, KeptAreCallers
<1>3. /\ regions' = SubSeq(regions, 1, f - 1) /\ handlers' = SubSeq(handlers, 1, m)
      /\ ended' = IF f = 1 THEN "ok" ELSE ended
  BY <1>1, <1>2 DEF Return, Fns
<1>4. f - 1 \in 0..Len(regions)
  BY <1>1
<1> HIDE DEF f
<1>5. /\ regions' \in Seq(RegionSet) /\ Len(regions') = f - 1 /\ handlers' \in Seq(HandlerSet)
      /\ \A i \in 1..(f - 1) : regions'[i] = regions[i]
  BY <1>1, <1>3, <1>4, PrefixOfSeq
<1>6. Nested(regions', handlers')
  BY <1>1, <1>2, <1>3, <1>4, NestedCut
<1>7. CASE f = 1
  <2>1. regions' = <<>>
    BY <1>5, <1>7, EmptySeq
  <2>2. ended' # "no"
    BY <1>3, <1>7
  <2>3. QED
    BY <1>5, <1>6, <2>1, <2>2 DEF NestInv, Typed, InFunction, Running, Return
<1>8. CASE f # 1
  <2>1. InFunction'
    BY <1>1, <1>3, <1>5, <1>8, StaysInFunction
  <2>2. QED
    BY <1>5, <1>6, <2>1 DEF NestInv, Typed, Return
<1>9. QED
  BY <1>7, <1>8

\* Regions that no handler is for are cut off the end.
LEMMA CutKeeps ==
  ASSUME NestInv, Running, NEW n \in 1..Len(regions),
         \A i \in (n + 1)..Len(regions) : regions[i].kind \notin {"try", "except"},
         regions' = SubSeq(regions, 1, n),
         UNCHANGED <<handlers, hasException, exception, ended>>
  PROVE  NestInv'
<1>1. /\ regions \in Seq(RegionSet) /\ handlers \in Seq(HandlerSet) /\ Nested(regions, handlers)
      /\ Len(regions) \in Nat \ {0} /\ Len(handlers) \in Nat
  BY InnermostFunction, LenProperties DEF NestInv, Typed
<1>2. ASSUME NEW k \in 1..Len(handlers) PROVE Len(handlers[k].at) < n
  <2>1. /\ Guards(handlers[k], regions) /\ Len(handlers[k].at) \in 0..(Len(regions) - 1)
    BY <1>1, HandlerAt
  <2>2. regions[Len(handlers[k].at) + 1].kind \in {"try", "except"}
    BY <2>1 DEF Guards
  <2>3. QED
    BY <1>1, <2>1, <2>2
<1>3. n \in 0..Len(regions) /\ Len(handlers) \in 0..Len(handlers)
  BY <1>1
<1>4. handlers = SubSeq(handlers, 1, Len(handlers))
  BY <1>1, PrefixEqual
<1>5. Nested(SubSeq(regions, 1, n), SubSeq(handlers, 1, Len(handlers)))
  <2>1. \A k \in (Len(handlers) + 1)..Len(handlers) : n <= Len(handlers[k].at)
    BY <1>1
  <2>2. QED
    BY <1>1, <1>2, <1>3, <2>1, NestedCut
<1>6. /\ regions' \in Seq(RegionSet) /\ Len(regions') >= 1 /\ regions'[1] = regions[1]
  BY <1>1, <1>3, PrefixOfSeq
<1>7. InFunction'
  BY <1>6, StaysInFunction
<1>8. QED
  BY <1>1, <1>4, <1>5, <1>6, <1>7 DEF NestInv, Typed

\* Where Return, Jump, EndLoop and EndFinally cut the regions off.
LEMMA CutOfReturn ==
  ASSUME NestInv, "returnOut" \notin Habits, Return
  PROVE  \E n \in 0..Len(regions) :
           /\ regions' = SubSeq(regions, 1, n)
           /\ n + 1 \in 1..Len(regions) /\ regions[n + 1].kind = "fn"
           /\ \A i \in (n + 2)..Len(regions) : regions[i].kind \notin Clauses
<1> DEFINE f == Max(Fns)
<1>1. /\ f \in 1..Len(regions) /\ regions[f].kind = "fn" /\ Len(regions) \in Nat \ {0}
  BY InnermostFunction DEF Return
<1>2. regions' = SubSeq(regions, 1, f - 1) /\ MayReturnTo(f - 1 + 1)
  BY DEF Return, Fns
<1> HIDE DEF f
<1>3. /\ f - 1 \in 0..Len(regions) /\ f - 1 + 1 = f /\ f - 1 + 2 = f + 1
  BY <1>1
<1>4. \A i \in (f + 1)..Len(regions) : regions[i].kind \notin Clauses
  BY <1>2, <1>3 DEF MayReturnTo, LeavesTry
<1>5. QED
  BY <1>1, <1>2, <1>3, <1>4

LEMMA CutOfJump ==
  ASSUME NestInv, "jumpOut" \notin Habits, NEW breaks \in BOOLEAN, Jump(breaks)
  PROVE  \E n \in 1..Len(regions) :
           /\ regions' = SubSeq(regions, 1, n)
           /\ \A i \in (n + 1)..Len(regions) : regions[i].kind \notin Clauses
<1> DEFINE fn == Max(Fns)
           loops == {i \in (fn + 1)..Len(regions) : regions[i].kind = "loop"}
           n == IF breaks THEN Max(loops) - 1 ELSE Max(loops)
<1>1. fn \in 1..Len(regions) /\ Len(regions) \in Nat \ {0}
  BY InnermostFunction DEF Jump
<1>2. loops # {} /\ MayJumpTo(Max(loops)) /\ regions' = SubSeq(regions, 1, n)
  BY DEF Jump, Fns
<1>3. loops \subseteq 0..Len(regions)
  BY <1>1
<1>4. Max(loops) \in loops
  <2> HIDE DEF loops
  <2>1. QED
    BY <1>1, <1>2, <1>3, MaxOfNaturals
<1>5. n \in 1..Len(regions) /\ Max(loops) \in n..(n + 1)
  BY <1>1, <1>4
<1>6. \A i \in (Max(loops) + 1)..Len(regions) : regions[i].kind \notin Clauses
  BY <1>2 DEF MayJumpTo, LeavesTry
<1>7. regions[Max(loops)].kind = "loop" /\ Max(loops) \in 1..Len(regions)
  BY <1>1, <1>4
<1> HIDE DEF loops, n
<1>8. ASSUME NEW i \in (n + 1)..Len(regions) PROVE regions[i].kind \notin Clauses
  <2>1. i = Max(loops) \/ i \in (Max(loops) + 1)..Len(regions)
    BY <1>1, <1>5, <1>7
  <2>2. QED
    BY <1>6, <1>7, <2>1 DEF Clauses
<1>9. QED
  BY <1>2, <1>5, <1>8

LEMMA CutOfLast ==
  ASSUME NestInv, Running, Here.kind \in {"loop", "finally"}, regions' = Front(regions)
  PROVE  /\ Len(regions) \in Nat \ {0, 1}
         /\ Len(regions) - 1 \in 1..Len(regions)
         /\ regions' = SubSeq(regions, 1, Len(regions) - 1)
         /\ Here = regions[Len(regions)]
         /\ \A i \in (Len(regions) - 1 + 1)..Len(regions) : i = Len(regions)
<1>1. /\ regions \in Seq(RegionSet) /\ regions # <<>> /\ regions[1].kind = "fn"
      /\ Len(regions) \in Nat \ {0}
  BY InnermostFunction DEF NestInv, Typed, InFunction
<1>2. regions' = SubSeq(regions, 1, Len(regions) - 1) /\ Here = regions[Len(regions)]
  BY <1>1, FrontOfSeq DEF Here
<1>3. Len(regions) # 1
  BY <1>1, <1>2
<1>4. \A n \in Nat \ {0} : n # 1 => n - 1 \in 1..n /\ \A i \in (n - 1 + 1)..n : i = n
  OBVIOUS
<1>5. QED
  BY <1>1, <1>2, <1>3, <1>4

LEMMA EndLoopKeeps ==
  ASSUME NestInv, EndLoop
  PROVE  NestInv'
<1>1. \A i \in (Len(regions) - 1 + 1)..Len(regions) : regions[i].kind \notin {"try", "except"}
  BY CutOfLast DEF EndLoop
<1>2. QED
  BY <1>1, CutOfLast, CutKeeps DEF EndLoop

LEMMA JumpKeeps ==
  ASSUME NestInv, "jumpOut" \notin Habits, NEW breaks \in BOOLEAN, Jump(breaks)
  PROVE  NestInv'
<1>1. PICK n \in 1..Len(regions) :
        /\ regions' = SubSeq(regions, 1, n)
        /\ \A i \in (n + 1)..Len(regions) : regions[i].kind \notin Clauses
  BY CutOfJump
<1>2. QED
  BY <1>1, CutKeeps DEF Jump, Clauses

LEMMA TryKeeps ==
  ASSUME NestInv, NEW exc \in BOOLEAN, NEW fin \in BOOLEAN, Try(exc, fin)
  PROVE  NestInv'
<1> DEFINE h == [frame |-> FrameCount, exc |-> exc, fin |-> fin, inExcept |-> FALSE,
                 at |-> regions]
           x == Region("try", exc, fin, NoException)
<1>1. /\ regions \in Seq(RegionSet) /\ handlers \in Seq(HandlerSet) /\ Nested(regions, handlers)
      /\ Len(regions) \in Nat \ {0} /\ Running
  BY InnermostFunction DEF NestInv, Typed, Try
<1>2. FrameCount = FnCount(regions) /\ FrameCount \in Nat
  <2>1. Len(regions) \in 0..Len(regions)
    BY <1>1
  <2>2. regions = SubSeq(regions, 1, Len(regions))
    BY <1>1, PrefixEqual
  <2>3. FnCount(regions) \in Nat
    BY <1>1, <2>1, <2>2, FnCountOfPrefix
  <2>4. QED
    BY <2>3 DEF FrameCount, FnCount
<1>3. x \in RegionSet /\ x.kind = "try" /\ x.exc = exc /\ x.fin = fin
  BY DEF Region, RegionSet
<1>4. /\ h \in HandlerSet /\ h.at = regions /\ h.frame = FnCount(regions)
      /\ h.exc = exc /\ h.fin = fin /\ h.inExcept = FALSE
  BY <1>1, <1>2 DEF HandlerSet
<1>5. regions' = Append(regions, x) /\ handlers' = Append(handlers, h)
  BY DEF Try
<1> HIDE DEF x, h
<1>6. x.kind = IF h.inExcept THEN "except" ELSE "try"
  BY <1>3, <1>4
<1>7. Nested(regions', handlers')
  BY <1>1, <1>3, <1>4, <1>5, <1>6, NestedTry
<1>8. /\ regions' \in Seq(RegionSet) /\ Len(regions') >= 1 /\ regions'[1] = regions[1]
      /\ handlers' \in Seq(HandlerSet)
  BY <1>1, <1>3, <1>4, <1>5, AppendToSeq
<1>9. InFunction'
  BY <1>1, <1>8, StaysInFunction DEF Try
<1>10. QED
  BY <1>7, <1>8, <1>9 DEF NestInv, Typed, Try

\* The statement whose block or except clause the program is in is that of the
\* last handler.
LEMMA LastHandler ==
  ASSUME NestInv, Running, Here.kind \in {"try", "except"}
  PROVE  /\ handlers # <<>> /\ Len(handlers) \in Nat \ {0}
         /\ Len(regions) \in Nat \ {0, 1} /\ Here = regions[Len(regions)]
         /\ Len(handlers[Len(handlers)].at) = Len(regions) - 1
<1>1. /\ regions \in Seq(RegionSet) /\ handlers \in Seq(HandlerSet) /\ Nested(regions, handlers)
      /\ Len(regions) \in Nat \ {0} /\ Here = regions[Len(regions)] /\ Len(handlers) \in Nat
      /\ regions[1].kind = "fn"
  BY InnermostFunction, LenProperties DEF NestInv, Typed, InFunction, Here, Last
<1>2. PICK k \in 1..Len(handlers) : Len(regions) = Len(handlers[k].at) + 1
  <2>1. Len(regions) \in 1..Len(regions)
    BY <1>1
  <2>2. QED
    BY <1>1, <2>1 DEF Nested
<1>3. Len(handlers) \in 1..Len(handlers)
  BY <1>1, <1>2
<1>4. /\ Len(handlers[k].at) \in 0..(Len(regions) - 1)
      /\ Len(handlers[Len(handlers)].at) \in 0..(Len(regions) - 1)
  BY <1>1, <1>3, HandlerAt
<1>5. k = Len(handlers)
  <2> SUFFICES ASSUME k < Len(handlers) PROVE FALSE
    BY <1>1, <1>2
  <2>1. Len(handlers[k].at) < Len(handlers[Len(handlers)].at)
    BY <1>1, <1>3 DEF Nested
  <2>2. QED
    BY <1>1, <1>2, <1>4, <2>1
<1>6. QED
  <2>1. handlers # <<>> /\ Len(handlers) # 0
    BY <1>1, <1>3, EmptySeq
  <2>2. Len(regions) # 1
    BY <1>1
  <2>3. QED
    BY <1>1, <1>2, <1>4, <1>5, <2>1, <2>2

LEMMA EndTryKeeps ==
  ASSUME NestInv, EndTry
  PROVE  NestInv'
<1> DEFINE n == Len(regions) - 1
           m == Len(handlers) - 1
           x == Region("finally", Here.exc, TRUE, NoException)
<1>1. /\ regions \in Seq(RegionSet) /\ handlers \in Seq(HandlerSet) /\ Nested(regions, handlers)
      /\ Running /\ Len(regions) \in Nat \ {0, 1} /\ Len(handlers) \in Nat \ {0}
      /\ regions # <<>> /\ handlers # <<>> /\ Len(handlers[m + 1].at) = n
  BY LastHandler DEF NestInv, Typed, InFunction, EndTry
<1>2. n \in 0..Len(regions) /\ n >= 1 /\ m \in 0..Len(handlers)
  <2>1. /\ \A a \in Nat \ {0, 1} : a - 1 \in 0..a /\ a - 1 >= 1
        /\ \A a \in Nat \ {0} : a - 1 \in 0..a
    OBVIOUS
  <2>2. QED
    BY <1>1, <2>1
<1>3. /\ handlers' = SubSeq(handlers, 1, m)
      /\ regions' = IF Here.fin THEN Append(SubSeq(regions, 1, n), x) ELSE SubSeq(regions, 1, n)
  BY <1>1, FrontOfSeq DEF EndTry, PopHandler
<1>4. \A k \in 1..m : Len(handlers[k].at) < n
  <2>1. ASSUME NEW k \in 1..m PROVE Len(handlers[k].at) < n
    <3>1. k \in 1..Len(handlers) /\ m + 1 \in 1..Len(handlers) /\ k < m + 1
      BY <1>1
    <3>2. QED
      BY <1>1, <3>1 DEF Nested
  <2>2. QED
    BY <2>1
<1>5. \A k \in (m + 1)..Len(handlers) : n <= Len(handlers[k].at)
  BY <1>1
<1>6. x \in RegionSet /\ x.kind \notin {"try", "except"}
  <2>1. Here \in RegionSet
    BY <1>1, FrontOfSeq DEF Here
  <2>2. QED
    BY <2>1, RegionFields DEF Region, RegionSet
<1> HIDE DEF n, m, x
<1>7. Nested(SubSeq(regions, 1, n), SubSeq(handlers, 1, m))
  BY <1>1, <1>2, <1>4, <1>5, NestedCut
<1>8. /\ SubSeq(regions, 1, n) \in Seq(RegionSet) /\ Len(SubSeq(regions, 1, n)) = n
      /\ SubSeq(regions, 1, n)[1] = regions[1] /\ handlers' \in Seq(HandlerSet)
  BY <1>1, <1>2, <1>3, PrefixOfSeq
<1>9. /\ regions' \in Seq(RegionSet) /\ Len(regions') >= 1 /\ regions'[1] = regions[1]
      /\ Nested(regions', handlers')
  <2>1. CASE Here.fin
    <3>1. regions' = Append(SubSeq(regions, 1, n), x)
      BY <1>3, <2>1
    <3>2. 1 \in 1..n /\ n + 1 >= 1
      BY <1>2
    <3>3. regions' \in Seq(RegionSet) /\ Len(regions') >= 1 /\ regions'[1] = regions[1]
      BY <1>6, <1>8, <3>1, <3>2, AppendToSeq
    <3>4. Nested(Append(SubSeq(regions, 1, n), x), SubSeq(handlers, 1, m))
      BY <1>3, <1>6, <1>7, <1>8, NestedGrow
    <3>5. QED
      BY <1>3, <3>1, <3>3, <3>4
  <2>2. CASE ~Here.fin
    BY <1>2, <1>3, <1>7, <1>8, <2>2
  <2>3. QED
    BY <2>1, <2>2
<1>10. InFunction'
  BY <1>1, <1>9, StaysInFunction DEF EndTry
<1>11. QED
  BY <1>8, <1>9, <1>10 DEF NestInv, Typed, EndTry

----------------------------------------------------------------------------
(* An exception on its way to a handler. *)

Usable == {i \in DOMAIN handlers : (handlers[i].exc /\ ~handlers[i].inExcept) \/ handlers[i].fin}

\* What handle_exception does when there is a handler to go to: the clause it leads
\* to is entered at the place of the statement.
LEMMA RaiseLands ==
  ASSUME NestInv, Running, NEW e \in Exceptions, Raise(e), Usable # {}
  PROVE  \E i \in 1..Len(handlers), x \in RegionSet :
           /\ \A j \in Usable : j <= i
           /\ i \in Usable
           /\ Len(handlers[i].at) \in 1..Len(regions)
           /\ regions' = Append(SubSeq(regions, 1, Len(handlers[i].at)), x)
           /\ x.kind \in {"except", "finally"} /\ x.fin = handlers[i].fin
           /\ x.cause = IF hasException' THEN e ELSE NoException
           /\ x.cause # NoException => x.kind = "finally"
           /\ hasException' \in BOOLEAN /\ exception' = x.cause
           /\ displaced' = IF hasException' THEN displaced \cap DOMAIN SubSeq(regions, 1, Len(handlers[i].at))
                                            ELSE LedInto(SubSeq(regions, 1, Len(handlers[i].at)))
           /\ UNCHANGED ended
           /\ NestInv'
<1> DEFINE i == Max(Usable)
           h == handlers[i]
           caught == h.exc /\ ~h.inExcept
           n == Len(h.at)
           g == [h EXCEPT !.inExcept = TRUE]
           x == IF caught THEN Region("except", TRUE, h.fin, NoException)
                          ELSE Region("finally", h.exc, TRUE, e)
<1>1. /\ regions \in Seq(RegionSet) /\ handlers \in Seq(HandlerSet) /\ Nested(regions, handlers)
      /\ Len(regions) \in Nat \ {0} /\ Len(handlers) \in Nat
      /\ DOMAIN handlers = 1..Len(handlers) /\ regions[1].kind = "fn"
  BY InnermostFunction, LenProperties DEF NestInv, Typed, InFunction
<1>2. i \in Usable /\ \A j \in Usable : j <= i
  <2>1. Usable \subseteq 0..Len(handlers)
    BY <1>1 DEF Usable
  <2>2. QED
    BY <1>1, <2>1, MaxOfNaturals
<1>3. i \in 1..Len(handlers) /\ (caught \/ h.fin)
  BY <1>1, <1>2 DEF Usable
<1>4. /\ Pending(e, caught)
      /\ handlers' = IF caught THEN Append(SubSeq(handlers, 1, i - 1), g)
                               ELSE SubSeq(handlers, 1, i - 1)
      /\ regions' = Append(h.at, x)
      /\ displaced' = IF caught THEN LedInto(h.at) ELSE displaced \cap DOMAIN h.at
      /\ UNCHANGED ended
  BY DEF Raise, Usable
<1>5. /\ h \in HandlerSet /\ h.at \in Seq(RegionSet) /\ n \in 0..(Len(regions) - 1)
      /\ h.at = SubSeq(regions, 1, n) /\ Guards(h, regions)
  BY <1>1, <1>3, HandlerAt
<1>6. n >= 1 /\ n \in 0..Len(regions)
  <2>1. regions[n + 1].kind \in {"try", "except"}
    BY <1>5 DEF Guards
  <2>2. QED
    BY <1>1, <1>5, <2>1
<1>7. /\ x \in RegionSet /\ x.kind = IF caught THEN "except" ELSE "finally"
      /\ x.fin = h.fin /\ x.cause = IF caught THEN NoException ELSE e
      /\ caught => x.exc = h.exc
  BY <1>3, <1>5, RegionFields DEF Region, RegionSet
<1>8. /\ g \in HandlerSet /\ g.at = h.at /\ g.frame = h.frame /\ g.exc = h.exc /\ g.fin = h.fin
      /\ g.inExcept = TRUE
  BY <1>5 DEF HandlerSet
<1> HIDE DEF i, x, g
<1>9. i - 1 \in 0..Len(handlers)
  BY <1>1, <1>3
<1>10. Nested(SubSeq(regions, 1, n), SubSeq(handlers, 1, i - 1))
  <2>1. \A k \in 1..(i - 1) : Len(handlers[k].at) < n
    BY <1>1, <1>3 DEF Nested
  <2>2. \A k \in ((i - 1) + 1)..Len(handlers) : n <= Len(handlers[k].at)
    <3>1. ASSUME NEW k \in ((i - 1) + 1)..Len(handlers) PROVE n <= Len(handlers[k].at)
      <4>1. k \in 1..Len(handlers) /\ (k = i \/ i < k)
        BY <1>1, <1>3
      <4>2. Len(handlers[k].at) \in Nat
        BY <1>1, <4>1, HandlerAt
      <4>3. k # i => n < Len(handlers[k].at)
        BY <1>1, <1>3, <4>1 DEF Nested
      <4>4. QED
        BY <1>5, <4>2, <4>3
    <3>2. QED
      BY <3>1
  <2>3. QED
    BY <1>1, <1>6, <1>9, <2>1, <2>2, NestedCut
<1>11. /\ SubSeq(handlers, 1, i - 1) \in Seq(HandlerSet)
       /\ h.at[1] = regions[1]
  BY <1>1, <1>5, <1>6, <1>9, PrefixOfSeq
<1>12. Nested(regions', handlers') /\ handlers' \in Seq(HandlerSet)
  <2>1. CASE caught
    <3>1. /\ regions' = Append(h.at, x) /\ handlers' = Append(SubSeq(handlers, 1, i - 1), g)
          /\ x.kind = IF g.inExcept THEN "except" ELSE "try"
          /\ g.exc = x.exc /\ g.fin = x.fin
      BY <1>4, <1>7, <1>8, <2>1
    <3>2. g.frame = FnCount(h.at)
      BY <1>5, <1>8 DEF Guards
    <3>3. QED
      BY <1>5, <1>7, <1>8, <1>10, <1>11, <3>1, <3>2, NestedTry, AppendToSeq
  <2>2. CASE ~caught
    <3>1. /\ regions' = Append(h.at, x) /\ handlers' = SubSeq(handlers, 1, i - 1)
          /\ x.kind \notin {"try", "except"}
      BY <1>4, <1>7, <2>2
    <3>2. QED
      BY <1>5, <1>7, <1>10, <1>11, <3>1, NestedGrow
  <2>3. QED
    BY <2>1, <2>2
<1>13. regions' \in Seq(RegionSet) /\ Len(regions') >= 1 /\ regions'[1] = regions[1]
  BY <1>4, <1>5, <1>6, <1>7, <1>11, AppendToSeq
<1>14. InFunction'
  BY <1>4, <1>13, StaysInFunction
<1>15. /\ hasException' = ~caught /\ hasException' \in BOOLEAN
       /\ exception' = IF caught THEN NoException ELSE e
  BY <1>4, <1>5, RegionFields DEF Pending
<1>16. NestInv'
  BY <1>12, <1>13, <1>14, <1>15 DEF NestInv, Typed
<1>17. /\ x.kind \in {"except", "finally"} /\ x.fin = h.fin
       /\ x.cause = IF hasException' THEN e ELSE NoException
       /\ exception' = x.cause
       /\ x.cause # NoException => x.kind = "finally"
  BY <1>7, <1>15
<1>18. n \in 1..Len(regions) /\ regions' = Append(SubSeq(regions, 1, n), x)
  <2>1. n \in 1..Len(regions)
    BY <1>1, <1>6
  <2>2. QED
    BY <1>4, <1>5, <2>1
<1>19. displaced' = IF hasException' THEN displaced \cap DOMAIN SubSeq(regions, 1, n)
                                     ELSE LedInto(SubSeq(regions, 1, n))
  BY <1>4, <1>5, <1>15
<1>20. QED
  BY <1>2, <1>3, <1>4, <1>7, <1>15, <1>16, <1>17, <1>18, <1>19

\* Without one the program ends.
LEMMA RaiseEnds ==
  ASSUME NEW e, Raise(e), Usable = {}
  PROVE  regions' = <<>> /\ ~Running' /\ ~hasException' /\ displaced' = {} /\ NestInv'
<1>1. /\ ended' = "error" /\ regions' = <<>> /\ handlers' = <<>>
      /\ hasException' = FALSE /\ exception' = NoException /\ displaced' = {}
  BY DEF Raise, Usable
<1>2. /\ regions' \in Seq(RegionSet) /\ handlers' \in Seq(HandlerSet)
      /\ Len(regions') = 0 /\ Len(handlers') = 0
  BY <1>1, EmptySeq
<1>3. Nested(regions', handlers')
  BY <1>2 DEF Nested
<1>4. QED
  BY <1>1, <1>2, <1>3 DEF NestInv, Typed, InFunction, Running

LEMMA RaiseKeeps ==
  ASSUME NestInv, Running, NEW e \in Exceptions, Raise(e)
  PROVE  NestInv'
BY RaiseLands, RaiseEnds

LEMMA EndFinallyKeeps ==
  ASSUME NestInv, EndFinally
  PROVE  NestInv'
<1>1. CASE hasException
  <2>1. exception \in Exceptions /\ Raise(exception) /\ Running
    BY <1>1 DEF EndFinally, NestInv, Typed
  <2>2. QED
    BY <2>1, RaiseKeeps
<1>2. CASE ~hasException
  <2>1. \A i \in (Len(regions) - 1 + 1)..Len(regions) : regions[i].kind \notin {"try", "except"}
    BY <1>2, CutOfLast DEF EndFinally
  <2>2. QED
    BY <1>2, <2>1, CutOfLast, CutKeeps DEF EndFinally
<1>3. QED
  BY <1>1, <1>2

LEMMA InitNested == ExInit => NestInv
<1> SUFFICES ASSUME ExInit PROVE NestInv
  OBVIOUS
<1> DEFINE r == Plain("fn")
<1>1. r \in RegionSet /\ r.kind = "fn"
  BY DEF Plain, Region, RegionSet
<1>2. regions = <<r>> /\ handlers = <<>> /\ ended = "no" /\ hasException = FALSE /\ exception = NoException
  BY DEF ExInit
<1> HIDE DEF r
<1>3. /\ regions \in Seq(RegionSet) /\ Len(regions) = 1 /\ regions[1] = r /\ regions # <<>>
      /\ handlers \in Seq(HandlerSet) /\ Len(handlers) = 0
  BY <1>1, <1>2, EmptySeq
<1>4. Nested(regions, handlers)
  BY <1>1, <1>3 DEF Nested
<1>5. QED
  BY <1>1, <1>2, <1>3, <1>4 DEF NestInv, Typed, InFunction, Running

LEMMA NextKeepsNesting ==
  ASSUME "jumpOut" \notin Habits
  PROVE  NestInv /\ [ExNext]_exVars => NestInv'
<1> SUFFICES ASSUME NestInv, [ExNext]_exVars PROVE NestInv'
  OBVIOUS
<1>1. CASE Enter("fn") \/ Enter("loop")
  BY <1>1, EnterKeeps
<1>2. CASE Return
  BY <1>2, ReturnKeeps
<1>3. CASE EndLoop
  BY <1>3, EndLoopKeeps
<1>4. CASE \E breaks \in BOOLEAN : Jump(breaks)
  BY <1>4, JumpKeeps
<1>5. CASE \E exc, fin \in BOOLEAN : Try(exc, fin)
  BY <1>5, TryKeeps
<1>6. CASE With
  BY <1>6, TryKeeps DEF With
<1>7. CASE EndTry
  BY <1>7, EndTryKeeps
<1>8. CASE EndFinally
  BY <1>8, EndFinallyKeeps
<1>9. CASE \E e \in Exceptions : Throw(e)
  BY <1>9, RaiseKeeps DEF Throw
<1>10. CASE UNCHANGED exVars
  BY <1>10 DEF exVars, NestInv, Typed, InFunction, Running
<1>11. QED
  BY <1>1, <1>2, <1>3, <1>4, <1>5, <1>6, <1>7, <1>8, <1>9, <1>10 DEF ExNext

LEMMA NestingMatches == NestInv => HandlersMatchNesting
<1> SUFFICES ASSUME NestInv PROVE HandlersMatchNesting
  OBVIOUS
<1>1. /\ regions \in Seq(RegionSet) /\ handlers \in Seq(HandlerSet) /\ Nested(regions, handlers)
      /\ DOMAIN regions = 1..Len(regions) /\ DOMAIN handlers = 1..Len(handlers)
      /\ Len(regions) \in Nat /\ Len(handlers) \in Nat
  BY LenProperties DEF NestInv, Typed
<1>2. ASSUME NEW k \in 1..Len(handlers)
      PROVE  /\ Statement(k) \in 1..Len(regions) /\ Statement(k) - 1 = Len(handlers[k].at)
             /\ handlers[k].at = SubSeq(regions, 1, Statement(k) - 1)
             /\ handlers[k].inExcept = (regions[Statement(k)].kind = "except")
             /\ regions[Statement(k)].kind \in {"try", "except"}
             /\ handlers[k].exc = regions[Statement(k)].exc
             /\ handlers[k].fin = regions[Statement(k)].fin
  <2>1. /\ handlers[k] \in HandlerSet /\ Len(handlers[k].at) \in 0..(Len(regions) - 1)
        /\ handlers[k].at = SubSeq(regions, 1, Len(handlers[k].at))
        /\ Guards(handlers[k], regions)
    BY <1>1, HandlerAt
  <2>2. Statement(k) \in 1..Len(regions) /\ Statement(k) - 1 = Len(handlers[k].at)
    BY <1>1, <2>1 DEF Statement
  <2>3. handlers[k].inExcept \in BOOLEAN
    BY <2>1, RegionFields
  <2>4. QED
    BY <2>1, <2>2, <2>3 DEF Guards, Statement
<1>3. Guarded = {Statement(k) : k \in DOMAIN handlers}
  <2>1. ASSUME NEW i \in Guarded PROVE \E k \in DOMAIN handlers : i = Statement(k)
    BY <1>1 DEF Guarded, Nested, Statement
  <2>2. ASSUME NEW k \in DOMAIN handlers PROVE Statement(k) \in Guarded
    BY <1>1, <1>2 DEF Guarded
  <2>3. QED
    BY <2>1, <2>2
<1>4. ASSUME NEW j \in DOMAIN handlers, NEW k \in DOMAIN handlers, j < k
      PROVE  Statement(j) < Statement(k)
  <2>1. Len(handlers[j].at) \in Nat /\ Len(handlers[k].at) \in Nat
    BY <1>1, HandlerAt
  <2>2. Len(handlers[j].at) < Len(handlers[k].at)
    BY <1>1, <1>4 DEF Nested
  <2>3. QED
    BY <2>1, <2>2 DEF Statement
<1>5. QED
  BY <1>1, <1>2, <1>3, <1>4 DEF HandlersMatchNesting

\* Whatever was thrown, caught and rethrown, the stack of handlers is the nesting of
\* the try statements around the current instruction (OP_TRY, OP_END_TRY,
\* handle_exception, discard_handlers_for_frame_return), at any depth, in programs
\* whose break and continue stay inside their try statements.  Returns may leave them.
THEOREM HandlersAreTheNesting ==
  ASSUME "jumpOut" \notin Habits
  PROVE  ExSpec => []HandlersMatchNesting
<1>1. ExSpec => []NestInv
  BY InitNested, NextKeepsNesting, PTL DEF ExSpec
<1>2. QED
  BY <1>1, NestingMatches, PTL

----------------------------------------------------------------------------
(* Finally clauses. *)

\* Raise goes to the innermost statement with a clause left.
LEMMA RaiseStopsAtFinally ==
  ASSUME NestInv, Running, NEW e \in Exceptions, Raise(e),
         NEW j \in DOMAIN regions, regions[j].kind \in {"try", "except"}, regions[j].fin
  PROVE  j \in DOMAIN regions' /\ regions'[j].kind \in Clauses /\ regions'[j].fin
<1>1. /\ regions \in Seq(RegionSet) /\ handlers \in Seq(HandlerSet) /\ Nested(regions, handlers)
      /\ DOMAIN regions = 1..Len(regions) /\ DOMAIN handlers = 1..Len(handlers)
      /\ Len(regions) \in Nat /\ Len(handlers) \in Nat
  BY LenProperties DEF NestInv, Typed
<1>2. PICK k \in 1..Len(handlers) : j = Len(handlers[k].at) + 1
  BY <1>1 DEF Nested
<1>3. k \in Usable /\ Len(handlers[k].at) \in 0..(Len(regions) - 1)
  <2>1. Guards(handlers[k], regions) /\ Len(handlers[k].at) \in 0..(Len(regions) - 1)
    BY <1>1, HandlerAt
  <2>2. handlers[k].fin
    BY <1>2, <2>1 DEF Guards
  <2>3. QED
    BY <1>1, <2>1, <2>2 DEF Usable
<1>4. PICK i \in 1..Len(handlers), x \in RegionSet :
        /\ \A u \in Usable : u <= i
        /\ Len(handlers[i].at) \in 1..Len(regions)
        /\ regions' = Append(SubSeq(regions, 1, Len(handlers[i].at)), x)
        /\ x.kind \in {"except", "finally"} /\ x.fin = handlers[i].fin
  BY <1>3, RaiseLands
<1> DEFINE n == Len(handlers[i].at)
<1>5. n \in 0..Len(regions)
  BY <1>1, <1>4
<1>6. /\ SubSeq(regions, 1, n) \in Seq(RegionSet) /\ Len(SubSeq(regions, 1, n)) = n
      /\ \A u \in 1..n : SubSeq(regions, 1, n)[u] = regions[u]
  BY <1>1, <1>5, PrefixOfSeq
<1> HIDE DEF n
<1>7. /\ DOMAIN regions' = 1..(n + 1) /\ regions'[n + 1] = x
      /\ \A u \in 1..n : regions'[u] = SubSeq(regions, 1, n)[u]
  <2>1. regions' = Append(SubSeq(regions, 1, n), x)
    BY <1>4 DEF n
  <2>2. QED
    BY <1>6, <2>1, AppendToSeq
<1>8. CASE k = i
  <2>1. j = n + 1 /\ handlers[i].fin = regions[j].fin
    <3>1. Guards(handlers[i], regions)
      BY <1>1, HandlerAt
    <3>2. QED
      BY <1>2, <1>8, <3>1 DEF n, Guards
  <2>2. QED
    BY <1>4, <1>5, <1>7, <2>1 DEF Clauses
<1>9. CASE k # i
  <2>1. k < i
    BY <1>1, <1>3, <1>4, <1>9
  <2>2. Len(handlers[k].at) < n
    BY <1>1, <2>1 DEF Nested, n
  <2>3. j \in 1..n /\ j \in 1..(n + 1)
    BY <1>2, <1>3, <1>5, <2>2
  <2>4. QED
    BY <1>6, <1>7, <2>3 DEF Clauses
<1>10. QED
  BY <1>8, <1>9

\* A cut behind the statement leaves it.
LEMMA CutLeavesFinally ==
  ASSUME NestInv, NEW n \in 0..Len(regions), regions' = SubSeq(regions, 1, n),
         NEW j \in 1..n, regions[j].kind \in {"try", "except"}, regions[j].fin
  PROVE  j \in DOMAIN regions' /\ regions'[j].kind \in Clauses /\ regions'[j].fin
<1>1. regions \in Seq(RegionSet)
  BY DEF NestInv, Typed
<1>2. QED
  BY <1>1, PrefixOfSeq DEF Clauses

\* So does a new region.
LEMMA GrowthLeavesFinally ==
  ASSUME NestInv, NEW x \in RegionSet, regions' = Append(regions, x),
         NEW j \in DOMAIN regions, regions[j].kind \in {"try", "except"}, regions[j].fin
  PROVE  j \in DOMAIN regions' /\ regions'[j].kind \in Clauses /\ regions'[j].fin
<1>1. regions \in Seq(RegionSet) /\ Len(regions) \in Nat /\ DOMAIN regions = 1..Len(regions)
  BY LenProperties DEF NestInv, Typed
<1>2. DOMAIN regions' = 1..(Len(regions) + 1) /\ regions'[j] = regions[j]
  BY <1>1, AppendToSeq
<1>3. QED
  BY <1>1, <1>2 DEF Clauses

LEMMA EndTryEntersFinally ==
  ASSUME NestInv, EndTry
  PROVE  FinallyStays
<1> DEFINE n == Len(regions) - 1
           x == Region("finally", Here.exc, TRUE, NoException)
<1>1. /\ regions \in Seq(RegionSet) /\ regions # <<>> /\ Len(regions) \in Nat \ {0, 1}
      /\ DOMAIN regions = 1..Len(regions) /\ Here = regions[Len(regions)] /\ Here \in RegionSet
  BY LastHandler, LenProperties, FrontOfSeq DEF NestInv, Typed, EndTry, Here
<1>2. n \in 0..Len(regions) /\ \A j \in 1..Len(regions) : j \in 1..n \/ j = n + 1
  <2>1. \A a \in Nat \ {0, 1} : a - 1 \in 0..a /\ \A j \in 1..a : j \in 1..(a - 1) \/ j = a - 1 + 1
    OBVIOUS
  <2>2. QED
    BY <1>1, <2>1
<1>3. regions' = IF Here.fin THEN Append(SubSeq(regions, 1, n), x) ELSE SubSeq(regions, 1, n)
  BY <1>1, FrontOfSeq DEF EndTry
<1>4. x \in RegionSet /\ x.kind = "finally" /\ x.fin = TRUE
  BY <1>1, RegionFields DEF Region, RegionSet
<1>5. Here = regions[n + 1]
  BY <1>1
<1> HIDE DEF n, x
<1>6. /\ SubSeq(regions, 1, n) \in Seq(RegionSet) /\ Len(SubSeq(regions, 1, n)) = n
      /\ DOMAIN SubSeq(regions, 1, n) = 1..n
      /\ \A j \in 1..n : SubSeq(regions, 1, n)[j] = regions[j]
  BY <1>1, <1>2, PrefixOfSeq
<1>7. CASE Here.fin
  <2>1. regions' = Append(SubSeq(regions, 1, n), x)
    BY <1>3, <1>7
  <2>2. /\ DOMAIN regions' = 1..(n + 1) /\ regions'[n + 1] = x
        /\ \A j \in 1..n : regions'[j] = regions[j]
    BY <1>4, <1>6, <2>1, AppendToSeq
  <2>3. QED
    BY <1>1, <1>2, <1>4, <2>2 DEF FinallyStays, Clauses
<1>8. CASE ~Here.fin
  BY <1>1, <1>2, <1>3, <1>5, <1>6, <1>8 DEF FinallyStays, Clauses
<1>9. QED
  BY <1>7, <1>8

\* A step that cuts the regions off behind place n.
LEMMA CutSkipsNothing ==
  ASSUME NestInv, NEW n \in 0..Len(regions), regions' = SubSeq(regions, 1, n),
         \A i \in (n + 1)..Len(regions) : regions[i].kind \notin {"try", "except"}
  PROVE  FinallyStays
<1>1. DOMAIN regions = 1..Len(regions) /\ Len(regions) \in Nat
  BY LenProperties DEF NestInv, Typed
<1>2. \A j \in DOMAIN regions : regions[j].kind \in {"try", "except"} => j \in 1..n
  BY <1>1
<1>3. QED
  BY <1>2, CutLeavesFinally DEF FinallyStays

LEMMA NextKeepsFinally ==
  ASSUME "jumpOut" \notin Habits, "returnOut" \notin Habits
  PROVE  NestInv /\ [ExNext]_exVars => [FinallyStays]_exVars
<1> SUFFICES ASSUME NestInv, ExNext PROVE FinallyStays
  OBVIOUS
<1>1. regions \in Seq(RegionSet) /\ Len(regions) \in Nat
  BY LenProperties DEF NestInv, Typed
<1>2. ASSUME NEW kind \in {"fn", "loop"}, Enter(kind) PROVE FinallyStays
  <2>1. Plain(kind) \in RegionSet
    BY DEF Plain, Region, RegionSet
  <2>2. QED
    BY <1>2, <2>1, GrowthLeavesFinally DEF FinallyStays, Enter
<1>3. CASE Return
  <2>1. PICK n \in 0..Len(regions) :
          /\ regions' = SubSeq(regions, 1, n)
          /\ n + 1 \in 1..Len(regions) /\ regions[n + 1].kind = "fn"
          /\ \A i \in (n + 2)..Len(regions) : regions[i].kind \notin Clauses
    BY <1>3, CutOfReturn
  <2>2. \A i \in (n + 1)..Len(regions) : i = n + 1 \/ i \in (n + 2)..Len(regions)
    BY <1>1
  <2>3. \A i \in (n + 1)..Len(regions) : regions[i].kind \notin {"try", "except"}
    BY <2>1, <2>2 DEF Clauses
  <2>4. QED
    BY <2>1, <2>3, CutSkipsNothing
<1>4. CASE EndLoop
  <2>1. \A i \in (Len(regions) - 1 + 1)..Len(regions) : regions[i].kind \notin {"try", "except"}
    BY <1>4, CutOfLast DEF EndLoop
  <2>2. Len(regions) - 1 \in 0..Len(regions) /\ regions' = SubSeq(regions, 1, Len(regions) - 1)
    BY <1>4, CutOfLast DEF EndLoop
  <2>3. QED
    BY <2>1, <2>2, CutSkipsNothing
<1>5. ASSUME NEW breaks \in BOOLEAN, Jump(breaks) PROVE FinallyStays
  <2>1. PICK n \in 1..Len(regions) :
          /\ regions' = SubSeq(regions, 1, n)
          /\ \A i \in (n + 1)..Len(regions) : regions[i].kind \notin Clauses
    BY <1>5, CutOfJump
  <2>2. n \in 0..Len(regions) /\ \A i \in (n + 1)..Len(regions) : regions[i].kind \notin {"try", "except"}
    BY <1>1, <2>1 DEF Clauses
  <2>3. QED
    BY <2>1, <2>2, CutSkipsNothing
<1>6. ASSUME NEW exc \in BOOLEAN, NEW fin \in BOOLEAN, Try(exc, fin) PROVE FinallyStays
  <2>1. Region("try", exc, fin, NoException) \in RegionSet
    BY DEF Region, RegionSet
  <2>2. QED
    BY <1>6, <2>1, GrowthLeavesFinally DEF FinallyStays, Try
<1>7. CASE With
  BY <1>6, <1>7 DEF With
<1>8. CASE EndTry
  BY <1>8, EndTryEntersFinally
<1>9. ASSUME NEW e \in Exceptions, Running, Raise(e) PROVE FinallyStays
  BY <1>9, RaiseStopsAtFinally DEF FinallyStays
<1>10. CASE EndFinally
  <2>1. CASE hasException
    BY <1>9, <1>10, <2>1 DEF EndFinally, NestInv, Typed
  <2>2. CASE ~hasException
    <3>1. \A i \in (Len(regions) - 1 + 1)..Len(regions) : regions[i].kind \notin {"try", "except"}
      BY <1>10, <2>2, CutOfLast DEF EndFinally
    <3>2. Len(regions) - 1 \in 0..Len(regions) /\ regions' = SubSeq(regions, 1, Len(regions) - 1)
      BY <1>10, <2>2, CutOfLast DEF EndFinally
    <3>3. QED
      BY <3>1, <3>2, CutSkipsNothing
  <2>3. QED
    BY <2>1, <2>2
<1>11. QED
  BY <1>2, <1>3, <1>4, <1>5, <1>6, <1>7, <1>8, <1>9, <1>10 DEF ExNext, Throw

\* Exceptions, the ends of the clauses and calls never take the program past a finally
\* clause that is still to run (handle_exception, OP_END_TRY), at any depth, in
\* programs that do not leave a try statement by break, continue or return.
THEOREM FinallyAlwaysAhead ==
  ASSUME "jumpOut" \notin Habits, "returnOut" \notin Habits
  PROVE  ExSpec => FinallyNotSkipped
<1>1. NestInv /\ [ExNext]_exVars => [FinallyStays]_exVars
  BY NextKeepsFinally
<1>2. NestInv /\ [ExNext]_exVars => NestInv'
  BY NextKeepsNesting
<1>3. QED
  BY <1>1, <1>2, InitNested, PTL DEF ExSpec, FinallyNotSkipped

----------------------------------------------------------------------------
(* The exception that is pending. *)

\* In regions rs the slot (has, e) is that of the innermost finally clause that an
\* exception led into, unless that is among the displaced d; with a clause, those
\* around it are displaced.
Owed(rs, has, e, d) ==
  /\ \A i \in LedInto(rs) : rs[i].kind = "finally"
  /\ d \subseteq LedInto(rs)
  /\ \A i, j \in LedInto(rs) : i < j /\ j \in d => i \in d
  /\ has => LedInto(rs) # {}
  /\ \A i \in LedInto(rs) :
       (\A j \in LedInto(rs) : j <= i) => IF i \in d THEN ~has ELSE has /\ e = rs[i].cause

SlotInv == Owed(regions, hasException, exception, displaced)

LEMMA OwedCut ==
  ASSUME NEW rs \in Seq(RegionSet), NEW has, NEW e, NEW d, Owed(rs, has, e, d), NEW n \in 0..Len(rs),
         \A i \in (n + 1)..Len(rs) : rs[i].cause = NoException
  PROVE  Owed(SubSeq(rs, 1, n), has, e, d) /\ d \cap DOMAIN SubSeq(rs, 1, n) = d
<1> DEFINE r == SubSeq(rs, 1, n)
<1>1. /\ DOMAIN r = 1..n /\ \A i \in 1..n : r[i] = rs[i]
      /\ Len(rs) \in Nat /\ DOMAIN rs = 1..Len(rs)
  BY PrefixOfSeq, LenProperties
<1> HIDE DEF r
<1>2. LedInto(r) = LedInto(rs) /\ LedInto(rs) \subseteq 1..n
  BY <1>1 DEF LedInto
<1>3. \A i \in LedInto(rs) : r[i] = rs[i]
  BY <1>1, <1>2
<1>4. QED
  BY <1>1, <1>2, <1>3 DEF Owed, r

LEMMA OwedGrow ==
  ASSUME NEW rs \in Seq(RegionSet), NEW has, NEW e, NEW d, Owed(rs, has, e, d),
         NEW x \in RegionSet, x.cause = NoException
  PROVE  Owed(Append(rs, x), has, e, d)
<1> DEFINE r == Append(rs, x)
<1>1. /\ DOMAIN r = 1..(Len(rs) + 1) /\ r[Len(rs) + 1] = x /\ \A i \in 1..Len(rs) : r[i] = rs[i]
      /\ Len(rs) \in Nat /\ DOMAIN rs = 1..Len(rs)
  BY AppendToSeq, LenProperties
<1> HIDE DEF r
<1>2. LedInto(r) = LedInto(rs) /\ LedInto(rs) \subseteq 1..Len(rs)
  BY <1>1 DEF LedInto
<1>3. \A i \in LedInto(rs) : r[i] = rs[i]
  BY <1>1, <1>2
<1>4. QED
  BY <1>2, <1>3 DEF Owed, r

\* The end of the last clause, when nothing is pending: if an exception led into it,
\* it is displaced, and so are those around it.
LEMMA OwedEnd ==
  ASSUME NEW rs \in Seq(RegionSet), NEW has, NEW e, NEW d, Owed(rs, has, e, d), ~has,
         NEW n \in Nat, Len(rs) = n + 1
  PROVE  Owed(SubSeq(rs, 1, n), has, e, d \cap DOMAIN SubSeq(rs, 1, n))
<1> DEFINE r == SubSeq(rs, 1, n)
<1>1. /\ DOMAIN r = 1..n /\ \A i \in 1..n : r[i] = rs[i] /\ DOMAIN rs = 1..(n + 1)
  <2>1. n \in 0..Len(rs)
    OBVIOUS
  <2>2. QED
    BY <2>1, PrefixOfSeq, LenProperties
<1> HIDE DEF r
<1>2. LedInto(r) = LedInto(rs) \cap (1..n) /\ LedInto(rs) \subseteq 1..(n + 1)
  BY <1>1 DEF LedInto
<1>3. \A i \in LedInto(r) : r[i] = rs[i]
  BY <1>1, <1>2
<1>4. ASSUME NEW i \in LedInto(r), \A j \in LedInto(r) : j <= i PROVE i \in d
  <2>1. CASE n + 1 \in LedInto(rs)
    <3>1. n + 1 \in d
      BY <1>2, <2>1 DEF Owed
    <3>2. QED
      BY <1>2, <2>1, <3>1 DEF Owed
  <2>2. CASE n + 1 \notin LedInto(rs)
    <3>1. LedInto(rs) = LedInto(r)
      BY <1>2, <2>2
    <3>2. QED
      BY <1>4, <3>1 DEF Owed
  <2>3. QED
    BY <2>1, <2>2
<1>5. DOMAIN r = 1..n /\ LedInto(r) \subseteq 1..n
  BY <1>1, <1>2
<1>6. QED
  BY <1>2, <1>3, <1>4, <1>5 DEF Owed, r

\* handle_exception empties the slot at an except clause and fills it at a finally clause.
LEMMA OwedRaise ==
  ASSUME NEW rs \in Seq(RegionSet), NEW has, NEW e, NEW d, Owed(rs, has, e, d), NEW n \in 0..Len(rs),
         NEW x \in RegionSet, x.cause # NoException => x.kind = "finally"
  PROVE  Owed(Append(SubSeq(rs, 1, n), x), x.cause # NoException, x.cause,
              IF x.cause # NoException THEN d \cap DOMAIN SubSeq(rs, 1, n)
                                       ELSE LedInto(SubSeq(rs, 1, n)))
<1> DEFINE r == SubSeq(rs, 1, n)
           a == Append(r, x)
<1>1. /\ r \in Seq(RegionSet) /\ Len(r) = n /\ DOMAIN r = 1..n /\ \A i \in 1..n : r[i] = rs[i]
      /\ Len(rs) \in Nat /\ DOMAIN rs = 1..Len(rs) /\ n \in Nat
  BY PrefixOfSeq, LenProperties
<1>2. /\ DOMAIN a = 1..(n + 1) /\ a[n + 1] = x /\ \A i \in 1..n : a[i] = r[i]
  <2> HIDE DEF r
  <2>1. QED
    BY <1>1, AppendToSeq
<1> HIDE DEF r, a
<1>3. LedInto(r) = LedInto(rs) \cap (1..n)
  BY <1>1 DEF LedInto
<1>4. \A i \in LedInto(r) : a[i] = rs[i] /\ rs[i].kind = "finally" /\ i \in 1..n
  BY <1>1, <1>2, <1>3 DEF Owed
<1>5. CASE x.cause = NoException
  <2>1. LedInto(a) = LedInto(r)
    BY <1>1, <1>2, <1>5 DEF LedInto
  <2>2. Owed(a, FALSE, x.cause, LedInto(r))
    BY <1>4, <2>1 DEF Owed
  <2>3. QED
    BY <1>5, <2>2 DEF a, r
<1>6. CASE x.cause # NoException
  <2>1. LedInto(a) = LedInto(r) \cup {n + 1}
    BY <1>1, <1>2, <1>6 DEF LedInto
  <2>2. d \cap (1..n) \subseteq LedInto(r)
    BY <1>3 DEF Owed
  <2>3. \A i \in LedInto(a) : a[i].kind = "finally"
    BY <1>2, <1>4, <1>6, <2>1
  <2>4. ASSUME NEW i \in LedInto(a), NEW j \in LedInto(a), i < j, j \in d \cap (1..n)
        PROVE  i \in d \cap (1..n)
    <3>1. i \in LedInto(r) /\ j \in LedInto(r)
      BY <1>1, <1>4, <2>1, <2>2, <2>4
    <3>2. QED
      BY <1>3, <2>4, <3>1 DEF Owed
  <2>5. ASSUME NEW i \in LedInto(a), \A j \in LedInto(a) : j <= i
        PROVE  i \notin d \cap (1..n) /\ x.cause = a[i].cause
    <3>1. i = n + 1
      BY <1>1, <1>4, <2>1, <2>5
    <3>2. QED
      BY <1>1, <1>2, <3>1
  <2>6. Owed(a, TRUE, x.cause, d \cap (1..n))
    BY <2>1, <2>2, <2>3, <2>4, <2>5 DEF Owed
  <2>7. QED
    BY <1>1, <1>6, <2>6 DEF a, r
<1>7. QED
  BY <1>5, <1>6

LEMMA RaiseKeepsSlot ==
  ASSUME NestInv, SlotInv, Running, NEW e \in Exceptions, Raise(e)
  PROVE  SlotInv'
<1>1. CASE Usable = {}
  <2>1. regions' = <<>> /\ ~hasException' /\ displaced' = {}
    BY <1>1, RaiseEnds
  <2>2. LedInto(regions') = {}
    BY <2>1 DEF LedInto
  <2>3. QED
    BY <2>1, <2>2 DEF SlotInv, Owed
<1>2. CASE Usable # {}
  <2>1. PICK i \in 1..Len(handlers), x \in RegionSet :
          /\ Len(handlers[i].at) \in 1..Len(regions)
          /\ regions' = Append(SubSeq(regions, 1, Len(handlers[i].at)), x)
          /\ x.cause = IF hasException' THEN e ELSE NoException
          /\ x.cause # NoException => x.kind = "finally"
          /\ hasException' \in BOOLEAN /\ exception' = x.cause
          /\ displaced' = IF hasException' THEN displaced \cap DOMAIN SubSeq(regions, 1, Len(handlers[i].at))
                                           ELSE LedInto(SubSeq(regions, 1, Len(handlers[i].at)))
    BY <1>2, RaiseLands
  <2> DEFINE n == Len(handlers[i].at)
  <2>2. n \in 0..Len(regions) /\ regions \in Seq(RegionSet)
    BY <2>1, LenProperties DEF NestInv, Typed
  <2>3. hasException' = (x.cause # NoException)
    BY <2>1, ExceptionsAssumption
  <2>4. Owed(regions, hasException, exception, displaced)
    BY DEF SlotInv
  <2> HIDE DEF n
  <2>5. Owed(Append(SubSeq(regions, 1, n), x), x.cause # NoException, x.cause,
             IF x.cause # NoException THEN displaced \cap DOMAIN SubSeq(regions, 1, n)
                                      ELSE LedInto(SubSeq(regions, 1, n)))
    BY <2>1, <2>2, <2>4, OwedRaise
  <2>6. displaced' = IF x.cause # NoException THEN displaced \cap DOMAIN SubSeq(regions, 1, n)
                                              ELSE LedInto(SubSeq(regions, 1, n))
    BY <2>1, <2>3 DEF n
  <2>7. regions' = Append(SubSeq(regions, 1, n), x) /\ exception' = x.cause
    BY <2>1 DEF n
  <2>8. Owed(regions', hasException', exception', displaced')
    BY <2>3, <2>5, <2>6, <2>7
  <2>9. QED
    BY <2>8 DEF SlotInv
<1>3. QED
  BY <1>1, <1>2

LEMMA NextKeepsSlot ==
  ASSUME "jumpOut" \notin Habits, "returnOut" \notin Habits
  PROVE  NestInv /\ SlotInv /\ [ExNext]_exVars => SlotInv'
<1> SUFFICES ASSUME NestInv, SlotInv, [ExNext]_exVars PROVE SlotInv'
  OBVIOUS
<1>1. /\ regions \in Seq(RegionSet) /\ Len(regions) \in Nat /\ DOMAIN regions = 1..Len(regions)
      /\ Owed(regions, hasException, exception, displaced)
  BY LenProperties DEF NestInv, Typed, SlotInv
<1>2. ASSUME NEW n \in 0..Len(regions), regions' = SubSeq(regions, 1, n),
             \A i \in (n + 1)..Len(regions) : regions[i].cause = NoException,
             UNCHANGED <<hasException, exception>>,
             displaced' \in {displaced, displaced \cap DOMAIN regions'}
      PROVE  SlotInv'
  <2>1. /\ Owed(SubSeq(regions, 1, n), hasException, exception, displaced)
        /\ displaced \cap DOMAIN SubSeq(regions, 1, n) = displaced
    BY <1>1, <1>2, OwedCut
  <2>2. displaced' = displaced
    BY <1>2, <2>1
  <2>3. QED
    BY <1>2, <2>1, <2>2 DEF SlotInv
<1>3. ASSUME NEW x \in RegionSet, x.cause = NoException, regions' = Append(regions, x),
             UNCHANGED <<hasException, exception, displaced>>
      PROVE  SlotInv'
  BY <1>1, <1>3, OwedGrow DEF SlotInv
<1>4. ASSUME NEW i \in 1..Len(regions), regions[i].kind # "finally"
      PROVE  regions[i].cause = NoException
  BY <1>1, <1>4 DEF Owed, LedInto
<1>5. ASSUME NEW kind \in {"fn", "loop"}, Enter(kind) PROVE SlotInv'
  <2>1. Plain(kind) \in RegionSet /\ Plain(kind).cause = NoException
    BY DEF Plain, Region, RegionSet
  <2>2. QED
    BY <1>3, <1>5, <2>1 DEF Enter
<1>6. CASE Return
  <2>1. PICK n \in 0..Len(regions) :
          /\ regions' = SubSeq(regions, 1, n)
          /\ n + 1 \in 1..Len(regions) /\ regions[n + 1].kind = "fn"
          /\ \A i \in (n + 2)..Len(regions) : regions[i].kind \notin Clauses
    BY <1>6, CutOfReturn
  <2>2. \A i \in (n + 1)..Len(regions) : i \in 1..Len(regions) /\ (i = n + 1 \/ i \in (n + 2)..Len(regions))
    BY <1>1
  <2>3. \A i \in (n + 1)..Len(regions) : regions[i].cause = NoException
    BY <1>4, <2>1, <2>2 DEF Clauses
  <2>4. QED
    BY <1>2, <1>6, <2>1, <2>3 DEF Return
<1>7. CASE EndLoop
  <2>1. /\ Len(regions) - 1 \in 1..Len(regions) /\ regions' = SubSeq(regions, 1, Len(regions) - 1)
        /\ regions[Len(regions)].kind = "loop" /\ Len(regions) \in Nat \ {0, 1}
        /\ \A i \in (Len(regions) - 1 + 1)..Len(regions) : i = Len(regions)
    BY <1>7, CutOfLast DEF EndLoop
  <2>2. Len(regions) \in 1..Len(regions) /\ Len(regions) - 1 \in 0..Len(regions)
    BY <2>1
  <2>3. \A i \in (Len(regions) - 1 + 1)..Len(regions) : regions[i].cause = NoException
    BY <1>4, <2>1, <2>2
  <2>4. QED
    BY <1>2, <1>7, <2>1, <2>2, <2>3 DEF EndLoop
<1>8. ASSUME NEW breaks \in BOOLEAN, Jump(breaks) PROVE SlotInv'
  <2>1. PICK n \in 1..Len(regions) :
          /\ regions' = SubSeq(regions, 1, n)
          /\ \A i \in (n + 1)..Len(regions) : regions[i].kind \notin Clauses
    BY <1>8, CutOfJump
  <2>2. n \in 0..Len(regions) /\ \A i \in (n + 1)..Len(regions) : i \in 1..Len(regions)
    BY <1>1
  <2>3. \A i \in (n + 1)..Len(regions) : regions[i].cause = NoException
    BY <1>4, <2>1, <2>2 DEF Clauses
  <2>4. QED
    BY <1>2, <1>8, <2>1, <2>2, <2>3 DEF Jump
<1>9. ASSUME NEW exc \in BOOLEAN, NEW fin \in BOOLEAN, Try(exc, fin) PROVE SlotInv'
  <2>1. Region("try", exc, fin, NoException) \in RegionSet
        /\ Region("try", exc, fin, NoException).cause = NoException
    BY DEF Region, RegionSet
  <2>2. QED
    BY <1>3, <1>9, <2>1 DEF Try
<1>10. CASE With
  BY <1>9, <1>10 DEF With
<1>11. CASE EndTry
  <2> DEFINE n == Len(regions) - 1
             x == Region("finally", Here.exc, TRUE, NoException)
  <2>1. /\ Len(regions) \in Nat \ {0, 1} /\ regions # <<>> /\ Here \in RegionSet
        /\ Here = regions[Len(regions)] /\ Here.kind # "finally"
    BY <1>1, <1>11, LastHandler, FrontOfSeq DEF EndTry, Here, NestInv, InFunction
  <2>2. n \in 0..Len(regions) /\ \A i \in (n + 1)..Len(regions) : i \in 1..Len(regions) /\ i = Len(regions)
    <3>1. \A a \in Nat \ {0, 1} : a - 1 \in 0..a /\ \A i \in (a - 1 + 1)..a : i \in 1..a /\ i = a
      OBVIOUS
    <3>2. QED
      BY <2>1, <3>1
  <2>3. regions' = IF Here.fin THEN Append(SubSeq(regions, 1, n), x) ELSE SubSeq(regions, 1, n)
    BY <1>1, <1>11, <2>1, FrontOfSeq DEF EndTry
  <2>4. x \in RegionSet /\ x.cause = NoException
    BY <2>1, RegionFields DEF Region, RegionSet
  <2> HIDE DEF n, x
  <2>5. \A i \in (n + 1)..Len(regions) : regions[i].cause = NoException
    BY <1>4, <2>1, <2>2
  <2>6. Owed(SubSeq(regions, 1, n), hasException, exception, displaced)
    BY <1>1, <2>2, <2>5, OwedCut
  <2>7. SubSeq(regions, 1, n) \in Seq(RegionSet)
    BY <1>1, <2>2, PrefixOfSeq
  <2>8. Owed(Append(SubSeq(regions, 1, n), x), hasException, exception, displaced)
    BY <2>4, <2>6, <2>7, OwedGrow
  <2>9. QED
    BY <1>11, <2>3, <2>6, <2>8 DEF EndTry, SlotInv
<1>12. ASSUME NEW e \in Exceptions, Running, Raise(e) PROVE SlotInv'
  BY <1>12, RaiseKeepsSlot
<1>13. CASE EndFinally
  <2>1. CASE hasException
    BY <1>12, <1>13, <2>1 DEF EndFinally, NestInv, Typed
  <2>2. CASE ~hasException
    <3>1. /\ Len(regions) \in Nat \ {0, 1} /\ regions' = SubSeq(regions, 1, Len(regions) - 1)
          /\ UNCHANGED <<hasException, exception>> /\ displaced' = displaced \cap DOMAIN regions'
      BY <1>13, <2>2, CutOfLast DEF EndFinally
    <3>2. Len(regions) - 1 \in Nat /\ Len(regions) = Len(regions) - 1 + 1
      BY <3>1
    <3>3. Owed(SubSeq(regions, 1, Len(regions) - 1), hasException, exception,
               displaced \cap DOMAIN SubSeq(regions, 1, Len(regions) - 1))
      BY <1>1, <2>2, <3>2, OwedEnd
    <3>4. QED
      BY <3>1, <3>3 DEF SlotInv
  <2>3. QED
    BY <2>1, <2>2
<1>14. CASE UNCHANGED exVars
  BY <1>14 DEF exVars, SlotInv
<1>15. QED
  BY <1>5, <1>6, <1>7, <1>8, <1>9, <1>10, <1>11, <1>12, <1>13, <1>14 DEF ExNext, Throw

LEMMA InitSlot == ExInit => SlotInv
<1> SUFFICES ASSUME ExInit PROVE SlotInv
  OBVIOUS
<1>1. LedInto(regions) = {} /\ ~hasException /\ displaced = {}
  BY DEF ExInit, Plain, Region, LedInto
<1>2. QED
  BY <1>1 DEF SlotInv, Owed

\* One slot serves all finally clauses: it holds the exception of the innermost clause
\* that an exception led into (handle_exception), until an except clause inside it takes
\* over another one and displaces it and those around it.  Hence OP_END_FINALLY never
\* throws an older or a caught exception, and a clause loses its own in this way only,
\* at any depth and with try statements in finally clauses, in programs that do not
\* leave a try statement by break, continue or return.
THEOREM SlotIsOfInnermost ==
  ASSUME "jumpOut" \notin Habits, "returnOut" \notin Habits
  PROVE  ExSpec => []PendingOfFinally
<1>1. NestInv /\ [ExNext]_exVars => NestInv'
  BY NextKeepsNesting
<1>2. NestInv /\ SlotInv /\ [ExNext]_exVars => SlotInv'
  BY NextKeepsSlot
<1>3. SlotInv => PendingOfFinally
  BY DEF SlotInv, Owed, PendingOfFinally
<1>4. QED
  BY <1>1, <1>2, <1>3, InitNested, InitSlot, PTL DEF ExSpec
=============================================================================
