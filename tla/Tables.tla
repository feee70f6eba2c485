------------------------------- MODULE Tables -------------------------------
(***************************************************************************)
(* The tables of the language (table.c): an open-addressing hash with      *)
(* tombstones beside a growing array, the inline cache of one indexing     *)
(* instruction (ops_table.c, chunk.h), the operations scripts change       *)
(* tables with, and the collector, after which the address of a dead table *)
(* serves a new one.                                                       *)
(*                                                                         *)
(* Keys of the hash are the names and, for an index the array cannot hold, *)
(* the index itself (number_key_string makes a string of it).              *)
(***************************************************************************)
EXTENDS Integers, FiniteSets, FiniteSetsExt, SequencesExt

CONSTANTS
  Names,        \* strings that scripts use as keys
  Indexes,      \* numbers that scripts use as keys
  Data,         \* values that are not nil
  Nil, NoKey,
  Hash,         \* the hash of each key
  MinHash,      \* first capacity of the hash, 8 in the code
  MinArray,     \* first capacity of the array, 8 in the code
  Address,      \* where tables can be allocated
  Vars,         \* variables of the script
  MaxWrites     \* bound of the model on the writes of a behaviour

ASSUME SizesAssumption == MinHash \in Nat \ {0, 1} /\ MinArray \in Nat \ {0}

VARIABLES
  heap,         \* what is at each address
  held,         \* the table each variable refers to, or Nil
  site,         \* the inline cache of the instruction that reads x[name]
  contents,     \* what the script has put under the names of each table
  writes        \* number of writes so far

vars == <<heap, held, site, contents, writes>>

Value == Data \cup {Nil}
Key == Names \cup Indexes

Blank == [key |-> NoKey, value |-> Nil]
\* What is left of a deleted entry: BOOL_VAL(1) under no key.
Tombstone == [key |-> NoKey, value |-> TRUE]
Entry == [key : Key, value : Value] \cup {Blank, Tombstone}

Table == [entries : Seq(Entry), capacity : Nat, count : Nat, version : Nat, array : Seq(Value), max : Nat]

\* No name spells an index.
ASSUME KeysAssumption ==
  /\ Indexes \subseteq Int /\ Names \cap Indexes = {} /\ NoKey \notin Key
  /\ Hash \in [Key -> Nat]

ASSUME NilAssumption == Nil \notin Data \cup Address \cup Table \cup {TRUE}

----------------------------------------------------------------------------
(* The hash. *)

EmptyTable == [entries |-> <<>>, capacity |-> 0, count |-> 0, version |-> 0, array |-> <<>>, max |-> 0]

\* The slot the search for a key tries after d others.
Slot(key, d, capacity) == 1 + ((Hash[key] + d) % capacity)

\* Not find_entry: it stops at the first tombstone.
FindTombstone(entries, capacity, key) ==
  LET Probe(d) == Slot(key, d, capacity)
  IN Probe(Min({d \in 0..(capacity - 1) : entries[Probe(d)].key \in {NoKey, key}}))

\* find_entry: along the probe sequence, the entry of the key, else the first
\* tombstone before the first blank slot, else that slot.
Find(entries, capacity, key) ==
  LET Probe(d) == Slot(key, d, capacity)
      last == Min({d \in 0..(capacity - 1) : entries[Probe(d)] = Blank \/ entries[Probe(d)].key = key})
      graves == {d \in 0..last : entries[Probe(d)] = Tombstone}
  IN IF entries[Probe(last)].key = key \/ graves = {} THEN Probe(last) ELSE Probe(Min(graves))

\* The new entries after each of the old ones.
Placed(t, capacity) ==
  LET placed[i \in 0..t.capacity] ==
        IF i = 0 THEN [slot \in 1..capacity |-> Blank]
        ELSE LET entries == placed[i - 1]
                 e == t.entries[i]
             IN IF e.key = NoKey THEN entries
                ELSE [entries EXCEPT ![Find(entries, capacity, e.key)] = e]
  IN placed

\* adjust_capacity: tombstones stay behind.
Rehash(t, capacity) ==
  [t EXCEPT !.entries = Placed(t, capacity)[t.capacity],
            !.capacity = capacity,
            !.count = Cardinality({i \in 1..t.capacity : t.entries[i].key # NoKey})]

Has(t, key) == t.count # 0 /\ t.entries[Find(t.entries, t.capacity, key)].key = key
Get(t, key) == IF Has(t, key) THEN t.entries[Find(t.entries, t.capacity, key)].value ELSE Nil

\* Not table_set: the hash may fill up.
RoomFull(t) ==
  IF t.count + 1 > t.capacity
  THEN Rehash(t, IF t.capacity < MinHash THEN MinHash ELSE 2 * t.capacity) ELSE t

Room(t) ==
  IF 4 * (t.count + 1) > 3 * t.capacity
  THEN Rehash(t, IF t.capacity < MinHash THEN MinHash ELSE 2 * t.capacity) ELSE t

Set(t, key, value) ==
  LET r == Room(t)
      slot == Find(r.entries, r.capacity, key)
  IN [r EXCEPT !.entries[slot] = [key |-> key, value |-> value],
               !.count = IF r.entries[slot] = Blank THEN @ + 1 ELSE @,
               !.version = @ + 1]

Delete(t, key) ==
  [t EXCEPT !.entries[Find(t.entries, t.capacity, key)] = Tombstone, !.version = @ + 1]

----------------------------------------------------------------------------
(* The array. *)

At(t, index) == IF index \in DOMAIN t.array THEN t.array[index] ELSE Nil

\* The length the library functions see: up to the first nil.
Dense(t) == Max({0} \cup {n \in DOMAIN t.array : \A i \in 1..n : t.array[i] # Nil})

\* The size n is grown to, doubling, until it holds index.
Doublings(n, index) == LET size[k \in 0..index] == IF k = 0 THEN n ELSE 2 * size[k - 1] IN size
Doubled(n, index) ==
  LET size == Doublings(n, index) IN size[Min({k \in 0..index : size[k] >= index})]

Grow(t, capacity) ==
  [t EXCEPT !.array = [i \in 1..capacity |-> At(t, i)]]

\* Room for an index past the array.
Holding(t, index) ==
  LET first == IF t.array = <<>> THEN MinArray ELSE 2 * Len(t.array)
  IN IF index > Len(t.array) THEN Grow(t, Doubled(first, index)) ELSE t

\* table_set_array takes an index in its capacity or one past the last.
Fits(t, index) == index >= 1 /\ (index <= t.max + 1 \/ index <= Len(t.array))

\* Not table_set_array: only an append moves the maximum.
SetArrayAppend(t, index, value) ==
  LET w == [Holding(t, index) EXCEPT !.array[index] = value]
  IN IF ~Fits(t, index) THEN t
     ELSE IF value # Nil /\ index = t.max + 1 THEN [w EXCEPT !.max = index]
     ELSE w

SetArray(t, index, value) ==
  LET w == [Holding(t, index) EXCEPT !.array[index] = value]
      lower == {i \in 1..(index - 1) : w.array[i] # Nil}
  IN IF ~Fits(t, index) THEN t
     ELSE IF value # Nil THEN [w EXCEPT !.max = IF index > @ THEN index ELSE @]
     ELSE IF index = t.max THEN [w EXCEPT !.max = Max({0} \cup lower)]
     ELSE w

\* table.push, which does not go through table_set_array.
Push(t, value) ==
  LET index == t.max + 1
  IN [Holding(t, index) EXCEPT !.array[index] = value, !.max = index]

\* Where table.insert puts its element in a list of n.
Clamped(pos, n) == IF pos < 1 THEN 1 ELSE IF pos > n + 1 THEN n + 1 ELSE pos

\* The table after each step of a loop that moves the elements at places, in
\* their order, by one place up or down.
Moved(t, places, by) ==
  LET moved[k \in 0..Len(places)] ==
        IF k = 0 THEN t
        ELSE LET u == moved[k - 1] IN SetArray(u, places[k] + by, At(u, places[k]))
  IN moved

\* Not table.insert: the first element moves first.
InsertUpwards(t, pos, value) ==
  LET n == Dense(t)
      at == Clamped(pos, n)
      places == [k \in 1..(n - at + 1) |-> at + k - 1]
  IN SetArray(Moved(t, places, 1)[n - at + 1], at, value)

\* table.insert: the elements from pos on move up, the last one first.
Insert(t, pos, value) ==
  LET n == Dense(t)
      at == Clamped(pos, n)
      places == [k \in 1..(n - at + 1) |-> n - k + 1]
  IN SetArray(Moved(t, places, 1)[n - at + 1], at, value)

\* table.remove: the elements after pos move down.
TakeOut(t, pos) ==
  LET n == Dense(t)
      places == [k \in 1..(n - pos) |-> pos + k]
  IN IF pos < 1 \/ pos > n THEN t ELSE SetArray(Moved(t, places, -1)[n - pos], n, Nil)

Reserve(t, n) ==
  IF n <= Len(t.array) THEN t
  ELSE Grow(t, Doubled(IF t.array = <<>> THEN MinArray ELSE Len(t.array), n))

\* table.clone: the array as it is, the hash anew without the nils.
Cloned(t) ==
  LET cloned[i \in 0..t.capacity] ==
        IF i = 0 THEN [EmptyTable EXCEPT !.array = t.array, !.max = t.max]
        ELSE LET e == t.entries[i]
             IN IF e.key = NoKey \/ e.value = Nil THEN cloned[i - 1]
                ELSE Set(cloned[i - 1], e.key, e.value)
  IN cloned
Clone(t) == Cloned(t)[t.capacity]

\* Negative indexes count from the end.
Resolved(t, index) == IF index < 0 THEN Dense(t) + index + 1 ELSE index

SetIndex(t, index, value) ==
  LET i == Resolved(t, index)
  IN IF Fits(t, i) THEN SetArray(t, i, value) ELSE Set(t, index, value)

DeleteIndex(t, index) ==
  LET i == Resolved(t, index)
  IN IF At(t, i) # Nil THEN SetArray(t, i, Nil) ELSE IF Has(t, index) THEN Delete(t, index) ELSE t

----------------------------------------------------------------------------
(* Scripts and the collector. *)

Free == {a \in Address : heap[a] = Nil}
NoCache == [table |-> Nil, key |-> NoKey, version |-> 0, value |-> Nil]

Init ==
  /\ heap = [a \in Address |-> Nil]
  /\ held = [x \in Vars |-> Nil]
  /\ site = NoCache
  /\ contents = [a \in Address |-> <<>>]
  /\ writes = 0

Write(a, t, c) ==
  /\ writes < MaxWrites
  /\ writes' = writes + 1
  /\ heap' = [heap EXCEPT ![a] = t]
  /\ contents' = [contents EXCEPT ![a] = c]
  /\ UNCHANGED <<held, site>>

Allocate(x, t, c) ==
  \E a \in Free :
    /\ writes < MaxWrites
    /\ writes' = writes + 1
    /\ heap' = [heap EXCEPT ![a] = t]
    /\ contents' = [contents EXCEPT ![a] = c]
    /\ held' = [held EXCEPT ![x] = a]
    /\ UNCHANGED site

\* x = {} and x = table.clone(y)
NewTable == \E x \in Vars : Allocate(x, EmptyTable, <<>>)
CloneTable ==
  \E x, y \in Vars :
    /\ held[y] # Nil
    /\ LET c == contents[held[y]]
       IN Allocate(x, Clone(heap[held[y]]), [k \in {n \in DOMAIN c : c[n] # Nil} |-> c[k]])

\* x = nil
Forget ==
  \E x \in Vars : held' = [held EXCEPT ![x] = Nil] /\ UNCHANGED <<heap, site, contents, writes>>

\* x[k], the instruction with the cache.  A miss looks the key up and, when it
\* is there, fills the cache.
Hit(a, k) == site.table = a /\ site.key = k /\ site.version = heap[a].version
Read ==
  \E x \in Vars, k \in Names :
    LET a == held[x]
    IN /\ a # Nil
       /\ ~Hit(a, k)
       /\ Has(heap[a], k)
       /\ site' = [table |-> a, key |-> k, version |-> heap[a].version, value |-> Get(heap[a], k)]
       /\ UNCHANGED <<heap, held, contents, writes>>

SetName ==
  \E x \in Vars, k \in Names, v \in Value :
    LET a == held[x]
    IN a # Nil /\ Write(a, Set(heap[a], k, v), [n \in DOMAIN contents[a] \cup {k} |-> IF n = k THEN v ELSE contents[a][n]])

\* del x[k]; without the key an exception and nothing else.
DeleteName ==
  \E x \in Vars, k \in Names :
    LET a == held[x]
    IN /\ a # Nil
       /\ Has(heap[a], k)
       /\ Write(a, Delete(heap[a], k), [n \in DOMAIN contents[a] \ {k} |-> contents[a][n]])

ArrayWrite(T(_)) == \E x \in Vars : held[x] # Nil /\ Write(held[x], T(heap[held[x]]), contents[held[x]])

WriteIndex  == \E i \in Indexes, v \in Value : LET T(t) == SetIndex(t, i, v) IN ArrayWrite(T)
EraseIndex  == \E i \in Indexes : LET T(t) == DeleteIndex(t, i) IN ArrayWrite(T)
AppendValue == \E v \in Value : LET T(t) == SetIndex(t, t.max + 1, v) IN ArrayWrite(T)
PushValue   == \E v \in Value : LET T(t) == Push(t, v) IN ArrayWrite(T)
InsertValue == \E i \in Indexes, v \in Value : LET T(t) == Insert(t, i, v) IN ArrayWrite(T)
RemoveValue == \E i \in Indexes : LET T(t) == TakeOut(t, i) IN ArrayWrite(T)
ReserveRoom == \E i \in Indexes : LET T(t) == Reserve(t, i) IN ArrayWrite(T)

\* Not mark_object: caches do not keep their table.
MarkedRoots == {held[x] : x \in Vars}

\* mark_object follows the variables and the cached table (object.c:376).
Marked == {held[x] : x \in Vars} \cup {site.table}

\* collect_garbage
Collect ==
  /\ \E a \in Address : heap[a] # Nil /\ a \notin Marked
  /\ heap' = [a \in Address |-> IF a \in Marked THEN heap[a] ELSE Nil]
  /\ contents' = [a \in Address |-> IF a \in Marked THEN contents[a] ELSE <<>>]
  /\ UNCHANGED <<held, site, writes>>

Next ==
  \/ NewTable \/ CloneTable \/ Forget \/ Read \/ SetName \/ DeleteName
  \/ WriteIndex \/ EraseIndex \/ AppendValue \/ PushValue \/ InsertValue \/ RemoveValue \/ ReserveRoom
  \/ Collect

Spec == Init /\ [][Next]_vars

----------------------------------------------------------------------------
(* Properties. *)

Live == {a \in Address : heap[a] # Nil}

\* A lookup ends: it walks on until a slot that is blank, and the load factor,
\* which counts the tombstones, leaves one (find_entry, table_set).
BlankSlotLeft ==
  \A a \in Live : heap[a].capacity > 0 => \E i \in 1..heap[a].capacity : heap[a].entries[i] = Blank

\* Under each name a table holds what was last put there, whatever was deleted,
\* moved by growth or cloned in between.
NamesAgree ==
  \A a \in Live, k \in Names :
    /\ Has(heap[a], k) = (k \in DOMAIN contents[a])
    /\ k \in DOMAIN contents[a] => Get(heap[a], k) = contents[a][k]

\* The inline cache never answers with a value the table does not hold, not
\* even when a new table has the address of a dead one (ops_table.c:120).
CacheFresh ==
  \A x \in Vars, k \in Names :
    held[x] # Nil /\ Hit(held[x], k) => Has(heap[held[x]], k) /\ site.value = Get(heap[held[x]], k)

\* Past array_max there is nothing: what appends, searches or inserts by it
\* overwrites and misses no element (table_set_array, table.push).
NothingPastMax ==
  \A a \in Live : \A i \in DOMAIN heap[a].array : heap[a].array[i] # Nil => i <= heap[a].max

\* table.insert keeps the elements of a list: none is lost when the array is
\* full or has holes after them.
List(t) == SubSeq(t.array, 1, Dense(t))
InsertKeepsElements ==
  \A a \in Live, i \in Indexes, v \in Data :
    LET t == heap[a]
        n == Dense(t)
        at == Max({1, Min({i, n + 1})})
    IN SubSeq(Insert(t, i, v).array, 1, n + 1) = InsertAt(List(t), at, v)

\* An index lives in the array or in the hash.  Not so (MCTablesHomes.cfg): one
\* that was put in the hash stays there when table_set_array takes it later.
OneHome ==
  \A a \in Live, i \in Indexes : At(heap[a], i) # Nil => ~Has(heap[a], i)
=============================================================================
