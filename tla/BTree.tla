------------------------------- MODULE BTree -------------------------------
(***************************************************************************)
(* The B-tree store of src/lib/btree.c on a file: pages, the free list,    *)
(* splits on insertion, removal of empty pages on deletion, the header     *)
(* page, and what a crash between two page writes leaves in the file.      *)
(*                                                                         *)
(* A database is a record: the pages of the file, the three fields of      *)
(* BTreeDb that the header repeats, and the file after each of the writes  *)
(* an operation has made.  Bytes are left out but for the room a record    *)
(* takes in a page: that decides splits and failures.  Keys are numbers;   *)
(* a string key differs in its size and its place in the order only.       *)
(*                                                                         *)
(* insert_recursive and btree_delete_recursive read the pages from the     *)
(* root down to a leaf and write on the way back: here they are a path and *)
(* a function over it, from its end to its beginning.                      *)
(***************************************************************************)
EXTENDS Integers, FiniteSets, SequencesExt

CONSTANTS
  Keys,        \* a set of numbers
  Values,
  Entries,     \* bound: the <<key, value>> pairs the program puts
  SizeOf,      \* room of a leaf record and its slot, by value
  SepSize,     \* room of an internal record and its slot
  PageRoom,    \* BTREE_PAGE_SIZE - BTREE_PAGE_HEADER_SIZE
  MaxCrashes,  \* bound
  CrashFrom,   \* bound: a crash is explored in stores of at least so many entries
  MaxPages,    \* bound: no new page is appended beyond it
  AfterCrash   \* bound: whether the explored behaviours go on after a crash

Missing == "missing"
Unreadable == "unreadable"

ASSUME BTreeAssumption ==
  /\ Keys \subseteq Nat
  /\ Entries \subseteq Keys \X Values
  /\ Missing \notin Values /\ Unreadable \notin Values
  /\ SizeOf \in [Values -> Nat \ {0}]
  /\ SepSize \in Nat \ {0} /\ PageRoom \in Nat
  /\ MaxCrashes \in Nat /\ CrashFrom \in Nat /\ MaxPages \in Nat /\ AfterCrash \in BOOLEAN

\* BTREE_PAGE_SIZE is far more than two separators of the sizes modelled.
ASSUME TwoSeparatorsFit == 2 * SepSize <= PageRoom

VARIABLES
  disk,     \* the pages of the file; page 0 is the header
  db,       \* root_page, page_count and free_head of BTreeDb
  store,    \* history: the entries the program has put and not deleted
  lastOk,   \* history: no operation has failed so far
  crashes   \* history: the operations a crash has cut short, in order

btVars == <<disk, db, store, lastOk, crashes>>

----------------------------------------------------------------------------
(* Pages.  The word at offset 8 is left_child of an internal page and the  *)
(* link of the free list of a free one.                                    *)

Page(type, entries, left) == [type |-> type, entries |-> entries, left |-> left]
Leaf(entries) == Page("leaf", entries, 0)
Internal(left, entries) == Page("internal", entries, left)
ZeroPage == Page("free", <<>>, 0)

RecordSize(type, e) == IF type = "leaf" THEN SizeOf[e.value] ELSE SepSize

\* Room of the first records of a page.
Used(page) ==
  LET used[i \in 0..Len(page.entries)] ==
        IF i = 0 THEN 0 ELSE used[i - 1] + RecordSize(page.type, page.entries[i])
  IN used
Fits(page) == Used(page)[Len(page.entries)] <= PageRoom

Without(f, k) == [i \in DOMAIN f \ {k} |-> f[i]]
With(f, k, v) == [i \in DOMAIN f \cup {k} |-> IF i = k THEN v ELSE f[i]]

\* Database under operation: the file, the fields, the files so far, still ok?
Opened(d, f) == [disk |-> d, root |-> f.root, count |-> f.count, free |-> f.free,
                 files |-> <<>>, ok |-> TRUE]
Fields(x) == [root |-> x.root, count |-> x.count, free |-> x.free]

Fail(x) == [x EXCEPT !.ok = FALSE]

WritePage(x, id, page) ==
  LET file == With(x.disk, id, page)
  IN [x EXCEPT !.disk = file, !.files = Append(@, file)]

WriteHeader(x) == WritePage(x, 0, Fields(x))

WriteNode(x, id, page) == IF x.ok /\ Fits(page) THEN WritePage(x, id, page) ELSE Fail(x)

\* The page is the free_head of before, or the last one.
AllocPage(x) ==
  IF x.free = 0
  THEN WriteHeader(WritePage([x EXCEPT !.count = @ + 1], x.count, ZeroPage))
  ELSE IF x.disk[x.free].type = "free"
       THEN WriteHeader([x EXCEPT !.free = x.disk[x.free].left])
       ELSE Fail(x)
AllocatedPage(x) == IF x.free = 0 THEN x.count ELSE x.free

\* Variant: the link of the page freed before is not kept.
FreePageUnlinked(x, id) ==
  IF id = 0 \/ id >= x.count \/ id = x.root THEN Fail(x)
  ELSE WriteHeader([WritePage(x, id, ZeroPage) EXCEPT !.free = id])

FreePage(x, id) ==
  IF id = 0 \/ id >= x.count \/ id = x.root THEN Fail(x)
  ELSE WriteHeader([WritePage(x, id, Page("free", <<>>, x.free)) EXCEPT !.free = id])

Readable(d, id) == id \in DOMAIN d /\ id # 0 /\ d[id].type # "free"

\* Position before which the key goes, and whether it is there already.
LeafSlot(page, k) == Cardinality({i \in DOMAIN page.entries : page.entries[i].key < k}) + 1
InLeaf(page, k) == \E i \in DOMAIN page.entries : page.entries[i].key = k

\* Number of separators to the left of the child that k belongs to; the child.
Route(page, k) == Cardinality({i \in DOMAIN page.entries : page.entries[i].key <= k})
Child(page, slot) == IF slot = 0 THEN page.left ELSE page.entries[slot].child

Inner(d, id) == Readable(d, id) /\ d[id].type = "internal"
IsLeaf(d, id) == Readable(d, id) /\ d[id].type = "leaf"

\* The pages that a search for k from page id reads, after each of its steps.
Descent(d, id, k) ==
  LET path[n \in 0..Cardinality(DOMAIN d)] ==
        IF n = 0 THEN <<id>>
        ELSE LET before == path[n - 1]
                 page == Last(before)
             IN IF Inner(d, page) THEN Append(before, Child(d[page], Route(d[page], k))) ELSE before
  IN path

\* All of them: a tree is not deeper than it has pages.
Path(d, id, k) == Descent(d, id, k)[Cardinality(DOMAIN d)]

----------------------------------------------------------------------------
(* Insertion.  A result is a database and, after a split, the key and the  *)
(* page to link into the parent.                                           *)

Done(x) == [x |-> x, split |-> FALSE]

\* The second half is written whether the first one fits or not.
Split(x, id, left, key, right) ==
  LET page == AllocatedPage(x)
      y == AllocPage(x)
      l == WriteNode(y, id, left)
      r == WriteNode([l EXCEPT !.ok = y.ok], page, right)
  IN [x |-> [r EXCEPT !.ok = l.ok /\ r.ok], split |-> TRUE, key |-> key, right |-> page]

LeafInsert(x, id, k, v) ==
  LET page == x.disk[id]
      pos == LeafSlot(page, k)
      new == [key |-> k, value |-> v]
      all == InsertAt(page.entries, pos, new)
      mid == Len(all) \div 2
  IN IF ~IsLeaf(x.disk, id) THEN Done(Fail(x))
     ELSE IF InLeaf(page, k)
     THEN Done(WriteNode(x, id, Leaf(ReplaceAt(page.entries, pos, new))))
     ELSE IF Fits(Leaf(all)) THEN Done(WriteNode(x, id, Leaf(all)))
     ELSE IF mid = 0 THEN Done(Fail(x))
     ELSE Split(x, id, Leaf(SubSeq(all, 1, mid)), all[mid + 1].key,
                Leaf(SubSeq(all, mid + 1, Len(all))))

\* Variant: the promoted separator also stays in the right half.
SplitInternalKeeping(x, id, left, all) ==
  LET mid == Len(all) \div 2 IN
  Split(x, id, Internal(left, SubSeq(all, 1, mid)), all[mid + 1].key,
        Internal(Child(Internal(left, all), mid), SubSeq(all, mid + 1, Len(all))))

\* The middle separator moves up; its child is the left child of the new page.
SplitInternal(x, id, left, all) ==
  LET mid == Len(all) \div 2 IN
  Split(x, id, Internal(left, SubSeq(all, 1, mid)), all[mid + 1].key,
        Internal(all[mid + 1].child, SubSeq(all, mid + 2, Len(all))))

\* page is what was read on the way down, r what became of the child that k belongs to.
InternalInsert(id, page, k, r) ==
  LET all == InsertAt(page.entries, Route(page, k) + 1, [key |-> r.key, child |-> r.right])
  IN IF ~r.x.ok \/ ~r.split THEN r
     ELSE IF Fits(Internal(page.left, all))
          THEN Done(WriteNode(r.x, id, Internal(page.left, all)))
          ELSE SplitInternal(r.x, id, page.left, all)

\* insert_recursive, by the number of pages above the leaf it is back from.
Insertions(x, k, v) ==
  LET path == Path(x.disk, x.root, k)
      up[i \in 0..(Len(path) - 1)] ==
        IF i = 0 THEN LeafInsert(x, path[Len(path)], k, v)
        ELSE LET id == path[Len(path) - i] IN InternalInsert(id, x.disk[id], k, up[i - 1])
  IN up

Insert(x, k, v) == Insertions(x, k, v)[Len(Path(x.disk, x.root, k)) - 1]

\* Variant: the header names the new root before the page is written.
NewRootHeaderFirst(r) ==
  LET page == AllocatedPage(r.x)
      new == Internal(r.x.root, <<[key |-> r.key, child |-> r.right]>>)
  IN IF ~r.x.ok \/ ~r.split THEN r.x
     ELSE WriteNode(WriteHeader([AllocPage(r.x) EXCEPT !.root = page]), page, new)

\* A new root, if the old one was split.
NewRoot(r) ==
  LET page == AllocatedPage(r.x)
      y == WriteNode(AllocPage(r.x), page,
                     Internal(r.x.root, <<[key |-> r.key, child |-> r.right]>>))
  IN IF ~r.x.ok \/ ~r.split THEN r.x
     ELSE IF ~y.ok THEN y
     ELSE WriteHeader([y EXCEPT !.root = page])

BtPut(x, k, v) == NewRoot(Insert(x, k, v))

----------------------------------------------------------------------------
(* Deletion.  A result says whether the key was there, whether the parent  *)
(* must drop the child or put another in its place, and whether the        *)
(* smallest key below has changed.                                         *)

\* The smallest key below a page, {} when the way there cannot be read.  The left
\* children are those that a key below all keys belongs to.
SubtreeMin(d, id) ==
  LET page == Last(Path(d, id, -1))
  IN IF ~IsLeaf(d, page) THEN {}
     ELSE {d[page].entries[i].key : i \in DOMAIN d[page].entries \cap {1}}

Only(set) == CHOOSE k \in set : TRUE

NoChange(x) == [x |-> x, deleted |-> FALSE, remove |-> FALSE, replacement |-> 0,
                newMin |-> {}]
Deleted(x, newMin) == [NoChange(x) EXCEPT !.deleted = TRUE, !.newMin = newMin]
Removed(x, child) ==
  [NoChange(x) EXCEPT !.deleted = TRUE, !.remove = TRUE, !.replacement = child]

LeafDelete(x, id, k) ==
  LET page == x.disk[id]
      pos == LeafSlot(page, k)
      rest == RemoveAt(page.entries, pos)
      newMin == IF pos = 1 /\ rest # <<>> THEN {rest[1].key} ELSE {}
  IN IF ~IsLeaf(x.disk, id) THEN NoChange(Fail(x))
     ELSE IF ~InLeaf(page, k) THEN NoChange(x)
     ELSE IF rest = <<>> /\ id # x.root THEN Removed(FreePage(x, id), 0)
     ELSE Deleted(WriteNode(x, id, Leaf(rest)), newMin)

\* Variant: the separator in front of the child goes, whichever child it is.
RemoveChildLeft(page, slot) ==
  IF slot = 0 THEN Internal(page.left, RemoveAt(page.entries, 1))
  ELSE Internal(page.left, RemoveAt(page.entries, slot))

RemoveChild(page, slot) ==
  IF slot = 0 THEN Internal(page.entries[1].child, RemoveAt(page.entries, 1))
  ELSE Internal(page.left, RemoveAt(page.entries, slot))

Relink(page, slot, child, d) ==
  IF slot = 0 THEN [page EXCEPT !.left = child]
  ELSE [page EXCEPT !.entries[slot] = [key |-> Only(SubtreeMin(d, child)), child |-> child]]

WithoutChild(page, slot, r) ==
  IF r.remove /\ r.replacement # 0 THEN Relink(page, slot, r.replacement, r.x.disk)
  ELSE IF r.remove THEN RemoveChild(page, slot)
  ELSE IF r.newMin # {} /\ slot > 0
       THEN [page EXCEPT !.entries[slot].key = Only(r.newMin)]
  ELSE page

\* node is what was read on the way down, r what became of the child that k belongs to.
InternalDelete(id, node, k, r) ==
  LET slot == Route(node, k)
      page == WithoutChild(node, slot, r)
      written == WriteNode(r.x, id, page)
      shrunk == WriteHeader([r.x EXCEPT !.root = page.left])
  IN IF ~r.x.ok \/ ~r.deleted THEN r
     ELSE IF r.remove /\ slot > 0 /\ r.replacement # 0
             /\ SubtreeMin(r.x.disk, r.replacement) = {} THEN NoChange(Fail(r.x))
     ELSE IF id = r.x.root
     THEN Deleted(IF page.entries # <<>> THEN written ELSE FreePage(shrunk, id), {})
     ELSE IF page.entries = <<>> THEN Removed(FreePage(r.x, id), page.left)
     ELSE IF slot > 0 \/ ~written.ok THEN Deleted(written, {})
     ELSE IF SubtreeMin(written.disk, id) = {} THEN NoChange(Fail(written))
     ELSE Deleted(written, SubtreeMin(written.disk, id))

\* btree_delete_recursive, by the number of pages above the leaf it is back from.
Deletions(x, k) ==
  LET path == Path(x.disk, x.root, k)
      up[i \in 0..(Len(path) - 1)] ==
        IF i = 0 THEN LeafDelete(x, path[Len(path)], k)
        ELSE LET id == path[Len(path) - i] IN InternalDelete(id, x.disk[id], k, up[i - 1])
  IN up

Delete(x, k) == Deletions(x, k)[Len(Path(x.disk, x.root, k)) - 1]

----------------------------------------------------------------------------
(* Lookup. *)

Lookup(d, id, k) ==
  LET page == Last(Path(d, id, k))
  IN IF ~IsLeaf(d, page) THEN Unreadable
     ELSE IF InLeaf(d[page], k) THEN d[page].entries[LeafSlot(d[page], k)].value
     ELSE Missing

Children(page) ==
  IF page.type = "leaf" THEN <<>>
  ELSE [i \in 1..(Len(page.entries) + 1) |-> Child(page, i - 1)]

\* There are limit rows already; -1 is no limit.
Enough(rows, limit) == limit >= 0 /\ Len(rows) >= limit

\* The rows after each entry of a leaf.
Taken(entries, min, max, limit, rows) ==
  LET taken[i \in 0..Len(entries)] ==
        IF i = 0 THEN rows
        ELSE LET before == taken[i - 1]
                 e == entries[i]
             IN IF Enough(before, limit) \/ e.key < min \/ e.key > max THEN before ELSE Append(before, e)
  IN taken

\* One call of btree_collect_range; c.calls are the pages it is still to be called for.
CollectFrom(d, min, max, limit, c) ==
  LET id == Head(c.calls)
      rest == [c EXCEPT !.calls = Tail(@)]
      entries == d[id].entries
  IN IF c.calls = <<>> \/ ~c.ok THEN c
     ELSE IF Enough(c.rows, limit) THEN rest
     ELSE IF ~Readable(d, id) THEN [c EXCEPT !.ok = FALSE]
     ELSE IF d[id].type = "leaf"
          THEN [rest EXCEPT !.rows = Taken(entries, min, max, limit, @)[Len(entries)]]
          ELSE [rest EXCEPT !.calls = Children(d[id]) \o @]

\* A tree has no more calls than pages.
Collect(d, root, min, max, limit) ==
  LET calls[n \in 0..Cardinality(DOMAIN d)] ==
        IF n = 0 THEN [ok |-> TRUE, rows |-> <<>>, calls |-> <<root>>]
        ELSE CollectFrom(d, min, max, limit, calls[n - 1])
  IN calls

BtRange(d, root, min, max, limit) ==
  IF limit = 0 \/ min > max THEN [ok |-> TRUE, rows |-> <<>>]
  ELSE LET c == Collect(d, root, min, max, limit)[Cardinality(DOMAIN d)]
       IN [ok |-> c.ok, rows |-> c.rows]

----------------------------------------------------------------------------
(* The store in use. *)

NewFile == [root |-> 1, count |-> 2, free |-> 0]

BtInit ==
  /\ disk = [i \in {0, 1} |-> IF i = 0 THEN NewFile ELSE Leaf(<<>>)]
  /\ db = NewFile
  /\ store = <<>>
  /\ lastOk = TRUE
  /\ crashes = <<>>

Exploring == AfterCrash \/ crashes = <<>>

\* x is the database when btree_put returns; db:put raises an error when it has failed.
EndPut(x, k, v) ==
  /\ Exploring
  /\ x.count <= MaxPages
  /\ disk' = x.disk
  /\ db' = Fields(x)
  /\ lastOk' = (lastOk /\ x.ok)
  /\ store' = IF x.ok THEN With(store, k, v) ELSE store
  /\ UNCHANGED crashes

Put(k, v) == EndPut(BtPut(Opened(disk, db), k, v), k, v)

EndDelete(x, k) ==
  /\ Exploring
  /\ disk' = x.disk
  /\ db' = Fields(x)
  /\ lastOk' = (lastOk /\ x.ok)
  /\ store' = IF x.ok THEN Without(store, k) ELSE store
  /\ UNCHANGED crashes

DeleteKey(k) == EndDelete(Delete(Opened(disk, db), k).x, k)

\* The keys that a lookup finds.
Surviving(d) == {k \in Keys : Lookup(d, d[0].root, k) \in Values}

MayCrash == Len(crashes) < MaxCrashes /\ Cardinality(DOMAIN store) >= CrashFrom

\* The process dies after some of the writes of an operation, not all of them; the
\* file is opened again.
Crash(x, op) ==
  /\ MayCrash
  /\ x.count <= MaxPages
  /\ \E n \in 1..(Len(x.files) - 1) : disk' = x.files[n]
  /\ db' = disk'[0]
  /\ store' = [k \in Surviving(disk') |-> Lookup(disk', disk'[0].root, k)]
  /\ crashes' = Append(crashes, op)
  /\ UNCHANGED lastOk

CrashInPut(k, v) == Crash(BtPut(Opened(disk, db), k, v), "put")

CrashInDelete(k) == Crash(Delete(Opened(disk, db), k).x, "delete")

BtNext ==
  \/ \E e \in Entries : Put(e[1], e[2]) \/ CrashInPut(e[1], e[2])
  \/ \E k \in Keys : DeleteKey(k) \/ CrashInDelete(k)

BtSpec == BtInit /\ [][BtNext]_btVars

----------------------------------------------------------------------------
(* Properties. *)

\* The pages at most so many links below a page; all of them.
Reached(d, id) ==
  LET reached[n \in 0..Cardinality(DOMAIN d)] ==
        IF n = 0 THEN {id}
        ELSE LET before == reached[n - 1]
             IN before \cup UNION {ToSet(Children(d[p])) : p \in {q \in before : Readable(d, q)}}
  IN reached
PagesBelow(d, id) == Reached(d, id)[Cardinality(DOMAIN d)]

\* The pages of the free list, one link after the other.
FreeLinks(d, id) ==
  LET link[n \in 0..Cardinality(DOMAIN d)] ==
        IF n = 0 THEN id ELSE LET page == link[n - 1] IN IF page = 0 THEN 0 ELSE d[page].left
  IN link
FreePages(d, id) == {FreeLinks(d, id)[n] : n \in 0..Cardinality(DOMAIN d)} \ {0}

\* A delete frees a page before the page above it is rewritten: only files that no
\* crash has left in between are held to the invariants below.
Intact == "delete" \notin ToSet(crashes)

\* Every page that can be reached is a node; the free list holds free pages only;
\* and the two never meet: a page is not handed out twice, whatever was split,
\* emptied, freed and used again, and whatever put a crash cut short.  While nothing
\* crashes or fails no page is lost: it is reachable, on the free list, or the header.
PagesAccounted ==
  LET live == PagesBelow(disk, db.root)
      free == FreePages(disk, db.free)
  IN Intact =>
     /\ \A id \in live : Readable(disk, id)
     /\ \A id \in free : disk[id].type = "free"
     /\ live \cap free = {}
     /\ crashes = <<>> /\ lastOk => live \cup free \cup {0} = DOMAIN disk

\* Each key is found by the route that lookups take, and no other key is: the
\* separators on the way agree with the leaves after any mix of puts and deletes.
LookupsAgree ==
  Intact => \A k \in Keys :
    Lookup(disk, db.root, k) = IF k \in DOMAIN store THEN store[k] ELSE Missing

\* range returns the entries between its bounds in order, no more than the limit.
RangeAgrees(min, max, limit) ==
  LET r == BtRange(disk, db.root, min, max, limit)
      in == {k \in DOMAIN store : min <= k /\ k <= max}
  IN /\ r.ok
     /\ Len(r.rows) = IF limit = -1 THEN Cardinality(in) ELSE Min({limit, Cardinality(in)})
     /\ \A i \in DOMAIN r.rows :
          /\ r.rows[i].key \in in
          /\ r.rows[i].value = store[r.rows[i].key]
          /\ Cardinality({k \in in : k < r.rows[i].key}) = i - 1

\* From each key on all of the rest, and up to each key at most two.
RangesAgree ==
  Intact => \A k \in Keys : RangeAgrees(k, Max(Keys), -1) /\ RangeAgrees(Min(Keys), k, 2)

\* A crash inside a put or a delete brings no entry back and changes none but the
\* one put; what it loses is one stretch of neighbouring keys.  A put cut short loses
\* nothing unless it took a page, and every key can still be looked up.
CrashKeepsTheRest ==
  [][crashes' # crashes =>
       LET lost == DOMAIN store \ DOMAIN store' IN
       /\ \A a, b \in lost, c \in DOMAIN store : a < c /\ c < b => c \in lost
       /\ lost # {} /\ Last(crashes') = "put" => db # db'
       /\ Cardinality({k \in DOMAIN store' : k \notin DOMAIN store \/ store[k] # store'[k]}) <= 1
       /\ Last(crashes') = "put" => \A k \in Keys : Lookup(disk', db'.root, k) # Unreadable]_btVars
============================================================================
