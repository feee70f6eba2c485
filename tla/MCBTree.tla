------------------------------ MODULE MCBTree ------------------------------
(* Instances of BTree for model checking: records of two sizes.             *)
EXTENDS BTree

CONSTANTS small, big

Sizes == [v \in {small, big} |-> IF v = small THEN 4 ELSE 5]

Pairs == Keys \X {small}

(* The view: page numbers do not matter, so states that differ in them only *)
(* are one.  Pages are listed from the root down, then those of the free    *)
(* list; each is shown as its first place in the list with what it holds.   *)

RECURSIVE Downwards(_)
Downwards(id) ==
  IF Readable(disk, id) THEN FoldLeft(LAMBDA s, c : s \o Downwards(c), <<id>>, Children(disk[id])) ELSE <<id>>

RECURSIVE FreeFrom(_, _)
FreeFrom(id, seen) ==
  IF id = 0 \/ id \in ToSet(seen) THEN Append(seen, id) ELSE FreeFrom(disk[id].left, Append(seen, id))

Listed == Downwards(db.root) \o FreeFrom(db.free, <<>>)

Shown(id) ==
  IF Readable(disk, id)
  THEN <<disk[id].type, [i \in DOMAIN disk[id].entries |->
          IF disk[id].type = "leaf" THEN disk[id].entries[i] ELSE disk[id].entries[i].key]>>
  ELSE <<"free">>

Renumbered ==
  LET pages == Listed
  IN <<[i \in DOMAIN pages |-> <<Min({j \in 1..i : pages[j] = pages[i]}), Shown(pages[i])>>],
       Cardinality(DOMAIN disk), db = disk[0], store, lastOk, crashes>>
=============================================================================
