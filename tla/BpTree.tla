------------------------------- MODULE BpTree -------------------------------
(***************************************************************************)
(* The B+ tree of src/src/storage/bptree.rs: leaves in pages that the      *)
(* buffer pool may write and drop between calls, insert_leaf with its      *)
(* split, its sibling links and each of its early returns, and find_record *)
(* along an internal root.  The code leaves it to the caller to put the    *)
(* promoted key into the root (Install).  Which page the pool evicts, and  *)
(* how it does so, is the subject of BufferPool.tla; here it may be any.   *)
(* The order of a leaf's records is the subject of LeafPage.tla; here they *)
(* are kept in the order of their slots (Tidy).                            *)
(***************************************************************************)
EXTENDS LeafNode, InternalNode

CONSTANTS
  PoolFails,   (* a fetch or an allocation may fail: an I/O error, or no   *)
               (* frame to evict                                           *)
  NoNode,      (* the None of page_table.get; a page the file has not got  *)
  MaxPage      (* bound: pages allocated                                   *)

ASSUME TreeAssumption ==
  /\ PoolFails \in BOOLEAN
  /\ MaxPage \in Nat \ {0}

VARIABLES
  cache,      (* page_table: the leaf in the frame of a cached page        *)
  disk,       (* the leaf in the file                                      *)
  next_free,  (* header.next_free_offset, in pages                         *)
  root,       (* the internal node of the caller's root page               *)
  pending,    (* SplitResult not yet installed in the root, or Installed   *)
  torn,       (* an insert_leaf failed after it changed a page (history)   *)
  last        (* <<operation, key, payload, result>> of the last call      *)

vars == <<cache, disk, next_free, root, pending, torn, last>>

Pages     == 1 .. MaxPage
NoSibling == 0
FirstLeaf == 1
Installed == [left |-> 0, promoted |-> 0, right |-> 0]

Leaf == [leaf : [slots : Seq(Nat), records : Seq(Record), free_size : {0}],
         prev : 0 .. MaxPage, next : 0 .. MaxPage, dirty : BOOLEAN]

(* None is no leaf. *)
ASSUME NoNodeAssumption == NoNode \notin Leaf

Results == {"Ok", "DuplicateKey", "TupleTooLarge", "PageFull", "KeyNotFound",
            "CorruptPage", "panic", "Pool"}

NewLeaf == [leaf |-> Empty, prev |-> NoSibling, next |-> NoSibling, dirty |-> FALSE]

(* The leaf with its records in the order of the slots. *)
Tidy(n) ==
  [slots     |-> [i \in 1 .. Len(n.slots) |-> i],
   records   |-> [i \in 1 .. Len(n.slots) |-> n.records[n.slots[i]]],
   free_size |-> 0]

(* What fetch_page makes of the page: the frame, or what the file has. *)
Held(p) == IF cache[p] # NoNode THEN cache[p] ELSE disk[p]

(* The leaf of a row, as find_record routes to it. *)
LeafOf(k) == RouteKey(root, k)

(* The first leaf has been written, empty, before the tree is used. *)
Init ==
  /\ cache = [p \in Pages |-> IF p = FirstLeaf THEN NewLeaf ELSE NoNode]
  /\ disk = cache
  /\ next_free = FirstLeaf + 1
  /\ root = [slots |-> <<>>, entries |-> <<>>, rightmost |-> FirstLeaf]
  /\ pending = Installed
  /\ torn = FALSE
  /\ last = <<"new", NoRow, NoRow, "Ok">>

-----------------------------------------------------------------------------
Returns(op, k, v, ret) == last' = <<op, k, v, ret>>

(* The caller has installed the last split and passes the leaf of the key. *)
Called(p, k) ==
  /\ pending = Installed
  /\ p = LeafOf(k)

(* insert_leaf cannot fetch the leaf.                                      *)
FetchFails(p, k, v) ==
  /\ Called(p, k)
  /\ PoolFails \/ Held(p) = NoNode
  /\ Returns("insert", k, v, "Pool")
  /\ UNCHANGED <<cache, disk, next_free, root, pending, torn>>

(* Faulty: the change is not marked. *)
InsertUnmarked(p, k, v) ==
  LET r == InsertRecord(Held(p).leaf, k, v) IN
  /\ Called(p, k)
  /\ Held(p) # NoNode
  /\ r.ret # "PageFull"
  /\ cache' = [cache EXCEPT ![p] = [Held(p) EXCEPT !.leaf = Tidy(r.node)]]
  /\ torn' = (torn \/ r.ret = "panic")
  /\ Returns("insert", k, v, r.ret)
  /\ UNCHANGED <<disk, next_free, root, pending>>

(* insert_leaf without a split: the record is in, or refused; or compact   *)
(* panics, with the record in and the node not marked.                     *)
InsertInPlace(p, k, v) ==
  LET r == InsertRecord(Held(p).leaf, k, v) IN
  /\ Called(p, k)
  /\ Held(p) # NoNode
  /\ r.ret # "PageFull"
  /\ cache' = [cache EXCEPT ![p] = [Held(p) EXCEPT !.leaf = Tidy(r.node),
                                                   !.dirty = @ \/ r.ret = "Ok"]]
  /\ torn' = (torn \/ r.ret = "panic")
  /\ Returns("insert", k, v, r.ret)
  /\ UNCHANGED <<disk, next_free, root, pending>>

(* The page is full and new_page fails: nothing has changed yet.           *)
NewPageFails(p, k, v) ==
  /\ PoolFails
  /\ Called(p, k)
  /\ Held(p) # NoNode
  /\ InsertRecord(Held(p).leaf, k, v).ret = "PageFull"
  /\ cache' = [cache EXCEPT ![p] = Held(p)]
  /\ Returns("insert", k, v, "Pool")
  /\ UNCHANGED <<disk, next_free, root, pending, torn>>

(* The page is full and new_page gives page q. *)
SplitStarts(p, q, k, v) ==
  /\ Called(p, k)
  /\ Held(p) # NoNode
  /\ InsertRecord(Held(p).leaf, k, v).ret = "PageFull"
  /\ q = next_free
  /\ q \in Pages
  /\ next_free' = next_free + 1
  /\ UNCHANGED <<disk, root>>

(* split, and the insert into the half the key belongs to. *)
Halves(p, k, v) ==
  LET s == Split(Held(p).leaf)
      r == InsertRecord(IF k < s.promoted THEN s.left ELSE s.right, k, v)
  IN
  IF s.ret # "Ok"
  THEN [left |-> s.left, right |-> s.right, promoted |-> s.promoted, ret |-> s.ret]
  ELSE [left     |-> IF k < s.promoted THEN r.node ELSE s.left,
        right    |-> IF k < s.promoted THEN s.right ELSE r.node,
        promoted |-> s.promoted,
        ret      |-> r.ret]

(* The split, or the insert after it, returns an error or panics: the      *)
(* upper half is in a page nobody knows, and neither page is marked.       *)
SplitFails(p, q, k, v) ==
  LET h == Halves(p, k, v) IN
  /\ SplitStarts(p, q, k, v)
  /\ h.ret # "Ok"
  /\ cache' = [cache EXCEPT ![p] = [Held(p) EXCEPT !.leaf = Tidy(h.left)],
                            ![q] = [NewLeaf EXCEPT !.leaf = Tidy(h.right)]]
  /\ torn' = TRUE
  /\ Returns("insert", k, v, h.ret)
  /\ UNCHANGED pending

(* The halves, linked to each other and to what follows. *)
LeftHalf(p, q, h, marked) ==
  [Held(p) EXCEPT !.leaf = Tidy(h.left), !.next = q, !.dirty = @ \/ marked]
RightHalf(p, h, marked) ==
  [leaf |-> Tidy(h.right), prev |-> p, next |-> Held(p).next, dirty |-> marked]

(* Both halves are linked, and the old right sibling cannot be fetched:    *)
(* neither half is marked.  (Once torn, a sibling that was lost may read   *)
(* as zeros instead, which decode as an internal node and are passed over  *)
(* without an error; nothing is promised by then.)                         *)
SiblingFails(p, q, k, v) ==
  LET h == Halves(p, k, v)
      o == Held(p).next
  IN
  /\ SplitStarts(p, q, k, v)
  /\ h.ret = "Ok"
  /\ o # NoSibling
  /\ PoolFails \/ Held(o) = NoNode
  /\ cache' = [cache EXCEPT ![p] = LeftHalf(p, q, h, FALSE),
                            ![q] = RightHalf(p, h, FALSE)]
  /\ torn' = TRUE
  /\ Returns("insert", k, v, "Pool")
  /\ UNCHANGED pending

(* Faulty: the old right sibling keeps its link to the left half. *)
InsertSplittingOneWay(p, q, k, v) ==
  LET h == Halves(p, k, v) IN
  /\ SplitStarts(p, q, k, v)
  /\ h.ret = "Ok"
  /\ cache' = [cache EXCEPT ![p] = LeftHalf(p, q, h, TRUE), ![q] = RightHalf(p, h, TRUE)]
  /\ pending' = [left |-> p, promoted |-> h.promoted, right |-> q]
  /\ Returns("insert", k, v, "Ok")
  /\ UNCHANGED torn

(* insert_leaf with a split. *)
InsertSplitting(p, q, k, v) ==
  LET h == Halves(p, k, v)
      o == Held(p).next
      linked == [cache EXCEPT ![p] = LeftHalf(p, q, h, TRUE), ![q] = RightHalf(p, h, TRUE)]
  IN
  /\ SplitStarts(p, q, k, v)
  /\ h.ret = "Ok"
  /\ \/ /\ o = NoSibling
        /\ cache' = linked
     \/ /\ o # NoSibling
        /\ Held(o) # NoNode
        /\ cache' = [linked EXCEPT ![o] = [Held(o) EXCEPT !.prev = q, !.dirty = TRUE]]
  /\ pending' = [left |-> p, promoted |-> h.promoted, right |-> q]
  /\ Returns("insert", k, v, "Ok")
  /\ UNCHANGED torn

(* delete_record on the leaf of the key, marked as recovery marks it.      *)
Delete(p, k) ==
  LET r == DeleteRecord(Held(p).leaf, k) IN
  /\ Called(p, k)
  /\ Held(p) # NoNode
  /\ cache' = [cache EXCEPT ![p] = [Held(p) EXCEPT !.leaf = Tidy(r.node),
                                                   !.dirty = @ \/ r.ret = "Ok"]]
  /\ Returns("delete", k, NoRow, r.ret)
  /\ UNCHANGED <<disk, next_free, root, pending, torn>>

-----------------------------------------------------------------------------
(* Faulty: the slot is taken before the entry is pushed. *)
InstallEntryOffByOne(n, s) ==
  [slots     |-> Append(n.slots, Len(n.entries)),
   entries   |-> Append(n.entries, [key |-> s.promoted, child |-> s.left]),
   rightmost |-> s.right]

(* The caller routes the keys from the promoted one on to the new page.    *)
(* The entry goes before the first one with a larger key; the child that   *)
(* was the left page there becomes the right one.                          *)
InstallEntry(n, s) ==
  LET right == {i \in 1 .. Len(n.slots) : EntryKey(n, i) > s.promoted}
      entry == [key |-> s.promoted, child |-> s.left]
      place == IF right = {} THEN Len(n.slots) + 1 ELSE Min(right)
      moved == IF right = {} THEN n.entries
               ELSE [n.entries EXCEPT ![n.slots[Min(right)]].child = s.right]
  IN
  [slots     |-> InsertAt(n.slots, place, Len(n.entries) + 1),
   entries   |-> Append(moved, entry),
   rightmost |-> IF right = {} THEN s.right ELSE n.rightmost]

Install ==
  /\ pending # Installed
  /\ root' = InstallEntry(root, pending)
  /\ pending' = Installed
  /\ UNCHANGED <<cache, disk, next_free, torn, last>>

(* The root page is written, evicted and read again; one that does not fit *)
(* stays in its frame.                                                     *)
ReloadRoot ==
  /\ InternalFits(root)
  /\ root' = DecodeInternal(EncodeInternal(root))
  /\ UNCHANGED <<cache, disk, next_free, pending, torn, last>>

(* The pool evicts a page: it writes the page if it is marked, and fits.   *)
Evict(p) ==
  /\ cache[p] # NoNode
  /\ cache[p].dirty => Fits(cache[p].leaf)
  /\ disk' = IF cache[p].dirty
             THEN [disk EXCEPT ![p] = [cache[p] EXCEPT !.dirty = FALSE]]
             ELSE disk
  /\ cache' = [cache EXCEPT ![p] = NoNode]
  /\ UNCHANGED <<next_free, root, pending, torn, last>>

Next ==
  \/ \E p \in Pages, k \in Keys :
       \/ Delete(p, k)
       \/ \E v \in Payloads :
            \/ FetchFails(p, k, v) \/ InsertInPlace(p, k, v) \/ NewPageFails(p, k, v)
            \/ \E q \in Pages :
                 SplitFails(p, q, k, v) \/ SiblingFails(p, q, k, v) \/ InsertSplitting(p, q, k, v)
  \/ Install \/ ReloadRoot
  \/ \E p \in Pages : Evict(p)

Spec == Init /\ [][Next]_vars

-----------------------------------------------------------------------------
(* The leaves from the first one on, along next_page_id. *)
Chain ==
  LET walk[n \in 1 .. MaxPage] ==
        IF n = 1 THEN <<FirstLeaf>>
        ELSE LET w == walk[n - 1]
                 l == Held(w[Len(w)])
             IN IF l = NoNode \/ l.next = NoSibling \/ Contains(w, l.next)
                THEN w ELSE Append(w, l.next)
  IN walk[MaxPage]

RowIn(p, k) == IF Held(p) = NoNode THEN NoRow ELSE GetRecord(Held(p).leaf, k)

(* find_record from the root down, and what it finds once the caller has   *)
(* installed the last split.                                               *)
FindRecord(k) == RowIn(LeafOf(k), k)

Rows ==
  IF pending = Installed
  THEN [k \in Keys |-> FindRecord(k)]
  ELSE [k \in Keys |-> IF LeafOf(k) = pending.left /\ k >= pending.promoted
                       THEN RowIn(pending.right, k)
                       ELSE FindRecord(k)]

-----------------------------------------------------------------------------
TypeOK ==
  /\ cache \in [Pages -> Leaf \cup {NoNode}]
  /\ disk \in [Pages -> Leaf \cup {NoNode}]
  /\ next_free \in 2 .. MaxPage + 1
  /\ root.slots \in Seq(1 .. Len(root.entries))
  /\ root.entries \in Seq([key : Keys, child : Pages])
  /\ root.rightmost \in Pages
  /\ pending = Installed \/ pending \in [left : Pages, promoted : Keys, right : Pages]
  /\ torn \in BOOLEAN
  /\ last \in {"new", "insert", "delete"} \X (Keys \cup {NoRow})
              \X (Payloads \cup {NoRow}) \X Results

(* The leaves form one doubly linked list in the order of the keys, with   *)
(* every page that was allocated on it, cached or not, until an            *)
(* insert_leaf fails half way (bptree.rs:96-118).                          *)
ChainInOrder ==
  ~ torn =>
    LET c == Chain IN
    /\ ToSet(c) = 1 .. next_free - 1
    /\ \A p \in ToSet(c) : Held(p) # NoNode
    /\ \A i \in 1 .. Len(c) :
         Held(c[i]).prev = IF i = 1 THEN NoSibling ELSE c[i - 1]
    /\ \A i \in 2 .. Len(c) :
         LET l == Held(c[i - 1]).leaf
             r == Held(c[i]).leaf
         IN \A a \in 1 .. Len(l.slots), b \in 1 .. Len(r.slots) : Key(l, a) < Key(r, b)

(* find_record and a scan along the leaves see the same rows once the      *)
(* caller has installed the split; until then find_record misses the rows  *)
(* that moved to the new page, and only those (bptree.rs:133-143).         *)
FindAgreesWithScan ==
  ~ torn =>
    \A p \in ToSet(Chain), k \in Keys :
      RowIn(p, k) # NoRow =>
        IF pending # Installed /\ p = pending.right
        THEN FindRecord(k) = NoRow
        ELSE LeafOf(k) = p

(* Each call is a step of a map, as long as no insert_leaf has failed      *)
(* after the split began: an error changes no row, a success exactly one,  *)
(* and evictions none.                                                     *)
Map == INSTANCE RowMap WITH
  rows <- Rows,
  Refusals <- [insert |-> {"TupleTooLarge", "Pool"}, delete |-> {}]

ImplementsRowMap == Map!Init /\ [][torn' \/ Map!Next]_<<last, Rows>>

(* "Returns true if the node has been modified in memory since being       *)
(* loaded from disk" (is_dirty, page.rs:358): a frame that is not marked   *)
(* holds what the file does.                                               *)
ModifiedIsDirty ==
  \A p \in Pages : cache[p] # NoNode /\ ~ cache[p].dirty =>
    cache[p] = disk[p] \/ (disk[p] = NoNode /\ cache[p] = NewLeaf)
=============================================================================
