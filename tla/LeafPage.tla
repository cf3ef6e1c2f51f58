------------------------------ MODULE LeafPage ------------------------------
(***************************************************************************)
(* One leaf page over its life: the calls of insert_record, update_record  *)
(* and delete_record, with evictions in between, after which the page is   *)
(* decoded from the image it was encoded to.                               *)
(***************************************************************************)
EXTENDS LeafNode

VARIABLES
  node,  (* the leaf                                                       *)
  last   (* <<operation, key, payload, result>> of the last call           *)

vars == <<node, last>>

Init ==
  /\ node = Empty
  /\ last = <<"new", NoRow, NoRow, "Ok">>

(* The call returns; or it panics, which unlocks the frame with the node   *)
(* as it is then.                                                          *)
Call(op, k, v, outcome) ==
  /\ node' = outcome.node
  /\ last' = <<op, k, v, outcome.ret>>

Insert(k, v) == Call("insert", k, v, InsertRecord(node, k, v))
Update(k, v) == Call("update", k, v, UpdateRecord(node, k, v))
Delete(k)    == Call("delete", k, NoRow, DeleteRecord(node, k))

(* The pool writes the page, drops the frame, and reads the page again.    *)
(* Without the room the write fails and the frame stays.                   *)
Reload ==
  /\ Fits(node)
  /\ node' = Decode(Encode(node))
  /\ UNCHANGED last

Next ==
  \/ \E k \in Keys : Delete(k) \/ \E v \in Payloads : Insert(k, v) \/ Update(k, v)
  \/ Reload

Spec == Init /\ [][Next]_vars

-----------------------------------------------------------------------------
Results == {"Ok", "PageFull", "TupleTooLarge", "DuplicateKey", "KeyNotFound", "panic"}

TypeOK ==
  /\ node.slots \in Seq(1 .. Len(node.records))
  /\ node.records \in Seq(Record)
  /\ node.free_size \in 0 .. PageSize
  /\ last \in {"new", "insert", "update", "delete"}
              \X (Keys \cup {NoRow}) \X (Payloads \cup {NoRow}) \X Results

(* The slot array is what binary search and decode need: sorted by row id  *)
(* without duplicates, and pointing at every record exactly once.          *)
SlotsInOrder ==
  /\ \A i, j \in 1 .. Len(node.slots) : i < j => Key(node, i) < Key(node, j)
  /\ {node.slots[i] : i \in 1 .. Len(node.slots)} = 1 .. Len(node.records)

Rows(n) == [k \in Keys |-> GetRecord(n, k)]

(* The leaf behaves as a map, whatever mixture of tombstones, reuse,       *)
(* compaction and reloading its calls went through.                        *)
Map == INSTANCE RowMap WITH
  rows <- Rows(node),
  Refusals <- [insert |-> {"TupleTooLarge", "PageFull"}, delete |-> {}]

ImplementsRowMap == Map!Spec

(* split loses no row and invents none, the promoted key separates the two *)
(* halves, and both fit their pages if the leaf did.                       *)
SplitKeepsRows ==
  LET s == Split(node) IN
  s.ret = "Ok" =>
    /\ \A k \in Keys :
         /\ k < s.promoted => GetRecord(s.left, k) = GetRecord(node, k)
                              /\ GetRecord(s.right, k) = NoRow
         /\ k >= s.promoted => GetRecord(s.right, k) = GetRecord(node, k)
                               /\ GetRecord(s.left, k) = NoRow
    /\ Fits(node) => Fits(s.left) /\ Fits(s.right)

(* insert_leaf's retry (bptree.rs:87-91): where records have one size, an  *)
(* insert that found the page full succeeds in the half of the split that  *)
(* its key belongs to.  Of a page that updates have overfilled, a half may *)
(* be full.                                                                *)
SplitMakesRoom ==
  LET s == Split(node) IN
  \A k \in Keys, v \in Payloads :
    /\ \A i \in 1 .. Len(node.records) : Size[node.records[i].data] = Size[v]
    /\ Fits(node)
    /\ InsertRecord(node, k, v).ret = "PageFull"
    /\ s.ret = "Ok"
    => InsertRecord(IF k < s.promoted THEN s.left ELSE s.right, k, v).ret = "Ok"

(* A leaf whose page can be written stays so (page.rs:592), unless a call  *)
(* replaced a payload by a larger one: the byte limit insert_record checks *)
(* is the one encode enforces.                                             *)
OnlyGrowthOverfills ==
  [][Fits(node) /\ ~ Fits(node') =>
       \E i \in 1 .. Len(node.records) :
         /\ node.records[i].row_id = last'[2]
         /\ Size[node.records[i].data] < Size[last'[3]]]_vars
=============================================================================
