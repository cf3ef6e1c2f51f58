------------------------------- MODULE RowMap -------------------------------
(***************************************************************************)
(* What a leaf, and the tree above the leaves, promise their callers: a    *)
(* map from row ids to payloads.  LeafPage.tla, with slots, tombstones,    *)
(* compaction and the page format, implements it; so does BpTree.tla, with *)
(* splits, the sibling chain and eviction.                                 *)
(***************************************************************************)
CONSTANTS
  Keys, Payloads, NoRow,
  Refusals   (* .insert, .delete: errors that say nothing about the row    *)

VARIABLES
  rows,  (* the payload of every row, or NoRow                             *)
  last   (* <<operation, key, payload, result>> of the last call           *)

vars == <<rows, last>>

Init ==
  /\ rows = [k \in Keys |-> NoRow]
  /\ last = <<"new", NoRow, NoRow, "Ok">>

Returns(op, k, v, ret) == last' = <<op, k, v, ret>>

(* A refused insert changes nothing; a panic strikes after the row is in. *)
Insert(k, v) ==
  \/ /\ Returns("insert", k, v, "Ok") \/ Returns("insert", k, v, "panic")
     /\ rows[k] = NoRow
     /\ rows' = [rows EXCEPT ![k] = v]
  \/ /\ Returns("insert", k, v, "DuplicateKey")
     /\ rows[k] # NoRow
     /\ UNCHANGED rows
  \/ /\ \E ret \in Refusals.insert : Returns("insert", k, v, ret)
     /\ UNCHANGED rows

(* A row that is not there stays away; a deleted one may answer Ok. *)
Update(k, v) ==
  \/ /\ Returns("update", k, v, "Ok")
     /\ rows[k] # NoRow
     /\ rows' = [rows EXCEPT ![k] = v]
  \/ /\ Returns("update", k, v, "Ok") \/ Returns("update", k, v, "KeyNotFound")
     /\ rows[k] = NoRow
     /\ UNCHANGED rows
  \/ /\ Returns("update", k, v, "TupleTooLarge")
     /\ UNCHANGED rows

Delete(k) ==
  \/ /\ Returns("delete", k, NoRow, "Ok")
     /\ rows' = [rows EXCEPT ![k] = NoRow]
  \/ /\ Returns("delete", k, NoRow, "KeyNotFound")
     /\ rows[k] = NoRow
     /\ UNCHANGED rows
  \/ /\ \E ret \in Refusals.delete : Returns("delete", k, NoRow, ret)
     /\ UNCHANGED rows

Next == \E k \in Keys : Delete(k) \/ \E v \in Payloads : Insert(k, v) \/ Update(k, v)

Spec == Init /\ [][Next]_vars
=============================================================================
