---------------------------- MODULE InternalNode ----------------------------
(***************************************************************************)
(* The internal node of src/src/storage/page.rs as operators on its value: *)
(* routing entries in the order they were pushed, a slot array of indices  *)
(* into them in the order of the keys, and the rightmost child.  Indices   *)
(* count from 1 (from 0 in the code).                                      *)
(***************************************************************************)
EXTENDS Naturals, Sequences, FiniteSetsExt

CONSTANT MaxEntries   (* routing entries that fit into a page *)

ASSUME InternalAssumption == MaxEntries \in Nat

EntryKey(n, i) == n.entries[n.slots[i]].key

(* Faulty: a key equal to a routing key goes to the left of it. *)
RouteLeftOfEqual(n, k) ==
  LET right == {i \in 1 .. Len(n.slots) : EntryKey(n, i) >= k} IN
  IF right = {} THEN n.rightmost ELSE n.entries[n.slots[Min(right)]].child

(* route_key: the child of the first entry above the key. *)
RouteKey(n, k) ==
  LET right == {i \in 1 .. Len(n.slots) : EntryKey(n, i) > k} IN
  IF right = {} THEN n.rightmost ELSE n.entries[n.slots[Min(right)]].child

(* encode refuses a node that is larger than a page. *)
InternalFits(n) == Len(n.slots) <= MaxEntries

(* The page encode writes: the entries in the order of the slots; and what *)
(* decode makes of it, each entry back where its slot points.              *)
EncodeInternal(n) ==
  [slots     |-> n.slots,
   rightmost |-> n.rightmost,
   cells     |-> [i \in 1 .. Len(n.slots) |-> n.entries[n.slots[i]]]]

DecodeInternal(page) ==
  [slots     |-> page.slots,
   rightmost |-> page.rightmost,
   entries   |-> [i \in 1 .. Len(page.slots) |->
                    page.cells[CHOOSE j \in 1 .. Len(page.slots) : page.slots[j] = i]]]
=============================================================================
