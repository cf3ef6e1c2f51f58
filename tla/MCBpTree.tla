------------------------------ MODULE MCBpTree ------------------------------
(* Model-checking instances of BpTree: leaves for two small rows, or for   *)
(* several small ones or a large one, with the constants of page.rs scaled *)
(* down.                                                                   *)
EXTENDS BpTree

CONSTANTS small, large

MCSize == [v \in Payloads |-> IF v = small THEN 1 ELSE 6]

(* What the last call returned does not matter for what follows, nor       *)
(* whether a page that equals its image in the file is cached.             *)
MCView == <<[p \in Pages |-> Held(p)], disk, next_free, root, pending, torn>>

(* Bounds: nothing is promised after an insert_leaf that failed half way;  *)
(* at most one tombstone, and two pages whose image is out of date.        *)
Tombstone(p, k) ==
  \E i \in SlotsOf(Held(p).leaf, k) : Held(p).leaf.records[i].is_deleted
MCBound ==
  LET tombstones == {<<p, k>> \in Pages \X Keys : Held(p) # NoNode /\ Tombstone(p, k)}
      stale == {p \in Pages : disk[p] # NoNode /\ Held(p) # disk[p]}
  IN
  /\ ~ torn
  /\ Cardinality(tombstones) <= 1
  /\ Cardinality(stale) <= 2
=============================================================================
