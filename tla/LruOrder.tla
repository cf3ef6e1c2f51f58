------------------------------ MODULE LruOrder ------------------------------
(***************************************************************************)
(* What the page replacer of smol-db (src/src/storage/lru.rs) promises:    *)
(* the tracked pages in order of recency, and the page each eviction       *)
(* returns.  The arena-backed linked list of LruReplacer.tla implements    *)
(* this specification; BufferPool.tla uses the same recency order in the   *)
(* place of the list.                                                      *)
(***************************************************************************)
EXTENDS RecencyOrder

CONSTANTS
  PageIds,   (* the pages that exist                                       *)
  Capacity,  (* LruReplacer.capacity                                       *)
  NoPage     (* the None of an Option<PageId>                              *)

VARIABLES
  order,   (* tracked pages, most recently used first                      *)
  pinned,  (* pages for which evict_if's predicate is false                *)
  last     (* last call: <<operation, page it was given or returned>>      *)

vars == <<order, pinned, last>>

-----------------------------------------------------------------------------
Init ==
  /\ order = <<>>
  /\ pinned = {}
  /\ last = <<"new", NoPage>>

RecordAccess(p) ==
  /\ p \notin Tracked(order) => Len(order) < Capacity
  /\ order' = Touch(order, p)
  /\ last' = <<"record_access", p>>
  /\ UNCHANGED pinned

Remove(p) ==
  /\ order' = Drop(order, p)
  /\ last' = <<"remove", p>>
  /\ UNCHANGED pinned

(* An eviction that spares the pages in held: the least recently used of   *)
(* the others goes, or nothing when there is none.                         *)
EvictSparing(op, held) ==
  /\ IF Tracked(order) \subseteq held
     THEN /\ last' = <<op, NoPage>>
          /\ UNCHANGED order
     ELSE \E p \in Tracked(order) :
            /\ IsVictim(order, held, p)
            /\ order' = Drop(order, p)
            /\ last' = <<op, p>>
  /\ UNCHANGED pinned

Evict == EvictSparing("evict", {})

EvictIf == EvictSparing("evict_if", pinned)

(* Clients of the pool take and drop their references to pages. *)
Repin ==
  /\ pinned' \in SUBSET PageIds
  /\ UNCHANGED <<order, last>>

Next ==
  \/ \E p \in PageIds : RecordAccess(p) \/ Remove(p)
  \/ Evict
  \/ EvictIf
  \/ Repin

Spec == Init /\ [][Next]_vars
=============================================================================
