---------------------------- MODULE LruReplacer -----------------------------
(***************************************************************************)
(* The replacer of src/src/storage/lru.rs: a doubly linked list threaded   *)
(* through an arena, a map from page to arena index and a list of free     *)
(* arena slots.  Arena indices count from 1 here (from 0 in the code), so  *)
(* that 0 can stand for the None of an Option<usize>; a page that is not   *)
(* in the HashMap is mapped to None.                                       *)
(***************************************************************************)
EXTENDS Naturals, Sequences, FiniteSets

CONSTANTS PageIds, Capacity, NoPage

ASSUME ReplacerAssumption ==
  /\ IsFiniteSet(PageIds)
  /\ Capacity \in Nat
  /\ NoPage \notin PageIds

VARIABLES
  pages,      (* HashMap<PageId, usize>                                    *)
  arena,      (* Vec<LruNode>                                              *)
  head_idx,   (* most recently used node                                   *)
  tail_idx,   (* least recently used node                                  *)
  free_list,  (* arena slots of removed nodes                              *)
  pinned,     (* pages the pool's eviction predicate refuses               *)
  last        (* last call: <<operation, page it was given or returned>>   *)

vars == <<pages, arena, head_idx, tail_idx, free_list, pinned, last>>

None == 0

LruNode == [prev : Nat, page_id : PageIds, next : Nat]

TrackedPages == {p \in PageIds : pages[p] # None}

Size == Cardinality(TrackedPages)

-----------------------------------------------------------------------------
(* The list: its arena and its two ends, as one value. *)
List == [arena |-> arena, head |-> head_idx, tail |-> tail_idx]

SetList(l) ==
  /\ arena' = l.arena
  /\ head_idx' = l.head
  /\ tail_idx' = l.tail

(* a with the link field f of node idx set to to, if there is such a node *)
SetPrev(a, idx, to) == IF idx = None THEN a ELSE [a EXCEPT ![idx].prev = to]
SetNext(a, idx, to) == IF idx = None THEN a ELSE [a EXCEPT ![idx].next = to]

InsertHead(l, idx) ==
  LET a == SetNext(SetPrev(l.arena, idx, None), idx, l.head) IN
  [arena |-> SetPrev(a, l.head, idx),
   head  |-> idx,
   tail  |-> IF l.head = None THEN idx ELSE l.tail]

(* Faulty: the neighbour towards the tail keeps pointing at the node. *)
UnlinkOneWay(l, idx) ==
  LET p == l.arena[idx].prev
      n == l.arena[idx].next
  IN
  [arena |-> SetNext(l.arena, p, n),
   head  |-> IF p = None THEN n ELSE l.head,
   tail  |-> IF n = None THEN p ELSE l.tail]

Unlink(l, idx) ==
  LET p == l.arena[idx].prev
      n == l.arena[idx].next
  IN
  [arena |-> SetPrev(SetNext(l.arena, p, n), n, p),
   head  |-> IF p = None THEN n ELSE l.head,
   tail  |-> IF n = None THEN p ELSE l.tail]

(* The first n nodes a walk from the tail along prev visits: a set with    *)
(* one element, or none when the list is shorter.                          *)
TailWalks(n) ==
  {w \in [1 .. n -> 1 .. Len(arena)] :
     /\ n > 0 => w[1] = tail_idx
     /\ \A i \in 1 .. n - 1 : w[i + 1] = arena[w[i]].prev}

-----------------------------------------------------------------------------
Init ==
  /\ pages = [p \in PageIds |-> None]
  /\ arena = <<>>
  /\ head_idx = None
  /\ tail_idx = None
  /\ free_list = <<>>
  /\ pinned = {}
  /\ last = <<"new", NoPage>>

(* Faulty: a tracked page keeps its place. *)
AccessInPlace(p) ==
  /\ pages[p] # None
  /\ last' = <<"record_access", p>>
  /\ UNCHANGED <<pages, arena, head_idx, tail_idx, free_list, pinned>>

(* record_access of a tracked page moves its node to the head. *)
AccessTracked(p) ==
  /\ pages[p] # None
  /\ SetList(InsertHead(Unlink(List, pages[p]), pages[p]))
  /\ last' = <<"record_access", p>>
  /\ UNCHANGED <<pages, free_list, pinned>>

(* Faulty: slots are never reused. *)
AccessAlwaysGrows(p) ==
  /\ pages[p] = None
  /\ Size < Capacity
  /\ LET idx  == Len(arena) + 1
         node == [prev |-> None, page_id |-> p, next |-> None]
     IN /\ SetList(InsertHead([List EXCEPT !.arena = Append(arena, node)], idx))
        /\ pages' = [pages EXCEPT ![p] = idx]
  /\ last' = <<"record_access", p>>
  /\ UNCHANGED <<free_list, pinned>>

(* Faulty: the index of a pushed node is taken after the push. *)
AccessOffByOne(p) ==
  /\ pages[p] = None
  /\ Size < Capacity
  /\ LET node == [prev |-> None, page_id |-> p, next |-> head_idx]
     IN /\ arena' = Append(arena, node)
        /\ head_idx' = Len(arena') + 1
        /\ tail_idx' = IF tail_idx = None THEN head_idx' ELSE tail_idx
        /\ pages' = [pages EXCEPT ![p] = head_idx']
  /\ last' = <<"record_access", p>>
  /\ UNCHANGED <<free_list, pinned>>

(* record_access of a new page reuses the slot freed last, or grows the    *)
(* arena.  The guard on Size is the assert!: the code panics without it.   *)
AccessNew(p) ==
  /\ pages[p] = None
  /\ Size < Capacity
  /\ LET reuse == free_list # <<>>
         idx   == IF reuse THEN free_list[Len(free_list)] ELSE Len(arena) + 1
         node  == [prev |-> None, page_id |-> p, next |-> None]
         a     == IF reuse THEN [arena EXCEPT ![idx] = node]
                           ELSE Append(arena, node)
     IN /\ SetList(InsertHead([List EXCEPT !.arena = a], idx))
        /\ pages' = [pages EXCEPT ![p] = idx]
        /\ free_list' = IF reuse THEN SubSeq(free_list, 1, Len(free_list) - 1)
                                 ELSE free_list
  /\ last' = <<"record_access", p>>
  /\ UNCHANGED pinned

(* Faulty: the slot is not put on the free list. *)
ReleaseLeaksSlot(idx) ==
  /\ SetList(Unlink(List, idx))
  /\ pages' = [pages EXCEPT ![arena[idx].page_id] = None]
  /\ UNCHANGED free_list

(* The end that remove, evict and evict_if share: unlink, forget, free. *)
Release(idx) ==
  /\ SetList(Unlink(List, idx))
  /\ pages' = [pages EXCEPT ![arena[idx].page_id] = None]
  /\ free_list' = Append(free_list, idx)

NothingReleased == UNCHANGED <<pages, arena, head_idx, tail_idx, free_list>>

Remove(p) ==
  /\ IF pages[p] # None THEN Release(pages[p]) ELSE NothingReleased
  /\ last' = <<"remove", p>>
  /\ UNCHANGED pinned

Evict ==
  /\ IF tail_idx # None
     THEN /\ Release(tail_idx)
          /\ last' = <<"evict", arena[tail_idx].page_id>>
     ELSE /\ NothingReleased
          /\ last' = <<"evict", NoPage>>
  /\ UNCHANGED pinned

(* The loop of evict_if: w is the trajectory of curr_idx, every node but   *)
(* the last of which was refused by the predicate.                         *)
EvictIfFound ==
  /\ \E n \in 1 .. Len(arena) : \E w \in TailWalks(n) :
       /\ \A i \in 1 .. n - 1 : arena[w[i]].page_id \in pinned
       /\ arena[w[n]].page_id \notin pinned
       /\ Release(w[n])
       /\ last' = <<"evict_if", arena[w[n]].page_id>>
  /\ UNCHANGED pinned

(* The loop ran off the head: no node was accepted. *)
EvictIfNone ==
  /\ \E n \in 0 .. Len(arena) : \E w \in TailWalks(n) :
       /\ IF n = 0 THEN tail_idx = None ELSE arena[w[n]].prev = None
       /\ \A i \in 1 .. n : arena[w[i]].page_id \in pinned
  /\ last' = <<"evict_if", NoPage>>
  /\ NothingReleased
  /\ UNCHANGED pinned

(* Clients of the pool take and drop their references to pages. *)
Repin ==
  /\ pinned' \in SUBSET PageIds
  /\ UNCHANGED <<pages, arena, head_idx, tail_idx, free_list, last>>

Next ==
  \/ \E p \in PageIds : AccessTracked(p) \/ AccessNew(p) \/ Remove(p)
  \/ Evict
  \/ EvictIfFound
  \/ EvictIfNone
  \/ Repin

Spec == Init /\ [][Next]_vars

-----------------------------------------------------------------------------
TypeOK ==
  /\ pages \in [PageIds -> Nat]
  /\ arena \in Seq(LruNode)
  /\ head_idx \in 0 .. Len(arena)
  /\ tail_idx \in 0 .. Len(arena)
  /\ free_list \in Seq(1 .. Len(arena))
  /\ pinned \in SUBSET PageIds
  /\ last \in {"new", "record_access", "remove", "evict", "evict_if"}
              \X (PageIds \cup {NoPage})

(* The arena slots that hold a tracked page. *)
Live == {pages[p] : p \in TrackedPages}

(* Every arena slot either holds exactly the tracked page that maps to it  *)
(* or is on the free list, once: no slot leaks and none is handed out      *)
(* while a page still uses it (record_access, remove, evict, evict_if).    *)
SlotsPartitioned ==
  /\ \A p \in TrackedPages : pages[p] <= Len(arena) /\ arena[pages[p]].page_id = p
  /\ \A i \in 1 .. Len(free_list) : free_list[i] \notin Live
  /\ \A i, j \in 1 .. Len(free_list) : free_list[i] = free_list[j] => i = j
  /\ \A s \in 1 .. Len(arena) :
       s \in Live \/ \E i \in 1 .. Len(free_list) : free_list[i] = s

(* l links the slots of L and no others: the ends are open, the two links  *)
(* of neighbours mirror each other, and every link stays inside L.         *)
Linked(l, L) ==
  /\ l.head = None <=> l.tail = None
  /\ l.head # None => l.head \in L /\ l.arena[l.head].prev = None
  /\ l.tail # None => l.tail \in L /\ l.arena[l.tail].next = None
  /\ \A s \in L :
       /\ IF l.arena[s].prev = None THEN l.head = s
          ELSE l.arena[s].prev \in L /\ l.arena[l.arena[s].prev].next = s
       /\ IF l.arena[s].next = None THEN l.tail = s
          ELSE l.arena[s].next \in L /\ l.arena[l.arena[s].next].prev = s

(* Relinking by insert_head and unlink keeps the list over exactly the     *)
(* slots of tracked pages: no walk ever reaches a freed slot.              *)
LiveLinked == Linked(List, Live)

(* The arena never outgrows the capacity the pool allocated it with: a     *)
(* freed slot is always reused before the arena grows.                     *)
ArenaBounded == Len(arena) <= Capacity

-----------------------------------------------------------------------------
(* The pages from the tail to the head, turned around: most recent first. *)
Recency ==
  LET n == Size
      w == CHOOSE w \in TailWalks(n) : TRUE
  IN [i \in 1 .. n |-> arena[w[n + 1 - i]].page_id]

(* The arena list implements the recency order: eviction takes the least   *)
(* recently used page its predicate accepts, and a page that is refused    *)
(* keeps its place.                                                        *)
Order == INSTANCE LruOrder WITH order <- Recency

ImplementsLruOrder == Order!Spec
=============================================================================
