---------------------------- MODULE RecencyOrder ----------------------------
(***************************************************************************)
(* Operators on a recency order: a sequence of pages, most recently used   *)
(* first.  They say what src/src/storage/lru.rs does to the order of its   *)
(* linked list; LruReplacer.tla models the list itself.                    *)
(***************************************************************************)
EXTENDS Naturals, Sequences

Tracked(s) == {s[i] : i \in 1 .. Len(s)}

DropAt(s, i) == SubSeq(s, 1, i - 1) \o SubSeq(s, i + 1, Len(s))

(* s without page p, when s tracks it: remove *)
Drop(s, p) ==
  IF p \in Tracked(s) THEN DropAt(s, CHOOSE i \in 1 .. Len(s) : s[i] = p) ELSE s

(* p becomes the most recently used page: record_access *)
Touch(s, p) == <<p>> \o Drop(s, p)

(* p is the least recently used page of s outside the set held: evict_if *)
IsVictim(s, held, p) ==
  \E i \in 1 .. Len(s) :
    /\ s[i] = p
    /\ p \notin held
    /\ \A j \in i + 1 .. Len(s) : s[j] \in held
=============================================================================
