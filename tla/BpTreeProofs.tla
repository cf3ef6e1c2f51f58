----------------------------- MODULE BpTreeProofs ----------------------------
(***************************************************************************)
(* Proofs about BpTree: until an insert_leaf fails half way, the leaves    *)
(* form one doubly linked list in the order of the keys, find_record and a *)
(* scan agree, and the tree is a map from row ids to payloads.  For any    *)
(* row ids, payloads, sizes of a page and number of pages.                 *)
(***************************************************************************)
EXTENDS BpTree, LeafNodeProofs

Entry == [key : Keys, child : Pages]

(* A slot array that points at every entry once.                           *)
RootShape(n) ==
  /\ n = [slots |-> n.slots, entries |-> n.entries, rightmost |-> n.rightmost]
  /\ n.slots \in Seq(Nat) /\ n.entries \in Seq(Entry) /\ n.rightmost \in Pages
  /\ Len(n.slots) = Len(n.entries)
  /\ \A i \in 1 .. Len(n.slots) : n.slots[i] \in 1 .. Len(n.slots)
  /\ \A i, j \in 1 .. Len(n.slots) : n.slots[i] = n.slots[j] => i = j
  /\ \A r \in 1 .. Len(n.slots) : \E i \in 1 .. Len(n.slots) : n.slots[i] = r

(* The children of a root from left to right.                              *)
Child(n, i) ==
  IF i <= Len(n.slots) THEN n.entries[n.slots[i]].child ELSE n.rightmost

(* The i-th child is the one key k belongs to.                             *)
RoutesAt(n, k, i) ==
  /\ i \in 1 .. Len(n.slots) + 1
  /\ \A j \in 1 .. Len(n.slots) : j < i => EntryKey(n, j) <= k
  /\ i <= Len(n.slots) => k < EntryKey(n, i)

-----------------------------------------------------------------------------
(* The keys and the children of a root, by their places.                   *)
LEMMA RootFacts ==
  ASSUME NEW n, RootShape(n)
  PROVE  \E N \in Nat :
           /\ Len(n.slots) = N /\ Len(n.entries) = N
           /\ n.slots \in Seq(Nat) /\ n.entries \in Seq(Entry)
           /\ \A i \in 1 .. N : /\ n.slots[i] \in 1 .. N
                                /\ n.entries[n.slots[i]] \in Entry
                                /\ EntryKey(n, i) = n.entries[n.slots[i]].key
                                /\ EntryKey(n, i) \in Keys /\ EntryKey(n, i) \in Nat
                                /\ Child(n, i) = n.entries[n.slots[i]].child
           /\ Child(n, N + 1) = n.rightmost
           /\ \A i \in 1 .. N + 1 : Child(n, i) \in Pages
<1>1. /\ n.slots \in Seq(Nat) /\ n.entries \in Seq(Entry) /\ n.rightmost \in Pages
      /\ Len(n.slots) = Len(n.entries)
      /\ \A i \in 1 .. Len(n.slots) : n.slots[i] \in 1 .. Len(n.slots)
  BY DEF RootShape
<1>2. PICK N \in Nat : N = Len(n.slots)
  BY <1>1
<1>3. ASSUME NEW i \in 1 .. N
      PROVE  /\ n.slots[i] \in 1 .. N
             /\ n.entries[n.slots[i]] \in Entry
             /\ EntryKey(n, i) = n.entries[n.slots[i]].key
             /\ EntryKey(n, i) \in Keys /\ EntryKey(n, i) \in Nat
             /\ Child(n, i) = n.entries[n.slots[i]].child
             /\ Child(n, i) \in Pages
  <2>1. PICK r \in 1 .. N : r = n.slots[i]
    BY <1>1, <1>2
  <2>2. PICK e \in Entry : e = n.entries[r]
    BY <1>1, <1>2, <2>1
  <2>3. e.key \in Keys /\ e.child \in Pages /\ e.key \in Nat
    BY LeafConstants DEF Entry
  <2>4. i <= Len(n.slots)
    BY <1>2
  <2>5. QED BY <2>1, <2>2, <2>3, <2>4 DEF EntryKey, Child
<1>4. Child(n, N + 1) = n.rightmost
  BY <1>2 DEF Child
<1>5. \A i \in 1 .. N + 1 : Child(n, i) \in Pages
  <2>1. \A i \in 1 .. N + 1 : i \in 1 .. N \/ i = N + 1
    BY <1>2
  <2>2. QED BY <1>1, <1>3, <1>4, <2>1
<1>6. QED BY <1>1, <1>2, <1>3, <1>4, <1>5

(* The child that route_key finds is the one at the key's place.           *)
LEMMA RoutePlace ==
  ASSUME NEW n, RootShape(n), NEW k \in Nat, NEW i, RoutesAt(n, k, i)
  PROVE  RouteKey(n, k) = Child(n, i)
<1>1. PICK N \in Nat :
        /\ Len(n.slots) = N
        /\ \A j \in 1 .. N : EntryKey(n, j) \in Nat /\ Child(n, j) = n.entries[n.slots[j]].child
        /\ Child(n, N + 1) = n.rightmost
  BY RootFacts
<1> DEFINE right == {j \in 1 .. N : EntryKey(n, j) > k}
<1>2. RouteKey(n, k) = IF right = {} THEN n.rightmost ELSE n.entries[n.slots[Min(right)]].child
  BY <1>1 DEF RouteKey
<1>3. /\ i \in 1 .. N + 1
      /\ \A j \in 1 .. N : j < i => EntryKey(n, j) <= k
      /\ i <= N => k < EntryKey(n, i)
  BY <1>1 DEF RoutesAt
<1>4. CASE i = N + 1
  <2>1. right = {}
    BY <1>1, <1>3, <1>4
  <2>2. QED BY <1>1, <1>2, <1>4, <2>1
<1>5. CASE i \in 1 .. N
  <2>1. i \in right
    BY <1>1, <1>3, <1>5
  <2>2. \A j \in right : i <= j
    BY <1>1, <1>3, <1>5
  <2>3. \A j \in right : (\A y \in right : j <= y) => j = i
    BY <1>5, <2>1, <2>2
  <2> HIDE DEF right
  <2>4. Min(right) = i
    BY <2>1, <2>2, <2>3 DEF Min
  <2>5. QED BY <1>1, <1>2, <1>5, <2>1, <2>4
<1>6. QED BY <1>3, <1>4, <1>5

(* Every key has its place.                                                *)
LEMMA RouteExists ==
  ASSUME NEW n, RootShape(n), NEW k \in Nat
  PROVE  \E i : RoutesAt(n, k, i) /\ RouteKey(n, k) = Child(n, i)
<1>1. PICK N \in Nat :
        /\ Len(n.slots) = N
        /\ \A j \in 1 .. N : EntryKey(n, j) \in Nat
  BY RootFacts
<1> DEFINE right == {j \in 1 .. N : EntryKey(n, j) > k}
<1>2. \E i : RoutesAt(n, k, i)
  <2>1. CASE right = {}
    <3>1. RoutesAt(n, k, N + 1)
      BY <1>1, <2>1 DEF RoutesAt
    <3>2. QED BY <3>1
  <2>2. CASE right # {}
    <3>1. PICK i \in right : \A j \in right : i <= j
      <4>1. right \in SUBSET Nat
        OBVIOUS
      <4> HIDE DEF right
      <4>2. QED BY <2>2, <4>1, Least
    <3>2. RoutesAt(n, k, i)
      BY <1>1, <3>1 DEF RoutesAt
    <3>3. QED BY <3>2
  <2>3. QED BY <2>1, <2>2
<1>3. QED BY <1>2, RoutePlace

-----------------------------------------------------------------------------
(* The root with the entries of a split: the left page keeps its place,    *)
(* the right one comes next to it, and the promoted key is between them.   *)
Widened(n, s, i, w) ==
  /\ Len(w.slots) = Len(n.slots) + 1
  /\ \A j \in 1 .. Len(n.slots) : j < i => EntryKey(w, j) = EntryKey(n, j)
  /\ EntryKey(w, i) = s.promoted
  /\ \A j \in 1 .. Len(n.slots) : i <= j => EntryKey(w, j + 1) = EntryKey(n, j)
  /\ \A j \in 1 .. Len(n.slots) + 1 : j < i => Child(w, j) = Child(n, j)
  /\ Child(w, i) = s.left
  /\ Child(w, i + 1) = s.right
  /\ \A j \in 1 .. Len(n.slots) + 1 : i < j => Child(w, j + 1) = Child(n, j)

Split3 == [left : Pages, promoted : Keys, right : Pages]

(* The entries of the root, with the right page at place i.                *)
MovedTo(n, s, i, moved) ==
  /\ Len(moved) = Len(n.slots)
  /\ InstallEntry(n, s) =
       [slots     |-> InsertAt(n.slots, i, Len(n.slots) + 1),
        entries   |-> Append(moved, [key |-> s.promoted, child |-> s.left]),
        rightmost |-> IF i = Len(n.slots) + 1 THEN s.right ELSE n.rightmost]
  /\ \A j \in 1 .. Len(n.slots) :
       /\ moved[n.slots[j]].key = EntryKey(n, j)
       /\ moved[n.slots[j]].child = IF j = i THEN s.right ELSE Child(n, j)

(* Only the entry at the place of the promoted key gets another child.     *)
LEMMA MovedEntries ==
  ASSUME NEW n, RootShape(n), NEW s \in Split3, NEW i, RoutesAt(n, s.promoted, i)
  PROVE  \E moved \in Seq(Entry) : MovedTo(n, s, i, moved)
<1>1. PICK N \in Nat :
        /\ Len(n.slots) = N /\ Len(n.entries) = N /\ n.entries \in Seq(Entry)
        /\ \A j \in 1 .. N : /\ n.slots[j] \in 1 .. N
                             /\ n.entries[n.slots[j]] \in Entry
                             /\ EntryKey(n, j) = n.entries[n.slots[j]].key
                             /\ EntryKey(n, j) \in Nat
                             /\ Child(n, j) = n.entries[n.slots[j]].child
  BY RootFacts
<1>2. \A j, l \in 1 .. N : n.slots[j] = n.slots[l] => j = l
  BY <1>1 DEF RootShape
<1>3. s.promoted \in Nat /\ s.promoted \in Keys /\ s.left \in Pages /\ s.right \in Pages
  BY LeafConstants DEF Split3
<1>4. /\ i \in 1 .. N + 1
      /\ \A j \in 1 .. N : j < i => EntryKey(n, j) <= s.promoted
      /\ i <= N => s.promoted < EntryKey(n, i)
  BY <1>1 DEF RoutesAt
<1> DEFINE right == {j \in 1 .. N : EntryKey(n, j) > s.promoted}
           place == IF right = {} THEN N + 1 ELSE Min(right)
           moved == IF right = {} THEN n.entries
                    ELSE [n.entries EXCEPT ![n.slots[Min(right)]].child = s.right]
<1>5. InstallEntry(n, s) =
        [slots     |-> InsertAt(n.slots, place, N + 1),
         entries   |-> Append(moved, [key |-> s.promoted, child |-> s.left]),
         rightmost |-> IF right = {} THEN s.right ELSE n.rightmost]
  BY <1>1 DEF InstallEntry
<1>6. CASE i = N + 1
  <2>1. right = {}
    BY <1>1, <1>3, <1>4, <1>6
  <2>2. place = N + 1 /\ moved = n.entries
    BY <2>1
  <2>3. \A j \in 1 .. N : j # i
    BY <1>6
  <2> HIDE DEF place, moved
  <2>4. MovedTo(n, s, i, n.entries)
    BY <1>1, <1>5, <1>6, <2>1, <2>2, <2>3 DEF MovedTo
  <2>5. QED BY <1>1, <2>4
<1>7. CASE i \in 1 .. N
  <2>1. i \in right
    BY <1>1, <1>3, <1>4, <1>7
  <2>2. \A j \in right : i <= j
    BY <1>1, <1>3, <1>4, <1>7
  <2>3. \A j \in right : (\A y \in right : j <= y) => j = i
    BY <1>7, <2>1, <2>2
  <2>4. right # {} /\ Min(right) = i
    <3> HIDE DEF right
    <3>1. QED BY <2>1, <2>2, <2>3 DEF Min
  <2> HIDE DEF right
  <2>5. PICK r \in 1 .. N : r = n.slots[i]
    BY <1>1, <1>7
  <2>6. PICK e \in Entry : e = n.entries[r]
    BY <1>1, <1>7, <2>5
  <2>7. PICK x : x = [e EXCEPT !.child = s.right]
    OBVIOUS
  <2>8. x \in Entry /\ x.key = e.key /\ x.child = s.right
    BY <1>3, <2>7 DEF Entry
  <2>9. moved = [n.entries EXCEPT ![r] = x]
    <3>1. moved = [n.entries EXCEPT ![r].child = s.right]
      BY <2>4, <2>5
    <3>2. QED BY <2>6, <2>7, <3>1, Zenon
  <2>10. place = i
    BY <2>4
  <2> HIDE DEF place, moved
  <2>11. /\ moved \in Seq(Entry) /\ Len(moved) = N
         /\ moved[r] = x /\ \A z \in 1 .. N : z # r => moved[z] = n.entries[z]
    BY <1>1, <2>8, <2>9
  <2>12. ASSUME NEW j \in 1 .. N
         PROVE  /\ moved[n.slots[j]].key = EntryKey(n, j)
                /\ moved[n.slots[j]].child = IF j = i THEN s.right ELSE Child(n, j)
    <3>1. CASE j = i
      BY <1>1, <2>5, <2>6, <2>8, <2>11, <3>1
    <3>2. CASE j # i
      <4>1. n.slots[j] # r
        BY <1>2, <1>7, <2>5, <3>2
      <4>2. moved[n.slots[j]] = n.entries[n.slots[j]]
        BY <1>1, <2>11, <4>1
      <4>3. QED BY <1>1, <3>2, <4>2
    <3>3. QED BY <3>1, <3>2
  <2>13. i # N + 1 /\ Len(n.slots) = N
    BY <1>1, <1>7
  <2>14. InstallEntry(n, s) =
           [slots     |-> InsertAt(n.slots, i, Len(n.slots) + 1),
            entries   |-> Append(moved, [key |-> s.promoted, child |-> s.left]),
            rightmost |-> IF i = Len(n.slots) + 1 THEN s.right ELSE n.rightmost]
    BY <1>5, <2>4, <2>10, <2>13
  <2>15. /\ moved \in Seq(Entry) /\ Len(moved) = Len(n.slots)
         /\ \A j \in 1 .. Len(n.slots) :
              /\ moved[n.slots[j]].key = EntryKey(n, j)
              /\ moved[n.slots[j]].child = IF j = i THEN s.right ELSE Child(n, j)
    BY <2>11, <2>12, <2>13
  <2>16. MovedTo(n, s, i, moved)
    BY <2>14, <2>15 DEF MovedTo
  <2>17. QED BY <2>11, <2>16
<1>8. QED BY <1>4, <1>6, <1>7

(* The caller's change of the root after a split.                          *)
LEMMA InstallProperties ==
  ASSUME NEW n, RootShape(n), NEW s \in Split3, NEW i, RoutesAt(n, s.promoted, i),
         NEW w, w = InstallEntry(n, s)
  PROVE  RootShape(w) /\ Widened(n, s, i, w)
<1>1. PICK N \in Nat :
        /\ Len(n.slots) = N
        /\ n.slots \in Seq(Nat)
        /\ \A j \in 1 .. N : n.slots[j] \in 1 .. N
        /\ \A j \in 1 .. N + 1 : Child(n, j) \in Pages
        /\ Child(n, N + 1) = n.rightmost
  BY RootFacts
<1>2. /\ \A j, l \in 1 .. N : n.slots[j] = n.slots[l] => j = l
      /\ \A r \in 1 .. N : \E j \in 1 .. N : n.slots[j] = r
  BY <1>1 DEF RootShape
<1>3. /\ s.promoted \in Keys /\ s.left \in Pages /\ s.right \in Pages
      /\ i \in 1 .. N + 1
  BY <1>1 DEF Split3, RoutesAt
<1>4. PICK moved \in Seq(Entry) : MovedTo(n, s, i, moved)
  BY MovedEntries
<1>5. /\ Len(moved) = N
       /\ w = [slots     |-> InsertAt(n.slots, i, N + 1),
               entries   |-> Append(moved, [key |-> s.promoted, child |-> s.left]),
               rightmost |-> IF i = N + 1 THEN s.right ELSE n.rightmost]
  BY <1>1, <1>4 DEF MovedTo
<1>6. \A j \in 1 .. N : /\ moved[n.slots[j]].key = EntryKey(n, j)
                         /\ moved[n.slots[j]].child = IF j = i THEN s.right ELSE Child(n, j)
  BY <1>1, <1>4 DEF MovedTo
<1>7. PICK x \in Entry : x = [key |-> s.promoted, child |-> s.left]
  BY <1>3 DEF Entry
<1>8. PICK es : es = Append(moved, x)
  OBVIOUS
<1>9. /\ es \in Seq(Entry) /\ Len(es) = N + 1 /\ es[N + 1] = x
      /\ \A r \in 1 .. N : es[r] = moved[r]
  <2>1. Len(moved) = N /\ N \in Nat
    BY <1>1, <1>5
  <2>2. QED BY <1>8, <2>1
<1>10. PICK t : t = InsertAt(n.slots, i, N + 1) /\ Inserted(n.slots, N, i, N + 1, t)
  <2>1. N + 1 \in Nat
    BY <1>1
  <2>2. Inserted(n.slots, N, i, N + 1, InsertAt(n.slots, i, N + 1))
    BY <1>1, <1>3, <2>1, InsertAtProperties
  <2>3. QED BY <2>2
<1>11. /\ t \in Seq(Nat) /\ Len(t) = N + 1
      /\ t[i] = N + 1
      /\ \A j \in 1 .. N : j < i => t[j] = n.slots[j]
  BY <1>10 DEF Inserted
<1>12. ASSUME NEW j \in 1 .. N, i <= j PROVE t[j + 1] = n.slots[j]
  BY <1>10, <1>12 DEF Inserted
<1>13. /\ w.slots = t /\ w.entries = es
       /\ w.rightmost = IF i = N + 1 THEN s.right ELSE n.rightmost
  BY <1>5, <1>7, <1>8, <1>10
<1>14. w.rightmost \in Pages
  <2>1. n.rightmost \in Pages
    BY DEF RootShape
  <2>2. QED BY <1>3, <1>13, <2>1
<1>15. ASSUME NEW l \in 1 .. N + 1 PROVE t[l] \in 1 .. N + 1
  <2>1. CASE l = i
    BY <1>11, <2>1
  <2>2. CASE l < i
    <3>1. l \in 1 .. N
      BY <1>3, <2>2
    <3>2. t[l] = n.slots[l] /\ n.slots[l] \in 1 .. N
      BY <1>1, <1>11, <2>2, <3>1
    <3>3. QED BY <3>2
  <2>3. CASE i < l
    <3>1. l - 1 \in 1 .. N /\ i <= l - 1 /\ (l - 1) + 1 = l
      BY <1>3, <2>3
    <3>2. PICK j \in 1 .. N : j = l - 1 /\ i <= j
      BY <3>1
    <3>3. t[j + 1] = n.slots[j] /\ n.slots[j] \in 1 .. N
      BY <1>1, <1>12, <3>2
    <3>4. j + 1 = l
      BY <3>1, <3>2
    <3>5. QED BY <3>3, <3>4
  <2>4. QED BY <1>3, <2>1, <2>2, <2>3
<1>16. RootShape(w)
  <2>1. \A l \in 1 .. N + 1 : t[l] \in 1 .. N + 1
    BY <1>15
  <2>2. ASSUME NEW l \in 1 .. N + 1, NEW z \in 1 .. N + 1, t[l] = t[z] PROVE l = z
    <3> DEFINE Old(a) == IF a < i THEN a ELSE a - 1
    <3>1. ASSUME NEW a \in 1 .. N + 1, a # i
          PROVE  Old(a) \in 1 .. N /\ t[a] = n.slots[Old(a)] /\ t[a] # N + 1
      <4>1. CASE a < i
        <5>1. a \in 1 .. N /\ Old(a) = a
          BY <1>3, <4>1
        <5>2. t[a] = n.slots[a] /\ n.slots[a] \in 1 .. N
          BY <1>1, <1>11, <4>1, <5>1
        <5>3. QED BY <5>1, <5>2
      <4>2. CASE ~ (a < i)
        <5>1. a - 1 \in 1 .. N /\ Old(a) = a - 1 /\ i <= a - 1 /\ (a - 1) + 1 = a
          BY <1>3, <3>1, <4>2
        <5>2. PICK j \in 1 .. N : j = a - 1 /\ i <= j
          BY <5>1
        <5>3. t[j + 1] = n.slots[j] /\ n.slots[j] \in 1 .. N
          BY <1>1, <1>12, <5>2
        <5>4. j + 1 = a /\ Old(a) = j
          BY <5>1, <5>2
        <5>5. QED BY <5>3, <5>4
      <4>3. QED BY <4>1, <4>2
    <3>2. CASE l = i \/ z = i
      BY <1>11, <2>2, <3>1, <3>2
    <3>3. CASE l # i /\ z # i
      <4>1. Old(l) = Old(z)
        BY <1>2, <2>2, <3>1, <3>3
      <4>2. QED BY <1>3, <3>3, <4>1
    <3>4. QED BY <3>2, <3>3
  <2>3. ASSUME NEW r \in 1 .. N + 1 PROVE \E l \in 1 .. N + 1 : t[l] = r
    <3>1. CASE r = N + 1
      BY <1>3, <1>11, <3>1
    <3>2. CASE r \in 1 .. N
      <4>1. PICK j \in 1 .. N : n.slots[j] = r
        BY <1>2, <3>2
      <4>2. CASE j < i
        <5>1. j \in 1 .. N + 1
          OBVIOUS
        <5>2. QED BY <1>11, <4>1, <4>2, <5>1
      <4>3. CASE i <= j
        <5>1. j + 1 \in 1 .. N + 1
          OBVIOUS
        <5>2. t[j + 1] = n.slots[j]
          BY <1>12, <4>3
        <5>3. QED BY <4>1, <5>1, <5>2
      <4>4. QED BY <1>3, <4>2, <4>3
    <3>3. QED BY <3>1, <3>2
  <2>4. w = [slots |-> w.slots, entries |-> w.entries, rightmost |-> w.rightmost]
    BY <1>5
  <2>5. /\ w.slots \in Seq(Nat) /\ w.entries \in Seq(Entry)
        /\ Len(w.slots) = N + 1 /\ Len(w.entries) = N + 1
    BY <1>9, <1>11, <1>13
  <2>6. /\ \A l \in 1 .. Len(w.slots) : w.slots[l] \in 1 .. Len(w.slots)
        /\ \A l, z \in 1 .. Len(w.slots) : w.slots[l] = w.slots[z] => l = z
        /\ \A r \in 1 .. Len(w.slots) : \E l \in 1 .. Len(w.slots) : w.slots[l] = r
    <3>1. Len(w.slots) = N + 1 /\ w.slots = t
      BY <1>13, <2>5
    <3>2. QED BY <2>1, <2>2, <2>3, <3>1
  <2>7. Len(w.slots) = Len(w.entries)
    BY <2>5
  <2>8. QED BY <1>14, <2>4, <2>5, <2>6, <2>7, Zenon DEF RootShape
<1>17. \A l \in 1 .. N + 1 : EntryKey(w, l) = es[t[l]].key /\ Child(w, l) = es[t[l]].child
  BY <1>11, <1>13 DEF EntryKey, Child
<1>18. EntryKey(w, i) = s.promoted /\ Child(w, i) = s.left
  <2>1. x.key = s.promoted /\ x.child = s.left
    BY <1>7
  <2>2. QED BY <1>3, <1>9, <1>11, <1>17, <2>1
<1>19. ASSUME NEW j \in 1 .. N, j < i
       PROVE  EntryKey(w, j) = EntryKey(n, j) /\ Child(w, j) = Child(n, j)
  <2>1. t[j] = n.slots[j] /\ j \in 1 .. N + 1 /\ j # i
    BY <1>3, <1>11, <1>19
  <2>2. es[t[j]] = moved[n.slots[j]]
    BY <1>1, <1>9, <2>1
  <2>3. QED BY <1>1, <1>6, <1>17, <2>1, <2>2
<1>20. ASSUME NEW j \in 1 .. N, i <= j
       PROVE  /\ EntryKey(w, j + 1) = EntryKey(n, j)
              /\ Child(w, j + 1) = IF j = i THEN s.right ELSE Child(n, j)
  <2>1. t[j + 1] = n.slots[j] /\ j + 1 \in 1 .. N + 1
    BY <1>12, <1>20
  <2>2. es[t[j + 1]] = moved[n.slots[j]]
    <3>1. PICK r \in 1 .. N : r = n.slots[j]
      BY <1>1
    <3>2. es[r] = moved[r]
      BY <1>9
    <3>3. QED BY <2>1, <3>1, <3>2
  <2>3. QED BY <1>1, <1>6, <1>17, <2>1, <2>2
<1>21. Child(w, N + 2) = IF i = N + 1 THEN s.right ELSE Child(n, N + 1)
  <2>1. Child(w, N + 2) = w.rightmost
    BY <1>11, <1>13 DEF Child
  <2>2. QED BY <1>1, <1>13, <2>1
<1>22. Child(w, i + 1) = s.right
  <2>1. CASE i = N + 1
    <3>1. i + 1 = N + 2
      BY <2>1
    <3>2. QED BY <1>21, <2>1, <3>1
  <2>2. CASE i \in 1 .. N
    <3>1. i <= i
      BY <2>2
    <3>2. QED BY <1>20, <2>2, <3>1
  <2>3. QED BY <1>3, <2>1, <2>2
<1>23. ASSUME NEW j \in 1 .. N + 1, j < i PROVE Child(w, j) = Child(n, j)
  <2>1. j \in 1 .. N
    BY <1>3, <1>23
  <2>2. QED BY <1>19, <1>23, <2>1
<1>24. ASSUME NEW j \in 1 .. N + 1, i < j PROVE Child(w, j + 1) = Child(n, j)
  <2>1. CASE j = N + 1
    <3>1. j + 1 = N + 2 /\ i # N + 1
      BY <1>3, <1>24, <2>1
    <3>2. QED BY <1>21, <2>1, <3>1
  <2>2. CASE j \in 1 .. N
    <3>1. i <= j /\ j # i
      BY <1>3, <1>24
    <3>2. QED BY <1>20, <2>2, <3>1
  <2>3. QED BY <2>1, <2>2
<1>25. Widened(n, s, i, w)
  BY <1>1, <1>11, <1>13, <1>18, <1>19, <1>20, <1>22, <1>23, <1>24 DEF Widened
<1>26. QED BY <1>16, <1>25

(* The keys from the promoted one on that went to the left page go to the  *)
(* right one; every other key goes where it went.                          *)
LEMMA RouteInstalled ==
  ASSUME NEW n, RootShape(n), NEW s \in Split3,
         RouteKey(n, s.promoted) = s.left,
         \A a, b \in 1 .. Len(n.slots) + 1 : Child(n, a) = Child(n, b) => a = b,
         NEW k \in Nat
  PROVE  RouteKey(InstallEntry(n, s), k) =
           IF RouteKey(n, k) = s.left /\ k >= s.promoted THEN s.right ELSE RouteKey(n, k)
<1>1. PICK N \in Nat :
        /\ Len(n.slots) = N
        /\ \A j \in 1 .. N : EntryKey(n, j) \in Nat
  BY RootFacts
<1>2. PICK p \in Nat : p = s.promoted
  BY LeafConstants DEF Split3
<1>3. PICK i : RoutesAt(n, p, i) /\ RouteKey(n, p) = Child(n, i)
  BY RouteExists
<1>4. PICK w : w = InstallEntry(n, s)
  OBVIOUS
<1>5. RootShape(w) /\ Widened(n, s, i, w)
  BY <1>2, <1>3, <1>4, InstallProperties
<1>6. /\ Len(w.slots) = N + 1
      /\ \A j \in 1 .. N : j < i => EntryKey(w, j) = EntryKey(n, j)
      /\ EntryKey(w, i) = p
      /\ \A j \in 1 .. N : i <= j => EntryKey(w, j + 1) = EntryKey(n, j)
      /\ \A j \in 1 .. N + 1 : j < i => Child(w, j) = Child(n, j)
      /\ Child(w, i) = s.left
      /\ Child(w, i + 1) = s.right
      /\ \A j \in 1 .. N + 1 : i < j => Child(w, j + 1) = Child(n, j)
  BY <1>1, <1>2, <1>5 DEF Widened
<1>7. PICK z : RoutesAt(n, k, z) /\ RouteKey(n, k) = Child(n, z)
  BY RouteExists
<1>8. /\ i \in 1 .. N + 1
      /\ \A j \in 1 .. N : j < i => EntryKey(n, j) <= p
      /\ i <= N => p < EntryKey(n, i)
  BY <1>1, <1>3 DEF RoutesAt
<1>9. /\ z \in 1 .. N + 1
      /\ \A j \in 1 .. N : j < z => EntryKey(n, j) <= k
      /\ z <= N => k < EntryKey(n, z)
  BY <1>1, <1>7 DEF RoutesAt
<1>10. Child(n, i) = s.left
  BY <1>2, <1>3
<1>11. RouteKey(n, k) = s.left <=> z = i
  BY <1>1, <1>7, <1>8, <1>9, <1>10
<1>12. CASE k < p
  <2>1. z <= i
    <3>1. CASE i = N + 1
      BY <1>9, <3>1
    <3>2. CASE i \in 1 .. N /\ i < z
      BY <1>1, <1>8, <1>9, <1>12, <3>2
    <3>3. QED BY <1>8, <1>9, <3>1, <3>2
  <2>2. RoutesAt(w, k, z)
    <3>1. ASSUME NEW j \in 1 .. N + 1, j < z PROVE EntryKey(w, j) <= k
      <4>1. j \in 1 .. N /\ j < i
        BY <1>8, <1>9, <2>1, <3>1
      <4>2. QED BY <1>6, <1>9, <3>1, <4>1
    <3>2. k < EntryKey(w, z)
      <4>1. CASE z = i
        BY <1>6, <1>12, <4>1
      <4>2. CASE z < i
        <5>1. z \in 1 .. N
          BY <1>8, <1>9, <4>2
        <5>2. QED BY <1>6, <1>9, <4>2, <5>1
      <4>3. QED BY <1>8, <1>9, <2>1, <4>1, <4>2
    <3>3. z \in 1 .. N + 2
      BY <1>9
    <3>4. QED BY <1>6, <3>1, <3>2, <3>3 DEF RoutesAt
  <2>3. RouteKey(w, k) = Child(w, z)
    BY <1>5, <2>2, RoutePlace
  <2>4. Child(w, z) = Child(n, z)
    BY <1>6, <1>8, <1>9, <1>10, <2>1
  <2>5. ~ (k >= p)
    BY <1>12
  <2>6. QED BY <1>2, <1>4, <1>7, <2>3, <2>4, <2>5
<1>13. CASE k >= p
  <2>1. i <= z
    <3>1. CASE z = N + 1
      BY <1>8, <3>1
    <3>2. CASE z \in 1 .. N /\ z < i
      BY <1>1, <1>8, <1>9, <1>13, <3>2
    <3>3. QED BY <1>8, <1>9, <3>1, <3>2
  <2>2. RoutesAt(w, k, z + 1)
    <3>1. ASSUME NEW j \in 1 .. N + 1, j < z + 1 PROVE EntryKey(w, j) <= k
      <4>1. CASE j < i
        <5>1. j \in 1 .. N /\ EntryKey(w, j) = EntryKey(n, j)
          BY <1>6, <1>8, <4>1
        <5>2. EntryKey(n, j) <= p /\ EntryKey(n, j) \in Nat
          BY <1>1, <1>8, <4>1, <5>1
        <5>3. QED BY <1>13, <5>1, <5>2
      <4>2. CASE j = i
        BY <1>6, <1>13, <4>2
      <4>3. CASE i < j
        <5>1. j - 1 \in 1 .. N /\ i <= j - 1 /\ (j - 1) + 1 = j /\ j - 1 < z
          BY <1>8, <1>9, <3>1, <4>3
        <5>2. EntryKey(w, (j - 1) + 1) = EntryKey(n, j - 1)
          BY <1>6, <5>1
        <5>3. EntryKey(n, j - 1) <= k
          BY <1>9, <5>1
        <5>4. QED BY <5>1, <5>2, <5>3
      <4>4. QED BY <1>8, <4>1, <4>2, <4>3
    <3>2. ASSUME z + 1 <= N + 1 PROVE k < EntryKey(w, z + 1)
      <4>1. z \in 1 .. N
        BY <1>9, <3>2
      <4>2. QED BY <1>6, <1>9, <2>1, <4>1
    <3>3. z + 1 \in 1 .. N + 2
      BY <1>9
    <3>4. QED BY <1>6, <3>1, <3>2, <3>3 DEF RoutesAt
  <2>3. RouteKey(w, k) = Child(w, z + 1)
    BY <1>5, <2>2, RoutePlace
  <2>4. CASE z = i
    BY <1>2, <1>4, <1>6, <1>11, <1>13, <2>3, <2>4
  <2>5. CASE i < z
    <3>1. Child(w, z + 1) = Child(n, z) /\ z # i
      BY <1>6, <1>8, <1>9, <2>5
    <3>2. QED BY <1>4, <1>7, <1>11, <2>3, <3>1
  <2>6. QED BY <1>8, <1>9, <2>1, <2>4, <2>5
<1>14. QED BY <1>2, <1>12, <1>13

(* A root page written and read again is the same root.                    *)
LEMMA ReloadedRoot ==
  ASSUME NEW n, RootShape(n)
  PROVE  DecodeInternal(EncodeInternal(n)) = n
<1>1. /\ n = [slots |-> n.slots, entries |-> n.entries, rightmost |-> n.rightmost]
      /\ n.slots \in Seq(Nat) /\ n.entries \in Seq(Entry)
      /\ Len(n.slots) = Len(n.entries)
      /\ \A r \in 1 .. Len(n.slots) : \E i \in 1 .. Len(n.slots) : n.slots[i] = r
  BY DEF RootShape
<1>2. PICK N \in Nat : N = Len(n.slots)
  BY <1>1
<1> DEFINE cells == [i \in 1 .. N |-> n.entries[n.slots[i]]]
           entries == [i \in 1 .. N |-> cells[CHOOSE j \in 1 .. N : n.slots[j] = i]]
<1>3. DecodeInternal(EncodeInternal(n)) =
        [slots |-> n.slots, rightmost |-> n.rightmost, entries |-> entries]
  BY <1>2 DEF DecodeInternal, EncodeInternal
<1>4. ASSUME NEW i \in 1 .. N PROVE entries[i] = n.entries[i]
  <2> DEFINE j == CHOOSE j \in 1 .. N : n.slots[j] = i
  <2>1. j \in 1 .. N /\ n.slots[j] = i
    BY <1>1, <1>2
  <2>2. entries[i] = cells[j]
    OBVIOUS
  <2> HIDE DEF j, entries
  <2>3. QED BY <2>1, <2>2
<1>5. entries = n.entries
  <2>1. n.entries = [i \in 1 .. N |-> n.entries[i]]
    BY <1>1, <1>2
  <2>2. entries = [i \in 1 .. N |-> entries[i]]
    OBVIOUS
  <2> HIDE DEF entries
  <2>3. [i \in 1 .. N |-> entries[i]] = [i \in 1 .. N |-> n.entries[i]]
    BY <1>4
  <2>4. QED BY <2>1, <2>2, <2>3
<1> HIDE DEF entries
<1>6. [slots |-> n.slots, rightmost |-> n.rightmost, entries |-> n.entries]
        = [slots |-> n.slots, entries |-> n.entries, rightmost |-> n.rightmost]
  OBVIOUS
<1>7. QED BY <1>1, <1>3, <1>5, <1>6

-----------------------------------------------------------------------------
(* A leaf in order, its records in the order of the slots.                 *)
TidyNode(n) ==
  /\ WellFormed(n)
  /\ n \in [slots : Seq(Nat), records : Seq(Record), free_size : {0}]
  /\ \A i \in 1 .. Len(n.slots) : n.slots[i] = i

(* Putting the records in the order of the slots keeps them.               *)
LEMMA TidyProperties ==
  ASSUME NEW n, Ordered(n), NEW c, c = Tidy(n)
  PROVE  TidyNode(c) /\ Reached(c) = Reached(n)
<1>1. PICK N \in Nat :
        /\ Len(n.slots) = N
        /\ \A i \in 1 .. N : /\ n.records[n.slots[i]] \in Record
                             /\ Key(n, i) = n.records[n.slots[i]].row_id
        /\ \A i, j \in 1 .. N : i < j => Key(n, i) < Key(n, j)
  BY OrderedFacts
<1>2. PICK s, r : /\ s = [i \in 1 .. N |-> i]
                  /\ r = [i \in 1 .. N |-> n.records[n.slots[i]]]
  OBVIOUS
<1>3. /\ s \in Seq(Nat) /\ Len(s) = N /\ \A i \in 1 .. N : s[i] = i
      /\ r \in Seq(Record) /\ Len(r) = N /\ \A i \in 1 .. N : r[i] = n.records[n.slots[i]]
  BY <1>1, <1>2
<1>4. c = [slots |-> s, records |-> r, free_size |-> 0]
  BY <1>1, <1>2 DEF Tidy
<1>5. c.slots = s /\ c.records = r
      /\ c \in [slots : Seq(Nat), records : Seq(Record), free_size : {0}]
  BY <1>3, <1>4
<1>6. c \in Node
  <2>1. 0 \in 0 .. PageSize
    BY LeafConstants
  <2>2. QED BY <1>3, <1>4, <2>1 DEF Node
<1>7. \A i \in 1 .. N : c.records[c.slots[i]] = n.records[n.slots[i]]
  BY <1>3, <1>5
<1>8. \A i \in 1 .. N : Key(c, i) = Key(n, i)
  BY <1>1, <1>7 DEF Key
<1>9. WellFormed(c)
  <2>1. \A i \in 1 .. Len(c.slots) : c.slots[i] \in 1 .. Len(c.records)
    BY <1>3, <1>5
  <2>2. \A i, j \in 1 .. Len(c.slots) : i < j => Key(c, i) < Key(c, j)
    BY <1>1, <1>3, <1>5, <1>8
  <2>3. \A i \in 1 .. Len(c.records) : \E j \in 1 .. Len(c.slots) : c.slots[j] = i
    BY <1>3, <1>5
  <2>4. Len(c.slots) = Len(c.records)
    BY <1>3, <1>5
  <2>5. QED BY <1>6, <2>1, <2>2, <2>3, <2>4 DEF WellFormed, Ordered
<1>10. Reached(c) = Reached(n)
  BY <1>1, <1>3, <1>5, <1>7 DEF Reached
<1>11. \A i \in 1 .. Len(c.slots) : c.slots[i] = i
  BY <1>3, <1>5
<1>12. QED BY <1>5, <1>9, <1>10, <1>11 DEF TidyNode

(* A leaf that is tidy stays as it is.                                     *)
LEMMA TidySame ==
  ASSUME NEW n, TidyNode(n)
  PROVE  Tidy(n) = n
<1>1. PICK s \in Seq(Nat), r \in Seq(Record) :
        n = [slots |-> s, records |-> r, free_size |-> 0]
  BY DEF TidyNode
<1>2. n.slots = s /\ n.records = r
  BY <1>1
<1>3. PICK N \in Nat : N = Len(s)
  OBVIOUS
<1>4. Len(r) = N /\ \A i \in 1 .. N : s[i] = i
  BY <1>2, <1>3 DEF TidyNode, WellFormed
<1>5. s = [i \in 1 .. N |-> i]
  BY <1>3, <1>4
<1>6. r = [i \in 1 .. N |-> r[s[i]]]
  <2>1. r = [i \in 1 .. N |-> r[i]]
    BY <1>4
  <2>2. [i \in 1 .. N |-> r[i]] = [i \in 1 .. N |-> r[s[i]]]
    BY <1>4
  <2>3. QED BY <2>1, <2>2
<1>7. Tidy(n) = [slots |-> [i \in 1 .. N |-> i], records |-> [i \in 1 .. N |-> r[s[i]]],
                 free_size |-> 0]
  BY <1>2, <1>3 DEF Tidy
<1>8. QED BY <1>1, <1>5, <1>6, <1>7

(* Two leaves whose slots hold the same records answer alike.              *)
LEMMA SameReached ==
  ASSUME NEW a, NEW b, Ordered(a), Ordered(b), Reached(a) = Reached(b)
  PROVE  RowsOf(a) = RowsOf(b) /\ KeysOf(a) = KeysOf(b)
<1>1. Live(a) = Live(b)
  BY DEF Live
<1>2. QED BY <1>1, SameRows DEF KeysOf

(* The keys of a leaf are row ids, and a row that it has is one of them.   *)
LEMMA KeysOfLeaf ==
  ASSUME NEW n, Ordered(n)
  PROVE  /\ KeysOf(n) \subseteq Keys
         /\ KeysOf(n) = {Key(n, i) : i \in 1 .. Len(n.slots)}
         /\ \A k : GetRecord(n, k) # NoRow => k \in KeysOf(n)
<1>1. PICK N \in Nat :
        /\ Len(n.slots) = N
        /\ \A i \in 1 .. N : /\ Key(n, i) = n.records[n.slots[i]].row_id
                             /\ Key(n, i) \in Keys
  BY OrderedFacts
<1>2. KeysOf(n) = {Key(n, i) : i \in 1 .. Len(n.slots)}
  BY <1>1 DEF KeysOf, Reached
<1>3. ASSUME NEW k, GetRecord(n, k) # NoRow PROVE k \in KeysOf(n)
  <2>1. PICK x \in Live(n) : x.row_id = k
    BY <1>3, GetRow
  <2>2. QED BY <2>1 DEF Live, KeysOf
<1>4. QED BY <1>1, <1>2, <1>3

-----------------------------------------------------------------------------
(* Whatever split returns, the halves it leaves are in order.              *)
LEMMA SplitOrdered ==
  ASSUME NEW n, Ordered(n)
  PROVE  /\ Ordered(Split(n).left) /\ Ordered(Split(n).right)
         /\ Split(n).ret \in {"Ok", "CorruptPage", "panic"}
<1>1. Len(n.slots) \in Nat
  BY DEF Ordered, Node
<1>2. PICK mid \in 0 .. Len(n.slots) : mid = Len(n.slots) \div 2
  <2>1. \A N \in Nat : N \div 2 \in 0 .. N
    OBVIOUS
  <2>2. QED BY <1>1, <2>1
<1>3. PICK low, up : low = Lower(n, mid) /\ up = Upper(n, mid)
  OBVIOUS
<1> DEFINE outcomes == {CompactOutcome(low), CompactOutcome(up)}
           right == IF Fits(Compact(low)) THEN Compact(up) ELSE up
           none == right.slots = <<>>
<1>4. Split(n) = [left     |-> Compact(low),
                  right    |-> right,
                  promoted |-> IF none THEN NoRow ELSE Key(right, 1),
                  ret      |-> CASE "panic" \in outcomes -> "panic"
                                 [] "panic" \notin outcomes /\ none -> "CorruptPage"
                                 [] OTHER -> "Ok"]
  BY <1>2, <1>3 DEF Split, Lower, Upper
<1>5. Ordered(low) /\ Ordered(up)
  BY <1>3, LowerHalf, UpperHalf
<1>6. Ordered(Compact(low)) /\ Ordered(Compact(up))
  BY <1>5, CompactProperties DEF WellFormed
<1>7. Ordered(right)
  BY <1>5, <1>6
<1> HIDE DEF none, outcomes, right
<1>8. Split(n).left = Compact(low) /\ Split(n).right = right
  BY <1>4
<1>9. Split(n).ret \in {"Ok", "CorruptPage", "panic"}
  BY <1>4
<1>10. QED BY <1>6, <1>7, <1>8, <1>9

(* A split that succeeds separates the keys: the promoted key is the first *)
(* of the right half.                                                      *)
LEMMA SplitSeparates ==
  ASSUME NEW n, Ordered(n), Split(n).ret = "Ok", NEW s, s = Split(n)
  PROVE  /\ WellFormed(s.left) /\ WellFormed(s.right)
         /\ s.promoted \in KeysOf(n)
         /\ \A x \in KeysOf(s.left) : x \in KeysOf(n) /\ x < s.promoted
         /\ \A x \in KeysOf(s.right) : x \in KeysOf(n) /\ x >= s.promoted
         /\ \A j \in Keys :
              /\ j < s.promoted => GetRecord(s.left, j) = GetRecord(n, j)
                                   /\ GetRecord(s.right, j) = NoRow
              /\ j >= s.promoted => GetRecord(s.right, j) = GetRecord(n, j)
                                    /\ GetRecord(s.left, j) = NoRow
<1>1. PICK mid \in 0 .. Len(n.slots) :
        /\ s.left = Compact(Lower(n, mid)) /\ s.right = Compact(Upper(n, mid))
        /\ s.right.slots # <<>> /\ s.promoted = Key(s.right, 1)
  BY SplitHalves
<1>2. PICK left, right, p : left = s.left /\ right = s.right /\ p = s.promoted
  OBVIOUS
<1>3. PICK low, up : low = Lower(n, mid) /\ up = Upper(n, mid)
  OBVIOUS
<1>4. /\ Ordered(low) /\ Ordered(up)
      /\ Live(low) \subseteq Live(n) /\ Live(up) \subseteq Live(n)
  BY <1>3, LowerHalf, UpperHalf DEF Between
<1>5. /\ WellFormed(left) /\ WellFormed(right)
      /\ Live(left) \subseteq Live(n) /\ Live(right) \subseteq Live(n)
      /\ Reached(left) = Live(left) /\ Reached(right) = Live(right)
  BY <1>1, <1>2, <1>3, <1>4, CompactProperties
<1>6. \A j \in Keys :
        /\ j < p => GetRecord(left, j) = GetRecord(n, j) /\ GetRecord(right, j) = NoRow
        /\ j >= p => GetRecord(right, j) = GetRecord(n, j) /\ GetRecord(left, j) = NoRow
  <2> SUFFICES ASSUME NEW j \in Keys
               PROVE  /\ j < p => GetRecord(left, j) = GetRecord(n, j)
                                  /\ GetRecord(right, j) = NoRow
                      /\ j >= p => GetRecord(right, j) = GetRecord(n, j)
                                   /\ GetRecord(left, j) = NoRow
    OBVIOUS
  <2>1. /\ left = Compact(Lower(n, mid)) /\ right = Compact(Upper(n, mid))
        /\ right.slots # <<>> /\ p = Key(right, 1)
    BY <1>1, <1>2
  <2>2. QED BY <2>1, SplitKeeps
<1>7. PICK y \in Live(right) : p = y.row_id /\ \A x \in Live(right) : p <= x.row_id
  <2>1. right.slots # <<>> /\ p = Key(right, 1)
    BY <1>1, <1>2
  <2>2. QED BY <1>5, <2>1, FirstKey
<1>8. KeysOf(left) \subseteq KeysOf(n) /\ KeysOf(right) \subseteq KeysOf(n) /\ p \in KeysOf(n)
  BY <1>5, <1>7 DEF KeysOf, Live
<1>9. \A x \in KeysOf(right) : x >= p
  <2>1. KeysOf(right) \subseteq Nat /\ p \in Nat
    BY <1>5, <1>8, KeysOfLeaf, LeafConstants DEF WellFormed
  <2>2. ASSUME NEW x \in KeysOf(right) PROVE x >= p
    <3>1. PICK z \in Live(right) : x = z.row_id
      BY <1>5 DEF KeysOf
    <3>2. p <= x
      BY <1>7, <3>1
    <3>3. QED BY <2>1, <3>2
  <2>3. QED BY <2>2
<1>10. \A x \in KeysOf(left) : x < p
  <2>1. KeysOf(left) \subseteq Keys /\ p \in Nat /\ Keys \subseteq Nat
    BY <1>5, <1>8, KeysOfLeaf, LeafConstants DEF WellFormed
  <2>2. ASSUME NEW x \in KeysOf(left), ~ (x < p) PROVE FALSE
    <3>1. PICK z \in Live(left) : x = z.row_id
      BY <1>5 DEF KeysOf
    <3>2. x >= p /\ x \in Keys
      <4>1. x \in Keys
        BY <2>1, <2>2
      <4>2. x \in Nat /\ p \in Nat
        BY <2>1, <4>1
      <4>3. \A a, b \in Nat : ~ (a < b) => a >= b
        OBVIOUS
      <4>4. QED BY <2>2, <4>1, <4>2, <4>3
    <3>3. GetRecord(left, x) = NoRow
      BY <1>6, <3>2
    <3>4. GetRecord(left, x) = z.data
      BY <1>5, <3>1, GetRow DEF WellFormed
    <3>5. z \in Record
      <4>1. Ordered(left)
        BY <1>5 DEF WellFormed
      <4>2. PICK N \in Nat :
              Len(left.slots) = N /\ \A i \in 1 .. N : left.records[left.slots[i]] \in Record
        BY <4>1, OrderedFacts
      <4>3. QED BY <3>1, <4>2 DEF Live, Reached
    <3>6. z.data \in Payloads
      BY <3>5 DEF Record
    <3>7. QED BY <3>3, <3>4, <3>6, LeafConstants
  <2>3. QED BY <2>2
<1>11. QED BY <1>2, <1>5, <1>6, <1>8, <1>9, <1>10

-----------------------------------------------------------------------------
(* The halves of a leaf that was split for a new row: the promoted key     *)
(* separates them, and they answer for the leaf with the row put in.       *)
Parted(n, k, v, h) ==
  /\ h.promoted \in KeysOf(n)
  /\ GetRecord(n, k) = NoRow
  /\ \A x \in KeysOf(h.left) : x \in KeysOf(n) \cup {k} /\ x < h.promoted
  /\ \A x \in KeysOf(h.right) : x \in KeysOf(n) \cup {k} /\ x >= h.promoted
  /\ \A j \in Keys : j < h.promoted =>
       GetRecord(h.left, j) = IF j = k THEN v ELSE GetRecord(n, j)
  /\ \A j \in Keys : j >= h.promoted =>
       GetRecord(h.right, j) = IF j = k THEN v ELSE GetRecord(n, j)

(* The row of an insert that succeeds was not there before, and nothing    *)
(* but that row changes.                                                   *)
LEMMA InsertOk ==
  ASSUME NEW n, WellFormed(n), NEW k \in Keys, NEW v \in Payloads,
         NEW o, o = InsertRecord(n, k, v)
  PROVE  /\ Ordered(o.node)
         /\ o.ret \in {"Ok", "panic", "DuplicateKey", "TupleTooLarge", "PageFull"}
         /\ o.ret = "Ok" =>
              /\ GetRecord(n, k) = NoRow
              /\ \A j \in Keys : GetRecord(o.node, j) = IF j = k THEN v ELSE GetRecord(n, j)
              /\ KeysOf(o.node) \subseteq KeysOf(n) \cup {k}
         /\ o.ret = "DuplicateKey" => GetRecord(n, k) # NoRow
         /\ o.ret \in {"DuplicateKey", "TupleTooLarge", "PageFull"} => o.node = n
<1>1. /\ WellFormed(o.node)
      /\ \/ /\ o.ret \in {"Ok", "panic"} /\ RowsOf(n)[k] = NoRow
            /\ RowsOf(o.node) = [RowsOf(n) EXCEPT ![k] = v]
         \/ o.ret = "DuplicateKey" /\ RowsOf(n)[k] # NoRow /\ o.node = n
         \/ o.ret \in {"TupleTooLarge", "PageFull"} /\ o.node = n
      /\ KeysOf(o.node) \subseteq KeysOf(n) \cup {k}
  BY InsertProperties
<1>2. /\ \A j \in Keys : RowsOf(n)[j] = GetRecord(n, j)
      /\ \A j \in Keys : RowsOf(o.node)[j] = GetRecord(o.node, j)
  BY DEF RowsOf
<1>3. ASSUME o.ret = "Ok"
      PROVE  /\ GetRecord(n, k) = NoRow
             /\ \A j \in Keys : GetRecord(o.node, j) = IF j = k THEN v ELSE GetRecord(n, j)
  <2>1. RowsOf(n)[k] = NoRow /\ RowsOf(o.node) = [RowsOf(n) EXCEPT ![k] = v]
    BY <1>1, <1>3
  <2>2. \A j \in Keys : RowsOf(o.node)[j] = IF j = k THEN v ELSE RowsOf(n)[j]
    BY <2>1 DEF RowsOf
  <2>3. QED BY <1>2, <2>1, <2>2
<1>4. Ordered(o.node)
  BY <1>1 DEF WellFormed
<1>5. o.ret \in {"Ok", "panic", "DuplicateKey", "TupleTooLarge", "PageFull"}
  BY <1>1
<1>6. /\ o.ret = "DuplicateKey" => GetRecord(n, k) # NoRow
      /\ o.ret \in {"DuplicateKey", "TupleTooLarge", "PageFull"} => o.node = n
  BY <1>1, <1>2
<1>7. QED BY <1>1, <1>3, <1>4, <1>5, <1>6

(* A delete that succeeds takes the row of its key, and no other.          *)
LEMMA DeleteOk ==
  ASSUME NEW n, WellFormed(n), NEW k \in Keys, NEW o, o = DeleteRecord(n, k)
  PROVE  /\ Ordered(o.node)
         /\ o.ret \in {"Ok", "KeyNotFound"}
         /\ o.ret = "Ok" =>
              \A j \in Keys : GetRecord(o.node, j) = IF j = k THEN NoRow ELSE GetRecord(n, j)
         /\ o.ret = "KeyNotFound" => GetRecord(n, k) = NoRow /\ o.node = n
         /\ KeysOf(o.node) \subseteq KeysOf(n) \cup {k}
<1>1. /\ WellFormed(o.node)
      /\ \/ o.ret = "Ok" /\ RowsOf(o.node) = [RowsOf(n) EXCEPT ![k] = NoRow]
         \/ o.ret = "KeyNotFound" /\ RowsOf(n)[k] = NoRow /\ o.node = n
      /\ KeysOf(o.node) \subseteq KeysOf(n) \cup {k}
  BY DeleteProperties
<1>2. /\ \A j \in Keys : RowsOf(n)[j] = GetRecord(n, j)
      /\ \A j \in Keys : RowsOf(o.node)[j] = GetRecord(o.node, j)
  BY DEF RowsOf
<1>3. ASSUME o.ret = "Ok", NEW j \in Keys
      PROVE  GetRecord(o.node, j) = IF j = k THEN NoRow ELSE GetRecord(n, j)
  <2>1. RowsOf(o.node) = [RowsOf(n) EXCEPT ![k] = NoRow]
    BY <1>1, <1>3
  <2>2. RowsOf(o.node)[j] = IF j = k THEN NoRow ELSE RowsOf(n)[j]
    BY <2>1 DEF RowsOf
  <2>3. QED BY <1>2, <2>2
<1>4. o.ret = "KeyNotFound" => GetRecord(n, k) = NoRow /\ o.node = n
  BY <1>1, <1>2
<1>5. o.ret \in {"Ok", "KeyNotFound"}
  BY <1>1
<1>6. QED BY <1>1, <1>3, <1>4, <1>5 DEF WellFormed

(* Whatever the split and the insert after it return, the two leaves they  *)
(* leave behind are in order; if they succeed, they part the rows.         *)
LEMMA HalvesProperties ==
  ASSUME NEW p, NEW n, n = Held(p).leaf, WellFormed(n),
         NEW k \in Keys, NEW v \in Payloads, NEW h, h = Halves(p, k, v)
  PROVE  /\ Ordered(h.left) /\ Ordered(h.right)
         /\ h.ret \in Results
         /\ h.ret = "Ok" => Parted(n, k, v, h)
<1>1. PICK s : s = Split(n)
  OBVIOUS
<1>2. PICK half : half = IF k < s.promoted THEN s.left ELSE s.right
  OBVIOUS
<1>3. PICK r : r = InsertRecord(half, k, v)
  OBVIOUS
<1>4. h = IF s.ret # "Ok"
          THEN [left |-> s.left, right |-> s.right, promoted |-> s.promoted, ret |-> s.ret]
          ELSE [left     |-> IF k < s.promoted THEN r.node ELSE s.left,
                right    |-> IF k < s.promoted THEN s.right ELSE r.node,
                promoted |-> s.promoted,
                ret      |-> r.ret]
  BY <1>1, <1>2, <1>3 DEF Halves
<1>5. Ordered(n)
  BY DEF WellFormed
<1>6. CASE s.ret # "Ok"
  <2>1. h.left = s.left /\ h.right = s.right /\ h.ret = s.ret
    BY <1>4, <1>6
  <2>2. Ordered(s.left) /\ Ordered(s.right) /\ s.ret \in {"Ok", "CorruptPage", "panic"}
    BY <1>1, <1>5, SplitOrdered
  <2>3. Ordered(h.left) /\ Ordered(h.right)
    BY <2>1, <2>2
  <2>4. h.ret \in Results
    <3>1. s.ret \in Results
      BY <2>2 DEF Results
    <3>2. QED BY <2>1, <3>1
  <2>5. QED BY <1>6, <2>1, <2>3, <2>4
<1>7. CASE s.ret = "Ok"
  <2>1. /\ WellFormed(s.left) /\ WellFormed(s.right)
        /\ s.promoted \in KeysOf(n)
        /\ \A x \in KeysOf(s.left) : x \in KeysOf(n) /\ x < s.promoted
        /\ \A x \in KeysOf(s.right) : x \in KeysOf(n) /\ x >= s.promoted
        /\ \A j \in Keys :
             /\ j < s.promoted => GetRecord(s.left, j) = GetRecord(n, j)
             /\ j >= s.promoted => GetRecord(s.right, j) = GetRecord(n, j)
    BY <1>1, <1>5, <1>7, SplitSeparates
  <2>2. Ordered(s.left) /\ Ordered(s.right) /\ WellFormed(half)
    BY <1>2, <2>1 DEF WellFormed
  <2>3. /\ Ordered(r.node)
        /\ r.ret \in {"Ok", "panic", "DuplicateKey", "TupleTooLarge", "PageFull"}
        /\ r.ret = "Ok" =>
              /\ GetRecord(half, k) = NoRow
              /\ \A j \in Keys : GetRecord(r.node, j) = IF j = k THEN v ELSE GetRecord(half, j)
              /\ KeysOf(r.node) \subseteq KeysOf(half) \cup {k}
    BY <1>3, <2>2, InsertOk
  <2>4. /\ h.left = (IF k < s.promoted THEN r.node ELSE s.left)
        /\ h.right = (IF k < s.promoted THEN s.right ELSE r.node)
        /\ h.promoted = s.promoted /\ h.ret = r.ret
    BY <1>4, <1>7
  <2>5. Ordered(h.left) /\ Ordered(h.right) /\ h.ret \in Results
    <3>1. Ordered(h.left) /\ Ordered(h.right)
      BY <2>2, <2>3, <2>4
    <3>2. r.ret \in Results
      BY <2>3 DEF Results
    <3>3. QED BY <2>4, <3>1, <3>2
  <2>6. s.promoted \in Nat /\ k \in Nat
    BY <1>5, <2>1, KeysOfLeaf, LeafConstants
  <2>7. ASSUME h.ret = "Ok" PROVE Parted(n, k, v, h)
    <3>1. CASE k < s.promoted
      <4>1. h.left = r.node /\ h.right = s.right /\ half = s.left
        BY <1>2, <2>4, <3>1
      <4>2. /\ GetRecord(s.left, k) = NoRow
            /\ \A j \in Keys : GetRecord(r.node, j) = IF j = k THEN v ELSE GetRecord(s.left, j)
            /\ \A x \in KeysOf(r.node) : x \in KeysOf(s.left) \/ x = k
        BY <2>3, <2>4, <2>7, <4>1
      <4>3. GetRecord(n, k) = NoRow
        BY <2>1, <3>1, <4>2
      <4>4. \A x \in KeysOf(h.left) : x \in KeysOf(n) \cup {k} /\ x < h.promoted
        BY <2>1, <2>4, <3>1, <4>1, <4>2
      <4>5. \A x \in KeysOf(h.right) : x \in KeysOf(n) \cup {k} /\ x >= h.promoted
        BY <2>1, <2>4, <4>1
      <4>6. \A j \in Keys : j < h.promoted =>
              GetRecord(h.left, j) = IF j = k THEN v ELSE GetRecord(n, j)
        BY <2>1, <2>4, <4>1, <4>2
      <4>7. \A j \in Keys : j >= h.promoted =>
              GetRecord(h.right, j) = IF j = k THEN v ELSE GetRecord(n, j)
        <5>1. ~ (k >= s.promoted)
          BY <2>6, <3>1
        <5>2. QED BY <2>1, <2>4, <4>1, <5>1
      <4>8. QED BY <2>1, <2>4, <4>3, <4>4, <4>5, <4>6, <4>7 DEF Parted
    <3>2. CASE ~ (k < s.promoted)
      <4>1. h.left = s.left /\ h.right = r.node /\ half = s.right
        BY <1>2, <2>4, <3>2
      <4>2. /\ GetRecord(s.right, k) = NoRow
            /\ \A j \in Keys : GetRecord(r.node, j) = IF j = k THEN v ELSE GetRecord(s.right, j)
            /\ \A x \in KeysOf(r.node) : x \in KeysOf(s.right) \/ x = k
        BY <2>3, <2>4, <2>7, <4>1
      <4>3. k >= s.promoted
        BY <2>6, <3>2
      <4>4. GetRecord(n, k) = NoRow
        BY <2>1, <4>2, <4>3
      <4>5. \A x \in KeysOf(h.left) : x \in KeysOf(n) \cup {k} /\ x < h.promoted
        BY <2>1, <2>4, <4>1
      <4>6. \A x \in KeysOf(h.right) : x \in KeysOf(n) \cup {k} /\ x >= h.promoted
        BY <2>1, <2>4, <4>1, <4>2, <4>3
      <4>7. \A j \in Keys : j < h.promoted =>
              GetRecord(h.left, j) = IF j = k THEN v ELSE GetRecord(n, j)
        BY <2>1, <2>4, <3>2, <4>1
      <4>8. \A j \in Keys : j >= h.promoted =>
              GetRecord(h.right, j) = IF j = k THEN v ELSE GetRecord(n, j)
        BY <2>1, <2>4, <4>1, <4>2
      <4>9. QED BY <2>1, <2>4, <4>4, <4>5, <4>6, <4>7, <4>8 DEF Parted
    <3>3. QED BY <3>1, <3>2
  <2>8. QED BY <2>5, <2>7
<1>8. QED BY <1>6, <1>7

-----------------------------------------------------------------------------
(* The siblings of the i-th child of a root.                               *)
Before(w, i) == IF i = 1 THEN NoSibling ELSE Child(w, i - 1)
After(w, i)  == IF i = Len(w.slots) + 1 THEN NoSibling ELSE Child(w, i + 1)

Distinct(w) ==
  \A i, j \in 1 .. Len(w.slots) + 1 : Child(w, i) = Child(w, j) => i = j

(* The leaves H are the children of a root that knows every page below     *)
(* free, each linked to its neighbours.                                    *)
Links(H, w, free) ==
  /\ Len(w.slots) + 2 = free
  /\ Distinct(w)
  /\ \A i \in 1 .. Len(w.slots) + 1 : Child(w, i) \in 1 .. Len(w.slots) + 1
  /\ \A p \in 1 .. Len(w.slots) + 1 : \E i \in 1 .. Len(w.slots) + 1 : Child(w, i) = p
  /\ Child(w, 1) = FirstLeaf
  /\ \A i \in 1 .. Len(w.slots) + 1 :
       /\ H[Child(w, i)] # NoNode
       /\ H[Child(w, i)].prev = Before(w, i)
       /\ H[Child(w, i)].next = After(w, i)

(* Every key is in the leaf that the root routes it to.                    *)
Routed(H, w) ==
  \A p \in 1 .. Len(w.slots) + 1 : \A k \in KeysOf(H[p].leaf) : RouteKey(w, k) = p

(* The leaves differ in what they hold, not in how they are linked.        *)
SameLinks(H, G, free) ==
  \A p \in 1 .. free - 1 : H[p] # NoNode =>
    G[p] # NoNode /\ G[p].prev = H[p].prev /\ G[p].next = H[p].next

(* Leaves linked as before, to the children of a root as before.           *)
LEMMA LinksKept ==
  ASSUME NEW H, NEW G, NEW w, NEW free, Len(w.slots) \in Nat,
         Links(H, w, free), SameLinks(H, G, free)
  PROVE  Links(G, w, free)
<1>1. PICK N \in Nat : N = Len(w.slots)
  OBVIOUS
<1>2. free - 1 = N + 1
  BY <1>1 DEF Links
<1>3. ASSUME NEW i \in 1 .. N + 1
      PROVE  /\ G[Child(w, i)] # NoNode
             /\ G[Child(w, i)].prev = Before(w, i)
             /\ G[Child(w, i)].next = After(w, i)
  <2>1. PICK c \in 1 .. N + 1 : c = Child(w, i)
    BY <1>1 DEF Links
  <2>2. H[c] # NoNode /\ H[c].prev = Before(w, i) /\ H[c].next = After(w, i)
    BY <1>1, <2>1 DEF Links
  <2>3. QED BY <1>2, <2>1, <2>2 DEF SameLinks
<1>4. QED BY <1>1, <1>3 DEF Links

(* The leaves after a split of page p: the right half in page q, and the   *)
(* old right sibling linked to it.                                         *)
SplitLinks(H, G, p, q) ==
  /\ G[p] # NoNode /\ G[p].prev = H[p].prev /\ G[p].next = q
  /\ G[q] # NoNode /\ G[q].prev = p /\ G[q].next = H[p].next
  /\ H[p].next # NoSibling =>
       /\ G[H[p].next] # NoNode /\ G[H[p].next].prev = q
       /\ G[H[p].next].next = H[H[p].next].next
  /\ \A x \in 1 .. q - 1 : x \notin {p, H[p].next} => G[x] = H[x]

(* A split keeps the list once its entry is in the root.                   *)
LEMMA LinksWidened ==
  ASSUME NEW H, NEW G, NEW n, NEW w, NEW s, NEW i, Len(n.slots) \in Nat,
         Links(H, n, s.right), i \in 1 .. Len(n.slots) + 1,
         Child(n, i) = s.left, Widened(n, s, i, w),
         SplitLinks(H, G, s.left, s.right)
  PROVE  Links(G, w, s.right + 1)
<1>1. PICK N \in Nat : N = Len(n.slots)
  OBVIOUS
<1>2. PICK p, q : p = s.left /\ q = s.right
  OBVIOUS
<1>3. i \in 1 .. N + 1 /\ q = N + 2 /\ Len(w.slots) = N + 1
  BY <1>1, <1>2 DEF Links, Widened
<1>4. /\ \A j, l \in 1 .. N + 1 : Child(n, j) = Child(n, l) => j = l
      /\ \A j \in 1 .. N + 1 : Child(n, j) \in 1 .. N + 1
      /\ \A c \in 1 .. N + 1 : \E j \in 1 .. N + 1 : Child(n, j) = c
      /\ Child(n, 1) = FirstLeaf
      /\ \A j \in 1 .. N + 1 : /\ H[Child(n, j)] # NoNode
                               /\ H[Child(n, j)].prev = Before(n, j)
                               /\ H[Child(n, j)].next = After(n, j)
  BY <1>1 DEF Links, Distinct
<1>5. /\ \A j \in 1 .. N + 1 : j < i => Child(w, j) = Child(n, j)
      /\ Child(w, i) = p /\ Child(n, i) = p
      /\ Child(w, i + 1) = q
      /\ \A j \in 1 .. N + 1 : i < j => Child(w, j + 1) = Child(n, j)
  BY <1>1, <1>2 DEF Widened
<1>6. \A j \in 1 .. N + 2 :
        \/ j \in 1 .. N + 1 /\ j < i /\ Child(w, j) = Child(n, j)
        \/ j = i /\ Child(w, j) = Child(n, i)
        \/ j = i + 1 /\ Child(w, j) = q
        \/ j - 1 \in 1 .. N + 1 /\ i < j - 1 /\ Child(w, j) = Child(n, j - 1)
  <2> SUFFICES ASSUME NEW j \in 1 .. N + 2
               PROVE  \/ j \in 1 .. N + 1 /\ j < i /\ Child(w, j) = Child(n, j)
                      \/ j = i /\ Child(w, j) = Child(n, i)
                      \/ j = i + 1 /\ Child(w, j) = q
                      \/ j - 1 \in 1 .. N + 1 /\ i < j - 1 /\ Child(w, j) = Child(n, j - 1)
    OBVIOUS
  <2>1. CASE j < i
    BY <1>3, <1>5, <2>1
  <2>2. CASE j = i \/ j = i + 1
    BY <1>3, <1>5, <2>2
  <2>3. CASE i + 1 < j
    <3>1. PICK l \in 1 .. N + 1 : j = l + 1
      <4>1. j - 1 \in 1 .. N + 1 /\ j = (j - 1) + 1
        BY <1>3, <2>3
      <4>2. QED BY <4>1
    <3>2. i < l /\ j - 1 = l
      BY <1>3, <2>3, <3>1
    <3>3. Child(w, j) = Child(n, l)
      BY <1>5, <3>1, <3>2
    <3>4. QED BY <3>2, <3>3
  <2>4. QED BY <1>3, <2>1, <2>2, <2>3
<1>7. Distinct(w)
  <2> SUFFICES ASSUME NEW j \in 1 .. N + 2, NEW l \in 1 .. N + 2, Child(w, j) = Child(w, l)
               PROVE  j = l
    BY <1>3 DEF Distinct
  <2>1. \A a \in 1 .. N + 1 : Child(n, a) # q
    BY <1>3, <1>4
  <2>2. \A x \in 1 .. N + 2 :
          \/ x = i + 1 /\ Child(w, x) = q
          \/ \E a \in 1 .. N + 1 : Child(w, x) = Child(n, a) /\ x = IF a <= i THEN a ELSE a + 1
    <3> SUFFICES ASSUME NEW x \in 1 .. N + 2, x # i + 1 \/ Child(w, x) # q
                 PROVE  \E a \in 1 .. N + 1 :
                          Child(w, x) = Child(n, a) /\ x = IF a <= i THEN a ELSE a + 1
      OBVIOUS
    <3>1. CASE x \in 1 .. N + 1 /\ x < i /\ Child(w, x) = Child(n, x)
      <4>1. x <= i
        BY <1>3, <3>1
      <4>2. QED BY <3>1, <4>1
    <3>2. CASE x = i /\ Child(w, x) = Child(n, i)
      BY <1>3, <3>2
    <3>3. CASE x - 1 \in 1 .. N + 1 /\ i < x - 1 /\ Child(w, x) = Child(n, x - 1)
      <4>1. ~ (x - 1 <= i) /\ x = (x - 1) + 1
        BY <1>3, <3>3
      <4>2. QED BY <3>3, <4>1
    <3>4. QED BY <1>6, <3>1, <3>2, <3>3
  <2>3. CASE j = i + 1 /\ Child(w, j) = q
    BY <2>1, <2>2, <2>3
  <2>4. CASE l = i + 1 /\ Child(w, l) = q
    BY <2>1, <2>2, <2>4
  <2>5. CASE /\ \E a \in 1 .. N + 1 : Child(w, j) = Child(n, a) /\ j = IF a <= i THEN a ELSE a + 1
             /\ \E a \in 1 .. N + 1 : Child(w, l) = Child(n, a) /\ l = IF a <= i THEN a ELSE a + 1
    <3>1. PICK a \in 1 .. N + 1 : Child(w, j) = Child(n, a) /\ j = IF a <= i THEN a ELSE a + 1
      BY <2>5
    <3>2. PICK b \in 1 .. N + 1 : Child(w, l) = Child(n, b) /\ l = IF b <= i THEN b ELSE b + 1
      BY <2>5
    <3>3. a = b
      BY <1>4, <3>1, <3>2
    <3>4. QED BY <3>1, <3>2, <3>3
  <2>6. QED BY <2>2, <2>3, <2>4, <2>5
<1>8. \A j \in 1 .. N + 2 : Child(w, j) \in 1 .. N + 2
  <2> SUFFICES ASSUME NEW j \in 1 .. N + 2 PROVE Child(w, j) \in 1 .. N + 2
    OBVIOUS
  <2>1. \A a \in 1 .. N + 1 : Child(n, a) \in 1 .. N + 2
    <3>1. \A x \in 1 .. N + 1 : x \in 1 .. N + 2
      OBVIOUS
    <3>2. QED BY <1>4, <3>1
  <2>2. q \in 1 .. N + 2
    BY <1>3
  <2>3. QED BY <1>3, <1>6, <2>1, <2>2
<1>9. \A c \in 1 .. N + 2 : \E j \in 1 .. N + 2 : Child(w, j) = c
  <2> SUFFICES ASSUME NEW c \in 1 .. N + 2 PROVE \E j \in 1 .. N + 2 : Child(w, j) = c
    OBVIOUS
  <2>1. CASE c = N + 2
    BY <1>3, <1>5, <2>1
  <2>2. CASE c \in 1 .. N + 1
    <3>1. PICK j \in 1 .. N + 1 : Child(n, j) = c
      BY <1>4, <2>2
    <3>2. CASE j <= i
      BY <1>3, <1>5, <3>1, <3>2
    <3>3. CASE i < j
      <4>1. Child(w, j + 1) = c /\ j + 1 \in 1 .. N + 2
        BY <1>5, <3>1, <3>3
      <4>2. QED BY <4>1
    <3>4. QED BY <1>3, <3>2, <3>3
  <2>3. QED BY <2>1, <2>2
<1>10. Child(w, 1) = FirstLeaf
  <2>1. CASE 1 < i
    BY <1>4, <1>5, <2>1
  <2>2. CASE i = 1
    BY <1>4, <1>5, <2>2
  <2>3. QED BY <1>3, <2>1, <2>2
<1>11. /\ G[p] # NoNode /\ G[p].prev = H[p].prev /\ G[p].next = q
       /\ G[q] # NoNode /\ G[q].prev = p /\ G[q].next = H[p].next
       /\ H[p].next # NoSibling =>
            /\ G[H[p].next] # NoNode /\ G[H[p].next].prev = q
            /\ G[H[p].next].next = H[H[p].next].next
       /\ \A x \in 1 .. N + 1 : x \notin {p, H[p].next} => G[x] = H[x]
  <2>1. q - 1 = N + 1
    BY <1>3
  <2>2. QED BY <1>2, <2>1 DEF SplitLinks
<1>12. H[p].prev = Before(n, i) /\ H[p].next = After(n, i)
  BY <1>3, <1>4, <1>5
<1>13. ASSUME NEW j \in 1 .. N + 1, j # i, i < N + 1 => j # i + 1
       PROVE  /\ G[Child(n, j)] # NoNode
              /\ G[Child(n, j)].prev = Before(n, j)
              /\ G[Child(n, j)].next = After(n, j)
  <2>1. PICK c \in 1 .. N + 1 : c = Child(n, j)
    BY <1>4
  <2>2. c # p
    BY <1>3, <1>4, <1>5, <1>13, <2>1
  <2>3. c # H[p].next
    <3>1. CASE i = N + 1
      <4>1. H[p].next = 0
        BY <1>1, <1>12, <3>1 DEF After, NoSibling
      <4>2. QED BY <2>1, <4>1
    <3>2. CASE i < N + 1
      <4>1. H[p].next = Child(n, i + 1) /\ i + 1 \in 1 .. N + 1
        BY <1>1, <1>3, <1>12, <3>2 DEF After
      <4>2. QED BY <1>4, <1>13, <2>1, <3>2, <4>1
    <3>3. QED BY <1>3, <3>1, <3>2
  <2>4. G[c] = H[c]
    BY <1>11, <2>1, <2>2, <2>3
  <2>5. H[c] # NoNode /\ H[c].prev = Before(n, j) /\ H[c].next = After(n, j)
    BY <1>4, <2>1
  <2>6. QED BY <2>1, <2>4, <2>5
<1>14. ASSUME NEW j \in 1 .. N + 2
       PROVE  /\ G[Child(w, j)] # NoNode
              /\ G[Child(w, j)].prev = Before(w, j)
              /\ G[Child(w, j)].next = After(w, j)
  <2>1. CASE j < i
    <3>1. j \in 1 .. N + 1 /\ j + 1 \in 1 .. N + 1 /\ j # i /\ j # i + 1 /\ j # N + 1 /\ j # N + 2
      BY <1>3, <2>1
    <3>2. /\ Child(w, j) = Child(n, j)
          /\ Child(w, j + 1) = Child(n, j + 1)
      <4>1. j + 1 < i \/ j + 1 = i
        BY <1>3, <2>1
      <4>2. QED BY <1>5, <2>1, <3>1, <4>1
    <3>3. Before(w, j) = Before(n, j)
      <4>1. j = 1 \/ (j - 1 \in 1 .. N + 1 /\ j - 1 < i)
        BY <1>3, <2>1
      <4>2. QED BY <1>5, <4>1 DEF Before
    <3>4. After(w, j) = After(n, j)
      BY <1>1, <1>3, <3>1, <3>2 DEF After
    <3>5. QED BY <1>13, <3>1, <3>2, <3>3, <3>4
  <2>2. CASE j = i
    <3>1. Before(w, i) = Before(n, i)
      <4>1. i = 1 \/ (i - 1 \in 1 .. N + 1 /\ i - 1 < i)
        BY <1>3
      <4>2. QED BY <1>5, <4>1 DEF Before
    <3>2. After(w, i) = q
      <4>1. i # N + 2
        BY <1>3
      <4>2. QED BY <1>3, <1>5, <4>1 DEF After
    <3>3. QED BY <1>5, <1>11, <1>12, <2>2, <3>1, <3>2
  <2>3. CASE j = i + 1
    <3>1. Before(w, j) = p
      <4>1. j # 1 /\ j - 1 = i
        BY <1>3, <2>3
      <4>2. QED BY <1>5, <4>1 DEF Before
    <3>2. After(w, j) = After(n, i)
      <4>1. CASE i = N + 1
        BY <1>1, <1>3, <2>3, <4>1 DEF After
      <4>2. CASE i < N + 1
        <5>1. j # N + 2 /\ i # N + 1 /\ i + 1 \in 1 .. N + 1 /\ i < i + 1 /\ j + 1 = (i + 1) + 1
          BY <1>3, <2>3, <4>2
        <5>2. Child(w, j + 1) = Child(n, i + 1)
          BY <1>5, <5>1
        <5>3. QED BY <1>1, <1>3, <5>1, <5>2 DEF After
      <4>3. QED BY <1>3, <4>1, <4>2
    <3>3. QED BY <1>5, <1>11, <1>12, <2>3, <3>1, <3>2
  <2>4. CASE i + 1 < j
    <3>1. PICK l \in 1 .. N + 1 : j = l + 1 /\ i < l
      <4>1. j - 1 \in 1 .. N + 1 /\ j = (j - 1) + 1 /\ i < j - 1
        BY <1>3, <2>4
      <4>2. QED BY <4>1
    <3>2. Child(w, j) = Child(n, l)
      BY <1>5, <3>1
    <3>3. After(w, j) = After(n, l)
      <4>1. CASE l = N + 1
        BY <1>1, <1>3, <3>1, <4>1 DEF After
      <4>2. CASE l # N + 1
        <5>1. l + 1 \in 1 .. N + 1 /\ i < l + 1 /\ j # N + 2
          BY <1>3, <3>1, <4>2
        <5>2. Child(w, j + 1) = Child(n, l + 1)
          BY <1>5, <3>1, <5>1
        <5>3. QED BY <1>1, <1>3, <4>2, <5>1, <5>2 DEF After
      <4>3. QED BY <4>1, <4>2
    <3>4. CASE l = i + 1
      <4>1. i # N + 1
        BY <3>1, <3>4
      <4>2. H[p].next = Child(n, l)
        BY <1>1, <1>12, <3>4, <4>1 DEF After
      <4>3. Child(n, l) # NoSibling
        <5>1. Child(n, l) \in 1 .. N + 1
          BY <1>4
        <5>2. QED BY <5>1 DEF NoSibling
      <4>4. /\ G[Child(n, l)] # NoNode /\ G[Child(n, l)].prev = q
            /\ G[Child(n, l)].next = H[Child(n, l)].next
        BY <1>11, <4>2, <4>3
      <4>5. H[Child(n, l)].next = After(n, l)
        BY <1>4
      <4>6. Before(w, j) = q
        <5>1. j # 1 /\ j - 1 = i + 1
          BY <1>3, <3>1, <3>4
        <5>2. QED BY <1>5, <5>1 DEF Before
      <4>7. QED BY <3>2, <3>3, <4>4, <4>5, <4>6
    <3>5. CASE l # i + 1
      <4>1. /\ G[Child(n, l)] # NoNode
            /\ G[Child(n, l)].prev = Before(n, l)
            /\ G[Child(n, l)].next = After(n, l)
        <5>1. l # i
          BY <1>3, <3>1
        <5>2. QED BY <1>13, <3>5, <5>1
      <4>2. Before(w, j) = Before(n, l)
        <5>1. /\ j # 1 /\ l # 1 /\ l - 1 \in 1 .. N + 1 /\ i < l - 1
              /\ j - 1 = (l - 1) + 1
          BY <1>3, <3>1, <3>5
        <5>2. Child(w, j - 1) = Child(n, l - 1)
          BY <1>5, <5>1
        <5>3. QED BY <5>1, <5>2 DEF Before
      <4>3. QED BY <3>2, <3>3, <4>1, <4>2
    <3>6. QED BY <3>4, <3>5
  <2>5. QED BY <1>3, <2>1, <2>2, <2>3, <2>4
<1>15. Len(w.slots) + 2 = s.right + 1 /\ Len(w.slots) + 1 = N + 2
  BY <1>2, <1>3
<1>16. QED BY <1>7, <1>8, <1>9, <1>10, <1>14, <1>15 DEF Links

(* A leaf that gains only a key the root routes to it stays as it should.  *)
LEMMA RoutedKept ==
  ASSUME NEW H, NEW G, NEW w, Routed(H, w),
         \A p \in 1 .. Len(w.slots) + 1 : \A x \in KeysOf(G[p].leaf) :
            x \in KeysOf(H[p].leaf) \/ RouteKey(w, x) = p
  PROVE  Routed(G, w)
BY DEF Routed

(* The leaves after a split, as the root with its entry routes to them.    *)
LEMMA RoutedWidened ==
  ASSUME NEW H, NEW G, NEW n, RootShape(n), NEW s \in Split3, NEW k \in Keys, NEW v, NEW h,
         Links(H, n, s.right), Routed(H, n),
         RouteKey(n, k) = s.left, h.promoted = s.promoted,
         Ordered(H[s.left].leaf), Parted(H[s.left].leaf, k, v, h),
         KeysOf(G[s.left].leaf) = KeysOf(h.left), KeysOf(G[s.right].leaf) = KeysOf(h.right),
         \A x \in 1 .. s.right - 1 : x # s.left => G[x].leaf = H[x].leaf,
         NEW w, w = InstallEntry(n, s),
         s.left \in 1 .. s.right - 1,
         \A x \in 1 .. s.right - 1 : KeysOf(H[x].leaf) \subseteq Keys
  PROVE  RouteKey(n, s.promoted) = s.left /\ Routed(G, w)
<1>1. PICK N \in Nat : Len(n.slots) = N
  BY RootFacts
<1>2. PICK p, q : p = s.left /\ q = s.right
  OBVIOUS
<1>3. q = N + 2 /\ Len(w.slots) = N + 1 /\ p \in 1 .. N + 1 /\ q - 1 = N + 1
  <2>1. N + 2 = s.right
    BY <1>1 DEF Links
  <2>2. s.right \in Nat /\ s.right - 1 = N + 1
    BY <2>1
  <2>3. Len(w.slots) = N + 1
    <3>1. PICK i : RoutesAt(n, s.promoted, i)
      <4>1. s.promoted \in Nat
        BY LeafConstants DEF Split3
      <4>2. QED BY <4>1, RouteExists
    <3>2. Widened(n, s, i, w)
      BY <3>1, InstallProperties
    <3>3. QED BY <1>1, <3>2 DEF Widened
  <2>4. p \in 1 .. N + 1
    BY <1>2, <2>2
  <2>5. QED BY <1>2, <2>1, <2>2, <2>3, <2>4
<1>4. RouteKey(n, s.promoted) = p
  <2>1. s.promoted \in KeysOf(H[p].leaf)
    BY <1>2 DEF Parted
  <2>2. QED BY <1>1, <1>3, <2>1 DEF Routed
<1>5. \A x \in Nat : RouteKey(w, x) =
        IF RouteKey(n, x) = p /\ x >= s.promoted THEN q ELSE RouteKey(n, x)
  <2>1. \A a, b \in 1 .. Len(n.slots) + 1 : Child(n, a) = Child(n, b) => a = b
    BY DEF Links, Distinct
  <2>2. QED BY <1>2, <1>4, <2>1, RouteInstalled
<1>6. s.promoted \in Nat /\ k \in Nat
  BY LeafConstants DEF Split3
<1>7. \A x \in KeysOf(H[p].leaf) \cup {k} : x \in Nat /\ RouteKey(n, x) = p
  <2>1. \A x \in KeysOf(H[p].leaf) : x \in Keys /\ RouteKey(n, x) = p
    <3>1. KeysOf(H[p].leaf) \subseteq Keys
      BY <1>2, <1>3
    <3>2. \A x \in KeysOf(H[p].leaf) : RouteKey(n, x) = p
      BY <1>1, <1>3 DEF Routed
    <3>3. QED BY <3>1, <3>2
  <2>2. QED BY <1>2, <1>6, <2>1, LeafConstants
<1>8. ASSUME NEW x \in KeysOf(G[p].leaf) PROVE RouteKey(w, x) = p
  <2>1. x \in KeysOf(H[p].leaf) \cup {k} /\ x < s.promoted
    BY <1>2, <1>8 DEF Parted
  <2>2. x \in Nat /\ RouteKey(n, x) = p
    BY <1>7, <2>1
  <2>3. ~ (x >= s.promoted)
    BY <1>6, <2>1, <2>2
  <2>4. QED BY <1>5, <2>2, <2>3
<1>9. ASSUME NEW x \in KeysOf(G[q].leaf) PROVE RouteKey(w, x) = q
  <2>1. x \in KeysOf(H[p].leaf) \cup {k} /\ x >= s.promoted
    BY <1>2, <1>9 DEF Parted
  <2>2. x \in Nat /\ RouteKey(n, x) = p
    BY <1>7, <2>1
  <2>3. QED BY <1>5, <2>1, <2>2
<1>10. ASSUME NEW c \in 1 .. N + 1, c # p, NEW x \in KeysOf(G[c].leaf)
       PROVE  RouteKey(w, x) = c
  <2>1. G[c].leaf = H[c].leaf
    BY <1>2, <1>3, <1>10
  <2>2. x \in Keys /\ RouteKey(n, x) = c
    <3>1. x \in KeysOf(H[c].leaf)
      BY <1>10, <2>1
    <3>2. RouteKey(n, x) = c
      BY <1>1, <3>1 DEF Routed
    <3>3. KeysOf(H[c].leaf) \subseteq Keys
      BY <1>2, <1>3
    <3>4. QED BY <3>1, <3>2, <3>3
  <2>3. QED BY <1>5, <1>10, <2>2, LeafConstants
<1>11. Routed(G, w)
  <2> SUFFICES ASSUME NEW c \in 1 .. N + 2, NEW x \in KeysOf(G[c].leaf)
               PROVE  RouteKey(w, x) = c
    <3>1. Len(w.slots) + 1 = N + 2
      BY <1>3
    <3>2. QED BY <3>1 DEF Routed
  <2>1. c = q \/ c \in 1 .. N + 1
    BY <1>3
  <2>2. QED BY <1>8, <1>9, <1>10, <2>1
<1>12. QED BY <1>2, <1>4, <1>11

-----------------------------------------------------------------------------
(* The pages as fetch_page gives them, and the root once the caller has    *)
(* installed the last split.                                               *)
Forest == [p \in Pages |-> Held(p)]
Whole  == IF pending = Installed THEN root ELSE InstallEntry(root, pending)

(* Every page of a frame table or of the file is a leaf in order.          *)
Sound(c) ==
  /\ c \in [Pages -> Leaf \cup {NoNode}]
  /\ \A p \in Pages : c[p] # NoNode => TidyNode(c[p].leaf)

Calls == {"new", "insert", "delete"} \X (Keys \cup {NoRow}) \X (Payloads \cup {NoRow}) \X Results

(* What holds whatever fails.                                              *)
TreeShape ==
  /\ Sound(cache) /\ Sound(disk)
  /\ next_free \in 2 .. MaxPage + 1
  /\ RootShape(root)
  /\ pending = Installed \/ pending \in Split3
  /\ torn \in BOOLEAN
  /\ last \in Calls

-----------------------------------------------------------------------------
(* The pages count from the first leaf on.                                 *)
LEMMA PagesFacts == MaxPage \in Nat /\ FirstLeaf \in Pages /\ Pages \subseteq Nat
BY TreeAssumption DEF Pages, FirstLeaf

(* A page can be put into a table, and taken out of it.                    *)
LEMMA PutPage ==
  ASSUME NEW c, Sound(c), NEW p \in Pages, NEW m, m = NoNode \/ (m \in Leaf /\ TidyNode(m.leaf))
  PROVE  Sound([c EXCEPT ![p] = m])
<1>1. PICK d : d = [c EXCEPT ![p] = m]
  OBVIOUS
<1>2. d \in [Pages -> Leaf \cup {NoNode}] /\ \A x \in Pages : d[x] = IF x = p THEN m ELSE c[x]
  BY <1>1 DEF Sound
<1>3. \A x \in Pages : d[x] # NoNode => TidyNode(d[x].leaf)
  BY <1>2 DEF Sound
<1>4. QED BY <1>1, <1>2, <1>3 DEF Sound

(* What fetch_page gives is a leaf in order.                               *)
LEMMA HeldFacts ==
  ASSUME TreeShape, NEW p \in Pages, Held(p) # NoNode
  PROVE  /\ Held(p) \in Leaf /\ TidyNode(Held(p).leaf)
         /\ WellFormed(Held(p).leaf) /\ Ordered(Held(p).leaf)
<1>1. Held(p) \in Leaf /\ TidyNode(Held(p).leaf)
  BY DEF TreeShape, Sound, Held
<1>2. QED BY <1>1 DEF TidyNode, WellFormed

(* A leaf with another node in it, marked or not.                          *)
Changed(l, t, b) == [l EXCEPT !.leaf = t, !.dirty = @ \/ b]

(* It is a leaf, linked as before.                                         *)
LEMMA ChangedLeaf ==
  ASSUME NEW l \in Leaf, NEW t, TidyNode(t), NEW b \in BOOLEAN,
         NEW m, m = Changed(l, t, b)
  PROVE  /\ m \in Leaf /\ m.leaf = t /\ m.prev = l.prev /\ m.next = l.next
         /\ m # NoNode
         /\ m.dirty <=> l.dirty \/ b
<1> DEFINE Contents == [slots : Seq(Nat), records : Seq(Record), free_size : {0}]
<1>1. PICK a \in Contents, x \in 0 .. MaxPage, y \in 0 .. MaxPage, d \in BOOLEAN :
        l = [leaf |-> a, prev |-> x, next |-> y, dirty |-> d]
  BY DEF Leaf
<1>2. m = [leaf |-> t, prev |-> x, next |-> y, dirty |-> d \/ b]
  BY <1>1 DEF Changed
<1>3. t \in [slots : Seq(Nat), records : Seq(Record), free_size : {0}]
  BY DEF TidyNode
<1>4. (d \/ b) \in BOOLEAN
  OBVIOUS
<1>5. m \in Leaf
  BY <1>2, <1>3, <1>4 DEF Leaf
<1>6. m.leaf = t /\ m.prev = l.prev /\ m.next = l.next
  BY <1>1, <1>2
<1>7. m.dirty <=> l.dirty \/ b
  <2>1. l.dirty = d /\ m.dirty = (d \/ b)
    BY <1>1, <1>2
  <2>2. QED BY <2>1
<1>8. QED BY <1>5, <1>6, <1>7, NoNodeAssumption

(* The right half in its new page, and a leaf with another left sibling.   *)
LEMMA LinkedLeaf ==
  ASSUME NEW t, TidyNode(t), NEW x \in 0 .. MaxPage, NEW y \in 0 .. MaxPage, NEW b \in BOOLEAN,
         NEW m, m = [leaf |-> t, prev |-> x, next |-> y, dirty |-> b]
  PROVE  m \in Leaf /\ m.leaf = t /\ m.prev = x /\ m.next = y /\ m # NoNode
<1>1. t \in [slots : Seq(Nat), records : Seq(Record), free_size : {0}]
  BY DEF TidyNode
<1>2. m \in Leaf
  BY <1>1 DEF Leaf
<1>3. QED BY <1>2, NoNodeAssumption

-----------------------------------------------------------------------------
(* An insert into a leaf leaves a leaf in order.                           *)
LEMMA InsertedLeaf ==
  ASSUME TreeShape, NEW p \in Pages, Held(p) # NoNode, NEW k \in Keys, NEW v \in Payloads,
         NEW r, r = InsertRecord(Held(p).leaf, k, v)
  PROVE  TidyNode(Tidy(r.node)) /\ r.ret \in Results /\ Ordered(r.node)
<1>1. WellFormed(Held(p).leaf)
  BY HeldFacts
<1>2. Ordered(r.node) /\ r.ret \in {"Ok", "panic", "DuplicateKey", "TupleTooLarge", "PageFull"}
  BY <1>1, InsertOk
<1>3. r.ret \in Results
  BY <1>2 DEF Results
<1>4. TidyNode(Tidy(r.node))
  BY <1>2, TidyProperties
<1>5. QED BY <1>2, <1>3, <1>4

(* The halves of a split, linked or not, are leaves in order.              *)
LEMMA HalvesLeaves ==
  ASSUME TreeShape, NEW p \in Pages, Held(p) # NoNode, NEW k \in Keys, NEW v \in Payloads,
         NEW h, h = Halves(p, k, v), NEW q \in Pages, NEW b \in BOOLEAN
  PROVE  /\ h.ret \in Results
         /\ Ordered(h.left) /\ Ordered(h.right)
         /\ TidyNode(Tidy(h.left)) /\ TidyNode(Tidy(h.right))
         /\ LeftHalf(p, q, h, b) \in Leaf /\ LeftHalf(p, q, h, b).leaf = Tidy(h.left)
         /\ LeftHalf(p, q, h, b).prev = Held(p).prev /\ LeftHalf(p, q, h, b).next = q
         /\ LeftHalf(p, q, h, b) # NoNode
         /\ b => LeftHalf(p, q, h, b).dirty
         /\ RightHalf(p, h, b) \in Leaf /\ RightHalf(p, h, b).leaf = Tidy(h.right)
         /\ RightHalf(p, h, b).prev = p /\ RightHalf(p, h, b).next = Held(p).next
         /\ RightHalf(p, h, b) # NoNode
         /\ b => RightHalf(p, h, b).dirty
<1>1. Held(p) \in Leaf /\ WellFormed(Held(p).leaf)
  BY HeldFacts
<1>2. Ordered(h.left) /\ Ordered(h.right) /\ h.ret \in Results
  BY <1>1, HalvesProperties
<1>3. TidyNode(Tidy(h.left)) /\ TidyNode(Tidy(h.right))
  BY <1>2, TidyProperties
<1> DEFINE Contents == [slots : Seq(Nat), records : Seq(Record), free_size : {0}]
<1>4. PICK a \in Contents, x \in 0 .. MaxPage, y \in 0 .. MaxPage, d \in BOOLEAN :
        Held(p) = [leaf |-> a, prev |-> x, next |-> y, dirty |-> d]
  BY <1>1 DEF Leaf
<1>5. p \in 0 .. MaxPage /\ q \in 0 .. MaxPage
  BY PagesFacts DEF Pages
<1>6. PICK s, t : s = Tidy(h.left) /\ t = Tidy(h.right)
  OBVIOUS
<1>7. LeftHalf(p, q, h, b) = [leaf |-> s, prev |-> x, next |-> q, dirty |-> d \/ b]
  <2>1. PICK l : l = Held(p)
    OBVIOUS
  <2>2. LeftHalf(p, q, h, b) = [l EXCEPT !.leaf = s, !.next = q, !.dirty = l.dirty \/ b]
    BY <1>6, <2>1 DEF LeftHalf
  <2>3. l = [leaf |-> a, prev |-> x, next |-> y, dirty |-> d]
    BY <1>4, <2>1
  <2>4. QED BY <2>2, <2>3
<1>8. RightHalf(p, h, b) = [leaf |-> t, prev |-> p, next |-> y, dirty |-> b]
  BY <1>4, <1>6 DEF RightHalf
<1>9. /\ LeftHalf(p, q, h, b) \in Leaf /\ LeftHalf(p, q, h, b).leaf = s
      /\ LeftHalf(p, q, h, b).prev = x /\ LeftHalf(p, q, h, b).next = q
      /\ LeftHalf(p, q, h, b) # NoNode
  <2>1. PICK e \in BOOLEAN : e = (d \/ b)
    OBVIOUS
  <2>2. TidyNode(s)
    BY <1>3, <1>6
  <2>3. LeftHalf(p, q, h, b) = [leaf |-> s, prev |-> x, next |-> q, dirty |-> e]
    BY <1>7, <2>1
  <2>4. QED BY <1>5, <2>2, <2>3, LinkedLeaf
<1>10. /\ RightHalf(p, h, b) \in Leaf /\ RightHalf(p, h, b).leaf = t
       /\ RightHalf(p, h, b).prev = p /\ RightHalf(p, h, b).next = y
       /\ RightHalf(p, h, b) # NoNode
  BY <1>3, <1>5, <1>6, <1>8, LinkedLeaf
<1>11. b => LeftHalf(p, q, h, b).dirty /\ RightHalf(p, h, b).dirty
  <2>1. LeftHalf(p, q, h, b).dirty = (d \/ b)
    BY <1>7
  <2>2. RightHalf(p, h, b).dirty = b
    BY <1>8
  <2>3. QED BY <2>1, <2>2
<1>12. Held(p).prev = x /\ Held(p).next = y
  BY <1>4
<1>13. QED BY <1>2, <1>3, <1>6, <1>9, <1>10, <1>11, <1>12

-----------------------------------------------------------------------------
(* A new leaf holds nothing.                                               *)
LEMMA EmptyTidy == TidyNode(Empty)
<1>1. Empty = [slots |-> <<>>, records |-> <<>>, free_size |-> 0]
  BY DEF Empty
<1>2. Empty.slots = <<>> /\ Empty.records = <<>> /\ Len(Empty.slots) = 0 /\ Len(Empty.records) = 0
  BY <1>1
<1>3. <<>> \in Seq(Nat) /\ <<>> \in Seq(Record) /\ 0 \in 0 .. PageSize
  BY LeafConstants
<1>4. Empty \in Node
  BY <1>1, <1>3 DEF Node
<1>5. Ordered(Empty)
  BY <1>2, <1>4 DEF Ordered
<1>6. WellFormed(Empty)
  BY <1>2, <1>5 DEF WellFormed
<1>7. Empty \in [slots : Seq(Nat), records : Seq(Record), free_size : {0}]
  BY <1>1, <1>3
<1>8. QED BY <1>2, <1>6, <1>7 DEF TidyNode

(* A tree of one empty leaf.                                               *)
LEMMA ShapeInit == Init => TreeShape
<1> SUFFICES ASSUME Init PROVE TreeShape
  OBVIOUS
<1>1. TidyNode(Empty)
  BY EmptyTidy
<1>2. NewLeaf \in Leaf /\ NewLeaf.leaf = Empty
  <2>1. 0 \in 0 .. MaxPage
    BY PagesFacts
  <2>2. PICK b \in BOOLEAN : b = FALSE
    OBVIOUS
  <2>3. NewLeaf = [leaf |-> Empty, prev |-> 0, next |-> 0, dirty |-> b]
    BY <2>2 DEF NewLeaf, NoSibling
  <2>4. QED BY <1>1, <2>1, <2>3, LinkedLeaf
<1>3. Sound(cache) /\ disk = cache
  <2>1. cache = [p \in Pages |-> IF p = FirstLeaf THEN NewLeaf ELSE NoNode] /\ disk = cache
    BY DEF Init
  <2>2. cache \in [Pages -> Leaf \cup {NoNode}]
    BY <1>2, <2>1
  <2>3. ASSUME NEW p \in Pages, cache[p] # NoNode PROVE TidyNode(cache[p].leaf)
    BY <1>1, <1>2, <2>1, <2>3
  <2>4. QED BY <2>1, <2>2, <2>3 DEF Sound
<1>4. RootShape(root)
  <2>1. root = [slots |-> <<>>, entries |-> <<>>, rightmost |-> FirstLeaf]
    BY DEF Init
  <2>2. /\ root.slots = <<>> /\ root.entries = <<>> /\ root.rightmost = FirstLeaf
        /\ Len(root.slots) = 0 /\ Len(root.entries) = 0
    BY <2>1
  <2>3. root.slots \in Seq(Nat) /\ root.entries \in Seq(Entry) /\ root.rightmost \in Pages
    BY <2>2, PagesFacts
  <2>4. root = [slots |-> root.slots, entries |-> root.entries, rightmost |-> root.rightmost]
    BY <2>1
  <2>5. QED BY <2>2, <2>3, <2>4 DEF RootShape
<1>5. next_free \in 2 .. MaxPage + 1
  <2>1. next_free = 2
    BY DEF Init, FirstLeaf
  <2>2. MaxPage \in Nat /\ MaxPage # 0
    BY TreeAssumption
  <2>3. QED BY <2>1, <2>2
<1>6. last \in Calls
  BY DEF Init, Calls, Results
<1>7. pending = Installed /\ torn \in BOOLEAN
  BY DEF Init
<1>8. QED BY <1>3, <1>4, <1>5, <1>6, <1>7 DEF TreeShape

(* A call of insert_leaf or delete_record, as the history records it.      *)
LEMMA CallShape ==
  ASSUME NEW k \in Keys, NEW ret \in Results
  PROVE  /\ \A v \in Payloads : Returns("insert", k, v, ret) => last' \in Calls
         /\ Returns("delete", k, NoRow, ret) => last' \in Calls
BY DEF Returns, Calls

(* What an allocation leaves of the shape.                                 *)
LEMMA StartedSplit ==
  ASSUME TreeShape, NEW p \in Pages, NEW q \in Pages, NEW k \in Keys, NEW v \in Payloads,
         SplitStarts(p, q, k, v)
  PROVE  /\ Held(p) # NoNode /\ q = next_free /\ next_free' \in 2 .. MaxPage + 1
         /\ disk' = disk /\ root' = root
         /\ pending = Installed /\ p = LeafOf(k)
<1>1. q = next_free /\ next_free' = next_free + 1 /\ next_free \in 2 .. MaxPage + 1
  BY DEF SplitStarts, TreeShape
<1>2. q \in 1 .. MaxPage /\ MaxPage \in Nat
  BY PagesFacts DEF Pages
<1>3. next_free' \in 2 .. MaxPage + 1
  BY <1>1, <1>2
<1>4. QED BY <1>1, <1>3 DEF SplitStarts, Called

(* A root with the entry of a split in it is a root.                       *)
LEMMA InstalledShape ==
  ASSUME NEW n, RootShape(n), NEW s \in Split3
  PROVE  RootShape(InstallEntry(n, s))
<1>1. s.promoted \in Nat
  BY LeafConstants DEF Split3
<1>2. PICK i : RoutesAt(n, s.promoted, i)
  BY <1>1, RouteExists
<1>3. QED BY <1>2, InstallProperties

(* The leaf of the right sibling, linked to the new page.                  *)
Relinked(o, q) == [Held(o) EXCEPT !.prev = q, !.dirty = TRUE]

(* It is a leaf, with what it held, and marked.                            *)
LEMMA RelinkedLeaf ==
  ASSUME TreeShape, NEW o \in Pages, Held(o) # NoNode, NEW q \in Pages
  PROVE  /\ Relinked(o, q) \in Leaf /\ Relinked(o, q).leaf = Held(o).leaf
         /\ Relinked(o, q).prev = q /\ Relinked(o, q).next = Held(o).next
         /\ Relinked(o, q) # NoNode /\ Relinked(o, q).dirty
         /\ TidyNode(Relinked(o, q).leaf)
<1>1. PICK l \in Leaf : l = Held(o) /\ TidyNode(l.leaf)
  BY HeldFacts
<1>2. PICK m : m = [l EXCEPT !.prev = q, !.dirty = TRUE]
  OBVIOUS
<1>3. q \in 0 .. MaxPage
  BY PagesFacts DEF Pages
<1>4. PICK b \in BOOLEAN, y \in 0 .. MaxPage :
        b /\ y = l.next /\ m = [leaf |-> l.leaf, prev |-> q, next |-> y, dirty |-> b]
  <2>1. m = [leaf |-> l.leaf, prev |-> q, next |-> l.next, dirty |-> TRUE]
    BY <1>2 DEF Leaf
  <2>2. l.next \in 0 .. MaxPage
    BY DEF Leaf
  <2>3. QED BY <2>1, <2>2
<1>5. m \in Leaf /\ m.leaf = l.leaf /\ m.prev = q /\ m.next = l.next /\ m # NoNode
  <2>1. PICK t : t = l.leaf /\ TidyNode(t)
    BY <1>1
  <2>2. m = [leaf |-> t, prev |-> q, next |-> y, dirty |-> b]
    BY <1>4, <2>1
  <2>3. m \in Leaf /\ m.leaf = t /\ m.prev = q /\ m.next = y /\ m # NoNode
    BY <1>3, <2>1, <2>2, LinkedLeaf
  <2>4. QED BY <1>4, <2>1, <2>3
<1>6. m.dirty
  BY <1>4
<1>7. m = Relinked(o, q)
  BY <1>1, <1>2 DEF Relinked
<1>8. QED BY <1>1, <1>5, <1>6, <1>7

(* The frames after a split, one by one.                                   *)
SplitTable(c, p, q, h, o) ==
  \A x \in Pages : c[x] =
    IF x = o THEN Relinked(o, q)
    ELSE IF x = q THEN RightHalf(p, h, TRUE)
    ELSE IF x = p THEN LeftHalf(p, q, h, TRUE) ELSE cache[x]

(* The frames and the result that a call which splits leaves behind.       *)
LEMMA SplitPages ==
  ASSUME TreeShape, NEW p \in Pages, NEW q \in Pages, NEW k \in Keys, NEW v \in Payloads,
         InsertSplitting(p, q, k, v), NEW h, h = Halves(p, k, v), NEW o, o = Held(p).next
  PROVE  /\ Sound(cache')
         /\ o = NoSibling \/ (o \in Pages /\ Held(o) # NoNode)
         /\ SplitTable(cache', p, q, h, o)
         /\ pending' = [left |-> p, promoted |-> h.promoted, right |-> q]
         /\ pending' \in Split3
         /\ h.ret = "Ok" /\ Returns("insert", k, v, "Ok") /\ torn' = torn
         /\ SplitStarts(p, q, k, v)
<1>1. PICK d : d = [cache EXCEPT ![p] = LeftHalf(p, q, h, TRUE)]
  OBVIOUS
<1>2. PICK e : e = [d EXCEPT ![q] = RightHalf(p, h, TRUE)]
  OBVIOUS
<1>3. /\ SplitStarts(p, q, k, v)
      /\ h.ret = "Ok"
      /\ \/ o = NoSibling /\ cache' = e
         \/ o # NoSibling /\ Held(o) # NoNode /\ cache' = [e EXCEPT ![o] = Relinked(o, q)]
      /\ pending' = [left |-> p, promoted |-> h.promoted, right |-> q]
      /\ Returns("insert", k, v, "Ok")
      /\ torn' = torn
  BY <1>1, <1>2 DEF InsertSplitting, Relinked
<1>4. Held(p) # NoNode
  BY <1>3, StartedSplit
<1>5. o \in 0 .. MaxPage
  BY <1>4, HeldFacts DEF Leaf
<1>6. o = NoSibling \/ (o \in Pages /\ Held(o) # NoNode)
  BY <1>3, <1>5, PagesFacts DEF NoSibling, Pages
<1>7. /\ LeftHalf(p, q, h, TRUE) \in Leaf /\ TidyNode(LeftHalf(p, q, h, TRUE).leaf)
      /\ RightHalf(p, h, TRUE) \in Leaf /\ TidyNode(RightHalf(p, h, TRUE).leaf)
  <2>1. PICK b \in BOOLEAN : b = TRUE
    OBVIOUS
  <2>2. /\ TidyNode(Tidy(h.left)) /\ TidyNode(Tidy(h.right))
        /\ LeftHalf(p, q, h, b) \in Leaf /\ LeftHalf(p, q, h, b).leaf = Tidy(h.left)
        /\ RightHalf(p, h, b) \in Leaf /\ RightHalf(p, h, b).leaf = Tidy(h.right)
    BY <1>4, HalvesLeaves
  <2>3. QED BY <2>1, <2>2
<1>8. Sound(d)
  BY <1>1, <1>7, PutPage DEF TreeShape
<1>9. Sound(e)
  BY <1>2, <1>7, <1>8, PutPage
<1>10. \A x \in Pages : e[x] = IF x = q THEN RightHalf(p, h, TRUE)
                               ELSE IF x = p THEN LeftHalf(p, q, h, TRUE) ELSE cache[x]
  <2>1. \A x \in Pages : d[x] = IF x = p THEN LeftHalf(p, q, h, TRUE) ELSE cache[x]
    BY <1>1 DEF TreeShape, Sound
  <2>2. \A x \in Pages : e[x] = IF x = q THEN RightHalf(p, h, TRUE) ELSE d[x]
    BY <1>2, <1>8 DEF Sound
  <2>3. QED BY <2>1, <2>2
<1>11. Sound(cache') /\ \A x \in Pages : cache'[x] = IF x = o THEN Relinked(o, q) ELSE e[x]
  <2>1. CASE o = NoSibling /\ cache' = e
    <3>1. o \notin Pages
      BY <2>1 DEF NoSibling, Pages
    <3>2. QED BY <1>9, <2>1, <3>1
  <2>2. CASE o \in Pages /\ Held(o) # NoNode /\ cache' = [e EXCEPT ![o] = Relinked(o, q)]
    <3>1. Relinked(o, q) \in Leaf /\ TidyNode(Relinked(o, q).leaf)
      BY <2>2, RelinkedLeaf
    <3>2. Sound(cache')
      BY <1>9, <2>2, <3>1, PutPage
    <3>3. QED BY <1>9, <2>2, <3>2 DEF Sound
  <2>3. QED BY <1>3, <1>6, <2>1, <2>2
<1>12. pending' \in Split3
  <2>1. Ordered(Held(p).leaf) /\ WellFormed(Held(p).leaf)
    BY <1>4, HeldFacts
  <2>2. Parted(Held(p).leaf, k, v, h)
    BY <1>3, <2>1, HalvesProperties
  <2>3. h.promoted \in Keys
    BY <2>1, <2>2, KeysOfLeaf DEF Parted
  <2>4. QED BY <1>3, <2>3 DEF Split3
<1>13. SplitTable(cache', p, q, h, o)
  BY <1>10, <1>11 DEF SplitTable
<1>14. QED BY <1>3, <1>6, <1>11, <1>12, <1>13

(* Every step keeps the shape of the tree, also those that fail half way.  *)
LEMMA ShapeStep ==
  ASSUME TreeShape, [Next]_vars
  PROVE  TreeShape'
<1>1. ASSUME NEW p \in Pages, NEW k \in Keys, NEW v \in Payloads, FetchFails(p, k, v)
      PROVE  TreeShape'
  <2>1. "Pool" \in Results
    BY DEF Results
  <2>2. last' \in Calls
    BY <1>1, <2>1, CallShape DEF FetchFails
  <2>3. UNCHANGED <<cache, disk, next_free, root, pending, torn>>
    BY <1>1 DEF FetchFails
  <2>4. QED BY <2>2, <2>3 DEF TreeShape
<1>2. ASSUME NEW p \in Pages, NEW k \in Keys, NEW v \in Payloads, InsertInPlace(p, k, v)
      PROVE  TreeShape'
  <2>1. PICK r : r = InsertRecord(Held(p).leaf, k, v)
    OBVIOUS
  <2>2. Held(p) # NoNode
    BY <1>2 DEF InsertInPlace
  <2>3. TidyNode(Tidy(r.node)) /\ r.ret \in Results
    BY <2>1, <2>2, InsertedLeaf
  <2>4. PICK b \in BOOLEAN : b = (r.ret = "Ok")
    OBVIOUS
  <2>5. PICK m : m = Changed(Held(p), Tidy(r.node), b)
    OBVIOUS
  <2>6. m \in Leaf /\ TidyNode(m.leaf)
    <3>1. Held(p) \in Leaf
      BY <2>2, HeldFacts
    <3>2. m \in Leaf /\ m.leaf = Tidy(r.node)
      BY <2>3, <2>5, <3>1, ChangedLeaf
    <3>3. QED BY <2>3, <3>2
  <2>7. /\ cache' = [cache EXCEPT ![p] = m]
        /\ torn' = (torn \/ r.ret = "panic")
        /\ Returns("insert", k, v, r.ret)
        /\ UNCHANGED <<disk, next_free, root, pending>>
    BY <1>2, <2>1, <2>4, <2>5 DEF InsertInPlace, Changed
  <2>8. Sound(cache')
    BY <2>6, <2>7, PutPage DEF TreeShape
  <2>9. last' \in Calls
    BY <2>3, <2>7, CallShape
  <2>10. torn' \in BOOLEAN
    BY <2>7
  <2>11. QED BY <2>7, <2>8, <2>9, <2>10 DEF TreeShape, Sound
<1>3. ASSUME NEW p \in Pages, NEW k \in Keys, NEW v \in Payloads, NewPageFails(p, k, v)
      PROVE  TreeShape'
  <2>1. /\ Held(p) # NoNode
        /\ cache' = [cache EXCEPT ![p] = Held(p)]
        /\ Returns("insert", k, v, "Pool")
        /\ UNCHANGED <<disk, next_free, root, pending, torn>>
    BY <1>3 DEF NewPageFails
  <2>2. Sound(cache')
    BY <2>1, HeldFacts, PutPage DEF TreeShape
  <2>3. "Pool" \in Results
    BY DEF Results
  <2>4. last' \in Calls
    BY <2>1, <2>3, CallShape
  <2>5. QED BY <2>1, <2>2, <2>4 DEF TreeShape, Sound
<1>4. ASSUME NEW p \in Pages, NEW q \in Pages, NEW k \in Keys, NEW v \in Payloads,
             SplitFails(p, q, k, v)
      PROVE  TreeShape'
  <2>1. PICK h : h = Halves(p, k, v)
    OBVIOUS
  <2>2. /\ SplitStarts(p, q, k, v)
        /\ cache' = [cache EXCEPT ![p] = [Held(p) EXCEPT !.leaf = Tidy(h.left)],
                                  ![q] = [NewLeaf EXCEPT !.leaf = Tidy(h.right)]]
        /\ torn' = TRUE
        /\ Returns("insert", k, v, h.ret)
        /\ UNCHANGED pending
    BY <1>4, <2>1 DEF SplitFails
  <2>3. Held(p) # NoNode /\ next_free' \in 2 .. MaxPage + 1 /\ UNCHANGED <<disk, root>>
    BY <2>2, StartedSplit
  <2>4. /\ h.ret \in Results
        /\ TidyNode(Tidy(h.left)) /\ TidyNode(Tidy(h.right))
    <3>1. TRUE \in BOOLEAN
      OBVIOUS
    <3>2. QED BY <2>1, <2>3, <3>1, HalvesLeaves
  <2>5. PICK m : m = [Held(p) EXCEPT !.leaf = Tidy(h.left)]
    OBVIOUS
  <2>6. m \in Leaf /\ TidyNode(m.leaf)
    <3>1. PICK l \in Leaf : l = Held(p)
      BY <2>3, HeldFacts
    <3>2. PICK t : t = Tidy(h.left)
      OBVIOUS
    <3>3. t \in [slots : Seq(Nat), records : Seq(Record), free_size : {0}]
      BY <2>4, <3>2 DEF TidyNode
    <3>4. m = [l EXCEPT !.leaf = t]
      BY <2>5, <3>1, <3>2
    <3>5. m \in Leaf /\ m.leaf = t
      BY <3>3, <3>4 DEF Leaf
    <3>6. QED BY <2>4, <3>2, <3>5
  <2>7. PICK o : o = [NewLeaf EXCEPT !.leaf = Tidy(h.right)]
    OBVIOUS
  <2>8. o \in Leaf /\ TidyNode(o.leaf)
    <3>1. 0 \in 0 .. MaxPage
      BY PagesFacts
    <3>2. PICK b \in BOOLEAN : b = FALSE
      OBVIOUS
    <3>3. o = [leaf |-> Tidy(h.right), prev |-> 0, next |-> 0, dirty |-> b]
      BY <2>7, <3>2 DEF NewLeaf, NoSibling
    <3>4. o \in Leaf /\ o.leaf = Tidy(h.right)
      BY <2>4, <3>1, <3>3, LinkedLeaf
    <3>5. QED BY <2>4, <3>4
  <2>9. PICK d : d = [cache EXCEPT ![p] = m]
    OBVIOUS
  <2>10. cache' = [d EXCEPT ![q] = o]
    BY <2>2, <2>5, <2>7, <2>9
  <2>11. Sound(d)
    BY <2>6, <2>9, PutPage DEF TreeShape
  <2>12. Sound(cache')
    BY <2>8, <2>10, <2>11, PutPage
  <2>13. last' \in Calls
    BY <2>2, <2>4, CallShape
  <2>14. QED BY <2>2, <2>3, <2>12, <2>13 DEF TreeShape, Sound
<1>5. ASSUME NEW p \in Pages, NEW q \in Pages, NEW k \in Keys, NEW v \in Payloads,
             SiblingFails(p, q, k, v)
      PROVE  TreeShape'
  <2>1. PICK h : h = Halves(p, k, v)
    OBVIOUS
  <2>2. /\ SplitStarts(p, q, k, v)
        /\ cache' = [cache EXCEPT ![p] = LeftHalf(p, q, h, FALSE),
                                  ![q] = RightHalf(p, h, FALSE)]
        /\ torn' = TRUE
        /\ Returns("insert", k, v, "Pool")
        /\ UNCHANGED pending
    BY <1>5, <2>1 DEF SiblingFails
  <2>3. Held(p) # NoNode /\ next_free' \in 2 .. MaxPage + 1 /\ UNCHANGED <<disk, root>>
    BY <2>2, StartedSplit
  <2>4. /\ LeftHalf(p, q, h, FALSE) \in Leaf /\ TidyNode(LeftHalf(p, q, h, FALSE).leaf)
        /\ RightHalf(p, h, FALSE) \in Leaf /\ TidyNode(RightHalf(p, h, FALSE).leaf)
    <3>1. PICK b \in BOOLEAN : b = FALSE
      OBVIOUS
    <3>2. /\ TidyNode(Tidy(h.left)) /\ TidyNode(Tidy(h.right))
          /\ LeftHalf(p, q, h, b) \in Leaf /\ LeftHalf(p, q, h, b).leaf = Tidy(h.left)
          /\ RightHalf(p, h, b) \in Leaf /\ RightHalf(p, h, b).leaf = Tidy(h.right)
      BY <2>1, <2>3, HalvesLeaves
    <3>3. QED BY <3>1, <3>2
  <2>5. PICK m, o : m = LeftHalf(p, q, h, FALSE) /\ o = RightHalf(p, h, FALSE)
    OBVIOUS
  <2>6. PICK d : d = [cache EXCEPT ![p] = m]
    OBVIOUS
  <2>7. cache' = [d EXCEPT ![q] = o]
    BY <2>2, <2>5, <2>6
  <2>8. Sound(d)
    BY <2>4, <2>5, <2>6, PutPage DEF TreeShape
  <2>9. Sound(cache')
    BY <2>4, <2>5, <2>7, <2>8, PutPage
  <2>10. last' \in Calls
    <3>1. "Pool" \in Results
      BY DEF Results
    <3>2. QED BY <2>2, <3>1, CallShape
  <2>11. QED BY <2>2, <2>3, <2>9, <2>10 DEF TreeShape, Sound
<1>6. ASSUME NEW p \in Pages, NEW q \in Pages, NEW k \in Keys, NEW v \in Payloads,
             InsertSplitting(p, q, k, v)
      PROVE  TreeShape'
  <2>1. PICK h, o : h = Halves(p, k, v) /\ o = Held(p).next
    OBVIOUS
  <2>2. /\ Sound(cache') /\ pending' \in Split3
        /\ Returns("insert", k, v, "Ok") /\ torn' = torn /\ SplitStarts(p, q, k, v)
    BY <1>6, <2>1, SplitPages
  <2>3. next_free' \in 2 .. MaxPage + 1 /\ UNCHANGED <<disk, root>>
    BY <2>2, StartedSplit
  <2>4. last' \in Calls
    <3>1. "Ok" \in Results
      BY DEF Results
    <3>2. QED BY <2>2, <3>1, CallShape
  <2>5. QED BY <2>2, <2>3, <2>4 DEF TreeShape, Sound
<1>7. ASSUME NEW p \in Pages, NEW k \in Keys, Delete(p, k)
      PROVE  TreeShape'
  <2>1. PICK r : r = DeleteRecord(Held(p).leaf, k)
    OBVIOUS
  <2>2. Held(p) # NoNode
    BY <1>7 DEF Delete
  <2>3. TidyNode(Tidy(r.node)) /\ r.ret \in Results
    <3>1. WellFormed(Held(p).leaf)
      BY <2>2, HeldFacts
    <3>2. Ordered(r.node) /\ r.ret \in {"Ok", "KeyNotFound"}
      BY <2>1, <3>1, DeleteOk
    <3>3. QED BY <3>2, TidyProperties DEF Results
  <2>4. PICK b \in BOOLEAN : b = (r.ret = "Ok")
    OBVIOUS
  <2>5. PICK m : m = Changed(Held(p), Tidy(r.node), b)
    OBVIOUS
  <2>6. m \in Leaf /\ TidyNode(m.leaf)
    <3>1. Held(p) \in Leaf
      BY <2>2, HeldFacts
    <3>2. m \in Leaf /\ m.leaf = Tidy(r.node)
      BY <2>3, <2>5, <3>1, ChangedLeaf
    <3>3. QED BY <2>3, <3>2
  <2>7. /\ cache' = [cache EXCEPT ![p] = m]
        /\ Returns("delete", k, NoRow, r.ret)
        /\ UNCHANGED <<disk, next_free, root, pending, torn>>
    BY <1>7, <2>1, <2>4, <2>5 DEF Delete, Changed
  <2>8. Sound(cache')
    BY <2>6, <2>7, PutPage DEF TreeShape
  <2>9. last' \in Calls
    BY <2>3, <2>7, CallShape
  <2>10. QED BY <2>7, <2>8, <2>9 DEF TreeShape, Sound
<1>8. CASE Install
  <2>1. /\ pending # Installed /\ root' = InstallEntry(root, pending) /\ pending' = Installed
        /\ UNCHANGED <<cache, disk, next_free, torn, last>>
    BY <1>8 DEF Install
  <2>2. pending \in Split3 /\ RootShape(root)
    BY <2>1 DEF TreeShape
  <2>3. RootShape(root')
    BY <2>1, <2>2, InstalledShape
  <2>4. QED BY <2>1, <2>3 DEF TreeShape, Sound
<1>9. CASE ReloadRoot
  <2>1. root' = DecodeInternal(EncodeInternal(root))
        /\ UNCHANGED <<cache, disk, next_free, pending, torn, last>>
    BY <1>9 DEF ReloadRoot
  <2>2. root' = root
    BY <2>1, ReloadedRoot DEF TreeShape
  <2>3. QED BY <2>1, <2>2 DEF TreeShape, Sound
<1>10. ASSUME NEW p \in Pages, Evict(p)
       PROVE  TreeShape'
  <2>1. /\ cache[p] # NoNode
        /\ disk' = IF cache[p].dirty
                   THEN [disk EXCEPT ![p] = [cache[p] EXCEPT !.dirty = FALSE]]
                   ELSE disk
        /\ cache' = [cache EXCEPT ![p] = NoNode]
        /\ UNCHANGED <<next_free, root, pending, torn, last>>
    BY <1>10 DEF Evict
  <2>2. Sound(cache')
    BY <2>1, PutPage DEF TreeShape
  <2>3. PICK l \in Leaf : l = cache[p] /\ TidyNode(l.leaf)
    BY <2>1 DEF TreeShape, Sound
  <2>4. PICK m : m = [l EXCEPT !.dirty = FALSE]
    OBVIOUS
  <2>5. m \in Leaf /\ m.leaf = l.leaf
    BY <2>4 DEF Leaf
  <2>6. Sound(disk')
    <3>1. Sound([disk EXCEPT ![p] = m])
      BY <2>3, <2>5, PutPage DEF TreeShape
    <3>2. disk' = [disk EXCEPT ![p] = m] \/ disk' = disk
      BY <2>1, <2>3, <2>4
    <3>3. QED BY <3>1, <3>2 DEF TreeShape
  <2>7. QED BY <2>1, <2>2, <2>6 DEF TreeShape
<1>11. CASE UNCHANGED vars
  BY <1>11 DEF TreeShape, Sound, vars
<1>12. QED BY <1>1, <1>2, <1>3, <1>4, <1>5, <1>6, <1>7, <1>8, <1>9, <1>10, <1>11 DEF Next

(* The tree has this shape in every state.                                 *)
LEMMA TreeShaped == Spec => []TreeShape
<1>1. TreeShape /\ [Next]_vars => TreeShape'
  BY ShapeStep
<1>2. QED BY ShapeInit, <1>1, PTL DEF Spec

-----------------------------------------------------------------------------
(* A frame that is not marked holds what the file does.                    *)
CleanOnDisk == \A p \in Pages : cache[p] # NoNode /\ ~ cache[p].dirty => cache[p] = disk[p]

(* What holds until an insert_leaf fails half way: the leaves are the      *)
(* children of the root, in their order, and every key is where the root   *)
(* routes it to.                                                           *)
Intact ==
  /\ Distinct(root)
  /\ pending # Installed => RouteKey(root, pending.promoted) = pending.left
  /\ Links(Forest, Whole, next_free)
  /\ Routed(Forest, Whole)
  /\ CleanOnDisk

TreeInv == TreeShape /\ (~ torn => Intact)

-----------------------------------------------------------------------------
(* The root with the pending split in it is a root.                        *)
LEMMA WholeShape == TreeShape => RootShape(Whole) /\ Len(Whole.slots) \in Nat
<1> SUFFICES ASSUME TreeShape PROVE RootShape(Whole) /\ Len(Whole.slots) \in Nat
  OBVIOUS
<1>1. RootShape(Whole)
  BY InstalledShape DEF TreeShape, Whole
<1>2. QED BY <1>1, RootFacts

(* A key is routed to a page that there is.                                *)
LEMMA RouteInside ==
  ASSUME NEW H, NEW w, NEW free, RootShape(w), Links(H, w, free), NEW k \in Nat
  PROVE  /\ RouteKey(w, k) \in 1 .. Len(w.slots) + 1
         /\ RouteKey(w, k) \in 1 .. free - 1
         /\ H[RouteKey(w, k)] # NoNode
<1>1. PICK i : RoutesAt(w, k, i) /\ RouteKey(w, k) = Child(w, i)
  BY RouteExists
<1>2. PICK N \in Nat : Len(w.slots) = N
  BY RootFacts
<1>3. i \in 1 .. N + 1
  BY <1>1, <1>2 DEF RoutesAt
<1>4. Child(w, i) \in 1 .. N + 1 /\ H[Child(w, i)] # NoNode /\ free = N + 2
  BY <1>2, <1>3 DEF Links
<1>5. N + 1 = free - 1
  BY <1>4
<1>6. QED BY <1>1, <1>2, <1>4, <1>5

(* The pages below next_free are pages, and hold leaves in order.          *)
LEMMA IntactPages ==
  TreeShape /\ Intact =>
    /\ Len(Whole.slots) + 1 = next_free - 1
    /\ 1 .. next_free - 1 \subseteq Pages
    /\ \A p \in 1 .. next_free - 1 : Held(p) # NoNode /\ Forest[p] = Held(p)
<1> SUFFICES ASSUME TreeShape, Intact
             PROVE  /\ Len(Whole.slots) + 1 = next_free - 1
                    /\ 1 .. next_free - 1 \subseteq Pages
                    /\ \A p \in 1 .. next_free - 1 : Held(p) # NoNode /\ Forest[p] = Held(p)
  OBVIOUS
<1>1. PICK N \in Nat : Len(Whole.slots) = N
  BY WholeShape
<1>2. Links(Forest, Whole, next_free)
  BY DEF Intact
<1>3. next_free = N + 2 /\ next_free \in 2 .. MaxPage + 1 /\ MaxPage \in Nat
  BY <1>1, <1>2, PagesFacts DEF Links, TreeShape
<1>4. 1 .. next_free - 1 \subseteq Pages /\ N + 1 = next_free - 1
  BY <1>3 DEF Pages
<1>5. ASSUME NEW p \in 1 .. next_free - 1 PROVE Held(p) # NoNode /\ Forest[p] = Held(p)
  <2>1. PICK i \in 1 .. N + 1 : Child(Whole, i) = p
    BY <1>1, <1>2, <1>4 DEF Links
  <2>2. Forest[p] # NoNode
    BY <1>1, <1>2, <2>1 DEF Links
  <2>3. Forest[p] = Held(p)
    BY <1>4 DEF Forest
  <2>4. QED BY <2>2, <2>3
<1>6. QED BY <1>1, <1>4, <1>5

(* What find_record answers once the split is installed.                   *)
RowOf(H, w, k) == GetRecord(H[RouteKey(w, k)].leaf, k)

Answers == [k \in Keys |-> RowOf(Forest, Whole, k)]

(* The rows of the tree are those.                                         *)
LEMMA RowsAre == TreeShape /\ Intact => Rows = Answers
<1> SUFFICES ASSUME TreeShape, Intact PROVE Rows = [k \in Keys |-> RowOf(Forest, Whole, k)]
  BY DEF Answers
<1>1. ASSUME NEW k \in Keys
      PROVE  RouteKey(Whole, k) \in Pages /\ RowIn(RouteKey(Whole, k), k) = RowOf(Forest, Whole, k)
  <2>1. PICK p : p = RouteKey(Whole, k)
    OBVIOUS
  <2>2. p \in 1 .. next_free - 1
    BY <2>1, LeafConstants, WholeShape, RouteInside DEF Intact
  <2>3. p \in Pages /\ Held(p) # NoNode /\ Forest[p] = Held(p)
    BY <2>2, IntactPages
  <2>4. RowIn(p, k) = GetRecord(Held(p).leaf, k)
    BY <2>3 DEF RowIn
  <2>5. QED BY <2>1, <2>3, <2>4 DEF RowOf
<1>2. CASE pending = Installed
  <2>1. Whole = root
    BY <1>2 DEF Whole
  <2>2. Rows = [k \in Keys |-> RowIn(RouteKey(root, k), k)]
    BY <1>2 DEF Rows, FindRecord, LeafOf
  <2>3. QED BY <1>1, <2>1, <2>2
<1>3. CASE pending # Installed
  <2>1. Whole = InstallEntry(root, pending)
    BY <1>3 DEF Whole
  <2>2. /\ pending \in Split3 /\ RootShape(root)
        /\ RouteKey(root, pending.promoted) = pending.left
        /\ \A a, b \in 1 .. Len(root.slots) + 1 : Child(root, a) = Child(root, b) => a = b
    BY <1>3 DEF TreeShape, Intact, Distinct
  <2>3. ASSUME NEW k \in Keys
        PROVE  RouteKey(Whole, k) = IF RouteKey(root, k) = pending.left /\ k >= pending.promoted
                                    THEN pending.right ELSE RouteKey(root, k)
    BY <2>1, <2>2, LeafConstants, RouteInstalled
  <2>4. Rows = [k \in Keys |-> IF RouteKey(root, k) = pending.left /\ k >= pending.promoted
                              THEN RowIn(pending.right, k) ELSE RowIn(RouteKey(root, k), k)]
    BY <1>3 DEF Rows, FindRecord, LeafOf
  <2>5. ASSUME NEW k \in Keys PROVE Rows[k] = RowIn(RouteKey(Whole, k), k)
    <3>1. Rows[k] = IF RouteKey(root, k) = pending.left /\ k >= pending.promoted
                    THEN RowIn(pending.right, k) ELSE RowIn(RouteKey(root, k), k)
      BY <2>4
    <3>2. QED BY <2>3, <3>1
  <2>6. \A k \in Keys : Rows[k] = RowOf(Forest, Whole, k)
    BY <1>1, <2>5
  <2>7. QED BY <2>4, <2>6
<1>4. QED BY <1>2, <1>3

(* A tree of one empty leaf.                                               *)
LEMMA IntactInit == Init => Intact /\ Map!Init
<1> SUFFICES ASSUME Init PROVE Intact /\ Map!Init
  OBVIOUS
<1>1. TreeShape
  BY ShapeInit
<1>2. /\ root = [slots |-> <<>>, entries |-> <<>>, rightmost |-> FirstLeaf]
      /\ pending = Installed /\ next_free = 2 /\ disk = cache
      /\ cache = [p \in Pages |-> IF p = FirstLeaf THEN NewLeaf ELSE NoNode]
  BY DEF Init, FirstLeaf
<1>3. root.slots = <<>> /\ Len(root.slots) = 0 /\ root.rightmost = FirstLeaf /\ Whole = root
  BY <1>2 DEF Whole
<1>4. \A i \in 1 .. 1 : i = 1
  OBVIOUS
<1>5. Child(root, 1) = FirstLeaf /\ FirstLeaf = 1
  BY <1>3 DEF Child, FirstLeaf
<1>6. NewLeaf.prev = NoSibling /\ NewLeaf.next = NoSibling /\ NewLeaf.leaf = Empty
  BY DEF NewLeaf
<1>7. Forest[FirstLeaf] = NewLeaf /\ NewLeaf # NoNode
  <2>1. cache[FirstLeaf] = NewLeaf
    BY <1>2, PagesFacts
  <2>2. NewLeaf # NoNode
    <3>1. 0 \in 0 .. MaxPage
      BY PagesFacts
    <3>2. PICK b \in BOOLEAN : b = FALSE
      OBVIOUS
    <3>3. NewLeaf = [leaf |-> Empty, prev |-> 0, next |-> 0, dirty |-> b]
      BY <3>2 DEF NewLeaf, NoSibling
    <3>4. TidyNode(Empty)
      <4>1. disk[FirstLeaf] = NewLeaf /\ cache[FirstLeaf] = NewLeaf
        BY <1>2, <2>1
      <4>2. NewLeaf = NoNode \/ TidyNode(NewLeaf.leaf)
        BY <1>1, <4>1, PagesFacts DEF TreeShape, Sound
      <4>3. QED BY <1>6, <4>2, EmptyTidy
    <3>5. QED BY <3>1, <3>3, <3>4, LinkedLeaf
  <2>3. QED BY <2>1, <2>2, PagesFacts DEF Forest, Held
<1>8. Distinct(root)
  BY <1>3, <1>4 DEF Distinct
<1>9. Links(Forest, Whole, next_free)
  <2>1. Before(root, 1) = NoSibling /\ After(root, 1) = NoSibling
    BY <1>3 DEF Before, After
  <2>2. QED BY <1>2, <1>3, <1>4, <1>5, <1>6, <1>7, <1>8, <2>1 DEF Links
<1>10. Routed(Forest, Whole)
  <2>1. KeysOf(Empty) = {}
    <3>1. Empty.slots = <<>> /\ Len(Empty.slots) = 0
      BY DEF Empty
    <3>2. QED BY <3>1 DEF KeysOf, Reached
  <2>2. \A p \in 1 .. 1 : KeysOf(Forest[p].leaf) = {}
    BY <1>4, <1>5, <1>6, <1>7, <2>1
  <2>3. QED BY <1>3, <2>2 DEF Routed
<1>11. CleanOnDisk
  BY <1>2 DEF CleanOnDisk
<1>12. Intact
  BY <1>2, <1>8, <1>9, <1>10, <1>11 DEF Intact
<1>13. Rows = [k \in Keys |-> NoRow]
  <2>1. Rows = [k \in Keys |-> RowOf(Forest, Whole, k)]
    BY <1>1, <1>12, RowsAre DEF Answers
  <2>2. ASSUME NEW k \in Keys PROVE RowOf(Forest, Whole, k) = NoRow
    <3>1. RouteKey(root, k) \in 1 .. 1
      <4>1. RouteKey(root, k) \in 1 .. Len(root.slots) + 1
        BY <1>1, <1>3, <1>9, LeafConstants, RouteInside DEF TreeShape
      <4>2. QED BY <1>3, <4>1
    <3>2. RowOf(Forest, Whole, k) = GetRecord(Empty, k)
      BY <1>3, <1>4, <1>5, <1>6, <1>7, <3>1 DEF RowOf
    <3>3. SlotsOf(Empty, k) = {}
      <4>1. Empty.slots = <<>> /\ Len(Empty.slots) = 0
        BY DEF Empty
      <4>2. QED BY <4>1 DEF SlotsOf
    <3>4. QED BY <3>2, <3>3 DEF GetRecord
  <2>3. QED BY <2>1, <2>2
<1>14. QED BY <1>12, <1>13 DEF Map!Init, Init

-----------------------------------------------------------------------------
(* One leaf has changed in its place, to t: the rows before and after.     *)
Answered(H, w, p, t, R, S) ==
  /\ R = [j \in Keys |-> RowOf(H, w, j)]
  /\ S = [j \in Keys |-> IF RouteKey(w, j) = p THEN GetRecord(t, j) ELSE RowOf(H, w, j)]

(* Where one leaf changes in its place, the tree stays intact, and only    *)
(* the rows routed to that leaf may change.                                *)
LEMMA InPlace ==
  ASSUME TreeShape, Intact, TreeShape', pending = Installed,
         NEW p \in Pages, NEW k \in Keys, p = LeafOf(k), Held(p) # NoNode,
         NEW m \in Leaf, m # NoNode, m.prev = Held(p).prev, m.next = Held(p).next,
         KeysOf(m.leaf) \subseteq KeysOf(Held(p).leaf) \cup {k},
         ~ m.dirty => m = Held(p),
         cache' = [cache EXCEPT ![p] = m],
         UNCHANGED <<disk, root, pending, next_free>>
  PROVE  /\ Intact'
         /\ Answered(Forest, root, p, m.leaf, Rows, Rows')
<1>1. \A x \in Pages : cache'[x] = IF x = p THEN m ELSE cache[x]
  BY DEF TreeShape, Sound
<1>2. \A x \in Pages : Forest'[x] = IF x = p THEN m ELSE Forest[x]
  <2> SUFFICES ASSUME NEW x \in Pages PROVE Forest'[x] = IF x = p THEN m ELSE Forest[x]
    OBVIOUS
  <2>1. Forest'[x] = IF cache'[x] # NoNode THEN cache'[x] ELSE disk'[x]
    BY DEF Forest, Held
  <2>2. Forest[x] = IF cache[x] # NoNode THEN cache[x] ELSE disk[x]
    BY DEF Forest, Held
  <2>3. QED BY <1>1, <2>1, <2>2
<1>3. Whole' = root /\ Whole = root
  BY DEF Whole
<1>4. /\ Len(Whole.slots) + 1 = next_free - 1 /\ Len(Whole.slots) \in Nat
      /\ 1 .. next_free - 1 \subseteq Pages
      /\ \A x \in 1 .. next_free - 1 : Held(x) # NoNode /\ Forest[x] = Held(x)
  BY IntactPages, WholeShape
<1>5. RouteKey(root, k) = p /\ Forest[p] = Held(p)
  BY DEF LeafOf, Forest
<1>6. Links(Forest', root, next_free)
  <2>1. SameLinks(Forest, Forest', next_free)
    BY <1>2, <1>4, <1>5 DEF SameLinks
  <2>2. Links(Forest, root, next_free) /\ Len(root.slots) \in Nat
    BY <1>3, <1>4 DEF Intact
  <2>3. QED BY <2>1, <2>2, LinksKept
<1>7. Routed(Forest', root)
  <2>1. Routed(Forest, root)
    BY <1>3 DEF Intact
  <2>2. ASSUME NEW x \in 1 .. Len(root.slots) + 1, NEW y \in KeysOf(Forest'[x].leaf)
        PROVE  y \in KeysOf(Forest[x].leaf) \/ RouteKey(root, y) = x
    <3>1. x \in Pages
      BY <1>3, <1>4
    <3>2. CASE x = p
      <4>1. Forest'[x] = m
        BY <1>2, <3>1, <3>2
      <4>2. y \in KeysOf(Held(p).leaf) \/ y = k
        BY <2>2, <4>1
      <4>3. QED BY <1>5, <3>2, <4>2
    <3>3. CASE x # p
      BY <1>2, <2>2, <3>1, <3>3
    <3>4. QED BY <3>2, <3>3
  <2>3. QED BY <2>1, <2>2, RoutedKept
<1>8. CleanOnDisk'
  <2> SUFFICES ASSUME NEW x \in Pages, cache'[x] # NoNode, ~ cache'[x].dirty
               PROVE  cache'[x] = disk'[x]
    BY DEF CleanOnDisk
  <2>1. CASE x = p
    <3>1. cache'[x] = m /\ m = Held(p)
      BY <1>1, <2>1
    <3>2. CASE cache[p] # NoNode
      <4>1. cache[p] = m /\ ~ cache[p].dirty
        BY <3>1, <3>2 DEF Held
      <4>2. QED BY <2>1, <3>1, <3>2, <4>1 DEF Intact, CleanOnDisk
    <3>3. CASE cache[p] = NoNode
      BY <2>1, <3>1, <3>3 DEF Held
    <3>4. QED BY <3>2, <3>3
  <2>2. CASE x # p
    BY <1>1, <2>2 DEF Intact, CleanOnDisk
  <2>3. QED BY <2>1, <2>2
<1>9. Intact'
  <2>1. Distinct(root)' /\ next_free' = next_free /\ pending' = Installed
    BY DEF Intact, Distinct, Child
  <2>2. QED BY <1>3, <1>6, <1>7, <1>8, <2>1 DEF Intact
<1>10. Rows = [j \in Keys |-> RowOf(Forest, root, j)]
  BY <1>3, RowsAre DEF Answers
<1>11. Rows' = [j \in Keys |-> RowOf(Forest', root, j)]
  <2>1. (TreeShape /\ Intact => Rows = Answers)'
    BY RowsAre, PTL
  <2>2. Rows' = Answers'
    BY <1>9, <2>1
  <2>3. Answers' = [j \in Keys |-> RowOf(Forest', Whole', j)]
    BY DEF Answers
  <2>4. QED BY <1>3, <2>2, <2>3
<1>12. ASSUME NEW j \in Keys
       PROVE  RowOf(Forest', root, j) = IF RouteKey(root, j) = p THEN GetRecord(m.leaf, j)
                                        ELSE RowOf(Forest, root, j)
  <2>1. RouteKey(root, j) \in Pages
    <3>1. Links(Forest, root, next_free) /\ RootShape(root)
      BY <1>3 DEF Intact, TreeShape
    <3>2. RouteKey(root, j) \in 1 .. next_free - 1
      BY <3>1, LeafConstants, RouteInside
    <3>3. QED BY <1>4, <3>2
  <2>2. QED BY <1>2, <2>1 DEF RowOf
<1>13. Rows' = [j \in Keys |-> IF RouteKey(root, j) = p THEN GetRecord(m.leaf, j)
                               ELSE RowOf(Forest, root, j)]
  BY <1>11, <1>12
<1>14. QED BY <1>9, <1>10, <1>13 DEF Answered

(* The leaf answers as before but for one row; so does the tree.           *)
PutAs(l, t, k, v) ==
  \A j \in Keys : GetRecord(t, j) = IF j = k THEN v ELSE GetRecord(l, j)

Follows(R, S, l, t, k, v) ==
  /\ R[k] = GetRecord(l, k)
  /\ t = l => S = R
  /\ PutAs(l, t, k, v) => S = [R EXCEPT ![k] = v]

(* Where the leaf gains or loses one row, the tree does.                   *)
LEMMA RowsChange ==
  ASSUME NEW H, NEW w, NEW p, NEW k \in Keys, RouteKey(w, k) = p, NEW R, NEW S,
         NEW t, Answered(H, w, p, t, R, S), NEW v
  PROVE  Follows(R, S, H[p].leaf, t, k, v)
<1> DEFINE l == H[p].leaf
<1>1. /\ R = [j \in Keys |-> RowOf(H, w, j)]
      /\ S = [j \in Keys |-> IF RouteKey(w, j) = p THEN GetRecord(t, j) ELSE RowOf(H, w, j)]
  BY DEF Answered
<1>2. \A j \in Keys : RouteKey(w, j) = p => RowOf(H, w, j) = GetRecord(l, j)
  BY DEF RowOf
<1>3. R[k] = GetRecord(l, k)
  BY <1>1, <1>2
<1>4. ASSUME t = l PROVE S = R
  <2>1. \A j \in Keys : S[j] = R[j]
    BY <1>1, <1>2, <1>4
  <2>2. QED BY <1>1, <2>1
<1>5. ASSUME PutAs(l, t, k, v) PROVE S = [R EXCEPT ![k] = v]
  <2>1. \A j \in Keys : S[j] = IF j = k THEN v ELSE R[j]
    BY <1>1, <1>2, <1>5 DEF PutAs
  <2>2. QED BY <1>1, <2>1
<1>6. QED BY <1>3, <1>4, <1>5 DEF Follows

-----------------------------------------------------------------------------
(* A leaf that an operation hands back as it was stays as it is.           *)
LEMMA SameLeaf ==
  ASSUME NEW l \in Leaf, TidyNode(l.leaf)
  PROVE  Changed(l, Tidy(l.leaf), FALSE) = l
<1>1. PICK t : t = l.leaf /\ Tidy(t) = t
  BY TidySame
<1>2. PICK m : m = [l EXCEPT !.leaf = t, !.dirty = l.dirty \/ FALSE]
  OBVIOUS
<1>3. l = [leaf |-> l.leaf, prev |-> l.prev, next |-> l.next, dirty |-> l.dirty]
      /\ l.dirty \in BOOLEAN
  BY DEF Leaf
<1>4. (l.dirty \/ FALSE) = l.dirty
  BY <1>3
<1>5. m = [leaf |-> t, prev |-> l.prev, next |-> l.next, dirty |-> l.dirty]
  BY <1>2, <1>3, <1>4
<1>6. m = l
  BY <1>1, <1>3, <1>5
<1>7. QED BY <1>1, <1>2, <1>6 DEF Changed

(* delete_record on the leaf of the key: what is left in the leaf.         *)
LEMMA DeleteChange ==
  ASSUME TreeShape, NEW p \in Pages, NEW k \in Keys, Delete(p, k), NEW r, NEW m, NEW l,
         l = Held(p), r = DeleteRecord(l.leaf, k), m = Changed(l, Tidy(r.node), r.ret = "Ok")
  PROVE  /\ l \in Leaf /\ l # NoNode /\ m \in Leaf /\ m # NoNode
         /\ m.prev = l.prev /\ m.next = l.next
         /\ KeysOf(m.leaf) \subseteq KeysOf(l.leaf) \cup {k}
         /\ ~ m.dirty => m = l
         /\ r.ret = "Ok" => \A j \in Keys :
              GetRecord(m.leaf, j) = IF j = k THEN NoRow ELSE GetRecord(l.leaf, j)
         /\ r.ret # "Ok" => r.ret = "KeyNotFound" /\ m = l /\ GetRecord(l.leaf, k) = NoRow
<1>1. l # NoNode
  BY DEF Delete
<1>2. l \in Leaf /\ TidyNode(l.leaf) /\ WellFormed(l.leaf)
  BY <1>1, HeldFacts
<1>3. /\ Ordered(r.node)
      /\ r.ret \in {"Ok", "KeyNotFound"}
      /\ r.ret = "Ok" =>
           \A j \in Keys : GetRecord(r.node, j) = IF j = k THEN NoRow ELSE GetRecord(l.leaf, j)
      /\ r.ret = "KeyNotFound" => GetRecord(l.leaf, k) = NoRow /\ r.node = l.leaf
      /\ KeysOf(r.node) \subseteq KeysOf(l.leaf) \cup {k}
  BY <1>2, DeleteOk
<1>4. PICK b \in BOOLEAN : b = (r.ret = "Ok")
  OBVIOUS
<1>5. PICK t : t = Tidy(r.node)
  OBVIOUS
<1>6. TidyNode(t) /\ Reached(t) = Reached(r.node) /\ Ordered(t)
  <2>1. Ordered(r.node)
    BY <1>3
  <2>2. TidyNode(t) /\ Reached(t) = Reached(r.node)
    BY <1>5, <2>1, TidyProperties
  <2>3. Ordered(t)
    BY <2>2 DEF TidyNode, WellFormed
  <2>4. QED BY <2>2, <2>3
<1>7. RowsOf(t) = RowsOf(r.node) /\ KeysOf(t) = KeysOf(r.node)
  BY <1>3, <1>6, SameReached
<1>8. m = Changed(l, t, b)
  BY <1>4, <1>5
<1>9. /\ m \in Leaf /\ m.leaf = t /\ m.prev = l.prev /\ m.next = l.next /\ m # NoNode
      /\ m.dirty <=> l.dirty \/ b
  BY <1>2, <1>6, <1>8, ChangedLeaf
<1>10. \A j \in Keys : GetRecord(m.leaf, j) = GetRecord(r.node, j)
  BY <1>7, <1>9 DEF RowsOf
<1>11. ASSUME r.ret # "Ok" PROVE m = l
  <2>1. r.node = l.leaf
    BY <1>3, <1>11
  <2>2. m = Changed(l, Tidy(l.leaf), FALSE)
    BY <1>4, <1>5, <1>8, <1>11, <2>1
  <2>3. QED BY <1>2, <2>2, SameLeaf
<1>12. ~ m.dirty => m = l
  BY <1>4, <1>9, <1>11
<1>13. QED BY <1>1, <1>2, <1>3, <1>7, <1>9, <1>10, <1>11, <1>12

(* insert_leaf without a split: what is left in the leaf.                  *)
LEMMA InsertChange ==
  ASSUME TreeShape, NEW p \in Pages, NEW k \in Keys, NEW v \in Payloads, Held(p) # NoNode,
         NEW r, NEW m, NEW l, r.ret \notin {"PageFull", "panic"},
         l = Held(p), r = InsertRecord(l.leaf, k, v), m = Changed(l, Tidy(r.node), r.ret = "Ok")
  PROVE  /\ l \in Leaf /\ m \in Leaf /\ m # NoNode
         /\ m.prev = l.prev /\ m.next = l.next
         /\ KeysOf(m.leaf) \subseteq KeysOf(l.leaf) \cup {k}
         /\ ~ m.dirty => m = l
         /\ r.ret = "Ok" =>
              /\ GetRecord(l.leaf, k) = NoRow
              /\ \A j \in Keys : GetRecord(m.leaf, j) = IF j = k THEN v ELSE GetRecord(l.leaf, j)
         /\ r.ret # "Ok" =>
              /\ m = l
              /\ \/ r.ret = "DuplicateKey" /\ GetRecord(l.leaf, k) # NoRow
                 \/ r.ret = "TupleTooLarge"
<1>1. l \in Leaf /\ TidyNode(l.leaf) /\ WellFormed(l.leaf)
  BY HeldFacts
<1>2. /\ Ordered(r.node)
      /\ r.ret \in {"Ok", "panic", "DuplicateKey", "TupleTooLarge", "PageFull"}
      /\ r.ret = "Ok" =>
           /\ GetRecord(l.leaf, k) = NoRow
           /\ \A j \in Keys : GetRecord(r.node, j) = IF j = k THEN v ELSE GetRecord(l.leaf, j)
           /\ KeysOf(r.node) \subseteq KeysOf(l.leaf) \cup {k}
      /\ r.ret = "DuplicateKey" => GetRecord(l.leaf, k) # NoRow
      /\ r.ret \in {"DuplicateKey", "TupleTooLarge", "PageFull"} => r.node = l.leaf
  BY <1>1, InsertOk
<1>3. r.ret \in {"Ok", "DuplicateKey", "TupleTooLarge"}
  BY <1>2
<1>4. PICK b \in BOOLEAN : b = (r.ret = "Ok")
  OBVIOUS
<1>5. PICK t : t = Tidy(r.node)
  OBVIOUS
<1>6. TidyNode(t) /\ Reached(t) = Reached(r.node) /\ Ordered(t)
  <2>1. Ordered(r.node)
    BY <1>2
  <2>2. TidyNode(t) /\ Reached(t) = Reached(r.node)
    BY <1>5, <2>1, TidyProperties
  <2>3. Ordered(t)
    BY <2>2 DEF TidyNode, WellFormed
  <2>4. QED BY <2>2, <2>3
<1>7. RowsOf(t) = RowsOf(r.node) /\ KeysOf(t) = KeysOf(r.node)
  BY <1>2, <1>6, SameReached
<1>8. m = Changed(l, t, b)
  BY <1>4, <1>5
<1>9. /\ m \in Leaf /\ m.leaf = t /\ m.prev = l.prev /\ m.next = l.next /\ m # NoNode
      /\ m.dirty <=> l.dirty \/ b
  BY <1>1, <1>6, <1>8, ChangedLeaf
<1>10. \A j \in Keys : GetRecord(m.leaf, j) = GetRecord(r.node, j)
  BY <1>7, <1>9 DEF RowsOf
<1>11. ASSUME r.ret # "Ok" PROVE m = l
  <2>1. r.node = l.leaf
    BY <1>2, <1>3, <1>11
  <2>2. m = Changed(l, Tidy(l.leaf), FALSE)
    BY <1>4, <1>5, <1>8, <1>11, <2>1
  <2>3. QED BY <1>1, <2>2, SameLeaf
<1>12. ~ m.dirty => m = l
  BY <1>4, <1>9, <1>11
<1>13. KeysOf(m.leaf) \subseteq KeysOf(l.leaf) \cup {k}
  BY <1>2, <1>7, <1>9, <1>11
<1>14. ASSUME r.ret = "Ok"
       PROVE  /\ GetRecord(l.leaf, k) = NoRow
              /\ \A j \in Keys : GetRecord(m.leaf, j) = IF j = k THEN v ELSE GetRecord(l.leaf, j)
  BY <1>2, <1>10, <1>14
<1>15. QED BY <1>1, <1>2, <1>3, <1>9, <1>11, <1>12, <1>13, <1>14

-----------------------------------------------------------------------------
(* An insert that is refused, as the map sees it.                          *)
LEMMA Refused ==
  ASSUME NEW k \in Keys, NEW v \in Payloads, NEW ret, ret \in {"TupleTooLarge", "Pool"},
         last' = <<"insert", k, v, ret>>, Rows' = Rows
  PROVE  Map!Insert(k, v)
BY DEF Map!Insert, Map!Returns

(* Where no page and no root changes, neither does the tree.               *)
LEMMA SameTree ==
  ASSUME Intact, UNCHANGED <<cache, disk, next_free, root, pending>>
  PROVE  Intact' /\ Rows' = Rows
<1>1. Forest' = Forest /\ Whole' = Whole
  BY DEF Forest, Held, Whole
<1>2. CleanOnDisk' /\ Distinct(root)'
  BY DEF Intact, CleanOnDisk, Distinct, Child
<1>3. Intact'
  BY <1>1, <1>2 DEF Intact
<1>4. Rows' = Rows
  BY DEF Rows, FindRecord, RowIn, LeafOf, Held
<1>5. QED BY <1>3, <1>4

-----------------------------------------------------------------------------
(* The calls that change no other leaf are the map's.                      *)
LEMMA DeleteStep ==
  ASSUME TreeShape, Intact, TreeShape', NEW p \in Pages, NEW k \in Keys, Delete(p, k)
  PROVE  Intact' /\ Map!Delete(k)
<1>1. PICK l : l = Held(p)
  OBVIOUS
<1>2. PICK r : r = DeleteRecord(l.leaf, k)
  OBVIOUS
<1>3. PICK m : m = Changed(l, Tidy(r.node), r.ret = "Ok")
  OBVIOUS
<1>4. /\ pending = Installed /\ p = LeafOf(k) /\ Held(p) # NoNode
      /\ cache' = [cache EXCEPT ![p] = m]
      /\ last' = <<"delete", k, NoRow, r.ret>>
      /\ UNCHANGED <<disk, root, pending, next_free>>
  BY <1>1, <1>2, <1>3 DEF Delete, Called, Returns, Changed
<1>5. /\ l \in Leaf /\ m \in Leaf /\ m # NoNode
      /\ m.prev = l.prev /\ m.next = l.next
      /\ KeysOf(m.leaf) \subseteq KeysOf(l.leaf) \cup {k}
      /\ ~ m.dirty => m = l
      /\ r.ret = "Ok" => \A j \in Keys :
           GetRecord(m.leaf, j) = IF j = k THEN NoRow ELSE GetRecord(l.leaf, j)
      /\ r.ret # "Ok" => r.ret = "KeyNotFound" /\ m = l /\ GetRecord(l.leaf, k) = NoRow
  BY <1>1, <1>2, <1>3, DeleteChange
<1>6. /\ Intact'
      /\ Answered(Forest, root, p, m.leaf, Rows, Rows')
  BY <1>1, <1>4, <1>5, InPlace
<1>7. RouteKey(root, k) = p /\ l.leaf = Forest[p].leaf
  BY <1>1, <1>4 DEF LeafOf, Forest
<1>8. Follows(Rows, Rows', l.leaf, m.leaf, k, NoRow)
  <2>1. Follows(Rows, Rows', Forest[p].leaf, m.leaf, k, NoRow)
    BY <1>6, <1>7, RowsChange
  <2>2. QED BY <1>7, <2>1
<1>9. CASE r.ret = "Ok"
  <2>1. Rows' = [Rows EXCEPT ![k] = NoRow]
    BY <1>5, <1>8, <1>9 DEF Follows, PutAs
  <2>2. QED BY <1>4, <1>6, <1>9, <2>1 DEF Map!Delete, Map!Returns
<1>10. CASE r.ret # "Ok"
  <2>1. Rows' = Rows /\ Rows[k] = NoRow /\ r.ret = "KeyNotFound"
    BY <1>5, <1>8, <1>10 DEF Follows
  <2>2. QED BY <1>4, <1>6, <2>1 DEF Map!Delete, Map!Returns
<1>11. QED BY <1>9, <1>10

(* An insert without a split that does not panic is one of the map.        *)
LEMMA InsertInPlaceStep ==
  ASSUME TreeShape, Intact, TreeShape', NEW p \in Pages, NEW k \in Keys, NEW v \in Payloads,
         InsertInPlace(p, k, v), ~ torn'
  PROVE  Intact' /\ Map!Insert(k, v)
<1>1. PICK l : l = Held(p)
  OBVIOUS
<1>2. PICK r : r = InsertRecord(l.leaf, k, v)
  OBVIOUS
<1>3. PICK m : m = Changed(l, Tidy(r.node), r.ret = "Ok")
  OBVIOUS
<1>4. /\ pending = Installed /\ p = LeafOf(k) /\ Held(p) # NoNode
      /\ cache' = [cache EXCEPT ![p] = m]
      /\ last' = <<"insert", k, v, r.ret>>
      /\ UNCHANGED <<disk, root, pending, next_free>>
      /\ r.ret \notin {"PageFull", "panic"}
  BY <1>1, <1>2, <1>3 DEF InsertInPlace, Called, Returns, Changed
<1>5. /\ l \in Leaf /\ m \in Leaf /\ m # NoNode
      /\ m.prev = l.prev /\ m.next = l.next
      /\ KeysOf(m.leaf) \subseteq KeysOf(l.leaf) \cup {k}
      /\ ~ m.dirty => m = l
      /\ r.ret = "Ok" =>
           /\ GetRecord(l.leaf, k) = NoRow
           /\ \A j \in Keys : GetRecord(m.leaf, j) = IF j = k THEN v ELSE GetRecord(l.leaf, j)
      /\ r.ret # "Ok" =>
           /\ m = l
           /\ \/ r.ret = "DuplicateKey" /\ GetRecord(l.leaf, k) # NoRow
              \/ r.ret = "TupleTooLarge"
  BY <1>1, <1>2, <1>3, <1>4, InsertChange
<1>6. /\ Intact'
      /\ Answered(Forest, root, p, m.leaf, Rows, Rows')
  BY <1>1, <1>4, <1>5, InPlace
<1>7. RouteKey(root, k) = p /\ l.leaf = Forest[p].leaf
  BY <1>1, <1>4 DEF LeafOf, Forest
<1>8. Follows(Rows, Rows', l.leaf, m.leaf, k, v)
  <2>1. Follows(Rows, Rows', Forest[p].leaf, m.leaf, k, v)
    BY <1>6, <1>7, RowsChange
  <2>2. QED BY <1>7, <2>1
<1>9. CASE r.ret = "Ok"
  <2>1. Rows' = [Rows EXCEPT ![k] = v] /\ Rows[k] = NoRow
    BY <1>5, <1>8, <1>9 DEF Follows, PutAs
  <2>2. QED BY <1>4, <1>6, <1>9, <2>1 DEF Map!Insert, Map!Returns
<1>10. CASE r.ret = "DuplicateKey"
  <2>1. Rows' = Rows /\ Rows[k] # NoRow
    BY <1>5, <1>8, <1>10 DEF Follows
  <2>2. QED BY <1>4, <1>6, <1>10, <2>1 DEF Map!Insert, Map!Returns
<1>11. CASE r.ret = "TupleTooLarge"
  <2>1. Rows' = Rows
    BY <1>5, <1>8, <1>11 DEF Follows
  <2>2. QED BY <1>4, <1>6, <1>11, <2>1, Refused
<1>12. QED BY <1>5, <1>9, <1>10, <1>11

(* An insert that gets no page for its split is refused by the map.        *)
LEMMA NewPageFailsStep ==
  ASSUME TreeShape, Intact, TreeShape', NEW p \in Pages, NEW k \in Keys, NEW v \in Payloads,
         NewPageFails(p, k, v)
  PROVE  Intact' /\ Map!Insert(k, v)
<1>1. PICK l : l = Held(p)
  OBVIOUS
<1>2. /\ pending = Installed /\ p = LeafOf(k) /\ l # NoNode
      /\ cache' = [cache EXCEPT ![p] = l]
      /\ last' = <<"insert", k, v, "Pool">>
      /\ UNCHANGED <<disk, root, pending, next_free>>
  BY <1>1 DEF NewPageFails, Called, Returns
<1>3. l \in Leaf
  BY <1>1, <1>2, HeldFacts
<1>4. /\ Intact'
      /\ Answered(Forest, root, p, l.leaf, Rows, Rows')
  BY <1>1, <1>2, <1>3, InPlace
<1>5. RouteKey(root, k) = p /\ l.leaf = Forest[p].leaf
  BY <1>1, <1>2 DEF LeafOf, Forest
<1>6. Rows' = Rows
  <2>1. Follows(Rows, Rows', Forest[p].leaf, l.leaf, k, v)
    BY <1>4, <1>5, RowsChange
  <2>2. QED BY <1>5, <2>1 DEF Follows
<1>7. QED BY <1>2, <1>4, <1>6, Refused

(* An insert that cannot fetch the leaf is refused by the map.             *)
LEMMA FetchFailsStep ==
  ASSUME TreeShape, Intact, NEW p \in Pages, NEW k \in Keys, NEW v \in Payloads,
         FetchFails(p, k, v)
  PROVE  Intact' /\ Map!Insert(k, v)
<1>1. /\ UNCHANGED <<cache, disk, next_free, root, pending>>
      /\ last' = <<"insert", k, v, "Pool">>
  BY DEF FetchFails, Returns
<1>2. Intact' /\ Rows' = Rows
  BY <1>1, SameTree
<1>3. QED BY <1>1, <1>2, Refused

-----------------------------------------------------------------------------
(* The leaves after a split of page p, each with what it holds.            *)
HalvesAt(H, G, p, q, h) ==
  /\ KeysOf(G[p].leaf) = KeysOf(h.left) /\ KeysOf(G[q].leaf) = KeysOf(h.right)
  /\ \A j \in Keys : GetRecord(G[p].leaf, j) = GetRecord(h.left, j)
  /\ \A j \in Keys : GetRecord(G[q].leaf, j) = GetRecord(h.right, j)
  /\ \A x \in 1 .. q - 1 : x # p => G[x].leaf = H[x].leaf

(* A split links its halves to each other and to the old right sibling.    *)
LEMMA SplitForest ==
  ASSUME TreeShape, Intact, NEW p \in Pages, NEW q \in Pages, NEW k \in Keys, NEW v \in Payloads,
         InsertSplitting(p, q, k, v), NEW h, h = Halves(p, k, v)
  PROVE  /\ SplitLinks(Forest, Forest', p, q) /\ HalvesAt(Forest, Forest', p, q, h)
         /\ CleanOnDisk'
         /\ Links(Forest, root, q) /\ Routed(Forest, root)
         /\ p \in 1 .. q - 1 /\ RouteKey(root, k) = p /\ Forest[p] = Held(p)
         /\ Ordered(Held(p).leaf) /\ Parted(Held(p).leaf, k, v, h)
         /\ \A x \in 1 .. q - 1 : KeysOf(Forest[x].leaf) \subseteq Keys
<1>1. PICK o : o = Held(p).next
  OBVIOUS
<1>2. /\ o = NoSibling \/ (o \in Pages /\ Held(o) # NoNode)
      /\ SplitTable(cache', p, q, h, o)
      /\ h.ret = "Ok"
      /\ SplitStarts(p, q, k, v)
  BY <1>1, SplitPages
<1>3. /\ Held(p) # NoNode /\ q = next_free
      /\ disk' = disk /\ pending = Installed /\ p = RouteKey(root, k)
  BY <1>2, StartedSplit DEF LeafOf
<1>4. Whole = root
  BY <1>3 DEF Whole
<1>5. Links(Forest, root, q) /\ Routed(Forest, root) /\ RootShape(root)
  BY <1>3, <1>4 DEF Intact, TreeShape
<1>6. /\ Len(root.slots) + 1 = q - 1 /\ 1 .. q - 1 \subseteq Pages
      /\ \A x \in 1 .. q - 1 : Held(x) # NoNode /\ Forest[x] = Held(x)
  BY <1>3, <1>4, IntactPages
<1>7. p \in 1 .. q - 1
  BY <1>3, <1>5, LeafConstants, RouteInside
<1>8. q \in Nat /\ p # q /\ q \notin 1 .. q - 1
  <2>1. q \in Nat
    BY PagesFacts
  <2>2. QED BY <1>7, <2>1
<1>9. o # p /\ o # q /\ (o = NoSibling \/ o \in 1 .. q - 1)
  <2>1. PICK N \in Nat : Len(root.slots) = N
    BY <1>5, RootFacts
  <2>2. N + 1 = q - 1
    BY <1>6, <2>1
  <2>3. PICK i \in 1 .. N + 1 : Child(root, i) = p
    BY <1>5, <1>7, <2>1, <2>2 DEF Links
  <2>4. o = After(root, i)
    <3>1. Forest[p].next = After(root, i)
      BY <1>5, <2>1, <2>3 DEF Links
    <3>2. QED BY <1>1, <1>6, <1>7, <3>1
  <2>5. CASE i = N + 1
    <3>1. o = 0
      BY <2>1, <2>4, <2>5 DEF After, NoSibling
    <3>2. p # 0 /\ q # 0
      BY <1>7, <1>8
    <3>3. QED BY <3>1, <3>2 DEF NoSibling
  <2>6. CASE i \in 1 .. N
    <3>1. o = Child(root, i + 1) /\ i + 1 \in 1 .. N + 1 /\ i # i + 1
      BY <2>1, <2>4, <2>6 DEF After
    <3>2. o \in 1 .. N + 1
      BY <1>5, <2>1, <3>1 DEF Links
    <3>3. o # p
      BY <1>5, <2>1, <2>3, <3>1 DEF Links, Distinct
    <3>4. QED BY <1>8, <2>2, <3>2, <3>3
  <2>7. QED BY <2>5, <2>6
<1>10. PICK L, R : L = LeftHalf(p, q, h, TRUE) /\ R = RightHalf(p, h, TRUE)
  OBVIOUS
<1>11. /\ Ordered(h.left) /\ Ordered(h.right)
       /\ TidyNode(Tidy(h.left)) /\ TidyNode(Tidy(h.right))
       /\ L.leaf = Tidy(h.left) /\ L.prev = Held(p).prev /\ L.next = q
       /\ L # NoNode /\ L.dirty
       /\ R.leaf = Tidy(h.right) /\ R.prev = p /\ R.next = Held(p).next
       /\ R # NoNode /\ R.dirty
  <2>1. PICK b \in BOOLEAN : b = TRUE
    OBVIOUS
  <2>2. L = LeftHalf(p, q, h, b) /\ R = RightHalf(p, h, b)
    BY <1>10, <2>1
  <2>3. /\ Ordered(h.left) /\ Ordered(h.right)
        /\ TidyNode(Tidy(h.left)) /\ TidyNode(Tidy(h.right))
        /\ LeftHalf(p, q, h, b).leaf = Tidy(h.left)
        /\ LeftHalf(p, q, h, b).prev = Held(p).prev /\ LeftHalf(p, q, h, b).next = q
        /\ LeftHalf(p, q, h, b) # NoNode
        /\ b => LeftHalf(p, q, h, b).dirty
        /\ RightHalf(p, h, b).leaf = Tidy(h.right)
        /\ RightHalf(p, h, b).prev = p /\ RightHalf(p, h, b).next = Held(p).next
        /\ RightHalf(p, h, b) # NoNode
        /\ b => RightHalf(p, h, b).dirty
    BY <1>3, HalvesLeaves
  <2>4. QED BY <2>1, <2>2, <2>3
<1>12. o # NoSibling =>
         /\ Relinked(o, q).leaf = Held(o).leaf
         /\ Relinked(o, q).prev = q /\ Relinked(o, q).next = Held(o).next
         /\ Relinked(o, q) # NoNode /\ Relinked(o, q).dirty
  BY <1>2, RelinkedLeaf
<1>13. \A x \in Pages : cache'[x] = IF x = o THEN Relinked(o, q)
                                    ELSE IF x = q THEN R ELSE IF x = p THEN L ELSE cache[x]
  BY <1>2, <1>10 DEF SplitTable
<1>14. \A x \in Pages : Forest'[x] = IF cache'[x] # NoNode THEN cache'[x] ELSE disk[x]
  BY <1>3 DEF Forest, Held
<1>15. Forest'[p] = L /\ Forest'[q] = R
  BY <1>8, <1>9, <1>11, <1>13, <1>14
<1>16. o # NoSibling => Forest'[o] = Relinked(o, q)
  BY <1>2, <1>12, <1>13, <1>14
<1>17. \A x \in 1 .. q - 1 : x \notin {p, o} => Forest'[x] = Forest[x]
  <2> SUFFICES ASSUME NEW x \in 1 .. q - 1, x \notin {p, o} PROVE Forest'[x] = Forest[x]
    OBVIOUS
  <2>1. x \in Pages /\ x # q
    BY <1>6, <1>8
  <2>2. cache'[x] = cache[x]
    BY <1>13, <2>1
  <2>3. QED BY <1>14, <2>1, <2>2 DEF Forest, Held
<1>18. SplitLinks(Forest, Forest', p, q)
  <2>1. Forest[p] = Held(p) /\ Forest[p].next = o
    BY <1>1, <1>6, <1>7
  <2>2. o # NoSibling => Forest[o] = Held(o)
    BY <1>6, <1>9
  <2>3. QED BY <1>1, <1>11, <1>12, <1>15, <1>16, <1>17, <2>1, <2>2 DEF SplitLinks
<1>19. HalvesAt(Forest, Forest', p, q, h)
  <2>1. /\ KeysOf(L.leaf) = KeysOf(h.left) /\ RowsOf(L.leaf) = RowsOf(h.left)
        /\ KeysOf(R.leaf) = KeysOf(h.right) /\ RowsOf(R.leaf) = RowsOf(h.right)
    <3>1. /\ Reached(L.leaf) = Reached(h.left) /\ Ordered(L.leaf)
          /\ Reached(R.leaf) = Reached(h.right) /\ Ordered(R.leaf)
      BY <1>11, TidyProperties DEF TidyNode, WellFormed
    <3>2. QED BY <1>11, <3>1, SameReached
  <2>2. /\ \A j \in Keys : GetRecord(L.leaf, j) = GetRecord(h.left, j)
        /\ \A j \in Keys : GetRecord(R.leaf, j) = GetRecord(h.right, j)
    BY <2>1 DEF RowsOf
  <2>3. ASSUME NEW x \in 1 .. q - 1, x # p PROVE Forest'[x].leaf = Forest[x].leaf
    <3>1. CASE x = o
      <4>1. o # NoSibling
        BY <1>6, <3>1 DEF NoSibling
      <4>2. QED BY <1>6, <1>12, <1>16, <3>1, <4>1
    <3>2. CASE x # o
      BY <1>17, <2>3, <3>2
    <3>3. QED BY <3>1, <3>2
  <2>4. QED BY <1>15, <2>1, <2>2, <2>3 DEF HalvesAt
<1>20. CleanOnDisk'
  <2> SUFFICES ASSUME NEW x \in Pages, cache'[x] # NoNode, ~ cache'[x].dirty
               PROVE  cache'[x] = disk'[x]
    BY DEF CleanOnDisk
  <2>1. x # p /\ x # q
    BY <1>8, <1>9, <1>11, <1>13
  <2>2. x # o
    <3>1. o = NoSibling => x # o
      BY PagesFacts DEF NoSibling, Pages
    <3>2. QED BY <1>12, <1>13, <3>1
  <2>3. cache'[x] = cache[x]
    BY <1>13, <2>1, <2>2
  <2>4. QED BY <1>3, <2>3 DEF Intact, CleanOnDisk
<1>21. WellFormed(Held(p).leaf) /\ Ordered(Held(p).leaf)
  BY <1>3, HeldFacts
<1>22. Parted(Held(p).leaf, k, v, h)
  BY <1>2, <1>21, HalvesProperties
<1>23. ASSUME NEW x \in 1 .. q - 1 PROVE KeysOf(Forest[x].leaf) \subseteq Keys
  <2>1. x \in Pages /\ Held(x) # NoNode /\ Forest[x] = Held(x)
    BY <1>6
  <2>2. Ordered(Held(x).leaf)
    BY <2>1, HeldFacts
  <2>3. QED BY <2>1, <2>2, KeysOfLeaf
<1>24. QED BY <1>3, <1>5, <1>6, <1>7, <1>18, <1>19, <1>20, <1>21, <1>22, <1>23

(* A call that splits a leaf is an insert of the map, once its entry is in *)
(* the root.                                                               *)
LEMMA InsertSplittingStep ==
  ASSUME TreeShape, Intact, TreeShape', NEW p \in Pages, NEW q \in Pages,
         NEW k \in Keys, NEW v \in Payloads, InsertSplitting(p, q, k, v)
  PROVE  Intact' /\ Map!Insert(k, v)
<1>1. PICK h, o : h = Halves(p, k, v) /\ o = Held(p).next
  OBVIOUS
<1>2. /\ SplitStarts(p, q, k, v)
      /\ pending' = [left |-> p, promoted |-> h.promoted, right |-> q] /\ pending' \in Split3
      /\ Returns("insert", k, v, "Ok")
  BY <1>1, SplitPages
<1>3. /\ q = next_free /\ next_free' = next_free + 1 /\ root' = root /\ pending = Installed
  BY <1>2, StartedSplit DEF SplitStarts
<1>4. /\ SplitLinks(Forest, Forest', p, q) /\ HalvesAt(Forest, Forest', p, q, h)
      /\ CleanOnDisk'
      /\ Links(Forest, root, q) /\ Routed(Forest, root)
      /\ p \in 1 .. q - 1 /\ RouteKey(root, k) = p /\ Forest[p] = Held(p)
      /\ Ordered(Held(p).leaf) /\ Parted(Held(p).leaf, k, v, h)
      /\ \A x \in 1 .. q - 1 : KeysOf(Forest[x].leaf) \subseteq Keys
  BY <1>1, SplitForest
<1>5. PICK s \in Split3 : s = pending'
  BY <1>2
<1>6. s.left = p /\ s.promoted = h.promoted /\ s.right = q
  BY <1>2, <1>5
<1>7. RootShape(root) /\ Whole = root
  BY <1>3 DEF TreeShape, Whole
<1>8. PICK w : w = InstallEntry(root, s)
  OBVIOUS
<1>9. PICK G, H : G = Forest' /\ H = Forest
  OBVIOUS
<1>10. RouteKey(root, s.promoted) = p /\ Routed(G, w)
  <2>1. /\ KeysOf(G[p].leaf) = KeysOf(h.left) /\ KeysOf(G[q].leaf) = KeysOf(h.right)
        /\ \A x \in 1 .. q - 1 : x # p => G[x].leaf = H[x].leaf
    BY <1>4, <1>9 DEF HalvesAt
  <2>2. /\ Links(H, root, s.right) /\ Routed(H, root) /\ RouteKey(root, k) = s.left
        /\ Ordered(H[s.left].leaf) /\ Parted(H[s.left].leaf, k, v, h)
        /\ s.left \in 1 .. s.right - 1
        /\ \A x \in 1 .. s.right - 1 : KeysOf(H[x].leaf) \subseteq Keys
    BY <1>4, <1>6, <1>9
  <2>3. QED BY <1>6, <1>7, <1>8, <2>1, <2>2, RoutedWidened
<1>11. Links(G, w, q + 1)
  <2>1. s.promoted \in Nat
    BY LeafConstants DEF Split3
  <2>2. PICK i : RoutesAt(root, s.promoted, i) /\ RouteKey(root, s.promoted) = Child(root, i)
    BY <1>7, <2>1, RouteExists
  <2>3. Widened(root, s, i, w)
    BY <1>7, <1>8, <2>2, InstallProperties
  <2>4. i \in 1 .. Len(root.slots) + 1 /\ Child(root, i) = s.left
    BY <1>6, <1>10, <2>2 DEF RoutesAt
  <2>5. Len(root.slots) \in Nat
    BY <1>7, RootFacts
  <2>6. Links(H, root, s.right) /\ SplitLinks(H, G, s.left, s.right)
    BY <1>4, <1>6, <1>9
  <2>7. Links(G, w, s.right + 1)
    BY <2>3, <2>4, <2>5, <2>6, LinksWidened
  <2>8. QED BY <1>6, <2>7
<1>12. Whole' = w /\ pending' # Installed
  <2>1. p # 0
    BY PagesFacts DEF Pages
  <2>2. pending' # Installed
    BY <1>2, <2>1 DEF Installed
  <2>3. QED BY <1>3, <1>5, <1>8, <2>2 DEF Whole
<1>13. Intact'
  <2>1. Distinct(root)'
    BY <1>3 DEF Intact, Distinct, Child
  <2>2. RouteKey(root', pending'.promoted) = pending'.left
    BY <1>3, <1>5, <1>6, <1>10
  <2>3. Links(Forest', Whole', next_free') /\ Routed(Forest', Whole')
    BY <1>3, <1>9, <1>10, <1>11, <1>12
  <2>4. QED BY <1>4, <2>1, <2>2, <2>3 DEF Intact
<1>14. Rows = [j \in Keys |-> RowOf(H, root, j)]
  BY <1>7, <1>9, RowsAre DEF Answers
<1>15. Rows' = [j \in Keys |-> RowOf(G, w, j)]
  <2>1. (TreeShape /\ Intact => Rows = Answers)'
    BY RowsAre, PTL
  <2>2. Rows' = Answers'
    BY <1>13, <2>1
  <2>3. Answers' = [j \in Keys |-> RowOf(Forest', Whole', j)]
    BY DEF Answers
  <2>4. QED BY <1>9, <1>12, <2>2, <2>3
<1>16. PICK n : n = H[p].leaf
  OBVIOUS
<1>17. /\ GetRecord(n, k) = NoRow
       /\ \A j \in Keys : j < s.promoted =>
            GetRecord(G[p].leaf, j) = IF j = k THEN v ELSE GetRecord(n, j)
       /\ \A j \in Keys : j >= s.promoted =>
            GetRecord(G[q].leaf, j) = IF j = k THEN v ELSE GetRecord(n, j)
       /\ \A x \in 1 .. q - 1 : x # p => G[x].leaf = H[x].leaf
  <2>1. n = Held(p).leaf
    BY <1>4, <1>9, <1>16
  <2>2. /\ GetRecord(n, k) = NoRow
        /\ \A j \in Keys : j < s.promoted =>
             GetRecord(h.left, j) = IF j = k THEN v ELSE GetRecord(n, j)
        /\ \A j \in Keys : j >= s.promoted =>
             GetRecord(h.right, j) = IF j = k THEN v ELSE GetRecord(n, j)
    BY <1>4, <1>6, <2>1 DEF Parted
  <2>3. /\ \A j \in Keys : GetRecord(G[p].leaf, j) = GetRecord(h.left, j)
        /\ \A j \in Keys : GetRecord(G[q].leaf, j) = GetRecord(h.right, j)
        /\ \A x \in 1 .. q - 1 : x # p => G[x].leaf = H[x].leaf
    BY <1>4, <1>9 DEF HalvesAt
  <2>4. QED BY <2>2, <2>3
<1>18. ASSUME NEW j \in Keys
       PROVE  RowOf(G, w, j) = IF j = k THEN v ELSE RowOf(H, root, j)
  <2>1. PICK c : c = RouteKey(root, j)
    OBVIOUS
  <2>2. RouteKey(w, j) = IF c = p /\ j >= s.promoted THEN q ELSE c
    <3>1. \A a, b \in 1 .. Len(root.slots) + 1 : Child(root, a) = Child(root, b) => a = b
      BY <1>4 DEF Links, Distinct
    <3>2. RouteKey(root, s.promoted) = s.left
      BY <1>6, <1>10
    <3>3. j \in Nat
      BY LeafConstants
    <3>4. RouteKey(InstallEntry(root, s), j) =
            IF RouteKey(root, j) = s.left /\ j >= s.promoted THEN s.right ELSE RouteKey(root, j)
      BY <1>7, <3>1, <3>2, <3>3, RouteInstalled
    <3>5. QED BY <1>6, <1>8, <2>1, <3>4
  <2>3. RowOf(H, root, j) = GetRecord(H[c].leaf, j)
    BY <2>1 DEF RowOf
  <2>4. CASE c # p
    <3>1. c \in 1 .. q - 1
      BY <1>4, <1>7, <2>1, LeafConstants, RouteInside
    <3>2. RowOf(G, w, j) = GetRecord(H[c].leaf, j)
      BY <1>17, <2>2, <2>4, <3>1 DEF RowOf
    <3>3. j # k
      BY <1>4, <2>1, <2>4
    <3>4. QED BY <2>3, <3>2, <3>3
  <2>5. CASE c = p /\ j >= s.promoted
    <3>1. RowOf(G, w, j) = GetRecord(G[q].leaf, j)
      BY <2>2, <2>5 DEF RowOf
    <3>2. QED BY <1>16, <1>17, <2>3, <2>5, <3>1
  <2>6. CASE c = p /\ ~ (j >= s.promoted)
    <3>1. RowOf(G, w, j) = GetRecord(G[p].leaf, j)
      BY <2>2, <2>6 DEF RowOf
    <3>2. j < s.promoted
      <4>1. j \in Nat /\ s.promoted \in Nat
        BY LeafConstants DEF Split3
      <4>2. QED BY <2>6, <4>1
    <3>3. QED BY <1>16, <1>17, <2>3, <2>6, <3>1, <3>2
  <2>7. QED BY <2>4, <2>5, <2>6
<1>19. Rows' = [Rows EXCEPT ![k] = v] /\ Rows[k] = NoRow
  <2>1. \A j \in Keys : Rows'[j] = IF j = k THEN v ELSE Rows[j]
    BY <1>14, <1>15, <1>18
  <2>2. Rows' = [Rows EXCEPT ![k] = v]
    BY <1>14, <1>15, <2>1
  <2>3. Rows[k] = NoRow
    BY <1>4, <1>9, <1>14, <1>16, <1>17 DEF RowOf
  <2>4. QED BY <2>2, <2>3
<1>20. last' = <<"insert", k, v, "Ok">>
  BY <1>2 DEF Returns
<1>21. QED BY <1>13, <1>19, <1>20 DEF Map!Insert, Map!Returns

-----------------------------------------------------------------------------
(* The rows depend on the root once the split is installed, and on what    *)
(* the leaves hold.                                                        *)
LEMMA RowsUnmoved ==
  ASSUME TreeShape, Intact, TreeShape', Intact', Whole' = Whole,
         \A x \in Pages : Forest'[x].leaf = Forest[x].leaf
  PROVE  Rows' = Rows
<1>1. Rows = [j \in Keys |-> RowOf(Forest, Whole, j)]
  BY RowsAre DEF Answers
<1>2. Rows' = [j \in Keys |-> RowOf(Forest', Whole, j)]
  <2>1. (TreeShape /\ Intact => Rows = Answers)'
    BY RowsAre, PTL
  <2>2. Rows' = Answers'
    BY <2>1
  <2>3. Answers' = [j \in Keys |-> RowOf(Forest', Whole', j)]
    BY DEF Answers
  <2>4. QED BY <2>2, <2>3
<1>3. ASSUME NEW j \in Keys PROVE RowOf(Forest', Whole, j) = RowOf(Forest, Whole, j)
  <2>1. PICK p : p = RouteKey(Whole, j)
    OBVIOUS
  <2>2. p \in 1 .. next_free - 1
    BY <2>1, LeafConstants, WholeShape, RouteInside DEF Intact
  <2>3. p \in Pages
    BY <2>2, IntactPages
  <2>4. Forest'[p].leaf = Forest[p].leaf
    BY <2>3
  <2>5. QED BY <2>1, <2>4 DEF RowOf
<1>4. QED BY <1>1, <1>2, <1>3

(* The entry of the split changes the root, and no row.                    *)
LEMMA InstallStep ==
  ASSUME TreeShape, Intact, TreeShape', Install
  PROVE  Intact' /\ Rows' = Rows
<1>1. /\ pending # Installed /\ pending' = Installed
      /\ root' = InstallEntry(root, pending)
      /\ UNCHANGED <<cache, disk, next_free>>
  BY DEF Install
<1>2. Whole' = Whole /\ root' = Whole
  BY <1>1 DEF Whole
<1>3. Forest' = Forest
  BY <1>1 DEF Forest, Held
<1>4. Distinct(root')
  BY <1>2 DEF Intact, Links
<1>5. CleanOnDisk'
  BY <1>1 DEF Intact, CleanOnDisk
<1>6. Intact'
  <2>1. Links(Forest', Whole', next_free') /\ Routed(Forest', Whole')
    BY <1>1, <1>2, <1>3 DEF Intact
  <2>2. QED BY <1>1, <1>4, <1>5, <2>1 DEF Intact
<1>7. QED BY <1>2, <1>3, <1>6, RowsUnmoved

(* A root that was written and read again is the root.                     *)
LEMMA ReloadRootStep ==
  ASSUME TreeShape, Intact, ReloadRoot
  PROVE  Intact' /\ Rows' = Rows
<1>1. root' = root
  BY ReloadedRoot DEF ReloadRoot, TreeShape
<1>2. QED BY <1>1, SameTree DEF ReloadRoot

(* An eviction leaves in the file what the frame held.                     *)
LEMMA EvictStep ==
  ASSUME TreeShape, Intact, TreeShape', NEW p \in Pages, Evict(p)
  PROVE  Intact' /\ Rows' = Rows
<1>1. PICK m : m = [cache[p] EXCEPT !.dirty = FALSE]
  OBVIOUS
<1>2. /\ cache[p] # NoNode
      /\ disk' = IF cache[p].dirty THEN [disk EXCEPT ![p] = m] ELSE disk
      /\ cache' = [cache EXCEPT ![p] = NoNode]
      /\ UNCHANGED <<next_free, root, pending>>
  BY <1>1 DEF Evict
<1>3. cache[p] \in Leaf
  BY <1>2 DEF TreeShape, Sound
<1>4. /\ m.leaf = cache[p].leaf /\ m.prev = cache[p].prev /\ m.next = cache[p].next
      /\ m # NoNode
  <2>1. PICK l \in Leaf : l = cache[p]
    BY <1>3
  <2>2. PICK b \in BOOLEAN : b = FALSE
    OBVIOUS
  <2>3. m = [leaf |-> l.leaf, prev |-> l.prev, next |-> l.next, dirty |-> b]
    BY <1>1, <2>1, <2>2 DEF Leaf
  <2>4. m \in Leaf
    BY <2>3 DEF Leaf
  <2>5. m # NoNode
    BY <2>4, NoNodeAssumption
  <2>6. QED BY <2>1, <2>3, <2>5
<1>5. \A x \in Pages : cache'[x] = IF x = p THEN NoNode ELSE cache[x]
  BY <1>2 DEF TreeShape, Sound
<1>6. \A x \in Pages : x # p => disk'[x] = disk[x]
  BY <1>2 DEF TreeShape, Sound
<1>7. disk'[p] = m \/ disk'[p] = cache[p]
  <2>1. CASE cache[p].dirty
    BY <1>2, <2>1 DEF TreeShape, Sound
  <2>2. CASE ~ cache[p].dirty
    BY <1>2, <2>2 DEF Intact, CleanOnDisk
  <2>3. QED BY <2>1, <2>2
<1>8. ASSUME NEW x \in Pages
      PROVE  /\ Forest'[x].leaf = Forest[x].leaf
             /\ Forest[x] # NoNode => Forest'[x] # NoNode /\ Forest'[x].prev = Forest[x].prev
                                      /\ Forest'[x].next = Forest[x].next
  <2>1. Forest'[x] = IF cache'[x] # NoNode THEN cache'[x] ELSE disk'[x]
    BY DEF Forest, Held
  <2>2. Forest[x] = IF cache[x] # NoNode THEN cache[x] ELSE disk[x]
    BY DEF Forest, Held
  <2>3. CASE x = p
    <3>1. Forest'[x] = disk'[p] /\ Forest[x] = cache[p]
      BY <1>2, <1>5, <2>1, <2>2, <2>3
    <3>2. QED BY <1>2, <1>4, <1>7, <3>1
  <2>4. CASE x # p
    <3>1. Forest'[x] = Forest[x]
      BY <1>5, <1>6, <2>1, <2>2, <2>4
    <3>2. QED BY <3>1
  <2>5. QED BY <2>3, <2>4
<1>9. Whole' = Whole
  BY <1>2 DEF Whole
<1>10. /\ Len(Whole.slots) + 1 = next_free - 1 /\ Len(Whole.slots) \in Nat
       /\ 1 .. next_free - 1 \subseteq Pages
  BY IntactPages, WholeShape
<1>11. Links(Forest', Whole, next_free)
  <2>1. SameLinks(Forest, Forest', next_free)
    BY <1>8, <1>10 DEF SameLinks
  <2>2. QED BY <1>10, <2>1, LinksKept DEF Intact
<1>12. Routed(Forest', Whole)
  <2>1. \A x \in 1 .. Len(Whole.slots) + 1 : \A y \in KeysOf(Forest'[x].leaf) :
           y \in KeysOf(Forest[x].leaf) \/ RouteKey(Whole, y) = x
    BY <1>8, <1>10
  <2>2. QED BY <2>1, RoutedKept DEF Intact
<1>13. CleanOnDisk'
  BY <1>5, <1>6 DEF Intact, CleanOnDisk
<1>14. Intact'
  <2>1. Distinct(root)' /\ next_free' = next_free /\ pending' = pending
    BY <1>2 DEF Intact, Distinct, Child
  <2>2. pending' # Installed => RouteKey(root', pending'.promoted) = pending'.left
    BY <1>2 DEF Intact
  <2>3. QED BY <1>9, <1>11, <1>12, <1>13, <2>1, <2>2 DEF Intact
<1>15. QED BY <1>8, <1>9, <1>14, RowsUnmoved

-----------------------------------------------------------------------------
(* A step of the map, or none, until an insert_leaf fails half way.        *)
MapStep == torn' \/ Map!Next \/ (last' = last /\ Rows' = Rows)

(* Every call of the tree keeps the invariant, and is a step of the map.   *)
LEMMA TreeStep ==
  ASSUME TreeInv, [Next]_vars
  PROVE  TreeInv' /\ MapStep
<1>1. TreeShape /\ TreeShape'
  BY ShapeStep DEF TreeInv
<1>2. CASE torn'
  BY <1>1, <1>2 DEF TreeInv, MapStep
<1>3. CASE ~ torn'
  <2> SUFFICES Intact' /\ (Map!Next \/ (last' = last /\ Rows' = Rows))
    BY <1>1 DEF TreeInv, MapStep
  <2>1. ~ torn
    <3>1. \A p, k : Delete(p, k) => torn' = torn
      BY DEF Delete
    <3>2. \A p, k, v : FetchFails(p, k, v) \/ NewPageFails(p, k, v) => torn' = torn
      BY DEF FetchFails, NewPageFails
    <3>3. \A p, k, v : InsertInPlace(p, k, v) => (torn => torn')
      BY DEF InsertInPlace
    <3>4. ASSUME NEW p, NEW q, NEW k, NEW v, SplitFails(p, q, k, v) \/ SiblingFails(p, q, k, v)
          PROVE  torn'
      <4>1. CASE SplitFails(p, q, k, v)
        BY <4>1 DEF SplitFails
      <4>2. CASE SiblingFails(p, q, k, v)
        BY <4>2 DEF SiblingFails
      <4>3. QED BY <3>4, <4>1, <4>2
    <3>5. \A p, q, k, v : InsertSplitting(p, q, k, v) => torn' = torn
      BY DEF InsertSplitting
    <3>6. Install \/ ReloadRoot => torn' = torn
      BY DEF Install, ReloadRoot
    <3>7. \A p : Evict(p) => torn' = torn
      BY DEF Evict
    <3>8. UNCHANGED vars => torn' = torn
      BY DEF vars
    <3>9. QED BY <1>3, <3>1, <3>2, <3>3, <3>4, <3>5, <3>6, <3>7, <3>8 DEF Next
  <2>2. Intact
    BY <2>1 DEF TreeInv
  <2>3. ASSUME NEW p \in Pages, NEW k \in Keys, Delete(p, k)
        PROVE  Intact' /\ Map!Next
    <3>1. Intact' /\ Map!Delete(k)
      BY <1>1, <2>2, <2>3, DeleteStep
    <3>2. QED BY <3>1 DEF Map!Next
  <2>4. ASSUME NEW p \in Pages, NEW k \in Keys, NEW v \in Payloads,
               FetchFails(p, k, v) \/ InsertInPlace(p, k, v) \/ NewPageFails(p, k, v)
        PROVE  Intact' /\ Map!Next
    <3>1. Intact' /\ Map!Insert(k, v)
      BY <1>1, <1>3, <2>2, <2>4, FetchFailsStep, InsertInPlaceStep, NewPageFailsStep
    <3>2. QED BY <3>1 DEF Map!Next
  <2>5. ASSUME NEW p \in Pages, NEW q \in Pages, NEW k \in Keys, NEW v \in Payloads,
               SplitFails(p, q, k, v) \/ SiblingFails(p, q, k, v)
        PROVE  FALSE
    BY <1>3, <2>5 DEF SplitFails, SiblingFails
  <2>6. ASSUME NEW p \in Pages, NEW q \in Pages, NEW k \in Keys, NEW v \in Payloads,
               InsertSplitting(p, q, k, v)
        PROVE  Intact' /\ Map!Next
    <3>1. Intact' /\ Map!Insert(k, v)
      BY <1>1, <2>2, <2>6, InsertSplittingStep
    <3>2. QED BY <3>1 DEF Map!Next
  <2>7. CASE Install
    BY <1>1, <2>2, <2>7, InstallStep DEF Install
  <2>8. CASE ReloadRoot
    BY <1>1, <2>2, <2>8, ReloadRootStep DEF ReloadRoot
  <2>9. ASSUME NEW p \in Pages, Evict(p)
        PROVE  Intact' /\ last' = last /\ Rows' = Rows
    BY <1>1, <2>2, <2>9, EvictStep DEF Evict
  <2>10. CASE UNCHANGED vars
    BY <2>2, <2>10, SameTree DEF vars
  <2>11. QED BY <2>3, <2>4, <2>5, <2>6, <2>7, <2>8, <2>9, <2>10 DEF Next
<1>4. QED BY <1>1, <1>2, <1>3 DEF TreeShape

(* The invariant holds in every behaviour.                                 *)
LEMMA TreeInvariant == Spec => []TreeInv
<1>1. Init => TreeInv
  BY ShapeInit, IntactInit DEF TreeInv
<1>2. TreeInv /\ [Next]_vars => TreeInv'
  BY TreeStep
<1>3. QED BY <1>1, <1>2, PTL DEF Spec

-----------------------------------------------------------------------------
(* The scan along the siblings: one leaf further, or the end.              *)
Further(w) ==
  IF \/ Held(w[Len(w)]) = NoNode
     \/ Held(w[Len(w)]).next = NoSibling
     \/ Contains(w, Held(w[Len(w)]).next)
  THEN w ELSE Append(w, Held(w[Len(w)]).next)

(* A way of the scan is the value of its recursion.                        *)
LEMMA ChainWalked ==
  ASSUME NEW M \in Nat \ {0}, M = MaxPage, NEW g, g = [n \in 1 .. M |-> g[n]], g[1] = <<FirstLeaf>>,
         \A n \in 2 .. M : g[n] = Further(g[n - 1])
  PROVE  Chain = g[M]
<1> DEFINE Step(f) == [n \in 1 .. M |-> IF n = 1 THEN <<FirstLeaf>> ELSE Further(f[n - 1])]
           d == CHOOSE f : f = Step(f)
<1>1. Chain = d[M]
  BY DEF Chain, Further
<1>2. g = Step(g)
  <2>1. ASSUME NEW n \in 1 .. M PROVE g[n] = IF n = 1 THEN <<FirstLeaf>> ELSE Further(g[n - 1])
    <3>1. n = 1 \/ n \in 2 .. M
      OBVIOUS
    <3>2. n \in 2 .. M => n # 1
      OBVIOUS
    <3>3. QED BY <3>1, <3>2
  <2>2. QED BY <2>1
<1>3. d = Step(d)
  <2>1. \E f : f = Step(f)
    BY <1>2
  <2> HIDE DEF Step
  <2>2. QED BY <2>1
<1> HIDE DEF d
<1>4. d[1] = <<FirstLeaf>> /\ \A n \in 2 .. M : d[n] = Further(d[n - 1])
  <2>1. \A n \in 1 .. M : d[n] = IF n = 1 THEN <<FirstLeaf>> ELSE Further(d[n - 1])
    BY <1>3
  <2>2. 1 \in 1 .. M /\ \A n \in 2 .. M : n \in 1 .. M /\ n # 1
    OBVIOUS
  <2>3. QED BY <2>1, <2>2
<1> DEFINE T == {n \in 0 .. M : n = 0 \/ d[n] = g[n]}
<1>5. \A n \in 1 .. M : n - 1 \in T => n \in T
  <2> SUFFICES ASSUME NEW n \in 1 .. M, n - 1 = 0 \/ d[n - 1] = g[n - 1]
               PROVE  d[n] = g[n]
    OBVIOUS
  <2>1. CASE n = 1
    BY <1>4, <2>1
  <2>2. CASE n # 1
    <3>1. n \in 2 .. M /\ n - 1 # 0
      BY <2>2
    <3>2. QED BY <1>4, <3>1
  <2>3. QED BY <2>1, <2>2
<1>6. M \in T
  <2>1. T \in SUBSET (0 .. M) /\ 0 \in T
    OBVIOUS
  <2> HIDE DEF T
  <2>2. QED BY <1>5, <2>1, Loop
<1>7. QED BY <1>1, <1>6

(* The children of the root from the first to the n-th.                    *)
Path(w, n) == [i \in 1 .. n |-> Child(w, i)]

(* The scan goes from one child of the root to the next.                   *)
LEMMA PathFurther ==
  ASSUME TreeShape, Intact, NEW N \in Nat, N = Len(Whole.slots), NEW n \in 1 .. N + 1
  PROVE  Further(Path(Whole, n)) = IF n <= N THEN Path(Whole, n + 1) ELSE Path(Whole, n)
<1>1. PICK c : c = [i \in 1 .. N + 1 |-> Child(Whole, i)]
  OBVIOUS
<1>2. PICK w : w = Path(Whole, n)
  OBVIOUS
<1>3. w = [i \in 1 .. n |-> c[i]]
  <2>1. \A i \in 1 .. n : i \in 1 .. N + 1 /\ c[i] = Child(Whole, i)
    BY <1>1
  <2>2. QED BY <1>2, <2>1 DEF Path
<1>4. /\ \A i \in 1 .. N + 1 : c[i] \in 1 .. N + 1 /\ Held(c[i]) # NoNode
      /\ Held(c[n]).next = IF n = N + 1 THEN NoSibling ELSE c[n + 1]
      /\ \A i, j \in 1 .. N + 1 : c[i] = c[j] => i = j
  <2>1. Links(Forest, Whole, next_free)
    BY DEF Intact
  <2>2. N + 1 = next_free - 1
    BY IntactPages
  <2>3. \A i \in 1 .. N + 1 :
          c[i] \in 1 .. N + 1 /\ Held(c[i]) # NoNode /\ Forest[c[i]] = Held(c[i])
    <3>1. \A i \in 1 .. N + 1 : c[i] \in 1 .. N + 1
      BY <1>1, <2>1 DEF Links
    <3>2. QED BY <2>2, <3>1, IntactPages
  <2>4. Forest[c[n]].next = After(Whole, n)
    BY <1>1, <2>1 DEF Links
  <2>5. After(Whole, n) = IF n = N + 1 THEN NoSibling ELSE c[n + 1]
    <3>1. n # N + 1 => n + 1 \in 1 .. N + 1
      OBVIOUS
    <3>2. QED BY <1>1, <3>1 DEF After
  <2>6. \A i, j \in 1 .. N + 1 : c[i] = c[j] => i = j
    BY <1>1, <2>1 DEF Links, Distinct
  <2>7. QED BY <2>3, <2>4, <2>5, <2>6
<1>5. w \in Seq(1 .. N + 1) /\ Len(w) = n /\ w[Len(w)] = c[n]
  BY <1>3, <1>4
<1>6. CASE n = N + 1
  <2>1. Further(w) = w
    BY <1>4, <1>5, <1>6 DEF Further
  <2>2. ~ (n <= N)
    BY <1>6
  <2>3. QED BY <1>2, <2>1, <2>2
<1>7. CASE n # N + 1
  <2>1. n <= N /\ n + 1 \in 1 .. N + 1
    BY <1>7
  <2>2. Held(c[n]).next = c[n + 1] /\ c[n + 1] \in 1 .. N + 1
    BY <1>4, <1>7, <2>1
  <2>3. c[n + 1] # NoSibling
    BY <2>2 DEF NoSibling
  <2>4. ~ Contains(w, c[n + 1])
    <3>1. ASSUME NEW i \in 1 .. n, w[i] = c[n + 1] PROVE FALSE
      <4>1. i \in 1 .. N + 1 /\ w[i] = c[i] /\ i # n + 1
        BY <1>3
      <4>2. QED BY <1>4, <2>1, <3>1, <4>1
    <3>2. QED BY <1>5, <3>1 DEF Contains
  <2>5. Held(c[n]) # NoNode
    BY <1>4
  <2>6. Further(w) = Append(w, c[n + 1])
    BY <1>5, <2>2, <2>3, <2>4, <2>5 DEF Further
  <2>7. Append(w, c[n + 1]) = Path(Whole, n + 1)
    <3>1. Path(Whole, n + 1) = [i \in 1 .. n + 1 |-> c[i]]
      <4>1. \A i \in 1 .. n + 1 : i \in 1 .. N + 1 /\ c[i] = Child(Whole, i)
        BY <1>1, <2>1
      <4>2. QED BY <4>1 DEF Path
    <3>2. QED BY <1>3, <1>5, <2>2, <3>1
  <2>8. QED BY <1>2, <2>1, <2>6, <2>7
<1>8. QED BY <1>6, <1>7

(* The scan meets the children of the root, from left to right.            *)
LEMMA ChainIs ==
  ASSUME TreeShape, Intact
  PROVE  /\ Chain = Path(Whole, Len(Whole.slots) + 1)
         /\ ToSet(Chain) = 1 .. next_free - 1
<1>1. PICK N \in Nat : N = Len(Whole.slots)
  BY WholeShape
<1>2. PICK M \in Nat \ {0} : M = MaxPage
  BY TreeAssumption
<1>3. N + 1 <= M /\ N + 1 = next_free - 1
  <2>1. N + 1 = next_free - 1
    BY <1>1, IntactPages
  <2>2. next_free \in 2 .. M + 1
    BY <1>2 DEF TreeShape
  <2>3. QED BY <2>1, <2>2
<1>4. Links(Forest, Whole, next_free)
  BY DEF Intact
<1> DEFINE g == [n \in 1 .. M |-> IF n <= N + 1 THEN Path(Whole, n) ELSE Path(Whole, N + 1)]
<1>5. g[1] = <<FirstLeaf>>
  <2>1. g[1] = Path(Whole, 1)
    OBVIOUS
  <2>2. Path(Whole, 1) = [i \in 1 .. 1 |-> Child(Whole, i)]
    BY DEF Path
  <2>3. Child(Whole, 1) = FirstLeaf
    BY <1>4 DEF Links
  <2>4. \A i \in 1 .. 1 : i = 1
    OBVIOUS
  <2>5. Path(Whole, 1) = [i \in 1 .. 1 |-> FirstLeaf]
    BY <2>2, <2>3, <2>4
  <2>6. QED BY <2>1, <2>5
<1>6. ASSUME NEW n \in 2 .. M PROVE g[n] = Further(g[n - 1])
  <2>1. n \in 1 .. M /\ n - 1 \in 1 .. M
    OBVIOUS
  <2>2. CASE n <= N + 1
    <3>1. n - 1 \in 1 .. N + 1 /\ n - 1 <= N /\ (n - 1) + 1 = n
      BY <2>2
    <3>2. g[n] = Path(Whole, n) /\ g[n - 1] = Path(Whole, n - 1)
      BY <2>1, <2>2, <3>1
    <3>3. Further(Path(Whole, n - 1)) = Path(Whole, n)
      BY <1>1, <3>1, PathFurther
    <3>4. QED BY <3>2, <3>3
  <2>3. CASE ~ (n <= N + 1)
    <3>1. g[n] = Path(Whole, N + 1)
      BY <2>1, <2>3
    <3>2. g[n - 1] = Path(Whole, N + 1)
      <4>1. n - 1 = N + 1 \/ ~ (n - 1 <= N + 1)
        BY <2>3
      <4>2. QED BY <2>1, <4>1
    <3>3. Further(Path(Whole, N + 1)) = Path(Whole, N + 1)
      <4>1. N + 1 \in 1 .. N + 1 /\ ~ (N + 1 <= N)
        OBVIOUS
      <4>2. QED BY <1>1, <4>1, PathFurther
    <3>4. QED BY <3>1, <3>2, <3>3
  <2>4. QED BY <2>2, <2>3
<1>7. g[M] = Path(Whole, N + 1)
  <2>1. M <= N + 1 => M = N + 1
    BY <1>3
  <2>2. QED BY <2>1
<1>8. Chain = Path(Whole, N + 1)
  <2>1. g = [n \in 1 .. M |-> g[n]]
    OBVIOUS
  <2> HIDE DEF g
  <2>2. Chain = g[M]
    BY <1>2, <1>5, <1>6, <2>1, ChainWalked
  <2>3. QED BY <1>7, <2>2
<1>9. ToSet(Chain) = 1 .. N + 1
  <2>1. ToSet(Chain) = {Child(Whole, i) : i \in 1 .. N + 1}
    <3>1. PICK c : c = Path(Whole, N + 1)
      OBVIOUS
    <3>2. DOMAIN c = 1 .. N + 1 /\ \A i \in 1 .. N + 1 : c[i] = Child(Whole, i)
      BY <3>1 DEF Path
    <3>3. QED BY <1>8, <3>1, <3>2 DEF ToSet
  <2>2. /\ \A i \in 1 .. N + 1 : Child(Whole, i) \in 1 .. N + 1
        /\ \A p \in 1 .. N + 1 : \E i \in 1 .. N + 1 : Child(Whole, i) = p
    BY <1>1, <1>4 DEF Links
  <2>3. QED BY <2>1, <2>2
<1>10. QED BY <1>1, <1>3, <1>8, <1>9

-----------------------------------------------------------------------------
(* A key is routed to a child of the root at one place.                    *)
LEMMA RoutedAt ==
  ASSUME NEW w, RootShape(w), Distinct(w), NEW k \in Nat, NEW i \in 1 .. Len(w.slots) + 1,
         RouteKey(w, k) = Child(w, i)
  PROVE  RoutesAt(w, k, i)
<1>1. PICK j : RoutesAt(w, k, j) /\ RouteKey(w, k) = Child(w, j)
  BY RouteExists
<1>2. j \in 1 .. Len(w.slots) + 1
  BY <1>1 DEF RoutesAt
<1>3. j = i
  BY <1>1, <1>2 DEF Distinct
<1>4. QED BY <1>1, <1>3

(* A row is in the leaf that the root routes its key to.                   *)
LEMMA RowsRouted ==
  ASSUME TreeShape, Intact, NEW p \in 1 .. next_free - 1, NEW k \in Keys, RowIn(p, k) # NoRow
  PROVE  RouteKey(Whole, k) = p
<1>1. /\ Held(p) # NoNode /\ Forest[p] = Held(p) /\ p \in Pages
      /\ Len(Whole.slots) + 1 = next_free - 1
  BY IntactPages
<1>2. Ordered(Held(p).leaf)
  BY <1>1, HeldFacts
<1>3. GetRecord(Held(p).leaf, k) # NoRow
  BY <1>1 DEF RowIn
<1>4. k \in KeysOf(Forest[p].leaf)
  BY <1>1, <1>2, <1>3, KeysOfLeaf
<1>5. QED BY <1>1, <1>4 DEF Intact, Routed

(* The leaves in the order of the keys.                                    *)
LEMMA InOrder == TreeInv => ChainInOrder
<1> SUFFICES ASSUME TreeShape, Intact
             PROVE  /\ ToSet(Chain) = 1 .. next_free - 1
                    /\ \A p \in ToSet(Chain) : Held(p) # NoNode
                    /\ \A i \in 1 .. Len(Chain) :
                         Held(Chain[i]).prev = IF i = 1 THEN NoSibling ELSE Chain[i - 1]
                    /\ \A i \in 2 .. Len(Chain) :
                         \A a \in 1 .. Len(Held(Chain[i - 1]).leaf.slots),
                            b \in 1 .. Len(Held(Chain[i]).leaf.slots) :
                           Key(Held(Chain[i - 1]).leaf, a) < Key(Held(Chain[i]).leaf, b)
  BY DEF TreeInv, ChainInOrder
<1>1. PICK N \in Nat : N = Len(Whole.slots)
  BY WholeShape
<1>2. PICK c : c = Chain
  OBVIOUS
<1>3. c = Path(Whole, N + 1) /\ ToSet(c) = 1 .. next_free - 1
  BY <1>1, <1>2, ChainIs
<1>4. Len(c) = N + 1 /\ \A i \in 1 .. N + 1 : c[i] = Child(Whole, i)
  <2>1. c = [i \in 1 .. N + 1 |-> Child(Whole, i)]
    BY <1>3 DEF Path
  <2>2. N + 1 \in Nat
    OBVIOUS
  <2>3. QED BY <2>1, <2>2
<1>5. Links(Forest, Whole, next_free) /\ Routed(Forest, Whole)
  BY DEF Intact
<1>6. N + 1 = next_free - 1
  BY <1>1, IntactPages
<1>7. \A i \in 1 .. N + 1 :
        /\ c[i] \in 1 .. N + 1 /\ c[i] \in Pages
        /\ Held(c[i]) # NoNode /\ Forest[c[i]] = Held(c[i])
  <2>1. \A i \in 1 .. N + 1 : c[i] \in 1 .. N + 1
    BY <1>1, <1>4, <1>5 DEF Links
  <2>2. QED BY <1>6, <2>1, IntactPages
<1>8. \A p \in ToSet(c) : Held(p) # NoNode
  BY <1>3, IntactPages
<1>9. ASSUME NEW i \in 1 .. N + 1
      PROVE  Held(c[i]).prev = IF i = 1 THEN NoSibling ELSE c[i - 1]
  <2>1. Held(c[i]).prev = Before(Whole, i)
    BY <1>1, <1>4, <1>5, <1>7 DEF Links
  <2>2. i # 1 => i - 1 \in 1 .. N + 1
    OBVIOUS
  <2>3. QED BY <1>4, <2>1, <2>2 DEF Before
<1>10. ASSUME NEW i \in 1 .. N + 1, NEW n, n = Held(c[i]).leaf, NEW a \in 1 .. Len(n.slots)
       PROVE  Key(n, a) \in Nat /\ RoutesAt(Whole, Key(n, a), i)
  <2>1. Ordered(n)
    BY <1>7, <1>10, HeldFacts
  <2>2. Key(n, a) \in KeysOf(n) /\ KeysOf(n) \subseteq Keys
    BY <2>1, KeysOfLeaf
  <2>3. Key(n, a) \in Nat
    BY <2>2, LeafConstants
  <2>4. RouteKey(Whole, Key(n, a)) = Child(Whole, i)
    <3>1. Forest[c[i]].leaf = n
      BY <1>7, <1>10
    <3>2. RouteKey(Whole, Key(n, a)) = c[i]
      BY <1>1, <1>5, <1>7, <2>2, <3>1 DEF Routed
    <3>3. QED BY <1>4, <3>2
  <2>5. RootShape(Whole) /\ Distinct(Whole)
    BY <1>5, WholeShape DEF Links
  <2>6. QED BY <1>1, <2>3, <2>4, <2>5, RoutedAt
<1>11. ASSUME NEW i \in 2 .. N + 1, NEW l, NEW r,
              l = Held(c[i - 1]).leaf, r = Held(c[i]).leaf,
              NEW a \in 1 .. Len(l.slots), NEW b \in 1 .. Len(r.slots)
       PROVE  Key(l, a) < Key(r, b)
  <2>1. i \in 1 .. N + 1 /\ i - 1 \in 1 .. N + 1 /\ i - 1 \in 1 .. N /\ i - 1 <= N /\ i - 1 < i
    OBVIOUS
  <2>2. Key(l, a) \in Nat /\ RoutesAt(Whole, Key(l, a), i - 1)
    BY <1>10, <1>11, <2>1
  <2>3. Key(r, b) \in Nat /\ RoutesAt(Whole, Key(r, b), i)
    BY <1>10, <1>11, <2>1
  <2>4. EntryKey(Whole, i - 1) \in Nat
    BY <1>1, <2>1, WholeShape, RootFacts
  <2>5. Key(l, a) < EntryKey(Whole, i - 1)
    BY <1>1, <2>1, <2>2 DEF RoutesAt
  <2>6. EntryKey(Whole, i - 1) <= Key(r, b)
    BY <1>1, <2>1, <2>3 DEF RoutesAt
  <2>7. QED BY <2>2, <2>3, <2>4, <2>5, <2>6
<1>12. /\ \A i \in 1 .. Len(c) : Held(c[i]).prev = IF i = 1 THEN NoSibling ELSE c[i - 1]
       /\ \A i \in 2 .. Len(c) :
            \A a \in 1 .. Len(Held(c[i - 1]).leaf.slots), b \in 1 .. Len(Held(c[i]).leaf.slots) :
              Key(Held(c[i - 1]).leaf, a) < Key(Held(c[i]).leaf, b)
  BY <1>4, <1>9, <1>11
<1>13. QED BY <1>2, <1>3, <1>8, <1>12

(* The right page of a split that is not installed is no child of the      *)
(* root yet.                                                               *)
LEMMA RightUnknown ==
  ASSUME TreeShape, Intact, pending # Installed
  PROVE  /\ pending.left # pending.right
         /\ pending.left \in 1 .. next_free - 1
         /\ \A k \in Keys : RouteKey(root, k) # pending.right
<1>1. PICK s \in Split3 : s = pending
  BY DEF TreeShape
<1>2. PICK w : w = Whole
  OBVIOUS
<1>3. RootShape(root) /\ w = InstallEntry(root, s) /\ RouteKey(root, s.promoted) = s.left
  BY <1>1, <1>2 DEF TreeShape, Whole, Intact
<1>4. s.promoted \in Nat
  BY LeafConstants DEF Split3
<1>5. PICK i : RoutesAt(root, s.promoted, i) /\ RouteKey(root, s.promoted) = Child(root, i)
  BY <1>3, <1>4, RouteExists
<1>6. Widened(root, s, i, w)
  BY <1>3, <1>5, InstallProperties
<1>7. PICK N \in Nat : N = Len(root.slots)
  BY <1>3, RootFacts
<1>8. i \in 1 .. N + 1 /\ Child(root, i) = s.left /\ Len(w.slots) = N + 1
  BY <1>3, <1>5, <1>6, <1>7 DEF RoutesAt, Widened
<1>9. \A a, b \in 1 .. N + 2 : Child(w, a) = Child(w, b) => a = b
  <2>1. Distinct(w)
    BY <1>2 DEF Intact, Links
  <2>2. (N + 1) + 1 = N + 2
    OBVIOUS
  <2>3. QED BY <1>8, <2>1, <2>2 DEF Distinct
<1>10. /\ \A j \in 1 .. N + 1 : j < i => Child(w, j) = Child(root, j)
       /\ Child(w, i) = s.left /\ Child(w, i + 1) = s.right
       /\ \A j \in 1 .. N + 1 : i < j => Child(w, j + 1) = Child(root, j)
  BY <1>6, <1>7 DEF Widened
<1>11. \A j \in 1 .. N + 1 : j \in 1 .. N + 2 /\ j + 1 \in 1 .. N + 2
  OBVIOUS
<1>12. s.left # s.right
  <2>1. i # i + 1
    BY <1>8
  <2>2. QED BY <1>8, <1>9, <1>10, <1>11, <2>1
<1>13. s.left \in 1 .. next_free - 1
  <2>1. Links(Forest, w, next_free)
    BY <1>2 DEF Intact
  <2>2. i \in 1 .. Len(w.slots) + 1
    BY <1>8
  <2>3. Child(w, i) \in 1 .. Len(w.slots) + 1
    BY <2>1, <2>2 DEF Links
  <2>4. Len(w.slots) + 1 = next_free - 1
    BY <1>2, IntactPages
  <2>5. QED BY <1>10, <2>3, <2>4
<1>14. ASSUME NEW k \in Keys, RouteKey(root, k) = s.right PROVE FALSE
  <2>1. PICK j : RoutesAt(root, k, j) /\ RouteKey(root, k) = Child(root, j)
    BY <1>3, LeafConstants, RouteExists
  <2>2. j \in 1 .. N + 1 /\ Child(root, j) = s.right
    BY <1>7, <1>14, <2>1 DEF RoutesAt
  <2>3. CASE j < i
    <3>1. Child(w, j) = s.right /\ j # i + 1
      BY <1>8, <1>10, <2>2, <2>3
    <3>2. QED BY <1>8, <1>9, <1>10, <1>11, <2>2, <3>1
  <2>4. CASE j = i
    BY <1>8, <1>12, <2>2, <2>4
  <2>5. CASE i < j
    <3>1. Child(w, j + 1) = s.right /\ j + 1 # i + 1
      BY <1>8, <1>10, <2>2, <2>5
    <3>2. QED BY <1>8, <1>9, <1>10, <1>11, <2>2, <3>1
  <2>6. QED BY <1>8, <2>2, <2>3, <2>4, <2>5
<1>15. QED BY <1>1, <1>12, <1>13, <1>14

(* find_record sees what the scan sees.                                    *)
LEMMA FindAgrees == TreeInv => FindAgreesWithScan
<1> SUFFICES ASSUME TreeShape, Intact, NEW p \in ToSet(Chain), NEW k \in Keys, RowIn(p, k) # NoRow
             PROVE  IF pending # Installed /\ p = pending.right
                    THEN FindRecord(k) = NoRow
                    ELSE LeafOf(k) = p
  BY DEF TreeInv, FindAgreesWithScan
<1>1. p \in 1 .. next_free - 1
  BY ChainIs
<1>2. RouteKey(Whole, k) = p
  BY <1>1, RowsRouted
<1>3. CASE pending = Installed
  BY <1>2, <1>3 DEF Whole, LeafOf
<1>4. CASE pending # Installed
  <2>1. PICK s \in Split3 : s = pending
    BY <1>4 DEF TreeShape
  <2>2. Whole = InstallEntry(root, s)
    BY <1>4, <2>1 DEF Whole
  <2>3. /\ RootShape(root) /\ RouteKey(root, s.promoted) = s.left
        /\ \A a, b \in 1 .. Len(root.slots) + 1 : Child(root, a) = Child(root, b) => a = b
    BY <1>4, <2>1 DEF TreeShape, Intact, Distinct
  <2>4. p = IF RouteKey(root, k) = s.left /\ k >= s.promoted THEN s.right ELSE RouteKey(root, k)
    BY <1>2, <2>2, <2>3, LeafConstants, RouteInstalled
  <2>5. s.left # s.right /\ s.left \in 1 .. next_free - 1 /\ RouteKey(root, k) # s.right
    BY <1>4, <2>1, RightUnknown
  <2>6. CASE p = s.right
    <3>1. LeafOf(k) = s.left
      BY <2>4, <2>5, <2>6 DEF LeafOf
    <3>2. RowIn(s.left, k) = NoRow
      BY <1>2, <2>5, <2>6, RowsRouted
    <3>3. FindRecord(k) = NoRow
      BY <3>1, <3>2 DEF FindRecord
    <3>4. QED BY <1>4, <2>1, <2>6, <3>3
  <2>7. CASE p # s.right
    BY <2>1, <2>4, <2>7 DEF LeafOf
  <2>8. QED BY <2>6, <2>7
<1>5. QED BY <1>3, <1>4

-----------------------------------------------------------------------------
(* Type correctness: every page of the pool and of the file holds a leaf,  *)
(* the root routes to pages, and a call answers with one of its results.   *)
THEOREM TreeTypeCorrect == Spec => []TypeOK
<1>1. ASSUME TreeShape PROVE TypeOK
  <2>1. /\ cache \in [Pages -> Leaf \cup {NoNode}] /\ disk \in [Pages -> Leaf \cup {NoNode}]
        /\ next_free \in 2 .. MaxPage + 1 /\ torn \in BOOLEAN
        /\ RootShape(root)
        /\ pending = Installed \/ pending \in Split3
        /\ last \in Calls
    BY <1>1 DEF TreeShape, Sound
  <2>2. root.entries \in Seq([key : Keys, child : Pages]) /\ root.rightmost \in Pages
    BY <2>1 DEF RootShape, Entry
  <2>3. root.slots \in Seq(1 .. Len(root.entries))
    <3>1. PICK s \in Seq(Nat) : s = root.slots
      BY <2>1 DEF RootShape
    <3>2. Len(s) = Len(root.entries) /\ \A i \in 1 .. Len(s) : s[i] \in 1 .. Len(s)
      BY <2>1, <3>1 DEF RootShape
    <3>3. s \in Seq(1 .. Len(s))
      BY <3>2
    <3>4. QED BY <3>1, <3>2, <3>3
  <2>4. QED BY <2>1, <2>2, <2>3 DEF TypeOK, Split3, Calls
<1>2. TreeShape => TypeOK
  BY <1>1
<1>3. QED BY <1>2, TreeShaped, PTL

(* Until an insert_leaf fails half way, the leaves form one doubly linked  *)
(* list in the order of the keys, and every allocated page is on it        *)
(* (BpTree::insert_leaf, split and the sibling links it sets).             *)
THEOREM LeavesStayInOrder == Spec => []ChainInOrder
BY InOrder, TreeInvariant, PTL

(* Until then, find_record and a scan along the leaves see the same rows,  *)
(* but for those in the right page of a split that the caller has not      *)
(* installed, which find_record misses (BpTree::find_record).              *)
THEOREM FindSeesTheScan == Spec => []FindAgreesWithScan
BY FindAgrees, TreeInvariant, PTL

(* Until then, the tree is a map: a call changes the row it names as it    *)
(* answers, an error changes none, and neither do an eviction, the entry   *)
(* of a split and a reload of the root.                                    *)
THEOREM TreeIsARowMap == Spec => ImplementsRowMap
<1>1. Init => Map!Init
  BY IntactInit
<1>2. TreeInv /\ [Next]_vars => MapStep
  BY TreeStep
<1>3. MapStep => [torn' \/ Map!Next]_<<last, Rows>>
  BY DEF MapStep
<1>4. QED BY <1>1, <1>2, <1>3, TreeInvariant, PTL DEF Spec, ImplementsRowMap
=============================================================================
