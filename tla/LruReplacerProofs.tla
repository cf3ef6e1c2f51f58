------------------------- MODULE LruReplacerProofs --------------------------
(***************************************************************************)
(* The arena list of LruReplacer stays well formed, and implements the     *)
(* recency order of LruOrder, for every set of pages and every capacity.   *)
(***************************************************************************)
EXTENDS LruReplacer, RecencyOrder, SequenceTheorems, FiniteSetTheorems,
        WellFoundedInduction, TLAPS

(* What the operators of RecencyOrder do to the pages a recency order      *)
(* tracks, each of them once.                                              *)
TrackedOnce(s) == \A i, j \in 1 .. Len(s) : s[i] = s[j] => i = j

-----------------------------------------------------------------------------
(* The places of s without place i: those in front of it stay, those       *)
(* behind it move up.                                                      *)
LEMMA DropAtPlaces ==
  ASSUME NEW S, NEW s \in Seq(S), NEW i \in 1 .. Len(s)
  PROVE  /\ DropAt(s, i) \in Seq(S)
         /\ Len(DropAt(s, i)) = Len(s) - 1
         /\ \A j \in 1 .. Len(s) - 1 :
              /\ j < i => DropAt(s, i)[j] = s[j]
              /\ j >= i => DropAt(s, i)[j] = s[j + 1]
<1> DEFINE a == SubSeq(s, 1, i - 1)
           b == SubSeq(s, i + 1, Len(s))
<1>0. Len(s) \in Nat
  BY LenProperties
<1>1. \A j \in 1 .. Len(s) : s[j] \in S
  BY ElementOfSeq
<1>2. /\ a \in Seq(S)
      /\ Len(a) = i - 1
      /\ \A j \in 1 .. i - 1 : a[j] = s[j]
  <2>1. \A j \in 1 .. i - 1 : s[j] \in S
    BY <1>0, <1>1
  <2>2. /\ a \in Seq(S)
        /\ Len(a) = IF 1 <= i - 1 THEN i - 1 - 1 + 1 ELSE 0
        /\ \A j \in 1 .. i - 1 - 1 + 1 : a[j] = s[1 + j - 1]
    BY <2>1, SubSeqProperties
  <2> HIDE DEF a
  <2>3. QED BY <1>0, <2>2
<1>3. /\ b \in Seq(S)
      /\ Len(b) = Len(s) - i
      /\ \A j \in 1 .. Len(s) - i : b[j] = s[i + j]
  <2>1. \A j \in i + 1 .. Len(s) : s[j] \in S
    BY <1>0, <1>1
  <2>2. /\ b \in Seq(S)
        /\ Len(b) = IF i + 1 <= Len(s) THEN Len(s) - (i + 1) + 1 ELSE 0
        /\ \A j \in 1 .. Len(s) - (i + 1) + 1 : b[j] = s[i + 1 + j - 1]
    BY <1>0, <2>1, SubSeqProperties
  <2> HIDE DEF b
  <2>3. \A j \in 1 .. Len(s) - i : i + 1 + j - 1 = i + j
    BY <1>0
  <2>4. QED BY <1>0, <2>2, <2>3
<1>4. DropAt(s, i) = a \o b
  BY DEF DropAt
<1> HIDE DEF a, b
<1>5. /\ a \o b \in Seq(S)
      /\ Len(a \o b) = Len(a) + Len(b)
      /\ \A j \in 1 .. Len(a) + Len(b) :
           (a \o b)[j] = IF j <= Len(a) THEN a[j] ELSE b[j - Len(a)]
  BY <1>2, <1>3, ConcatProperties
<1>6. ASSUME NEW j \in 1 .. Len(s) - 1
      PROVE  /\ j < i => (a \o b)[j] = s[j]
             /\ j >= i => (a \o b)[j] = s[j + 1]
  <2>1. j < i => (a \o b)[j] = a[j]
    BY <1>0, <1>2, <1>3, <1>5
  <2>2. j >= i => (a \o b)[j] = b[j - (i - 1)]
    BY <1>0, <1>2, <1>3, <1>5
  <2>3. j >= i => j - (i - 1) \in 1 .. Len(s) - i /\ i + (j - (i - 1)) = j + 1
    BY <1>0
  <2>4. j >= i => b[j - (i - 1)] = s[j + 1]
    <3>1. j >= i => b[j - (i - 1)] = s[i + (j - (i - 1))]
      BY <1>3, <2>3
    <3>2. QED BY <2>3, <3>1
  <2>5. j < i => a[j] = s[j]
    BY <1>0, <1>2
  <2>6. QED BY <2>1, <2>2, <2>4, <2>5
<1>7. QED BY <1>0, <1>2, <1>3, <1>4, <1>5, <1>6

(* remove forgets the page, and only that page. *)
LEMMA DropProperties ==
  ASSUME NEW S, NEW s \in Seq(S), NEW p, TrackedOnce(s)
  PROVE  /\ Drop(s, p) \in Seq(S)
         /\ TrackedOnce(Drop(s, p))
         /\ Tracked(Drop(s, p)) = Tracked(s) \ {p}
<1>1. CASE p \notin Tracked(s)
  BY <1>1 DEF Drop
<1>2. CASE p \in Tracked(s)
  <2> DEFINE i == CHOOSE i \in 1 .. Len(s) : s[i] = p
             d == DropAt(s, i)
  <2>0. Len(s) \in Nat
    BY LenProperties
  <2>1. i \in 1 .. Len(s) /\ s[i] = p
    BY <1>2 DEF Tracked
  <2>2. Drop(s, p) = d
    BY <1>2 DEF Drop
  <2> HIDE DEF i
  <2>3. /\ d \in Seq(S)
        /\ Len(d) = Len(s) - 1
        /\ \A j \in 1 .. Len(s) - 1 :
             /\ j < i => d[j] = s[j]
             /\ j >= i => d[j] = s[j + 1]
    BY <2>1, DropAtPlaces
  <2> HIDE DEF d
  <2>4. TrackedOnce(d)
    <3> SUFFICES ASSUME NEW j \in 1 .. Len(d), NEW k \in 1 .. Len(d), d[j] = d[k]
                 PROVE  j = k
      BY DEF TrackedOnce
    <3>1. \E x \in {j, j + 1} : x \in 1 .. Len(s) /\ d[j] = s[x] /\ (x = j <=> j < i)
      BY <2>0, <2>1, <2>3
    <3>2. \E y \in {k, k + 1} : y \in 1 .. Len(s) /\ d[k] = s[y] /\ (y = k <=> k < i)
      BY <2>0, <2>1, <2>3
    <3>3. PICK x \in {j, j + 1} : x \in 1 .. Len(s) /\ d[j] = s[x] /\ (x = j <=> j < i)
      BY <3>1
    <3>4. PICK y \in {k, k + 1} : y \in 1 .. Len(s) /\ d[k] = s[y] /\ (y = k <=> k < i)
      BY <3>2
    <3>5. x = y
      BY <3>3, <3>4 DEF TrackedOnce
    <3>6. QED BY <2>0, <2>1, <2>3, <3>3, <3>4, <3>5
  <2>5. Tracked(d) = Tracked(s) \ {p}
    <3>1. ASSUME NEW q \in Tracked(d) PROVE q \in Tracked(s) \ {p}
      <4>1. PICK j \in 1 .. Len(d) : q = d[j]
        BY DEF Tracked
      <4>2. \E x \in {j, j + 1} : x \in 1 .. Len(s) /\ d[j] = s[x] /\ x # i
        BY <2>0, <2>1, <2>3
      <4>3. QED BY <2>1, <4>1, <4>2 DEF Tracked, TrackedOnce
    <3>2. ASSUME NEW q \in Tracked(s), q # p PROVE q \in Tracked(d)
      <4>1. PICK x \in 1 .. Len(s) : q = s[x]
        BY DEF Tracked
      <4>2. x # i
        BY <2>1, <3>2, <4>1
      <4>3. \E j \in {x, x - 1} : j \in 1 .. Len(d) /\ d[j] = s[x]
        <5>1. CASE x < i
          BY <2>0, <2>1, <2>3, <5>1
        <5>2. CASE x > i
          <6>1. x - 1 \in 1 .. Len(s) - 1 /\ x - 1 >= i /\ (x - 1) + 1 = x
            BY <2>0, <2>1, <5>2
          <6>2. QED BY <2>3, <6>1
        <5>3. QED BY <2>0, <2>1, <4>2, <5>1, <5>2
      <4>4. QED BY <4>1, <4>3 DEF Tracked
    <3>3. QED BY <3>1, <3>2
  <2>6. QED BY <2>2, <2>3, <2>4, <2>5
<1>3. QED BY <1>1, <1>2

(* record_access adds the page to those tracked, wherever it was before. *)
LEMMA TouchProperties ==
  ASSUME NEW S, NEW s \in Seq(S), NEW p \in S, TrackedOnce(s)
  PROVE  /\ Touch(s, p) \in Seq(S)
         /\ TrackedOnce(Touch(s, p))
         /\ Tracked(Touch(s, p)) = Tracked(s) \cup {p}
<1> DEFINE d == Drop(s, p)
           t == <<p>> \o d
<1>1. /\ d \in Seq(S)
      /\ TrackedOnce(d)
      /\ Tracked(d) = Tracked(s) \ {p}
  BY DropProperties
<1>2. Touch(s, p) = t
  BY DEF Touch
<1> HIDE DEF d
<1>3. <<p>> \in Seq(S) /\ Len(<<p>>) = 1 /\ <<p>>[1] = p
  OBVIOUS
<1>4. Len(d) \in Nat
  BY <1>1, LenProperties
<1>5. /\ t \in Seq(S)
      /\ Len(t) = Len(<<p>>) + Len(d)
      /\ \A j \in 1 .. Len(<<p>>) + Len(d) :
           t[j] = IF j <= Len(<<p>>) THEN <<p>>[j] ELSE d[j - Len(<<p>>)]
  BY <1>1, <1>3, ConcatProperties
<1> HIDE DEF t
<1>6. /\ Len(t) = Len(d) + 1
      /\ t[1] = p
      /\ \A j \in 1 .. Len(d) : t[j + 1] = d[j]
  <2>1. \A j \in 1 .. Len(d) : j + 1 \in 1 .. 1 + Len(d) /\ ~ (j + 1 <= 1) /\ (j + 1) - 1 = j
    BY <1>4
  <2>2. QED BY <1>3, <1>4, <1>5, <2>1
<1>7. \A j \in 1 .. Len(t) : j = 1 \/ \E k \in 1 .. Len(d) : j = k + 1
  <2> SUFFICES ASSUME NEW j \in 1 .. Len(t), j # 1
               PROVE  \E k \in 1 .. Len(d) : j = k + 1
    OBVIOUS
  <2>1. j - 1 \in 1 .. Len(d) /\ j = (j - 1) + 1
    BY <1>4, <1>6
  <2>2. QED BY <2>1
<1>8. \A j \in 1 .. Len(d) : d[j] # p
  BY <1>1 DEF Tracked
<1>9. TrackedOnce(t)
  <2> SUFFICES ASSUME NEW j \in 1 .. Len(t), NEW k \in 1 .. Len(t), t[j] = t[k]
               PROVE  j = k
    BY DEF TrackedOnce
  <2>1. CASE j = 1
    BY <1>6, <1>7, <1>8, <2>1
  <2>2. CASE k = 1
    BY <1>6, <1>7, <1>8, <2>2
  <2>3. CASE j # 1 /\ k # 1
    <3>1. PICK m \in 1 .. Len(d) : j = m + 1
      BY <1>7, <2>3
    <3>2. PICK n \in 1 .. Len(d) : k = n + 1
      BY <1>7, <2>3
    <3>3. d[m] = d[n]
      BY <1>6, <3>1, <3>2
    <3>4. QED BY <1>1, <3>1, <3>2, <3>3 DEF TrackedOnce
  <2>4. QED BY <2>1, <2>2, <2>3
<1>10. Tracked(t) = Tracked(d) \cup {p}
  <2>1. ASSUME NEW q \in Tracked(t) PROVE q \in Tracked(d) \cup {p}
    <3>1. PICK j \in 1 .. Len(t) : q = t[j]
      BY DEF Tracked
    <3>2. CASE j = 1
      BY <1>6, <3>1, <3>2
    <3>3. CASE j # 1
      <4>1. PICK k \in 1 .. Len(d) : j = k + 1
        BY <1>7, <3>3
      <4>2. q = d[k]
        BY <1>6, <3>1, <4>1
      <4>3. QED BY <4>2 DEF Tracked
    <3>4. QED BY <3>2, <3>3
  <2>2. p \in Tracked(t)
    BY <1>4, <1>6 DEF Tracked
  <2>3. ASSUME NEW q \in Tracked(d) PROVE q \in Tracked(t)
    <3>1. PICK j \in 1 .. Len(d) : q = d[j]
      BY DEF Tracked
    <3>2. j + 1 \in 1 .. Len(t) /\ t[j + 1] = q
      BY <1>4, <1>6, <3>1
    <3>3. QED BY <3>2 DEF Tracked
  <2>4. QED BY <2>1, <2>2, <2>3
<1>11. QED BY <1>1, <1>2, <1>5, <1>9, <1>10

(* The victim of an eviction is a tracked page that nobody holds. *)
LEMMA VictimIsTracked ==
  ASSUME NEW s, NEW held, NEW p, IsVictim(s, held, p)
  PROVE  p \in Tracked(s) /\ p \notin held
BY DEF IsVictim, Tracked

(* A page of a sequence is dropped at its place.                           *)
LEMMA DropPlaces ==
  ASSUME NEW S, NEW s \in Seq(S), TrackedOnce(s), NEW i \in 1 .. Len(s)
  PROVE  /\ Drop(s, s[i]) \in Seq(S)
         /\ Len(Drop(s, s[i])) = Len(s) - 1
         /\ \A j \in 1 .. Len(s) - 1 :
              /\ j < i => Drop(s, s[i])[j] = s[j]
              /\ j >= i => Drop(s, s[i])[j] = s[j + 1]
<1>1. s[i] \in Tracked(s)
  BY DEF Tracked
<1>2. (CHOOSE j \in 1 .. Len(s) : s[j] = s[i]) = i
  BY DEF TrackedOnce
<1>3. Drop(s, s[i]) = DropAt(s, i)
  BY <1>1, <1>2 DEF Drop
<1>4. QED BY <1>3, DropAtPlaces

(* A page put in front of a sequence.                                      *)
LEMMA FrontPlaces ==
  ASSUME NEW S, NEW d \in Seq(S), NEW p \in S
  PROVE  /\ <<p>> \o d \in Seq(S)
         /\ Len(<<p>> \o d) = Len(d) + 1
         /\ (<<p>> \o d)[1] = p
         /\ \A j \in 1 .. Len(d) : (<<p>> \o d)[j + 1] = d[j]
<1> DEFINE t == <<p>> \o d
<1>1. <<p>> \in Seq(S) /\ Len(<<p>>) = 1 /\ <<p>>[1] = p
  OBVIOUS
<1>2. Len(d) \in Nat
  BY LenProperties
<1>3. /\ t \in Seq(S)
      /\ Len(t) = Len(<<p>>) + Len(d)
      /\ \A j \in 1 .. Len(<<p>>) + Len(d) :
           t[j] = IF j <= Len(<<p>>) THEN <<p>>[j] ELSE d[j - Len(<<p>>)]
  BY <1>1, ConcatProperties
<1> HIDE DEF t
<1>4. \A j \in 1 .. Len(d) : j + 1 \in 1 .. 1 + Len(d) /\ ~ (j + 1 <= 1) /\ (j + 1) - 1 = j
  BY <1>2
<1>5. /\ Len(t) = Len(d) + 1
      /\ t[1] = p
      /\ \A j \in 1 .. Len(d) : t[j + 1] = d[j]
  BY <1>1, <1>2, <1>3, <1>4
<1>6. QED BY <1>3, <1>5 DEF t

-----------------------------------------------------------------------------
(* Lists as values: what insert_head and unlink do to the links.           *)

Lists ==
  {l \in [arena : Seq(LruNode), head : Nat, tail : Nat] :
     l.head <= Len(l.arena) /\ l.tail <= Len(l.arena)}

(* Writing one link of one node, as every assignment in insert_head and    *)
(* unlink does, changes that field and nothing else.                       *)
LEMMA SetPrevProperties ==
  ASSUME NEW a \in Seq(LruNode), NEW idx \in 0 .. Len(a), NEW to \in Nat
  PROVE  /\ SetPrev(a, idx, to) \in Seq(LruNode)
         /\ Len(SetPrev(a, idx, to)) = Len(a)
         /\ \A i \in 1 .. Len(a) :
              /\ SetPrev(a, idx, to)[i].prev = IF i = idx THEN to ELSE a[i].prev
              /\ SetPrev(a, idx, to)[i].next = a[i].next
              /\ SetPrev(a, idx, to)[i].page_id = a[i].page_id
<1>1. CASE idx = None
  BY <1>1 DEF SetPrev, None
<1>2. CASE idx # None
  <2> DEFINE n == [a[idx] EXCEPT !.prev = to]
  <2>1. idx \in 1 .. Len(a)
    BY <1>2 DEF None
  <2>2. a[idx] \in LruNode
    BY <2>1, ElementOfSeq
  <2>3. n \in LruNode /\ n.prev = to /\ n.next = a[idx].next /\ n.page_id = a[idx].page_id
    BY <2>2 DEF LruNode
  <2>4. SetPrev(a, idx, to) = [a EXCEPT ![idx] = n]
    BY <1>2 DEF SetPrev
  <2> HIDE DEF n
  <2>5. QED
    BY <2>1, <2>3, <2>4, ExceptSeq
<1>3. QED BY <1>1, <1>2

(* The same for the other link.                                            *)
LEMMA SetNextProperties ==
  ASSUME NEW a \in Seq(LruNode), NEW idx \in 0 .. Len(a), NEW to \in Nat
  PROVE  /\ SetNext(a, idx, to) \in Seq(LruNode)
         /\ Len(SetNext(a, idx, to)) = Len(a)
         /\ \A i \in 1 .. Len(a) :
              /\ SetNext(a, idx, to)[i].next = IF i = idx THEN to ELSE a[i].next
              /\ SetNext(a, idx, to)[i].prev = a[i].prev
              /\ SetNext(a, idx, to)[i].page_id = a[i].page_id
<1>1. CASE idx = None
  BY <1>1 DEF SetNext, None
<1>2. CASE idx # None
  <2> DEFINE n == [a[idx] EXCEPT !.next = to]
  <2>1. idx \in 1 .. Len(a)
    BY <1>2 DEF None
  <2>2. a[idx] \in LruNode
    BY <2>1, ElementOfSeq
  <2>3. n \in LruNode /\ n.next = to /\ n.prev = a[idx].prev /\ n.page_id = a[idx].page_id
    BY <2>2 DEF LruNode
  <2>4. SetNext(a, idx, to) = [a EXCEPT ![idx] = n]
    BY <1>2 DEF SetNext
  <2> HIDE DEF n
  <2>5. QED
    BY <2>1, <2>3, <2>4, ExceptSeq
<1>3. QED BY <1>1, <1>2

(* unlink takes idx out of the list and touches no page id. *)
LEMMA UnlinkProperties ==
  ASSUME NEW l \in Lists, NEW L \in SUBSET (1 .. Len(l.arena)), NEW idx \in L,
         Linked(l, L)
  PROVE  /\ Unlink(l, idx) \in Lists
         /\ Len(Unlink(l, idx).arena) = Len(l.arena)
         /\ \A i \in 1 .. Len(l.arena) :
              /\ Unlink(l, idx).arena[i].page_id = l.arena[i].page_id
              /\ Unlink(l, idx).arena[i].prev =
                   IF i = l.arena[idx].next THEN l.arena[idx].prev ELSE l.arena[i].prev
         /\ Linked(Unlink(l, idx), L \ {idx})
<1> DEFINE a == l.arena
           p == a[idx].prev
           n == a[idx].next
           b == SetNext(a, p, n)
           u == Unlink(l, idx)
<1>1. a \in Seq(LruNode) /\ Len(a) \in Nat /\ l.head \in Nat /\ l.tail \in Nat
      /\ l.head <= Len(a) /\ l.tail <= Len(a)
  BY DEF Lists
<1>2. \A i \in 1 .. Len(a) : a[i].prev \in Nat /\ a[i].next \in Nat
  <2> HIDE DEF a
  <2>1. \A i \in 1 .. Len(a) : a[i] \in LruNode
    BY <1>1, ElementOfSeq
  <2>2. QED BY <2>1 DEF LruNode
<1>3. p \in 0 .. Len(a) /\ n \in 0 .. Len(a)
  BY <1>1, <1>2 DEF Linked, None
<1>4. b \in Seq(LruNode) /\ Len(b) = Len(a)
      /\ \A i \in 1 .. Len(a) :
              /\ b[i].next = IF i = p THEN n ELSE a[i].next
              /\ b[i].prev = a[i].prev
              /\ b[i].page_id = a[i].page_id
  BY <1>1, <1>3, SetNextProperties
<1>5. u.arena = SetPrev(b, n, p)
      /\ u.head = (IF p = None THEN n ELSE l.head)
      /\ u.tail = (IF n = None THEN p ELSE l.tail)
  BY DEF Unlink
<1>6. u.arena \in Seq(LruNode) /\ Len(u.arena) = Len(a)
      /\ \A i \in 1 .. Len(a) :
              /\ u.arena[i].prev = IF i = n THEN p ELSE a[i].prev
              /\ u.arena[i].next = IF i = p THEN n ELSE a[i].next
              /\ u.arena[i].page_id = a[i].page_id
  <2>1. p \in Nat /\ n \in 0 .. Len(b)
    BY <1>3, <1>4
  <2> HIDE DEF b, u, p, n, a
  <2>2. QED
    BY <1>4, <1>5, <2>1, SetPrevProperties
<1>7. u \in Lists
  <2>1. u = [arena |-> u.arena, head |-> u.head, tail |-> u.tail]
    BY DEF Unlink
  <2> HIDE DEF u
  <2>2. u.head \in Nat /\ u.tail \in Nat /\ u.head <= Len(a) /\ u.tail <= Len(a)
    BY <1>1, <1>3, <1>5
  <2>3. QED BY <1>6, <2>1, <2>2 DEF Lists
<1> HIDE DEF a, u
<1>8. /\ l.head = None <=> l.tail = None
      /\ l.head # None => l.head \in L /\ a[l.head].prev = None
      /\ l.tail # None => l.tail \in L /\ a[l.tail].next = None
      /\ \A s \in L :
           /\ IF a[s].prev = None THEN l.head = s
              ELSE a[s].prev \in L /\ a[a[s].prev].next = s
           /\ IF a[s].next = None THEN l.tail = s
              ELSE a[s].next \in L /\ a[a[s].next].prev = s
  BY DEF Linked, a
<1>9. Linked(u, L \ {idx})
  <2>1. \A s \in L : s # None /\ s \in 1 .. Len(a)
    BY <1>1 DEF a, None
  <2> HIDE DEF p, n
  <2>2. /\ IF p = None THEN l.head = idx ELSE p \in L /\ a[p].next = idx
        /\ IF n = None THEN l.tail = idx ELSE n \in L /\ a[n].prev = idx
        /\ p = a[idx].prev /\ n = a[idx].next
    BY <1>8 DEF p, n
  <2>3. /\ u.head = None <=> u.tail = None
        /\ u.head # None => u.head \in L \ {idx} /\ u.arena[u.head].prev = None
        /\ u.tail # None => u.tail \in L \ {idx} /\ u.arena[u.tail].next = None
    <3>1. u.head = None <=> u.tail = None
      BY <1>5, <1>8, <2>1, <2>2
    <3>2. ASSUME u.head # None
          PROVE  u.head \in L \ {idx} /\ u.arena[u.head].prev = None
      <4>1. CASE p = None
        BY <3>2, <4>1, <1>5, <1>6, <2>1, <2>2
      <4>2. CASE p # None
        <5>1. u.head = l.head /\ l.head \in L /\ a[l.head].prev = None
          BY <3>2, <4>2, <1>5, <1>8
        <5>2. l.head # idx /\ l.head # n
          BY <4>2, <5>1, <2>1, <2>2
        <5>3. QED BY <5>1, <5>2, <1>6, <2>1
      <4>3. QED BY <4>1, <4>2
    <3>3. ASSUME u.tail # None
          PROVE  u.tail \in L \ {idx} /\ u.arena[u.tail].next = None
      <4>1. CASE n = None
        BY <3>3, <4>1, <1>5, <1>6, <2>1, <2>2
      <4>2. CASE n # None
        <5>1. u.tail = l.tail /\ l.tail \in L /\ a[l.tail].next = None
          BY <3>3, <4>2, <1>5, <1>8
        <5>2. l.tail # idx /\ l.tail # p
          BY <4>2, <5>1, <2>1, <2>2
        <5>3. QED BY <5>1, <5>2, <1>6, <2>1
      <4>3. QED BY <4>1, <4>2
    <3>4. QED BY <3>1, <3>2, <3>3
  <2>4. ASSUME NEW s \in L, s # idx
        PROVE  IF u.arena[s].prev = None THEN u.head = s
               ELSE /\ u.arena[s].prev \in L \ {idx}
                    /\ u.arena[u.arena[s].prev].next = s
    <3>1. CASE s = n
      <4>1. u.arena[s].prev = p
        BY <3>1, <1>6, <2>1
      <4>2. p # None => p # idx /\ u.arena[p].next = n
        BY <3>1, <1>6, <2>1, <2>2, <2>4
      <4>3. QED BY <3>1, <4>1, <4>2, <1>5, <2>2
    <3>2. CASE s # n
      <4> DEFINE q == a[s].prev
      <4>1. u.arena[s].prev = q
        BY <3>2, <1>6, <2>1
      <4>2. CASE q = None
        BY <4>1, <4>2, <1>5, <1>8, <2>2, <2>4
      <4>3. CASE q # None
        <5>1. q \in L /\ a[q].next = s
          BY <4>3, <1>8
        <5>2. q # idx /\ q # p
          BY <3>2, <5>1, <2>1, <2>2, <2>4
        <5>3. u.arena[q].next = s
          BY <5>1, <5>2, <1>6, <2>1
        <5>4. QED BY <4>1, <4>3, <5>1, <5>2, <5>3
      <4>4. QED BY <4>2, <4>3
    <3>3. QED BY <3>1, <3>2
  <2>5. ASSUME NEW s \in L, s # idx
        PROVE  IF u.arena[s].next = None THEN u.tail = s
               ELSE /\ u.arena[s].next \in L \ {idx}
                    /\ u.arena[u.arena[s].next].prev = s
    <3>1. CASE s = p
      <4>1. u.arena[s].next = n
        BY <3>1, <1>6, <2>1
      <4>2. n # None => n # idx /\ u.arena[n].prev = p
        BY <3>1, <1>6, <2>1, <2>2, <2>5
      <4>3. QED BY <3>1, <4>1, <4>2, <1>5, <2>2
    <3>2. CASE s # p
      <4> DEFINE q == a[s].next
      <4>1. u.arena[s].next = q
        BY <3>2, <1>6, <2>1
      <4>2. CASE q = None
        BY <4>1, <4>2, <1>5, <1>8, <2>2, <2>5
      <4>3. CASE q # None
        <5>1. q \in L /\ a[q].prev = s
          BY <4>3, <1>8
        <5>2. q # idx /\ q # n
          BY <3>2, <5>1, <2>1, <2>2, <2>5
        <5>3. u.arena[q].prev = s
          BY <5>1, <5>2, <1>6, <2>1
        <5>4. QED BY <4>1, <4>3, <5>1, <5>2, <5>3
      <4>4. QED BY <4>2, <4>3
    <3>3. QED BY <3>1, <3>2
  <2>6. QED BY <2>3, <2>4, <2>5 DEF Linked
<1>10. QED BY <1>6, <1>7, <1>9 DEF a, u

(* insert_head puts a slot that was not linked at the head. *)
LEMMA InsertHeadProperties ==
  ASSUME NEW l \in Lists, NEW L \in SUBSET (1 .. Len(l.arena)),
         NEW idx \in 1 .. Len(l.arena), idx \notin L,
         Linked(l, L)
  PROVE  /\ InsertHead(l, idx) \in Lists
         /\ Len(InsertHead(l, idx).arena) = Len(l.arena)
         /\ \A i \in 1 .. Len(l.arena) :
              /\ InsertHead(l, idx).arena[i].page_id = l.arena[i].page_id
              /\ InsertHead(l, idx).arena[i].prev =
                   IF i = l.head THEN idx ELSE IF i = idx THEN None ELSE l.arena[i].prev
         /\ Linked(InsertHead(l, idx), L \cup {idx})
<1> DEFINE a == l.arena
           b == SetPrev(a, idx, None)
           c == SetNext(b, idx, l.head)
           u == InsertHead(l, idx)
<1>1. a \in Seq(LruNode) /\ Len(a) \in Nat /\ l.head \in Nat /\ l.tail \in Nat
      /\ l.head \in 0 .. Len(a) /\ l.tail \in 0 .. Len(a)
  BY DEF Lists
<1>2. \A i \in 1 .. Len(a) : a[i].prev \in Nat /\ a[i].next \in Nat
  <2> HIDE DEF a
  <2>1. \A i \in 1 .. Len(a) : a[i] \in LruNode
    BY <1>1, ElementOfSeq
  <2>2. QED BY <2>1 DEF LruNode
<1>3. b \in Seq(LruNode) /\ Len(b) = Len(a)
      /\ \A i \in 1 .. Len(a) :
              /\ b[i].prev = IF i = idx THEN None ELSE a[i].prev
              /\ b[i].next = a[i].next
              /\ b[i].page_id = a[i].page_id
  <2>1. idx \in 0 .. Len(a) /\ None \in Nat
    BY <1>1 DEF None
  <2> HIDE DEF a
  <2>2. QED BY <1>1, <2>1, SetPrevProperties
<1>4. c \in Seq(LruNode) /\ Len(c) = Len(a)
      /\ \A i \in 1 .. Len(a) :
              /\ c[i].prev = IF i = idx THEN None ELSE a[i].prev
              /\ c[i].next = IF i = idx THEN l.head ELSE a[i].next
              /\ c[i].page_id = a[i].page_id
  <2>1. idx \in 0 .. Len(b) /\ l.head \in Nat
    BY <1>1, <1>3
  <2> HIDE DEF a, b, c
  <2>2. /\ c \in Seq(LruNode)
        /\ Len(c) = Len(b)
        /\ \A i \in 1 .. Len(b) :
              /\ c[i].next = IF i = idx THEN l.head ELSE b[i].next
              /\ c[i].prev = b[i].prev
              /\ c[i].page_id = b[i].page_id
    BY <1>3, <2>1, SetNextProperties DEF c
  <2>3. QED BY <1>3, <2>2
<1>5. /\ u.arena = SetPrev(c, l.head, idx)
      /\ u.head = idx
      /\ u.tail = (IF l.head = None THEN idx ELSE l.tail)
      /\ u = [arena |-> u.arena, head |-> u.head, tail |-> u.tail]
  <2>1. u = [arena |-> SetPrev(c, l.head, idx),
             head  |-> idx,
             tail  |-> IF l.head = None THEN idx ELSE l.tail]
    BY DEF InsertHead
  <2> HIDE DEF b, c, u
  <2>2. QED BY <2>1
<1>6. u.arena \in Seq(LruNode) /\ Len(u.arena) = Len(a)
      /\ \A i \in 1 .. Len(a) :
              /\ u.arena[i].prev = IF i = l.head THEN idx
                                   ELSE IF i = idx THEN None ELSE a[i].prev
              /\ u.arena[i].next = IF i = idx THEN l.head ELSE a[i].next
              /\ u.arena[i].page_id = a[i].page_id
  <2>1. l.head \in 0 .. Len(c) /\ idx \in Nat
    BY <1>1, <1>4
  <2> HIDE DEF a, b, c, u
  <2>2. /\ u.arena \in Seq(LruNode)
        /\ Len(u.arena) = Len(c)
        /\ \A i \in 1 .. Len(c) :
              /\ u.arena[i].prev = IF i = l.head THEN idx ELSE c[i].prev
              /\ u.arena[i].next = c[i].next
              /\ u.arena[i].page_id = c[i].page_id
    BY <1>4, <1>5, <2>1, SetPrevProperties
  <2>3. QED BY <1>4, <2>2
<1> HIDE DEF u, b, c
<1>7. u \in Lists
  <2>1. u.head \in Nat /\ u.tail \in Nat /\ u.head <= Len(a) /\ u.tail <= Len(a)
    BY <1>1, <1>5 DEF None
  <2>2. QED BY <1>5, <1>6, <2>1 DEF Lists
<1> HIDE DEF a
<1>8. /\ l.head = None <=> l.tail = None
      /\ l.head # None => l.head \in L /\ a[l.head].prev = None
      /\ l.tail # None => l.tail \in L /\ a[l.tail].next = None
      /\ \A s \in L :
           /\ IF a[s].prev = None THEN l.head = s
              ELSE a[s].prev \in L /\ a[a[s].prev].next = s
           /\ IF a[s].next = None THEN l.tail = s
              ELSE a[s].next \in L /\ a[a[s].next].prev = s
  BY DEF Linked, a
<1>9. Linked(u, L \cup {idx})
  <2>1. \A s \in L : s # None /\ s # idx /\ s \in 1 .. Len(a)
    BY <1>1 DEF a, None
  <2>2. idx # None /\ idx \in 1 .. Len(a)
    BY DEF a, None
  <2>3. /\ u.head = None <=> u.tail = None
        /\ u.head # None => u.head \in L \cup {idx} /\ u.arena[u.head].prev = None
        /\ u.tail # None => u.tail \in L \cup {idx} /\ u.arena[u.tail].next = None
    BY <1>5, <1>6, <1>8, <2>1, <2>2
  <2>4. ASSUME NEW s \in L \cup {idx}
        PROVE  IF u.arena[s].prev = None THEN u.head = s
               ELSE /\ u.arena[s].prev \in L \cup {idx}
                    /\ u.arena[u.arena[s].prev].next = s
    BY <1>5, <1>6, <1>8, <2>1, <2>2
  <2>5. ASSUME NEW s \in L \cup {idx}
        PROVE  IF u.arena[s].next = None THEN u.tail = s
               ELSE /\ u.arena[s].next \in L \cup {idx}
                    /\ u.arena[u.arena[s].next].prev = s
    BY <1>5, <1>6, <1>8, <2>1, <2>2
  <2>6. QED BY <2>3, <2>4, <2>5 DEF Linked
<1>10. QED BY <1>6, <1>7, <1>9 DEF a, u

(* A list stays linked when the slots outside it are rewritten. *)
LEMMA LinkedAgree ==
  ASSUME NEW l \in Lists, NEW m \in Lists, NEW L,
         Linked(l, L), m.head = l.head, m.tail = l.tail,
         \A s \in L : m.arena[s] = l.arena[s]
  PROVE  Linked(m, L)
BY DEF Linked

-----------------------------------------------------------------------------
(* Slots accounted for: the arena has one slot per tracked page and per    *)
(* free list entry.  Growing it with an empty free list therefore stays    *)
(* within the capacity that record_access asserts.                         *)
SlotsCounted == Len(arena) = Size + Len(free_list)

IInv ==
  /\ TypeOK
  /\ SlotsPartitioned
  /\ LiveLinked
  /\ SlotsCounted
  /\ ArenaBounded

(* What the typing of the state gives every proof below. *)
LEMMA StateFacts ==
  ASSUME IInv
  PROVE  /\ List \in Lists
         /\ List.arena = arena /\ List.head = head_idx /\ List.tail = tail_idx
         /\ Len(arena) \in Nat /\ Len(free_list) \in Nat
         /\ Live \in SUBSET (1 .. Len(arena))
         /\ IsFiniteSet(TrackedPages) /\ Size \in Nat
         /\ \A s \in Live : arena[s].page_id \in TrackedPages
                          /\ pages[arena[s].page_id] = s
<1>1. List.arena = arena /\ List.head = head_idx /\ List.tail = tail_idx
  BY DEF List
<1>2. Len(arena) \in Nat /\ Len(free_list) \in Nat
  BY LenProperties DEF IInv, TypeOK
<1>3. List \in Lists
  BY <1>2 DEF IInv, TypeOK, List, Lists
<1>4. Live \in SUBSET (1 .. Len(arena))
  BY <1>2 DEF IInv, TypeOK, SlotsPartitioned, Live, TrackedPages, None
<1>5. IsFiniteSet(TrackedPages) /\ Size \in Nat
  <2>1. TrackedPages \in SUBSET PageIds
    BY DEF TrackedPages
  <2>2. QED BY <2>1, FS_Subset, FS_CardinalityType, ReplacerAssumption DEF Size
<1>6. \A s \in Live : arena[s].page_id \in TrackedPages
                     /\ pages[arena[s].page_id] = s
  BY DEF IInv, SlotsPartitioned, Live
<1>7. QED BY <1>1, <1>2, <1>3, <1>4, <1>5, <1>6

(* LruReplacer::new establishes the invariant.                             *)
LEMMA InitIInv == Init => IInv
<1> SUFFICES ASSUME Init PROVE IInv
  OBVIOUS
<1>1. TrackedPages = {} /\ Live = {}
  BY DEF Init, TrackedPages, Live
<1>2. arena = <<>> /\ free_list = <<>> /\ Len(arena) = 0 /\ Len(free_list) = 0
  BY EmptySeq DEF Init
<1>3. TypeOK
  BY <1>2, EmptySeq, ReplacerAssumption DEF Init, TypeOK, None
<1>4. SlotsPartitioned
  BY <1>1, <1>2 DEF SlotsPartitioned
<1>5. LiveLinked
  BY <1>1 DEF LiveLinked, Linked, List, Init
<1>6. SlotsCounted /\ ArenaBounded
  BY <1>1, <1>2, FS_EmptySet, ReplacerAssumption DEF SlotsCounted, ArenaBounded, Size
<1>7. QED BY <1>3, <1>4, <1>5, <1>6 DEF IInv

(* remove, evict and evict_if: one tracked slot moves to the free list. *)
LEMMA ReleaseIInv ==
  ASSUME IInv, NEW idx \in Live, Release(idx), pinned' = pinned,
         last' \in {"new", "record_access", "remove", "evict", "evict_if"}
                   \X (PageIds \cup {NoPage})
  PROVE  IInv'
<1> DEFINE q == arena[idx].page_id
           u == Unlink(List, idx)
<1>1. /\ idx \in 1 .. Len(arena)
      /\ q \in TrackedPages /\ q \in PageIds /\ pages[q] = idx
  BY StateFacts DEF TrackedPages
<1>2. /\ u \in Lists /\ Len(u.arena) = Len(arena)
      /\ \A i \in 1 .. Len(arena) : u.arena[i].page_id = arena[i].page_id
      /\ Linked(u, Live \ {idx})
  <2>1. Linked(List, Live)
    BY DEF IInv, LiveLinked
  <2>2. List \in Lists /\ Live \in SUBSET (1 .. Len(List.arena)) /\ List.arena = arena
    BY StateFacts
  <2>3. /\ u \in Lists /\ Len(u.arena) = Len(List.arena)
        /\ \A i \in 1 .. Len(List.arena) :
             u.arena[i].page_id = List.arena[i].page_id
        /\ Linked(u, Live \ {idx})
    BY <2>1, <2>2, UnlinkProperties
  <2>4. QED BY <2>2, <2>3
<1>3. arena' = u.arena /\ head_idx' = u.head /\ tail_idx' = u.tail
  BY DEF Release, SetList
<1>4. pages' = [pages EXCEPT ![q] = None] /\ free_list' = Append(free_list, idx)
  BY DEF Release
<1> HIDE DEF u, q
<1>5. /\ pages \in [PageIds -> Nat] /\ free_list \in Seq(1 .. Len(arena))
      /\ Len(arena) \in Nat /\ Len(free_list) \in Nat
  BY StateFacts DEF IInv, TypeOK
<1>6. Len(arena') = Len(arena)
  BY <1>2, <1>3
<1>7. /\ free_list' \in Seq(1 .. Len(arena))
      /\ Len(free_list') = Len(free_list) + 1
      /\ \A i \in 1 .. Len(free_list) + 1 :
           free_list'[i] = IF i <= Len(free_list) THEN free_list[i] ELSE idx
  BY <1>1, <1>4, <1>5, AppendProperties
<1>8. TypeOK'
  <2>1. pages' \in [PageIds -> Nat]
    BY <1>4, <1>5 DEF None
  <2>2. arena' \in Seq(LruNode) /\ head_idx' \in 0 .. Len(arena')
        /\ tail_idx' \in 0 .. Len(arena')
    BY <1>2, <1>3 DEF Lists
  <2>3. free_list' \in Seq(1 .. Len(arena'))
    BY <1>6, <1>7
  <2>4. pinned' \in SUBSET PageIds
    BY DEF IInv, TypeOK
  <2>5. QED BY <2>1, <2>2, <2>3, <2>4 DEF TypeOK
<1>9. TrackedPages' = TrackedPages \ {q}
  BY <1>1, <1>4, <1>5 DEF TrackedPages, None
<1>10. \A r \in TrackedPages' : pages'[r] = pages[r]
  BY <1>4, <1>5, <1>9 DEF TrackedPages
<1>11. Live' = Live \ {idx}
  <2>1. Live' = {pages[r] : r \in TrackedPages \ {q}}
    BY <1>9, <1>10 DEF Live
  <2>2. \A r \in TrackedPages : pages[r] = idx => r = q
    BY DEF IInv, SlotsPartitioned, q
  <2>3. QED BY <1>1, <2>1, <2>2 DEF Live
<1>12. SlotsPartitioned'
  <2>1. \A p \in TrackedPages' :
          pages'[p] <= Len(arena') /\ arena'[pages'[p]].page_id = p
    BY <1>2, <1>3, <1>6, <1>9, <1>10, StateFacts DEF Live, IInv, SlotsPartitioned
  <2>2. Len(free_list') = Len(free_list) + 1
    BY <1>7
  <2>3. \A i \in 1 .. Len(free_list) : free_list[i] # idx /\ free_list[i] \notin Live
    BY DEF IInv, SlotsPartitioned
  <2>4. \A i \in 1 .. Len(free_list') :
          \/ i \in 1 .. Len(free_list) /\ free_list'[i] = free_list[i]
          \/ i = Len(free_list) + 1 /\ free_list'[i] = idx
    BY <1>5, <1>7, <2>2
  <2>9. \A i \in 1 .. Len(free_list') : free_list'[i] \notin Live'
    BY <1>11, <2>3, <2>4
  <2>5. \A i, j \in 1 .. Len(free_list') : free_list'[i] = free_list'[j] => i = j
    <3>1. \A i, j \in 1 .. Len(free_list) : free_list[i] = free_list[j] => i = j
      BY DEF IInv, SlotsPartitioned
    <3>2. QED BY <2>3, <2>4, <3>1
  <2>6. \A s \in 1 .. Len(arena') :
          s \in Live' \/ \E i \in 1 .. Len(free_list') : free_list'[i] = s
    <3> TAKE s \in 1 .. Len(arena')
    <3>1. CASE s = idx
      BY <3>1, <1>5, <1>7, <2>2
    <3>2. CASE s # idx
      <4>1. s \in Live \/ \E i \in 1 .. Len(free_list) : free_list[i] = s
        BY <1>6 DEF IInv, SlotsPartitioned
      <4>2. \A i \in 1 .. Len(free_list) : i \in 1 .. Len(free_list')
                                         /\ free_list'[i] = free_list[i]
        BY <1>5, <1>7, <2>2
      <4>3. QED BY <3>2, <4>1, <4>2, <1>11
    <3>3. QED BY <3>1, <3>2
  <2>7. QED BY <2>1, <2>9, <2>5, <2>6 DEF SlotsPartitioned
<1>13. LiveLinked'
  <2>1. List' = [arena |-> u.arena, head |-> u.head, tail |-> u.tail]
    BY <1>3 DEF List
  <2>2. QED BY <1>2, <1>11, <2>1 DEF LiveLinked, Linked
<1>14. SlotsCounted' /\ ArenaBounded'
  <2>1. Size' = Size - 1
    BY <1>1, <1>9, StateFacts, FS_RemoveElement DEF Size
  <2>2. QED
    BY <1>5, <1>6, <1>7, <2>1, StateFacts DEF IInv, SlotsCounted, ArenaBounded
<1>15. QED BY <1>8, <1>12, <1>13, <1>14 DEF IInv

(* record_access of a tracked page: only the links change. *)
LEMMA AccessTrackedIInv ==
  ASSUME IInv, NEW p \in PageIds, AccessTracked(p)
  PROVE  IInv'
<1> DEFINE idx == pages[p]
           u == Unlink(List, idx)
           h == InsertHead(u, idx)
<1>1. idx \in Live /\ idx \in 1 .. Len(arena)
  BY StateFacts DEF AccessTracked, Live, TrackedPages
<1>2. List \in Lists /\ Live \in SUBSET (1 .. Len(List.arena)) /\ List.arena = arena
  BY StateFacts
<1>3. Linked(List, Live)
  BY DEF IInv, LiveLinked
<1> HIDE DEF idx
<1>4. /\ u \in Lists /\ Len(u.arena) = Len(arena)
      /\ \A i \in 1 .. Len(arena) : u.arena[i].page_id = arena[i].page_id
      /\ Linked(u, Live \ {idx})
  <2>1. /\ u \in Lists /\ Len(u.arena) = Len(List.arena)
        /\ \A i \in 1 .. Len(List.arena) :
             u.arena[i].page_id = List.arena[i].page_id
        /\ Linked(u, Live \ {idx})
    BY <1>1, <1>2, <1>3, UnlinkProperties
  <2>2. QED BY <1>2, <2>1
<1> HIDE DEF u
<1>5. /\ h \in Lists /\ Len(h.arena) = Len(arena)
      /\ \A i \in 1 .. Len(arena) : h.arena[i].page_id = arena[i].page_id
      /\ Linked(h, Live)
  <2>1. Live \ {idx} \in SUBSET (1 .. Len(u.arena)) /\ idx \in 1 .. Len(u.arena)
        /\ idx \notin Live \ {idx}
    BY <1>1, <1>2, <1>4
  <2>2. /\ h \in Lists /\ Len(h.arena) = Len(u.arena)
        /\ \A i \in 1 .. Len(u.arena) :
             h.arena[i].page_id = u.arena[i].page_id
        /\ Linked(h, (Live \ {idx}) \cup {idx})
    <3> DEFINE M == Live \ {idx}
    <3>1. /\ u \in Lists /\ M \in SUBSET (1 .. Len(u.arena)) /\ idx \in 1 .. Len(u.arena)
          /\ idx \notin M /\ Linked(u, M)
      BY <1>4, <2>1
    <3> HIDE DEF M, h
    <3>2. /\ InsertHead(u, idx) \in Lists
          /\ Len(InsertHead(u, idx).arena) = Len(u.arena)
          /\ \A i \in 1 .. Len(u.arena) :
               InsertHead(u, idx).arena[i].page_id = u.arena[i].page_id
          /\ Linked(InsertHead(u, idx), M \cup {idx})
      BY <3>1, InsertHeadProperties, ZenonT(20)
    <3>3. QED BY <3>2 DEF M, h
  <2>3. (Live \ {idx}) \cup {idx} = Live
    BY <1>1
  <2>4. QED BY <1>4, <2>2, <2>3
<1>6. /\ arena' = h.arena /\ head_idx' = h.head /\ tail_idx' = h.tail
      /\ UNCHANGED <<pages, free_list, pinned>>
      /\ last' = <<"record_access", p>>
  BY DEF AccessTracked, SetList, h, u, idx
<1> HIDE DEF h
<1>7. Len(arena') = Len(arena) /\ TrackedPages' = TrackedPages /\ Live' = Live
  BY <1>5, <1>6 DEF TrackedPages, Live
<1>8. TypeOK'
  <2>1. arena' \in Seq(LruNode) /\ head_idx' \in 0 .. Len(arena')
        /\ tail_idx' \in 0 .. Len(arena')
    BY <1>5, <1>6 DEF Lists
  <2>2. QED BY <1>6, <1>7, <2>1 DEF TypeOK, IInv
<1>9. SlotsPartitioned'
  <2>1. \A q \in TrackedPages : arena'[pages[q]].page_id = q /\ pages[q] <= Len(arena)
    BY <1>2, <1>5, <1>6 DEF IInv, SlotsPartitioned, Live
  <2>2. QED BY <1>6, <1>7, <2>1 DEF IInv, SlotsPartitioned
<1>10. LiveLinked'
  <2>1. List' = [arena |-> h.arena, head |-> h.head, tail |-> h.tail]
    BY <1>6 DEF List
  <2>2. QED BY <1>5, <1>7, <2>1 DEF LiveLinked, Linked
<1>11. SlotsCounted' /\ ArenaBounded'
  BY <1>6, <1>7 DEF IInv, SlotsCounted, ArenaBounded, Size
<1>12. QED BY <1>8, <1>9, <1>10, <1>11 DEF IInv

(* record_access of a new page: one more live slot, reused or appended. *)
LEMMA AccessNewIInv ==
  ASSUME IInv, NEW p \in PageIds, AccessNew(p)
  PROVE  IInv'
<1> DEFINE reuse == free_list # <<>>
           idx == IF reuse THEN free_list[Len(free_list)] ELSE Len(arena) + 1
           node == [prev |-> None, page_id |-> p, next |-> None]
           a == IF reuse THEN [arena EXCEPT ![idx] = node] ELSE Append(arena, node)
           l == [List EXCEPT !.arena = a]
           h == InsertHead(l, idx)
<1>1. /\ arena \in Seq(LruNode) /\ Len(arena) \in Nat
      /\ pages \in [PageIds -> Nat]
      /\ free_list \in Seq(1 .. Len(arena)) /\ Len(free_list) \in Nat
  BY StateFacts DEF IInv, TypeOK
<1>2. reuse => Len(free_list) \in 1 .. Len(free_list)
  BY <1>1, EmptySeq
<1>3. node \in LruNode /\ node.page_id = p
  BY DEF LruNode, None
<1> HIDE DEF node
<1>4. /\ arena' = h.arena /\ head_idx' = h.head /\ tail_idx' = h.tail
      /\ pages' = [pages EXCEPT ![p] = idx]
      /\ free_list' = IF reuse THEN SubSeq(free_list, 1, Len(free_list) - 1)
                               ELSE free_list
      /\ last' = <<"record_access", p>> /\ pinned' = pinned
      /\ pages[p] = None /\ Size < Capacity
  BY DEF AccessNew, SetList, h, l, a, idx, reuse, node
<1>5. idx \notin Live /\ idx \in Nat \ {0}
  <2>1. CASE reuse
    <3>1. free_list[Len(free_list)] \in 1 .. Len(arena)
      BY <1>1, <1>2, <2>1, ElementOfSeq
    <3>2. free_list[Len(free_list)] \notin Live
      BY <1>2, <2>1 DEF IInv, SlotsPartitioned
    <3>3. QED BY <1>1, <2>1, <3>1, <3>2
  <2>2. CASE ~reuse
    BY <1>1, <2>2, StateFacts
  <2>3. QED BY <2>1, <2>2
<1>6. /\ a \in Seq(LruNode) /\ Len(arena) <= Len(a) /\ Len(a) \in Nat
      /\ reuse => Len(a) = Len(arena)
      /\ ~reuse => Len(a) = Len(arena) + 1
      /\ idx \in 1 .. Len(a) /\ a[idx] = node
      /\ \A i \in 1 .. Len(a) : i # idx => i \in 1 .. Len(arena) /\ a[i] = arena[i]
  <2>1. CASE reuse
    <3>1. idx \in 1 .. Len(arena)
      BY <1>1, <1>2, <2>1, ElementOfSeq
    <3>2. a = [arena EXCEPT ![idx] = node]
      BY <2>1
    <3> HIDE DEF a, idx, reuse
    <3>3. QED BY <1>1, <1>3, <2>1, <3>1, <3>2, ExceptSeq
  <2>2. CASE ~reuse
    <3>1. a = Append(arena, node) /\ idx = Len(arena) + 1
      BY <2>2
    <3> HIDE DEF a, idx, reuse
    <3>2. QED BY <1>1, <1>3, <2>2, <3>1, AppendProperties
  <2>3. QED BY <2>1, <2>2
<1> HIDE DEF a, idx
<1>7. l = [arena |-> a, head |-> head_idx, tail |-> tail_idx]
  BY DEF List
<1>8. l \in Lists
  BY <1>1, <1>6, <1>7 DEF Lists, IInv, TypeOK
<1>9. Live \in SUBSET (1 .. Len(arena))
  BY StateFacts
<1>10. Linked(l, Live)
  <2>1. \A s \in Live : l.arena[s] = List.arena[s]
    BY <1>5, <1>6, <1>7, <1>9, StateFacts
  <2>2. List \in Lists /\ Linked(List, Live) /\ l.head = List.head /\ l.tail = List.tail
    BY <1>7, StateFacts DEF IInv, LiveLinked
  <2> HIDE DEF l
  <2>3. QED BY <1>8, <2>1, <2>2, LinkedAgree
<1>11. /\ h \in Lists /\ Len(h.arena) = Len(a)
       /\ \A i \in 1 .. Len(a) : h.arena[i].page_id = a[i].page_id
       /\ Linked(h, Live \cup {idx})
  <2>1. l.arena = a /\ Live \in SUBSET (1 .. Len(l.arena)) /\ idx \in 1 .. Len(l.arena)
    BY <1>1, <1>6, <1>7, <1>9
  <2> HIDE DEF l
  <2>2. /\ h \in Lists /\ Len(h.arena) = Len(l.arena)
        /\ \A i \in 1 .. Len(l.arena) : h.arena[i].page_id = l.arena[i].page_id
        /\ Linked(h, Live \cup {idx})
    <3> HIDE DEF h
    <3>1. /\ l \in Lists /\ Live \in SUBSET (1 .. Len(l.arena)) /\ idx \in 1 .. Len(l.arena)
          /\ idx \notin Live /\ Linked(l, Live)
      BY <1>5, <1>8, <1>10, <2>1
    <3>2. /\ InsertHead(l, idx) \in Lists
          /\ Len(InsertHead(l, idx).arena) = Len(l.arena)
          /\ \A i \in 1 .. Len(l.arena) :
               InsertHead(l, idx).arena[i].page_id = l.arena[i].page_id
          /\ Linked(InsertHead(l, idx), Live \cup {idx})
      BY <3>1, InsertHeadProperties, ZenonT(20)
    <3>3. QED BY <3>2 DEF h
  <2>3. QED BY <2>1, <2>2
<1> HIDE DEF h, l
<1>12. Len(arena') = Len(a)
  BY <1>4, <1>11
<1>13. TrackedPages' = TrackedPages \cup {p} /\ p \notin TrackedPages
  BY <1>1, <1>4, <1>5 DEF TrackedPages, None
<1>14. \A q \in TrackedPages : pages'[q] = pages[q]
  BY <1>1, <1>4 DEF TrackedPages
<1>15. Live' = Live \cup {idx}
  <2>1. pages'[p] = idx
    BY <1>1, <1>4
  <2>2. QED BY <1>13, <1>14, <2>1 DEF Live
<1>16. /\ free_list' \in Seq(1 .. Len(arena))
       /\ Len(free_list') \in Nat
       /\ reuse => Len(free_list) >= 1 /\ Len(free_list') = Len(free_list) - 1
       /\ ~reuse => Len(free_list') = Len(free_list)
       /\ \A i \in 1 .. Len(free_list') : free_list'[i] = free_list[i]
  <2>1. CASE reuse
    <3>1. \A i \in 1 .. Len(free_list) - 1 : free_list[i] \in 1 .. Len(arena)
      BY <1>1, ElementOfSeq
    <3>2. free_list' = SubSeq(free_list, 1, Len(free_list) - 1)
      BY <1>4, <2>1
    <3>3. /\ free_list' \in Seq(1 .. Len(arena))
          /\ Len(free_list') = Len(free_list) - 1
          /\ \A i \in 1 .. Len(free_list) - 1 : free_list'[i] = free_list[i]
      <4>1. Len(free_list) - 1 \in Int /\ Len(free_list) >= 1
        BY <1>1, <1>2, <2>1
      <4>2. /\ free_list' \in Seq(1 .. Len(arena))
            /\ Len(free_list') = IF 1 <= Len(free_list) - 1
                                 THEN (Len(free_list) - 1) - 1 + 1 ELSE 0
            /\ \A i \in 1 .. (Len(free_list) - 1) - 1 + 1 :
                 free_list'[i] = free_list[1 + i - 1]
        BY <4>1, <3>1, <3>2, SubSeqProperties
      <4>3. Len(free_list') = Len(free_list) - 1
        <5> DEFINE k == Len(free_list)
        <5>1. k \in Nat /\ k >= 1
          BY <1>1, <4>1
        <5>2. Len(free_list') = IF 1 <= k - 1 THEN (k - 1) - 1 + 1 ELSE 0
          BY <4>2
        <5> HIDE DEF k
        <5>3. Len(free_list') = k - 1
          BY <5>1, <5>2
        <5>4. QED BY <5>3 DEF k
      <4>4. ASSUME NEW i \in 1 .. Len(free_list) - 1
            PROVE  free_list'[i] = free_list[i]
        <5>1. i \in 1 .. (Len(free_list) - 1) - 1 + 1 /\ 1 + i - 1 = i
          BY <1>1
        <5>2. QED BY <4>2, <5>1
      <4>5. QED BY <4>2, <4>3, <4>4
    <3>4. Len(free_list) >= 1
      BY <1>1, <1>2, <2>1
    <3>5. QED BY <1>1, <2>1, <3>3, <3>4
  <2>2. CASE ~reuse
    BY <1>1, <1>4, <2>2
  <2>3. QED BY <2>1, <2>2
<1>17. Len(free_list') <= Len(free_list)
  BY <1>1, <1>16
<1>18. TypeOK'
  <2>1. pages' \in [PageIds -> Nat]
    BY <1>1, <1>4, <1>5
  <2>2. arena' \in Seq(LruNode) /\ head_idx' \in 0 .. Len(arena')
        /\ tail_idx' \in 0 .. Len(arena')
    BY <1>4, <1>11 DEF Lists
  <2>3. free_list' \in Seq(1 .. Len(arena'))
    BY <1>1, <1>6, <1>12, <1>16, SeqMonotonic
  <2>4. QED BY <1>4, <2>1, <2>2, <2>3 DEF TypeOK, IInv
<1>19. SlotsPartitioned'
  <2>1. ASSUME NEW q \in TrackedPages'
        PROVE  pages'[q] <= Len(arena') /\ arena'[pages'[q]].page_id = q
    <3>1. CASE q = p
      BY <3>1, <1>1, <1>3, <1>4, <1>6, <1>11, <1>12
    <3>2. CASE q # p
      <4>1. q \in TrackedPages /\ pages'[q] = pages[q] /\ pages[q] \in Live
        BY <3>2, <1>13, <1>14 DEF Live
      <4>2. pages[q] <= Len(arena) /\ arena[pages[q]].page_id = q
        BY <4>1 DEF IInv, SlotsPartitioned
      <4>3. pages[q] \in 1 .. Len(a) /\ a[pages[q]] = arena[pages[q]]
        <5>1. pages[q] \in 1 .. Len(arena) /\ pages[q] # idx
          BY <4>1, <1>5, <1>9
        <5>2. pages[q] \in 1 .. Len(a)
          BY <5>1, <1>1, <1>6
        <5>3. QED BY <5>1, <5>2, <1>6
      <4>4. QED BY <4>1, <4>2, <4>3, <1>4, <1>11, <1>12
    <3>3. QED BY <3>1, <3>2
  <2>2. \A i, j \in 1 .. Len(free_list) : free_list[i] = free_list[j] => i = j
    BY DEF IInv, SlotsPartitioned
  <2>3. \A i \in 1 .. Len(free_list') : i \in 1 .. Len(free_list)
                                       /\ free_list'[i] = free_list[i]
    BY <1>1, <1>16, <1>17
  <2>4. \A i \in 1 .. Len(free_list') : free_list'[i] # idx
    <3>1. CASE reuse
      <4>1. idx = free_list[Len(free_list)]
        BY <3>1 DEF idx
      <4>2. \A i \in 1 .. Len(free_list') : i # Len(free_list)
        BY <3>1, <1>1, <1>16, <1>17
      <4>3. QED BY <3>1, <4>1, <4>2, <1>2, <2>2, <2>3
    <3>2. CASE ~reuse
      <4>1. free_list = <<>> /\ Len(free_list) = 0
        BY <3>2, EmptySeq
      <4>2. QED BY <3>2, <4>1, <1>16, <1>17
    <3>3. QED BY <3>1, <3>2
  <2>5. \A i \in 1 .. Len(free_list') : free_list'[i] \notin Live'
    BY <1>15, <2>3, <2>4 DEF IInv, SlotsPartitioned
  <2>6. \A i, j \in 1 .. Len(free_list') : free_list'[i] = free_list'[j] => i = j
    BY <2>2, <2>3
  <2>7. ASSUME NEW s \in 1 .. Len(arena')
        PROVE  s \in Live' \/ \E i \in 1 .. Len(free_list') : free_list'[i] = s
    <3>1. CASE s = idx
      BY <3>1, <1>15
    <3>2. CASE s # idx
      <4>1. s \in 1 .. Len(arena)
        BY <3>2, <1>6, <1>12
      <4>2. CASE s \in Live
        BY <4>2, <1>15
      <4>3. CASE \E i \in 1 .. Len(free_list) : free_list[i] = s
        <5>1. PICK i \in 1 .. Len(free_list) : free_list[i] = s
          BY <4>3
        <5>2. reuse => i # Len(free_list)
          BY <3>2, <5>1 DEF idx
        <5>3. i \in 1 .. Len(free_list')
          BY <5>1, <5>2, <1>1, <1>16, <1>17
        <5>4. QED BY <5>1, <5>3, <2>3
      <4>4. QED BY <4>1, <4>2, <4>3 DEF IInv, SlotsPartitioned
    <3>3. QED BY <3>1, <3>2
  <2>8. QED BY <2>1, <2>5, <2>6, <2>7 DEF SlotsPartitioned
<1>20. LiveLinked'
  <2>1. List' = [arena |-> h.arena, head |-> h.head, tail |-> h.tail]
    BY <1>4 DEF List
  <2>2. QED BY <1>11, <1>15, <2>1 DEF LiveLinked, Linked
<1>21. SlotsCounted' /\ ArenaBounded'
  <2>1. Size' = Size + 1 /\ Size \in Nat
    BY <1>13, StateFacts, FS_AddElement DEF Size
  <2>2. SlotsCounted /\ ArenaBounded /\ Capacity \in Nat
    BY ReplacerAssumption DEF IInv
  <2>3. CASE reuse
    <3>1. Len(arena') = Len(arena) /\ Len(free_list') = Len(free_list) - 1
      BY <2>3, <1>6, <1>12, <1>16
    <3>2. QED BY <2>1, <2>2, <3>1, <1>1 DEF SlotsCounted, ArenaBounded
  <2>4. CASE ~reuse
    <3>1. Len(free_list) = 0
      BY <2>4, EmptySeq
    <3>2. QED
      BY <2>1, <2>2, <2>4, <3>1, <1>1, <1>4, <1>6, <1>12, <1>16
         DEF SlotsCounted, ArenaBounded
  <2>5. QED BY <2>3, <2>4
<1>22. QED BY <1>18, <1>19, <1>20, <1>21 DEF IInv

-----------------------------------------------------------------------------
(* evict_if follows prev from the tail, so it only ever visits live slots. *)
(* The least position of the walk outside Live has a live predecessor      *)
(* whose prev link leaves Live, which LiveLinked excludes.                 *)
LEMMA WalkIsLive ==
  ASSUME IInv, NEW n \in 1 .. Len(arena), NEW w \in TailWalks(n)
  PROVE  w[n] \in Live
<1> DEFINE Bad == {i \in 1 .. n : w[i] \notin Live}
<1>1. /\ n \in Nat /\ n > 0
      /\ w \in [1 .. n -> 1 .. Len(arena)] /\ w[1] = tail_idx
      /\ \A i \in 1 .. n - 1 : w[i + 1] = arena[w[i]].prev
  BY StateFacts DEF TailWalks
<1>2. w[1] \in Live
  BY <1>1, StateFacts DEF IInv, LiveLinked, Linked, None
<1>3. ASSUME NEW i \in 1 .. n - 1, w[i] \in Live
      PROVE  w[i + 1] \in Live
  <2>1. w[i + 1] \in 1 .. Len(arena) /\ w[i + 1] = arena[w[i]].prev
    BY <1>1
  <2>2. arena[w[i]].prev # None
    BY <2>1, StateFacts DEF None
  <2>3. QED BY <1>3, <2>1, <2>2, StateFacts DEF IInv, LiveLinked, Linked
<1>4. Bad = {}
  <2>1. SUFFICES ASSUME Bad # {} PROVE FALSE
    OBVIOUS
  <2>2. Bad \subseteq Nat
    BY <1>1
  <2>3. PICK m \in Bad : \A i \in Bad : ~ (<<i, m>> \in OpToRel(<, Nat))
    BY <2>1, <2>2, NatLessThanWellFounded, WFMin
  <2>4. \A i \in Bad : ~ (i < m)
    BY <2>2, <2>3 DEF OpToRel
  <2>5. m \in 2 .. n
    BY <1>1, <1>2
  <2>6. m - 1 \in 1 .. n /\ m - 1 \notin Bad
    BY <1>1, <2>4, <2>5
  <2>7. w[m - 1] \in Live /\ m - 1 \in 1 .. n - 1 /\ (m - 1) + 1 = m
    BY <1>1, <2>5, <2>6
  <2>8. w[(m - 1) + 1] \in Live
    BY <1>3, <2>7
  <2>9. QED BY <2>7, <2>8
<1>5. QED BY <1>1, <1>4

(* Every call on the replacer preserves the invariant.                     *)
LEMMA NextIInv == IInv /\ [Next]_vars => IInv'
<1> SUFFICES ASSUME IInv, [Next]_vars PROVE IInv'
  OBVIOUS
<1> DEFINE Calls == {"new", "record_access", "remove", "evict", "evict_if"}
                    \X (PageIds \cup {NoPage})
<1>1. ASSUME NEW p \in PageIds, AccessTracked(p) PROVE IInv'
  BY <1>1, AccessTrackedIInv
<1>2. ASSUME NEW p \in PageIds, AccessNew(p) PROVE IInv'
  BY <1>2, AccessNewIInv
<1>3. ASSUME NothingReleased, pinned' \in SUBSET PageIds, last' \in Calls PROVE IInv'
  <2>1. TypeOK'
    BY <1>3 DEF IInv, TypeOK, NothingReleased
  <2>2. TrackedPages' = TrackedPages /\ Live' = Live /\ List' = List /\ Size' = Size
    BY <1>3 DEF TrackedPages, Live, List, Size, NothingReleased
  <2>3. SlotsPartitioned'
    BY <1>3, <2>2 DEF IInv, SlotsPartitioned, NothingReleased
  <2>4. LiveLinked'
    BY <2>2 DEF IInv, LiveLinked, Linked
  <2>5. SlotsCounted' /\ ArenaBounded'
    BY <1>3, <2>2 DEF IInv, SlotsCounted, ArenaBounded, NothingReleased
  <2>6. QED BY <2>1, <2>3, <2>4, <2>5 DEF IInv
<1>4. ASSUME NEW p \in PageIds, Remove(p) PROVE IInv'
  <2>1. pinned' = pinned /\ last' \in Calls
    BY <1>4 DEF Remove
  <2>2. CASE pages[p] # None
    <3>1. pages[p] \in Live /\ Release(pages[p])
      BY <1>4, <2>2 DEF Remove, Live, TrackedPages
    <3>2. QED BY <2>1, <3>1, ReleaseIInv
  <2>3. CASE pages[p] = None
    BY <1>3, <1>4, <2>1, <2>3 DEF Remove, IInv, TypeOK
  <2>4. QED BY <2>2, <2>3
<1>5. CASE Evict
  <2>1. CASE tail_idx # None
    <3>1. tail_idx \in Live
      BY <2>1, StateFacts DEF IInv, LiveLinked, Linked
    <3>2. arena[tail_idx].page_id \in PageIds
      BY <3>1, StateFacts DEF TrackedPages
    <3>3. Release(tail_idx) /\ pinned' = pinned /\ last' \in Calls
      BY <1>5, <2>1, <3>2 DEF Evict
    <3>4. QED BY <3>1, <3>3, ReleaseIInv
  <2>2. CASE tail_idx = None
    <3>1. NothingReleased /\ pinned' = pinned /\ last' \in Calls
      BY <1>5, <2>2 DEF Evict
    <3>2. QED BY <1>3, <3>1 DEF IInv, TypeOK
  <2>3. QED BY <2>1, <2>2
<1>6. CASE EvictIfFound
  <2>0. PICK n \in 1 .. Len(arena) : \E w \in TailWalks(n) :
          Release(w[n]) /\ last' = <<"evict_if", arena[w[n]].page_id>>
    BY <1>6 DEF EvictIfFound
  <2>1. PICK w \in TailWalks(n) :
          Release(w[n]) /\ last' = <<"evict_if", arena[w[n]].page_id>>
    BY <2>0
  <2>2. w[n] \in Live
    BY <2>1, WalkIsLive
  <2>3. arena[w[n]].page_id \in PageIds
    BY <2>2, StateFacts DEF TrackedPages
  <2>4. pinned' = pinned /\ last' \in Calls
    BY <1>6, <2>1, <2>3 DEF EvictIfFound
  <2>5. QED BY <2>1, <2>2, <2>4, ReleaseIInv
<1>7. CASE EvictIfNone
  <2>1. NothingReleased /\ pinned' = pinned /\ last' \in Calls
    BY <1>7 DEF EvictIfNone
  <2>2. QED BY <1>3, <2>1 DEF IInv, TypeOK
<1>8. CASE Repin
  <2>1. NothingReleased /\ pinned' \in SUBSET PageIds /\ last' \in Calls
    BY <1>8 DEF Repin, NothingReleased, IInv, TypeOK
  <2>2. QED BY <1>3, <2>1
<1>9. CASE UNCHANGED vars
  <2>1. NothingReleased /\ pinned' \in SUBSET PageIds /\ last' \in Calls
    BY <1>9 DEF vars, NothingReleased, IInv, TypeOK
  <2>2. QED BY <1>3, <2>1
<1>10. QED
  BY <1>1, <1>2, <1>4, <1>5, <1>6, <1>7, <1>8, <1>9 DEF Next

(* The invariant holds in every reachable state.                           *)
LEMMA Inductive == Spec => []IInv
BY InitIInv, NextIInv, PTL DEF Spec

(* The replacer's fields keep their types, and head, tail and free_list    *)
(* stay inside the arena.                                                  *)
THEOREM TypeCorrect == Spec => []TypeOK
<1>1. IInv => TypeOK
  BY DEF IInv
<1>2. QED BY <1>1, Inductive, PTL

(* No arena slot leaks and none is reused while a page maps to it.         *)
THEOREM SlotsNeverLeak == Spec => []SlotsPartitioned
<1>1. IInv => SlotsPartitioned
  BY DEF IInv
<1>2. QED BY <1>1, Inductive, PTL

(* insert_head and unlink keep the list over exactly the tracked pages.    *)
THEOREM ListStaysLinked == Spec => []LiveLinked
<1>1. IInv => LiveLinked
  BY DEF IInv
<1>2. QED BY <1>1, Inductive, PTL

(* The arena never grows past the capacity it was allocated with.          *)
THEOREM ArenaStaysBounded == Spec => []ArenaBounded
<1>1. IInv => ArenaBounded
  BY DEF IInv
<1>2. QED BY <1>1, Inductive, PTL

-----------------------------------------------------------------------------
(* The list runs from its head to its tail over the slots of s.            *)
Threaded(l, s) ==
  /\ l.head = IF Len(s) = 0 THEN None ELSE s[1]
  /\ l.tail = IF Len(s) = 0 THEN None ELSE s[Len(s)]
  /\ \A i \in 1 .. Len(s) : l.arena[s[i]].prev = IF i = 1 THEN None ELSE s[i - 1]

(* ... and these are the slots of L, each once.                            *)
Runs(l, L, s) ==
  /\ s \in Seq(L) /\ TrackedOnce(s) /\ Tracked(s) = L
  /\ Threaded(l, s)

(* unlink takes a slot out of the run of the list.                         *)
LEMMA UnlinkRuns ==
  ASSUME NEW l \in Lists, NEW L \in SUBSET (1 .. Len(l.arena)), NEW idx \in L,
         Linked(l, L), NEW s, Runs(l, L, s)
  PROVE  Runs(Unlink(l, idx), L \ {idx}, Drop(s, idx))
<1> DEFINE d == Drop(s, idx)
           u == Unlink(l, idx)
           p == l.arena[idx].prev
           x == l.arena[idx].next
<1>1. PICK n \in Nat : n = Len(s)
  BY LenProperties DEF Runs
<1>2. /\ \A i \in 1 .. n : s[i] \in L /\ s[i] # None
      /\ \A i, j \in 1 .. n : s[i] = s[j] => i = j
      /\ l.head = IF n = 0 THEN None ELSE s[1]
      /\ l.tail = IF n = 0 THEN None ELSE s[n]
      /\ \A i \in 1 .. n : l.arena[s[i]].prev = IF i = 1 THEN None ELSE s[i - 1]
  <2>1. s \in Seq(L)
    BY DEF Runs
  <2>2. \A i \in 1 .. n : s[i] \in L
    BY <1>1, <2>1
  <2>3. \A i \in L : i # None
    BY DEF None
  <2>4. QED BY <1>1, <2>2, <2>3 DEF Runs, Threaded, TrackedOnce
<1>3. PICK k \in 1 .. n : s[k] = idx
  BY <1>1 DEF Runs, Tracked
<1>4. p = IF k = 1 THEN None ELSE s[k - 1]
  BY <1>2, <1>3
<1>5. x = IF k = n THEN None ELSE s[k + 1]
  <2>1. CASE k = n
    BY <1>2, <1>3, <2>1 DEF Linked
  <2>2. CASE k # n
    <3>1. k + 1 \in 1 .. n /\ (k + 1) - 1 = k /\ k + 1 # 1
      BY <2>2
    <3>2. s[k + 1] \in L /\ l.arena[s[k + 1]].prev = idx /\ idx # None
      BY <1>2, <1>3, <3>1
    <3>3. l.arena[idx].next = s[k + 1]
      BY <3>2 DEF Linked
    <3>4. QED BY <2>2, <3>3
  <2>3. QED BY <2>1, <2>2
<1>6. /\ d \in Seq(L \ {idx}) /\ TrackedOnce(d) /\ Tracked(d) = L \ {idx}
      /\ Len(d) = n - 1
      /\ \A j \in 1 .. n - 1 : /\ j < k => d[j] = s[j]
                               /\ j >= k => d[j] = s[j + 1]
  <2>1. s \in Seq(L) /\ TrackedOnce(s) /\ Tracked(s) = L
    BY DEF Runs
  <2>2. d \in Seq(L) /\ TrackedOnce(d) /\ Tracked(d) = L \ {idx}
    BY <2>1, DropProperties
  <2>3. /\ Len(d) = n - 1
        /\ \A j \in 1 .. n - 1 : /\ j < k => d[j] = s[j]
                                 /\ j >= k => d[j] = s[j + 1]
    BY <1>1, <1>3, <2>1, DropPlaces
  <2> HIDE DEF d
  <2>4. \A j \in 1 .. Len(d) : d[j] \in L \ {idx}
    BY <2>2 DEF Tracked
  <2>5. d \in Seq(L \ {idx})
    BY <2>2, <2>4
  <2>6. QED BY <2>2, <2>3, <2>5
<1>7. \A i \in 1 .. Len(l.arena) :
        u.arena[i].prev = IF i = x THEN p ELSE l.arena[i].prev
  BY UnlinkProperties
<1>8. /\ u.head = IF p = None THEN x ELSE l.head
      /\ u.tail = IF x = None THEN p ELSE l.tail
  BY DEF Unlink
<1> HIDE DEF d, u, p, x
<1>9. u.head = IF Len(d) = 0 THEN None ELSE d[1]
  BY <1>2, <1>3, <1>4, <1>5, <1>6, <1>8
<1>10. u.tail = IF Len(d) = 0 THEN None ELSE d[Len(d)]
  BY <1>2, <1>3, <1>4, <1>5, <1>6, <1>8
<1>11. ASSUME NEW j \in 1 .. Len(d)
       PROVE  u.arena[d[j]].prev = IF j = 1 THEN None ELSE d[j - 1]
  <2>1. j \in 1 .. n - 1
    BY <1>6
  <2>2. CASE j < k
    <3>1. d[j] = s[j] /\ j \in 1 .. n
      BY <1>6, <2>1, <2>2
    <3>2. s[j] # x
      BY <1>2, <1>5, <2>2, <3>1
    <3>3. u.arena[s[j]].prev = l.arena[s[j]].prev
      BY <1>2, <1>7, <3>1, <3>2
    <3>4. j # 1 => d[j - 1] = s[j - 1]
      BY <1>6, <2>1, <2>2
    <3>5. QED BY <1>2, <3>1, <3>3, <3>4
  <2>3. CASE j = k
    <3>1. d[j] = s[j + 1] /\ j + 1 \in 1 .. n /\ x = s[j + 1]
      BY <1>5, <1>6, <2>1, <2>3
    <3>2. u.arena[d[j]].prev = p
      BY <1>2, <1>7, <3>1
    <3>3. j # 1 => d[j - 1] = s[j - 1]
      BY <1>6, <2>1, <2>3
    <3>4. QED BY <1>4, <2>3, <3>2, <3>3
  <2>4. CASE j > k
    <3>1. d[j] = s[j + 1] /\ j + 1 \in 1 .. n /\ (j + 1) - 1 = j /\ j + 1 # 1
      BY <1>6, <2>1, <2>4
    <3>2. s[j + 1] # x
      BY <1>2, <1>5, <2>4, <3>1
    <3>3. u.arena[s[j + 1]].prev = s[j]
      BY <1>2, <1>7, <3>1, <3>2
    <3>4. j # 1 /\ j - 1 \in 1 .. n - 1 /\ j - 1 >= k /\ (j - 1) + 1 = j
      BY <2>1, <2>4
    <3>5. d[j - 1] = s[j]
      BY <1>6, <3>4
    <3>6. QED BY <3>1, <3>3, <3>4, <3>5
  <2>5. QED BY <2>1, <2>2, <2>3, <2>4
<1>12. QED BY <1>6, <1>9, <1>10, <1>11 DEF Runs, Threaded, d, u

(* insert_head puts a slot in front of it.                                 *)
LEMMA InsertHeadRuns ==
  ASSUME NEW l \in Lists, NEW L \in SUBSET (1 .. Len(l.arena)),
         NEW idx \in 1 .. Len(l.arena), idx \notin L,
         Linked(l, L), NEW s, Runs(l, L, s)
  PROVE  Runs(InsertHead(l, idx), L \cup {idx}, <<idx>> \o s)
<1> DEFINE M == L \cup {idx}
           t == <<idx>> \o s
           u == InsertHead(l, idx)
<1>1. s \in Seq(L) /\ TrackedOnce(s) /\ Tracked(s) = L
  BY DEF Runs
<1>2. PICK n \in Nat : n = Len(s)
  BY <1>1, LenProperties
<1>3. /\ \A i \in 1 .. n : s[i] \in L /\ s[i] # None /\ s[i] # idx /\ s[i] \in 1 .. Len(l.arena)
      /\ \A i, j \in 1 .. n : s[i] = s[j] => i = j
      /\ l.head = IF n = 0 THEN None ELSE s[1]
      /\ l.tail = IF n = 0 THEN None ELSE s[n]
      /\ \A i \in 1 .. n : l.arena[s[i]].prev = IF i = 1 THEN None ELSE s[i - 1]
  <2>1. \A i \in 1 .. n : s[i] \in L
    BY <1>1, <1>2
  <2>2. \A i \in L : i # None /\ i # idx /\ i \in 1 .. Len(l.arena)
    BY DEF None
  <2>3. \A i, j \in 1 .. n : s[i] = s[j] => i = j
    BY <1>1, <1>2 DEF TrackedOnce
  <2>4. /\ l.head = IF n = 0 THEN None ELSE s[1]
        /\ l.tail = IF n = 0 THEN None ELSE s[n]
        /\ \A i \in 1 .. n : l.arena[s[i]].prev = IF i = 1 THEN None ELSE s[i - 1]
    BY <1>2, Zenon DEF Runs, Threaded
  <2>5. QED BY <2>1, <2>2, <2>3, <2>4
<1>4. s \in Seq(M) /\ idx \in M
  <2>1. L \subseteq M /\ idx \in M
    OBVIOUS
  <2> HIDE DEF M
  <2>2. \A i \in 1 .. Len(s) : s[i] \in M
    BY <1>2, <1>3, <2>1
  <2>3. QED BY <1>1, <2>1, <2>2
<1>5. t \in Seq(M) /\ TrackedOnce(t) /\ Tracked(t) = M
  <2>1. Drop(s, idx) = s
    BY <1>1 DEF Drop
  <2>2. /\ Touch(s, idx) \in Seq(M) /\ TrackedOnce(Touch(s, idx))
        /\ Tracked(Touch(s, idx)) = Tracked(s) \cup {idx}
    BY <1>1, <1>4, TouchProperties
  <2>3. QED BY <1>1, <2>1, <2>2 DEF Touch
<1>6. Len(t) = n + 1 /\ t[1] = idx /\ \A j \in 1 .. n : t[j + 1] = s[j]
  BY <1>2, <1>4, FrontPlaces
<1>7. \A i \in 1 .. Len(l.arena) :
        u.arena[i].prev = IF i = l.head THEN idx ELSE IF i = idx THEN None ELSE l.arena[i].prev
  <2>1. \A i \in 1 .. Len(l.arena) :
          /\ u.arena[i].page_id = l.arena[i].page_id
          /\ u.arena[i].prev =
               IF i = l.head THEN idx ELSE IF i = idx THEN None ELSE l.arena[i].prev
    BY InsertHeadProperties, Zenon
  <2>2. QED BY <2>1, Zenon
<1>8. u.head = idx /\ u.tail = IF l.head = None THEN idx ELSE l.tail
  BY DEF InsertHead
<1> HIDE DEF t, u, M
<1>9. idx # None /\ l.head # idx
  BY <1>3 DEF None
<1>10. u.tail = t[n + 1]
  BY <1>3, <1>6, <1>8
<1>11. ASSUME NEW j \in 1 .. n + 1
       PROVE  u.arena[t[j]].prev = IF j = 1 THEN None ELSE t[j - 1]
  <2>1. CASE j = 1
    BY <1>6, <1>7, <1>9, <2>1
  <2>2. CASE j = 2
    <3>1. t[2] = s[1] /\ 1 \in 1 .. n
      BY <1>6, <2>2
    <3>2. s[1] = l.head
      BY <1>3, <3>1
    <3>3. s[1] \in 1 .. Len(l.arena)
      BY <1>3, <3>1
    <3>4. u.arena[s[1]].prev = idx
      BY <1>7, <3>2, <3>3
    <3>5. QED BY <1>6, <2>2, <3>1, <3>4
  <2>3. CASE j > 2
    <3>1. PICK i \in 2 .. n : j = i + 1 /\ i - 1 \in 1 .. n /\ i = (i - 1) + 1
      <4>1. j - 1 \in 2 .. n /\ j = (j - 1) + 1 /\ (j - 1) - 1 \in 1 .. n
        BY <2>3
      <4>2. QED BY <4>1
    <3>2. t[j] = s[i] /\ t[i] = s[i - 1]
      BY <1>6, <3>1
    <3>3. i \in 1 .. n /\ 1 \in 1 .. n /\ n # 0 /\ i # 1
      BY <3>1
    <3>4. s[i] # s[1] /\ s[1] = l.head
      BY <1>3, <3>3
    <3>5. s[i] # idx /\ s[i] \in 1 .. Len(l.arena) /\ l.arena[s[i]].prev = s[i - 1]
      BY <1>3, <3>3
    <3>6. u.arena[s[i]].prev = s[i - 1]
      BY <1>7, <3>4, <3>5
    <3>7. QED BY <2>3, <3>1, <3>2, <3>6
  <2>4. QED BY <2>1, <2>2, <2>3
<1>12. QED BY <1>5, <1>6, <1>8, <1>10, <1>11 DEF Runs, Threaded, t, u, M

-----------------------------------------------------------------------------
(* The pages that a sequence of slots holds.                               *)
PagesAt(a, s) == [i \in 1 .. Len(s) |-> a[s[i]].page_id]

(* Where slots hold different pages, dropping a slot drops its page.       *)
LEMMA PagesAtDrop ==
  ASSUME NEW L, NEW s \in Seq(L), TrackedOnce(s), NEW a, NEW b, NEW idx \in Tracked(s),
         \A i \in Tracked(s) : b[i].page_id = a[i].page_id,
         TrackedOnce(PagesAt(a, s)), PagesAt(a, s) \in Seq(PageIds)
  PROVE  PagesAt(b, Drop(s, idx)) = Drop(PagesAt(a, s), a[idx].page_id)
<1> DEFINE r == PagesAt(a, s)
           e == PagesAt(b, Drop(s, idx))
           d == Drop(r, a[idx].page_id)
<1>1. PICK n \in Nat : n = Len(s)
  BY LenProperties
<1>2. PICK k \in 1 .. n : s[k] = idx
  BY <1>1 DEF Tracked
<1>3. Len(r) = n /\ \A j \in 1 .. n : r[j] = a[s[j]].page_id
  BY <1>1 DEF PagesAt
<1>4. /\ Len(Drop(s, idx)) = n - 1
      /\ \A j \in 1 .. n - 1 : /\ j < k => Drop(s, idx)[j] = s[j]
                               /\ j >= k => Drop(s, idx)[j] = s[j + 1]
  BY <1>1, <1>2, DropPlaces
<1> HIDE DEF r
<1>5. r[k] = a[idx].page_id
  BY <1>2, <1>3
<1>6. /\ d \in Seq(PageIds) /\ Len(d) = n - 1
      /\ \A j \in 1 .. n - 1 : /\ j < k => d[j] = r[j]
                               /\ j >= k => d[j] = r[j + 1]
  <2>1. r \in Seq(PageIds) /\ TrackedOnce(r)
    BY DEF r
  <2>2. k \in 1 .. Len(r)
    BY <1>3
  <2>3. /\ Drop(r, r[k]) \in Seq(PageIds) /\ Len(Drop(r, r[k])) = Len(r) - 1
        /\ \A j \in 1 .. Len(r) - 1 : /\ j < k => Drop(r, r[k])[j] = r[j]
                                      /\ j >= k => Drop(r, r[k])[j] = r[j + 1]
    BY <2>1, <2>2, DropPlaces
  <2>4. QED BY <1>3, <1>5, <2>3
<1> HIDE DEF d
<1>7. ASSUME NEW j \in 1 .. n - 1 PROVE b[Drop(s, idx)[j]].page_id = d[j]
  <2>1. \A i \in 1 .. n : b[s[i]].page_id = r[i]
    BY <1>1, <1>3 DEF Tracked
  <2>2. CASE j < k
    BY <1>4, <1>6, <2>1, <2>2
  <2>3. CASE j >= k
    <3>1. j + 1 \in 1 .. n
      OBVIOUS
    <3>2. QED BY <1>4, <1>6, <2>1, <2>3, <3>1
  <2>4. QED BY <2>2, <2>3
<1>8. e = [j \in 1 .. n - 1 |-> d[j]]
  BY <1>4, <1>7 DEF PagesAt
<1>9. d = [j \in 1 .. n - 1 |-> d[j]]
  BY <1>6
<1>10. QED BY <1>8, <1>9 DEF d, r

(* A slot in front of the others puts its page in front of theirs.         *)
LEMMA PagesAtFront ==
  ASSUME NEW L, NEW s \in Seq(L), NEW idx \in L, NEW a, NEW b,
         \A i \in Tracked(s) : b[i].page_id = a[i].page_id,
         PagesAt(a, s) \in Seq(PageIds), b[idx].page_id \in PageIds
  PROVE  PagesAt(b, <<idx>> \o s) = <<b[idx].page_id>> \o PagesAt(a, s)
<1> DEFINE r == PagesAt(a, s)
           t == <<idx>> \o s
           f == <<b[idx].page_id>> \o r
<1>1. PICK n \in Nat : n = Len(s)
  BY LenProperties
<1>2. Len(r) = n /\ \A j \in 1 .. n : r[j] = a[s[j]].page_id
  BY <1>1 DEF PagesAt
<1>3. Len(t) = n + 1 /\ t[1] = idx /\ \A j \in 1 .. n : t[j + 1] = s[j]
  BY <1>1, FrontPlaces
<1> HIDE DEF r, t
<1>4. /\ f \in Seq(PageIds) /\ Len(f) = n + 1 /\ f[1] = b[idx].page_id
      /\ \A j \in 1 .. n : f[j + 1] = r[j]
  <2>1. r \in Seq(PageIds)
    BY DEF r
  <2>2. QED BY <1>2, <2>1, FrontPlaces
<1> HIDE DEF f
<1>5. ASSUME NEW j \in 1 .. n + 1 PROVE b[t[j]].page_id = f[j]
  <2>1. CASE j = 1
    BY <1>3, <1>4, <2>1
  <2>2. CASE j > 1
    <3>1. PICK i \in 1 .. n : j = i + 1
      <4>1. j - 1 \in 1 .. n /\ j = (j - 1) + 1
        BY <2>2
      <4>2. QED BY <4>1
    <3>2. t[j] = s[i] /\ f[j] = r[i] /\ s[i] \in Tracked(s)
      BY <1>1, <1>3, <1>4, <3>1 DEF Tracked
    <3>3. QED BY <1>2, <3>2
  <2>3. QED BY <2>1, <2>2
<1>6. PagesAt(b, t) = [j \in 1 .. n + 1 |-> f[j]]
  BY <1>3, <1>5 DEF PagesAt
<1>7. f = [j \in 1 .. n + 1 |-> f[j]]
  BY <1>4
<1>8. QED BY <1>6, <1>7 DEF f, t, r

-----------------------------------------------------------------------------
(* What a run says place by place.                                         *)
LEMMA RunFacts ==
  ASSUME IInv, NEW s, Runs(List, Live, s)
  PROVE  /\ s \in Seq(Live) /\ Len(s) \in Nat /\ TrackedOnce(s) /\ Tracked(s) = Live
         /\ \A i \in 1 .. Len(s) : s[i] \in Live /\ s[i] \in 1 .. Len(arena) /\ s[i] # None
         /\ head_idx = IF Len(s) = 0 THEN None ELSE s[1]
         /\ tail_idx = IF Len(s) = 0 THEN None ELSE s[Len(s)]
         /\ \A i \in 1 .. Len(s) : arena[s[i]].prev = IF i = 1 THEN None ELSE s[i - 1]
<1>1. s \in Seq(Live) /\ TrackedOnce(s) /\ Tracked(s) = Live /\ Threaded(List, s)
  BY DEF Runs
<1>2. Len(s) \in Nat
  BY <1>1, LenProperties
<1>3. Live \in SUBSET (1 .. Len(arena))
      /\ List.arena = arena /\ List.head = head_idx /\ List.tail = tail_idx
  BY StateFacts
<1>4. \A i \in 1 .. Len(s) : s[i] \in Live /\ s[i] \in 1 .. Len(arena) /\ s[i] # None
  <2>1. \A i \in 1 .. Len(s) : s[i] \in Live
    BY <1>1 DEF Tracked
  <2>2. \A i \in Live : i \in 1 .. Len(arena) /\ i # None
    BY <1>3 DEF None
  <2>3. QED BY <2>1, <2>2
<1>5. /\ head_idx = IF Len(s) = 0 THEN None ELSE s[1]
      /\ tail_idx = IF Len(s) = 0 THEN None ELSE s[Len(s)]
      /\ \A i \in 1 .. Len(s) : arena[s[i]].prev = IF i = 1 THEN None ELSE s[i - 1]
  BY <1>1, <1>3, Zenon DEF Threaded
<1>6. QED BY <1>1, <1>2, <1>4, <1>5

(* The walk along prev from the tail meets the slots of the run backwards, *)
(* and stops at the head.                                                  *)
LEMMA WalkPlaces ==
  ASSUME IInv, NEW s, Runs(List, Live, s), NEW k \in Nat, NEW w \in TailWalks(k)
  PROVE  k <= Len(s) /\ \A i \in 1 .. k : w[i] = s[Len(s) + 1 - i]
<1> DEFINE Bad == {i \in 1 .. k : ~ (i <= Len(s) /\ w[i] = s[Len(s) + 1 - i])}
<1>1. PICK n \in Nat : n = Len(s)
  BY RunFacts
<1>2. /\ \A i \in 1 .. n : s[i] # None
      /\ tail_idx = IF n = 0 THEN None ELSE s[n]
      /\ \A i \in 1 .. n : arena[s[i]].prev = IF i = 1 THEN None ELSE s[i - 1]
  BY <1>1, RunFacts
<1>3. /\ \A i \in 1 .. k : w[i] # None
      /\ k > 0 => w[1] = tail_idx
      /\ \A i \in 1 .. k - 1 : w[i + 1] = arena[w[i]].prev
  <2>1. /\ w \in [1 .. k -> 1 .. Len(arena)]
        /\ k > 0 => w[1] = tail_idx
        /\ \A i \in 1 .. k - 1 : w[i + 1] = arena[w[i]].prev
    BY DEF TailWalks
  <2>2. \A i \in 1 .. Len(arena) : i # None
    BY DEF None
  <2>3. QED BY <2>1, <2>2
<1>4. Bad = {}
  <2>1. SUFFICES ASSUME Bad # {} PROVE FALSE
    OBVIOUS
  <2>2. Bad \subseteq Nat
    OBVIOUS
  <2>3. PICK m \in Bad : \A i \in Bad : ~ (<<i, m>> \in OpToRel(<, Nat))
    BY <2>1, <2>2, NatLessThanWellFounded, WFMin
  <2>4. m \in 1 .. k /\ ~ (m <= n /\ w[m] = s[n + 1 - m])
    BY <1>1, <2>3
  <2>5. \A i \in Bad : ~ (i < m)
    BY <2>2, <2>3 DEF OpToRel
  <2>6. m # 1
    <3>1. SUFFICES ASSUME m = 1 PROVE FALSE
      OBVIOUS
    <3>2. n # 0 /\ w[1] = s[n]
      BY <1>2, <1>3, <2>4, <3>1
    <3>3. n >= 1 /\ n + 1 - 1 = n
      BY <3>2
    <3>4. QED BY <2>4, <3>1, <3>2, <3>3
  <2>7. PICK j \in 1 .. k - 1 : m = j + 1
    <3>1. m - 1 \in 1 .. k - 1 /\ m = (m - 1) + 1
      BY <2>4, <2>6
    <3>2. QED BY <3>1
  <2>8. j <= n /\ w[j] = s[n + 1 - j]
    <3>1. j \in 1 .. k /\ j < m
      BY <2>7
    <3>2. j \notin Bad
      BY <2>5, <3>1
    <3>3. QED BY <1>1, <3>1, <3>2
  <2>9. n + 1 - j \in 1 .. n /\ (n + 1 - j) - 1 = n + 1 - m
    BY <2>7, <2>8
  <2>10. w[m] = arena[s[n + 1 - j]].prev /\ w[m] # None
    BY <1>3, <2>4, <2>7, <2>8
  <2>11. n + 1 - j # 1 /\ w[m] = s[n + 1 - m]
    BY <1>2, <2>9, <2>10
  <2>12. m <= n
    BY <2>7, <2>8, <2>11
  <2>13. QED BY <2>4, <2>11, <2>12
<1>5. \A i \in 1 .. k : i <= n /\ w[i] = s[n + 1 - i]
  BY <1>1, <1>4
<1>6. k <= n
  <2>1. k = 0 \/ k \in 1 .. k
    OBVIOUS
  <2>2. QED BY <1>5, <2>1
<1>7. QED BY <1>1, <1>5, <1>6

(* Every run of the list is read off as the recency order.                 *)
ReadOff ==
  \A s : Runs(List, Live, s) =>
    /\ Recency = PagesAt(arena, s)
    /\ Recency \in Seq(PageIds) /\ TrackedOnce(Recency)
    /\ Tracked(Recency) = TrackedPages
    /\ Len(Recency) = Size /\ Len(s) = Size

(* The walk of Size steps exists, and it is the run backwards.             *)
LEMMA RunsAreReadOff == IInv => ReadOff
<1> SUFFICES ASSUME IInv, NEW s, Runs(List, Live, s)
             PROVE  /\ Recency = PagesAt(arena, s)
                    /\ Recency \in Seq(PageIds) /\ TrackedOnce(Recency)
                    /\ Tracked(Recency) = TrackedPages
                    /\ Len(Recency) = Size /\ Len(s) = Size
  BY DEF ReadOff
<1> DEFINE r == PagesAt(arena, s)
<1>1. PICK n \in Nat : n = Len(s)
  BY RunFacts
<1>2. /\ \A i \in 1 .. n : s[i] \in Live /\ s[i] \in 1 .. Len(arena)
      /\ \A i, j \in 1 .. n : s[i] = s[j] => i = j
      /\ \A x \in Live : \E i \in 1 .. n : s[i] = x
      /\ tail_idx = IF n = 0 THEN None ELSE s[n]
      /\ \A i \in 1 .. n : arena[s[i]].prev = IF i = 1 THEN None ELSE s[i - 1]
  <2>1. TrackedOnce(s) /\ Tracked(s) = Live
    BY RunFacts
  <2>2. \A i \in 1 .. n : s[i] \in Live /\ s[i] \in 1 .. Len(arena)
    BY <1>1, RunFacts
  <2>3. /\ tail_idx = IF n = 0 THEN None ELSE s[n]
        /\ \A i \in 1 .. n : arena[s[i]].prev = IF i = 1 THEN None ELSE s[i - 1]
    BY <1>1, RunFacts
  <2>4. QED BY <1>1, <2>1, <2>2, <2>3, Zenon DEF Tracked, TrackedOnce
<1>3. r = [i \in 1 .. n |-> arena[s[i]].page_id]
  BY <1>1 DEF PagesAt
<1> HIDE DEF r
<1>4. /\ \A x \in Live : arena[x].page_id \in TrackedPages /\ pages[arena[x].page_id] = x
      /\ \A q \in TrackedPages : q \in PageIds /\ pages[q] \in Live
                                 /\ arena[pages[q]].page_id = q
  BY StateFacts DEF IInv, SlotsPartitioned, Live, TrackedPages
<1>5. r \in Seq(PageIds) /\ Len(r) = n
  <2>1. \A i \in 1 .. n : arena[s[i]].page_id \in PageIds
    BY <1>2, <1>4
  <2>2. QED BY <1>3, <2>1
<1>6. \A i, j \in 1 .. n : r[i] = r[j] => i = j
  <2>1. \A i \in 1 .. n : pages[r[i]] = s[i]
    BY <1>2, <1>3, <1>4
  <2>2. \A i, j \in 1 .. n : r[i] = r[j] => s[i] = s[j]
    BY <2>1, Zenon
  <2>3. \A i, j \in 1 .. n : s[i] = s[j] => i = j
    BY <1>2
  <2>4. QED BY <2>2, <2>3
<1>7. \A q \in TrackedPages : \E i \in 1 .. n : r[i] = q
  <2>1. ASSUME NEW q \in TrackedPages PROVE \E i \in 1 .. n : r[i] = q
    <3>1. PICK i \in 1 .. n : s[i] = pages[q]
      BY <1>2, <1>4
    <3>2. r[i] = q
      BY <1>3, <1>4, <3>1
    <3>3. QED BY <3>2
  <2>2. QED BY <2>1
<1>8. \A i \in 1 .. n : r[i] \in TrackedPages
  BY <1>2, <1>3, <1>4
<1>9. TrackedOnce(r) /\ Tracked(r) = TrackedPages
  BY <1>5, <1>6, <1>7, <1>8 DEF TrackedOnce, Tracked
<1>10. Size = n
  <2>1. r \in [1 .. n -> TrackedPages]
    BY <1>3, <1>8
  <2>2. r \in Injection(1 .. n, TrackedPages)
    BY <1>6, <2>1 DEF Injection, IsInjective
  <2>3. r \in Surjection(1 .. n, TrackedPages)
    BY <1>7, <2>1 DEF Surjection
  <2>4. ExistsBijection(1 .. n, TrackedPages)
    BY <2>2, <2>3 DEF ExistsBijection, Bijection
  <2>5. QED BY <2>4, FS_CountingElements DEF Size
<1>11. \E w : w \in TailWalks(n)
  <2> DEFINE b == [i \in 1 .. n |-> s[n + 1 - i]]
  <2>1. \A i \in 1 .. n : n + 1 - i \in 1 .. n
    OBVIOUS
  <2>2. b \in [1 .. n -> 1 .. Len(arena)]
    BY <1>2, <2>1
  <2>3. n > 0 => b[1] = tail_idx
    <3>1. n > 0 => 1 \in 1 .. n /\ n + 1 - 1 = n /\ n # 0
      OBVIOUS
    <3>2. QED BY <1>2, <3>1
  <2>4. ASSUME NEW i \in 1 .. n - 1 PROVE b[i + 1] = arena[b[i]].prev
    <3>1. /\ i \in 1 .. n /\ i + 1 \in 1 .. n /\ n + 1 - i \in 1 .. n /\ n + 1 - i # 1
          /\ (n + 1 - i) - 1 = n + 1 - (i + 1)
      OBVIOUS
    <3>2. b[i] = s[n + 1 - i] /\ b[i + 1] = s[n + 1 - (i + 1)]
      BY <3>1
    <3>3. QED BY <1>2, <3>1, <3>2
  <2>5. QED BY <2>2, <2>3, <2>4 DEF TailWalks
<1>12. Recency = r
  <2> DEFINE w == CHOOSE w \in TailWalks(n) : TRUE
  <2>1. w \in TailWalks(n)
    BY <1>11
  <2>2. Recency = [i \in 1 .. n |-> arena[w[n + 1 - i]].page_id]
    BY <1>10 DEF Recency
  <2> HIDE DEF w
  <2>3. \A i \in 1 .. n : w[i] = s[n + 1 - i]
    BY <1>1, <2>1, WalkPlaces
  <2>4. \A i \in 1 .. n : n + 1 - i \in 1 .. n /\ n + 1 - (n + 1 - i) = i
    OBVIOUS
  <2>5. \A i \in 1 .. n : w[n + 1 - i] = s[i]
    BY <2>3, <2>4
  <2>6. QED BY <1>3, <2>2, <2>5
<1>13. QED BY <1>1, <1>5, <1>9, <1>10, <1>12 DEF r

-----------------------------------------------------------------------------
(* The list runs over the tracked pages in some order.                     *)
OrderInv == \E s : Runs(List, Live, s)

(* remove, evict and evict_if take one page out of the order.              *)
LEMMA ReleaseOrder ==
  ASSUME IInv, ReadOff, ReadOff', NEW idx \in Live, Release(idx), NEW s, Runs(List, Live, s)
  PROVE  /\ OrderInv'
         /\ Recency' = Drop(Recency, arena[idx].page_id)
<1> DEFINE q == arena[idx].page_id
           u == Unlink(List, idx)
           d == Drop(s, idx)
<1>1. /\ List \in Lists /\ Live \in SUBSET (1 .. Len(List.arena)) /\ Linked(List, Live)
      /\ List.arena = arena
  BY StateFacts DEF IInv, LiveLinked
<1>2. Runs(u, Live \ {idx}, d)
  BY <1>1, UnlinkRuns
<1>3. \A i \in Live : u.arena[i].page_id = arena[i].page_id
  <2>1. \A i \in 1 .. Len(List.arena) : u.arena[i].page_id = List.arena[i].page_id
    BY <1>1, UnlinkProperties
  <2>2. QED BY <1>1, <2>1
<1>4. /\ arena' = u.arena /\ head_idx' = u.head /\ tail_idx' = u.tail
      /\ pages' = [pages EXCEPT ![q] = None]
  BY DEF Release, SetList
<1> HIDE DEF u
<1>5. Live' = Live \ {idx}
  <2>1. /\ \A x \in Live : arena[x].page_id \in TrackedPages /\ pages[arena[x].page_id] = x
        /\ \A p \in TrackedPages : p \in PageIds /\ pages[p] \in Live
                                   /\ arena[pages[p]].page_id = p
        /\ pages \in [PageIds -> Nat]
    BY StateFacts DEF IInv, TypeOK, SlotsPartitioned, Live, TrackedPages
  <2>2. q \in TrackedPages /\ pages[q] = idx
    BY <2>1
  <2> HIDE DEF q
  <2>3. TrackedPages' = TrackedPages \ {q}
    BY <1>4, <2>1, <2>2 DEF TrackedPages, None
  <2>4. \A p \in TrackedPages' : pages'[p] = pages[p]
    BY <1>4, <2>1, <2>3
  <2>5. Live' = {pages[p] : p \in TrackedPages \ {q}}
    BY <2>3, <2>4 DEF Live
  <2>6. \A p \in TrackedPages : pages[p] = idx => p = q
    BY <2>1 DEF q
  <2>7. QED BY <2>2, <2>5, <2>6 DEF Live
<1>6. Runs(List', Live', d)
  <2>1. List' = [arena |-> u.arena, head |-> u.head, tail |-> u.tail]
    BY <1>4 DEF List
  <2>2. /\ List'.arena = u.arena /\ List'.head = u.head /\ List'.tail = u.tail
    BY <2>1
  <2> HIDE DEF d
  <2>3. QED BY <1>2, <1>5, <2>2, Zenon DEF Runs, Threaded
<1>7. Recency = PagesAt(arena, s) /\ Recency \in Seq(PageIds) /\ TrackedOnce(Recency)
  BY DEF ReadOff
<1>8. Recency' = PagesAt(arena', d)
  <2> HIDE DEF d
  <2>1. QED BY <1>6 DEF ReadOff
<1>9. PagesAt(arena', d) = Drop(PagesAt(arena, s), q)
  <2>1. s \in Seq(Live) /\ TrackedOnce(s) /\ Tracked(s) = Live
    BY RunFacts
  <2>2. \A i \in Tracked(s) : arena'[i].page_id = arena[i].page_id
    BY <1>3, <1>4, <2>1
  <2>3. QED BY <1>7, <2>1, <2>2, PagesAtDrop
<1>10. QED BY <1>6, <1>7, <1>8, <1>9 DEF OrderInv

(* record_access of a tracked page takes it out of the order and puts it   *)
(* in front.                                                               *)
LEMMA AccessTrackedOrder ==
  ASSUME IInv, ReadOff, ReadOff', NEW p \in PageIds, AccessTracked(p),
         NEW s, Runs(List, Live, s)
  PROVE  /\ OrderInv'
         /\ Recency' = Touch(Recency, p)
<1> DEFINE idx == pages[p]
           M == Live \ {idx}
           u == Unlink(List, idx)
           h == InsertHead(u, idx)
           d == Drop(s, idx)
           t == <<idx>> \o d
<1>1. /\ List \in Lists /\ Live \in SUBSET (1 .. Len(List.arena)) /\ Linked(List, Live)
      /\ List.arena = arena
  BY StateFacts DEF IInv, LiveLinked
<1>2. idx \in Live /\ arena[idx].page_id = p
  BY StateFacts DEF AccessTracked, Live, TrackedPages, IInv, SlotsPartitioned
<1>3. /\ arena' = h.arena /\ head_idx' = h.head /\ tail_idx' = h.tail /\ pages' = pages
  BY DEF AccessTracked, SetList
<1> HIDE DEF idx, M, u, h
<1>4. /\ u \in Lists /\ Len(u.arena) = Len(arena) /\ Linked(u, M)
      /\ \A i \in 1 .. Len(arena) : u.arena[i].page_id = arena[i].page_id
  <2>1. /\ u \in Lists /\ Len(u.arena) = Len(List.arena) /\ Linked(u, Live \ {idx})
        /\ \A i \in 1 .. Len(List.arena) : u.arena[i].page_id = List.arena[i].page_id
    BY <1>1, <1>2, UnlinkProperties DEF u
  <2>2. QED BY <1>1, <2>1 DEF M
<1>5. Runs(u, M, d)
  BY <1>1, <1>2, UnlinkRuns DEF u, M
<1>6. M \in SUBSET (1 .. Len(u.arena)) /\ idx \in 1 .. Len(u.arena) /\ idx \notin M
      /\ M \cup {idx} = Live
  BY <1>1, <1>2, <1>4 DEF M
<1> HIDE DEF d
<1>7. Runs(h, Live, t)
  <2>1. Runs(h, M \cup {idx}, t)
    BY <1>4, <1>5, <1>6, InsertHeadRuns DEF h
  <2>2. QED BY <1>6, <2>1
<1>8. \A i \in Live : arena'[i].page_id = arena[i].page_id
  <2>1. \A i \in 1 .. Len(u.arena) :
          /\ h.arena[i].page_id = u.arena[i].page_id
          /\ h.arena[i].prev =
               IF i = u.head THEN idx ELSE IF i = idx THEN None ELSE u.arena[i].prev
    BY <1>4, <1>6, InsertHeadProperties, Zenon DEF h
  <2>2. Live \in SUBSET (1 .. Len(arena))
    BY <1>1
  <2>3. QED BY <1>3, <1>4, <2>1, <2>2
<1>9. Runs(List', Live', t)
  <2>1. List' = [arena |-> h.arena, head |-> h.head, tail |-> h.tail]
    BY <1>3 DEF List
  <2>2. /\ List'.arena = h.arena /\ List'.head = h.head /\ List'.tail = h.tail
    BY <2>1
  <2>3. Live' = Live
    BY <1>3 DEF Live, TrackedPages
  <2> HIDE DEF t
  <2>4. QED BY <1>7, <2>2, <2>3, Zenon DEF Runs, Threaded
<1>10. /\ Recency = PagesAt(arena, s) /\ Recency \in Seq(PageIds) /\ TrackedOnce(Recency)
  BY DEF ReadOff
<1>11. Recency' = PagesAt(arena', t)
  <2> HIDE DEF t
  <2>1. QED BY <1>9 DEF ReadOff
<1>12. s \in Seq(Live) /\ TrackedOnce(s) /\ Tracked(s) = Live
  BY RunFacts
<1>13. PagesAt(arena, d) = Drop(Recency, p)
  <2>1. \A i \in Tracked(s) : arena[i].page_id = arena[i].page_id
    OBVIOUS
  <2>2. idx \in Tracked(s)
    BY <1>2, <1>12
  <2>3. PagesAt(arena, Drop(s, idx)) = Drop(PagesAt(arena, s), arena[idx].page_id)
    BY <1>10, <1>12, <2>1, <2>2, PagesAtDrop
  <2>4. QED BY <1>2, <1>10, <2>3 DEF d
<1>14. PagesAt(arena', t) = <<p>> \o PagesAt(arena, d)
  <2>1. d \in Seq(Live) /\ Tracked(d) = Live \ {idx}
    BY <1>12, DropProperties DEF d
  <2>2. \A i \in Tracked(d) : arena'[i].page_id = arena[i].page_id
    BY <1>8, <2>1
  <2>3. PagesAt(arena, d) \in Seq(PageIds)
    BY <1>10, <1>13, DropProperties
  <2>4. arena'[idx].page_id = p
    BY <1>2, <1>8
  <2>5. arena'[idx].page_id \in PageIds /\ d \in Seq(Live) /\ idx \in Live
    BY <1>2, <2>1, <2>4
  <2>6. PagesAt(arena', <<idx>> \o d) = <<arena'[idx].page_id>> \o PagesAt(arena, d)
    BY <2>2, <2>3, <2>5, PagesAtFront
  <2>7. QED BY <2>4, <2>6
<1>15. QED BY <1>9, <1>11, <1>13, <1>14 DEF OrderInv, Touch

(* record_access of a new page puts it in front of the order.              *)
LEMMA AccessNewOrder ==
  ASSUME IInv, ReadOff, ReadOff', NEW p \in PageIds, AccessNew(p),
         NEW s, Runs(List, Live, s)
  PROVE  /\ OrderInv'
         /\ Recency' = <<p>> \o Recency
<1> DEFINE reuse == free_list # <<>>
           idx == IF reuse THEN free_list[Len(free_list)] ELSE Len(arena) + 1
           node == [prev |-> None, page_id |-> p, next |-> None]
           a == IF reuse THEN [arena EXCEPT ![idx] = node] ELSE Append(arena, node)
           l == [List EXCEPT !.arena = a]
           h == InsertHead(l, idx)
           t == <<idx>> \o s
<1>1. /\ arena' = h.arena /\ head_idx' = h.head /\ tail_idx' = h.tail
      /\ pages' = [pages EXCEPT ![p] = idx] /\ pages[p] = None
  BY DEF AccessNew, SetList
<1>2. /\ arena \in Seq(LruNode) /\ Len(arena) \in Nat
      /\ free_list \in Seq(1 .. Len(arena)) /\ Len(free_list) \in Nat
      /\ pages \in [PageIds -> Nat] /\ head_idx \in 0 .. Len(arena)
      /\ tail_idx \in 0 .. Len(arena)
  BY StateFacts DEF IInv, TypeOK
<1>3. Live \in SUBSET (1 .. Len(arena))
  BY StateFacts
<1>4. node \in LruNode /\ node.page_id = p
  BY DEF LruNode, None
<1> HIDE DEF node
<1>5. /\ a \in Seq(LruNode) /\ Len(a) \in Nat /\ Len(arena) <= Len(a)
      /\ idx \in 1 .. Len(a) /\ idx \notin Live /\ a[idx] = node
      /\ \A i \in Live : i \in 1 .. Len(a) /\ a[i] = arena[i]
  <2>1. CASE reuse
    <3>1. Len(free_list) \in 1 .. Len(free_list)
      BY <1>2, <2>1, EmptySeq
    <3>2. idx = free_list[Len(free_list)] /\ idx \in 1 .. Len(arena)
      BY <1>2, <2>1, <3>1, ElementOfSeq
    <3>3. idx \notin Live
      BY <3>1, <3>2 DEF IInv, SlotsPartitioned
    <3>4. a = [arena EXCEPT ![idx] = node]
      BY <2>1
    <3> HIDE DEF a, idx, reuse
    <3>5. QED BY <1>2, <1>3, <1>4, <3>2, <3>3, <3>4, ExceptSeq
  <2>2. CASE ~reuse
    <3>1. a = Append(arena, node) /\ idx = Len(arena) + 1
      BY <2>2
    <3> HIDE DEF a, idx, reuse
    <3>2. QED BY <1>2, <1>3, <1>4, <3>1, AppendProperties
  <2>3. QED BY <2>1, <2>2
<1> HIDE DEF a, idx
<1>6. l.arena = a /\ l.head = head_idx /\ l.tail = tail_idx
      /\ l = [arena |-> a, head |-> head_idx, tail |-> tail_idx]
  BY DEF List
<1> HIDE DEF l, h
<1>7. l \in Lists
  BY <1>2, <1>5, <1>6 DEF Lists
<1>8. /\ l \in Lists /\ Live \in SUBSET (1 .. Len(l.arena))
      /\ idx \in 1 .. Len(l.arena) /\ idx \notin Live /\ Linked(l, Live)
  <2>1. List \in Lists /\ Linked(List, Live) /\ l.head = List.head /\ l.tail = List.tail
        /\ \A i \in Live : l.arena[i] = List.arena[i]
    BY <1>5, <1>6, StateFacts DEF IInv, LiveLinked
  <2>2. Linked(l, Live)
    BY <1>7, <2>1, LinkedAgree
  <2>3. QED BY <1>5, <1>6, <1>7, <2>2
<1>9. /\ s \in Seq(Live) /\ Len(s) \in Nat /\ TrackedOnce(s) /\ Tracked(s) = Live
      /\ \A i \in 1 .. Len(s) : s[i] \in Live
      /\ head_idx = IF Len(s) = 0 THEN None ELSE s[1]
      /\ tail_idx = IF Len(s) = 0 THEN None ELSE s[Len(s)]
      /\ \A i \in 1 .. Len(s) : arena[s[i]].prev = IF i = 1 THEN None ELSE s[i - 1]
  BY RunFacts
<1>10. Runs(l, Live, s)
  <2>1. \A i \in 1 .. Len(s) : l.arena[s[i]].prev = IF i = 1 THEN None ELSE s[i - 1]
    BY <1>5, <1>6, <1>9
  <2>2. QED BY <1>6, <1>9, <2>1, Zenon DEF Runs, Threaded
<1>11. Runs(h, Live \cup {idx}, t)
  BY <1>8, <1>10, InsertHeadRuns DEF h
<1>12. \A i \in 1 .. Len(a) : arena'[i].page_id = a[i].page_id
  <2>1. \A i \in 1 .. Len(l.arena) :
          /\ h.arena[i].page_id = l.arena[i].page_id
          /\ h.arena[i].prev =
               IF i = l.head THEN idx ELSE IF i = idx THEN None ELSE l.arena[i].prev
    BY <1>8, InsertHeadProperties, Zenon DEF h
  <2>2. QED BY <1>1, <1>6, <2>1
<1>13. Live' = Live \cup {idx}
  <2>1. TrackedPages' = TrackedPages \cup {p} /\ p \notin TrackedPages
    BY <1>1, <1>2, <1>5 DEF TrackedPages, None
  <2>2. \A q \in TrackedPages : pages'[q] = pages[q]
    BY <1>1, <1>2 DEF TrackedPages
  <2>3. pages'[p] = idx
    BY <1>1, <1>2
  <2>4. QED BY <2>1, <2>2, <2>3 DEF Live
<1>14. Runs(List', Live', t)
  <2>1. List' = [arena |-> h.arena, head |-> h.head, tail |-> h.tail]
    BY <1>1 DEF List
  <2>2. /\ List'.arena = h.arena /\ List'.head = h.head /\ List'.tail = h.tail
    BY <2>1
  <2> HIDE DEF t
  <2>3. QED BY <1>11, <1>13, <2>2, Zenon DEF Runs, Threaded
<1>15. Recency = PagesAt(arena, s) /\ Recency \in Seq(PageIds)
  BY DEF ReadOff
<1>16. Recency' = PagesAt(arena', t)
  <2> HIDE DEF t
  <2>1. QED BY <1>14 DEF ReadOff
<1>17. PagesAt(arena', t) = <<p>> \o Recency
  <2> DEFINE M == Live \cup {idx}
  <2>1. s \in Seq(M) /\ idx \in M
    <3>1. Live \subseteq M /\ idx \in M
      OBVIOUS
    <3> HIDE DEF M
    <3>2. \A i \in 1 .. Len(s) : s[i] \in M
      BY <1>9, <3>1
    <3>3. QED BY <1>9, <3>1, <3>2
  <2>2. \A i \in Tracked(s) : arena'[i].page_id = arena[i].page_id
    BY <1>5, <1>9, <1>12
  <2>3. arena'[idx].page_id = p
    BY <1>4, <1>5, <1>12
  <2>4. PagesAt(arena, s) \in Seq(PageIds) /\ arena'[idx].page_id \in PageIds
    BY <1>15, <2>3
  <2> HIDE DEF M
  <2>5. PagesAt(arena', <<idx>> \o s) = <<arena'[idx].page_id>> \o PagesAt(arena, s)
    BY <2>1, <2>2, <2>4, PagesAtFront
  <2>6. QED BY <1>15, <2>3, <2>5
<1>18. QED BY <1>14, <1>16, <1>17 DEF OrderInv

(* A call that moves no node leaves the order as it is.                    *)
LEMMA NothingReleasedOrder ==
  ASSUME ReadOff, ReadOff', NothingReleased, NEW s, Runs(List, Live, s)
  PROVE  OrderInv' /\ Recency' = Recency
<1>1. List' = List /\ Live' = Live /\ arena' = arena
  BY DEF NothingReleased, List, Live, TrackedPages
<1>2. Runs(List', Live', s)
  BY <1>1 DEF Runs, Threaded
<1>3. Recency = PagesAt(arena, s)
  BY DEF ReadOff
<1>4. Recency' = PagesAt(arena', s)
  BY <1>2 DEF ReadOff
<1>5. QED BY <1>1, <1>2, <1>3, <1>4 DEF OrderInv

-----------------------------------------------------------------------------
(* LruOrder has its own instance of the operators of RecencyOrder.         *)
LEMMA OrderOperators ==
  /\ \A s : Order!Tracked(s) = Tracked(s)
  /\ \A s, p : Order!Drop(s, p) = Drop(s, p)
  /\ \A s, p : Order!Touch(s, p) = Touch(s, p)
  /\ \A s, held, p : Order!IsVictim(s, held, p) <=> IsVictim(s, held, p)
<1>1. \A s : Order!Tracked(s) = Tracked(s)
  BY DEF Order!Tracked, Tracked
<1>2. \A s, i : Order!DropAt(s, i) = DropAt(s, i)
  BY DEF Order!DropAt, DropAt
<1>3. \A s, p : Order!Drop(s, p) = Drop(s, p)
  <2> TAKE s, p
  <2> DEFINE c == CHOOSE i \in 1 .. Len(s) : s[i] = p
  <2>1. Order!Drop(s, p) = IF p \in Order!Tracked(s) THEN Order!DropAt(s, c) ELSE s
    BY DEF Order!Drop
  <2>2. Drop(s, p) = IF p \in Tracked(s) THEN DropAt(s, c) ELSE s
    BY DEF Drop
  <2> HIDE DEF c
  <2>3. QED BY <1>1, <1>2, <2>1, <2>2
<1>4. \A s, p : Order!Touch(s, p) = Touch(s, p)
  BY <1>3 DEF Order!Touch, Touch
<1>5. \A s, held, p : Order!IsVictim(s, held, p) <=> IsVictim(s, held, p)
  BY Zenon DEF Order!IsVictim, IsVictim
<1>6. QED BY <1>1, <1>3, <1>4, <1>5

(* LruReplacer::new starts with nothing to evict.                          *)
LEMMA InitOrder == Init /\ ReadOff => OrderInv /\ Order!Init
<1> SUFFICES ASSUME Init, ReadOff PROVE OrderInv /\ Order!Init
  OBVIOUS
<1>1. Live = {} /\ head_idx = None /\ tail_idx = None
  BY DEF Init, Live, TrackedPages
<1>2. <<>> \in Seq(Live) /\ Len(<<>>) = 0
  BY EmptySeq
<1>3. Runs(List, Live, <<>>)
  BY <1>1, <1>2 DEF Runs, Threaded, TrackedOnce, Tracked, List
<1>4. Recency \in Seq(PageIds) /\ Len(Recency) = 0
  BY <1>2, <1>3 DEF ReadOff
<1>5. Recency = <<>>
  BY <1>4, EmptySeq
<1>6. QED BY <1>3, <1>5 DEF OrderInv, Order!Init, Init

(* remove.                                                                 *)
LEMMA RemoveOrder ==
  ASSUME IInv, ReadOff, ReadOff', OrderInv, NEW p \in PageIds, Remove(p)
  PROVE  OrderInv' /\ Order!Remove(p)
<1>1. PICK s : Runs(List, Live, s)
  BY DEF OrderInv
<1>2. OrderInv' /\ Recency' = Drop(Recency, p)
  <2>1. CASE pages[p] # None
    <3>1. pages[p] \in Live /\ Release(pages[p]) /\ arena[pages[p]].page_id = p
      BY <2>1 DEF Remove, Live, TrackedPages, IInv, SlotsPartitioned
    <3>2. OrderInv' /\ Recency' = Drop(Recency, arena[pages[p]].page_id)
      BY <1>1, <3>1, ReleaseOrder
    <3>3. QED BY <3>1, <3>2
  <2>2. CASE pages[p] = None
    <3>1. OrderInv' /\ Recency' = Recency
      BY <1>1, <2>2, NothingReleasedOrder DEF Remove
    <3>2. p \notin Tracked(Recency)
      BY <1>1, <2>2 DEF ReadOff, TrackedPages
    <3>3. QED BY <3>1, <3>2 DEF Drop
  <2>3. QED BY <2>1, <2>2
<1>3. QED BY <1>2, OrderOperators DEF Order!Remove, Remove

(* record_access: the assert! holds for the order as it does for the list. *)
LEMMA AccessOrder ==
  ASSUME IInv, ReadOff, ReadOff', OrderInv, NEW p \in PageIds,
         AccessTracked(p) \/ AccessNew(p)
  PROVE  OrderInv' /\ Order!RecordAccess(p)
<1>1. PICK s : Runs(List, Live, s)
  BY DEF OrderInv
<1>2. Tracked(Recency) = TrackedPages /\ Len(Recency) = Size
  BY <1>1 DEF ReadOff
<1>3. OrderInv' /\ Recency' = Touch(Recency, p)
  <2>1. CASE AccessTracked(p)
    BY <1>1, <2>1, AccessTrackedOrder
  <2>2. CASE AccessNew(p)
    <3>1. OrderInv' /\ Recency' = <<p>> \o Recency
      BY <1>1, <2>2, AccessNewOrder
    <3>2. p \notin Tracked(Recency)
      BY <1>2, <2>2 DEF AccessNew, TrackedPages
    <3>3. QED BY <3>1, <3>2 DEF Touch, Drop
  <2>3. QED BY <2>1, <2>2
<1>4. p \notin Tracked(Recency) => Len(Recency) < Capacity
  BY <1>2 DEF AccessTracked, AccessNew, TrackedPages
<1>5. last' = <<"record_access", p>> /\ pinned' = pinned
  BY DEF AccessTracked, AccessNew
<1>6. QED BY <1>3, <1>4, <1>5, OrderOperators DEF Order!RecordAccess

(* An eviction that frees a slot whose page is the last of the order       *)
(* outside held.                                                           *)
LEMMA EvictionOrder ==
  ASSUME IInv, ReadOff, ReadOff', NEW s, Runs(List, Live, s),
         NEW held, NEW op, NEW i \in 1 .. Len(s), Release(s[i]),
         arena[s[i]].page_id \notin held,
         \A j \in i + 1 .. Len(s) : arena[s[j]].page_id \in held,
         last' = <<op, arena[s[i]].page_id>>, pinned' = pinned
  PROVE  OrderInv' /\ Order!EvictSparing(op, held)
<1> DEFINE q == arena[s[i]].page_id
<1>1. s[i] \in Live /\ Len(s) \in Nat
  BY RunFacts
<1>2. OrderInv' /\ Recency' = Drop(Recency, q)
  BY <1>1, ReleaseOrder
<1>3. Len(Recency) = Len(s) /\ \A j \in 1 .. Len(s) : Recency[j] = arena[s[j]].page_id
  <2>1. Recency = PagesAt(arena, s) /\ Len(Recency) = Len(s)
    BY DEF ReadOff
  <2>2. QED BY <2>1 DEF PagesAt
<1>4. IsVictim(Recency, held, q)
  BY <1>1, <1>3 DEF IsVictim
<1>5. q \in Tracked(Recency) /\ q \notin held
  BY <1>4, VictimIsTracked
<1> HIDE DEF q
<1>6. ~ (Order!Tracked(Recency) \subseteq held)
  BY <1>5, OrderOperators
<1>7. /\ q \in Order!Tracked(Recency) /\ Order!IsVictim(Recency, held, q)
      /\ Recency' = Order!Drop(Recency, q)
  BY <1>2, <1>4, <1>5, OrderOperators
<1>8. last' = <<op, q>>
  BY DEF q
<1>9. QED BY <1>2, <1>6, <1>7, <1>8 DEF Order!EvictSparing

(* An eviction that finds every page held.                                 *)
LEMMA NoEvictionOrder ==
  ASSUME IInv, ReadOff, ReadOff', NEW s, Runs(List, Live, s),
         NEW held, NEW op, NothingReleased,
         \A j \in 1 .. Len(s) : arena[s[j]].page_id \in held,
         last' = <<op, NoPage>>, pinned' = pinned
  PROVE  OrderInv' /\ Order!EvictSparing(op, held)
<1>1. OrderInv' /\ Recency' = Recency
  BY NothingReleasedOrder
<1>2. Len(Recency) = Len(s) /\ \A j \in 1 .. Len(s) : Recency[j] = arena[s[j]].page_id
  <2>1. Recency = PagesAt(arena, s) /\ Len(Recency) = Len(s)
    BY DEF ReadOff
  <2>2. QED BY <2>1 DEF PagesAt
<1>3. Order!Tracked(Recency) \subseteq held
  <2>1. Tracked(Recency) \subseteq held
    BY <1>2 DEF Tracked
  <2>2. QED BY <2>1, OrderOperators
<1>4. QED BY <1>1, <1>3 DEF Order!EvictSparing

(* evict takes the tail, the last of the order.                            *)
LEMMA EvictOrder ==
  ASSUME IInv, ReadOff, ReadOff', OrderInv, Evict
  PROVE  OrderInv' /\ Order!Evict
<1>1. PICK s : Runs(List, Live, s)
  BY DEF OrderInv
<1>2. PICK n \in Nat : n = Len(s)
  BY <1>1, RunFacts
<1>3. (tail_idx = IF n = 0 THEN None ELSE s[n]) /\ \A i \in 1 .. n : s[i] # None
  BY <1>1, <1>2, RunFacts
<1>4. CASE tail_idx # None
  <2>1. n \in 1 .. n /\ s[n] = tail_idx
    BY <1>3, <1>4
  <2>2. Release(s[n]) /\ last' = <<"evict", arena[s[n]].page_id>> /\ pinned' = pinned
    BY <1>4, <2>1 DEF Evict
  <2>3. \A j \in n + 1 .. n : arena[s[j]].page_id \in {}
    OBVIOUS
  <2>4. OrderInv' /\ Order!EvictSparing("evict", {})
    BY <1>1, <1>2, <2>1, <2>2, <2>3, EvictionOrder
  <2>5. QED BY <2>4 DEF Order!Evict
<1>5. CASE tail_idx = None
  <2>1. n = 0
    <3>1. n # 0 => n \in 1 .. n
      OBVIOUS
    <3>2. QED BY <1>3, <1>5, <3>1
  <2>2. NothingReleased /\ last' = <<"evict", NoPage>> /\ pinned' = pinned
    BY <1>5 DEF Evict
  <2>3. \A j \in 1 .. n : arena[s[j]].page_id \in {}
    BY <2>1
  <2>4. OrderInv' /\ Order!EvictSparing("evict", {})
    BY <1>1, <1>2, <2>2, <2>3, NoEvictionOrder
  <2>5. QED BY <2>4 DEF Order!Evict
<1>6. QED BY <1>4, <1>5

(* evict_if stops at the first page from the tail that is not pinned.      *)
LEMMA EvictIfFoundOrder ==
  ASSUME IInv, ReadOff, ReadOff', OrderInv, EvictIfFound
  PROVE  OrderInv' /\ Order!EvictIf
<1>1. PICK s : Runs(List, Live, s)
  BY DEF OrderInv
<1>2. PICK k \in 1 .. Len(arena) : \E w \in TailWalks(k) :
        /\ \A i \in 1 .. k - 1 : arena[w[i]].page_id \in pinned
        /\ arena[w[k]].page_id \notin pinned
        /\ Release(w[k])
        /\ last' = <<"evict_if", arena[w[k]].page_id>>
  BY DEF EvictIfFound
<1>3. PICK w \in TailWalks(k) :
        /\ \A i \in 1 .. k - 1 : arena[w[i]].page_id \in pinned
        /\ arena[w[k]].page_id \notin pinned
        /\ Release(w[k])
        /\ last' = <<"evict_if", arena[w[k]].page_id>>
  BY <1>2
<1>4. PICK n \in Nat : n = Len(s)
  BY <1>1, RunFacts
<1>5. k \in Nat /\ k >= 1 /\ k \in 1 .. k
  BY StateFacts
<1>6. k <= n /\ \A i \in 1 .. k : w[i] = s[n + 1 - i]
  BY <1>1, <1>4, <1>5, WalkPlaces
<1>7. n + 1 - k \in 1 .. n /\ w[k] = s[n + 1 - k]
  BY <1>5, <1>6
<1>8. \A j \in (n + 1 - k) + 1 .. n : arena[s[j]].page_id \in pinned
  <2> TAKE j \in (n + 1 - k) + 1 .. n
  <2>1. n + 1 - j \in 1 .. k - 1 /\ n + 1 - j \in 1 .. k /\ n + 1 - (n + 1 - j) = j
    BY <1>5, <1>6
  <2>2. w[n + 1 - j] = s[j]
    BY <1>6, <2>1
  <2>3. QED BY <1>3, <2>1, <2>2
<1>9. pinned' = pinned
  BY DEF EvictIfFound
<1>10. PICK m \in 1 .. n : m = n + 1 - k
  BY <1>7
<1>11. OrderInv' /\ Order!EvictSparing("evict_if", pinned)
  BY <1>1, <1>3, <1>4, <1>7, <1>8, <1>9, <1>10, EvictionOrder
<1>12. QED BY <1>11 DEF Order!EvictIf

(* ... or runs off the head when every page is pinned.                     *)
LEMMA EvictIfNoneOrder ==
  ASSUME IInv, ReadOff, ReadOff', OrderInv, EvictIfNone
  PROVE  OrderInv' /\ Order!EvictIf
<1>1. PICK s : Runs(List, Live, s)
  BY DEF OrderInv
<1>2. PICK k \in 0 .. Len(arena) : \E w \in TailWalks(k) :
        /\ IF k = 0 THEN tail_idx = None ELSE arena[w[k]].prev = None
        /\ \A i \in 1 .. k : arena[w[i]].page_id \in pinned
  BY DEF EvictIfNone
<1>3. PICK w \in TailWalks(k) :
        /\ IF k = 0 THEN tail_idx = None ELSE arena[w[k]].prev = None
        /\ \A i \in 1 .. k : arena[w[i]].page_id \in pinned
  BY <1>2
<1>4. PICK n \in Nat : n = Len(s)
  BY <1>1, RunFacts
<1>5. /\ \A i \in 1 .. n : s[i] # None
      /\ tail_idx = IF n = 0 THEN None ELSE s[n]
      /\ \A i \in 1 .. n : arena[s[i]].prev = IF i = 1 THEN None ELSE s[i - 1]
  BY <1>1, <1>4, RunFacts
<1>6. k \in Nat
  BY StateFacts
<1>7. k <= n /\ \A i \in 1 .. k : w[i] = s[n + 1 - i]
  BY <1>1, <1>4, <1>6, WalkPlaces
<1>8. k = n
  <2>1. CASE k = 0
    <3>1. n # 0 => n \in 1 .. n
      OBVIOUS
    <3>2. QED BY <1>3, <1>5, <2>1, <3>1
  <2>2. CASE k # 0
    <3>1. k \in 1 .. k /\ n + 1 - k \in 1 .. n
      BY <1>6, <1>7, <2>2
    <3>2. arena[s[n + 1 - k]].prev = None
      BY <1>3, <1>7, <2>2, <3>1
    <3>3. n + 1 - k # 1 => (n + 1 - k) - 1 \in 1 .. n
      BY <3>1
    <3>4. n + 1 - k = 1
      BY <1>5, <3>1, <3>2, <3>3
    <3>5. QED BY <1>6, <3>4
  <2>3. QED BY <2>1, <2>2
<1>9. \A j \in 1 .. n : arena[s[j]].page_id \in pinned
  <2> TAKE j \in 1 .. n
  <2>1. n + 1 - j \in 1 .. k /\ n + 1 - (n + 1 - j) = j
    BY <1>8
  <2>2. w[n + 1 - j] = s[j]
    BY <1>7, <2>1
  <2>3. QED BY <1>3, <2>1, <2>2
<1>10. NothingReleased /\ last' = <<"evict_if", NoPage>> /\ pinned' = pinned
  BY DEF EvictIfNone
<1>11. OrderInv' /\ Order!EvictSparing("evict_if", pinned)
  BY <1>1, <1>4, <1>9, <1>10, NoEvictionOrder
<1>12. QED BY <1>11 DEF Order!EvictIf

(* Every call on the list is the same call on the order, or changes        *)
(* nothing the order shows.                                                *)
LEMMA NextOrder ==
  ASSUME IInv, ReadOff, ReadOff', OrderInv, [Next]_vars
  PROVE  OrderInv' /\ [Order!Next]_Order!vars
<1>1. ASSUME NEW p \in PageIds, AccessTracked(p) \/ AccessNew(p)
      PROVE  OrderInv' /\ [Order!Next]_Order!vars
  BY <1>1, AccessOrder DEF Order!Next
<1>2. ASSUME NEW p \in PageIds, Remove(p)
      PROVE  OrderInv' /\ [Order!Next]_Order!vars
  BY <1>2, RemoveOrder DEF Order!Next
<1>3. CASE Evict
  BY <1>3, EvictOrder DEF Order!Next
<1>4. CASE EvictIfFound
  BY <1>4, EvictIfFoundOrder DEF Order!Next
<1>5. CASE EvictIfNone
  BY <1>5, EvictIfNoneOrder DEF Order!Next
<1>6. PICK s : Runs(List, Live, s)
  BY DEF OrderInv
<1>7. CASE Repin
  <2>1. NothingReleased
    BY <1>7 DEF Repin, NothingReleased
  <2>2. OrderInv' /\ Recency' = Recency
    BY <1>6, <2>1, NothingReleasedOrder
  <2>3. QED BY <1>7, <2>2 DEF Order!Next, Order!Repin, Repin
<1>8. CASE UNCHANGED vars
  <2>1. NothingReleased /\ pinned' = pinned /\ last' = last
    BY <1>8 DEF vars, NothingReleased
  <2>2. OrderInv' /\ Recency' = Recency
    BY <1>6, <2>1, NothingReleasedOrder
  <2>3. QED BY <2>1, <2>2 DEF Order!vars
<1>9. QED BY <1>1, <1>2, <1>3, <1>4, <1>5, <1>7, <1>8 DEF Next

(* The arena list implements the recency order of LruOrder: every call on  *)
(* it, evictions with their predicate included, returns the page and       *)
(* leaves the order that the specification says.                           *)
THEOREM ReplacerImplementsOrder == Spec => ImplementsLruOrder
<1>1. Init => OrderInv /\ Order!Init
  BY InitIInv, RunsAreReadOff, InitOrder
<1>2. IInv /\ ReadOff /\ ReadOff' /\ OrderInv /\ [Next]_vars
        => OrderInv' /\ [Order!Next]_Order!vars
  BY NextOrder
<1>3. QED
  BY <1>1, <1>2, Inductive, RunsAreReadOff, PTL DEF Spec, ImplementsLruOrder, Order!Spec
=============================================================================
