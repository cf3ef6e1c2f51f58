----------------------------- MODULE LeafNodeProofs ---------------------------
(***************************************************************************)
(* What the operators of LeafNode return, keep and change, for any row     *)
(* ids, payloads and sizes of a page.                                      *)
(***************************************************************************)
EXTENDS LeafNode, FiniteSetTheorems, SequenceTheorems, WellFoundedInduction, TLAPS

Node == [slots : Seq(Nat), records : Seq(Record), free_size : 0 .. PageSize]

(* What binary search needs: slots that point at records, in the order of  *)
(* the row ids.                                                            *)
Ordered(n) ==
  /\ n \in Node
  /\ \A i \in 1 .. Len(n.slots) : n.slots[i] \in 1 .. Len(n.records)
  /\ \A i, j \in 1 .. Len(n.slots) : i < j => Key(n, i) < Key(n, j)

(* What encode and decode need beyond that: a slot for every record.       *)
WellFormed(n) ==
  /\ Ordered(n)
  /\ Len(n.slots) = Len(n.records)
  /\ \A r \in 1 .. Len(n.records) : \E i \in 1 .. Len(n.slots) : n.slots[i] = r

(* The records the slots point at, and the rows among them.                *)
Reached(n) == {n.records[n.slots[i]] : i \in 1 .. Len(n.slots)}
Live(n) == {x \in Reached(n) : ~ x.is_deleted}

(* The rows a leaf answers with, and the keys its slots hold, tombstones   *)
(* included.                                                               *)
RowsOf(n) == [k \in Keys |-> GetRecord(n, k)]
KeysOf(n) == {x.row_id : x \in Reached(n)}

-----------------------------------------------------------------------------
(* The constants are sizes.                                                *)
LEMMA LeafConstants ==
  /\ Keys \subseteq Nat /\ Size \in [Payloads -> Nat] /\ NoRow \notin Payloads
  /\ PageSize \in Nat /\ HeaderSize \in Nat /\ MaxValue \in Nat
  /\ SlotSize \in Nat /\ MetaSize \in Nat
BY LeafAssumption

(* Every nonempty set of naturals has a least element.                     *)
LEMMA Least ==
  ASSUME NEW T \in SUBSET Nat, T # {}
  PROVE  \E m \in T : \A k \in T : m <= k
<1> DEFINE R == {ss \in Nat \X Nat : ss[1] < ss[2]}
<1>1. R = OpToRel(<, Nat)
  BY DEF OpToRel
<1>2. IsWellFoundedOn(R, Nat)
  BY <1>1, NatLessThanWellFounded
<1>3. PICK m \in T : \A y \in T : ~ (<<y, m>> \in R)
  <2> HIDE DEF R
  <2>1. QED BY <1>2, WFMin
<1>4. ASSUME NEW k \in T PROVE m <= k
  <2>1. ~ (k < m)
    BY <1>3
  <2>2. QED BY <2>1
<1>5. QED BY <1>4

(* A loop's invariant, as the set of its steps where it holds.             *)
LEMMA Loop ==
  ASSUME NEW N \in Nat, NEW T \in SUBSET (0 .. N), 0 \in T,
         \A i \in 1 .. N : i - 1 \in T => i \in T
  PROVE  N \in T
<1>1. CASE (0 .. N) \ T = {}
  BY <1>1
<1>2. CASE (0 .. N) \ T # {}
  <2>1. (0 .. N) \ T \in SUBSET Nat
    OBVIOUS
  <2>2. PICK m \in (0 .. N) \ T : \A k \in (0 .. N) \ T : m <= k
    BY <1>2, <2>1, Least
  <2>3. m \in 1 .. N /\ m - 1 \in 0 .. N /\ ~ (m <= m - 1)
    BY <2>2
  <2>4. m - 1 \in T
    BY <2>2, <2>3
  <2>5. QED BY <2>2, <2>3, <2>4
<1>3. QED BY <1>1, <1>2

-----------------------------------------------------------------------------
(* Changes of a part of a node, as the node they make.                     *)
LEMMA ReplaceBoth ==
  ASSUME NEW n \in Node,
         NEW s, NEW r
  PROVE  [n EXCEPT !.slots = s, !.records = r]
           = [slots |-> s, records |-> r, free_size |-> n.free_size]
<1>1. PICK m : m = [n EXCEPT !.slots = s]
  OBVIOUS
<1>2. n \in [slots : Seq(Nat), records : Seq(Record), free_size : 0 .. PageSize]
  BY DEF Node
<1>3. m = [slots |-> s, records |-> n.records, free_size |-> n.free_size]
  BY <1>1, <1>2
<1>4. [m EXCEPT !.records = r] = [slots |-> s, records |-> r, free_size |-> n.free_size]
  BY <1>3
<1>5. [n EXCEPT !.slots = s, !.records = r] = [m EXCEPT !.records = r]
  BY <1>1, Zenon
<1>6. QED BY <1>4, <1>5

(* Writing one record of a node: the other fields stay.                    *)
LEMMA ReplaceRecord ==
  ASSUME NEW n \in Node,
         NEW i, NEW x
  PROVE  [n EXCEPT !.records[i] = x]
           = [slots     |-> n.slots,
              records   |-> [n.records EXCEPT ![i] = x],
              free_size |-> n.free_size]
<1>1. PICK r : r = [n.records EXCEPT ![i] = x]
  OBVIOUS
<1>2. [n EXCEPT !.records = r]
        = [slots |-> n.slots, records |-> r, free_size |-> n.free_size]
  BY DEF Node
<1>3. [n EXCEPT !.records[i] = x] = [n EXCEPT !.records = r]
  BY <1>1, Zenon
<1>4. QED BY <1>1, <1>2, <1>3

-----------------------------------------------------------------------------
(* The loop of compact: what it has kept after each slot.                  *)
Keep(n, q, i) ==
  IF n.records[n.slots[i]].is_deleted THEN q ELSE Append(q, n.slots[i])

(* compact's loop over the slots has a value after each of them.           *)
LEMMA LiveSlotsLoop ==
  ASSUME NEW n, NEW N \in Nat, N = Len(n.slots)
  PROVE  \E d : /\ d[0] = <<>>
                /\ \A i \in 1 .. N : d[i] = Keep(n, d[i - 1], i)
                /\ LiveSlots(n) = d[N]
<1> DEFINE Step(f) == [i \in 0 .. N |-> IF i = 0 THEN <<>> ELSE Keep(n, f[i - 1], i)]
           Runs(f, k) == f[0] = <<>> /\ \A i \in 1 .. k : f[i] = Keep(n, f[i - 1], i)
           T == {k \in 0 .. N : \E f : Runs(f, k)}
           d == CHOOSE f : f = Step(f)
<1>1. LiveSlots(n) = d[N]
  BY DEF LiveSlots, Keep
<1>2. 0 \in T
  <2> DEFINE g == [i \in {0} |-> <<>>]
  <2>1. Runs(g, 0)
    OBVIOUS
  <2> HIDE DEF g
  <2>2. \E f : Runs(f, 0)
    BY <2>1
  <2> HIDE DEF Runs
  <2>3. QED BY <2>2
<1>3. ASSUME NEW k \in 1 .. N, k - 1 \in T PROVE k \in T
  <2>1. PICK f : Runs(f, k - 1)
    BY <1>3
  <2> DEFINE g == [i \in 0 .. k |-> IF i = k THEN Keep(n, f[k - 1], k) ELSE f[i]]
  <2>2. g[0] = <<>> /\ 0 # k
    BY <2>1
  <2>3. ASSUME NEW i \in 1 .. k PROVE g[i] = Keep(n, g[i - 1], i)
    <3>1. g[i - 1] = f[i - 1]
      OBVIOUS
    <3>2. CASE i = k
      BY <3>1, <3>2
    <3>3. CASE i # k
      <4>1. i \in 1 .. k - 1 /\ g[i] = f[i]
        BY <3>3
      <4>2. QED BY <2>1, <3>1, <4>1
    <3>4. QED BY <3>2, <3>3
  <2> HIDE DEF g
  <2>4. Runs(g, k)
    BY <2>2, <2>3
  <2>5. QED BY <2>4
<1>4. N \in T
  <2> HIDE DEF T
  <2>1. \A k \in 1 .. N : k - 1 \in T => k \in T
    BY <1>3
  <2>2. T \in SUBSET (0 .. N)
    BY DEF T
  <2>3. QED BY <1>2, <2>1, <2>2, Loop
<1>5. PICK f : Runs(f, N)
  BY <1>4
<1> DEFINE g == [i \in 0 .. N |-> f[i]]
<1>6. g = Step(g)
  <2>1. \A i \in 0 .. N : g[i] = IF i = 0 THEN <<>> ELSE Keep(n, g[i - 1], i)
    BY <1>5
  <2>2. QED BY <2>1
<1> HIDE DEF g
<1>7. d = Step(d)
  BY <1>6
<1> HIDE DEF d
<1>8. \A i \in 0 .. N : d[i] = IF i = 0 THEN <<>> ELSE Keep(n, d[i - 1], i)
  BY <1>7
<1>9. d[0] = <<>> /\ \A i \in 1 .. N : d[i] = Keep(n, d[i - 1], i)
  BY <1>8
<1>10. QED BY <1>1, <1>9

(* q holds the slots up to the i-th that are not deleted, in their order:  *)
(* its j-th element is slot number e[j].                                   *)
KeptBy(n, q, e, i) ==
  /\ q \in Seq(Nat)
  /\ e \in [1 .. Len(q) -> 1 .. i]
  /\ \A j \in 1 .. Len(q) : q[j] = n.slots[e[j]] /\ ~ n.records[q[j]].is_deleted
  /\ \A j, k \in 1 .. Len(q) : j < k => e[j] < e[k]
  /\ \A x \in 1 .. i : ~ n.records[n.slots[x]].is_deleted => \E j \in 1 .. Len(q) : e[j] = x

(* One more slot: it is kept exactly when its record is not deleted.       *)
LEMMA KeepOne ==
  ASSUME NEW n, NEW i \in Nat \ {0}, n.slots[i] \in Nat,
         NEW q, NEW e, KeptBy(n, q, e, i - 1)
  PROVE  \E f : KeptBy(n, Keep(n, q, i), f, i)
<1>1. /\ q \in Seq(Nat) /\ Len(q) \in Nat
      /\ e \in [1 .. Len(q) -> 1 .. i - 1]
  BY DEF KeptBy
<1>2. CASE n.records[n.slots[i]].is_deleted
  <2>1. Keep(n, q, i) = q
    BY <1>2 DEF Keep
  <2>2. KeptBy(n, q, e, i)
    <3>1. e \in [1 .. Len(q) -> 1 .. i]
      BY <1>1
    <3>2. ASSUME NEW x \in 1 .. i, ~ n.records[n.slots[x]].is_deleted
          PROVE  \E j \in 1 .. Len(q) : e[j] = x
      <4>1. x \in 1 .. i - 1
        BY <1>2, <3>2
      <4>2. QED BY <3>2, <4>1 DEF KeptBy
    <3>3. QED BY <3>1, <3>2 DEF KeptBy
  <2>3. QED BY <2>1, <2>2
<1>3. CASE ~ n.records[n.slots[i]].is_deleted
  <2> DEFINE r == Append(q, n.slots[i])
             m == Len(q)
             f == [j \in 1 .. m + 1 |-> IF j = m + 1 THEN i ELSE e[j]]
  <2>1. Keep(n, q, i) = r
    BY <1>3 DEF Keep
  <2>2. /\ r \in Seq(Nat) /\ Len(r) = m + 1 /\ r[m + 1] = n.slots[i]
        /\ \A j \in 1 .. m : r[j] = q[j]
    BY <1>1, AppendProperties
  <2> HIDE DEF r
  <2>3. m \in Nat /\ \A j \in 1 .. m : e[j] \in 1 .. i - 1
    BY <1>1
  <2>4. \A j, k \in 1 .. m : j < k => e[j] < e[k]
    BY DEF KeptBy
  <2>5. \A j \in 1 .. m : q[j] = n.slots[e[j]] /\ ~ n.records[q[j]].is_deleted
    BY DEF KeptBy
  <2> HIDE DEF m
  <2>6. f \in [1 .. m + 1 -> 1 .. i] /\ f[m + 1] = i /\ \A j \in 1 .. m : f[j] = e[j]
    BY <2>3
  <2> HIDE DEF f
  <2>7. ASSUME NEW j \in 1 .. m + 1
        PROVE  r[j] = n.slots[f[j]] /\ ~ n.records[r[j]].is_deleted
    <3>1. CASE j = m + 1
      BY <1>3, <2>2, <2>6, <3>1
    <3>2. CASE j # m + 1
      <4>1. j \in 1 .. m
        BY <2>3, <3>2
      <4>2. QED BY <2>2, <2>5, <2>6, <4>1
    <3>3. QED BY <3>1, <3>2
  <2>8. ASSUME NEW j \in 1 .. m + 1, NEW k \in 1 .. m + 1, j < k
        PROVE  f[j] < f[k]
    <3>1. j \in 1 .. m
      BY <2>3, <2>8
    <3>2. CASE k = m + 1
      BY <2>3, <2>6, <3>1, <3>2
    <3>3. CASE k # m + 1
      <4>1. k \in 1 .. m
        BY <2>3, <3>3
      <4>2. QED BY <2>4, <2>6, <2>8, <3>1, <4>1
    <3>4. QED BY <3>2, <3>3
  <2>9. ASSUME NEW x \in 1 .. i, ~ n.records[n.slots[x]].is_deleted
        PROVE  \E j \in 1 .. m + 1 : f[j] = x
    <3>1. CASE x = i
      BY <2>3, <2>6, <3>1
    <3>2. CASE x # i
      <4>1. x \in 1 .. i - 1
        BY <3>2
      <4>2. PICK j \in 1 .. m : e[j] = x
        BY <2>9, <4>1 DEF KeptBy, m
      <4>3. j \in 1 .. m + 1 /\ f[j] = x
        BY <2>3, <2>6, <4>2
      <4>4. QED BY <4>3
    <3>3. QED BY <3>1, <3>2
  <2>10. KeptBy(n, r, f, i)
    BY <2>2, <2>6, <2>7, <2>8, <2>9 DEF KeptBy
  <2>11. QED BY <2>1, <2>10
<1>4. QED BY <1>2, <1>3

(* compact keeps the slots of the records that are not deleted, each once  *)
(* and in their order.                                                     *)
LEMMA LiveSlotsKept ==
  ASSUME NEW n, n.slots \in Seq(Nat)
  PROVE  \E e : KeptBy(n, LiveSlots(n), e, Len(n.slots))
<1>1. PICK N \in Nat : N = Len(n.slots)
  OBVIOUS
<1>2. PICK d : /\ d[0] = <<>>
               /\ \A i \in 1 .. N : d[i] = Keep(n, d[i - 1], i)
               /\ LiveSlots(n) = d[N]
  BY <1>1, LiveSlotsLoop
<1> DEFINE T == {i \in 0 .. N : \E e : KeptBy(n, d[i], e, i)}
<1>3. 0 \in T
  <2> DEFINE e == [j \in 1 .. 0 |-> 0]
  <2>1. KeptBy(n, <<>>, e, 0)
    BY DEF KeptBy
  <2> HIDE DEF e
  <2>2. \E f : KeptBy(n, d[0], f, 0)
    BY <1>2, <2>1
  <2>3. QED BY <2>2
<1>4. ASSUME NEW i \in 1 .. N, i - 1 \in T PROVE i \in T
  <2>1. PICK e : KeptBy(n, d[i - 1], e, i - 1)
    BY <1>4
  <2>2. n.slots[i] \in Nat /\ i \in Nat \ {0}
    BY <1>1
  <2>3. \E f : KeptBy(n, Keep(n, d[i - 1], i), f, i)
    BY <2>1, <2>2, KeepOne
  <2>4. QED BY <1>2, <2>3
<1> HIDE DEF T
<1>5. T \in SUBSET (0 .. N)
  BY DEF T
<1>6. N \in T
  BY <1>3, <1>4, <1>5, Loop
<1>7. QED BY <1>1, <1>2, <1>6 DEF T

-----------------------------------------------------------------------------
(* The bytes of the record behind a slot, and the loop that adds them up.  *)
Bytes(n, i) == MetaSize + Size[n.records[n.slots[i]].data]
Add(n, s, i) == s + MetaSize + Size[n.records[n.slots[i]].data]

(* What one record adds to the footer is a natural number.                 *)
LEMMA AddBytes ==
  ASSUME NEW n, n.slots \in Seq(Nat), n.records \in Seq(Record),
         NEW i \in 1 .. Len(n.slots), n.slots[i] \in 1 .. Len(n.records)
  PROVE  /\ Bytes(n, i) \in Nat
         /\ \A s \in Nat : Add(n, s, i) = s + Bytes(n, i)
<1>1. n.records[n.slots[i]] \in Record
  OBVIOUS
<1>2. n.records[n.slots[i]].data \in Payloads
  BY <1>1 DEF Record
<1>3. PICK z \in Nat : z = Size[n.records[n.slots[i]].data]
  BY <1>2, LeafConstants
<1>4. MetaSize \in Nat
  BY LeafConstants
<1>5. Bytes(n, i) = MetaSize + z
  BY <1>3 DEF Bytes
<1>6. \A s \in Nat : Add(n, s, i) = s + MetaSize + z
  BY <1>3 DEF Add
<1>7. QED BY <1>4, <1>5, <1>6

(* The footer is the sum of the bytes of the records, slot by slot.        *)
LEMMA FooterSum ==
  ASSUME NEW n, n.slots \in Seq(Nat), n.records \in Seq(Record),
         \A i \in 1 .. Len(n.slots) : n.slots[i] \in 1 .. Len(n.records),
         NEW N \in Nat, N = Len(n.slots)
  PROVE  \E d \in [0 .. N -> Nat] :
           /\ d[0] = 0
           /\ \A i \in 1 .. N : d[i] = d[i - 1] + Bytes(n, i) /\ Bytes(n, i) \in Nat
           /\ Footer(n) = d[N]
<1> DEFINE Step(f) == [i \in 0 .. N |-> IF i = 0 THEN 0 ELSE Add(n, f[i - 1], i)]
           Runs(f, k) == f[0] = 0 /\ \A i \in 1 .. k : f[i] = Add(n, f[i - 1], i)
           T == {k \in 0 .. N : \E f : Runs(f, k)}
           d == CHOOSE f : f = Step(f)
<1>1. Footer(n) = d[N]
  BY DEF Footer, Add
<1>2. \A i \in 1 .. N : Bytes(n, i) \in Nat /\ \A s \in Nat : Add(n, s, i) = s + Bytes(n, i)
  BY AddBytes
<1>3. 0 \in T
  <2> DEFINE g == [i \in {0} |-> 0]
  <2>1. Runs(g, 0)
    OBVIOUS
  <2> HIDE DEF g
  <2>2. \E f : Runs(f, 0)
    BY <2>1
  <2> HIDE DEF Runs
  <2>3. QED BY <2>2
<1>4. ASSUME NEW k \in 1 .. N, k - 1 \in T PROVE k \in T
  <2>1. PICK f : Runs(f, k - 1)
    BY <1>4
  <2> DEFINE g == [i \in 0 .. k |-> IF i = k THEN Add(n, f[k - 1], k) ELSE f[i]]
  <2>2. g[0] = 0 /\ 0 # k
    BY <2>1
  <2>3. ASSUME NEW i \in 1 .. k PROVE g[i] = Add(n, g[i - 1], i)
    <3>1. g[i - 1] = f[i - 1]
      OBVIOUS
    <3>2. CASE i = k
      BY <3>1, <3>2
    <3>3. CASE i # k
      <4>1. i \in 1 .. k - 1 /\ g[i] = f[i]
        BY <3>3
      <4>2. QED BY <2>1, <3>1, <4>1
    <3>4. QED BY <3>2, <3>3
  <2> HIDE DEF g
  <2>4. Runs(g, k)
    BY <2>2, <2>3
  <2>5. \E h : Runs(h, k)
    BY <2>4
  <2> HIDE DEF Runs
  <2>6. QED BY <2>5
<1>5. N \in T
  <2> HIDE DEF T
  <2>1. \A k \in 1 .. N : k - 1 \in T => k \in T
    BY <1>4
  <2>2. T \in SUBSET (0 .. N)
    BY DEF T
  <2>3. QED BY <1>3, <2>1, <2>2, Loop
<1>6. PICK f : Runs(f, N)
  BY <1>5
<1> DEFINE g == [i \in 0 .. N |-> f[i]]
<1>7. g = Step(g)
  <2>1. \A i \in 0 .. N : g[i] = IF i = 0 THEN 0 ELSE Add(n, g[i - 1], i)
    BY <1>6
  <2>2. QED BY <2>1
<1> HIDE DEF g
<1>8. d = Step(d)
  BY <1>7
<1> HIDE DEF d
<1>9. d[0] = 0 /\ \A i \in 1 .. N : d[i] = Add(n, d[i - 1], i)
  <2>1. \A i \in 0 .. N : d[i] = IF i = 0 THEN 0 ELSE Add(n, d[i - 1], i)
    BY <1>8
  <2>2. QED BY <2>1
<1> DEFINE U == {k \in 0 .. N : \A j \in 0 .. k : d[j] \in Nat}
<1>10. N \in U
  <2>1. 0 \in U
    BY <1>9
  <2>2. ASSUME NEW k \in 1 .. N, k - 1 \in U PROVE k \in U
    <3>1. \A j \in 0 .. k - 1 : d[j] \in Nat
      BY <2>2
    <3>2. d[k] = Add(n, d[k - 1], k) /\ d[k - 1] \in Nat
      BY <1>9, <3>1
    <3>3. d[k] \in Nat
      <4>1. PICK s \in Nat, b \in Nat : s = d[k - 1] /\ b = Bytes(n, k)
        BY <1>2, <3>2
      <4>2. d[k] = s + b
        BY <1>2, <3>2, <4>1
      <4>3. QED BY <4>2
    <3>4. QED BY <3>1, <3>3
  <2> HIDE DEF U
  <2>3. U \in SUBSET (0 .. N)
    BY DEF U
  <2>4. QED BY <2>1, <2>2, <2>3, Loop
<1>11. \A j \in 0 .. N : d[j] \in Nat
  BY <1>10
<1>12. ASSUME NEW i \in 1 .. N
       PROVE  d[i] = d[i - 1] + Bytes(n, i) /\ Bytes(n, i) \in Nat
  <2>1. d[i - 1] \in Nat
    BY <1>11
  <2>2. QED BY <1>2, <1>9, <2>1
<1>13. d \in [0 .. N -> Nat]
  <2>1. d = [i \in 0 .. N |-> d[i]]
    BY <1>8
  <2>2. QED BY <1>11, <2>1
<1>14. QED BY <1>1, <1>9, <1>12, <1>13

(* The bytes that are counted are a number.                                *)
LEMMA FooterType ==
  ASSUME NEW n, n.slots \in Seq(Nat), n.records \in Seq(Record),
         \A i \in 1 .. Len(n.slots) : n.slots[i] \in 1 .. Len(n.records)
  PROVE  Footer(n) \in Nat /\ Used(n) \in Nat
<1>1. PICK N \in Nat : N = Len(n.slots)
  OBVIOUS
<1>2. Footer(n) \in Nat
  <2>1. PICK d \in [0 .. N -> Nat] : Footer(n) = d[N]
    BY <1>1, FooterSum
  <2>2. QED BY <2>1
<1>3. Used(n) \in Nat
  <2>1. PICK z \in Nat : z = Len(n.slots) * SlotSize
    BY <1>1, LeafConstants
  <2>2. PICK f \in Nat : f = Footer(n)
    BY <1>2
  <2>3. Used(n) = HeaderSize + z + f
    BY <2>1, <2>2 DEF Used
  <2>4. HeaderSize \in Nat
    BY LeafConstants
  <2>5. QED BY <2>3, <2>4
<1>4. QED BY <1>2, <1>3

-----------------------------------------------------------------------------
(* Sums of naturals grow.                                                  *)
LEMMA SumsGrow ==
  ASSUME NEW N \in Nat, NEW d \in [0 .. N -> Nat],
         \A i \in 1 .. N : d[i - 1] <= d[i]
  PROVE  \A j, k \in 0 .. N : j <= k => d[j] <= d[k]
<1> DEFINE T == {m \in 0 .. N : \A j, k \in 0 .. m : j <= k => d[j] <= d[k]}
<1>1. 0 \in T
  BY Z3
<1>2. ASSUME NEW m \in 1 .. N, m - 1 \in T PROVE m \in T
  <2>1. \A j, k \in 0 .. m - 1 : j <= k => d[j] <= d[k]
    BY <1>2
  <2>2. ASSUME NEW j \in 0 .. m, NEW k \in 0 .. m, j <= k PROVE d[j] <= d[k]
    <3>1. CASE k < m
      <4>1. j \in 0 .. m - 1 /\ k \in 0 .. m - 1
        BY <2>2, <3>1
      <4>2. QED BY <2>1, <2>2, <4>1
    <3>2. CASE k = m /\ j < m
      <4>1. d[j] <= d[m - 1]
        BY <2>1, <3>2
      <4>2. d[m - 1] <= d[m] /\ d[j] \in Nat /\ d[m - 1] \in Nat /\ d[m] \in Nat
        OBVIOUS
      <4>3. QED BY <3>2, <4>1, <4>2
    <3>3. CASE k = m /\ j = m
      <4>1. d[m] \in Nat
        OBVIOUS
      <4>2. QED BY <3>3, <4>1
    <3>4. QED BY <2>2, <3>1, <3>2, <3>3
  <2>3. QED BY <2>2
<1>3. T \in SUBSET (0 .. N)
  OBVIOUS
<1>4. N \in T
  <2> HIDE DEF T
  <2>1. QED BY <1>1, <1>2, <1>3, Loop
<1>5. QED BY <1>4

(* A leaf needs no more bytes than another whose slots match its own, in   *)
(* order, with records at least as large.                                  *)
LEMMA UsedLess ==
  ASSUME NEW a, NEW b, Ordered(a), Ordered(b),
         NEW f \in [1 .. Len(a.slots) -> 1 .. Len(b.slots)],
         \A i, j \in 1 .. Len(a.slots) : i < j => f[i] < f[j],
         \A i \in 1 .. Len(a.slots) : Bytes(a, i) <= Bytes(b, f[i])
  PROVE  Used(a) <= Used(b)
<1>1. /\ a.slots \in Seq(Nat) /\ a.records \in Seq(Record)
      /\ \A i \in 1 .. Len(a.slots) : a.slots[i] \in 1 .. Len(a.records)
      /\ b.slots \in Seq(Nat) /\ b.records \in Seq(Record)
      /\ \A i \in 1 .. Len(b.slots) : b.slots[i] \in 1 .. Len(b.records)
  BY DEF Ordered, Node
<1>2. PICK M \in Nat, N \in Nat : M = Len(a.slots) /\ N = Len(b.slots)
  BY <1>1
<1>3. PICK da \in [0 .. M -> Nat] :
        /\ da[0] = 0
        /\ \A i \in 1 .. M : da[i] = da[i - 1] + Bytes(a, i) /\ Bytes(a, i) \in Nat
        /\ Footer(a) = da[M]
  BY <1>1, <1>2, FooterSum
<1>4. PICK db \in [0 .. N -> Nat] :
        /\ db[0] = 0
        /\ \A i \in 1 .. N : db[i] = db[i - 1] + Bytes(b, i) /\ Bytes(b, i) \in Nat
        /\ Footer(b) = db[N]
  BY <1>1, <1>2, FooterSum
<1>5. \A j, k \in 0 .. N : j <= k => db[j] <= db[k]
  <2>1. ASSUME NEW i \in 1 .. N PROVE db[i - 1] <= db[i]
    <3>1. i - 1 \in 0 .. N
      OBVIOUS
    <3>2. PICK x \in Nat : x = db[i - 1]
      BY <3>1
    <3>3. PICK y \in Nat : y = Bytes(b, i)
      BY <1>4
    <3>4. db[i] = x + y
      BY <1>4, <3>2, <3>3
    <3>5. QED BY <3>2, <3>3, <3>4
  <2>2. QED BY <2>1, SumsGrow
<1>6. \A i \in 1 .. M : f[i] \in 1 .. N /\ Bytes(a, i) <= Bytes(b, f[i])
  BY <1>2
<1>7. \A i, j \in 1 .. M : i < j => f[i] < f[j]
  BY <1>2
<1> DEFINE g == [i \in 0 .. M |-> IF i = 0 THEN 0 ELSE f[i]]
<1>8. /\ g[0] = 0
      /\ \A i \in 1 .. M : g[i] = f[i]
      /\ \A i \in 0 .. M : g[i] \in 0 .. N
  BY <1>6
<1> HIDE DEF g
<1> DEFINE T == {i \in 0 .. M : da[i] <= db[g[i]] /\ i <= g[i]}
<1>9. 0 \in T
  BY <1>3, <1>4, <1>8
<1>10. ASSUME NEW i \in 1 .. M, i - 1 \in T PROVE i \in T
  <2>1. i - 1 \in 0 .. M
    OBVIOUS
  <2>2. PICK p \in 0 .. N : p = g[i - 1]
    BY <1>8, <2>1
  <2>3. PICK q \in 1 .. N : q = f[i] /\ q = g[i]
    BY <1>6, <1>8
  <2>4. p = g[i - 1] /\ q = f[i] /\ q = g[i] /\ q \in Nat /\ p \in Nat
    BY <2>2, <2>3
  <2>5. p <= q - 1 /\ q - 1 \in 0 .. N
    <3>1. CASE i = 1
      <4>1. i - 1 = 0
        BY <3>1
      <4>2. p = 0
        BY <1>8, <2>4, <4>1
      <4>3. QED BY <4>2
    <3>2. CASE i # 1
      <4>1. i - 1 \in 1 .. M /\ i - 1 < i
        BY <3>2
      <4>2. f[i - 1] < f[i] /\ g[i - 1] = f[i - 1]
        BY <1>7, <1>8, <4>1
      <4>3. p < q
        BY <2>4, <4>2
      <4>4. QED BY <4>3
    <3>3. QED BY <3>1, <3>2
  <2>6. da[i - 1] <= db[p] /\ i - 1 <= p
    BY <1>10, <2>4
  <2>7. db[p] <= db[q - 1]
    BY <1>5, <2>5
  <2>8. PICK x \in Nat, y \in Nat : x = da[i - 1] /\ y = Bytes(a, i)
    BY <1>3, <2>1
  <2>9. PICK u \in Nat, v \in Nat : u = db[p] /\ v = db[q - 1]
    BY <2>5
  <2>10. PICK w \in Nat : w = Bytes(b, q)
    BY <1>4
  <2>11. x = da[i - 1] /\ y = Bytes(a, i) /\ u = db[p] /\ v = db[q - 1] /\ w = Bytes(b, q)
    BY <2>8, <2>9, <2>10
  <2>12. da[i] = x + y /\ db[q] = v + w
    BY <1>3, <1>4, <2>11
  <2>13. y <= w
    BY <1>6, <2>4, <2>11
  <2>14. x + y <= v + w /\ i <= q
    <3>1. x <= u /\ u <= v /\ y <= w
      BY <2>6, <2>7, <2>11, <2>13
    <3>2. x + y <= v + w
      BY <3>1
    <3>3. i - 1 <= p /\ p <= q - 1
      BY <2>5, <2>6
    <3>4. QED BY <3>2, <3>3
  <2>15. QED BY <2>4, <2>12, <2>14
<1>11. T \in SUBSET (0 .. M)
  OBVIOUS
<1>12. M \in T
  <2> HIDE DEF T
  <2>1. QED BY <1>9, <1>10, <1>11, Loop
<1>13. PICK p \in 0 .. N : da[M] <= db[p] /\ M <= p
  BY <1>8, <1>12
<1>14. da[M] <= db[N] /\ M <= N
  <2>1. db[p] <= db[N]
    BY <1>5
  <2>2. da[M] \in Nat /\ db[p] \in Nat /\ db[N] \in Nat
    OBVIOUS
  <2>3. QED BY <1>13, <2>1, <2>2
<1>15. M * SlotSize <= N * SlotSize
  <2>1. \A m, k, s \in Nat : m <= k => m * s <= k * s
    OBVIOUS
  <2>2. QED BY <1>14, <2>1, LeafConstants
<1>16. QED
  <2>1. PICK x \in Nat, y \in Nat, u \in Nat, v \in Nat :
          /\ x = Footer(a) /\ y = Footer(b) /\ u = M * SlotSize /\ v = N * SlotSize
    BY <1>3, <1>4, LeafConstants
  <2>2. Used(a) = HeaderSize + u + x /\ Used(b) = HeaderSize + v + y
    BY <1>2, <2>1 DEF Used
  <2>3. x <= y /\ u <= v
    BY <1>3, <1>4, <1>14, <1>15, <2>1
  <2>4. HeaderSize \in Nat
    BY LeafConstants
  <2>5. QED BY <2>2, <2>3, <2>4

-----------------------------------------------------------------------------
(* compact keeps the rows, in order, and a slot for each.                  *)
LEMMA CompactProperties ==
  ASSUME NEW n, Ordered(n)
  PROVE  /\ WellFormed(Compact(n))
         /\ Live(Compact(n)) = Live(n)
         /\ Reached(Compact(n)) = Live(n)
         /\ Used(Compact(n)) <= Used(n)
<1> DEFINE live  == LiveSlots(n)
           clean == Copied(n, live)
           c == Compact(n)
<1>1. /\ n \in [slots : Seq(Nat), records : Seq(Record), free_size : 0 .. PageSize]
      /\ \A i \in 1 .. Len(n.slots) : n.slots[i] \in 1 .. Len(n.records)
      /\ \A i, j \in 1 .. Len(n.slots) : i < j => Key(n, i) < Key(n, j)
  BY DEF Ordered, Node
<1>2. PICK N \in Nat : N = Len(n.slots)
  BY <1>1
<1>3. PICK e : KeptBy(n, live, e, N)
  BY <1>1, <1>2, LiveSlotsKept
<1>4. PICK m \in Nat : m = Len(live)
  BY <1>3 DEF KeptBy
<1>5. /\ e \in [1 .. m -> 1 .. N]
      /\ \A j \in 1 .. m : live[j] = n.slots[e[j]] /\ ~ n.records[live[j]].is_deleted
      /\ \A j, k \in 1 .. m : j < k => e[j] < e[k]
      /\ \A x \in 1 .. N : ~ n.records[n.slots[x]].is_deleted => \E j \in 1 .. m : e[j] = x
  BY <1>3, <1>4 DEF KeptBy
<1> HIDE DEF live
<1>6. \A j \in 1 .. m : n.records[live[j]] \in Record
  <2>1. ASSUME NEW j \in 1 .. m PROVE n.records[live[j]] \in Record
    <3>1. e[j] \in 1 .. N
      BY <1>5
    <3>2. live[j] \in 1 .. Len(n.records)
      BY <1>1, <1>2, <1>5, <3>1
    <3>3. n.records \in Seq(Record)
      BY <1>1
    <3>4. QED BY <3>2, <3>3
  <2>2. QED BY <2>1
<1>7. /\ clean.slots = [i \in 1 .. m |-> i]
      /\ clean.records = [i \in 1 .. m |-> n.records[live[i]]]
      /\ clean.free_size = n.free_size
      /\ clean = [slots |-> clean.slots, records |-> clean.records, free_size |-> n.free_size]
  <2>1. \A s, r : [n EXCEPT !.slots = s, !.records = r]
                   = [slots |-> s, records |-> r, free_size |-> n.free_size]
    BY ReplaceBoth DEF Ordered
  <2>2. 1 .. m = 1 .. Len(live)
    BY <1>4
  <2>3. clean = [slots |-> [i \in 1 .. m |-> i],
                 records |-> [i \in 1 .. m |-> n.records[live[i]]],
                 free_size |-> n.free_size]
    BY <2>1, <2>2 DEF Copied
  <2> HIDE DEF clean
  <2>4. QED BY <2>3
<1> HIDE DEF clean
<1>8. /\ clean.slots \in Seq(Nat) /\ Len(clean.slots) = m
      /\ clean.records \in Seq(Record) /\ Len(clean.records) = m
  <2>1. [i \in 1 .. m |-> i] \in [1 .. m -> Nat]
    OBVIOUS
  <2>2. [i \in 1 .. m |-> n.records[live[i]]] \in [1 .. m -> Record]
    BY <1>6
  <2>3. clean.slots \in [1 .. m -> Nat] /\ clean.records \in [1 .. m -> Record]
    BY <1>7, <2>1, <2>2
  <2>4. \A S, f : f \in [1 .. m -> S] => f \in Seq(S) /\ Len(f) = m
    OBVIOUS
  <2>5. QED BY <2>3, <2>4
<1>9. c = IF Fits(clean) THEN [clean EXCEPT !.free_size = PageSize - Used(clean)] ELSE clean
  BY DEF Compact, Measured, clean, live
<1>10. Used(clean) \in Nat
  BY <1>7, <1>8, FooterType
<1>11. Fits(clean) => PageSize - Used(clean) \in 0 .. PageSize
  BY <1>10, LeafConstants DEF Fits
<1>12. /\ c.slots = clean.slots /\ c.records = clean.records
       /\ c \in [slots : Seq(Nat), records : Seq(Record), free_size : 0 .. PageSize]
  <2>1. n.free_size \in 0 .. PageSize
    BY <1>1
  <2>2. CASE Fits(clean)
    <3>1. c = [slots |-> clean.slots, records |-> clean.records,
               free_size |-> PageSize - Used(clean)]
      BY <1>7, <1>9, <2>2
    <3> HIDE DEF c
    <3>2. QED BY <1>8, <1>11, <2>2, <3>1
  <2>3. CASE ~ Fits(clean)
    <3>1. c = clean
      BY <1>9, <2>3
    <3> HIDE DEF c
    <3>2. QED BY <1>7, <1>8, <2>1, <3>1
  <2>4. QED BY <2>2, <2>3
<1> HIDE DEF c
<1>13. /\ Len(c.slots) = m /\ Len(c.records) = m
       /\ \A i \in 1 .. m : c.slots[i] = i /\ c.records[i] = n.records[n.slots[e[i]]]
  BY <1>5, <1>7, <1>8, <1>12
<1>14. \A i \in 1 .. m : Key(c, i) = Key(n, e[i])
  BY <1>13 DEF Key
<1>15. WellFormed(c)
  <2>1. \A i, j \in 1 .. m : i < j => Key(c, i) < Key(c, j)
    BY <1>1, <1>2, <1>5, <1>14
  <2>2. QED BY <1>12, <1>13, <2>1 DEF WellFormed, Ordered, Node
<1>16. Reached(c) = Live(n)
  <2>1. ASSUME NEW x \in Reached(c) PROVE x \in Live(n)
    <3>1. PICK i \in 1 .. m : x = c.records[c.slots[i]]
      BY <1>13 DEF Reached
    <3>2. x = n.records[n.slots[e[i]]] /\ e[i] \in 1 .. N /\ ~ x.is_deleted
      BY <1>5, <1>13, <3>1
    <3>3. QED BY <1>2, <3>2 DEF Live, Reached
  <2>2. ASSUME NEW x \in Live(n) PROVE x \in Reached(c)
    <3>1. PICK j \in 1 .. N : x = n.records[n.slots[j]] /\ ~ x.is_deleted
      BY <1>2 DEF Live, Reached
    <3>2. PICK i \in 1 .. m : e[i] = j
      BY <1>5, <3>1
    <3>3. x = c.records[c.slots[i]]
      BY <1>13, <3>1, <3>2
    <3>4. QED BY <1>13, <3>3 DEF Reached
  <2>3. QED BY <2>1, <2>2
<1>17. Live(c) = Live(n)
  BY <1>16 DEF Live
<1>18. Used(c) <= Used(n)
  <2>1. \A i \in 1 .. m : Bytes(c, i) = Bytes(n, e[i])
    BY <1>13 DEF Bytes
  <2>2. \A i \in 1 .. N : Bytes(n, i) \in Nat
    BY <1>1, <1>2, AddBytes
  <2>3. ASSUME NEW i \in 1 .. m PROVE Bytes(c, i) <= Bytes(n, e[i])
    <3>1. e[i] \in 1 .. N
      BY <1>5
    <3>2. PICK b \in Nat : b = Bytes(n, e[i])
      BY <2>2, <3>1
    <3>3. Bytes(c, i) = b
      BY <2>1, <3>2
    <3>4. QED BY <3>2, <3>3
  <2>4. \A i \in 1 .. Len(c.slots) : Bytes(c, i) <= Bytes(n, e[i])
    BY <1>13, <2>3
  <2>5. \A i, j \in 1 .. Len(c.slots) : i < j => e[i] < e[j]
    BY <1>5, <1>13
  <2>6. e \in [1 .. Len(c.slots) -> 1 .. Len(n.slots)]
    BY <1>2, <1>5, <1>13
  <2>7. Ordered(c)
    BY <1>15 DEF WellFormed
  <2>8. QED BY <2>4, <2>5, <2>6, <2>7, UsedLess
<1>19. QED BY <1>15, <1>16, <1>17, <1>18 DEF c

-----------------------------------------------------------------------------
(* A sorted slot array, with its length as a number.                       *)
LEMMA OrderedFacts ==
  ASSUME NEW n, Ordered(n)
  PROVE  \E N \in Nat :
           /\ Len(n.slots) = N
           /\ n.slots \in Seq(Nat) /\ n.records \in Seq(Record)
           /\ \A i \in 1 .. N : /\ n.slots[i] \in 1 .. Len(n.records)
                                /\ n.records[n.slots[i]] \in Record
                                /\ Key(n, i) = n.records[n.slots[i]].row_id
                                /\ Key(n, i) \in Keys /\ Key(n, i) \in Nat
           /\ \A i, j \in 1 .. N : i < j => Key(n, i) < Key(n, j)
           /\ \A i, j \in 1 .. N : Key(n, i) = Key(n, j) => i = j
<1>1. /\ n.slots \in Seq(Nat) /\ n.records \in Seq(Record)
      /\ \A i \in 1 .. Len(n.slots) : n.slots[i] \in 1 .. Len(n.records)
      /\ \A i, j \in 1 .. Len(n.slots) : i < j => Key(n, i) < Key(n, j)
  BY DEF Ordered, Node
<1>2. PICK N \in Nat : N = Len(n.slots)
  BY <1>1
<1>3. ASSUME NEW i \in 1 .. N
      PROVE  /\ n.records[n.slots[i]] \in Record
             /\ Key(n, i) = n.records[n.slots[i]].row_id
             /\ Key(n, i) \in Keys /\ Key(n, i) \in Nat
  <2>1. n.records[n.slots[i]] \in Record
    BY <1>1, <1>2
  <2>2. n.records[n.slots[i]].row_id \in Keys
    BY <2>1 DEF Record
  <2>3. QED BY <2>1, <2>2, LeafConstants DEF Key
<1>4. ASSUME NEW i \in 1 .. N, NEW j \in 1 .. N, Key(n, i) = Key(n, j)
      PROVE  i = j
  <2>1. ~ (i < j) /\ ~ (j < i)
    <3>1. ~ (Key(n, i) < Key(n, j)) /\ ~ (Key(n, j) < Key(n, i))
      BY <1>3, <1>4
    <3>2. QED BY <1>1, <1>2, <3>1
  <2>2. QED BY <2>1
<1>5. QED BY <1>1, <1>2, <1>3, <1>4

(* binary search: the place where a key is, or would have to be inserted,  *)
(* separates the smaller keys from the others.                             *)
LEMMA PlaceProperties ==
  ASSUME NEW n, Ordered(n), NEW k \in Nat
  PROVE  /\ PlaceOf(n, k) \in 1 .. Len(n.slots) + 1
         /\ \A i \in 1 .. Len(n.slots) : i < PlaceOf(n, k) <=> Key(n, i) < k
<1>1. PICK N \in Nat :
        /\ Len(n.slots) = N
        /\ \A i \in 1 .. N : Key(n, i) \in Nat
        /\ \A i, j \in 1 .. N : i < j => Key(n, i) < Key(n, j)
  BY OrderedFacts
<1> DEFINE A == {i \in 1 .. N : Key(n, i) < k}
           B == {i \in 1 .. N : ~ (Key(n, i) < k)}
<1>2. PlaceOf(n, k) = Cardinality(A) + 1
  BY <1>1 DEF PlaceOf
<1>3. PICK p \in 0 .. N : \A i \in 1 .. N : i <= p <=> Key(n, i) < k
  <2>1. CASE B = {}
    BY <2>1
  <2>2. CASE B # {}
    <3>1. PICK m \in B : \A i \in B : m <= i
      <4> HIDE DEF B
      <4>1. B \in SUBSET Nat
        BY DEF B
      <4>2. QED BY <2>2, <4>1, Least
    <3>2. m \in 1 .. N /\ m - 1 \in 0 .. N /\ ~ (Key(n, m) < k)
      BY <3>1
    <3>3. ASSUME NEW i \in 1 .. N PROVE i <= m - 1 <=> Key(n, i) < k
      <4>1. CASE i < m
        <5>1. i \notin B
          BY <3>1, <3>2, <4>1
        <5>2. QED BY <3>2, <4>1, <5>1
      <4>2. CASE ~ (i < m)
        <5>1. Key(n, m) <= Key(n, i)
          <6>1. CASE i = m
            BY <1>1, <6>1
          <6>2. CASE m < i
            BY <1>1, <3>2, <6>2
          <6>3. QED BY <3>2, <4>2, <6>1, <6>2
        <5>2. ~ (Key(n, i) < k)
          BY <1>1, <3>2, <5>1
        <5>3. QED BY <3>2, <4>2, <5>2
      <4>3. QED BY <4>1, <4>2
    <3>4. QED BY <3>2, <3>3
  <2>3. QED BY <2>1, <2>2
<1>4. A = 1 .. p
  BY <1>3
<1> HIDE DEF A
<1>5. Cardinality(A) = p
  BY <1>4, FS_Interval
<1>6. PlaceOf(n, k) = p + 1
  BY <1>2, <1>5
<1>7. QED BY <1>1, <1>3, <1>6

(* A key has at most one slot.                                             *)
LEMMA OneSlot ==
  ASSUME NEW n, Ordered(n), NEW i \in 1 .. Len(n.slots)
  PROVE  /\ SlotsOf(n, Key(n, i)) = {i}
         /\ RecordOf(n, Key(n, i)) = n.slots[i]
<1>1. PICK N \in Nat :
        /\ Len(n.slots) = N
        /\ \A a, b \in 1 .. N : Key(n, a) = Key(n, b) => a = b
  BY OrderedFacts
<1>2. SlotsOf(n, Key(n, i)) = {i}
  BY <1>1 DEF SlotsOf
<1>3. RecordOf(n, Key(n, i)) = n.slots[i]
  BY <1>2 DEF RecordOf
<1>4. QED BY <1>2, <1>3

(* What get_record returns, in terms of the rows that are not deleted.     *)
LEMMA GetRow ==
  ASSUME NEW n, Ordered(n), NEW k
  PROVE  /\ \A x \in Live(n) : x.row_id = k => GetRecord(n, k) = x.data
         /\ (\A x \in Live(n) : x.row_id # k) => GetRecord(n, k) = NoRow
         /\ GetRecord(n, k) # NoRow => \E x \in Live(n) : x.row_id = k
<1>1. PICK N \in Nat :
        /\ Len(n.slots) = N
        /\ \A i \in 1 .. N : Key(n, i) = n.records[n.slots[i]].row_id
  BY OrderedFacts
<1>2. ASSUME NEW x \in Live(n), x.row_id = k PROVE GetRecord(n, k) = x.data
  <2>1. PICK i \in 1 .. N : x = n.records[n.slots[i]] /\ ~ x.is_deleted
    BY <1>1 DEF Live, Reached
  <2>2. Key(n, i) = k
    BY <1>1, <1>2, <2>1
  <2>3. SlotsOf(n, k) # {} /\ RecordOf(n, k) = n.slots[i]
    BY <1>1, <2>2, OneSlot
  <2>4. QED BY <2>1, <2>3 DEF GetRecord
<1>3. ASSUME GetRecord(n, k) # NoRow PROVE \E x \in Live(n) : x.row_id = k
  <2>1. SlotsOf(n, k) # {} /\ ~ n.records[RecordOf(n, k)].is_deleted
    BY <1>3 DEF GetRecord
  <2>2. PICK i \in 1 .. N : Key(n, i) = k
    BY <1>1, <2>1 DEF SlotsOf
  <2>3. RecordOf(n, k) = n.slots[i]
    BY <1>1, <2>2, OneSlot
  <2>4. n.records[n.slots[i]] \in Live(n)
    BY <1>1, <2>1, <2>3 DEF Live, Reached
  <2>5. QED BY <1>1, <2>2, <2>4
<1>4. QED BY <1>2, <1>3

(* Two leaves with the same rows answer alike.                             *)
LEMMA SameRows ==
  ASSUME NEW a, NEW b, Ordered(a), Ordered(b), Live(a) = Live(b)
  PROVE  RowsOf(a) = RowsOf(b)
<1>1. ASSUME NEW k \in Keys PROVE GetRecord(a, k) = GetRecord(b, k)
  <2>1. CASE \E x \in Live(a) : x.row_id = k
    BY <2>1, GetRow
  <2>2. CASE \A x \in Live(a) : x.row_id # k
    BY <2>2, GetRow
  <2>3. QED BY <2>1, <2>2
<1>2. QED BY <1>1 DEF RowsOf

-----------------------------------------------------------------------------
(* A sequence with one more element in its middle.                         *)
Inserted(s, N, p, x, t) ==
  /\ t \in Seq(Nat)
  /\ Len(t) = N + 1
  /\ t[p] = x
  /\ \A i \in 1 .. N : i < p => t[i] = s[i]
  /\ \A i \in 1 .. N : p <= i => t[i + 1] = s[i]

(* Vec::insert moves the elements behind the new one by one place.         *)
LEMMA InsertAtProperties ==
  ASSUME NEW s \in Seq(Nat), NEW N \in Nat, N = Len(s), NEW x \in Nat,
         NEW p \in 1 .. N + 1
  PROVE  Inserted(s, N, p, x, InsertAt(s, p, x))
<1> DEFINE a == SubSeq(s, 1, p - 1)
           m == <<x>>
           b == SubSeq(s, p, N)
           ab == a \o m
           r == ab \o b
<1>1. InsertAt(s, p, x) = r
  BY DEF InsertAt
<1>2. /\ a \in Seq(Nat) /\ Len(a) = p - 1
      /\ \A i \in 1 .. p - 1 : a[i] = s[i]
  <2>1. /\ a \in Seq(Nat)
        /\ Len(a) = IF 1 <= p - 1 THEN (p - 1) - 1 + 1 ELSE 0
        /\ \A i \in 1 .. (p - 1) - 1 + 1 : a[i] = s[1 + i - 1]
    <3>1. \A i \in 1 .. p - 1 : s[i] \in Nat
      OBVIOUS
    <3>2. 1 \in Int /\ p - 1 \in Int
      OBVIOUS
    <3> HIDE DEF a
    <3>3. QED BY <3>1, <3>2, SubSeqProperties DEF a
  <2> HIDE DEF a
  <2>2. QED BY <2>1
<1>3. /\ b \in Seq(Nat) /\ Len(b) = N + 1 - p
      /\ \A i \in 1 .. N + 1 - p : b[i] = s[p + i - 1]
  <2>1. /\ b \in Seq(Nat)
        /\ Len(b) = IF p <= N THEN N - p + 1 ELSE 0
        /\ \A i \in 1 .. N - p + 1 : b[i] = s[p + i - 1]
    <3>1. \A i \in p .. N : s[i] \in Nat
      OBVIOUS
    <3>2. p \in Int /\ N \in Int
      OBVIOUS
    <3> HIDE DEF b
    <3>3. QED BY <3>1, <3>2, SubSeqProperties DEF b
  <2> HIDE DEF b
  <2>2. QED BY <2>1
<1>4. m \in Seq(Nat) /\ Len(m) = 1 /\ m[1] = x
  OBVIOUS
<1> HIDE DEF a, b, m
<1>5. /\ ab \in Seq(Nat) /\ Len(ab) = p
      /\ \A i \in 1 .. p : ab[i] = IF i <= p - 1 THEN a[i] ELSE m[i - (p - 1)]
  <2>1. /\ ab \in Seq(Nat) /\ Len(ab) = Len(a) + Len(m)
        /\ \A i \in 1 .. Len(a) + Len(m) :
             ab[i] = IF i <= Len(a) THEN a[i] ELSE m[i - Len(a)]
    BY <1>2, <1>4, ConcatProperties
  <2>2. Len(a) + Len(m) = p
    BY <1>2, <1>4
  <2> HIDE DEF ab
  <2>3. QED BY <1>2, <2>1, <2>2
<1> HIDE DEF ab
<1>6. /\ r \in Seq(Nat) /\ Len(r) = N + 1
      /\ \A i \in 1 .. N + 1 : r[i] = IF i <= p THEN ab[i] ELSE b[i - p]
  <2>1. /\ r \in Seq(Nat) /\ Len(r) = Len(ab) + Len(b)
        /\ \A i \in 1 .. Len(ab) + Len(b) :
             r[i] = IF i <= Len(ab) THEN ab[i] ELSE b[i - Len(ab)]
    BY <1>3, <1>5, ConcatProperties
  <2>2. Len(ab) + Len(b) = N + 1
    BY <1>3, <1>5
  <2> HIDE DEF r
  <2>3. QED BY <1>5, <2>1, <2>2
<1> HIDE DEF r
<1>7. /\ \A i \in 1 .. p - 1 : a[i] = s[i]
      /\ \A i \in 1 .. N + 1 - p : b[i] = s[p + i - 1]
      /\ \A i \in 1 .. p : ab[i] = IF i <= p - 1 THEN a[i] ELSE m[i - (p - 1)]
      /\ \A i \in 1 .. N + 1 : r[i] = IF i <= p THEN ab[i] ELSE b[i - p]
  BY <1>2, <1>3, <1>5, <1>6
<1>8. r[p] = x
  <2>1. r[p] = ab[p]
    BY <1>7
  <2>2. ab[p] = m[1]
    BY <1>7
  <2>3. QED BY <1>4, <2>1, <2>2
<1>9. ASSUME NEW i \in 1 .. N, i < p PROVE r[i] = s[i]
  <2>1. i \in 1 .. N + 1 /\ i \in 1 .. p /\ i \in 1 .. p - 1 /\ i <= p
    BY <1>9
  <2>2. r[i] = ab[i] /\ ab[i] = a[i] /\ a[i] = s[i]
    BY <1>7, <2>1
  <2>3. QED BY <2>2
<1>10. ASSUME NEW i \in 1 .. N, p <= i PROVE r[i + 1] = s[i]
  <2>1. r[i + 1] = b[i + 1 - p]
    <3>1. i + 1 \in 1 .. N + 1 /\ ~ (i + 1 <= p)
      BY <1>10
    <3>2. QED BY <1>7, <3>1
  <2>2. i + 1 - p \in 1 .. N + 1 - p /\ p + (i + 1 - p) - 1 = i
    BY <1>10
  <2>3. b[i + 1 - p] = s[p + (i + 1 - p) - 1]
    BY <1>7, <2>2
  <2>4. QED BY <2>1, <2>2, <2>3
<1>11. QED BY <1>1, <1>6, <1>8, <1>9, <1>10 DEF Inserted

(* A record pushed under a key that had none, and its slot put in place.   *)
LEMMA PushProperties ==
  ASSUME NEW n, WellFormed(n), NEW x \in Record, SlotsOf(n, x.row_id) = {},
         NEW c \in Node,
         c.slots = InsertAt(n.slots, PlaceOf(n, x.row_id), Len(n.records) + 1),
         c.records = Append(n.records, x)
  PROVE  /\ WellFormed(c)
         /\ Live(c) = Live(n) \cup {y \in {x} : ~ y.is_deleted}
         /\ Reached(c) = Reached(n) \cup {x}
         /\ Len(c.slots) = Len(n.slots) + 1
         /\ Footer(c) <= Footer(n) + MetaSize + Size[x.data]
<1>1. PICK N \in Nat :
        /\ Len(n.slots) = N
        /\ n.slots \in Seq(Nat) /\ n.records \in Seq(Record)
        /\ \A i \in 1 .. N : /\ n.slots[i] \in 1 .. Len(n.records)
                             /\ n.records[n.slots[i]] \in Record
                             /\ Key(n, i) = n.records[n.slots[i]].row_id
                             /\ Key(n, i) \in Keys /\ Key(n, i) \in Nat
        /\ \A i, j \in 1 .. N : i < j => Key(n, i) < Key(n, j)
        /\ \A i, j \in 1 .. N : Key(n, i) = Key(n, j) => i = j
  BY OrderedFacts DEF WellFormed
<1>2. Len(n.records) = N /\ \A r \in 1 .. N : \E i \in 1 .. N : n.slots[i] = r
  BY <1>1 DEF WellFormed
<1>3. PICK k \in Nat : k = x.row_id
  BY LeafConstants DEF Record
<1>4. PICK p \in 1 .. N + 1 : p = PlaceOf(n, k) /\ \A i \in 1 .. N : i < p <=> Key(n, i) < k
  BY <1>1, PlaceProperties DEF WellFormed
<1>5. \A i \in 1 .. N : Key(n, i) # k
  BY <1>1, <1>3 DEF SlotsOf
<1>6. /\ Len(c.slots) = N + 1
      /\ c.slots[p] = N + 1
      /\ \A i \in 1 .. N : i < p => c.slots[i] = n.slots[i]
      /\ \A i \in 1 .. N : p <= i => c.slots[i + 1] = n.slots[i]
  <2>1. c.slots = InsertAt(n.slots, p, N + 1) /\ N + 1 \in Nat
    BY <1>2, <1>3, <1>4
  <2>2. PICK q \in Seq(Nat) : q = n.slots /\ N = Len(q)
    BY <1>1
  <2>3. PICK z \in Nat : z = N + 1
    OBVIOUS
  <2>4. Inserted(q, N, p, z, InsertAt(q, p, z))
    BY <2>2, InsertAtProperties
  <2>5. Inserted(n.slots, N, p, N + 1, c.slots)
    BY <2>1, <2>2, <2>3, <2>4
  <2>6. QED BY <2>5 DEF Inserted
<1>7. /\ Len(c.records) = N + 1
      /\ c.records[N + 1] = x
      /\ \A r \in 1 .. N : c.records[r] = n.records[r]
  BY <1>1, <1>2, AppendProperties
<1>8. Key(c, p) = k
  BY <1>3, <1>6, <1>7 DEF Key
<1>9. ASSUME NEW i \in 1 .. N, i < p
      PROVE  /\ c.records[c.slots[i]] = n.records[n.slots[i]]
             /\ Key(c, i) = Key(n, i) /\ c.slots[i] \in 1 .. N /\ Key(n, i) < k
  <2>1. c.slots[i] = n.slots[i] /\ n.slots[i] \in 1 .. N /\ Key(n, i) < k
    BY <1>1, <1>2, <1>4, <1>6, <1>9
  <2>2. c.records[c.slots[i]] = n.records[n.slots[i]]
    BY <1>7, <2>1
  <2>3. QED BY <2>1, <2>2 DEF Key
<1>10. ASSUME NEW i \in 1 .. N, p <= i
       PROVE  /\ c.records[c.slots[i + 1]] = n.records[n.slots[i]]
              /\ Key(c, i + 1) = Key(n, i) /\ c.slots[i + 1] \in 1 .. N /\ k < Key(n, i)
  <2>1. c.slots[i + 1] = n.slots[i] /\ n.slots[i] \in 1 .. N
    BY <1>1, <1>2, <1>6, <1>10
  <2>2. c.records[c.slots[i + 1]] = n.records[n.slots[i]]
    BY <1>7, <2>1
  <2>3. ~ (Key(n, i) < k) /\ Key(n, i) # k /\ Key(n, i) \in Nat
    BY <1>1, <1>4, <1>5, <1>10
  <2>4. k < Key(n, i)
    BY <2>3
  <2>5. QED BY <2>1, <2>2, <2>4 DEF Key
<1>11. \A i \in 1 .. N + 1 : i = p \/ (i \in 1 .. N /\ i < p)
                               \/ (i - 1 \in 1 .. N /\ p <= i - 1 /\ (i - 1) + 1 = i)
  OBVIOUS
<1>12. \A i \in 1 .. N + 1 : c.slots[i] \in 1 .. N + 1
  <2>1. ASSUME NEW i \in 1 .. N + 1 PROVE c.slots[i] \in 1 .. N + 1
    <3>1. CASE i = p
      BY <1>6, <3>1
    <3>2. CASE i \in 1 .. N /\ i < p
      <4>1. c.slots[i] \in 1 .. N
        BY <1>9, <3>2
      <4>2. QED BY <4>1
    <3>3. CASE i - 1 \in 1 .. N /\ p <= i - 1 /\ (i - 1) + 1 = i
      <4>1. c.slots[(i - 1) + 1] \in 1 .. N
        BY <1>10, <3>3
      <4>2. QED BY <3>3, <4>1
    <3>4. QED BY <1>11, <3>1, <3>2, <3>3
  <2>2. QED BY <2>1
<1>13. ASSUME NEW i \in 1 .. N + 1, NEW j \in 1 .. N + 1, i < j
       PROVE  Key(c, i) < Key(c, j)
  <2>1. CASE i = p
    <3>1. j - 1 \in 1 .. N /\ p <= j - 1 /\ (j - 1) + 1 = j
      BY <1>13, <2>1
    <3>2. Key(c, (j - 1) + 1) = Key(n, j - 1) /\ k < Key(n, j - 1)
      BY <1>10, <3>1
    <3>3. QED BY <1>8, <2>1, <3>1, <3>2
  <2>2. CASE i \in 1 .. N /\ i < p
    <3>1. Key(c, i) = Key(n, i) /\ Key(n, i) < k /\ Key(n, i) \in Nat
      BY <1>1, <1>9, <2>2
    <3>2. CASE j = p
      BY <1>8, <3>1, <3>2
    <3>3. CASE j \in 1 .. N /\ j < p
      <4>1. Key(c, j) = Key(n, j) /\ Key(n, i) < Key(n, j)
        BY <1>1, <1>9, <1>13, <2>2, <3>3
      <4>2. QED BY <3>1, <4>1
    <3>4. CASE j - 1 \in 1 .. N /\ p <= j - 1 /\ (j - 1) + 1 = j
      <4>1. Key(c, (j - 1) + 1) = Key(n, j - 1) /\ k < Key(n, j - 1) /\ Key(n, j - 1) \in Nat
        BY <1>1, <1>10, <3>4
      <4>2. Key(c, j) = Key(n, j - 1)
        BY <3>4, <4>1
      <4>3. QED BY <3>1, <4>1, <4>2
    <3>5. QED BY <1>11, <3>2, <3>3, <3>4
  <2>3. CASE i - 1 \in 1 .. N /\ p <= i - 1 /\ (i - 1) + 1 = i
    <3>1. Key(c, (i - 1) + 1) = Key(n, i - 1)
      BY <1>10, <2>3
    <3>2. j - 1 \in 1 .. N /\ p <= j - 1 /\ (j - 1) + 1 = j /\ i - 1 < j - 1
      BY <1>13, <2>3
    <3>3. Key(c, (j - 1) + 1) = Key(n, j - 1)
      BY <1>10, <3>2
    <3>4. Key(n, i - 1) < Key(n, j - 1)
      BY <1>1, <2>3, <3>2
    <3>5. QED BY <2>3, <3>1, <3>2, <3>3, <3>4
  <2>4. QED BY <1>11, <2>1, <2>2, <2>3
<1>14. ASSUME NEW r \in 1 .. N + 1 PROVE \E i \in 1 .. N + 1 : c.slots[i] = r
  <2>1. CASE r = N + 1
    BY <1>6, <2>1
  <2>2. CASE r # N + 1
    <3>1. r \in 1 .. N
      BY <2>2
    <3>2. PICK i \in 1 .. N : n.slots[i] = r
      BY <1>2, <3>1
    <3>3. CASE i < p
      BY <1>6, <3>2, <3>3
    <3>4. CASE p <= i
      <4>1. c.slots[i + 1] = r /\ i + 1 \in 1 .. N + 1
        BY <1>6, <3>2, <3>4
      <4>2. QED BY <4>1
    <3>5. QED BY <3>3, <3>4
  <2>3. QED BY <2>1, <2>2
<1>15. WellFormed(c)
  <2>1. Ordered(c)
    BY <1>6, <1>7, <1>12, <1>13 DEF Ordered
  <2>2. QED BY <1>6, <1>7, <1>14, <2>1 DEF WellFormed
<1>16. Reached(c) = Reached(n) \cup {x}
  <2>1. ASSUME NEW y \in Reached(c) PROVE y \in Reached(n) \cup {x}
    <3>1. PICK i \in 1 .. N + 1 : y = c.records[c.slots[i]]
      BY <1>6 DEF Reached
    <3>2. CASE i = p
      BY <1>6, <1>7, <3>1, <3>2
    <3>3. CASE i \in 1 .. N /\ i < p
      <4>1. y = n.records[n.slots[i]]
        BY <1>9, <3>1, <3>3
      <4>2. QED BY <1>1, <3>3, <4>1 DEF Reached
    <3>4. CASE i - 1 \in 1 .. N /\ p <= i - 1 /\ (i - 1) + 1 = i
      <4>1. c.records[c.slots[(i - 1) + 1]] = n.records[n.slots[i - 1]]
        BY <1>10, <3>4
      <4>2. y = n.records[n.slots[i - 1]]
        BY <3>1, <3>4, <4>1
      <4>3. QED BY <1>1, <3>4, <4>2 DEF Reached
    <3>5. QED BY <1>11, <3>2, <3>3, <3>4
  <2>2. x \in Reached(c)
    <3>1. c.records[c.slots[p]] = x
      BY <1>6, <1>7
    <3>2. QED BY <1>6, <3>1 DEF Reached
  <2>3. ASSUME NEW y \in Reached(n) PROVE y \in Reached(c)
    <3>1. PICK i \in 1 .. N : y = n.records[n.slots[i]]
      BY <1>1, <2>3 DEF Reached
    <3>2. CASE i < p
      <4>1. y = c.records[c.slots[i]]
        BY <1>9, <3>1, <3>2
      <4>2. i \in 1 .. N + 1
        OBVIOUS
      <4>3. QED BY <1>6, <4>1, <4>2 DEF Reached
    <3>3. CASE p <= i
      <4>1. y = c.records[c.slots[i + 1]]
        BY <1>10, <3>1, <3>3
      <4>2. i + 1 \in 1 .. N + 1
        OBVIOUS
      <4>3. QED BY <1>6, <4>1, <4>2 DEF Reached
    <3>4. QED BY <3>2, <3>3
  <2>4. QED BY <2>1, <2>2, <2>3
<1>17. Live(c) = Live(n) \cup {y \in {x} : ~ y.is_deleted}
  BY <1>16 DEF Live
<1>18. Footer(c) <= Footer(n) + MetaSize + Size[x.data]
  <2>1. PICK dn \in [0 .. N -> Nat] :
          /\ dn[0] = 0
          /\ \A i \in 1 .. N : dn[i] = dn[i - 1] + Bytes(n, i) /\ Bytes(n, i) \in Nat
          /\ Footer(n) = dn[N]
    BY <1>1, FooterSum
  <2>2. PICK K \in Nat : K = N + 1
    OBVIOUS
  <2>3. PICK dc \in [0 .. K -> Nat] :
          /\ dc[0] = 0
          /\ \A i \in 1 .. K : dc[i] = dc[i - 1] + Bytes(c, i) /\ Bytes(c, i) \in Nat
          /\ Footer(c) = dc[K]
    <3>1. c.slots \in Seq(Nat) /\ c.records \in Seq(Record)
      BY DEF Node
    <3>2. \A i \in 1 .. Len(c.slots) : c.slots[i] \in 1 .. Len(c.records)
      BY <1>6, <1>7, <1>12
    <3>3. K = Len(c.slots)
      BY <1>6, <2>2
    <3>4. QED BY <3>1, <3>2, <3>3, FooterSum
  <2>4. PICK w \in Nat : w = Bytes(c, p) /\ w = MetaSize + Size[x.data]
    <3>1. Bytes(c, p) = MetaSize + Size[x.data]
      BY <1>6, <1>7 DEF Bytes
    <3>2. p \in 1 .. K
      BY <2>2
    <3>3. Bytes(c, p) \in Nat
      BY <2>3, <3>2
    <3>4. QED BY <3>1, <3>3
  <2>5. \A i \in 1 .. N : i < p => Bytes(c, i) = Bytes(n, i)
    BY <1>9 DEF Bytes
  <2>6. \A i \in 1 .. N : p <= i => Bytes(c, i + 1) = Bytes(n, i)
    BY <1>10 DEF Bytes
  <2> DEFINE T == {i \in 0 .. N : /\ i < p => dc[i] <= dn[i]
                                  /\ p <= i + 1 => dc[i + 1] <= dn[i] + w}
  <2>7. ASSUME NEW i \in 0 .. N, i < p => dc[i] <= dn[i], i + 1 = p
        PROVE  dc[i + 1] <= dn[i] + w
    <3>1. i \in 0 .. K /\ i + 1 \in 1 .. K /\ i < p /\ (i + 1) - 1 = i
      BY <2>2, <2>7
    <3>2. PICK u \in Nat : u = dc[i]
      BY <3>1
    <3>3. PICK v \in Nat : v = dn[i]
      OBVIOUS
    <3>4. dc[i + 1] = dc[i] + Bytes(c, i + 1)
      BY <2>3, <3>1
    <3>5. dc[i + 1] = u + w
      BY <2>4, <2>7, <3>2, <3>4
    <3>6. u <= v
      BY <2>7, <3>1, <3>2, <3>3
    <3>7. QED BY <3>3, <3>5, <3>6
  <2>8. 0 \in T
    <3>1. dc[0] <= dn[0]
      BY <2>1, <2>3
    <3>2. p <= 0 + 1 => 0 + 1 = p /\ 0 \in 0 .. N
      OBVIOUS
    <3>3. p <= 0 + 1 => dc[0 + 1] <= dn[0] + w
      BY <2>7, <3>1, <3>2
    <3>4. QED BY <3>1, <3>3
  <2>9. ASSUME NEW i \in 1 .. N, i - 1 \in T PROVE i \in T
    <3>1. /\ i - 1 < p => dc[i - 1] <= dn[i - 1]
          /\ p <= i => dc[i] <= dn[i - 1] + w
      <4>1. PICK j \in 0 .. N : j = i - 1 /\ j + 1 = i
        OBVIOUS
      <4>2. /\ j < p => dc[j] <= dn[j]
            /\ p <= j + 1 => dc[j + 1] <= dn[j] + w
        <5> HIDE DEF T
        <5>1. j \in T
          BY <2>9, <4>1
        <5>2. QED BY <5>1 DEF T
      <4>3. QED BY <4>1, <4>2
    <3>2. i - 1 \in 0 .. N /\ i - 1 \in 0 .. K /\ i \in 1 .. K /\ i + 1 \in 1 .. K
          /\ i \in 0 .. N /\ i \in 0 .. K /\ (i + 1) - 1 = i
      BY <2>2
    <3>3. PICK v \in Nat : v = dn[i - 1]
      BY <3>2
    <3>4. PICK b \in Nat : b = Bytes(n, i)
      BY <2>1
    <3>5. dn[i] = v + b
      BY <2>1, <3>3, <3>4
    <3>6. i < p => dc[i] <= dn[i]
      <4>1. SUFFICES ASSUME i < p PROVE dc[i] <= dn[i]
        OBVIOUS
      <4>2. PICK u \in Nat : u = dc[i - 1]
        BY <3>2
      <4>3. u <= v
        BY <3>1, <3>3, <4>1, <4>2
      <4>4. dc[i] = dc[i - 1] + Bytes(c, i) /\ Bytes(c, i) = Bytes(n, i)
        BY <2>3, <2>5, <3>2, <4>1
      <4>5. dc[i] = u + b
        BY <3>4, <4>2, <4>4
      <4>6. QED BY <3>5, <4>3, <4>5
    <3>7. p <= i + 1 => dc[i + 1] <= dn[i] + w
      <4>1. CASE p = i + 1
        BY <2>7, <3>2, <3>6, <4>1
      <4>2. CASE p <= i
        <5>1. PICK u \in Nat : u = dc[i]
          BY <3>2
        <5>2. u <= v + w
          BY <3>1, <3>3, <4>2, <5>1
        <5>3. dc[i + 1] = dc[i] + Bytes(c, i + 1) /\ Bytes(c, i + 1) = Bytes(n, i)
          BY <2>3, <2>6, <3>2, <4>2
        <5>4. dc[i + 1] = u + b
          BY <3>4, <5>1, <5>3
        <5>5. u + b <= (v + b) + w
          BY <5>2
        <5>6. QED BY <3>5, <5>4, <5>5
      <4>3. p <= i + 1 => p = i + 1 \/ p <= i
        OBVIOUS
      <4>4. QED BY <4>1, <4>2, <4>3
    <3>8. QED BY <3>2, <3>6, <3>7
  <2>10. T \in SUBSET (0 .. N)
    OBVIOUS
  <2>11. N \in T
    <3> HIDE DEF T
    <3>1. QED BY <2>8, <2>9, <2>10, Loop
  <2>12. dc[N + 1] <= dn[N] + w
    BY <2>11
  <2>13. PICK u \in Nat, s \in Nat : u = Footer(n) /\ s = Size[x.data]
    <3>1. x.data \in Payloads
      BY DEF Record
    <3>2. Size[x.data] \in Nat
      BY <3>1, LeafConstants
    <3>3. Footer(n) \in Nat
      BY <2>1
    <3>4. QED BY <3>2, <3>3
  <2>14. Footer(c) <= u + w /\ w = MetaSize + s /\ MetaSize \in Nat /\ Footer(c) \in Nat
    BY <2>1, <2>2, <2>3, <2>4, <2>12, <2>13, LeafConstants
  <2>15. Footer(c) <= u + MetaSize + s
    BY <2>14
  <2>16. QED BY <2>13, <2>15
<1>19. QED BY <1>1, <1>6, <1>15, <1>16, <1>17, <1>18

(* A record replaced by another one of the same key.                       *)
Replaced(n, i, x) == [n EXCEPT !.records[n.slots[i]] = x]

(* Writing a record under its own key keeps the node well formed; a        *)
(* payload that is not longer takes no more bytes.                         *)
LEMMA ReplaceProperties ==
  ASSUME NEW n, WellFormed(n), NEW i \in 1 .. Len(n.slots),
         NEW x \in Record, x.row_id = Key(n, i),
         NEW c, c = Replaced(n, i, x)
  PROVE  /\ WellFormed(c)
         /\ Live(c) = {y \in Live(n) : y.row_id # x.row_id} \cup {y \in {x} : ~ y.is_deleted}
         /\ Reached(c) \subseteq Reached(n) \cup {x}
         /\ Size[x.data] <= Size[n.records[n.slots[i]].data] => Used(c) <= Used(n)
<1>1. PICK N \in Nat :
        /\ Len(n.slots) = N
        /\ n.slots \in Seq(Nat) /\ n.records \in Seq(Record)
        /\ \A j \in 1 .. N : /\ n.slots[j] \in 1 .. Len(n.records)
                             /\ n.records[n.slots[j]] \in Record
                             /\ Key(n, j) = n.records[n.slots[j]].row_id
                             /\ Key(n, j) \in Keys /\ Key(n, j) \in Nat
        /\ \A j, k \in 1 .. N : j < k => Key(n, j) < Key(n, k)
        /\ \A j, k \in 1 .. N : Key(n, j) = Key(n, k) => j = k
  BY OrderedFacts DEF WellFormed
<1>2. /\ n \in Node
      /\ Len(n.records) = N /\ \A r \in 1 .. N : \E j \in 1 .. N : n.slots[j] = r
  BY <1>1 DEF WellFormed, Ordered
<1>3. PICK z \in 1 .. N : z = n.slots[i]
  BY <1>1, <1>2
<1>4. PICK rs : rs = [n.records EXCEPT ![z] = x]
  OBVIOUS
<1>5. c = [slots |-> n.slots, records |-> rs, free_size |-> n.free_size]
  BY <1>2, <1>3, <1>4, ReplaceRecord DEF Replaced
<1>6. /\ rs \in Seq(Record) /\ Len(rs) = N /\ rs[z] = x
      /\ \A r \in 1 .. N : r # z => rs[r] = n.records[r]
  <2>1. PICK q \in Seq(Record) : q = n.records /\ Len(q) = N
    BY <1>1, <1>2
  <2>2. rs = [q EXCEPT ![z] = x] /\ z \in 1 .. Len(q)
    BY <1>3, <1>4, <2>1
  <2>3. /\ rs \in Seq(Record) /\ Len(rs) = Len(q)
        /\ \A r \in 1 .. Len(q) : rs[r] = IF r = z THEN x ELSE q[r]
    BY <2>2, ExceptSeq
  <2>4. QED BY <2>1, <2>3
<1>7. c.slots = n.slots /\ c.free_size = n.free_size /\ c \in Node
  <2>1. n.slots \in Seq(Nat) /\ n.free_size \in 0 .. PageSize
    BY <1>2 DEF Node
  <2>2. rs \in Seq(Record)
    BY <1>6
  <2>3. c.slots = n.slots /\ c.free_size = n.free_size
    BY <1>5
  <2>4. c \in Node
    BY <1>5, <2>1, <2>2 DEF Node
  <2>5. QED BY <2>3, <2>4
<1>8. /\ Len(c.records) = N /\ c.records[z] = x
      /\ \A r \in 1 .. N : r # z => c.records[r] = n.records[r]
  BY <1>5, <1>6
<1>9. i \in 1 .. N /\ c.records[c.slots[i]] = x
  BY <1>1, <1>3, <1>7, <1>8
<1>10. ASSUME NEW j \in 1 .. N, j # i
      PROVE  /\ c.records[c.slots[j]] = n.records[n.slots[j]]
             /\ n.records[n.slots[j]].row_id # x.row_id
  <2>1. n.records[n.slots[j]].row_id # x.row_id
    BY <1>1, <1>9, <1>10
  <2>2. n.slots[j] # z
    BY <1>1, <1>3, <1>9, <2>1
  <2>3. n.slots[j] \in 1 .. N
    BY <1>1, <1>2
  <2>4. QED BY <1>7, <1>8, <2>1, <2>2, <2>3
<1>11. ASSUME NEW j \in 1 .. N PROVE Key(c, j) = Key(n, j)
  <2>1. CASE j = i
    BY <1>9, <2>1 DEF Key
  <2>2. CASE j # i
    BY <1>10, <2>2 DEF Key
  <2>3. QED BY <2>1, <2>2
<1>12. WellFormed(c)
  <2>1. \A j \in 1 .. N : c.slots[j] \in 1 .. N
    BY <1>1, <1>2, <1>7
  <2>2. \A j, k \in 1 .. N : j < k => Key(c, j) < Key(c, k)
    BY <1>1, <1>11
  <2>3. Len(c.slots) = N /\ Len(c.records) = N
    BY <1>1, <1>7, <1>8
  <2>4. Ordered(c)
    BY <1>7, <2>1, <2>2, <2>3 DEF Ordered
  <2>5. \A r \in 1 .. N : \E j \in 1 .. N : c.slots[j] = r
    BY <1>2, <1>7
  <2>6. QED BY <2>3, <2>4, <2>5 DEF WellFormed
<1>13. ASSUME NEW y \in Reached(c)
       PROVE  y = x \/ (y \in Reached(n) /\ y.row_id # x.row_id)
  <2>1. PICK j \in 1 .. N : y = c.records[c.slots[j]]
    BY <1>1, <1>7 DEF Reached
  <2>2. CASE j = i
    BY <1>9, <2>1, <2>2
  <2>3. CASE j # i
    <3>1. y = n.records[n.slots[j]] /\ y.row_id # x.row_id
      BY <1>10, <2>1, <2>3
    <3>2. QED BY <1>1, <3>1 DEF Reached
  <2>4. QED BY <2>2, <2>3
<1>14. x \in Reached(c)
  BY <1>1, <1>7, <1>9 DEF Reached
<1>15. ASSUME NEW y \in Reached(n), y.row_id # x.row_id PROVE y \in Reached(c)
  <2>1. PICK j \in 1 .. N : y = n.records[n.slots[j]]
    BY <1>1 DEF Reached
  <2>2. j # i
    BY <1>1, <1>15, <2>1
  <2>3. y = c.records[c.slots[j]]
    BY <1>10, <2>1, <2>2
  <2>4. QED BY <1>1, <1>7, <2>3 DEF Reached
<1>16. Live(c) = {y \in Live(n) : y.row_id # x.row_id} \cup {y \in {x} : ~ y.is_deleted}
  BY <1>13, <1>14, <1>15 DEF Live
<1>17. ASSUME Size[x.data] <= Size[n.records[n.slots[i]].data]
       PROVE  Used(c) <= Used(n)
  <2> DEFINE f == [j \in 1 .. Len(c.slots) |-> j]
  <2>1. Len(c.slots) = N
    BY <1>1, <1>7
  <2>2. \A j \in 1 .. N : n.slots[j] \in 1 .. Len(n.records)
    BY <1>1
  <2>3. ASSUME NEW j \in 1 .. N PROVE Bytes(c, j) <= Bytes(n, j)
    <3>1. CASE j # i
      <4>1. Bytes(c, j) = Bytes(n, j)
        BY <1>10, <3>1 DEF Bytes
      <4>2. Bytes(n, j) \in Nat
        BY <1>1, AddBytes
      <4>3. QED BY <4>1, <4>2
    <3>2. CASE j = i
      <4>1. PICK old \in Record : old = n.records[n.slots[i]]
        BY <1>1, <1>9
      <4>2. PICK new \in Nat, size \in Nat : new = Size[x.data] /\ size = Size[old.data]
        BY LeafConstants DEF Record
      <4>3. new <= size /\ MetaSize \in Nat
        BY <1>17, <4>1, <4>2, LeafConstants
      <4>4. Bytes(c, j) = MetaSize + new /\ Bytes(n, j) = MetaSize + size
        BY <1>9, <3>2, <4>1, <4>2 DEF Bytes
      <4>5. QED BY <4>3, <4>4
    <3>3. QED BY <3>1, <3>2
  <2>4. /\ f \in [1 .. Len(c.slots) -> 1 .. Len(n.slots)]
        /\ \A j \in 1 .. Len(c.slots) : f[j] = j
    BY <1>1, <2>1
  <2> HIDE DEF f
  <2>5. \A j, k \in 1 .. Len(c.slots) : j < k => f[j] < f[k]
    BY <2>4
  <2>6. \A j \in 1 .. Len(c.slots) : Bytes(c, j) <= Bytes(n, f[j])
    BY <2>1, <2>3, <2>4
  <2>7. Ordered(c) /\ Ordered(n)
    BY <1>12 DEF WellFormed
  <2>8. QED BY <2>4, <2>5, <2>6, <2>7, UsedLess
<1>18. QED BY <1>12, <1>13, <1>16, <1>17

(* A leaf that was written to its page and read again is as it was.        *)
LEMMA ReloadProperties ==
  ASSUME NEW n, WellFormed(n), Fits(n), NEW c, c = Decode(Encode(n))
  PROVE  /\ WellFormed(c)
         /\ Live(c) = Live(n)
         /\ c.slots = n.slots /\ c.records = n.records
<1>1. PICK N \in Nat :
        /\ Len(n.slots) = N
        /\ n.slots \in Seq(Nat) /\ n.records \in Seq(Record)
        /\ \A j \in 1 .. N : n.slots[j] \in 1 .. Len(n.records)
  BY OrderedFacts DEF WellFormed
<1>2. Len(n.records) = N /\ \A r \in 1 .. N : \E j \in 1 .. N : n.slots[j] = r
  BY <1>1 DEF WellFormed
<1> DEFINE cells == [j \in 1 .. N |-> n.records[n.slots[j]]]
           records == [r \in 1 .. N |-> cells[CHOOSE j \in 1 .. N : n.slots[j] = r]]
<1>3. c = [slots |-> n.slots, free_size |-> PageSize - Used(n), records |-> records]
  <2> DEFINE p == Encode(n)
  <2>1. /\ p.slots = n.slots /\ p.free_size = PageSize - Used(n)
        /\ p.cells = [j \in 1 .. Len(n.slots) |-> n.records[n.slots[j]]]
    BY DEF Encode
  <2>2. p.cells = cells
    BY <1>1, <2>1
  <2> HIDE DEF p
  <2>3. Decode(p) = [slots     |-> p.slots,
                     free_size |-> p.free_size,
                     records   |-> [r \in 1 .. Len(p.slots) |->
                        p.cells[CHOOSE j \in 1 .. Len(p.slots) : p.slots[j] = r]]]
    BY DEF Decode
  <2>4. c = Decode(p)
    BY DEF p
  <2> HIDE DEF cells
  <2>5. QED BY <1>1, <2>1, <2>2, <2>3, <2>4
<1>4. \A r \in 1 .. N : records[r] = n.records[r]
  <2>1. ASSUME NEW r \in 1 .. N PROVE records[r] = n.records[r]
    <3> DEFINE j == CHOOSE k \in 1 .. N : n.slots[k] = r
    <3>1. j \in 1 .. N /\ n.slots[j] = r
      BY <1>2
    <3>2. records[r] = cells[j]
      OBVIOUS
    <3> HIDE DEF j, records
    <3>3. QED BY <3>1, <3>2
  <2>2. QED BY <2>1
<1>5. c.slots = n.slots /\ c.records = n.records /\ c.free_size = PageSize - Used(n)
  <2>1. n.records = [r \in 1 .. N |-> n.records[r]]
    BY <1>1, <1>2
  <2> HIDE DEF cells
  <2>2. records = [r \in 1 .. N |-> n.records[r]]
    BY <1>4
  <2>3. QED BY <1>3, <2>1, <2>2
<1>6. PageSize - Used(n) \in 0 .. PageSize
  <2>1. Used(n) \in Nat
    BY <1>1, FooterType
  <2>2. QED BY <2>1, LeafConstants DEF Fits
<1>7. c \in Node
  <2>1. c = [slots |-> n.slots, free_size |-> PageSize - Used(n), records |-> n.records]
    BY <1>3, <1>5
  <2>2. QED BY <1>1, <1>6, <2>1 DEF Node
<1>8. \A j : Key(c, j) = Key(n, j)
  BY <1>5 DEF Key
<1>9. WellFormed(c)
  <2>1. Ordered(c)
    BY <1>5, <1>7, <1>8 DEF WellFormed, Ordered
  <2>2. QED BY <1>5, <2>1 DEF WellFormed
<1>10. Live(c) = Live(n)
  BY <1>5 DEF Live, Reached
<1>11. QED BY <1>5, <1>9, <1>10

-----------------------------------------------------------------------------
(* A row put under a key, and a row taken away, as changes of the map.     *)
NewRow(k, v) == [row_id |-> k, data |-> v, is_deleted |-> FALSE]

Others(n, k) == {y \in Live(n) : y.row_id # k}

(* The node with the row k |-> v instead of k's: the map with v under k.   *)
LEMMA RowPut ==
  ASSUME NEW a, NEW b, Ordered(a), Ordered(b), NEW k \in Keys, NEW v,
         Live(b) = Others(a, k) \cup {NewRow(k, v)}
  PROVE  RowsOf(b) = [RowsOf(a) EXCEPT ![k] = v]
<1>1. NewRow(k, v).row_id = k /\ NewRow(k, v).data = v
  BY DEF NewRow
<1>2. GetRecord(b, k) = v
  BY <1>1, GetRow
<1>3. ASSUME NEW j \in Keys, j # k PROVE GetRecord(b, j) = GetRecord(a, j)
  <2>1. CASE \E x \in Live(a) : x.row_id = j
    <3>1. PICK x \in Live(a) : x.row_id = j
      BY <2>1
    <3>2. x \in Live(b)
      BY <1>3, <3>1 DEF Others
    <3>3. QED BY <3>1, <3>2, GetRow
  <2>2. CASE \A x \in Live(a) : x.row_id # j
    <3>1. \A x \in Live(b) : x.row_id # j
      BY <1>1, <1>3, <2>2 DEF Others
    <3>2. QED BY <2>2, <3>1, GetRow
  <2>3. QED BY <2>1, <2>2
<1>4. QED BY <1>2, <1>3 DEF RowsOf

(* The node without the live record of k: the map without k.               *)
LEMMA RowTaken ==
  ASSUME NEW a, NEW b, Ordered(a), Ordered(b), NEW k \in Keys, Live(b) = Others(a, k)
  PROVE  RowsOf(b) = [RowsOf(a) EXCEPT ![k] = NoRow]
<1>1. GetRecord(b, k) = NoRow
  BY GetRow DEF Others
<1>2. ASSUME NEW j \in Keys, j # k PROVE GetRecord(b, j) = GetRecord(a, j)
  <2>1. CASE \E x \in Live(a) : x.row_id = j
    <3>1. PICK x \in Live(a) : x.row_id = j
      BY <2>1
    <3>2. x \in Live(b)
      BY <1>2, <3>1 DEF Others
    <3>3. QED BY <3>1, <3>2, GetRow
  <2>2. CASE \A x \in Live(a) : x.row_id # j
    <3>1. \A x \in Live(b) : x.row_id # j
      BY <2>2 DEF Others
    <3>2. QED BY <2>2, <3>1, GetRow
  <2>3. QED BY <2>1, <2>2
<1>3. QED BY <1>1, <1>2 DEF RowsOf

(* Whether a key has a row, from its slot.                                 *)
LEMMA SlotFacts ==
  ASSUME NEW n, Ordered(n), NEW k, SlotsOf(n, k) # {}
  PROVE  \E i \in 1 .. Len(n.slots) :
           /\ Key(n, i) = k /\ RecordOf(n, k) = n.slots[i]
           /\ n.records[n.slots[i]] \in Record /\ n.records[n.slots[i]].row_id = k
           /\ n.records[n.slots[i]].is_deleted => \A x \in Live(n) : x.row_id # k
           /\ ~ n.records[n.slots[i]].is_deleted => n.records[n.slots[i]] \in Live(n)
<1>1. PICK N \in Nat :
        /\ Len(n.slots) = N
        /\ \A j \in 1 .. N : /\ n.records[n.slots[j]] \in Record
                             /\ Key(n, j) = n.records[n.slots[j]].row_id
        /\ \A j, l \in 1 .. N : Key(n, j) = Key(n, l) => j = l
  BY OrderedFacts
<1>2. PICK i \in 1 .. N : Key(n, i) = k
  BY <1>1 DEF SlotsOf
<1>3. RecordOf(n, k) = n.slots[i]
  BY <1>1, <1>2, OneSlot
<1>4. ASSUME n.records[n.slots[i]].is_deleted, NEW x \in Live(n) PROVE x.row_id # k
  <2>1. PICK j \in 1 .. N : x = n.records[n.slots[j]] /\ ~ x.is_deleted
    BY <1>1 DEF Live, Reached
  <2>2. j # i
    BY <1>4, <2>1
  <2>3. QED BY <1>1, <1>2, <2>1, <2>2
<1>5. ~ n.records[n.slots[i]].is_deleted => n.records[n.slots[i]] \in Live(n)
  BY <1>1 DEF Live, Reached
<1>6. QED BY <1>1, <1>2, <1>3, <1>4, <1>5

-----------------------------------------------------------------------------
(* A record of the key that is smaller than what replaces it.              *)
Outgrown(n, k, v) ==
  \E i \in 1 .. Len(n.records) :
    n.records[i].row_id = k /\ Size[n.records[i].data] < Size[v]

(* A node between two others in size fits when the larger one does.        *)
LEMMA FitsLess ==
  ASSUME NEW a, NEW b, NEW c, WellFormed(a), WellFormed(b), WellFormed(c),
         Used(a) <= Used(b), Used(b) <= Used(c), Fits(c)
  PROVE  Fits(a)
<1>1. Used(a) \in Nat /\ Used(b) \in Nat /\ Used(c) \in Nat
  BY FooterType DEF WellFormed, Ordered, Node
<1>2. QED BY <1>1, LeafConstants DEF Fits

(* insert_record of a key that has no slot.                                *)
LEMMA InsertNewProperties ==
  ASSUME NEW n, WellFormed(n), NEW k \in Keys, NEW v \in Payloads, SlotsOf(n, k) = {},
         NEW o, o = InsertNew(n, k, v)
  PROVE  \/ o.ret = "PageFull" /\ o.node = n
         \/ /\ o.ret = "Ok" /\ WellFormed(o.node)
            /\ \A x \in Live(n) : x.row_id # k
            /\ Live(o.node) = Others(n, k) \cup {NewRow(k, v)}
            /\ KeysOf(o.node) \subseteq KeysOf(n) \cup {k}
            /\ Fits(o.node)
<1>1. PICK required \in Nat : required = SlotSize + MetaSize + Size[v]
  <2>1. Size[v] \in Nat /\ SlotSize \in Nat /\ MetaSize \in Nat
    BY LeafConstants
  <2>2. QED BY <2>1
<1> DEFINE free == IF n.free_size >= required THEN n.free_size - required ELSE 0
           c == [slots     |-> InsertAt(n.slots, PlaceOf(n, k), Len(n.records) + 1),
                 records   |-> Append(n.records, NewRow(k, v)),
                 free_size |-> free]
           header == HeaderSize + (Len(n.slots) + 1) * SlotSize
<1>2. \/ o = Outcome("PageFull", n)
      \/ o = Outcome("Ok", c) /\ ~ (header + Footer(n) + required > PageSize)
  BY <1>1 DEF InsertNew, NewRow
<1>3. CASE o = Outcome("PageFull", n)
  BY <1>3 DEF Outcome
<1>4. CASE o = Outcome("Ok", c) /\ ~ (header + Footer(n) + required > PageSize)
  <2>1. PICK x \in Record : x = NewRow(k, v)
    BY DEF Record, NewRow
  <2>2. x.row_id = k /\ ~ x.is_deleted
    BY <2>1 DEF NewRow
  <2>3. /\ n.slots \in Seq(Nat) /\ n.records \in Seq(Record) /\ n.free_size \in 0 .. PageSize
        /\ Len(n.slots) \in Nat /\ Len(n.records) + 1 \in Nat
    BY DEF WellFormed, Ordered, Node
  <2>4. c \in Node
    <3>1. PICK p \in 1 .. Len(n.slots) + 1 : p = PlaceOf(n, k)
      BY PlaceProperties, LeafConstants DEF WellFormed
    <3>2. PICK q \in Seq(Nat) : q = n.slots
      BY <2>3
    <3>3. PICK N \in Nat : N = Len(q)
      OBVIOUS
    <3>4. PICK z \in Nat : z = Len(n.records) + 1
      BY <2>3
    <3>5. p \in 1 .. N + 1
      BY <3>2, <3>3
    <3>6. InsertAt(q, p, z) \in Seq(Nat)
      BY <3>3, <3>5, InsertAtProperties DEF Inserted
    <3>7. Append(n.records, x) \in Seq(Record)
      BY <2>3
    <3>8. free \in 0 .. PageSize
      BY <2>3, LeafConstants
    <3> HIDE DEF free
    <3>9. QED BY <2>1, <3>1, <3>2, <3>4, <3>6, <3>7, <3>8 DEF Node
  <2>5. /\ c.slots = InsertAt(n.slots, PlaceOf(n, x.row_id), Len(n.records) + 1)
        /\ c.records = Append(n.records, x)
    BY <2>1, <2>2
  <2>6. o.ret = "Ok" /\ o.node = c
    BY <1>4 DEF Outcome
  <2> HIDE DEF c
  <2>7. /\ WellFormed(c) /\ Live(c) = Live(n) \cup {y \in {x} : ~ y.is_deleted}
        /\ Reached(c) = Reached(n) \cup {x}
        /\ Len(c.slots) = Len(n.slots) + 1
        /\ Footer(c) <= Footer(n) + MetaSize + Size[x.data]
    BY <2>2, <2>4, <2>5, PushProperties
  <2>8. \A y \in Live(n) : y.row_id # k
    <3>1. PICK N \in Nat :
            /\ Len(n.slots) = N
            /\ \A i \in 1 .. N : Key(n, i) = n.records[n.slots[i]].row_id
      BY OrderedFacts DEF WellFormed
    <3>2. QED BY <3>1 DEF Live, Reached, SlotsOf
  <2>9. Live(c) = Others(n, k) \cup {NewRow(k, v)}
    BY <2>1, <2>2, <2>7, <2>8 DEF Others
  <2>10. Fits(c)
    <3>1. PICK h \in Nat : h = header
      <4>1. (Len(n.slots) + 1) * SlotSize \in Nat
        BY <2>3, LeafConstants
      <4>2. QED BY <4>1, LeafConstants
    <3> HIDE DEF header
    <3>2. PICK f \in Nat, g \in Nat : f = Footer(n) /\ g = Footer(c)
      <4>1. Footer(n) \in Nat
        BY FooterType DEF WellFormed, Ordered, Node
      <4>2. Footer(c) \in Nat
        BY <2>7, FooterType DEF WellFormed, Ordered, Node
      <4>3. QED BY <4>1, <4>2
    <3>3. PICK b \in Nat, m \in Nat, q \in Nat : b = Size[v] /\ m = MetaSize /\ q = SlotSize
      BY LeafConstants
    <3>4. g <= f + m + b
      BY <2>1, <2>7, <3>2, <3>3 DEF NewRow
    <3>5. h + f + (q + m + b) <= PageSize
      BY <1>1, <1>4, <3>1, <3>2, <3>3, LeafConstants
    <3>6. Used(c) = h + g
      BY <2>7, <3>1, <3>2 DEF Used, header
    <3>7. h + g <= PageSize
      BY <3>4, <3>5, LeafConstants
    <3>8. QED BY <3>6, <3>7 DEF Fits
  <2>11. KeysOf(c) \subseteq KeysOf(n) \cup {k}
    BY <2>2, <2>7 DEF KeysOf
  <2>12. QED BY <2>6, <2>7, <2>8, <2>9, <2>10, <2>11
<1>5. QED BY <1>2, <1>3, <1>4

(* insert_record of a key with a tombstone.                                *)
LEMMA ReviveProperties ==
  ASSUME NEW n, WellFormed(n), NEW k \in Keys, NEW v \in Payloads, SlotsOf(n, k) # {},
         n.records[RecordOf(n, k)].is_deleted,
         NEW o, o = Revive(n, k, v)
  PROVE  /\ o.ret \in {"Ok", "panic"} /\ WellFormed(o.node)
         /\ \A x \in Live(n) : x.row_id # k
         /\ Live(o.node) = Others(n, k) \cup {NewRow(k, v)}
         /\ KeysOf(o.node) \subseteq KeysOf(n) \cup {k}
         /\ Fits(n) => Fits(o.node) \/ Outgrown(n, k, v)
<1>1. PICK i \in 1 .. Len(n.slots) :
        /\ Key(n, i) = k /\ RecordOf(n, k) = n.slots[i]
        /\ n.records[n.slots[i]] \in Record /\ n.records[n.slots[i]].row_id = k
        /\ n.records[n.slots[i]].is_deleted => \A x \in Live(n) : x.row_id # k
  BY SlotFacts DEF WellFormed
<1>2. PICK x \in Record : x = NewRow(k, v)
  BY DEF Record, NewRow
<1>3. x.row_id = k /\ ~ x.is_deleted
  BY <1>2 DEF NewRow
<1>4. PICK c : c = Replaced(n, i, x)
  OBVIOUS
<1>5. o = Outcome(CompactOutcome(c), Compact(c))
  BY <1>1, <1>2, <1>4 DEF Revive, NewRow, Replaced
<1>6. /\ WellFormed(c)
      /\ Live(c) = {y \in Live(n) : y.row_id # x.row_id} \cup {y \in {x} : ~ y.is_deleted}
      /\ Size[x.data] <= Size[n.records[n.slots[i]].data] => Used(c) <= Used(n)
  BY <1>1, <1>3, <1>4, ReplaceProperties
<1>7. Live(c) = Others(n, k) \cup {NewRow(k, v)}
  BY <1>2, <1>3, <1>6 DEF Others
<1>8. /\ WellFormed(Compact(c)) /\ Live(Compact(c)) = Live(c)
      /\ Reached(Compact(c)) = Live(c) /\ Used(Compact(c)) <= Used(c)
  BY <1>6, CompactProperties DEF WellFormed
<1>9. o.node = Compact(c) /\ o.ret \in {"Ok", "panic"}
  BY <1>5 DEF Outcome, CompactOutcome
<1>10. ASSUME Fits(n) PROVE Fits(Compact(c)) \/ Outgrown(n, k, v)
  <2>1. CASE Size[x.data] <= Size[n.records[n.slots[i]].data]
    <3>1. Used(c) <= Used(n)
      BY <1>6, <2>1
    <3>2. Fits(Compact(c))
      BY <1>6, <1>8, <1>10, <3>1, FitsLess DEF WellFormed
    <3>3. QED BY <3>2
  <2>2. CASE ~ (Size[x.data] <= Size[n.records[n.slots[i]].data])
    <3>1. PICK r : r = n.slots[i]
      OBVIOUS
    <3>2. x.data = v
      BY <1>2 DEF NewRow
    <3>3. r \in 1 .. Len(n.records)
      BY <1>1, <3>1 DEF WellFormed, Ordered
    <3>4. Size[n.records[r].data] < Size[v]
      <4>1. n.records[r].data \in Payloads
        BY <1>1, <3>1 DEF Record
      <4>2. Size[n.records[r].data] \in Nat /\ Size[v] \in Nat
        BY <4>1, LeafConstants
      <4>3. QED BY <2>2, <3>1, <3>2, <4>2
    <3>5. QED BY <1>1, <3>1, <3>3, <3>4 DEF Outgrown
  <2>3. QED BY <2>1, <2>2
<1>11. KeysOf(Compact(c)) \subseteq KeysOf(n) \cup {k}
  <2>1. Live(c) \subseteq Reached(n) \cup {x}
    BY <1>6 DEF Live
  <2>2. QED BY <1>3, <1>8, <2>1 DEF KeysOf
<1>12. QED BY <1>1, <1>7, <1>8, <1>9, <1>10, <1>11

-----------------------------------------------------------------------------
(* What the operations return, what they leave, and what they do to the    *)
(* map from row ids to payloads.                                           *)
LEMMA InsertProperties ==
  ASSUME NEW n, WellFormed(n), NEW k \in Keys, NEW v \in Payloads,
         NEW o, o = InsertRecord(n, k, v)
  PROVE  /\ WellFormed(o.node)
         /\ \/ /\ o.ret \in {"Ok", "panic"} /\ RowsOf(n)[k] = NoRow
               /\ RowsOf(o.node) = [RowsOf(n) EXCEPT ![k] = v]
            \/ o.ret = "DuplicateKey" /\ RowsOf(n)[k] # NoRow /\ o.node = n
            \/ o.ret \in {"TupleTooLarge", "PageFull"} /\ o.node = n
         /\ KeysOf(o.node) \subseteq KeysOf(n) \cup {k}
         /\ Fits(n) => Fits(o.node) \/ Outgrown(n, k, v)
<1>1. RowsOf(n)[k] = GetRecord(n, k) /\ Ordered(n)
  BY DEF RowsOf, WellFormed
<1>2. CASE Size[v] > MaxValue
  <2>1. o = Outcome("TupleTooLarge", n)
    <3>1. ~ (Size[v] <= MaxValue)
      BY <1>2, LeafConstants
    <3>2. QED BY <1>2, <3>1 DEF InsertRecord
  <2>2. QED BY <2>1 DEF Outcome
<1>3. CASE Size[v] <= MaxValue /\ SlotsOf(n, k) = {}
  <2>1. o = InsertNew(n, k, v)
    <3>1. ~ (Size[v] > MaxValue)
      BY <1>3, LeafConstants
    <3>2. QED BY <1>3, <3>1 DEF InsertRecord
  <2>2. \/ o.ret = "PageFull" /\ o.node = n
        \/ /\ o.ret = "Ok" /\ WellFormed(o.node)
           /\ \A x \in Live(n) : x.row_id # k
           /\ Live(o.node) = Others(n, k) \cup {NewRow(k, v)}
           /\ KeysOf(o.node) \subseteq KeysOf(n) \cup {k}
           /\ Fits(o.node)
    BY <1>3, <2>1, InsertNewProperties
  <2>3. CASE o.ret = "PageFull" /\ o.node = n
    BY <2>3
  <2>4. CASE /\ o.ret = "Ok" /\ WellFormed(o.node)
             /\ \A x \in Live(n) : x.row_id # k
             /\ Live(o.node) = Others(n, k) \cup {NewRow(k, v)}
             /\ KeysOf(o.node) \subseteq KeysOf(n) \cup {k}
             /\ Fits(o.node)
    <3>1. RowsOf(n)[k] = NoRow
      BY <1>1, <2>4, GetRow
    <3>2. RowsOf(o.node) = [RowsOf(n) EXCEPT ![k] = v]
      <4>1. PICK m : m = o.node
        OBVIOUS
      <4>2. Ordered(m) /\ Live(m) = Others(n, k) \cup {NewRow(k, v)}
        BY <2>4, <4>1 DEF WellFormed
      <4>3. RowsOf(m) = [RowsOf(n) EXCEPT ![k] = v]
        BY <1>1, <4>2, RowPut
      <4>4. QED BY <4>1, <4>3
    <3>3. QED BY <2>4, <3>1, <3>2
  <2>5. QED BY <2>2, <2>3, <2>4
<1>4. CASE Size[v] <= MaxValue /\ SlotsOf(n, k) # {}
  <2>1. o = IF n.records[RecordOf(n, k)].is_deleted
            THEN Revive(n, k, v) ELSE Outcome("DuplicateKey", n)
    <3>1. ~ (Size[v] > MaxValue)
      BY <1>4, LeafConstants
    <3>2. QED BY <1>4, <3>1 DEF InsertRecord
  <2>2. CASE n.records[RecordOf(n, k)].is_deleted
    <3>1. /\ o.ret \in {"Ok", "panic"} /\ WellFormed(o.node)
          /\ \A x \in Live(n) : x.row_id # k
          /\ Live(o.node) = Others(n, k) \cup {NewRow(k, v)}
          /\ KeysOf(o.node) \subseteq KeysOf(n) \cup {k}
          /\ Fits(n) => Fits(o.node) \/ Outgrown(n, k, v)
      BY <1>4, <2>1, <2>2, ReviveProperties
    <3>2. RowsOf(n)[k] = NoRow
      BY <1>1, <3>1, GetRow
    <3>3. RowsOf(o.node) = [RowsOf(n) EXCEPT ![k] = v]
      <4>1. PICK m : m = o.node
        OBVIOUS
      <4>2. Ordered(m) /\ Live(m) = Others(n, k) \cup {NewRow(k, v)}
        BY <3>1, <4>1 DEF WellFormed
      <4>3. RowsOf(m) = [RowsOf(n) EXCEPT ![k] = v]
        BY <1>1, <4>2, RowPut
      <4>4. QED BY <4>1, <4>3
    <3>4. QED BY <3>1, <3>2, <3>3
  <2>3. CASE ~ n.records[RecordOf(n, k)].is_deleted
    <3>1. o.ret = "DuplicateKey" /\ o.node = n
      BY <2>1, <2>3 DEF Outcome
    <3>2. PICK i \in 1 .. Len(n.slots) :
            /\ RecordOf(n, k) = n.slots[i]
            /\ n.records[n.slots[i]] \in Record /\ n.records[n.slots[i]].row_id = k
            /\ ~ n.records[n.slots[i]].is_deleted => n.records[n.slots[i]] \in Live(n)
      BY <1>1, <1>4, SlotFacts
    <3>3. PICK x \in Live(n) : x \in Record /\ x.row_id = k
      BY <2>3, <3>2
    <3>4. GetRecord(n, k) = x.data
      BY <1>1, <3>3, GetRow
    <3>5. x.data \in Payloads
      BY <3>3 DEF Record
    <3>6. QED BY <1>1, <3>1, <3>4, <3>5, LeafConstants
  <2>4. QED BY <2>2, <2>3
<1>5. Size[v] \in Nat /\ MaxValue \in Nat
  BY LeafConstants
<1>6. QED BY <1>2, <1>3, <1>4, <1>5

(* update_record: it replaces the row, or reports why not. On a tombstone  *)
(* it returns Ok and changes no row.                                       *)
LEMMA UpdateProperties ==
  ASSUME NEW n, WellFormed(n), NEW k \in Keys, NEW v \in Payloads,
         NEW o, o = UpdateRecord(n, k, v)
  PROVE  /\ WellFormed(o.node)
         /\ \/ /\ o.ret = "Ok" /\ RowsOf(n)[k] # NoRow
               /\ RowsOf(o.node) = [RowsOf(n) EXCEPT ![k] = v]
            \/ /\ o.ret \in {"Ok", "KeyNotFound"} /\ RowsOf(n)[k] = NoRow
               /\ RowsOf(o.node) = RowsOf(n)
            \/ o.ret = "TupleTooLarge" /\ o.node = n
         /\ Fits(n) => Fits(o.node) \/ Outgrown(n, k, v)
<1>1. RowsOf(n)[k] = GetRecord(n, k) /\ Ordered(n)
  BY DEF RowsOf, WellFormed
<1>2. CASE Size[v] >= MaxValue
  <2>1. o = Outcome("TupleTooLarge", n)
    <3>1. ~ (Size[v] < MaxValue)
      BY <1>2, LeafConstants
    <3>2. QED BY <1>2, <3>1 DEF UpdateRecord
  <2>2. QED BY <2>1 DEF Outcome
<1>3. CASE Size[v] < MaxValue /\ SlotsOf(n, k) = {}
  <2>1. o = Outcome("KeyNotFound", n)
    <3>1. ~ (Size[v] >= MaxValue)
      BY <1>3, LeafConstants
    <3>2. QED BY <1>3, <3>1 DEF UpdateRecord
  <2>2. GetRecord(n, k) = NoRow
    BY <1>3 DEF GetRecord
  <2>3. QED BY <1>1, <2>1, <2>2 DEF Outcome
<1>4. CASE Size[v] < MaxValue /\ SlotsOf(n, k) # {}
  <2>1. o = Outcome("Ok", [n EXCEPT !.records[RecordOf(n, k)].data = v])
    <3>1. ~ (Size[v] >= MaxValue)
      BY <1>4, LeafConstants
    <3>2. QED BY <1>4, <3>1 DEF UpdateRecord
  <2>2. PICK i \in 1 .. Len(n.slots) :
          /\ Key(n, i) = k /\ RecordOf(n, k) = n.slots[i]
          /\ n.records[n.slots[i]] \in Record /\ n.records[n.slots[i]].row_id = k
          /\ n.records[n.slots[i]].is_deleted => \A x \in Live(n) : x.row_id # k
          /\ ~ n.records[n.slots[i]].is_deleted => n.records[n.slots[i]] \in Live(n)
    BY <1>1, <1>4, SlotFacts
  <2>3. PICK old \in Record : old = n.records[n.slots[i]]
    BY <2>2
  <2>4. PICK x : x = [old EXCEPT !.data = v]
    OBVIOUS
  <2>5. x \in Record /\ x.row_id = k /\ x.data = v /\ x.is_deleted = old.is_deleted
    BY <2>2, <2>3, <2>4 DEF Record
  <2>6. PICK c : c = Replaced(n, i, x)
    OBVIOUS
  <2>7. o.ret = "Ok" /\ o.node = c
    <3>1. PICK r : r = n.slots[i]
      OBVIOUS
    <3>2. x = [n.records[r] EXCEPT !.data = v] /\ r = RecordOf(n, k)
      BY <2>2, <2>3, <2>4, <3>1
    <3>3. [n EXCEPT !.records[r].data = v] = [n EXCEPT !.records[r] = x]
      BY <3>2, Zenon
    <3>4. [n EXCEPT !.records[r] = x] = c
      BY <2>6, <3>1 DEF Replaced
    <3>5. o = Outcome("Ok", c)
      BY <2>1, <3>2, <3>3, <3>4
    <3>6. QED BY <3>5 DEF Outcome
  <2>8. /\ WellFormed(c)
        /\ Live(c) = {y \in Live(n) : y.row_id # x.row_id} \cup {y \in {x} : ~ y.is_deleted}
        /\ Size[x.data] <= Size[n.records[n.slots[i]].data] => Used(c) <= Used(n)
    BY <2>2, <2>5, <2>6, ReplaceProperties
  <2>9. ASSUME Fits(n) PROVE Fits(c) \/ Outgrown(n, k, v)
    <3>1. CASE Size[x.data] <= Size[n.records[n.slots[i]].data]
      <4>1. Used(c) <= Used(n) /\ Used(n) <= Used(n)
        <5>1. Used(n) \in Nat
          BY FooterType DEF WellFormed, Ordered, Node
        <5>2. QED BY <2>8, <3>1, <5>1
      <4>2. QED BY <2>8, <2>9, <4>1, FitsLess
    <3>2. CASE ~ (Size[x.data] <= Size[n.records[n.slots[i]].data])
      <4>1. PICK r : r = n.slots[i]
        OBVIOUS
      <4>2. r \in 1 .. Len(n.records)
        BY <1>1, <2>2, <4>1 DEF Ordered
      <4>3. Size[n.records[r].data] < Size[v]
        <5>1. n.records[r].data \in Payloads
          BY <2>2, <4>1 DEF Record
        <5>2. Size[n.records[r].data] \in Nat /\ Size[v] \in Nat
          BY <5>1, LeafConstants
        <5>3. QED BY <2>5, <3>2, <4>1, <5>2
      <4>4. QED BY <2>2, <4>1, <4>2, <4>3 DEF Outgrown
    <3>3. QED BY <3>1, <3>2
  <2>10. CASE old.is_deleted
    <3>1. Live(c) = Live(n)
      BY <2>2, <2>3, <2>5, <2>8, <2>10
    <3>2. RowsOf(c) = RowsOf(n)
      BY <1>1, <2>8, <3>1, SameRows DEF WellFormed
    <3>3. GetRecord(n, k) = NoRow
      BY <1>1, <2>2, <2>3, <2>10, GetRow
    <3>4. QED BY <1>1, <2>7, <2>8, <2>9, <3>2, <3>3
  <2>11. CASE ~ old.is_deleted
    <3>1. x = NewRow(k, v)
      BY <2>2, <2>3, <2>4, <2>5, <2>11 DEF Record, NewRow
    <3>2. Live(c) = Others(n, k) \cup {NewRow(k, v)}
      BY <2>5, <2>8, <2>11, <3>1 DEF Others
    <3>3. RowsOf(c) = [RowsOf(n) EXCEPT ![k] = v]
      <4>1. Ordered(c)
        BY <2>8 DEF WellFormed
      <4>2. QED BY <1>1, <3>2, <4>1, RowPut
    <3>4. GetRecord(n, k) = old.data
      BY <1>1, <2>2, <2>3, <2>11, GetRow
    <3>5. old.data \in Payloads
      BY DEF Record
    <3>6. QED BY <1>1, <2>7, <2>8, <2>9, <3>3, <3>4, <3>5, LeafConstants
  <2>12. QED BY <2>10, <2>11
<1>5. Size[v] \in Nat /\ MaxValue \in Nat
  BY LeafConstants
<1>6. QED BY <1>2, <1>3, <1>4, <1>5

(* delete_record marks the record; no byte is added.                       *)
LEMMA DeleteProperties ==
  ASSUME NEW n, WellFormed(n), NEW k \in Keys, NEW o, o = DeleteRecord(n, k)
  PROVE  /\ WellFormed(o.node)
         /\ \/ o.ret = "Ok" /\ RowsOf(o.node) = [RowsOf(n) EXCEPT ![k] = NoRow]
            \/ o.ret = "KeyNotFound" /\ RowsOf(n)[k] = NoRow /\ o.node = n
         /\ KeysOf(o.node) \subseteq KeysOf(n) \cup {k}
         /\ Fits(n) => Fits(o.node)
<1>1. RowsOf(n)[k] = GetRecord(n, k) /\ Ordered(n)
  BY DEF RowsOf, WellFormed
<1>2. CASE SlotsOf(n, k) = {}
  <2>1. o = Outcome("KeyNotFound", n)
    BY <1>2 DEF DeleteRecord
  <2>2. GetRecord(n, k) = NoRow
    BY <1>2 DEF GetRecord
  <2>3. QED BY <1>1, <2>1, <2>2 DEF Outcome
<1>3. CASE SlotsOf(n, k) # {}
  <2>1. o = Outcome("Ok", [n EXCEPT !.records[RecordOf(n, k)].is_deleted = TRUE])
    BY <1>3 DEF DeleteRecord
  <2>2. PICK i \in 1 .. Len(n.slots) :
          /\ Key(n, i) = k /\ RecordOf(n, k) = n.slots[i]
          /\ n.records[n.slots[i]] \in Record /\ n.records[n.slots[i]].row_id = k
    BY <1>1, <1>3, SlotFacts
  <2>3. PICK old \in Record : old = n.records[n.slots[i]]
    BY <2>2
  <2>4. PICK x : x = [old EXCEPT !.is_deleted = TRUE]
    OBVIOUS
  <2>5. x \in Record /\ x.row_id = k /\ x.is_deleted /\ x.data = old.data
    BY <2>2, <2>3, <2>4 DEF Record
  <2>6. PICK c : c = Replaced(n, i, x)
    OBVIOUS
  <2>7. o.ret = "Ok" /\ o.node = c
    <3>1. PICK r : r = n.slots[i]
      OBVIOUS
    <3>2. x = [n.records[r] EXCEPT !.is_deleted = TRUE] /\ r = RecordOf(n, k)
      BY <2>2, <2>3, <2>4, <3>1
    <3>3. [n EXCEPT !.records[r].is_deleted = TRUE] = [n EXCEPT !.records[r] = x]
      BY <3>2, Zenon
    <3>4. [n EXCEPT !.records[r] = x] = c
      BY <2>6, <3>1 DEF Replaced
    <3>5. o = Outcome("Ok", c)
      BY <2>1, <3>2, <3>3, <3>4
    <3>6. QED BY <3>5 DEF Outcome
  <2>8. /\ WellFormed(c)
        /\ Live(c) = {y \in Live(n) : y.row_id # x.row_id} \cup {y \in {x} : ~ y.is_deleted}
        /\ Reached(c) \subseteq Reached(n) \cup {x}
        /\ Size[x.data] <= Size[n.records[n.slots[i]].data] => Used(c) <= Used(n)
    BY <2>2, <2>5, <2>6, ReplaceProperties
  <2>9. Fits(n) => Fits(c)
    <3>1. Size[x.data] <= Size[n.records[n.slots[i]].data]
      <4>1. old.data \in Payloads
        BY DEF Record
      <4>2. Size[old.data] \in Nat
        BY <4>1, LeafConstants
      <4>3. QED BY <2>3, <2>5, <4>2
    <3>2. Used(c) <= Used(n) /\ Used(n) <= Used(n)
      <4>1. Used(n) \in Nat
        BY FooterType DEF WellFormed, Ordered, Node
      <4>2. QED BY <2>8, <3>1, <4>1
    <3>3. QED BY <2>8, <3>2, FitsLess
  <2>10. Live(c) = Others(n, k)
    BY <2>5, <2>8 DEF Others
  <2>11. RowsOf(c) = [RowsOf(n) EXCEPT ![k] = NoRow]
    BY <1>1, <2>8, <2>10, RowTaken DEF WellFormed
  <2>12. KeysOf(c) \subseteq KeysOf(n) \cup {k}
    BY <2>5, <2>8 DEF KeysOf
  <2>13. QED BY <2>7, <2>8, <2>9, <2>11, <2>12
<1>4. QED BY <1>2, <1>3

-----------------------------------------------------------------------------
(* The slots from a to b of a node, as what the two halves of a split keep. *)
Between(n, a, b) == {x \in Live(n) : \E i \in a .. b : x = n.records[n.slots[i]]}

(* The left half: the lower slots over the same records.                   *)
Lower(n, mid) == [n EXCEPT !.slots = SubSeq(n.slots, 1, mid)]

(* What the lower half of a split reaches.                                 *)
LEMMA LowerHalf ==
  ASSUME NEW n, Ordered(n), NEW mid \in 0 .. Len(n.slots),
         NEW h, h = Lower(n, mid)
  PROVE  /\ Ordered(h) /\ Live(h) = Between(n, 1, mid)
         /\ Reached(h) \subseteq Reached(n) /\ Len(h.slots) = mid
<1>1. PICK N \in Nat :
        /\ Len(n.slots) = N
        /\ n.slots \in Seq(Nat) /\ n.records \in Seq(Record)
        /\ \A i \in 1 .. N : n.slots[i] \in 1 .. Len(n.records)
        /\ \A i, j \in 1 .. N : i < j => Key(n, i) < Key(n, j)
  BY OrderedFacts
<1>2. n \in Node
  BY DEF Ordered
<1>3. mid \in Nat /\ mid <= N
  BY <1>1
<1>4. PICK s : s = SubSeq(n.slots, 1, mid)
  OBVIOUS
<1>5. s \in Seq(Nat) /\ Len(s) = mid /\ \A i \in 1 .. mid : s[i] = n.slots[i]
  <2>1. PICK q \in Seq(Nat) : q = n.slots /\ Len(q) = N
    BY <1>1
  <2>2. \A i \in 1 .. mid : q[i] \in Nat
    BY <1>3, <2>1
  <2>3. /\ SubSeq(q, 1, mid) \in Seq(Nat)
        /\ Len(SubSeq(q, 1, mid)) = IF 1 <= mid THEN mid - 1 + 1 ELSE 0
        /\ \A i \in 1 .. mid - 1 + 1 : SubSeq(q, 1, mid)[i] = q[1 + i - 1]
    BY <1>3, <2>2, SubSeqProperties
  <2>4. \A i \in 1 .. mid : SubSeq(q, 1, mid)[i] = q[i]
    BY <1>3, <2>3
  <2>5. Len(SubSeq(q, 1, mid)) = mid
    BY <1>3, <2>3
  <2>6. QED BY <1>4, <2>1, <2>3, <2>4, <2>5
<1>6. h = [slots |-> s, records |-> n.records, free_size |-> n.free_size]
  BY <1>2, <1>4 DEF Node, Lower
<1>7. h.slots = s /\ h.records = n.records
  BY <1>6
<1>8. h \in Node
  <2>1. n.free_size \in 0 .. PageSize
    BY <1>2 DEF Node
  <2>2. s \in Seq(Nat) /\ n.records \in Seq(Record)
    BY <1>1, <1>5
  <2>3. QED BY <1>6, <2>1, <2>2 DEF Node
<1>9. \A i \in 1 .. mid : i \in 1 .. N /\ h.slots[i] = n.slots[i] /\ Key(h, i) = Key(n, i)
  BY <1>3, <1>5, <1>7 DEF Key
<1>10. Ordered(h)
  <2>1. \A i \in 1 .. mid : h.slots[i] \in 1 .. Len(h.records)
    BY <1>1, <1>7, <1>9
  <2>2. \A i, j \in 1 .. mid : i < j => Key(h, i) < Key(h, j)
    BY <1>1, <1>9
  <2>3. Len(h.slots) = mid
    BY <1>5, <1>7
  <2>4. QED BY <1>8, <2>1, <2>2, <2>3 DEF Ordered
<1>11. Reached(h) = {n.records[n.slots[i]] : i \in 1 .. mid}
  <2>1. Len(h.slots) = mid
    BY <1>5, <1>7
  <2>2. QED BY <1>7, <1>9, <2>1 DEF Reached
<1>12. \A i \in 1 .. mid : n.records[n.slots[i]] \in Reached(n)
  BY <1>1, <1>9 DEF Reached
<1>13. Live(h) = Between(n, 1, mid) /\ Reached(h) \subseteq Reached(n)
  BY <1>11, <1>12 DEF Live, Between
<1>14. Len(h.slots) = mid
  BY <1>5, <1>7
<1>15. QED BY <1>10, <1>13, <1>14

(* The right half: the upper slots, with their records copied.             *)
Upper(n, mid) ==
  [Empty EXCEPT
     !.slots   = [i \in 1 .. Len(n.slots) - mid |-> i],
     !.records = [i \in 1 .. Len(n.slots) - mid |-> n.records[n.slots[mid + i]]]]

(* What the upper half of a split reaches.                                 *)
LEMMA UpperHalf ==
  ASSUME NEW n, Ordered(n), NEW mid \in 0 .. Len(n.slots),
         NEW h, h = Upper(n, mid)
  PROVE  /\ Ordered(h) /\ Live(h) = Between(n, mid + 1, Len(n.slots))
         /\ Reached(h) \subseteq Reached(n) /\ Len(h.slots) = Len(n.slots) - mid
<1>1. PICK N \in Nat :
        /\ Len(n.slots) = N
        /\ \A i \in 1 .. N : n.records[n.slots[i]] \in Record
        /\ \A i, j \in 1 .. N : i < j => Key(n, i) < Key(n, j)
  BY OrderedFacts
<1>2. PICK M \in Nat : M = N - mid /\ mid \in Nat
  BY <1>1
<1>3. \A i \in 1 .. M : mid + i \in 1 .. N
  BY <1>1, <1>2
<1>4. PICK s, r : /\ s = [i \in 1 .. M |-> i]
                  /\ r = [i \in 1 .. M |-> n.records[n.slots[mid + i]]]
  OBVIOUS
<1>5. /\ s \in Seq(Nat) /\ Len(s) = M /\ \A i \in 1 .. M : s[i] = i
      /\ r \in Seq(Record) /\ Len(r) = M
      /\ \A i \in 1 .. M : r[i] = n.records[n.slots[mid + i]]
  <2>1. \A i \in 1 .. M : n.records[n.slots[mid + i]] \in Record
    BY <1>1, <1>3
  <2>2. r \in [1 .. M -> Record]
    BY <1>4, <2>1
  <2>3. s \in [1 .. M -> Nat]
    BY <1>4
  <2>4. \A S, f : f \in [1 .. M -> S] => f \in Seq(S) /\ Len(f) = M
    OBVIOUS
  <2>5. QED BY <1>4, <2>2, <2>3, <2>4
<1>6. Empty \in Node /\ Empty.free_size = 0
  <2>1. <<>> \in Seq(Nat) /\ <<>> \in Seq(Record) /\ 0 \in 0 .. PageSize
    BY LeafConstants
  <2>2. QED BY <2>1 DEF Node, Empty
<1>7. h = [slots |-> s, records |-> r, free_size |-> 0]
  <2>1. h = [Empty EXCEPT !.slots = s, !.records = r]
    BY <1>1, <1>2, <1>4 DEF Upper
  <2>2. [Empty EXCEPT !.slots = s, !.records = r]
          = [slots |-> s, records |-> r, free_size |-> Empty.free_size]
    BY <1>6, ReplaceBoth
  <2>3. QED BY <1>6, <2>1, <2>2
<1>8. h.slots = s /\ h.records = r
  BY <1>7
<1>9. h \in Node
  <2>1. 0 \in 0 .. PageSize
    BY LeafConstants
  <2>2. s \in Seq(Nat) /\ r \in Seq(Record)
    BY <1>5
  <2>3. QED BY <1>7, <2>1, <2>2 DEF Node
<1>10. \A i \in 1 .. M : /\ h.slots[i] = i /\ h.records[i] = n.records[n.slots[mid + i]]
                         /\ Key(h, i) = Key(n, mid + i)
  BY <1>5, <1>8 DEF Key
<1>11. Len(h.slots) = M /\ Len(h.records) = M
  BY <1>5, <1>8
<1>12. Ordered(h)
  <2>1. ASSUME NEW i \in 1 .. M, NEW j \in 1 .. M, i < j PROVE Key(h, i) < Key(h, j)
    <3>1. mid + i \in 1 .. N /\ mid + j \in 1 .. N /\ mid + i < mid + j
      BY <1>2, <1>3, <2>1
    <3>2. Key(n, mid + i) < Key(n, mid + j)
      BY <1>1, <3>1
    <3>3. QED BY <1>10, <3>2
  <2>2. \A i \in 1 .. M : h.slots[i] \in 1 .. M
    BY <1>10
  <2>3. \A i, j \in 1 .. M : i < j => Key(h, i) < Key(h, j)
    BY <2>1
  <2>4. \A i, j \in 1 .. Len(h.slots) : i < j => Key(h, i) < Key(h, j)
    BY <1>11, <2>3
  <2>5. \A i \in 1 .. Len(h.slots) : h.slots[i] \in 1 .. Len(h.records)
    BY <1>11, <2>2, Zenon
  <2>6. QED BY <1>9, <2>4, <2>5 DEF Ordered
<1>13. ASSUME NEW x \in Live(h) PROVE x \in Between(n, mid + 1, N)
  <2>1. PICK i \in 1 .. M : x = n.records[n.slots[mid + i]] /\ ~ x.is_deleted
    <3>1. PICK j \in 1 .. Len(h.slots) : x = h.records[h.slots[j]] /\ ~ x.is_deleted
      BY DEF Live, Reached
    <3>2. j \in 1 .. M
      BY <1>11, <3>1
    <3>3. h.slots[j] = j /\ h.records[j] = n.records[n.slots[mid + j]]
      BY <1>10, <3>2
    <3>4. QED BY <3>1, <3>2, <3>3
  <2>2. mid + i \in 1 .. N /\ mid + i \in mid + 1 .. N
    BY <1>2, <1>3
  <2>3. x \in Live(n)
    BY <1>1, <2>1, <2>2 DEF Live, Reached
  <2>4. QED BY <2>1, <2>2, <2>3 DEF Between
<1>14. ASSUME NEW x \in Between(n, mid + 1, N) PROVE x \in Live(h)
  <2>1. PICK j \in mid + 1 .. N : x = n.records[n.slots[j]] /\ ~ x.is_deleted
    BY DEF Between, Live
  <2>2. j - mid \in 1 .. M /\ mid + (j - mid) = j
    BY <1>2
  <2>3. x = h.records[h.slots[j - mid]]
    <3>1. h.slots[j - mid] = j - mid /\ h.records[j - mid] = n.records[n.slots[mid + (j - mid)]]
      BY <1>10, <2>2
    <3>2. QED BY <2>1, <2>2, <3>1
  <2>4. QED BY <1>11, <2>1, <2>2, <2>3 DEF Live, Reached
<1>15. ASSUME NEW x \in Reached(h) PROVE x \in Reached(n)
  <2>1. PICK j \in 1 .. M : x = h.records[h.slots[j]]
    BY <1>11 DEF Reached
  <2>2. x = n.records[n.slots[mid + j]] /\ mid + j \in 1 .. N
    BY <1>3, <1>10, <2>1
  <2>3. QED BY <1>1, <2>2 DEF Reached
<1>16. Live(h) = Between(n, mid + 1, Len(n.slots))
  BY <1>1, <1>13, <1>14
<1>17. Len(h.slots) = Len(n.slots) - mid
  BY <1>1, <1>2, <1>11
<1>18. QED BY <1>12, <1>15, <1>16, <1>17

(* The first key of a leaf without tombstones is its smallest.             *)
LEMMA FirstKey ==
  ASSUME NEW n, WellFormed(n), n.slots # <<>>, Reached(n) = Live(n)
  PROVE  \E y \in Live(n) : Key(n, 1) = y.row_id /\ \A x \in Live(n) : y.row_id <= x.row_id
<1>1. PICK N \in Nat :
        /\ Len(n.slots) = N /\ n.slots \in Seq(Nat)
        /\ \A i \in 1 .. N : Key(n, i) = n.records[n.slots[i]].row_id /\ Key(n, i) \in Nat
        /\ \A i, j \in 1 .. N : i < j => Key(n, i) < Key(n, j)
  BY OrderedFacts DEF WellFormed
<1>2. 1 \in 1 .. N
  BY <1>1
<1>3. PICK y : y = n.records[n.slots[1]]
  OBVIOUS
<1>4. y \in Live(n) /\ Key(n, 1) = y.row_id
  BY <1>1, <1>2, <1>3 DEF Reached
<1>5. ASSUME NEW x \in Live(n) PROVE y.row_id <= x.row_id
  <2>1. PICK i \in 1 .. N : x = n.records[n.slots[i]]
    BY <1>1 DEF Live, Reached
  <2>2. CASE i = 1
    BY <1>1, <1>2, <1>3, <1>4, <2>1, <2>2
  <2>3. CASE i # 1
    <3>1. Key(n, 1) < Key(n, i)
      BY <1>1, <1>2, <2>3
    <3>2. QED BY <1>1, <1>2, <1>4, <2>1, <3>1
  <2>4. QED BY <2>2, <2>3
<1>6. QED BY <1>4, <1>5

(* A split that succeeds, by its two halves.                               *)
LEMMA SplitHalves ==
  ASSUME NEW n, Ordered(n), Split(n).ret = "Ok"
  PROVE  \E mid \in 0 .. Len(n.slots) :
           LET s == Split(n) IN
           /\ mid = Len(n.slots) \div 2
           /\ s.left = Compact(Lower(n, mid)) /\ s.right = Compact(Upper(n, mid))
           /\ Fits(s.left) /\ Fits(s.right)
           /\ s.right.slots # <<>> /\ s.promoted = Key(s.right, 1)
<1>1. Len(n.slots) \in Nat
  BY DEF Ordered, Node
<1>2. PICK mid \in 0 .. Len(n.slots) : mid = Len(n.slots) \div 2
  <2>1. \A N \in Nat : N \div 2 \in 0 .. N
    OBVIOUS
  <2>2. QED BY <1>1, <2>1
<1>3. PICK low, up : low = Lower(n, mid) /\ up = Upper(n, mid)
  OBVIOUS
<1> DEFINE outcomes == {CompactOutcome(low), CompactOutcome(up)}
           right == IF Fits(Compact(low)) THEN Compact(up) ELSE up
           none == right.slots = <<>>
<1>4. Split(n) = [left     |-> Compact(low),
                  right    |-> right,
                  promoted |-> IF none THEN NoRow ELSE Key(right, 1),
                  ret      |-> CASE "panic" \in outcomes -> "panic"
                                 [] "panic" \notin outcomes /\ none -> "CorruptPage"
                                 [] OTHER -> "Ok"]
  BY <1>2, <1>3 DEF Split, Lower, Upper
<1> HIDE DEF none, outcomes, right
<1>5. "panic" \notin outcomes /\ ~ none
  <2>1. (CASE "panic" \in outcomes -> "panic"
           [] "panic" \notin outcomes /\ none -> "CorruptPage"
           [] OTHER -> "Ok") = "Ok"
    BY <1>4
  <2>2. QED BY <2>1
<1>6. Fits(Compact(low)) /\ Fits(Compact(up))
  BY <1>5 DEF outcomes, CompactOutcome
<1>7. right = Compact(up)
  BY <1>6 DEF right
<1>8. /\ Split(n).left = Compact(low) /\ Split(n).right = Compact(up)
      /\ Split(n).promoted = Key(Compact(up), 1) /\ Compact(up).slots # <<>>
  BY <1>4, <1>5, <1>7 DEF none
<1>9. QED BY <1>2, <1>3, <1>6, <1>8

(* split: every row is found in the half its key belongs to, and nowhere   *)
(* else.                                                                   *)
LEMMA SplitKeeps ==
  ASSUME NEW n, Ordered(n), NEW mid \in 0 .. Len(n.slots),
         NEW left, NEW right, NEW p,
         left = Compact(Lower(n, mid)), right = Compact(Upper(n, mid)),
         right.slots # <<>>, p = Key(right, 1),
         NEW k \in Keys
  PROVE  /\ k < p => GetRecord(left, k) = GetRecord(n, k) /\ GetRecord(right, k) = NoRow
         /\ k >= p => GetRecord(right, k) = GetRecord(n, k) /\ GetRecord(left, k) = NoRow
<1>1. PICK N \in Nat :
        /\ Len(n.slots) = N
        /\ \A i \in 1 .. N : Key(n, i) = n.records[n.slots[i]].row_id /\ Key(n, i) \in Nat
        /\ \A i, j \in 1 .. N : i < j => Key(n, i) < Key(n, j)
  BY OrderedFacts
<1>2. /\ WellFormed(left) /\ Ordered(left)
      /\ Live(left) = Between(n, 1, mid)
  <2>1. PICK h : h = Lower(n, mid)
    OBVIOUS
  <2>2. QED BY <2>1, LowerHalf, CompactProperties DEF WellFormed
<1>3. /\ WellFormed(right) /\ Ordered(right)
      /\ Live(right) = Between(n, mid + 1, N) /\ Reached(right) = Live(right)
  <2>1. PICK h : h = Upper(n, mid)
    OBVIOUS
  <2>2. QED BY <1>1, <2>1, UpperHalf, CompactProperties DEF WellFormed
<1>4. mid \in Nat /\ mid <= N
  BY <1>1
<1>5. PICK y \in Live(right) : p = y.row_id /\ \A x \in Live(right) : p <= x.row_id
  BY <1>3, FirstKey
<1>6. PICK j \in mid + 1 .. N : y = n.records[n.slots[j]]
  BY <1>3, <1>5 DEF Between
<1>7. j \in 1 .. N /\ Key(n, j) = p /\ p \in Nat /\ k \in Nat
  BY <1>1, <1>4, <1>5, <1>6, LeafConstants
<1>8. ASSUME NEW x \in Live(left) PROVE x.row_id < p /\ x.row_id \in Nat
  <2>1. PICK i \in 1 .. mid : x = n.records[n.slots[i]]
    BY <1>2 DEF Between
  <2>2. i \in 1 .. N /\ i < j
    BY <1>4, <1>6, <2>1
  <2>3. Key(n, i) < Key(n, j)
    BY <1>1, <1>7, <2>2
  <2>4. QED BY <1>1, <1>7, <2>1, <2>2, <2>3
<1>9. ASSUME NEW x \in Live(n) PROVE x \in Live(left) \/ x \in Live(right)
  <2>1. PICK i \in 1 .. N : x = n.records[n.slots[i]]
    BY <1>1 DEF Live, Reached
  <2>2. i \in 1 .. mid \/ i \in mid + 1 .. N
    BY <1>4
  <2>3. QED BY <1>2, <1>3, <2>1, <2>2 DEF Between
<1>10. Live(left) \subseteq Live(n) /\ Live(right) \subseteq Live(n)
  BY <1>2, <1>3 DEF Between
<1>11. ASSUME NEW h, h \in {left, right},
              \A x \in Live(n) : x.row_id = k => x \in Live(h)
       PROVE  GetRecord(h, k) = GetRecord(n, k)
  <2>1. Ordered(h) /\ Live(h) \subseteq Live(n)
    BY <1>2, <1>3, <1>10, <1>11
  <2>2. CASE \E x \in Live(n) : x.row_id = k
    BY <1>11, <2>1, <2>2, GetRow
  <2>3. CASE \A x \in Live(n) : x.row_id # k
    BY <2>1, <2>3, GetRow
  <2>4. QED BY <2>2, <2>3
<1>12. ASSUME k < p
       PROVE  GetRecord(left, k) = GetRecord(n, k) /\ GetRecord(right, k) = NoRow
  <2>1. \A x \in Live(right) : x.row_id # k
    <3>1. ~ (p <= k)
      BY <1>7, <1>12
    <3>2. QED BY <1>5, <3>1
  <2>2. GetRecord(right, k) = NoRow
    BY <1>3, <2>1, GetRow
  <2>3. QED BY <1>9, <1>11, <2>1, <2>2
<1>13. ASSUME k >= p
       PROVE  GetRecord(right, k) = GetRecord(n, k) /\ GetRecord(left, k) = NoRow
  <2>1. \A x \in Live(left) : x.row_id # k
    <3>1. ~ (k < p)
      BY <1>7, <1>13
    <3>2. QED BY <1>8, <3>1
  <2>2. GetRecord(left, k) = NoRow
    BY <1>2, <2>1, GetRow
  <2>3. QED BY <1>9, <1>11, <2>1, <2>2
<1>14. QED BY <1>12, <1>13

-----------------------------------------------------------------------------
(* Where payloads have one size, the bytes of a leaf are as its slots.     *)
LEMMA UniformUsed ==
  ASSUME NEW n, Ordered(n), NEW z \in Nat, \A x \in Reached(n) : Size[x.data] = z
  PROVE  Used(n) = HeaderSize + Len(n.slots) * (SlotSize + MetaSize + z)
<1>1. PICK N \in Nat :
        /\ Len(n.slots) = N
        /\ n.slots \in Seq(Nat) /\ n.records \in Seq(Record)
        /\ \A i \in 1 .. N : n.slots[i] \in 1 .. Len(n.records)
  BY OrderedFacts
<1>2. PICK d \in [0 .. N -> Nat] :
        /\ d[0] = 0
        /\ \A i \in 1 .. N : d[i] = d[i - 1] + Bytes(n, i)
        /\ Footer(n) = d[N]
  BY <1>1, FooterSum
<1>3. PICK S, M, H \in Nat : S = SlotSize /\ M = MetaSize /\ H = HeaderSize
  BY LeafConstants
<1>4. ASSUME NEW i \in 1 .. N PROVE Bytes(n, i) = M + z
  <2>1. n.records[n.slots[i]] \in Reached(n)
    BY <1>1 DEF Reached
  <2>2. QED BY <1>3, <2>1 DEF Bytes
<1> DEFINE T == {i \in 0 .. N : d[i] = i * (M + z)}
<1>5. 0 \in T
  BY <1>2
<1>6. ASSUME NEW i \in 1 .. N, i - 1 \in T PROVE i \in T
  <2>1. PICK b \in Nat : b = M + z
    OBVIOUS
  <2>2. d[i - 1] = (i - 1) * b /\ d[i] = d[i - 1] + b
    BY <1>2, <1>4, <1>6, <2>1
  <2>3. (i - 1) * b + b = i * b
    OBVIOUS
  <2>4. QED BY <2>1, <2>2, <2>3
<1>7. N \in T
  <2>1. T \in SUBSET (0 .. N)
    OBVIOUS
  <2> HIDE DEF T
  <2>2. QED BY <1>5, <1>6, <2>1, Loop
<1>8. Used(n) = H + N * S + N * (M + z)
  BY <1>1, <1>2, <1>3, <1>7 DEF Used
<1>9. N * S + N * (M + z) = N * (S + M + z)
  OBVIOUS
<1>10. N * S \in Nat /\ N * (M + z) \in Nat
  OBVIOUS
<1>11. QED BY <1>1, <1>3, <1>8, <1>9, <1>10

(* The bytes counted for a leaf leave no more slots than MaxCells.         *)
LEMMA CellsFit ==
  ASSUME NEW x \in Nat, NEW y \in Nat \ {0}, NEW w \in Nat, y <= w,
         NEW l \in Nat, l * w <= x
  PROVE  l <= x \div y
<1>1. PICK q \in Nat : q = x \div y
  OBVIOUS
<1>2. x < (q + 1) * y
  BY <1>1
<1>3. ASSUME ~ (l <= q) PROVE FALSE
  <2>1. PICK e \in Nat : l = (q + 1) + e
    <3>1. l - (q + 1) \in Nat /\ l = (q + 1) + (l - (q + 1))
      BY <1>3
    <3>2. QED BY <3>1
  <2>2. PICK f \in Nat : w = y + f
    <3>1. w - y \in Nat /\ w = y + (w - y)
      OBVIOUS
    <3>2. QED BY <3>1
  <2>3. l * w = (q + 1) * y + e * y + l * f
    BY <2>1, <2>2
  <2>4. e * y \in Nat /\ l * f \in Nat /\ (q + 1) * y \in Nat
    OBVIOUS
  <2>5. QED BY <1>2, <2>3, <2>4
<1>4. QED BY <1>1, <1>3

(* More of the same take more.                                             *)
LEMMA TimesGrows ==
  ASSUME NEW a \in Nat, NEW b \in Nat, NEW c \in Nat, a <= b
  PROVE  a * c <= b * c
<1>1. PICK e \in Nat : b = a + e
  <2>1. b - a \in Nat /\ b = a + (b - a)
    OBVIOUS
  <2>2. QED BY <2>1
<1>2. b * c = a * c + e * c
  BY <1>1
<1>3. a * c \in Nat /\ e * c \in Nat
  OBVIOUS
<1>4. QED BY <1>2, <1>3

(* Where half a page of records of c bytes ends, there is room for one     *)
(* more and a slot: small halves by the assumption on the page, others     *)
(* because the whole fitted.                                               *)
LEMMA HalfHasRoom ==
  ASSUME NEW N \in Nat, NEW m \in Nat, m = N \div 2 \/ m = N - N \div 2,
         NEW S \in Nat, NEW c \in Nat, S <= c, NEW w \in Nat, c <= w,
         NEW X \in Nat, N * c <= X, 3 * w + S <= X
  PROVE  m * c + S + c <= X
<1>1. (m + 1) * c = m * c + c /\ m * c \in Nat /\ (m + 1) * c \in Nat
  OBVIOUS
<1>2. CASE m <= 2
  <2>1. (m + 1) * c <= 3 * c
    BY <1>2, TimesGrows
  <2>2. QED BY <1>1, <2>1
<1>3. CASE m >= 3
  <2>1. m + 2 <= N
    BY <1>3
  <2>2. (m + 2) * c <= N * c
    BY <2>1, TimesGrows
  <2>3. (m + 2) * c = m * c + c + c
    OBVIOUS
  <2>4. N * c \in Nat
    OBVIOUS
  <2>5. QED BY <1>1, <2>2, <2>3, <2>4
<1>4. QED BY <1>2, <1>3

(* Three of the largest records with their slots, and a slot more, fit a   *)
(* page, as nine of them do with the sizes of page.rs (lines 11-80).       *)
RoomForThree == 3 * (SlotSize + MetaSize + MaxValue) + SlotSize <= PageSize - HeaderSize

(* A half of a page that was full takes the record that found it full.     *)
LEMMA HalfTakesRecord ==
  ASSUME RoomForThree,
         NEW n, Ordered(n), Fits(n), NEW k \in Keys, SlotsOf(n, k) = {},
         NEW v \in Payloads, Size[v] <= MaxValue,
         \A x \in Reached(n) : Size[x.data] = Size[v],
         NEW h, Ordered(h), Reached(h) \subseteq Reached(n),
         \/ Len(h.slots) = Len(n.slots) \div 2
         \/ Len(h.slots) = Len(n.slots) - Len(n.slots) \div 2,
         NEW s, s = Compact(h), Fits(s)
  PROVE  InsertRecord(s, k, v).ret = "Ok"
<1>1. PICK z \in Nat : z = Size[v] /\ z <= MaxValue
  BY LeafConstants
<1>2. PICK S \in Nat, M \in Nat, H \in Nat, V \in Nat, P \in Nat :
        /\ S = SlotSize /\ M = MetaSize /\ H = HeaderSize /\ V = MaxValue /\ P = PageSize
        /\ S # 0 /\ H <= P
  BY LeafConstants, LeafAssumption
<1>3. PICK N \in Nat, m \in Nat :
        /\ N = Len(n.slots) /\ m = Len(h.slots)
        /\ m = N \div 2 \/ m = N - N \div 2
  BY OrderedFacts
<1>4. /\ WellFormed(s) /\ Ordered(s) /\ Reached(s) \subseteq Reached(n)
      /\ Used(s) <= Used(h)
  BY CompactProperties DEF WellFormed, Live
<1>5. PICK l \in Nat : l = Len(s.slots)
  BY <1>4, OrderedFacts
<1>6. PICK c \in Nat, w \in Nat :
        c = S + M + z /\ w = S + M + V /\ S <= c /\ c <= w /\ S + M <= c
  <2>1. z <= V
    BY <1>1, <1>2
  <2>2. S + M + z \in Nat /\ S + M + V \in Nat /\ S + M + z <= S + M + V
    BY <2>1
  <2>3. S <= S + M + z /\ S + M <= S + M + z
    OBVIOUS
  <2>4. QED BY <2>2, <2>3
<1>7. Used(n) = H + N * c
  BY <1>1, <1>2, <1>3, <1>6, UniformUsed
<1>8. Used(h) = H + m * c
  BY <1>1, <1>2, <1>3, <1>6, UniformUsed
<1>9. Used(s) = H + l * c
  <2>1. \A x \in Reached(s) : Size[x.data] = z
    BY <1>1, <1>4
  <2>2. QED BY <1>2, <1>4, <1>5, <1>6, <2>1, UniformUsed
<1>10. PICK X \in Nat : X = P - H
  BY <1>2
<1>11. N * c <= X /\ l * c <= m * c /\ l * c <= X /\ 3 * w + S <= X
  <2>1. N * c \in Nat /\ m * c \in Nat /\ l * c \in Nat
    OBVIOUS
  <2>2. H + N * c <= P /\ H + l * c <= P
    BY <1>2, <1>7, <1>9 DEF Fits
  <2>3. l * c <= m * c
    BY <1>2, <1>4, <1>8, <1>9, <2>1
  <2>4. 3 * w + S <= X
    BY <1>2, <1>6, <1>10 DEF RoomForThree
  <2>5. QED BY <1>2, <1>10, <2>1, <2>2, <2>3, <2>4
<1>12. m * c + S + c <= X
  BY <1>3, <1>6, <1>11, HalfHasRoom
<1>13. l <= MaxCells
  <2>1. S + M \in Nat \ {0}
    BY <1>2
  <2>2. l <= X \div (S + M)
    BY <1>6, <1>11, <2>1, CellsFit
  <2>3. QED BY <1>2, <1>10, <2>2 DEF MaxCells
<1>14. SlotsOf(s, k) = {}
  <2>1. ASSUME NEW i \in 1 .. Len(s.slots), Key(s, i) = k PROVE FALSE
    <3>1. s.records[s.slots[i]] \in Reached(n) /\ s.records[s.slots[i]].row_id = k
      BY <1>4, <2>1 DEF Reached, Key
    <3>2. PICK j \in 1 .. Len(n.slots) : Key(n, j) = k
      BY <3>1 DEF Reached, Key
    <3>3. QED BY <3>2 DEF SlotsOf
  <2>2. QED BY <2>1 DEF SlotsOf
<1>15. InsertRecord(s, k, v) = InsertNew(s, k, v)
  BY <1>1, <1>2, <1>14 DEF InsertRecord
<1>16. PICK f \in Nat : f = Footer(s) /\ H + l * S + f = H + l * c
  <2>1. Footer(s) \in Nat
    BY <1>4, FooterType DEF WellFormed, Ordered, Node
  <2>2. QED BY <1>2, <1>5, <1>9, <2>1 DEF Used
<1>17. ~ (H + (l + 1) * S + f + c > P)
  <2>1. (l + 1) * S = l * S + S /\ l * S \in Nat /\ l * c \in Nat /\ m * c \in Nat
    OBVIOUS
  <2>2. l * c + S + c <= X
    BY <1>11, <1>12, <2>1
  <2>3. QED BY <1>2, <1>10, <1>16, <2>1, <2>2
<1>18. ~ (l > MaxCells)
  <2>1. MaxCells \in Nat
    <3>1. S + M \in Nat \ {0}
      BY <1>2
    <3>2. X \div (S + M) \in Nat
      BY <3>1
    <3>3. QED BY <1>2, <1>10, <3>2 DEF MaxCells
  <2>2. QED BY <1>13, <2>1
<1>19. InsertNew(s, k, v).ret = "Ok"
  <2>1. ~ (\/ HeaderSize + (Len(s.slots) + 1) * SlotSize + Footer(s)
                + (SlotSize + MetaSize + Size[v]) > PageSize
           \/ Len(s.slots) > MaxCells)
    BY <1>1, <1>2, <1>5, <1>6, <1>16, <1>17, <1>18
  <2>2. QED BY <2>1 DEF InsertNew, Outcome
<1>20. QED BY <1>15, <1>19
=============================================================================
