------------------------------ MODULE LeafProofs ----------------------------
(***************************************************************************)
(* Proofs about LeafPage: whatever calls, compactions and reloads a leaf   *)
(* goes through, its slot array stays sorted and complete, and the leaf is *)
(* a map from row ids to payloads.  For any row ids, payloads and sizes of *)
(* a page.                                                                 *)
(***************************************************************************)
EXTENDS LeafPage, LeafNodeProofs

LeafInv ==
  /\ WellFormed(node)
  /\ last \in {"new", "insert", "update", "delete"}
              \X (Keys \cup {NoRow}) \X (Payloads \cup {NoRow}) \X Results

-----------------------------------------------------------------------------
(* A new leaf is empty.                                                    *)
LEMMA LeafInit == Init => LeafInv
<1> SUFFICES ASSUME Init PROVE LeafInv
  OBVIOUS
<1>1. node = [slots |-> <<>>, records |-> <<>>, free_size |-> 0]
  BY DEF Init, Empty
<1>2. Len(node.slots) = 0 /\ Len(node.records) = 0
  BY <1>1
<1>3. node \in Node
  <2>1. <<>> \in Seq(Nat) /\ <<>> \in Seq(Record) /\ 0 \in 0 .. PageSize
    BY LeafConstants
  <2>2. QED BY <1>1, <2>1 DEF Node
<1>4. WellFormed(node)
  BY <1>2, <1>3 DEF WellFormed, Ordered
<1>5. QED BY <1>4 DEF LeafInv, Init, Results

(* The leaf's steps are the map's, and keep what binary search and decode  *)
(* need.                                                                   *)
LEMMA LeafStep ==
  ASSUME LeafInv, [Next]_vars
  PROVE  LeafInv' /\ [Map!Next]_(Map!vars)
<1>1. WellFormed(node)
  BY DEF LeafInv
<1>2. Map!vars' = Map!vars <=> Rows(node') = Rows(node) /\ last' = last
  BY DEF Map!vars
<1>3. ASSUME NEW k \in Keys, NEW v \in Payloads, Insert(k, v)
      PROVE  LeafInv' /\ Map!Insert(k, v)
  <2>1. PICK o : o = InsertRecord(node, k, v)
    OBVIOUS
  <2>2. node' = o.node /\ last' = <<"insert", k, v, o.ret>>
    BY <1>3, <2>1 DEF Insert, Call
  <2>3. /\ WellFormed(o.node)
        /\ \/ /\ o.ret \in {"Ok", "panic"} /\ Rows(node)[k] = NoRow
              /\ Rows(o.node) = [Rows(node) EXCEPT ![k] = v]
           \/ o.ret = "DuplicateKey" /\ Rows(node)[k] # NoRow /\ o.node = node
           \/ o.ret \in {"TupleTooLarge", "PageFull"} /\ o.node = node
    BY <1>1, <2>1, InsertProperties DEF Rows, RowsOf
  <2>4. LeafInv'
    BY <2>2, <2>3 DEF LeafInv, Results
  <2>5. Map!Insert(k, v)
    <3>1. CASE /\ o.ret \in {"Ok", "panic"} /\ Rows(node)[k] = NoRow
               /\ Rows(o.node) = [Rows(node) EXCEPT ![k] = v]
      BY <2>2, <3>1 DEF Map!Insert, Map!Returns
    <3>2. CASE o.ret = "DuplicateKey" /\ Rows(node)[k] # NoRow /\ o.node = node
      BY <2>2, <3>2 DEF Map!Insert, Map!Returns
    <3>3. CASE o.ret \in {"TupleTooLarge", "PageFull"} /\ o.node = node
      BY <2>2, <3>3 DEF Map!Insert, Map!Returns
    <3>4. QED BY <2>3, <3>1, <3>2, <3>3
  <2>6. QED BY <2>4, <2>5
<1>4. ASSUME NEW k \in Keys, NEW v \in Payloads, Update(k, v)
      PROVE  LeafInv' /\ Map!Update(k, v)
  <2>1. PICK o : o = UpdateRecord(node, k, v)
    OBVIOUS
  <2>2. node' = o.node /\ last' = <<"update", k, v, o.ret>>
    BY <1>4, <2>1 DEF Update, Call
  <2>3. /\ WellFormed(o.node)
        /\ \/ /\ o.ret = "Ok" /\ Rows(node)[k] # NoRow
              /\ Rows(o.node) = [Rows(node) EXCEPT ![k] = v]
           \/ /\ o.ret \in {"Ok", "KeyNotFound"} /\ Rows(node)[k] = NoRow
              /\ Rows(o.node) = Rows(node)
           \/ o.ret = "TupleTooLarge" /\ o.node = node
    BY <1>1, <2>1, UpdateProperties DEF Rows, RowsOf
  <2>4. LeafInv'
    BY <2>2, <2>3 DEF LeafInv, Results
  <2>5. Map!Update(k, v)
    <3>1. CASE /\ o.ret = "Ok" /\ Rows(node)[k] # NoRow
               /\ Rows(o.node) = [Rows(node) EXCEPT ![k] = v]
      BY <2>2, <3>1 DEF Map!Update, Map!Returns
    <3>2. CASE /\ o.ret \in {"Ok", "KeyNotFound"} /\ Rows(node)[k] = NoRow
               /\ Rows(o.node) = Rows(node)
      BY <2>2, <3>2 DEF Map!Update, Map!Returns
    <3>3. CASE o.ret = "TupleTooLarge" /\ o.node = node
      BY <2>2, <3>3 DEF Map!Update, Map!Returns
    <3>4. QED BY <2>3, <3>1, <3>2, <3>3
  <2>6. QED BY <2>4, <2>5
<1>5. ASSUME NEW k \in Keys, Delete(k)
      PROVE  LeafInv' /\ Map!Delete(k)
  <2>1. PICK o : o = DeleteRecord(node, k)
    OBVIOUS
  <2>2. node' = o.node /\ last' = <<"delete", k, NoRow, o.ret>>
    BY <1>5, <2>1 DEF Delete, Call
  <2>3. /\ WellFormed(o.node)
        /\ \/ o.ret = "Ok" /\ Rows(o.node) = [Rows(node) EXCEPT ![k] = NoRow]
           \/ o.ret = "KeyNotFound" /\ Rows(node)[k] = NoRow /\ o.node = node
    BY <1>1, <2>1, DeleteProperties DEF Rows, RowsOf
  <2>4. LeafInv'
    BY <2>2, <2>3 DEF LeafInv, Results
  <2>5. Map!Delete(k)
    <3>1. CASE o.ret = "Ok" /\ Rows(o.node) = [Rows(node) EXCEPT ![k] = NoRow]
      BY <2>2, <3>1 DEF Map!Delete, Map!Returns
    <3>2. CASE o.ret = "KeyNotFound" /\ Rows(node)[k] = NoRow /\ o.node = node
      BY <2>2, <3>2 DEF Map!Delete, Map!Returns
    <3>3. QED BY <2>3, <3>1, <3>2
  <2>6. QED BY <2>4, <2>5
<1>6. CASE Reload
  <2>1. Fits(node) /\ node' = Decode(Encode(node)) /\ last' = last
    BY <1>6 DEF Reload
  <2>2. WellFormed(node') /\ Live(node') = Live(node)
    BY <1>1, <2>1, ReloadProperties
  <2>3. LeafInv'
    BY <2>1, <2>2 DEF LeafInv
  <2>4. Rows(node') = Rows(node)
    BY <1>1, <2>2, SameRows DEF WellFormed, Rows, RowsOf
  <2>5. QED BY <1>2, <2>1, <2>3, <2>4
<1>7. CASE UNCHANGED vars
  <2>1. node' = node /\ last' = last
    BY <1>7 DEF vars
  <2>2. LeafInv'
    BY <2>1 DEF LeafInv
  <2>3. QED BY <1>2, <2>1, <2>2
<1>8. QED BY <1>3, <1>4, <1>5, <1>6, <1>7 DEF Next, Map!Next

(* The leaf is well formed after every call that returns.                  *)
LEMMA LeafInvariant == Spec => []LeafInv
<1>1. LeafInv /\ [Next]_vars => LeafInv'
  BY LeafStep
<1>2. QED BY LeafInit, <1>1, PTL DEF Spec

(* Every slot points at a record, the records are rows with their payload, *)
(* and free_size never exceeds the page.                                   *)
THEOREM TypeCorrect == Spec => []TypeOK
<1>1. ASSUME LeafInv PROVE TypeOK
  <2>1. /\ node.slots \in Seq(Nat) /\ node.records \in Seq(Record)
        /\ node.free_size \in 0 .. PageSize
        /\ \A i \in 1 .. Len(node.slots) : node.slots[i] \in 1 .. Len(node.records)
    BY <1>1 DEF LeafInv, WellFormed, Ordered, Node
  <2>2. node.slots \in Seq(1 .. Len(node.records))
    BY <2>1
  <2>3. QED BY <1>1, <2>1, <2>2 DEF LeafInv, TypeOK
<1>2. QED BY <1>1, LeafInvariant, PTL

(* The slot array is sorted without duplicates, which is what the binary   *)
(* searches of page.rs assume, and it points at every record once, which   *)
(* is what decode assumes.                                                 *)
THEOREM SlotsStayInOrder == Spec => []SlotsInOrder
<1>1. ASSUME LeafInv PROVE SlotsInOrder
  BY <1>1 DEF LeafInv, WellFormed, Ordered, SlotsInOrder
<1>2. QED BY <1>1, LeafInvariant, PTL

(* insert_record, update_record, delete_record and get_record are those of *)
(* a map, whatever compaction, reuse of tombstones and reloading does.     *)
THEOREM LeafIsARowMap == Spec => ImplementsRowMap
<1>1. Init => Map!Init
  <2> SUFFICES ASSUME Init PROVE Map!Init
    OBVIOUS
  <2>1. node.slots = <<>> /\ last = <<"new", NoRow, NoRow, "Ok">>
    BY DEF Init, Empty
  <2>2. \A k : SlotsOf(node, k) = {}
    BY <2>1 DEF SlotsOf
  <2>3. Rows(node) = [k \in Keys |-> NoRow]
    BY <2>2 DEF Rows, GetRecord
  <2>4. QED BY <2>1, <2>3 DEF Map!Init
<1>2. LeafInv /\ [Next]_vars => [Map!Next]_(Map!vars)
  BY LeafStep
<1>3. QED BY <1>1, <1>2, LeafInvariant, PTL DEF Spec, ImplementsRowMap, Map!Spec

(* split loses no row and invents none; where the leaf fits its page, both  *)
(* halves fit theirs.                                                      *)
THEOREM SplitNeverLosesRows == Spec => []SplitKeepsRows
<1>1. ASSUME LeafInv PROVE SplitKeepsRows
  <2>1. Ordered(node)
    BY <1>1 DEF LeafInv, WellFormed
  <2>2. SUFFICES ASSUME Split(node).ret = "Ok" PROVE SplitKeepsRows
    BY DEF SplitKeepsRows
  <2>3. PICK s : s = Split(node)
    OBVIOUS
  <2>4. PICK mid \in 0 .. Len(node.slots) :
          /\ s.left = Compact(Lower(node, mid)) /\ s.right = Compact(Upper(node, mid))
          /\ Fits(s.left) /\ Fits(s.right)
          /\ s.right.slots # <<>> /\ s.promoted = Key(s.right, 1)
    BY <2>1, <2>2, <2>3, SplitHalves
  <2>5. ASSUME NEW k \in Keys
        PROVE  /\ k < s.promoted => GetRecord(s.left, k) = GetRecord(node, k)
                                    /\ GetRecord(s.right, k) = NoRow
               /\ k >= s.promoted => GetRecord(s.right, k) = GetRecord(node, k)
                                     /\ GetRecord(s.left, k) = NoRow
    <3>1. PICK l, r, p : l = s.left /\ r = s.right /\ p = s.promoted
      OBVIOUS
    <3>2. QED BY <2>1, <2>4, <3>1, SplitKeeps
  <2>6. QED BY <2>3, <2>4, <2>5 DEF SplitKeepsRows
<1>2. QED BY <1>1, LeafInvariant, PTL

(* The retry of insert_leaf succeeds: where records have one size, the     *)
(* half of a full page that the key belongs to takes the record, on any    *)
(* page that has room for three of the largest.                            *)
THEOREM SplitLeavesRoom == ASSUME RoomForThree PROVE Spec => []SplitMakesRoom
<1>1. ASSUME LeafInv PROVE SplitMakesRoom
  <2>1. Ordered(node)
    BY <1>1 DEF LeafInv, WellFormed
  <2>2. SUFFICES ASSUME NEW k \in Keys, NEW v \in Payloads, NEW s, s = Split(node),
                        \A i \in 1 .. Len(node.records) :
                          Size[node.records[i].data] = Size[v],
                        Fits(node),
                        InsertRecord(node, k, v).ret = "PageFull",
                        s.ret = "Ok"
                 PROVE  InsertRecord(IF k < s.promoted THEN s.left ELSE s.right, k, v).ret
                          = "Ok"
    BY DEF SplitMakesRoom
  <2>3. PICK mid \in 0 .. Len(node.slots) :
          /\ mid = Len(node.slots) \div 2
          /\ s.left = Compact(Lower(node, mid)) /\ s.right = Compact(Upper(node, mid))
          /\ Fits(s.left) /\ Fits(s.right)
    BY <2>1, <2>2, SplitHalves
  <2>4. Size[v] <= MaxValue /\ SlotsOf(node, k) = {}
    <3>1. Size[v] \in Nat /\ MaxValue \in Nat
      BY LeafConstants
    <3>2. CASE Size[v] > MaxValue
      BY <2>2, <3>2 DEF InsertRecord, Outcome
    <3>3. CASE Size[v] <= MaxValue /\ SlotsOf(node, k) # {}
      <4>1. ~ (Size[v] > MaxValue)
        BY <3>1, <3>3
      <4>2. InsertRecord(node, k, v)
              = IF node.records[RecordOf(node, k)].is_deleted
                THEN Revive(node, k, v)
                ELSE Outcome("DuplicateKey", node)
        BY <3>3, <4>1 DEF InsertRecord
      <4>3. Revive(node, k, v).ret # "PageFull" /\ Outcome("DuplicateKey", node).ret # "PageFull"
        BY DEF Revive, Outcome, CompactOutcome
      <4>4. QED BY <2>2, <4>2, <4>3
    <3>4. QED BY <3>1, <3>2, <3>3
  <2>5. ASSUME NEW x \in Reached(node) PROVE Size[x.data] = Size[v]
    BY <2>1, <2>2, <2>5 DEF Reached, Ordered
  <2>6. PICK low, up : low = Lower(node, mid) /\ up = Upper(node, mid)
    OBVIOUS
  <2>7. /\ Ordered(low) /\ Reached(low) \subseteq Reached(node)
        /\ Len(low.slots) = Len(node.slots) \div 2
    BY <2>1, <2>3, <2>6, LowerHalf
  <2>8. /\ Ordered(up) /\ Reached(up) \subseteq Reached(node)
        /\ Len(up.slots) = Len(node.slots) - Len(node.slots) \div 2
    BY <2>1, <2>3, <2>6, UpperHalf
  <2>9. InsertRecord(s.left, k, v).ret = "Ok"
    BY <2>1, <2>2, <2>3, <2>4, <2>5, <2>6, <2>7, HalfTakesRecord
  <2>10. InsertRecord(s.right, k, v).ret = "Ok"
    BY <2>1, <2>2, <2>3, <2>4, <2>5, <2>6, <2>8, HalfTakesRecord
  <2>11. QED BY <2>9, <2>10
<1>2. QED BY <1>1, LeafInvariant, PTL

-----------------------------------------------------------------------------
(* A step that overfills the page is a call that put a larger payload in   *)
(* the place of a smaller one.                                             *)
LEMMA GrowthStep ==
  ASSUME LeafInv, [Next]_vars, Fits(node), ~ Fits(node')
  PROVE  Outgrown(node, last'[2], last'[3])
<1>1. WellFormed(node)
  BY DEF LeafInv
<1>2. ASSUME NEW k \in Keys, NEW v \in Payloads, Insert(k, v)
      PROVE  Outgrown(node, last'[2], last'[3])
  <2>1. PICK o : o = InsertRecord(node, k, v)
    OBVIOUS
  <2>2. node' = o.node /\ last' = <<"insert", k, v, o.ret>>
    BY <1>2, <2>1 DEF Insert, Call
  <2>3. Fits(o.node) \/ Outgrown(node, k, v)
    BY <1>1, <2>1, InsertProperties
  <2>4. last'[2] = k /\ last'[3] = v
    BY <2>2
  <2>5. QED BY <2>2, <2>3, <2>4
<1>3. ASSUME NEW k \in Keys, NEW v \in Payloads, Update(k, v)
      PROVE  Outgrown(node, last'[2], last'[3])
  <2>1. PICK o : o = UpdateRecord(node, k, v)
    OBVIOUS
  <2>2. node' = o.node /\ last' = <<"update", k, v, o.ret>>
    BY <1>3, <2>1 DEF Update, Call
  <2>3. Fits(o.node) \/ Outgrown(node, k, v)
    BY <1>1, <2>1, UpdateProperties
  <2>4. last'[2] = k /\ last'[3] = v
    BY <2>2
  <2>5. QED BY <2>2, <2>3, <2>4
<1>4. ASSUME NEW k \in Keys, Delete(k) PROVE FALSE
  <2>1. PICK o : o = DeleteRecord(node, k)
    OBVIOUS
  <2>2. node' = o.node
    BY <1>4, <2>1 DEF Delete, Call
  <2>3. Fits(o.node)
    BY <1>1, <2>1, DeleteProperties
  <2>4. QED BY <2>2, <2>3
<1>5. ASSUME Reload PROVE FALSE
  <2>1. PICK c : c = Decode(Encode(node)) /\ c = node'
    BY <1>5 DEF Reload
  <2>2. c.slots = node.slots /\ c.records = node.records
    BY <1>1, <2>1, ReloadProperties
  <2>3. Footer(c) = Footer(node)
    BY <2>2 DEF Footer
  <2>4. Fits(c)
    BY <2>2, <2>3 DEF Fits, Used
  <2>5. QED BY <2>1, <2>4
<1>6. ASSUME UNCHANGED vars PROVE FALSE
  <2>1. node' = node
    BY <1>6 DEF vars
  <2>2. QED BY <2>1
<1>7. QED BY <1>2, <1>3, <1>4, <1>5, <1>6 DEF Next

(* A leaf whose page can be written stays so, unless a call replaced a     *)
(* payload by a larger one: insert_record's limit is the one of encode.    *)
THEOREM OnlyGrowthDoes == Spec => OnlyGrowthOverfills
<1>1. LeafInv /\ [Next]_vars =>
        [Fits(node) /\ ~ Fits(node') =>
           \E i \in 1 .. Len(node.records) :
             /\ node.records[i].row_id = last'[2]
             /\ Size[node.records[i].data] < Size[last'[3]]]_vars
  BY GrowthStep DEF Outgrown
<1>2. QED BY <1>1, LeafInvariant, PTL DEF Spec, OnlyGrowthOverfills
=============================================================================
