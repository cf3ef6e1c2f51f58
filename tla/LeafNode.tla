------------------------------ MODULE LeafNode ------------------------------
(***************************************************************************)
(* The leaf of src/src/storage/page.rs as operators on its value: records  *)
(* in the order they were pushed, and a slot array of indices into them,   *)
(* in the order of the row ids.  Indices count from 1 (from 0 in the       *)
(* code).  A payload is an opaque value with a size; page_id, last_lsn and *)
(* the sibling links play no part in these operators.                      *)
(***************************************************************************)
EXTENDS Naturals, Sequences, FiniteSets, SequencesExt

CONSTANTS
  Keys,        (* row ids                                                  *)
  Payloads,    (* byte strings                                             *)
  Size,        (* payload.len()                                            *)
  NoRow,       (* the None of get_record                                   *)
  PageSize,    (* PAGE_SIZE                                                *)
  HeaderSize,  (* LEAF_NODE_HEADER_SIZE                                    *)
  SlotSize,    (* SLOT_ELEM_SIZE                                           *)
  MetaSize,    (* RECORD_META_SIZE                                         *)
  MaxValue     (* MAX_VALUE_SIZE                                           *)

ASSUME LeafAssumption ==
  /\ Keys \subseteq Nat
  /\ Size \in [Payloads -> Nat]
  /\ NoRow \notin Payloads
  /\ {PageSize, HeaderSize, MaxValue} \subseteq Nat
  /\ {SlotSize, MetaSize} \subseteq Nat \ {0}
  /\ HeaderSize <= PageSize

MaxCells == (PageSize - HeaderSize) \div (SlotSize + MetaSize)

Record == [row_id : Keys, data : Payloads, is_deleted : BOOLEAN]

Empty == [slots |-> <<>>, records |-> <<>>, free_size |-> 0]

-----------------------------------------------------------------------------
(* The row ids as the slot array orders them. *)
Key(n, i) == n.records[n.slots[i]].row_id

(* Faulty: a new slot goes to the end. *)
PlaceAtEnd(n, k) == Len(n.slots) + 1

(* What binary_search_by_key finds in a sorted slot array: the slots of    *)
(* the key, and the place where it would have to be inserted.              *)
SlotsOf(n, k) == {i \in 1 .. Len(n.slots) : Key(n, i) = k}
PlaceOf(n, k) == Cardinality({i \in 1 .. Len(n.slots) : Key(n, i) < k}) + 1

RecordOf(n, k) == n.slots[CHOOSE i \in SlotsOf(n, k) : TRUE]

(* The bytes the records take, and the bytes encode needs for the page. *)
Footer(n) ==
  LET sum[i \in 0 .. Len(n.slots)] ==
        IF i = 0 THEN 0 ELSE sum[i - 1] + MetaSize + Size[n.records[n.slots[i]].data]
  IN sum[Len(n.slots)]
Used(n) == HeaderSize + Len(n.slots) * SlotSize + Footer(n)

Fits(n) == Used(n) <= PageSize

(* The slots of the records that are not deleted. *)
LiveSlots(n) ==
  LET kept[i \in 0 .. Len(n.slots)] ==
        IF i = 0 THEN <<>>
        ELSE IF n.records[n.slots[i]].is_deleted THEN kept[i - 1]
        ELSE Append(kept[i - 1], n.slots[i])
  IN kept[Len(n.slots)]

(* The records behind these slots, in that order. *)
Copied(n, live) ==
  [n EXCEPT !.slots   = [i \in 1 .. Len(live) |-> i],
            !.records = [i \in 1 .. Len(live) |-> n.records[live[i]]]]

(* free_size counted anew. *)
Measured(n) == IF Fits(n) THEN [n EXCEPT !.free_size = PageSize - Used(n)] ELSE n

(* compact: the live records, in the order of their keys.  The code panics *)
(* (unreachable!) at the end of it when the result does not fit.           *)
Compact(n) == Measured(Copied(n, LiveSlots(n)))

CompactOutcome(n) == IF Fits(Compact(n)) THEN "Ok" ELSE "panic"

-----------------------------------------------------------------------------
(* What an operation returns, with the node it leaves behind. *)
Outcome(ret, n) == [ret |-> ret, node |-> n]

(* Faulty: the record stays marked as deleted. *)
ReviveStaysDeleted(n, k, v) ==
  LET c == [n EXCEPT !.records[RecordOf(n, k)].data = v]
  IN Outcome(CompactOutcome(c), Compact(c))

(* insert_record of a key with a tombstone: no look at the room left. *)
Revive(n, k, v) ==
  LET c == [n EXCEPT !.records[RecordOf(n, k)] =
              [row_id |-> k, data |-> v, is_deleted |-> FALSE]]
  IN Outcome(CompactOutcome(c), Compact(c))

(* Faulty: the index of the record is taken after it was pushed. *)
InsertNewOffByOne(n, k, v) ==
  Outcome("Ok",
    [slots     |-> InsertAt(n.slots, PlaceOf(n, k), Len(n.records) + 2),
     records   |-> Append(n.records, [row_id |-> k, data |-> v, is_deleted |-> FALSE]),
     free_size |-> 0])

(* Faulty: the new record is left out of the bytes that are counted. *)
InsertNewUncounted(n, k, v) ==
  IF HeaderSize + (Len(n.slots) + 1) * SlotSize + Footer(n) > PageSize
  THEN Outcome("PageFull", n)
  ELSE Outcome("Ok",
         [slots     |-> InsertAt(n.slots, PlaceOf(n, k), Len(n.records) + 1),
          records   |-> Append(n.records, [row_id |-> k, data |-> v, is_deleted |-> FALSE]),
          free_size |-> 0])

(* insert_record of a new key.  One slot more than needed is accounted.    *)
InsertNew(n, k, v) ==
  LET required == SlotSize + MetaSize + Size[v]
      header   == HeaderSize + (Len(n.slots) + 1) * SlotSize
  IN
  IF header + Footer(n) + required > PageSize \/ Len(n.slots) > MaxCells
  THEN Outcome("PageFull", n)
  ELSE Outcome("Ok",
         [slots     |-> InsertAt(n.slots, PlaceOf(n, k), Len(n.records) + 1),
          records   |-> Append(n.records, [row_id |-> k, data |-> v, is_deleted |-> FALSE]),
          free_size |-> IF n.free_size >= required THEN n.free_size - required ELSE 0])

InsertRecord(n, k, v) ==
  CASE Size[v] > MaxValue -> Outcome("TupleTooLarge", n)
    [] Size[v] <= MaxValue /\ SlotsOf(n, k) = {} -> InsertNew(n, k, v)
    [] OTHER -> IF n.records[RecordOf(n, k)].is_deleted
                THEN Revive(n, k, v)
                ELSE Outcome("DuplicateKey", n)

UpdateRecord(n, k, v) ==
  CASE Size[v] >= MaxValue -> Outcome("TupleTooLarge", n)
    [] Size[v] < MaxValue /\ SlotsOf(n, k) = {} -> Outcome("KeyNotFound", n)
    [] OTHER -> Outcome("Ok", [n EXCEPT !.records[RecordOf(n, k)].data = v])

DeleteRecord(n, k) ==
  IF SlotsOf(n, k) = {}
  THEN Outcome("KeyNotFound", n)
  ELSE Outcome("Ok", [n EXCEPT !.records[RecordOf(n, k)].is_deleted = TRUE])

GetRecord(n, k) ==
  IF SlotsOf(n, k) = {} \/ n.records[RecordOf(n, k)].is_deleted
  THEN NoRow
  ELSE n.records[RecordOf(n, k)].data

(* Faulty: the left half is not truncated. *)
SplitWithoutTruncate(n) ==
  LET mid   == Len(n.slots) \div 2
      moved == [Empty EXCEPT
                  !.slots   = [i \in 1 .. Len(n.slots) - mid |-> i],
                  !.records = [i \in 1 .. Len(n.slots) - mid |-> n.records[n.slots[mid + i]]]]
      left  == Compact(n)
      right == Compact(moved)
  IN
  [left     |-> left,
   right    |-> right,
   promoted |-> IF right.slots = <<>> THEN NoRow ELSE Key(right, 1),
   ret      |-> IF right.slots = <<>> THEN "CorruptPage" ELSE "Ok"]

(* split: the upper half of the slots goes to the new, empty sibling; both *)
(* halves are compacted; promoted is the first key of the right one.       *)
Split(n) ==
  LET mid   == Len(n.slots) \div 2
      half  == [n EXCEPT !.slots = SubSeq(n.slots, 1, mid)]
      moved == [Empty EXCEPT
                  !.slots   = [i \in 1 .. Len(n.slots) - mid |-> i],
                  !.records = [i \in 1 .. Len(n.slots) - mid |-> n.records[n.slots[mid + i]]]]
      left  == Compact(half)
      right == IF Fits(left) THEN Compact(moved) ELSE moved
  IN
  [left     |-> left,
   right    |-> right,
   promoted |-> IF right.slots = <<>> THEN NoRow ELSE Key(right, 1),
   ret      |-> CASE "panic" \in {CompactOutcome(half), CompactOutcome(moved)} -> "panic"
                  [] "panic" \notin {CompactOutcome(half), CompactOutcome(moved)}
                       /\ right.slots = <<>> -> "CorruptPage"
                  [] OTHER -> "Ok"]

-----------------------------------------------------------------------------
(* The page encode writes, when the node fits: the records follow in the   *)
(* order of the slots.  decode puts each where its slot points.            *)
Encode(n) ==
  [slots     |-> n.slots,
   free_size |-> PageSize - Used(n),
   cells     |-> [i \in 1 .. Len(n.slots) |-> n.records[n.slots[i]]]]

Decode(page) ==
  [slots     |-> page.slots,
   free_size |-> page.free_size,
   records   |-> [i \in 1 .. Len(page.slots) |->
                    page.cells[CHOOSE j \in 1 .. Len(page.slots) : page.slots[j] = i]]]
=============================================================================
