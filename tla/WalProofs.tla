------------------------------ MODULE WalProofs -----------------------------
(***************************************************************************)
(* Proofs about Wal: with sync on, what flushed_lsn covers is durable; and *)
(* as long as a power loss tears a file only inside of an entry's body,    *)
(* recovery finds every acknowledged entry, in order.  For any number of   *)
(* entries, batches, failures and power losses.                            *)
(***************************************************************************)
EXTENDS Wal, FiniteSetTheorems, SequenceTheorems, WellFoundedInduction, TLAPS

(* A file is no longer than the LSNs there are, and none of its cells is   *)
(* ahead of the last one.                                                  *)
Bounded(f) ==
  /\ Len(f) <= 2 * lsn
  /\ \A i \in 1 .. Len(f) : f[i].lsn <= lsn

(* While a batch is written it is the last one, and what is counted comes  *)
(* from before it: from up to LSN k.                                       *)
WritingFrom(k) ==
  /\ (k + 1) .. lsn \in batches
  /\ \A b \in batches : b = (k + 1) .. lsn \/ b \subseteq 1 .. k
  /\ entry_count <= k
  /\ flushed_lsn <= k

TypeInv ==
  /\ TypeOK
  /\ \A f \in {file} \cup old : Bounded(f)
  /\ flushed_lsn <= lsn
  /\ entry_count <= lsn
  /\ \A b \in batches : b \subseteq 1 .. lsn
  /\ mode = "writing" => \E k \in 0 .. lsn : k < lsn /\ WritingFrom(k)

(* Nothing that a power loss may take away has an LSN flushed_lsn covers,  *)
(* from the moment the engine runs, or init has emptied the log for it.    *)
Covered ==
  \A i \in 1 .. Len(file) : file[i].lsn \in 1 .. flushed_lsn => i <= durable

DurableInv == mode \in {"running", "writing", "truncated"} => Covered

-----------------------------------------------------------------------------
(* The file of a log that nothing spoiled: the entries after LSN n, one by *)
(* one, the last one perhaps cut short.                                    *)
EntriesAfter(f, n) ==
  \A i \in 1 .. Len(f) :
    /\ f[i].lsn = n + (i + 1) \div 2
    /\ i % 2 = 1 => f[i].kind = "len"
    /\ i % 2 = 0 => f[i].kind = "body" \/ (i = Len(f) /\ f[i].kind = "cut")
    /\ \E b \in batches : f[i].lsn \in b

Logged(f) == \E n \in 0 .. lsn : EntriesAfter(f, n)

(* None is cut short. *)
Whole(f) ==
  /\ Len(f) % 2 = 0
  /\ Len(f) > 0 => f[Len(f)].kind = "body"

(* The log that is written to ends with the last entry.                    *)
LogIsWhole ==
  /\ mode \in {"running", "writing"} =>
       /\ Whole(file)
       /\ EntriesAfter(file, lsn - Len(file) \div 2)
  /\ mode = "running" => entry_count = Len(file) \div 2
  /\ mode = "writing" => \E k \in 0 .. lsn :
       k < lsn /\ WritingFrom(k) /\ Len(file) = 2 * (entry_count + (lsn - k))

(* Recovery has found all of the log. *)
FoundIsLog ==
  mode = "replayed" =>
    /\ Whole(file)
    /\ entry_count = Len(file) \div 2
    /\ Len(found) = Len(file) \div 2
    /\ \A i \in 1 .. Len(found) : found[i] = file[2 * i].lsn

(* Acknowledged entries are in the part of the file a power loss leaves.   *)
AckedIsDurable ==
  /\ acked # {} => old = {}
  /\ \A n \in acked : \E i \in 1 .. durable : file[i].kind = "body" /\ file[i].lsn = n

LogInv ==
  /\ ~ Sync => acked = {}
  /\ mode = "truncated" => file = <<>> /\ acked = {} /\ missed = {} /\ entry_count = 0
  /\ ~ spoiled =>
       /\ missed = {}
       /\ \A f \in {file} \cup old : Logged(f)
       /\ LogIsWhole
       /\ FoundIsLog
       /\ AckedIsDurable

-----------------------------------------------------------------------------
(* The bounds are numbers.                                                 *)
LEMMA WalConstants ==
  /\ MaxLsn \in Nat /\ MaxBatch \in Nat /\ MaxCrashes \in Nat
  /\ Sync \in BOOLEAN /\ WriteFails \in BOOLEAN
BY WalAssumption

(* Lengths and twice the number of entries.                                *)
LEMMA Halves ==
  ASSUME NEW a \in Nat, NEW n \in Nat, 2 * n <= a
  PROVE  /\ a - 2 * n \in Nat
         /\ a = 2 * n + (a - 2 * n)
         /\ (IF 2 * n + 1 <= a THEN a - (2 * n + 1) + 1 ELSE 0) = a - 2 * n
OBVIOUS

(* What is not ahead of an LSN is not ahead of a later one.                *)
LEMMA Later ==
  ASSUME NEW a \in Nat, NEW b \in Nat, NEW k \in Nat, a <= b
  PROVE  a <= b + k
OBVIOUS

(* LSNs up to the last one are LSNs.                                       *)
LEMMA Lsns ==
  ASSUME NEW m \in Nat, NEW n \in Nat, m <= n, NEW s \in Seq(0 .. m)
  PROVE  s \in Seq(0 .. n)
<1>1. \A x \in 0 .. m : x \in 0 .. n
  OBVIOUS
<1>2. s \in [1 .. Len(s) -> 0 .. n] /\ Len(s) \in Nat
  BY <1>1
<1>3. QED BY <1>2

(* Every nonempty set of naturals has a least element.                     *)
LEMMA Least ==
  ASSUME NEW T \in SUBSET Nat, T # {}
  PROVE  \E m \in T : \A k \in T : m <= k
<1> DEFINE R == {ss \in Nat \X Nat : ss[1] < ss[2]}
<1>1. R = OpToRel(<, Nat)
  BY DEF OpToRel
<1>2. IsWellFoundedOn(R, Nat)
  BY <1>1, NatLessThanWellFounded
<1>3. PICK m \in T : \A y \in T : ~ (<<y, m>> \in R)
  <2> HIDE DEF R
  <2>1. QED BY <1>2, WFMin
<1>4. ASSUME NEW k \in T PROVE m <= k
  <2>1. ~ (k < m)
    BY <1>3
  <2>2. QED BY <2>1
<1>5. QED BY <1>4

(* The highest of a set of LSNs up to m is one of them, or 0.              *)
LEMMA HighestType ==
  ASSUME NEW m \in Nat, NEW S \in SUBSET (0 .. m)
  PROVE  Highest(S) \in 0 .. m
<1>1. CASE S = {}
  BY <1>1 DEF Highest
<1>2. CASE S # {}
  <2> DEFINE T == {m - l : l \in S}
  <2>1. \A l \in S : l \in 0 .. m
    OBVIOUS
  <2>2. \A l \in S : l \in Nat /\ l <= m /\ m - l \in Nat
    BY <2>1
  <2>3. T \in SUBSET Nat
    BY <2>2
  <2>4. T # {}
    BY <1>2
  <2>5. PICK d \in T : \A k \in T : d <= k
    BY <2>3, <2>4, Least
  <2>6. PICK x \in S : d = m - x
    OBVIOUS
  <2>7. ASSUME NEW l \in S PROVE l <= x
    <3>1. m - x <= m - l
      BY <2>5, <2>6
    <3>2. l \in Nat /\ x \in Nat
      BY <2>2
    <3> HIDE DEF T
    <3>3. QED BY <3>1, <3>2
  <2>8. Highest(S) = CHOOSE n \in S : \A l \in S : l <= n
    BY <1>2 DEF Highest
  <2>9. Highest(S) \in S
    BY <2>7, <2>8
  <2> HIDE DEF T
  <2>10. QED BY <2>1, <2>9
<1>3. QED BY <1>1, <1>2

(* The highest LSN of a batch is the last.                                 *)
LEMMA HighestOfInterval ==
  ASSUME NEW k \in Nat, NEW n \in Nat, k < n
  PROVE  Highest((k + 1) .. n) = n
<1>1. n \in (k + 1) .. n /\ \A m \in (k + 1) .. n : m <= n
  OBVIOUS
<1>2. QED BY <1>1 DEF Highest

(* The entries of a batch and its cells.                                   *)
LEMMA BatchCells ==
  ASSUME NEW n \in Nat, NEW k \in Nat, n + k <= MaxLsn
  PROVE  LET b == [i \in 1 .. k |-> n + i]
             c == Framed(b)
         IN /\ Len(b) = k
            /\ Elements(b) = (n + 1) .. (n + k)
            /\ c \in Seq(Cell)
            /\ Len(c) = 2 * k
            /\ \A i \in 1 .. 2 * k :
                 /\ c[i].lsn = n + (i + 1) \div 2
                 /\ c[i].kind = IF i % 2 = 1 THEN "len" ELSE "body"
<1> DEFINE b == [i \in 1 .. k |-> n + i]
           c == Framed(b)
<1>1. Len(b) = k
  OBVIOUS
<1>2. Elements(b) = (n + 1) .. (n + k)
  <2>1. ASSUME NEW x \in (n + 1) .. (n + k) PROVE \E i \in 1 .. k : b[i] = x
    <3>1. x - n \in 1 .. k /\ b[x - n] = x
      OBVIOUS
    <3>2. QED BY <3>1
  <2>2. \A i \in 1 .. k : b[i] \in (n + 1) .. (n + k)
    OBVIOUS
  <2> HIDE DEF b
  <2>3. QED BY <1>1, <2>1, <2>2 DEF Elements
<1>3. ASSUME NEW i \in 1 .. 2 * k PROVE (i + 1) \div 2 \in 1 .. k
  OBVIOUS
<1>4. c = [i \in 1 .. 2 * k |->
             [kind |-> IF i % 2 = 1 THEN "len" ELSE "body", lsn |-> n + (i + 1) \div 2]]
  BY <1>1, <1>3 DEF Framed
<1>5. MaxLsn \in Nat
  BY WalConstants
<1>6. ASSUME NEW i \in 1 .. 2 * k PROVE c[i] \in Cell
  <2>1. n + (i + 1) \div 2 \in 0 .. MaxLsn
    BY <1>3, <1>5
  <2>2. QED BY <1>4, <2>1 DEF Cell
<1> HIDE DEF b, c
<1>7. c \in Seq(Cell) /\ Len(c) = 2 * k
  BY <1>4, <1>6
<1>8. \A i \in 1 .. 2 * k : /\ c[i].lsn = n + (i + 1) \div 2
                            /\ c[i].kind = IF i % 2 = 1 THEN "len" ELSE "body"
  BY <1>4
<1>9. QED BY <1>1, <1>2, <1>7, <1>8 DEF b, c

(* What a power loss, or a write that stops, leaves of cells.              *)
LEMMA TornCells ==
  ASSUME NEW f \in Seq(Cell), NEW k \in 0 .. Len(f), NEW g \in TornAt(f, k)
  PROVE  /\ g \in Seq(Cell)
         /\ k <= Len(g) /\ Len(g) <= Len(f)
         /\ Len(g) <= k + 1
         /\ \A i \in 1 .. k : g[i] = f[i]
         /\ \A i \in 1 .. Len(g) : g[i].lsn = f[i].lsn
         /\ Len(g) = k + 1 => /\ g[k + 1].kind \in Tears
                              /\ f[k + 1].kind = "body" => g[k + 1].kind = "cut"
                              /\ f[k + 1].kind = "len" => g[k + 1].kind \in {"part", "zero"}
                              /\ f[k + 1].kind \in {"body", "len"}
<1> DEFINE s == SubSeq(f, 1, k)
<1>1. k \in Nat /\ Len(f) \in Nat /\ k <= Len(f)
  OBVIOUS
<1>2. s \in Seq(Cell) /\ Len(s) = k /\ \A i \in 1 .. k : s[i] = f[i]
  OBVIOUS
<1> HIDE DEF s
<1>3. CASE g = s
  BY <1>1, <1>2, <1>3
<1>4. CASE g # s
  <2>1. /\ k # Len(f)
        /\ \E kind \in Tears \cap (IF f[k + 1].kind = "len" THEN {"part", "zero"}
                                   ELSE IF f[k + 1].kind = "body" THEN {"cut"} ELSE {}) :
             g = Append(s, [f[k + 1] EXCEPT !.kind = kind])
    BY <1>4 DEF TornAt, s
  <2>2. PICK kind \in Tears \cap (IF f[k + 1].kind = "len" THEN {"part", "zero"}
                                  ELSE IF f[k + 1].kind = "body" THEN {"cut"} ELSE {}) :
               g = Append(s, [f[k + 1] EXCEPT !.kind = kind])
    BY <2>1
  <2> DEFINE c == [f[k + 1] EXCEPT !.kind = kind]
  <2>3. f[k + 1] \in Cell /\ k + 1 <= Len(f)
    BY <1>1, <2>1
  <2>4. c \in Cell /\ c.lsn = f[k + 1].lsn /\ c.kind = kind
    BY <2>2, <2>3, WalAssumption DEF Cell
  <2> HIDE DEF c
  <2>5. /\ g \in Seq(Cell) /\ Len(g) = k + 1 /\ g[k + 1] = c
        /\ \A i \in 1 .. k : g[i] = s[i]
    BY <1>2, <2>2, <2>4 DEF c
  <2>6. \A i \in 1 .. k : g[i] = f[i]
    BY <1>2, <2>5
  <2>7. \A i \in 1 .. Len(g) : g[i].lsn = f[i].lsn
    BY <1>1, <2>4, <2>5, <2>6
  <2>8. QED BY <1>1, <2>2, <2>3, <2>4, <2>5, <2>6, <2>7
<1>5. QED BY <1>3, <1>4

-----------------------------------------------------------------------------
(* The two cells of the i-th entry are in place.                           *)
InPlace(f, i) ==
  /\ 2 * i <= Len(f)
  /\ f[2 * i - 1].kind = "len"
  /\ f[2 * i].kind = "body"

(* What read_batch parses is the longest such beginning of the file.       *)
LEMMA IntactProperties ==
  ASSUME NEW f \in Seq(Cell)
  PROVE  /\ Intact(f) \in Nat
         /\ 2 * Intact(f) <= Len(f)
         /\ \A i \in 1 .. Intact(f) : InPlace(f, i)
         /\ ~ InPlace(f, Intact(f) + 1)
<1> DEFINE T == {i \in Nat : ~ InPlace(f, i + 1)}
           P(n) == /\ \A i \in 1 .. n : 2 * i <= Len(f) /\ f[2 * i - 1].kind = "len"
                                                        /\ f[2 * i].kind = "body"
                   /\ ~ (/\ 2 * n + 2 <= Len(f)
                         /\ f[2 * n + 1].kind = "len"
                         /\ f[2 * n + 2].kind = "body")
<1>1. Len(f) \in Nat
  OBVIOUS
<1>2. Len(f) \in T
  BY <1>1 DEF InPlace
<1>3. PICK m \in T : \A k \in T : m <= k
  <2>1. T \in SUBSET Nat /\ T # {}
    BY <1>2
  <2>2. QED BY <2>1, Least
<1>4. m \in 0 .. Len(f)
  BY <1>1, <1>2, <1>3
<1>5. ASSUME NEW i \in 1 .. m PROVE InPlace(f, i)
  <2>1. i - 1 \in Nat /\ ~ (m <= i - 1) /\ (i - 1) + 1 = i
    BY <1>4
  <2>2. i - 1 \notin T
    BY <1>3, <2>1
  <2>3. QED BY <2>1, <2>2
<1>6. ~ InPlace(f, m + 1)
  OBVIOUS
<1> HIDE DEF T
<1>7. \A n \in Nat : InPlace(f, n + 1) <=> /\ 2 * n + 2 <= Len(f)
                                           /\ f[2 * n + 1].kind = "len"
                                           /\ f[2 * n + 2].kind = "body"
  <2>1. \A n \in Nat : 2 * (n + 1) = 2 * n + 2 /\ 2 * (n + 1) - 1 = 2 * n + 1
    OBVIOUS
  <2>2. QED BY <2>1 DEF InPlace
<1>8. P(m)
  BY <1>4, <1>5, <1>6, <1>7 DEF InPlace
<1>9. Intact(f) = CHOOSE n \in 0 .. Len(f) : P(n)
  BY DEF Intact
<1> HIDE DEF P
<1>10. Intact(f) \in 0 .. Len(f) /\ P(Intact(f))
  BY <1>4, <1>8, <1>9
<1>11. Intact(f) \in Nat
  BY <1>1, <1>10
<1>12. \A i \in 1 .. Intact(f) : InPlace(f, i)
  BY <1>10 DEF InPlace, P
<1>13. ~ InPlace(f, Intact(f) + 1)
  BY <1>7, <1>10, <1>11 DEF P
<1>14. 2 * Intact(f) <= Len(f)
  <2>1. CASE Intact(f) = 0
    BY <1>1, <2>1
  <2>2. CASE Intact(f) # 0
    <3>1. Intact(f) \in 1 .. Intact(f)
      BY <1>11, <2>2
    <3>2. QED BY <1>12, <3>1 DEF InPlace
  <2>3. QED BY <2>1, <2>2
<1>15. QED BY <1>11, <1>12, <1>13, <1>14

(* The parts of the file read_batch speaks of.                             *)
Parsed(f)  == [i \in 1 .. Intact(f) |-> f[2 * i].lsn]
Behind(f)  == SubSeq(f, 2 * Intact(f) + 1, Len(f))

(* Both lie in the file; what is parsed are LSNs up to m.                  *)
LEMMA ReadParts ==
  ASSUME NEW f \in Seq(Cell), NEW m \in Nat, Len(f) <= 2 * m,
         \A i \in 1 .. Len(f) : f[i].lsn <= m
  PROVE  /\ Parsed(f) \in Seq(0 .. m) /\ Len(Parsed(f)) = Intact(f)
         /\ Intact(f) <= m
         /\ Behind(f) # <<>> => Intact(f) < m
         /\ Behind(f) \in Seq(Cell)
         /\ Len(Behind(f)) = Len(f) - 2 * Intact(f)
         /\ \A i \in 1 .. Len(Behind(f)) : Behind(f)[i] = f[2 * Intact(f) + i]
<1> DEFINE n == Intact(f)
<1>1. n \in Nat /\ 2 * n <= Len(f) /\ Len(f) \in Nat
  BY IntactProperties
<1> HIDE DEF n
<1>2. ASSUME NEW i \in 1 .. n PROVE f[2 * i].lsn \in 0 .. m
  <2>1. 2 * i \in 1 .. Len(f)
    BY <1>1
  <2>2. f[2 * i] \in Cell /\ f[2 * i].lsn <= m
    BY <2>1
  <2>3. QED BY <2>2, WalConstants DEF Cell
<1>3. Parsed(f) \in Seq(0 .. m) /\ Len(Parsed(f)) = n
  BY <1>1, <1>2 DEF Parsed, n
<1>4. /\ Behind(f) \in Seq(Cell)
      /\ Len(Behind(f)) = Len(f) - 2 * n
      /\ \A i \in 1 .. Len(Behind(f)) : Behind(f)[i] = f[2 * n + i]
  <2>1. Behind(f) = SubSeq(f, 2 * n + 1, Len(f))
    BY DEF Behind, n
  <2>2. \A i \in 2 * n + 1 .. Len(f) : f[i] \in Cell
    BY <1>1
  <2>3. 2 * n + 1 \in Int /\ Len(f) \in Int
    BY <1>1
  <2>4. /\ Behind(f) \in Seq(Cell)
        /\ Len(Behind(f)) = IF 2 * n + 1 <= Len(f) THEN Len(f) - (2 * n + 1) + 1 ELSE 0
        /\ \A i \in 1 .. Len(f) - (2 * n + 1) + 1 : Behind(f)[i] = f[(2 * n + 1) + i - 1]
    BY <2>1, <2>2, <2>3, SubSeqProperties
  <2>5. Len(Behind(f)) = Len(f) - 2 * n
    <3>1. Len(Behind(f)) = IF 2 * n + 1 <= Len(f) THEN Len(f) - (2 * n + 1) + 1 ELSE 0
      BY <2>4
    <3>2. QED BY <1>1, <3>1, Halves
  <2>6. ASSUME NEW i \in 1 .. Len(Behind(f)) PROVE Behind(f)[i] = f[2 * n + i]
    <3>1. i \in 1 .. Len(f) - (2 * n + 1) + 1 /\ (2 * n + 1) + i - 1 = 2 * n + i
      BY <1>1, <2>5
    <3>2. QED BY <2>4, <3>1
  <2>7. QED BY <2>4, <2>5, <2>6
<1>5. Behind(f) # <<>> => n < m
  <2>1. ASSUME Behind(f) # <<>> PROVE n < m
    <3>1. Len(Behind(f)) > 0
      BY <1>4, <2>1
    <3>2. QED BY <1>1, <1>4, <3>1
  <2>2. QED BY <2>1
<1>6. QED BY <1>1, <1>3, <1>4, <1>5 DEF n

(* What read_batch may return: the entries parsed, at most one more made   *)
(* of foreign bytes, or an error.                                          *)
LEMMA ReadCases ==
  ASSUME NEW f, NEW r \in ReadResults(f)
  PROVE  \/ r = [ok |-> TRUE, batch |-> Parsed(f)]
         \/ r = [ok |-> FALSE, batch |-> <<>>]
         \/ /\ r = [ok |-> TRUE, batch |-> Append(Parsed(f), Garbled)]
            /\ Behind(f) # <<>>
<1> DEFINE rest == Behind(f)
<1>1. CASE rest = <<>>
  BY <1>1 DEF ReadResults, Parsed, Behind
<1>2. CASE rest # <<>>
  BY <1>2 DEF ReadResults, Parsed, Behind
<1>3. QED BY <1>1, <1>2

(* Its result is a batch of LSNs up to m, no more than m of them.          *)
LEMMA ReadTypes ==
  ASSUME NEW f \in Seq(Cell), NEW m \in Nat, Len(f) <= 2 * m,
         \A i \in 1 .. Len(f) : f[i].lsn <= m,
         NEW r \in ReadResults(f)
  PROVE  /\ r.ok \in BOOLEAN
         /\ r.batch \in Seq(0 .. m)
         /\ Len(r.batch) <= m
         /\ Elements(r.batch) \in SUBSET (0 .. m)
<1>1. r.ok \in BOOLEAN /\ r.batch \in Seq(0 .. m) /\ Len(r.batch) <= m
  <2>1. CASE r = [ok |-> TRUE, batch |-> Parsed(f)]
    BY <2>1, ReadParts
  <2>2. CASE r = [ok |-> FALSE, batch |-> <<>>]
    BY <2>2
  <2>3. CASE r = [ok |-> TRUE, batch |-> Append(Parsed(f), Garbled)] /\ Behind(f) # <<>>
    <3>1. Parsed(f) \in Seq(0 .. m) /\ Len(Parsed(f)) < m
      BY <2>3, ReadParts, IntactProperties
    <3>2. Garbled \in 0 .. m
      BY DEF Garbled
    <3>3. QED BY <2>3, <3>1, <3>2
  <2>4. QED BY <2>1, <2>2, <2>3, ReadCases
<1>2. Elements(r.batch) \in SUBSET (0 .. m)
  BY <1>1 DEF Elements
<1>3. QED BY <1>1, <1>2

-----------------------------------------------------------------------------
(* A file that nothing spoiled is read to its last entry, or not at all.   *)
LEMMA ReadEntries ==
  ASSUME NEW f \in Seq(Cell), NEW n \in Nat, EntriesAfter(f, n),
         NEW r \in ReadResults(f), r.ok
  PROVE  /\ Whole(f)
         /\ Len(f) = 2 * Len(r.batch)
         /\ \A i \in 1 .. Len(r.batch) : r.batch[i] = f[2 * i].lsn
<1> DEFINE k == Intact(f)
           rest == Behind(f)
<1>1. k \in Nat /\ 2 * k <= Len(f) /\ Len(f) \in Nat /\ ~ InPlace(f, k + 1)
      /\ \A i \in 1 .. k : InPlace(f, i)
  BY IntactProperties
<1>2. /\ rest \in Seq(Cell)
      /\ Len(rest) = Len(f) - 2 * k
      /\ \A i \in 1 .. Len(rest) : rest[i] = f[2 * k + i]
  <2>1. /\ Len(f) <= 2 * (Len(f) + MaxLsn) /\ Len(f) + MaxLsn \in Nat
        /\ \A i \in 1 .. Len(f) : f[i].lsn <= Len(f) + MaxLsn
    <3>1. \A i \in 1 .. Len(f) : f[i] \in Cell
      OBVIOUS
    <3>2. QED BY <1>1, <3>1, WalConstants DEF Cell
  <2>2. QED BY <2>1, ReadParts
<1>3. \A i \in 1 .. Len(f) : /\ i % 2 = 1 => f[i].kind = "len"
                             /\ i % 2 = 0 => \/ f[i].kind = "body"
                                             \/ i = Len(f) /\ f[i].kind = "cut"
  BY DEF EntriesAfter
<1> HIDE DEF k, rest
<1>4. PICK l \in Nat : l = Len(rest) /\ Len(f) = 2 * k + l
  <2>1. Len(f) - 2 * k \in Nat /\ Len(f) = 2 * k + (Len(f) - 2 * k)
    BY <1>1, Halves
  <2>2. QED BY <1>2, <2>1
<1>5. (l = 0 <=> rest = <<>>) /\ \A i \in 1 .. l : rest[i] = f[2 * k + i]
  BY <1>2, <1>4, EmptySeq
<1>6. CASE l = 0
  <2>1. Len(f) = 2 * k
    BY <1>1, <1>4, <1>6
  <2>2. r.batch = Parsed(f)
    BY <1>5, <1>6, ReadCases DEF rest
  <2>3. Len(r.batch) = k /\ \A i \in 1 .. k : r.batch[i] = f[2 * i].lsn
    BY <1>1, <2>2 DEF Parsed, k
  <2>4. Len(f) > 0 => f[Len(f)].kind = "body"
    <3>1. ASSUME Len(f) > 0 PROVE f[2 * k].kind = "body"
      <4>1. k \in 1 .. k
        BY <1>1, <2>1, <3>1
      <4>2. QED BY <1>1, <4>1 DEF InPlace
    <3>2. QED BY <2>1, <3>1
  <2>5. QED BY <1>1, <2>1, <2>3, <2>4 DEF Whole
<1>7. CASE l = 1
  <2>1. 2 * k + 1 \in 1 .. Len(f) /\ (2 * k + 1) % 2 = 1
    BY <1>1, <1>4, <1>7
  <2>2. rest[1] = f[2 * k + 1]
    BY <1>5, <1>7
  <2>3. rest[1].kind = "len"
    BY <1>3, <2>1, <2>2
  <2>4. Len(rest) = 1 /\ rest # <<>>
    BY <1>4, <1>5, <1>7
  <2>5. ReadResults(f) = {[ok |-> FALSE, batch |-> <<>>]}
    BY <2>3, <2>4 DEF ReadResults, rest, k, Behind
  <2>6. QED BY <2>5
<1>8. CASE l > 1
  <2>1. /\ 2 * k + 1 \in 1 .. Len(f) /\ (2 * k + 1) % 2 = 1
        /\ 2 * k + 2 \in 1 .. Len(f) /\ (2 * k + 2) % 2 = 0
    BY <1>1, <1>4, <1>8
  <2>2. rest[1] = f[2 * k + 1] /\ rest[2] = f[2 * k + 2]
    BY <1>5, <1>8
  <2>3. rest[1].kind = "len"
    BY <1>3, <2>1, <2>2
  <2>4. rest[2].kind # "body"
    <3>1. 2 * (k + 1) = 2 * k + 2 /\ 2 * (k + 1) - 1 = 2 * k + 1 /\ 2 * k + 2 <= Len(f)
      BY <1>1, <2>1
    <3>2. QED BY <1>1, <2>2, <2>3, <3>1 DEF InPlace
  <2>5. 2 * k + 2 = Len(f) /\ rest[2].kind = "cut"
    BY <1>3, <2>1, <2>2, <2>4
  <2>6. Len(rest) = 2 /\ rest # <<>>
    <3>1. PICK d \in Nat : d = 2 * k
      BY <1>1
    <3>2. d + 2 = d + l
      BY <1>4, <2>5, <3>1
    <3>3. l = 2
      BY <3>2
    <3>4. QED BY <1>4, <1>5, <3>3
  <2>7. ReadResults(f) = {[ok |-> FALSE, batch |-> <<>>]}
    BY <2>3, <2>5, <2>6 DEF ReadResults, rest, k, Behind
  <2>8. QED BY <2>7
<1>9. QED BY <1>6, <1>7, <1>8

(* A power loss that tears only bodies leaves such a file such a file.     *)
LEMMA TornEntries ==
  ASSUME Tears \subseteq {"cut"},
         NEW f \in Seq(Cell), NEW n \in Nat, EntriesAfter(f, n),
         NEW k \in 0 .. Len(f), NEW g \in TornAt(f, k)
  PROVE  EntriesAfter(g, n)
<1>1. /\ g \in Seq(Cell) /\ Len(g) \in Nat /\ Len(f) \in Nat /\ k \in Nat
      /\ k <= Len(g) /\ Len(g) <= Len(f) /\ Len(g) <= k + 1
      /\ \A i \in 1 .. k : g[i] = f[i]
      /\ \A i \in 1 .. Len(g) : g[i].lsn = f[i].lsn
      /\ Len(g) = k + 1 => /\ g[k + 1].kind = "cut"
                           /\ f[k + 1].kind = "body"
  <2>1. Len(f) \in Nat /\ k \in Nat
    OBVIOUS
  <2>2. /\ g \in Seq(Cell) /\ k <= Len(g) /\ Len(g) <= Len(f) /\ Len(g) <= k + 1
        /\ \A i \in 1 .. k : g[i] = f[i]
        /\ \A i \in 1 .. Len(g) : g[i].lsn = f[i].lsn
    BY TornCells
  <2>3. ASSUME Len(g) = k + 1 PROVE g[k + 1].kind = "cut" /\ f[k + 1].kind = "body"
    <3>1. /\ g[k + 1].kind \in Tears
          /\ f[k + 1].kind = "len" => g[k + 1].kind \in {"part", "zero"}
          /\ f[k + 1].kind \in {"body", "len"}
      BY <2>3, TornCells
    <3>2. g[k + 1].kind = "cut"
      BY <3>1
    <3>3. QED BY <3>1, <3>2
  <2>4. Len(g) \in Nat
    BY <2>2
  <2>5. QED BY <2>1, <2>2, <2>3, <2>4
<1>2. ASSUME NEW i \in 1 .. Len(g)
      PROVE  /\ g[i].lsn = n + (i + 1) \div 2
             /\ i % 2 = 1 => g[i].kind = "len"
             /\ i % 2 = 0 => \/ g[i].kind = "body"
                             \/ i = Len(g) /\ g[i].kind = "cut"
             /\ \E b \in batches : g[i].lsn \in b
  <2>1. i \in 1 .. Len(f) /\ g[i].lsn = f[i].lsn
    BY <1>1
  <2>2. /\ f[i].lsn = n + (i + 1) \div 2
        /\ i % 2 = 1 => f[i].kind = "len"
        /\ i % 2 = 0 => \/ f[i].kind = "body"
                        \/ i = Len(f) /\ f[i].kind = "cut"
        /\ \E b \in batches : f[i].lsn \in b
    BY <2>1 DEF EntriesAfter
  <2>3. CASE i <= k
    <3>1. g[i] = f[i]
      BY <1>1, <2>3
    <3>2. i = Len(f) => i = Len(g)
      BY <1>1, <2>3
    <3>3. QED BY <2>2, <3>1, <3>2
  <2>4. CASE ~ (i <= k)
    <3>1. i = k + 1 /\ i = Len(g)
      BY <1>1, <2>4
    <3>2. g[i].kind = "cut" /\ f[i].kind = "body"
      BY <1>1, <3>1
    <3>3. i % 2 # 1
      BY <2>2, <3>2
    <3>4. QED BY <2>1, <2>2, <3>1, <3>2, <3>3
  <2>5. QED BY <2>3, <2>4
<1>3. QED BY <1>2 DEF EntriesAfter

-----------------------------------------------------------------------------
(* Cells of the k entries after the last one. *)
NewCells(c, k) ==
  /\ c \in Seq(Cell)
  /\ Len(c) <= 2 * k
  /\ \A i \in 1 .. Len(c) : lsn < c[i].lsn /\ c[i].lsn <= lsn + k

(* The cells of a whole batch. *)
BatchLaidOut(c, k) ==
  /\ Len(c) = 2 * k
  /\ \A i \in 1 .. 2 * k :
       /\ c[i].lsn = lsn + (i + 1) \div 2
       /\ c[i].kind = IF i % 2 = 1 THEN "len" ELSE "body"

NextBatchIs(b, k) ==
  /\ lsn + k <= MaxLsn
  /\ Len(b) = k
  /\ Elements(b) = (lsn + 1) .. (lsn + k)
  /\ NewCells(Framed(b), k)
  /\ BatchLaidOut(Framed(b), k)

(* The next batch has the entries after the last one.                      *)
LEMMA NextBatch ==
  ASSUME lsn \in Nat, NEW b \in NextBatches, lsn + Len(b) <= MaxLsn
  PROVE  \E k \in Nat \ {0} : NextBatchIs(b, k)
<1>1. PICK k \in 1 .. MaxBatch : b = [i \in 1 .. k |-> lsn + i]
  BY DEF NextBatches
<1>2. k \in Nat \ {0} /\ Len(b) = k
  BY <1>1
<1>3. ASSUME NEW i \in 1 .. 2 * k
      PROVE  lsn < lsn + (i + 1) \div 2 /\ lsn + (i + 1) \div 2 <= lsn + k
  <2>1. (i + 1) \div 2 \in 1 .. k
    BY <1>2
  <2>2. QED BY <1>2, <2>1
<1>4. /\ lsn + k <= MaxLsn /\ lsn \in Nat /\ k \in Nat
  BY <1>2
<1>5. /\ Elements(b) = (lsn + 1) .. (lsn + k)
      /\ Framed(b) \in Seq(Cell)
      /\ BatchLaidOut(Framed(b), k)
  BY <1>1, <1>4, BatchCells DEF BatchLaidOut
<1>6. NewCells(Framed(b), k)
  <2>1. Len(Framed(b)) = 2 * k /\ 2 * k <= 2 * k
    BY <1>2, <1>5 DEF BatchLaidOut
  <2>2. ASSUME NEW i \in 1 .. 2 * k
        PROVE  lsn < Framed(b)[i].lsn /\ Framed(b)[i].lsn <= lsn + k
    <3>1. Framed(b)[i].lsn = lsn + (i + 1) \div 2
      BY <1>5 DEF BatchLaidOut
    <3>2. QED BY <1>3, <3>1
  <2>3. QED BY <1>5, <2>1, <2>2 DEF NewCells
<1>7. QED BY <1>2, <1>4, <1>5, <1>6 DEF NextBatchIs

(* A write that stops leaves some of them.                                 *)
LEMMA TornNewCells ==
  ASSUME NEW c, NEW k \in Nat, NewCells(c, k), Len(c) = 2 * k,
         NEW j \in 0 .. 2 * k, NEW d \in TornAt(c, j)
  PROVE  NewCells(d, k)
<1>1. c \in Seq(Cell) /\ j \in 0 .. Len(c)
  BY DEF NewCells
<1>2. /\ d \in Seq(Cell) /\ Len(d) <= Len(c)
      /\ \A i \in 1 .. Len(d) : d[i].lsn = c[i].lsn
  BY <1>1, TornCells
<1>3. Len(d) \in Nat /\ Len(c) \in Nat
  BY <1>1, <1>2
<1>4. ASSUME NEW i \in 1 .. Len(d) PROVE lsn < d[i].lsn /\ d[i].lsn <= lsn + k
  <2>1. i \in 1 .. Len(c)
    BY <1>2, <1>3
  <2>2. lsn < c[i].lsn /\ c[i].lsn <= lsn + k
    BY <2>1 DEF NewCells
  <2>3. QED BY <1>2, <2>2
<1>5. QED BY <1>2, <1>4 DEF NewCells

(* A log grows by cells of the next batch, all or some of them.            *)
LEMMA Appended ==
  ASSUME NEW f \in Seq(Cell), lsn \in Nat, Bounded(f), NEW k \in Nat,
         NEW c \in Seq(Cell), Len(c) <= 2 * k, \A i \in 1 .. Len(c) : c[i].lsn <= lsn + k
  PROVE  /\ f \o c \in Seq(Cell)
         /\ Len(f) <= Len(f \o c)
         /\ Len(f \o c) <= 2 * (lsn + k)
         /\ \A i \in 1 .. Len(f \o c) : (f \o c)[i].lsn <= lsn + k
<1>1. /\ f \o c \in Seq(Cell)
      /\ Len(f \o c) = Len(f) + Len(c)
      /\ \A i \in 1 .. Len(f) + Len(c) : (f \o c)[i] =
           IF i <= Len(f) THEN f[i] ELSE c[i - Len(f)]
  BY ConcatProperties
<1>2. Len(f) \in Nat /\ Len(c) \in Nat
  OBVIOUS
<1>3. Len(f) + Len(c) <= 2 * (lsn + k)
  <2>1. PICK x \in Nat, y \in Nat : x = 2 * lsn /\ y = 2 * k
    OBVIOUS
  <2>2. 2 * (lsn + k) = x + y
    BY <2>1
  <2>3. Len(f) <= x /\ Len(c) <= y
    BY <2>1 DEF Bounded
  <2>4. Len(f) + Len(c) <= x + y
    BY <1>2, <2>3
  <2>5. QED BY <2>2, <2>4
<1>4. ASSUME NEW i \in 1 .. Len(f) + Len(c) PROVE (f \o c)[i].lsn <= lsn + k
  <2>1. CASE i <= Len(f)
    <3>1. i \in 1 .. Len(f) /\ (f \o c)[i] = f[i]
      BY <1>1, <1>2, <2>1
    <3>2. f[i] \in Cell /\ f[i].lsn <= lsn
      BY <3>1 DEF Bounded
    <3>3. f[i].lsn \in Nat
      BY <3>2, WalConstants DEF Cell
    <3>4. QED BY <3>1, <3>2, <3>3, Later
  <2>2. CASE ~ (i <= Len(f))
    <3>1. i - Len(f) \in 1 .. Len(c) /\ (f \o c)[i] = c[i - Len(f)]
      BY <1>1, <1>2, <2>2
    <3>2. QED BY <3>1
  <2>3. QED BY <2>1, <2>2
<1>5. QED BY <1>1, <1>2, <1>3, <1>4

(* What the invariants say of files, as a fact about each.                 *)
LEMMA FileTypes ==
  ASSUME TypeInv
  PROVE  /\ file \in Seq(Cell) /\ Bounded(file)
         /\ \A f \in old : f \in Seq(Cell) /\ Bounded(f)
         /\ lsn \in Nat /\ lsn <= MaxLsn
         /\ flushed_lsn \in Nat /\ flushed_lsn <= lsn
         /\ entry_count \in Nat /\ entry_count <= lsn
         /\ durable \in Nat /\ durable <= Len(file)
         /\ Len(file) \in Nat
<1>1. TypeOK
  BY DEF TypeInv
<1>2. file \in Seq(Cell) /\ durable \in 0 .. Len(file) /\ old \in SUBSET Seq(Cell)
  BY <1>1 DEF TypeOK
<1>3. lsn \in 0 .. MaxLsn /\ flushed_lsn \in 0 .. MaxLsn /\ entry_count \in 0 .. MaxLsn
  BY <1>1 DEF TypeOK
<1>4. Bounded(file) /\ (\A f \in old : Bounded(f)) /\ flushed_lsn <= lsn /\ entry_count <= lsn
  BY DEF TypeInv
<1>5. QED BY <1>2, <1>3, <1>4, WalConstants

(* The file a truncation leaves.                                           *)
LEMMA EmptyFile ==
  ASSUME lsn \in Nat
  PROVE  <<>> \in Seq(Cell) /\ Len(<<>>) = 0 /\ Bounded(<<>>)
<1>1. <<>> \in Seq(Cell) /\ Len(<<>>) = 0
  OBVIOUS
<1>2. QED BY <1>1 DEF Bounded

(* The batch that is being written is the one with the last LSN.           *)
LEMMA LastBatch ==
  ASSUME TypeInv, NEW k \in 0 .. lsn, k < lsn, WritingFrom(k)
  PROVE  /\ (CHOOSE b \in batches : lsn \in b) = (k + 1) .. lsn
         /\ Highest((k + 1) .. lsn) = lsn
         /\ Cardinality((k + 1) .. lsn) = lsn - k
         /\ (k + 1) .. lsn \in SUBSET (1 .. MaxLsn)
<1>1. lsn \in Nat /\ lsn <= MaxLsn /\ k \in Nat
  BY FileTypes
<1>2. lsn \in (k + 1) .. lsn /\ (k + 1) .. lsn \in batches
  BY <1>1 DEF WritingFrom
<1>3. \A b \in batches : lsn \in b => b = (k + 1) .. lsn
  <2>1. lsn \notin 1 .. k
    BY <1>1
  <2>2. QED BY <2>1 DEF WritingFrom
<1>4. (CHOOSE b \in batches : lsn \in b) = (k + 1) .. lsn
  BY <1>2, <1>3
<1>5. Cardinality((k + 1) .. lsn) = lsn - k
  <2>1. k + 1 \in Int /\ lsn \in Int /\ ~ (k + 1 > lsn) /\ lsn - (k + 1) + 1 = lsn - k
    BY <1>1
  <2>2. Cardinality((k + 1) .. lsn) = IF k + 1 > lsn THEN 0 ELSE lsn - (k + 1) + 1
    BY <2>1, FS_Interval
  <2>3. QED BY <2>1, <2>2
<1>6. (k + 1) .. lsn \in SUBSET (1 .. MaxLsn)
  <2>1. ASSUME NEW x \in (k + 1) .. lsn PROVE x \in 1 .. MaxLsn
    BY <1>1, WalConstants
  <2>2. QED BY <2>1
<1>7. QED BY <1>1, <1>4, <1>5, <1>6, HighestOfInterval

(* Batches and the counters that go with them.                             *)
LEMMA TypeWriteBatch ==
  ASSUME TypeInv, WriteBatch \/ WriteBatchFails
  PROVE  TypeInv'
<1>1. PICK b \in NextBatches :
        /\ lsn + Len(b) <= MaxLsn
        /\ lsn' = lsn + Len(b)
        /\ batches' = batches \cup {Elements(b)}
        /\ \/ file' = file \o Framed(b)
           \/ \E j \in 0 .. 2 * Len(b) : \E cells \in TornAt(Framed(b), j) : file' = file \o cells
  BY DEF WriteBatch, WriteBatchFails
<1>2. /\ UNCHANGED <<durable, old, flushed_lsn, entry_count, found, acked, missed, crashes>>
      /\ mode = "running"
      /\ \/ mode' = "writing" /\ spoiled' = spoiled
         \/ mode' = "running" /\ spoiled' = TRUE
  BY DEF WriteBatch, WriteBatchFails, memVars
<1>3. lsn \in Nat /\ lsn <= MaxLsn /\ file \in Seq(Cell) /\ Bounded(file)
  BY FileTypes
<1>4. PICK k \in Nat \ {0} : NextBatchIs(b, k)
  BY <1>1, <1>3, NextBatch
<1>5. lsn' = lsn + k /\ lsn + k <= MaxLsn
  BY <1>1, <1>4 DEF NextBatchIs
<1>6. PICK c : NewCells(c, k) /\ file' = file \o c
  <2>1. Len(b) = k /\ NewCells(Framed(b), k) /\ Len(Framed(b)) = 2 * k
    BY <1>4 DEF NextBatchIs, BatchLaidOut
  <2>2. CASE file' = file \o Framed(b)
    BY <2>1, <2>2
  <2>3. ASSUME NEW j \in 0 .. 2 * Len(b), NEW d \in TornAt(Framed(b), j), file' = file \o d
        PROVE  NewCells(d, k)
    BY <1>3, <2>1, <2>3, TornNewCells
  <2>4. QED BY <1>1, <2>2, <2>3
<1>7. file' \in Seq(Cell) /\ Len(file) <= Len(file') /\ Bounded(file)'
  <2>1. /\ file' \in Seq(Cell)
        /\ Len(file) <= Len(file')
        /\ Len(file') <= 2 * (lsn + k)
        /\ \A i \in 1 .. Len(file') : file'[i].lsn <= lsn + k
    BY <1>3, <1>6, Appended DEF NewCells
  <2>2. QED BY <1>5, <2>1 DEF Bounded
<1>8. \A f \in old' : Bounded(f)'
  <2>1. ASSUME NEW f \in old PROVE Len(f) <= 2 * lsn' /\ \A i \in 1 .. Len(f) : f[i].lsn <= lsn'
    <3>1. f \in Seq(Cell) /\ Bounded(f)
      BY FileTypes
    <3>2. \A i \in 1 .. Len(<<>>) : <<>>[i].lsn <= lsn + k
      OBVIOUS
    <3>3. Len(f) <= 2 * lsn /\ \A i \in 1 .. Len(f) : f[i].lsn <= lsn /\ f[i] \in Cell
      BY <3>1 DEF Bounded
    <3>4. \A i \in 1 .. Len(f) : f[i].lsn <= lsn'
      BY <1>3, <1>5, <3>3, WalConstants DEF Cell
    <3>5. Len(f) <= 2 * lsn'
      <4>1. PICK x \in Nat, y \in Nat : x = 2 * lsn /\ y = 2 * lsn' /\ x <= y
        BY <1>3, <1>5
      <4>2. QED BY <3>1, <3>3, <4>1
    <3>6. QED BY <3>4, <3>5
  <2>2. QED BY <1>2, <2>1 DEF Bounded
<1>9. Elements(b) = (lsn + 1) .. lsn'
  BY <1>4, <1>5 DEF NextBatchIs
<1>10. \A d \in batches' : d \subseteq 1 .. lsn'
  <2>1. \A d \in batches : d \subseteq 1 .. lsn
    BY DEF TypeInv
  <2>2. QED BY <1>1, <1>3, <1>5, <1>9, <2>1
<1>11. lsn' \in Nat /\ lsn \in 0 .. lsn' /\ lsn < lsn'
  BY <1>3, <1>5
<1>12. /\ (lsn + 1) .. lsn' \in batches'
       /\ \A d \in batches' : d = (lsn + 1) .. lsn' \/ d \subseteq 1 .. lsn
       /\ entry_count' <= lsn
       /\ flushed_lsn' <= lsn
  <2>1. (lsn + 1) .. lsn' \in batches'
    BY <1>1, <1>9
  <2>2. \A d \in batches' : d = (lsn + 1) .. lsn' \/ d \subseteq 1 .. lsn
    BY <1>1, <1>9 DEF TypeInv
  <2>3. QED BY <1>2, <2>1, <2>2, FileTypes
<1>13. \E n \in 0 .. lsn' : n < lsn' /\ WritingFrom(n)'
  BY <1>11, <1>12 DEF WritingFrom
<1>14. TypeOK'
  <2>1. TypeOK
    BY DEF TypeInv
  <2>2. durable' \in 0 .. Len(file')
    BY <1>2, <1>7, FileTypes
  <2>3. lsn' \in 0 .. MaxLsn
    BY <1>5, <1>11
  <2>4. batches' \in SUBSET SUBSET (1 .. MaxLsn)
    <3>1. \A x \in 1 .. lsn' : x \in 1 .. MaxLsn
      BY <1>5, <1>11, WalConstants
    <3>2. QED BY <1>10, <3>1
  <2>5. mode' \in {"running", "writing"} /\ spoiled' \in BOOLEAN
    BY <1>2, <2>1 DEF TypeOK
  <2>6. QED BY <1>2, <1>7, <2>1, <2>2, <2>3, <2>4, <2>5 DEF TypeOK
<1>15. flushed_lsn' <= lsn' /\ entry_count' <= lsn'
  BY <1>2, <1>3, <1>5, FileTypes
<1>16. \A f \in {file'} \cup old' : Bounded(f)'
  BY <1>7, <1>8 DEF Bounded
<1>17. QED
  BY <1>7, <1>8, <1>10, <1>13, <1>14, <1>15, <1>16 DEF TypeInv, Bounded

(* Any other step leaves the batches; what it makes of files and counters  *)
(* must fit the last LSN.                                                  *)
LEMMA TypeKept ==
  ASSUME TypeInv, UNCHANGED <<lsn, batches>>,
         mode' \in {"running", "down", "replayed", "truncated", "failed"},
         file' \in Seq(Cell), Bounded(file'), durable' \in 0 .. Len(file'),
         \A f \in old' : f \in Seq(Cell) /\ Bounded(f),
         flushed_lsn' \in 0 .. lsn, entry_count' \in 0 .. lsn,
         found' \in Seq(0 .. MaxLsn),
         acked' \in SUBSET (1 .. MaxLsn), missed' \in SUBSET (1 .. MaxLsn),
         spoiled' \in BOOLEAN, crashes' \in 0 .. MaxCrashes
  PROVE  TypeInv'
<1>1. TypeOK /\ lsn \in Nat /\ lsn <= MaxLsn
  BY FileTypes DEF TypeInv
<1>2. flushed_lsn' \in 0 .. MaxLsn /\ entry_count' \in 0 .. MaxLsn
      /\ flushed_lsn' <= lsn /\ entry_count' <= lsn
  BY <1>1, WalConstants
<1>3. TypeOK'
  BY <1>1, <1>2 DEF TypeOK
<1>4. \A f \in {file'} \cup old' : Bounded(f)'
  BY DEF Bounded
<1>5. \A b \in batches' : b \subseteq 1 .. lsn'
  BY DEF TypeInv
<1>6. mode' # "writing"
  OBVIOUS
<1>7. QED BY <1>2, <1>3, <1>4, <1>5, <1>6 DEF TypeInv, Bounded

(* A batch is counted once, so that no counter passes the last LSN.        *)
LEMMA TypeWriteBatchEnd ==
  ASSUME TypeInv, WriteBatchEnd
  PROVE  TypeInv'
<1>1. PICK k \in 0 .. lsn : k < lsn /\ WritingFrom(k)
  BY DEF WriteBatchEnd, TypeInv
<1>2. /\ durable' \in {durable, Len(file)}
      /\ old' \in {old, {}}
      /\ acked' \in {acked, acked \cup ((k + 1) .. lsn)}
      /\ flushed_lsn' = lsn
      /\ entry_count' = entry_count + (lsn - k)
      /\ mode' = "running"
      /\ UNCHANGED <<file, lsn, found, batches, missed, spoiled, crashes>>
  BY <1>1, LastBatch DEF WriteBatchEnd
<1>3. TypeOK /\ lsn \in Nat /\ k \in Nat /\ entry_count \in Nat /\ entry_count <= k /\ k < lsn
  BY <1>1, FileTypes DEF TypeInv, WritingFrom
<1>4. flushed_lsn' \in 0 .. lsn /\ entry_count' \in 0 .. lsn
  BY <1>2, <1>3
<1>5. durable' \in 0 .. Len(file')
  BY <1>2, FileTypes
<1>6. acked' \in SUBSET (1 .. MaxLsn)
  BY <1>1, <1>2, <1>3, LastBatch DEF TypeOK
<1>7. file' \in Seq(Cell) /\ Bounded(file') /\ \A f \in old' : f \in Seq(Cell) /\ Bounded(f)
  BY <1>2, FileTypes
<1>8. QED BY <1>2, <1>3, <1>4, <1>5, <1>6, <1>7, TypeKept DEF TypeOK

(* Synchronisation, truncation, the ends of recovery and of the program.   *)
LEMMA TypeOther ==
  ASSUME TypeInv,
         \/ \E l \in 1 .. lsn : FlushUpto(l)
         \/ SyncFile \/ Truncate \/ TruncateFails
         \/ RecoverTruncate \/ RecoverSync \/ RecoverFails
         \/ Stop
  PROVE  TypeInv'
<1>1. /\ TypeOK
      /\ file \in Seq(Cell) /\ Bounded(file)
      /\ \A f \in old : f \in Seq(Cell) /\ Bounded(f)
      /\ lsn \in Nat
      /\ flushed_lsn \in 0 .. lsn /\ entry_count \in 0 .. lsn
      /\ durable \in 0 .. Len(file) /\ Len(file) \in 0 .. Len(file)
      /\ 0 \in 0 .. lsn
  BY FileTypes DEF TypeInv
<1>2. <<>> \in Seq(Cell) /\ Bounded(<<>>) /\ 0 \in 0 .. Len(<<>>)
  BY <1>1, EmptyFile
<1>3. <<>> \in Seq(0 .. MaxLsn) /\ {} \in SUBSET (1 .. MaxLsn)
  OBVIOUS
<1>4. ASSUME NEW l \in 1 .. lsn, FlushUpto(l) PROVE TypeInv'
  <2>1. l \in 0 .. lsn
    BY <1>1
  <2>2. QED BY <1>1, <1>4, <2>1, TypeKept DEF FlushUpto, histVars, TypeOK
<1>5. CASE SyncFile
  BY <1>1, <1>5, TypeKept DEF SyncFile, memVars, histVars, TypeOK
<1>6. CASE Truncate
  BY <1>1, <1>2, <1>3, <1>6, WalConstants, TypeKept DEF Truncate, Truncated, TypeOK
<1>7. CASE TruncateFails
  BY <1>1, <1>2, <1>3, <1>7, TypeKept DEF TruncateFails, memVars, TypeOK
<1>8. CASE RecoverTruncate
  BY <1>1, <1>2, <1>3, <1>8, TypeKept DEF RecoverTruncate, Truncated, TypeOK
<1>9. CASE RecoverSync
  BY <1>1, <1>9, TypeKept DEF RecoverSync, memVars, TypeOK
<1>10. CASE RecoverFails
  BY <1>1, <1>10, TypeKept DEF RecoverFails, logVars, memVars, histVars, TypeOK
<1>11. CASE Stop
  <2>1. crashes' \in 0 .. MaxCrashes
    BY <1>1, <1>11, WalConstants DEF Stop, TypeOK
  <2>2. QED BY <1>1, <1>3, <1>11, <2>1, TypeKept DEF Stop, logVars, histVars, TypeOK
<1>12. QED BY <1>4, <1>5, <1>6, <1>7, <1>8, <1>9, <1>10, <1>11

(* What a power loss leaves of a log is no longer and no newer.            *)
LEMMA TornBounded ==
  ASSUME lsn \in Nat, NEW f \in Seq(Cell), Bounded(f),
         NEW k \in 0 .. Len(f), NEW g \in TornAt(f, k)
  PROVE  g \in Seq(Cell) /\ Bounded(g)
<1>1. /\ g \in Seq(Cell) /\ Len(g) <= Len(f)
      /\ \A i \in 1 .. Len(g) : g[i].lsn = f[i].lsn
  BY TornCells
<1>2. Len(f) \in Nat /\ Len(g) \in Nat
  BY <1>1
<1>3. \A i \in 1 .. Len(g) : g[i].lsn <= lsn
  BY <1>1, <1>2 DEF Bounded
<1>4. Len(g) <= 2 * lsn
  <2>1. PICK x \in Nat : x = 2 * lsn
    OBVIOUS
  <2>2. Len(f) <= x
    BY <2>1 DEF Bounded
  <2>3. Len(g) <= x
    BY <1>1, <1>2, <2>2
  <2>4. QED BY <2>1, <2>3
<1>5. QED BY <1>1, <1>3, <1>4 DEF Bounded

(* A power loss leaves a file of the same kind and resets the counters.    *)
LEMMA TypeCrash ==
  ASSUME TypeInv, Crash
  PROVE  TypeInv'
<1>1. /\ file \in Seq(Cell) /\ Bounded(file) /\ lsn \in Nat /\ TypeOK
      /\ \A f \in old : f \in Seq(Cell) /\ Bounded(f)
      /\ durable \in Nat /\ Len(file) \in Nat
  BY FileTypes DEF TypeInv
<1>2. file' \in Seq(Cell) /\ Bounded(file')
  <2>1. ASSUME NEW k \in durable .. Len(file), file' \in TornAt(file, k)
        PROVE  file' \in Seq(Cell) /\ Bounded(file')
    <3>1. k \in 0 .. Len(file)
      BY <1>1
    <3>2. QED BY <1>1, <2>1, <3>1, TornBounded
  <2>2. CASE file' \in old
    BY <1>1, <2>2
  <2>3. QED BY <2>1, <2>2 DEF Crash
<1>3. durable' \in 0 .. Len(file') /\ 0 \in 0 .. lsn
  BY <1>1, <1>2 DEF Crash
<1>4. crashes' \in 0 .. MaxCrashes
  BY <1>1, WalConstants DEF Crash, TypeOK
<1>5. /\ old' = {} /\ flushed_lsn' = 0 /\ entry_count' = 0 /\ mode' = "down" /\ found' = <<>>
      /\ UNCHANGED <<lsn, batches, acked, missed, spoiled>>
  BY DEF Crash, histVars
<1>6. <<>> \in Seq(0 .. MaxLsn)
  OBVIOUS
<1>7. QED BY <1>1, <1>2, <1>3, <1>4, <1>5, <1>6, TypeKept DEF TypeOK

(* Recovery takes its counters from what it read, which is no more than    *)
(* was logged, even when bytes decode by chance.                           *)
LEMMA TypeRecover ==
  ASSUME TypeInv, Recover
  PROVE  TypeInv'
<1>1. /\ file \in Seq(Cell) /\ Bounded(file) /\ lsn \in Nat /\ lsn <= MaxLsn /\ TypeOK
      /\ \A f \in old : f \in Seq(Cell) /\ Bounded(f)
      /\ flushed_lsn \in 0 .. lsn /\ entry_count \in 0 .. lsn
  BY FileTypes DEF TypeInv
<1>2. PICK r \in ReadResults(file) :
        /\ found' = r.batch
        /\ IF r.ok
           THEN /\ mode' = IF r.batch = <<>> THEN "running" ELSE "replayed"
                /\ missed' = acked \ Elements(r.batch)
                /\ flushed_lsn' = Highest(Elements(r.batch))
                /\ entry_count' = Len(r.batch)
           ELSE /\ mode' = "failed"
                /\ UNCHANGED <<missed, memVars>>
  BY DEF Recover
<1>3. /\ r.ok \in BOOLEAN /\ r.batch \in Seq(0 .. lsn) /\ Len(r.batch) <= lsn
      /\ Elements(r.batch) \in SUBSET (0 .. lsn)
  BY <1>1, ReadTypes DEF Bounded
<1>4. UNCHANGED <<file, durable, old, lsn, batches, acked, spoiled, crashes>>
  BY DEF Recover, logVars
<1>5. found' \in Seq(0 .. MaxLsn)
  <2>1. lsn \in Nat /\ MaxLsn \in Nat /\ lsn <= MaxLsn /\ r.batch \in Seq(0 .. lsn)
    BY <1>1, <1>3, WalConstants
  <2>2. QED BY <1>2, <2>1, Lsns
<1>6. /\ flushed_lsn' \in 0 .. lsn /\ entry_count' \in 0 .. lsn
      /\ missed' \in SUBSET (1 .. MaxLsn)
      /\ mode' \in {"running", "replayed", "failed"}
  <2>1. CASE r.ok
    <3>1. Highest(Elements(r.batch)) \in 0 .. lsn
      BY <1>1, <1>3, HighestType
    <3>2. Len(r.batch) \in 0 .. lsn
      BY <1>3
    <3>3. QED BY <1>1, <1>2, <2>1, <3>1, <3>2 DEF TypeOK
  <2>2. CASE ~ r.ok
    BY <1>1, <1>2, <2>2 DEF memVars, TypeOK
  <2>3. QED BY <2>1, <2>2
<1>7. QED BY <1>1, <1>4, <1>5, <1>6, TypeKept DEF TypeOK

(* Every step keeps the types.                                             *)
LEMMA TypeStep ==
  ASSUME TypeInv, [Next]_vars
  PROVE  TypeInv'
<1>1. CASE UNCHANGED vars
  BY <1>1 DEF vars, logVars, memVars, histVars, TypeInv, TypeOK, Bounded, WritingFrom
<1>2. CASE Next
  BY <1>2, TypeWriteBatch, TypeWriteBatchEnd, TypeOther, TypeCrash, TypeRecover DEF Next
<1>3. QED BY <1>1, <1>2

(* The empty log has the types.                                            *)
LEMMA TypeInit == Init => TypeInv
<1> SUFFICES ASSUME Init PROVE TypeInv
  OBVIOUS
<1>1. <<>> \in Seq(Cell) /\ <<>> \in Seq(0 .. MaxLsn) /\ Len(<<>>) = 0 /\ Bounded(<<>>)
  BY EmptyFile DEF Init
<1>2. file \in Seq(Cell) /\ durable \in 0 .. Len(file) /\ Bounded(file) /\ old = {}
  BY <1>1 DEF Init
<1>3. flushed_lsn \in 0 .. MaxLsn /\ entry_count \in 0 .. MaxLsn /\ lsn \in 0 .. MaxLsn
  BY WalConstants DEF Init
<1>4. crashes \in 0 .. MaxCrashes /\ found \in Seq(0 .. MaxLsn)
  BY <1>1, WalConstants DEF Init
<1>5. batches = {} /\ acked = {} /\ missed = {} /\ mode = "running" /\ spoiled = FALSE
  BY DEF Init
<1>6. TypeOK
  BY <1>2, <1>3, <1>4, <1>5 DEF TypeOK
<1>7. flushed_lsn <= lsn /\ entry_count <= lsn
  BY DEF Init
<1>8. QED BY <1>2, <1>5, <1>6, <1>7 DEF TypeInv

(* Whatever fails, and wherever a power loss tears the file, the counters  *)
(* stay with the entries that were written and what recovery returns are   *)
(* LSNs of the log.                                                        *)
THEOREM TypeCorrect == Spec => []TypeOK
<1>1. TypeInv /\ [Next]_vars => TypeInv'
  BY TypeStep
<1>2. TypeInv => TypeOK
  BY DEF TypeInv
<1>3. QED BY <1>1, <1>2, TypeInit, PTL DEF Spec


-----------------------------------------------------------------------------
(* A batch appended leaves the cells in front of it and adds newer ones.   *)
LEMMA WriteAppends ==
  ASSUME TypeInv, WriteBatch \/ WriteBatchFails
  PROVE  \E k \in Nat \ {0}, c \in Seq(Cell) :
           /\ NewCells(c, k)
           /\ WriteBatch => BatchLaidOut(c, k)
           /\ file' = file \o c
           /\ lsn' = lsn + k
           /\ batches' = batches \cup {(lsn + 1) .. (lsn + k)}
<1>1. lsn \in Nat
  BY FileTypes
<1>2. CASE WriteBatch
  <2>1. PICK b \in NextBatches :
          /\ lsn + Len(b) <= MaxLsn /\ lsn' = lsn + Len(b)
          /\ file' = file \o Framed(b) /\ batches' = batches \cup {Elements(b)}
    BY <1>2 DEF WriteBatch
  <2>2. PICK k \in Nat \ {0} : NextBatchIs(b, k)
    BY <1>1, <2>1, NextBatch
  <2>3. /\ Framed(b) \in Seq(Cell) /\ NewCells(Framed(b), k) /\ BatchLaidOut(Framed(b), k)
        /\ Len(b) = k /\ Elements(b) = (lsn + 1) .. (lsn + k)
    BY <2>2 DEF NextBatchIs, NewCells
  <2>4. QED BY <2>1, <2>3
<1>3. CASE WriteBatchFails /\ ~ WriteBatch
  <2>1. PICK b \in NextBatches :
          /\ lsn + Len(b) <= MaxLsn /\ lsn' = lsn + Len(b)
          /\ \E j \in 0 .. 2 * Len(b) : \E cells \in TornAt(Framed(b), j) : file' = file \o cells
          /\ batches' = batches \cup {Elements(b)}
    BY <1>3 DEF WriteBatchFails
  <2>2. PICK k \in Nat \ {0} : NextBatchIs(b, k)
    BY <1>1, <2>1, NextBatch
  <2>3. /\ NewCells(Framed(b), k) /\ Len(Framed(b)) = 2 * k
        /\ Len(b) = k /\ Elements(b) = (lsn + 1) .. (lsn + k)
    BY <2>2 DEF NextBatchIs, BatchLaidOut
  <2>4. PICK j \in 0 .. 2 * k : \E cells \in TornAt(Framed(b), j) : file' = file \o cells
    BY <2>1, <2>3
  <2>5. PICK d \in TornAt(Framed(b), j) : file' = file \o d
    BY <2>4
  <2>6. NewCells(d, k) /\ d \in Seq(Cell)
    <3>1. NewCells(d, k)
      BY <1>1, <2>3, TornNewCells
    <3>2. QED BY <3>1 DEF NewCells
  <2>7. QED BY <1>3, <2>1, <2>3, <2>5, <2>6
<1>4. QED BY <1>2, <1>3

(* Where a cell of the longer file comes from. *)
LEMMA AppendedCell ==
  ASSUME NEW f \in Seq(Cell), NEW c \in Seq(Cell), NEW i \in 1 .. Len(f \o c)
  PROVE  \/ i \in 1 .. Len(f) /\ (f \o c)[i] = f[i]
         \/ i - Len(f) \in 1 .. Len(c) /\ (f \o c)[i] = c[i - Len(f)]
<1>1. /\ Len(f \o c) = Len(f) + Len(c)
      /\ \A j \in 1 .. Len(f) + Len(c) : (f \o c)[j] =
           IF j <= Len(f) THEN f[j] ELSE c[j - Len(f)]
  BY ConcatProperties
<1>2. Len(f) \in Nat /\ Len(c) \in Nat
  OBVIOUS
<1>3. QED BY <1>1, <1>2

(* The cells in front of what is appended stay.                            *)
LEMMA AppendedInFront ==
  ASSUME NEW f \in Seq(Cell), NEW c \in Seq(Cell), NEW d \in Nat, d <= Len(f),
         NEW i \in 1 .. d
  PROVE  (f \o c)[i] = f[i]
<1>1. i \in 1 .. Len(f) + Len(c) /\ i <= Len(f)
  OBVIOUS
<1>2. QED BY <1>1, ConcatProperties

(* Every step keeps what flushed_lsn covers durable.                       *)
LEMMA DurableStep ==
  ASSUME Sync, TypeInv, DurableInv, [Next]_vars
  PROVE  DurableInv'
<1>1. /\ file \in Seq(Cell) /\ Len(file) \in Nat /\ lsn \in Nat
      /\ flushed_lsn \in Nat /\ flushed_lsn <= lsn
  BY FileTypes
<1>2. CASE WriteBatch \/ WriteBatchFails
  <2>1. PICK k \in Nat \ {0}, c \in Seq(Cell) : NewCells(c, k) /\ file' = file \o c
    BY <1>2, WriteAppends
  <2>2. UNCHANGED <<durable, flushed_lsn>> /\ mode = "running"
    BY <1>2 DEF WriteBatch, WriteBatchFails, memVars
  <2>3. ASSUME NEW i \in 1 .. Len(file'), file'[i].lsn \in 1 .. flushed_lsn
        PROVE  i <= durable
    <3>1. CASE i \in 1 .. Len(file) /\ file'[i] = file[i]
      BY <2>2, <2>3, <3>1 DEF DurableInv, Covered
    <3>2. CASE i - Len(file) \in 1 .. Len(c) /\ file'[i] = c[i - Len(file)]
      <4>1. lsn < file'[i].lsn /\ file'[i].lsn \in Nat
        <5>1. c[i - Len(file)] \in Cell
          BY <3>2
        <5>2. QED BY <2>1, <3>2, <5>1, WalConstants DEF NewCells, Cell
      <4>2. QED BY <1>1, <2>3, <4>1
    <3>3. QED BY <1>1, <2>1, <3>1, <3>2, AppendedCell
  <2>4. QED BY <2>2, <2>3 DEF DurableInv, Covered
<1>3. CASE WriteBatchEnd \/ SyncFile \/ \E l \in 1 .. lsn : FlushUpto(l)
  <2>1. file' = file /\ durable' = Len(file)
    BY <1>3 DEF WriteBatchEnd, SyncFile, FlushUpto
  <2>2. QED BY <1>1, <2>1 DEF DurableInv, Covered
<1>4. CASE Truncate \/ TruncateFails \/ RecoverTruncate
  <2>1. file' = <<>>
    BY <1>4 DEF Truncate, TruncateFails, RecoverTruncate, Truncated
  <2>2. QED BY <2>1 DEF DurableInv, Covered
<1>5. CASE Crash \/ Stop \/ RecoverFails
  <2>1. mode' \in {"down", "failed"}
    BY <1>5 DEF Crash, Stop, RecoverFails
  <2>2. QED BY <2>1 DEF DurableInv
<1>6. CASE Recover
  <2>1. mode' = "running" => flushed_lsn' = 0
    <3>1. Highest(Elements(<<>>)) = 0
      BY DEF Highest, Elements
    <3>2. QED BY <1>6, <3>1 DEF Recover
  <2>2. mode' \in {"running", "replayed", "failed"}
    BY <1>6 DEF Recover
  <2>3. QED BY <2>1, <2>2 DEF DurableInv, Covered
<1>7. CASE RecoverSync \/ UNCHANGED vars
  <2>1. /\ UNCHANGED <<file, durable, flushed_lsn>>
        /\ mode = "truncated" \/ mode' = mode
    BY <1>7 DEF RecoverSync, vars, logVars, memVars
  <2>2. QED BY <2>1 DEF DurableInv, Covered
<1>8. QED BY <1>2, <1>3, <1>4, <1>5, <1>6, <1>7 DEF Next

(* With sync on, what flushed_lsn covers while the engine runs is durable: *)
(* between the append and the fsync of a batch, after a write or a         *)
(* truncation that failed, and after the program or the machine stopped at *)
(* any point.                                                              *)
THEOREM FlushedIsDurable ==
  ASSUME Sync
  PROVE  Spec => []FlushedLsnIsDurable
<1>1. Init => DurableInv
  <2>1. Len(<<>>) = 0
    OBVIOUS
  <2>2. QED BY <2>1 DEF Init, DurableInv, Covered
<1>2. TypeInv /\ DurableInv /\ [Next]_vars => TypeInv' /\ DurableInv'
  BY TypeStep, DurableStep
<1>3. DurableInv => FlushedLsnIsDurable
  BY DEF DurableInv, Covered, FlushedLsnIsDurable
<1>4. QED BY <1>1, <1>2, <1>3, TypeInit, PTL DEF Spec

-----------------------------------------------------------------------------
(* The cells of the j-th entry, and the entry of the i-th cell.            *)
LEMMA CellNumbers ==
  ASSUME NEW j \in Nat
  PROVE  /\ (2 * j) % 2 = 0 /\ (2 * j) \div 2 = j
         /\ (2 * j + 1) % 2 = 1 /\ (2 * j + 1) \div 2 = j
OBVIOUS

(* Every cell is the first or the second of an entry.                      *)
LEMMA EvenOrOdd ==
  ASSUME NEW i \in Nat
  PROVE  /\ i % 2 = 0 => \E j \in Nat : i = 2 * j
         /\ i % 2 # 0 => i % 2 = 1
<1>1. i % 2 = 0 => i = 2 * (i \div 2) /\ i \div 2 \in Nat
  OBVIOUS
<1>2. i % 2 # 0 => i % 2 = 1
  OBVIOUS
<1>3. QED BY <1>1, <1>2

(* Behind m entries, the cells of the next batch continue the numbering.   *)
LEMMA NextNumbers ==
  ASSUME NEW m \in Nat, NEW i \in Nat, NEW l \in Nat, l = 2 * m, i > l
  PROVE  /\ (i + 1) \div 2 = m + (i - l + 1) \div 2
         /\ i % 2 = (i - l) % 2
OBVIOUS

(* The length of m entries and k more.                                     *)
LEMMA SumOfHalves ==
  ASSUME NEW m \in Nat, NEW k \in Nat, NEW l \in Nat, NEW c \in Nat, l = 2 * m, c = 2 * k
  PROVE  l + c = 2 * (m + k)
OBVIOUS

(* A whole file has the m entries after LSN n, each of them in place.      *)
HasEntries(f, n, m) ==
  /\ Len(f) = 2 * m /\ Len(f) \div 2 = m
  /\ \A j \in 1 .. m : /\ 2 * j \in 1 .. Len(f)
                       /\ f[2 * j].kind = "body"
                       /\ f[2 * j].lsn = n + j
                       /\ \E b \in batches : n + j \in b

(* A log whose last entry is not cut short is such a file.                 *)
LEMMA WholeEntries ==
  ASSUME NEW f \in Seq(Cell), NEW n \in Nat, EntriesAfter(f, n), Whole(f)
  PROVE  \E m \in Nat : HasEntries(f, n, m)
<1>1. PICK l \in Nat : l = Len(f)
  OBVIOUS
<1>2. PICK m \in Nat : l = 2 * m
  BY <1>1, EvenOrOdd DEF Whole
<1>3. l \div 2 = m
  BY <1>2, CellNumbers
<1>4. ASSUME NEW j \in 1 .. m
      PROVE  /\ 2 * j \in 1 .. l
             /\ f[2 * j].kind = "body"
             /\ f[2 * j].lsn = n + j
             /\ \E b \in batches : n + j \in b
  <2>1. j \in Nat
    OBVIOUS
  <2>2. PICK i \in Nat : i = 2 * j /\ i \in 1 .. l
    BY <1>2, <2>1
  <2>3. i % 2 = 0 /\ (i + 1) \div 2 = j
    BY <2>1, <2>2, CellNumbers
  <2>4. /\ f[i].lsn = n + (i + 1) \div 2
        /\ i % 2 = 0 => f[i].kind = "body" \/ (i = l /\ f[i].kind = "cut")
        /\ \E b \in batches : f[i].lsn \in b
    BY <1>1, <2>2 DEF EntriesAfter
  <2>5. f[i].kind = "body"
    <3>1. CASE i = l
      <4>1. l > 0
        BY <2>2
      <4>2. QED BY <1>1, <3>1, <4>1 DEF Whole
    <3>2. CASE i # l
      BY <2>3, <2>4, <3>2
    <3>3. QED BY <3>1, <3>2
  <2>6. f[i].lsn = n + j
    BY <2>3, <2>4
  <2>7. QED BY <2>2, <2>4, <2>5, <2>6
<1>5. HasEntries(f, n, m)
  BY <1>1, <1>2, <1>3, <1>4 DEF HasEntries
<1>6. QED BY <1>5

(* The LSNs a file like that holds.                                        *)
LEMMA EntriesOfFile ==
  ASSUME NEW f \in Seq(Cell), NEW n \in Nat, NEW m \in Nat,
         EntriesAfter(f, n), HasEntries(f, n, m)
  PROVE  Cardinality(Entries(f)) = m
<1>1. ASSUME NEW x \in Entries(f) PROVE x \in (n + 1) .. (n + m)
  <2>1. PICK i \in 1 .. Len(f) : f[i].kind = "body" /\ x = f[i].lsn
    BY DEF Entries
  <2>2. i \in Nat /\ (i % 2 = 1 => f[i].kind = "len")
    BY <2>1 DEF EntriesAfter
  <2>3. i % 2 = 0
    BY <2>1, <2>2, EvenOrOdd
  <2>4. PICK j \in Nat : i = 2 * j
    BY <2>2, <2>3, EvenOrOdd
  <2>5. j \in 1 .. m
    <3>1. 1 <= i /\ i <= 2 * m
      <4>1. Len(f) = 2 * m
        BY DEF HasEntries
      <4>2. PICK l \in Nat : l = Len(f)
        OBVIOUS
      <4>3. QED BY <2>1, <4>1, <4>2
    <3>2. QED BY <2>4, <3>1
  <2>6. x = n + j
    BY <2>1, <2>4, <2>5 DEF HasEntries
  <2>7. QED BY <2>5, <2>6
<1>2. ASSUME NEW x \in (n + 1) .. (n + m) PROVE x \in Entries(f)
  <2>1. x - n \in 1 .. m /\ n + (x - n) = x
    OBVIOUS
  <2>2. PICK j \in 1 .. m : n + j = x
    BY <2>1
  <2>3. 2 * j \in 1 .. Len(f) /\ f[2 * j].kind = "body" /\ f[2 * j].lsn = x
    BY <2>2 DEF HasEntries
  <2>4. QED BY <2>3 DEF Entries
<1>3. Entries(f) = (n + 1) .. (n + m)
  BY <1>1, <1>2
<1>4. Cardinality((n + 1) .. (n + m)) = m
  <2>1. n + 1 \in Int /\ n + m \in Int
        /\ (IF n + 1 > n + m THEN 0 ELSE n + m - (n + 1) + 1) = m
    OBVIOUS
  <2>2. QED BY <2>1, FS_Interval
<1>5. QED BY <1>3, <1>4

(* A whole log stays whole, and in order, when a batch is appended.        *)
LEMMA Grown ==
  ASSUME lsn \in Nat, file \in Seq(Cell), NEW n \in Nat, NEW m \in Nat,
         EntriesAfter(file, n), HasEntries(file, n, m), lsn = n + m,
         NEW k \in Nat \ {0}, NEW c \in Seq(Cell), BatchLaidOut(c, k),
         file' = file \o c,
         batches' = batches \cup {(lsn + 1) .. (lsn + k)}
  PROVE  /\ EntriesAfter(file, n)'
         /\ Whole(file)'
         /\ Len(file') = 2 * (m + k)
<1>1. PICK l \in Nat, d \in Nat : /\ l = Len(file) /\ d = Len(c)
                                  /\ l = 2 * m /\ d = 2 * k
  BY DEF HasEntries, BatchLaidOut
<1>2. /\ file' \in Seq(Cell) /\ Len(file') = l + d
      /\ \A i \in 1 .. l + d : file'[i] = IF i <= l THEN file[i] ELSE c[i - l]
  <2>1. /\ file' \in Seq(Cell) /\ Len(file') = Len(file) + Len(c)
        /\ \A i \in 1 .. Len(file) + Len(c) : file'[i] =
             IF i <= Len(file) THEN file[i] ELSE c[i - Len(file)]
    BY ConcatProperties
  <2>2. QED BY <1>1, <2>1
<1>3. l + d = 2 * (m + k)
  BY <1>1, SumOfHalves
<1> DEFINE Fits(i) == /\ file'[i].lsn = n + (i + 1) \div 2
                      /\ i % 2 = 1 => file'[i].kind = "len"
                      /\ i % 2 = 0 => file'[i].kind = "body"
                      /\ \E b \in batches' : file'[i].lsn \in b
<1>4. ASSUME NEW i \in 1 .. l + d, i <= l PROVE Fits(i)
  <2>1. file'[i] = file[i] /\ i \in 1 .. Len(file)
    BY <1>1, <1>2, <1>4
  <2>2. /\ file[i].lsn = n + (i + 1) \div 2
        /\ i % 2 = 1 => file[i].kind = "len"
        /\ \E b \in batches : file[i].lsn \in b
    BY <2>1 DEF EntriesAfter
  <2>3. ASSUME i % 2 = 0 PROVE file[i].kind = "body"
    <3>1. PICK j \in Nat : i = 2 * j
      BY <2>3, EvenOrOdd
    <3>2. j \in 1 .. m
      BY <1>1, <1>4, <3>1
    <3>3. QED BY <3>1, <3>2 DEF HasEntries
  <2>4. QED BY <2>1, <2>2, <2>3
<1>5. ASSUME NEW i \in 1 .. l + d, i > l PROVE Fits(i)
  <2>1. PICK j \in 1 .. d : j = i - l
    BY <1>5
  <2>2. file'[i] = c[j] /\ j \in 1 .. 2 * k
    BY <1>1, <1>2, <1>5, <2>1
  <2>3. c[j].lsn = lsn + (j + 1) \div 2 /\ c[j].kind = IF j % 2 = 1 THEN "len" ELSE "body"
    BY <2>2 DEF BatchLaidOut
  <2>4. i \in Nat /\ (i + 1) \div 2 = m + (j + 1) \div 2 /\ i % 2 = j % 2
    BY <1>1, <1>5, <2>1, NextNumbers
  <2>5. (j + 1) \div 2 \in 1 .. k
    BY <2>2
  <2>6. c[j].lsn = n + (i + 1) \div 2 /\ c[j].lsn \in (lsn + 1) .. (lsn + k)
    BY <2>3, <2>4, <2>5
  <2>7. \E b \in batches' : file'[i].lsn \in b
    BY <2>2, <2>6
  <2>8. file'[i].lsn = n + (i + 1) \div 2
    BY <2>2, <2>6
  <2>9. file'[i].kind = IF i % 2 = 1 THEN "len" ELSE "body"
    BY <2>2, <2>3, <2>4
  <2>10. i % 2 = 0 => ~ (i % 2 = 1)
    OBVIOUS
  <2>11. QED BY <2>7, <2>8, <2>9, <2>10, Zenon DEF Fits
<1>6. EntriesAfter(file, n)'
  <2>1. ASSUME NEW i \in 1 .. l + d PROVE Fits(i)
    <3>1. i <= l \/ i > l
      BY <1>1
    <3> HIDE DEF Fits
    <3>2. QED BY <1>4, <1>5, <3>1
  <2>2. QED BY <1>2, <2>1 DEF EntriesAfter
<1>7. Whole(file)'
  <2>1. PICK e \in Nat : e = l + d /\ e = 2 * (m + k) /\ e > l
    <3>1. d > 0
      BY <1>1
    <3>2. l + d \in Nat /\ l + d > l
      BY <1>1, <3>1
    <3>3. QED BY <1>3, <3>2
  <2>2. e % 2 = 0
    <3>1. m + k \in Nat
      OBVIOUS
    <3>2. (2 * (m + k)) % 2 = 0
      BY <3>1, CellNumbers
    <3>3. QED BY <2>1, <3>2
  <2>3. e \in 1 .. l + d
    BY <1>1, <2>1
  <2>4. file'[e].kind = "body"
    BY <1>5, <2>1, <2>2, <2>3
  <2>5. QED BY <1>2, <2>1, <2>2, <2>4 DEF Whole
<1>8. QED BY <1>2, <1>3, <1>6, <1>7

(* A file of entries is one of entries after more batches, too.            *)
LEMMA StillLogged ==
  ASSUME lsn \in Nat, lsn' \in Nat, lsn <= lsn', batches \subseteq batches',
         NEW f, Logged(f)
  PROVE  Logged(f)'
<1>1. PICK n \in 0 .. lsn : EntriesAfter(f, n)
  BY DEF Logged
<1>2. n \in 0 .. lsn'
  OBVIOUS
<1>3. EntriesAfter(f, n)'
  BY <1>1 DEF EntriesAfter
<1>4. QED BY <1>2, <1>3 DEF Logged

(* The log that is written to, as entries: the m last ones.                *)
LEMMA RunningLog ==
  ASSUME TypeInv, LogInv, ~ spoiled, mode \in {"running", "writing"}
  PROVE  \E n \in Nat, m \in Nat : /\ n + m = lsn
                                   /\ EntriesAfter(file, n)
                                   /\ HasEntries(file, n, m)
<1>1. file \in Seq(Cell) /\ Bounded(file) /\ lsn \in Nat
  BY FileTypes
<1>2. Whole(file) /\ EntriesAfter(file, lsn - Len(file) \div 2)
  BY DEF LogInv, LogIsWhole
<1>3. PICK l \in Nat : l = Len(file) /\ l <= 2 * lsn
  BY <1>1 DEF Bounded
<1>4. PICK m \in Nat : l = 2 * m
  BY <1>2, <1>3, EvenOrOdd DEF Whole
<1>5. l \div 2 = m /\ m <= lsn
  BY <1>1, <1>3, <1>4, CellNumbers
<1>6. PICK n \in Nat : n = lsn - m /\ n + m = lsn
  BY <1>1, <1>5
<1>7. EntriesAfter(file, n)
  BY <1>2, <1>3, <1>5, <1>6
<1>8. PICK mm \in Nat : HasEntries(file, n, mm)
  BY <1>1, <1>2, <1>7, WholeEntries
<1>9. mm = m
  BY <1>3, <1>5, <1>8 DEF HasEntries
<1>10. QED BY <1>6, <1>7, <1>8, <1>9

(* An empty log holds nothing that could be missing.                       *)
LEMMA EmptyLog ==
  ASSUME lsn \in Nat
  PROVE  /\ Logged(<<>>)
         /\ Whole(<<>>)
         /\ EntriesAfter(<<>>, lsn - Len(<<>>) \div 2)
         /\ Len(<<>>) \div 2 = 0
<1>1. Len(<<>>) = 0 /\ 0 % 2 = 0 /\ 0 \div 2 = 0
  OBVIOUS
<1>2. \A n : EntriesAfter(<<>>, n)
  BY <1>1 DEF EntriesAfter
<1>3. 0 \in 0 .. lsn
  OBVIOUS
<1>4. QED BY <1>1, <1>2, <1>3 DEF Logged, Whole

-----------------------------------------------------------------------------
(* A batch is appended behind whole entries and continues their numbering. *)
LEMMA LogWriteBatch ==
  ASSUME TypeInv, LogInv, WriteBatch
  PROVE  LogInv'
<1>1. PICK k \in Nat \ {0}, c \in Seq(Cell) :
        /\ NewCells(c, k) /\ BatchLaidOut(c, k)
        /\ file' = file \o c
        /\ lsn' = lsn + k
        /\ batches' = batches \cup {(lsn + 1) .. (lsn + k)}
  BY WriteAppends
<1>2. /\ UNCHANGED <<durable, old, flushed_lsn, entry_count, found, acked, missed, spoiled>>
      /\ mode = "running" /\ mode' = "writing"
  BY DEF WriteBatch, memVars
<1>3. /\ file \in Seq(Cell) /\ lsn \in Nat /\ lsn' \in Nat /\ lsn < lsn' /\ Len(file) \in Nat
      /\ flushed_lsn <= lsn /\ entry_count <= lsn
      /\ durable \in Nat /\ durable <= Len(file)
  BY <1>1, FileTypes
<1>4. SUFFICES ASSUME ~ spoiled
               PROVE  /\ \A f \in {file'} \cup old : Logged(f)'
                      /\ LogIsWhole' /\ AckedIsDurable'
  BY <1>2 DEF LogInv, FoundIsLog
<1>5. PICK n \in Nat, m \in Nat : n + m = lsn /\ EntriesAfter(file, n) /\ HasEntries(file, n, m)
  BY <1>2, <1>4, RunningLog
<1>6. EntriesAfter(file, n)' /\ Whole(file)' /\ Len(file') = 2 * (m + k)
  BY <1>1, <1>3, <1>5, Grown
<1>7. Logged(file)'
  <2>1. n \in 0 .. lsn'
    BY <1>3, <1>5
  <2>2. QED BY <1>6, <2>1 DEF Logged
<1>8. ASSUME NEW f \in old PROVE Logged(f)'
  <2>1. Logged(f)
    BY <1>4 DEF LogInv
  <2>2. lsn <= lsn' /\ batches \subseteq batches'
    BY <1>1, <1>3
  <2>3. QED BY <1>3, <2>1, <2>2, StillLogged
<1>9. LogIsWhole'
  <2>1. EntriesAfter(file, lsn - Len(file) \div 2)'
    <3>1. m + k \in Nat
      OBVIOUS
    <3>2. (2 * (m + k)) \div 2 = m + k
      BY <3>1, CellNumbers
    <3>3. lsn' - Len(file') \div 2 = n
      BY <1>1, <1>5, <1>6, <3>2
    <3>4. QED BY <1>6, <3>3
  <2>2. /\ (lsn + 1) .. lsn' \in batches'
        /\ \A b \in batches' : b = (lsn + 1) .. lsn' \/ b \subseteq 1 .. lsn
        /\ entry_count' <= lsn
        /\ flushed_lsn' <= lsn
    BY <1>1, <1>2, <1>3 DEF TypeInv
  <2>3. Len(file') = 2 * (entry_count' + (lsn' - lsn))
    <3>1. entry_count' = m
      BY <1>2, <1>4, <1>5 DEF LogInv, LogIsWhole, HasEntries
    <3>2. lsn' - lsn = k
      BY <1>1, <1>3
    <3>3. QED BY <1>6, <3>1, <3>2
  <2>4. lsn \in 0 .. lsn'
    BY <1>3
  <2>5. \E x \in 0 .. lsn' : /\ x < lsn' /\ WritingFrom(x)'
                             /\ Len(file') = 2 * (entry_count' + (lsn' - x))
    BY <1>3, <2>2, <2>3, <2>4 DEF WritingFrom
  <2>6. QED BY <1>2, <1>6, <2>1, <2>5 DEF LogIsWhole
<1>10. AckedIsDurable'
  <2>1. ASSUME NEW i \in 1 .. durable PROVE file'[i] = file[i]
    BY <1>1, <1>3, <2>1, AppendedInFront
  <2>2. AckedIsDurable
    BY <1>4 DEF LogInv
  <2>3. QED BY <1>2, <2>1, <2>2 DEF AckedIsDurable
<1>11. QED BY <1>7, <1>8, <1>9, <1>10

(* A batch that was synced is in the file, and all of it durable.          *)
LEMMA LogWriteBatchEnd ==
  ASSUME TypeInv, LogInv, WriteBatchEnd
  PROVE  LogInv'
<1>1. mode = "writing"
  BY DEF WriteBatchEnd
<1>2. PICK k \in 0 .. lsn :
        /\ k < lsn /\ WritingFrom(k)
        /\ ~ spoiled => Len(file) = 2 * (entry_count + (lsn - k))
  BY <1>1 DEF TypeInv, LogInv, LogIsWhole
<1>3. /\ IF Sync
         THEN durable' = Len(file) /\ old' = {} /\ acked' = acked \cup ((k + 1) .. lsn)
         ELSE UNCHANGED <<durable, old, acked>>
      /\ entry_count' = entry_count + (lsn - k)
      /\ mode' = "running"
      /\ UNCHANGED <<file, lsn, found, batches, missed, spoiled>>
  BY <1>2, LastBatch DEF WriteBatchEnd
<1>4. /\ file \in Seq(Cell) /\ lsn \in Nat /\ k \in Nat /\ Len(file) \in Nat
      /\ durable \in Nat /\ durable <= Len(file) /\ entry_count \in Nat
  BY FileTypes
<1>5. ~ Sync => acked' = {}
  BY <1>3 DEF LogInv
<1>6. CASE spoiled
  BY <1>3, <1>5, <1>6 DEF LogInv
<1>7. CASE ~ spoiled
  <2>1. PICK n \in Nat, m \in Nat : n + m = lsn /\ EntriesAfter(file, n) /\ HasEntries(file, n, m)
    BY <1>1, <1>7, RunningLog
  <2>2. \A f \in {file'} \cup old' : Logged(f)'
    BY <1>3, <1>7 DEF LogInv, Logged, EntriesAfter
  <2>3. entry_count + (lsn - k) = m
    <3>1. PICK x \in Nat : x = entry_count + (lsn - k)
      BY <1>2, <1>4
    <3>2. 2 * m = 2 * x
      BY <1>2, <1>7, <2>1, <3>1 DEF HasEntries
    <3>3. QED BY <3>1, <3>2
  <2>4. LogIsWhole'
    <3>1. Whole(file) /\ EntriesAfter(file, lsn - Len(file) \div 2)
      BY <1>1, <1>7 DEF LogInv, LogIsWhole
    <3>2. Len(file') \div 2 = entry_count'
      BY <1>3, <2>1, <2>3 DEF HasEntries
    <3>3. QED BY <1>3, <3>1, <3>2 DEF LogIsWhole, Whole, EntriesAfter
  <2>5. AckedIsDurable'
    <3>1. CASE ~ Sync
      BY <1>3, <1>7, <3>1 DEF LogInv, AckedIsDurable
    <3>2. CASE Sync
      <4>1. ASSUME NEW x \in acked
            PROVE  \E i \in 1 .. Len(file) : file[i].kind = "body" /\ file[i].lsn = x
        <5>1. PICK i \in 1 .. durable : file[i].kind = "body" /\ file[i].lsn = x
          BY <1>7 DEF LogInv, AckedIsDurable
        <5>2. i \in 1 .. Len(file)
          BY <1>4
        <5>3. QED BY <5>1, <5>2
      <4>2. ASSUME NEW x \in (k + 1) .. lsn
            PROVE  \E i \in 1 .. Len(file) : file[i].kind = "body" /\ file[i].lsn = x
        <5>1. PICK j \in 1 .. m : n + j = x
          <6>1. x - n \in 1 .. m /\ n + (x - n) = x
            BY <1>2, <1>4, <2>1, <2>3
          <6>2. QED BY <6>1
        <5>2. 2 * j \in 1 .. Len(file) /\ file[2 * j].kind = "body" /\ file[2 * j].lsn = x
          BY <2>1, <5>1 DEF HasEntries
        <5>3. QED BY <5>2
      <4>3. QED BY <1>3, <3>2, <4>1, <4>2 DEF AckedIsDurable
    <3>3. QED BY <3>1, <3>2
  <2>6. QED BY <1>3, <1>5, <1>7, <2>2, <2>4, <2>5 DEF LogInv, FoundIsLog
<1>8. QED BY <1>6, <1>7

(* A sync makes the log durable as it is.                                  *)
LEMMA LogSync ==
  ASSUME TypeInv, LogInv, SyncFile \/ \E l \in 1 .. lsn : FlushUpto(l)
  PROVE  LogInv'
<1>1. /\ durable' = Len(file) /\ old' = {} /\ mode = "running" /\ mode' = "running"
      /\ UNCHANGED <<file, entry_count, lsn, found, batches, acked, missed, spoiled>>
  BY DEF SyncFile, FlushUpto, memVars, histVars
<1>2. durable \in Nat /\ durable <= Len(file) /\ Len(file) \in Nat
  BY FileTypes
<1>3. CASE spoiled
  BY <1>1, <1>3 DEF LogInv
<1>4. CASE ~ spoiled
  <2>1. /\ missed' = {} /\ \A f \in {file'} \cup old' : Logged(f)'
    BY <1>1, <1>4 DEF LogInv, Logged, EntriesAfter
  <2>2. LogIsWhole' /\ FoundIsLog'
    BY <1>1, <1>4 DEF LogInv, LogIsWhole, FoundIsLog, Whole, EntriesAfter
  <2>3. AckedIsDurable'
    <3>1. ASSUME NEW x \in acked
          PROVE  \E i \in 1 .. Len(file) : file[i].kind = "body" /\ file[i].lsn = x
      <4>1. PICK i \in 1 .. durable : file[i].kind = "body" /\ file[i].lsn = x
        BY <1>4 DEF LogInv, AckedIsDurable
      <4>2. i \in 1 .. Len(file)
        BY <1>2
      <4>3. QED BY <4>1, <4>2
    <3>2. QED BY <1>1, <3>1 DEF AckedIsDurable
  <2>4. QED BY <1>1, <2>1, <2>2, <2>3 DEF LogInv
<1>5. QED BY <1>3, <1>4

(* A truncation leaves the old file to a power loss, until it is synced.   *)
LEMMA LogTruncate ==
  ASSUME TypeInv, LogInv, Truncate \/ TruncateFails \/ RecoverTruncate
  PROVE  LogInv'
<1>1. /\ file' = <<>> /\ acked' = {} /\ UNCHANGED <<lsn, batches>>
      /\ old' = {} \/ old' = old \cup {file}
      /\ \/ missed' = {} /\ entry_count' = 0 /\ mode' \in {"running", "truncated"}
         \/ spoiled' = TRUE /\ mode' = "running"
      /\ mode' \in {"running", "truncated"}
      /\ spoiled => old' = {} \/ spoiled'
  <2>1. CASE Truncate
    <3>1. /\ file' = <<>> /\ acked' = {} /\ missed' = {} /\ entry_count' = 0
          /\ old' = (IF Sync THEN {} ELSE old \cup {file})
          /\ mode' = "running" /\ UNCHANGED <<lsn, batches>>
          /\ spoiled' = (spoiled /\ ~ Sync)
      BY <2>1 DEF Truncate, Truncated
    <3>2. CASE Sync
      BY <3>1, <3>2
    <3>3. CASE ~ Sync
      BY <3>1, <3>3
    <3>4. QED BY <3>2, <3>3
  <2>2. CASE TruncateFails
    BY <2>2 DEF TruncateFails
  <2>3. CASE RecoverTruncate
    BY <2>3 DEF RecoverTruncate, Truncated
  <2>4. QED BY <2>1, <2>2, <2>3
<1>2. lsn \in Nat
  BY FileTypes
<1>3. mode' = "truncated" => missed' = {} /\ entry_count' = 0
  BY <1>1
<1>4. CASE spoiled'
  BY <1>1, <1>3, <1>4 DEF LogInv
<1>5. CASE ~ spoiled'
  <2>1. missed' = {} /\ entry_count' = 0
    BY <1>1, <1>5
  <2>2. \A f \in old' : Logged(f)
    <3>1. CASE old' = {}
      BY <3>1
    <3>2. CASE old' = old \cup {file} /\ ~ spoiled
      BY <3>2 DEF LogInv
    <3>3. QED BY <1>1, <1>5, <3>1, <3>2
  <2>3. \A f \in {file'} \cup old' : Logged(f)'
    <3>1. lsn' \in Nat /\ lsn <= lsn' /\ batches \subseteq batches'
      BY <1>1, <1>2
    <3>2. \A f \in {file'} \cup old' : Logged(f)
      BY <1>1, <1>2, <2>2, EmptyLog
    <3>3. QED BY <1>2, <3>1, <3>2, StillLogged
  <2>4. LogIsWhole'
    BY <1>1, <1>2, <2>1, EmptyLog DEF LogIsWhole, Whole, EntriesAfter
  <2>5. FoundIsLog' /\ AckedIsDurable'
    BY <1>1 DEF FoundIsLog, AckedIsDurable
  <2>6. QED BY <1>1, <1>3, <2>1, <2>3, <2>4, <2>5 DEF LogInv
<1>6. QED BY <1>4, <1>5

(* What a power loss leaves holds what was acknowledged, still in order.   *)
LEMMA LogCrash ==
  ASSUME Tears \subseteq {"cut"}, TypeInv, LogInv, Crash
  PROVE  LogInv'
<1>1. /\ file \in Seq(Cell) /\ lsn \in Nat /\ Len(file) \in Nat
      /\ durable \in Nat /\ durable <= Len(file)
  BY FileTypes
<1>2. /\ durable' = Len(file') /\ old' = {} /\ mode' = "down"
      /\ UNCHANGED <<lsn, batches, acked, missed, spoiled>>
  BY DEF Crash, histVars
<1>3. CASE spoiled
  BY <1>2, <1>3 DEF LogInv
<1>4. CASE ~ spoiled
  <2>1. ASSUME NEW k \in durable .. Len(file), file' \in TornAt(file, k)
        PROVE  /\ Logged(file')
               /\ Len(file') \in Nat /\ durable <= Len(file')
               /\ \A i \in 1 .. durable : file'[i] = file[i]
    <3>1. k \in 0 .. Len(file) /\ k \in Nat
      BY <1>1
    <3>2. PICK n \in 0 .. lsn : EntriesAfter(file, n)
      BY <1>4 DEF LogInv, Logged
    <3>3. n \in Nat
      BY <1>1
    <3>4. EntriesAfter(file', n)
      BY <1>1, <2>1, <3>1, <3>2, <3>3, TornEntries
    <3>5. /\ file' \in Seq(Cell) /\ k <= Len(file') /\ \A i \in 1 .. k : file'[i] = file[i]
      BY <1>1, <2>1, <3>1, TornCells
    <3>6. durable <= k
      BY <1>1, <2>1
    <3>7. Len(file') \in Nat
      BY <3>5
    <3>8. QED BY <1>1, <3>1, <3>4, <3>5, <3>6, <3>7 DEF Logged
  <2>2. /\ Logged(file')
        /\ file' \in old \/ /\ Len(file') \in Nat /\ durable <= Len(file')
                            /\ \A i \in 1 .. durable : file'[i] = file[i]
    <3>1. CASE file' \in old
      BY <1>4, <3>1 DEF LogInv
    <3>2. QED BY <2>1, <3>1 DEF Crash
  <2>3. Logged(file)'
    BY <1>2, <2>2 DEF Logged, EntriesAfter
  <2>4. AckedIsDurable'
    <3>1. AckedIsDurable
      BY <1>4 DEF LogInv
    <3>2. ASSUME NEW x \in acked
          PROVE  \E i \in 1 .. Len(file') : file'[i].kind = "body" /\ file'[i].lsn = x
      <4>1. PICK i \in 1 .. durable : file[i].kind = "body" /\ file[i].lsn = x
        BY <3>1 DEF AckedIsDurable
      <4>2. file' \notin old
        BY <3>1, <3>2 DEF AckedIsDurable
      <4>3. i \in 1 .. Len(file') /\ file'[i] = file[i]
        BY <1>1, <2>2, <4>2
      <4>4. QED BY <4>1, <4>3
    <3>3. QED BY <1>2, <3>2 DEF AckedIsDurable
  <2>5. QED BY <1>2, <1>4, <2>3, <2>4 DEF LogInv, LogIsWhole, FoundIsLog
<1>5. QED BY <1>3, <1>4

(* Recovery finds all of the log, or refuses it.                           *)
LEMMA LogRecover ==
  ASSUME TypeInv, LogInv, Recover
  PROVE  LogInv'
<1>1. PICK r \in ReadResults(file) :
        /\ found' = r.batch
        /\ IF r.ok
           THEN /\ mode' = IF r.batch = <<>> THEN "running" ELSE "replayed"
                /\ missed' = acked \ Elements(r.batch)
                /\ entry_count' = Len(r.batch)
           ELSE mode' = "failed" /\ missed' = missed
  BY DEF Recover
<1>2. UNCHANGED <<file, durable, old, lsn, batches, acked, spoiled>> /\ mode' # "truncated"
  BY <1>1 DEF Recover, logVars
<1>3. /\ file \in Seq(Cell) /\ lsn \in Nat /\ Len(file) \in Nat
      /\ durable \in Nat /\ durable <= Len(file)
  BY FileTypes
<1>4. CASE spoiled
  BY <1>2, <1>4 DEF LogInv
<1>5. CASE ~ spoiled
  <2>1. (\A f \in {file'} \cup old' : Logged(f)') /\ AckedIsDurable'
    BY <1>2, <1>5 DEF LogInv, Logged, EntriesAfter, AckedIsDurable
  <2>2. CASE ~ r.ok
    <3>1. missed' = {} /\ mode' = "failed"
      BY <1>1, <1>5, <2>2 DEF LogInv
    <3>2. QED BY <1>2, <2>1, <3>1 DEF LogInv, LogIsWhole, FoundIsLog
  <2>3. CASE r.ok
    <3>1. PICK n \in 0 .. lsn : EntriesAfter(file, n)
      BY <1>5 DEF LogInv, Logged
    <3>2. n \in Nat
      BY <1>3
    <3>3. /\ Whole(file) /\ Len(file) = 2 * Len(r.batch)
          /\ \A i \in 1 .. Len(r.batch) : r.batch[i] = file[2 * i].lsn
      BY <1>3, <2>3, <3>1, <3>2, ReadEntries
    <3>4. PICK m \in Nat : m = Len(r.batch)
      <4>1. \A i \in 1 .. Len(file) : file[i].lsn <= lsn
        BY FileTypes DEF Bounded
      <4>2. Len(file) <= 2 * lsn
        BY FileTypes DEF Bounded
      <4>3. r.batch \in Seq(0 .. lsn)
        BY <1>3, <4>1, <4>2, ReadTypes
      <4>4. QED BY <4>3
    <3>5. Len(file) = 2 * m /\ Len(file) \div 2 = m
      BY <3>3, <3>4, CellNumbers
    <3>6. missed' = {}
      <4>1. ASSUME NEW x \in acked PROVE x \in Elements(r.batch)
        <5>1. PICK i \in 1 .. durable : file[i].kind = "body" /\ file[i].lsn = x
          BY <1>5 DEF LogInv, AckedIsDurable
        <5>2. i \in 1 .. Len(file) /\ i \in Nat
          BY <1>3
        <5>3. i % 2 # 1
          BY <3>1, <5>1, <5>2 DEF EntriesAfter
        <5>4. PICK j \in Nat : i = 2 * j
          BY <5>2, <5>3, EvenOrOdd
        <5>5. j \in 1 .. m
          <6>1. 1 <= i /\ i <= 2 * m
            BY <3>5, <5>2
          <6>2. QED BY <5>4, <6>1
        <5>6. r.batch[j] = x
          BY <3>3, <3>4, <5>1, <5>4, <5>5
        <5>7. QED BY <3>4, <5>5, <5>6 DEF Elements
      <4>2. QED BY <1>1, <2>3, <4>1
    <3>7. Whole(file)' /\ entry_count' = Len(file') \div 2
      BY <1>1, <1>2, <2>3, <3>3, <3>4, <3>5 DEF Whole
    <3>8. FoundIsLog'
      BY <1>1, <1>2, <3>3, <3>4, <3>5, <3>7 DEF FoundIsLog
    <3>9. LogIsWhole'
      <4>1. CASE r.batch = <<>>
        <5>1. m = 0
          BY <3>4, <4>1
        <5>2. Len(file') = 0
          BY <1>2, <3>5, <5>1
        <5>3. mode' = "running" /\ EntriesAfter(file, lsn - Len(file) \div 2)'
          BY <1>1, <2>3, <4>1, <5>2 DEF EntriesAfter
        <5>4. QED BY <3>7, <5>3 DEF LogIsWhole
      <4>2. CASE r.batch # <<>>
        <5>1. mode' = "replayed"
          BY <1>1, <2>3, <4>2
        <5>2. QED BY <5>1 DEF LogIsWhole
      <4>3. QED BY <4>1, <4>2
    <3>10. QED BY <1>2, <2>1, <3>6, <3>8, <3>9 DEF LogInv
  <2>4. QED BY <2>2, <2>3
<1>6. QED BY <1>4, <1>5

(* Every step keeps the log whole.                                         *)
LEMMA LogStep ==
  ASSUME Tears \subseteq {"cut"}, TypeInv, LogInv, [Next]_vars
  PROVE  LogInv'
<1>1. lsn \in Nat
  BY FileTypes
<1>2. CASE WriteBatchFails
  <2>1. spoiled' = TRUE /\ acked' = acked /\ mode' = "running"
    BY <1>2 DEF WriteBatchFails
  <2>2. QED BY <2>1 DEF LogInv
<1>3. CASE RecoverSync
  <2>1. /\ file = <<>> /\ acked = {} /\ missed = {} /\ entry_count = 0
        /\ old' = {} /\ mode' = "running"
        /\ UNCHANGED <<file, entry_count, lsn, batches, acked, missed>>
    BY <1>3 DEF RecoverSync, memVars, LogInv
  <2>2. \A f \in {file'} \cup old' : Logged(f)'
    BY <1>1, <2>1, EmptyLog DEF Logged, EntriesAfter
  <2>3. LogIsWhole'
    BY <1>1, <2>1, EmptyLog DEF LogIsWhole, Whole, EntriesAfter
  <2>4. FoundIsLog' /\ AckedIsDurable'
    BY <2>1 DEF FoundIsLog, AckedIsDurable
  <2>5. QED BY <2>1, <2>2, <2>3, <2>4 DEF LogInv
<1>4. CASE RecoverFails \/ Stop
  <2>1. /\ UNCHANGED <<file, durable, old, lsn, batches, acked, missed, spoiled>>
        /\ mode' \in {"failed", "down"}
    BY <1>4 DEF RecoverFails, Stop, logVars, memVars, histVars
  <2>2. CASE spoiled
    BY <2>1, <2>2 DEF LogInv
  <2>3. CASE ~ spoiled
    <3>1. missed' = {}
      BY <2>1, <2>3 DEF LogInv
    <3>2. \A f \in {file'} \cup old' : Logged(f)'
      <4>1. \A f \in {file'} \cup old' : Logged(f)
        BY <2>1, <2>3 DEF LogInv
      <4>2. lsn' \in Nat /\ lsn <= lsn' /\ batches \subseteq batches'
        BY <1>1, <2>1
      <4>3. QED BY <1>1, <4>1, <4>2, StillLogged
    <3>3. AckedIsDurable'
      BY <2>1, <2>3 DEF LogInv, AckedIsDurable
    <3>4. ~ Sync => acked' = {}
      BY <2>1 DEF LogInv
    <3>5. QED BY <2>1, <3>1, <3>2, <3>3, <3>4 DEF LogInv, LogIsWhole, FoundIsLog
  <2>4. QED BY <2>2, <2>3
<1>5. CASE UNCHANGED vars
  BY <1>5 DEF vars, logVars, memVars, histVars, LogInv, Logged, EntriesAfter,
              LogIsWhole, Whole, WritingFrom, FoundIsLog, AckedIsDurable
<1>6. QED
  BY <1>2, <1>3, <1>4, <1>5, LogWriteBatch, LogWriteBatchEnd, LogSync, LogTruncate,
     LogCrash, LogRecover DEF Next

(* The empty log is whole.                                                 *)
LEMMA LogInit == Init => LogInv
<1> SUFFICES ASSUME Init PROVE LogInv
  OBVIOUS
<1>1. /\ file = <<>> /\ old = {} /\ entry_count = 0 /\ lsn = 0 /\ lsn \in Nat
      /\ mode = "running" /\ acked = {} /\ missed = {}
  BY DEF Init
<1>2. Logged(file) /\ LogIsWhole
  BY <1>1, EmptyLog DEF LogIsWhole
<1>3. FoundIsLog /\ AckedIsDurable
  BY <1>1 DEF FoundIsLog, AckedIsDurable
<1>4. QED BY <1>1, <1>2, <1>3 DEF LogInv

(* LogInv is an invariant.                                                 *)
LEMMA LogAlways ==
  ASSUME Tears \subseteq {"cut"}
  PROVE  Spec => [](TypeInv /\ LogInv)
<1>1. TypeInv /\ LogInv /\ [Next]_vars => TypeInv' /\ LogInv'
  BY TypeStep, LogStep
<1>2. QED BY <1>1, TypeInit, LogInit, PTL DEF Spec

-----------------------------------------------------------------------------
(* As long as a power loss tears the file only inside of an entry's body,  *)
(* a recovery that succeeds overlooks no entry that write_batch            *)
(* acknowledged after its fsync and no checkpoint covers.                  *)
THEOREM AcknowledgedIsRecovered ==
  ASSUME Tears \subseteq {"cut"}
  PROVE  Spec => []AckedRecovered
<1>1. LogInv => AckedRecovered
  BY DEF LogInv, AckedRecovered
<1>2. QED BY <1>1, LogAlways, PTL

(* Under the same condition recovery replays entries that were logged,     *)
(* from the first one in the file on and without a gap.                    *)
THEOREM ReplayIsInOrder ==
  ASSUME Tears \subseteq {"cut"}
  PROVE  Spec => []RecoveredInOrder
<1>1. ASSUME TypeInv, LogInv, mode = "replayed", ~ spoiled
      PROVE  /\ \A i \in 1 .. Len(found) : \E b \in batches : found[i] \in b
             /\ \A i \in 2 .. Len(found) : found[i] = found[i - 1] + 1
  <2>1. file \in Seq(Cell) /\ lsn \in Nat
    BY <1>1, FileTypes
  <2>2. PICK n \in 0 .. lsn : EntriesAfter(file, n)
    BY <1>1 DEF LogInv, Logged
  <2>3. n \in Nat
    BY <2>1
  <2>4. Whole(file) /\ Len(found) = Len(file) \div 2
        /\ \A i \in 1 .. Len(found) : found[i] = file[2 * i].lsn
    BY <1>1 DEF LogInv, FoundIsLog
  <2>5. PICK m \in Nat : HasEntries(file, n, m)
    BY <2>1, <2>2, <2>3, <2>4, WholeEntries
  <2>6. Len(found) = m
    BY <2>4, <2>5 DEF HasEntries
  <2>7. \A i \in 1 .. m : found[i] = n + i /\ \E b \in batches : found[i] \in b
    BY <2>4, <2>5, <2>6 DEF HasEntries
  <2>8. ASSUME NEW i \in 2 .. m PROVE found[i] = found[i - 1] + 1
    <3>1. i \in 1 .. m /\ i - 1 \in 1 .. m
      BY <2>5
    <3>2. found[i] = n + i /\ found[i - 1] = n + (i - 1)
      BY <2>7, <3>1
    <3>3. QED BY <2>3, <3>2
  <2>9. QED BY <2>6, <2>7, <2>8
<1>2. TypeInv /\ LogInv => RecoveredInOrder
  BY <1>1 DEF RecoveredInOrder
<1>3. QED BY <1>2, LogAlways, PTL

(* Under the same condition the count that checkpoints go by is the number *)
(* of entries in the file, whenever the engine runs and while it recovers. *)
THEOREM CountTracksLog ==
  ASSUME Tears \subseteq {"cut"}
  PROVE  Spec => []EntryCountTracksLog
<1>1. ASSUME TypeInv, LogInv, ~ spoiled, mode \in {"running", "replayed"}
      PROVE  entry_count = Cardinality(Entries(file))
  <2>1. file \in Seq(Cell) /\ lsn \in Nat
    BY <1>1, FileTypes
  <2>2. PICK n \in 0 .. lsn : EntriesAfter(file, n)
    BY <1>1 DEF LogInv, Logged
  <2>3. n \in Nat
    BY <2>1
  <2>4. Whole(file) /\ entry_count = Len(file) \div 2
    BY <1>1 DEF LogInv, LogIsWhole, FoundIsLog
  <2>5. PICK m \in Nat : HasEntries(file, n, m)
    BY <2>1, <2>2, <2>3, <2>4, WholeEntries
  <2>6. Cardinality(Entries(file)) = m
    BY <2>1, <2>2, <2>3, <2>5, EntriesOfFile
  <2>7. QED BY <2>4, <2>5, <2>6 DEF HasEntries
<1>2. TypeInv /\ LogInv => EntryCountTracksLog
  BY <1>1 DEF EntryCountTracksLog
<1>3. QED BY <1>2, LogAlways, PTL

=============================================================================
