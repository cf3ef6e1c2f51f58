-------------------------- MODULE BufferPoolProofs --------------------------
(***************************************************************************)
(* The buffer pool of BufferPool.tla keeps its table and its replacer in   *)
(* agreement, for every size of the pool and of the file, and whatever     *)
(* fails.                                                                  *)
(*                                                                         *)
(* It gives the log two guarantees: no page reaches the file ahead of its  *)
(* log records, and a checkpoint that succeeded holds every update it was  *)
(* meant to hold, through any later power loss, until new_page hands the   *)
(* page out again; page 0 is left out, it lies under the header.           *)
(*                                                                         *)
(* And clients may rely on this until the first power loss: no update is   *)
(* lost, a page has one frame, new pages are new.  A power loss may bring  *)
(* back an old next_free_offset, or none, and then new_page hands out      *)
(* pages that are in use: hence the condition.  Power loss or not, a frame *)
(* leaves the reach of evictions only by its own failure to be written.    *)
(***************************************************************************)
EXTENDS BufferPool, SequenceTheorems, FiniteSetTheorems, TLAPS

(* What the operators of RecencyOrder do to the pages the replacer tracks, *)
(* each of them once.                                                      *)
TrackedOnce(s) == \A i, j \in 1 .. Len(s) : s[i] = s[j] => i = j

-----------------------------------------------------------------------------
(* The places of s without place i: those in front of it stay, those       *)
(* behind it move up.                                                      *)
LEMMA DropAtPlaces ==
  ASSUME NEW S, NEW s \in Seq(S), NEW i \in 1 .. Len(s)
  PROVE  /\ DropAt(s, i) \in Seq(S)
         /\ Len(DropAt(s, i)) = Len(s) - 1
         /\ \A j \in 1 .. Len(s) - 1 :
              /\ j < i => DropAt(s, i)[j] = s[j]
              /\ j >= i => DropAt(s, i)[j] = s[j + 1]
<1> DEFINE a == SubSeq(s, 1, i - 1)
           b == SubSeq(s, i + 1, Len(s))
<1>0. Len(s) \in Nat
  BY LenProperties
<1>1. \A j \in 1 .. Len(s) : s[j] \in S
  BY ElementOfSeq
<1>2. /\ a \in Seq(S)
      /\ Len(a) = i - 1
      /\ \A j \in 1 .. i - 1 : a[j] = s[j]
  <2>1. \A j \in 1 .. i - 1 : s[j] \in S
    BY <1>0, <1>1
  <2>2. /\ a \in Seq(S)
        /\ Len(a) = IF 1 <= i - 1 THEN i - 1 - 1 + 1 ELSE 0
        /\ \A j \in 1 .. i - 1 - 1 + 1 : a[j] = s[1 + j - 1]
    BY <2>1, SubSeqProperties
  <2> HIDE DEF a
  <2>3. QED BY <1>0, <2>2
<1>3. /\ b \in Seq(S)
      /\ Len(b) = Len(s) - i
      /\ \A j \in 1 .. Len(s) - i : b[j] = s[i + j]
  <2>1. \A j \in i + 1 .. Len(s) : s[j] \in S
    BY <1>0, <1>1
  <2>2. /\ b \in Seq(S)
        /\ Len(b) = IF i + 1 <= Len(s) THEN Len(s) - (i + 1) + 1 ELSE 0
        /\ \A j \in 1 .. Len(s) - (i + 1) + 1 : b[j] = s[i + 1 + j - 1]
    BY <1>0, <2>1, SubSeqProperties
  <2> HIDE DEF b
  <2>3. \A j \in 1 .. Len(s) - i : i + 1 + j - 1 = i + j
    BY <1>0
  <2>4. QED BY <1>0, <2>2, <2>3
<1>4. DropAt(s, i) = a \o b
  BY DEF DropAt
<1> HIDE DEF a, b
<1>5. /\ a \o b \in Seq(S)
      /\ Len(a \o b) = Len(a) + Len(b)
      /\ \A j \in 1 .. Len(a) + Len(b) :
           (a \o b)[j] = IF j <= Len(a) THEN a[j] ELSE b[j - Len(a)]
  BY <1>2, <1>3, ConcatProperties
<1>6. ASSUME NEW j \in 1 .. Len(s) - 1
      PROVE  /\ j < i => (a \o b)[j] = s[j]
             /\ j >= i => (a \o b)[j] = s[j + 1]
  <2>1. j < i => (a \o b)[j] = a[j]
    BY <1>0, <1>2, <1>3, <1>5
  <2>2. j >= i => (a \o b)[j] = b[j - (i - 1)]
    BY <1>0, <1>2, <1>3, <1>5
  <2>3. j >= i => j - (i - 1) \in 1 .. Len(s) - i /\ i + (j - (i - 1)) = j + 1
    BY <1>0
  <2>4. j >= i => b[j - (i - 1)] = s[j + 1]
    <3>1. j >= i => b[j - (i - 1)] = s[i + (j - (i - 1))]
      BY <1>3, <2>3
    <3>2. QED BY <2>3, <3>1
  <2>5. j < i => a[j] = s[j]
    BY <1>0, <1>2
  <2>6. QED BY <2>1, <2>2, <2>4, <2>5
<1>7. QED BY <1>0, <1>2, <1>3, <1>4, <1>5, <1>6

(* remove forgets the page, and only that page. *)
LEMMA DropProperties ==
  ASSUME NEW S, NEW s \in Seq(S), NEW p, TrackedOnce(s)
  PROVE  /\ Drop(s, p) \in Seq(S)
         /\ TrackedOnce(Drop(s, p))
         /\ Tracked(Drop(s, p)) = Tracked(s) \ {p}
<1>1. CASE p \notin Tracked(s)
  BY <1>1 DEF Drop
<1>2. CASE p \in Tracked(s)
  <2> DEFINE i == CHOOSE i \in 1 .. Len(s) : s[i] = p
             d == DropAt(s, i)
  <2>0. Len(s) \in Nat
    BY LenProperties
  <2>1. i \in 1 .. Len(s) /\ s[i] = p
    BY <1>2 DEF Tracked
  <2>2. Drop(s, p) = d
    BY <1>2 DEF Drop
  <2> HIDE DEF i
  <2>3. /\ d \in Seq(S)
        /\ Len(d) = Len(s) - 1
        /\ \A j \in 1 .. Len(s) - 1 :
             /\ j < i => d[j] = s[j]
             /\ j >= i => d[j] = s[j + 1]
    BY <2>1, DropAtPlaces
  <2> HIDE DEF d
  <2>4. TrackedOnce(d)
    <3> SUFFICES ASSUME NEW j \in 1 .. Len(d), NEW k \in 1 .. Len(d), d[j] = d[k]
                 PROVE  j = k
      BY DEF TrackedOnce
    <3>1. \E x \in {j, j + 1} : x \in 1 .. Len(s) /\ d[j] = s[x] /\ (x = j <=> j < i)
      BY <2>0, <2>1, <2>3
    <3>2. \E y \in {k, k + 1} : y \in 1 .. Len(s) /\ d[k] = s[y] /\ (y = k <=> k < i)
      BY <2>0, <2>1, <2>3
    <3>3. PICK x \in {j, j + 1} : x \in 1 .. Len(s) /\ d[j] = s[x] /\ (x = j <=> j < i)
      BY <3>1
    <3>4. PICK y \in {k, k + 1} : y \in 1 .. Len(s) /\ d[k] = s[y] /\ (y = k <=> k < i)
      BY <3>2
    <3>5. x = y
      BY <3>3, <3>4 DEF TrackedOnce
    <3>6. QED BY <2>0, <2>1, <2>3, <3>3, <3>4, <3>5
  <2>5. Tracked(d) = Tracked(s) \ {p}
    <3>1. ASSUME NEW q \in Tracked(d) PROVE q \in Tracked(s) \ {p}
      <4>1. PICK j \in 1 .. Len(d) : q = d[j]
        BY DEF Tracked
      <4>2. \E x \in {j, j + 1} : x \in 1 .. Len(s) /\ d[j] = s[x] /\ x # i
        BY <2>0, <2>1, <2>3
      <4>3. QED BY <2>1, <4>1, <4>2 DEF Tracked, TrackedOnce
    <3>2. ASSUME NEW q \in Tracked(s), q # p PROVE q \in Tracked(d)
      <4>1. PICK x \in 1 .. Len(s) : q = s[x]
        BY DEF Tracked
      <4>2. x # i
        BY <2>1, <3>2, <4>1
      <4>3. \E j \in {x, x - 1} : j \in 1 .. Len(d) /\ d[j] = s[x]
        <5>1. CASE x < i
          BY <2>0, <2>1, <2>3, <5>1
        <5>2. CASE x > i
          <6>1. x - 1 \in 1 .. Len(s) - 1 /\ x - 1 >= i /\ (x - 1) + 1 = x
            BY <2>0, <2>1, <5>2
          <6>2. QED BY <2>3, <6>1
        <5>3. QED BY <2>0, <2>1, <4>2, <5>1, <5>2
      <4>4. QED BY <4>1, <4>3 DEF Tracked
    <3>3. QED BY <3>1, <3>2
  <2>6. QED BY <2>2, <2>3, <2>4, <2>5
<1>3. QED BY <1>1, <1>2

(* record_access adds the page to those tracked, wherever it was before. *)
LEMMA TouchProperties ==
  ASSUME NEW S, NEW s \in Seq(S), NEW p \in S, TrackedOnce(s)
  PROVE  /\ Touch(s, p) \in Seq(S)
         /\ TrackedOnce(Touch(s, p))
         /\ Tracked(Touch(s, p)) = Tracked(s) \cup {p}
<1> DEFINE d == Drop(s, p)
           t == <<p>> \o d
<1>1. /\ d \in Seq(S)
      /\ TrackedOnce(d)
      /\ Tracked(d) = Tracked(s) \ {p}
  BY DropProperties
<1>2. Touch(s, p) = t
  BY DEF Touch
<1> HIDE DEF d
<1>3. <<p>> \in Seq(S) /\ Len(<<p>>) = 1 /\ <<p>>[1] = p
  OBVIOUS
<1>4. Len(d) \in Nat
  BY <1>1, LenProperties
<1>5. /\ t \in Seq(S)
      /\ Len(t) = Len(<<p>>) + Len(d)
      /\ \A j \in 1 .. Len(<<p>>) + Len(d) :
           t[j] = IF j <= Len(<<p>>) THEN <<p>>[j] ELSE d[j - Len(<<p>>)]
  BY <1>1, <1>3, ConcatProperties
<1> HIDE DEF t
<1>6. /\ Len(t) = Len(d) + 1
      /\ t[1] = p
      /\ \A j \in 1 .. Len(d) : t[j + 1] = d[j]
  <2>1. \A j \in 1 .. Len(d) : j + 1 \in 1 .. 1 + Len(d) /\ ~ (j + 1 <= 1) /\ (j + 1) - 1 = j
    BY <1>4
  <2>2. QED BY <1>3, <1>4, <1>5, <2>1
<1>7. \A j \in 1 .. Len(t) : j = 1 \/ \E k \in 1 .. Len(d) : j = k + 1
  <2> SUFFICES ASSUME NEW j \in 1 .. Len(t), j # 1
               PROVE  \E k \in 1 .. Len(d) : j = k + 1
    OBVIOUS
  <2>1. j - 1 \in 1 .. Len(d) /\ j = (j - 1) + 1
    BY <1>4, <1>6
  <2>2. QED BY <2>1
<1>8. \A j \in 1 .. Len(d) : d[j] # p
  BY <1>1 DEF Tracked
<1>9. TrackedOnce(t)
  <2> SUFFICES ASSUME NEW j \in 1 .. Len(t), NEW k \in 1 .. Len(t), t[j] = t[k]
               PROVE  j = k
    BY DEF TrackedOnce
  <2>1. CASE j = 1
    BY <1>6, <1>7, <1>8, <2>1
  <2>2. CASE k = 1
    BY <1>6, <1>7, <1>8, <2>2
  <2>3. CASE j # 1 /\ k # 1
    <3>1. PICK m \in 1 .. Len(d) : j = m + 1
      BY <1>7, <2>3
    <3>2. PICK n \in 1 .. Len(d) : k = n + 1
      BY <1>7, <2>3
    <3>3. d[m] = d[n]
      BY <1>6, <3>1, <3>2
    <3>4. QED BY <1>1, <3>1, <3>2, <3>3 DEF TrackedOnce
  <2>4. QED BY <2>1, <2>2, <2>3
<1>10. Tracked(t) = Tracked(d) \cup {p}
  <2>1. ASSUME NEW q \in Tracked(t) PROVE q \in Tracked(d) \cup {p}
    <3>1. PICK j \in 1 .. Len(t) : q = t[j]
      BY DEF Tracked
    <3>2. CASE j = 1
      BY <1>6, <3>1, <3>2
    <3>3. CASE j # 1
      <4>1. PICK k \in 1 .. Len(d) : j = k + 1
        BY <1>7, <3>3
      <4>2. q = d[k]
        BY <1>6, <3>1, <4>1
      <4>3. QED BY <4>2 DEF Tracked
    <3>4. QED BY <3>2, <3>3
  <2>2. p \in Tracked(t)
    BY <1>4, <1>6 DEF Tracked
  <2>3. ASSUME NEW q \in Tracked(d) PROVE q \in Tracked(t)
    <3>1. PICK j \in 1 .. Len(d) : q = d[j]
      BY DEF Tracked
    <3>2. j + 1 \in 1 .. Len(t) /\ t[j + 1] = q
      BY <1>4, <1>6, <3>1
    <3>3. QED BY <3>2 DEF Tracked
  <2>4. QED BY <2>1, <2>2, <2>3
<1>11. QED BY <1>1, <1>2, <1>5, <1>9, <1>10

(* The victim of an eviction is a tracked page that nobody holds. *)
LEMMA VictimIsTracked ==
  ASSUME NEW s, NEW held, NEW p, IsVictim(s, held, p)
  PROVE  p \in Tracked(s) /\ p \notin held
BY DEF IsVictim, Tracked


-----------------------------------------------------------------------------
(* The header holds next_free_offset, the slots contents of pages.         *)
HeaderContent == {Blank} \cup 0 .. MaxPage + 1

(* The file: what a read returns is one of the images that may survive.    *)
FileOK ==
  /\ disk \in [File -> Int]
  /\ platter \in [File -> SUBSET Int]
  /\ forced \in 0 .. MaxLsn
  /\ \A p \in Pages : disk[p] \in platter[p]
  /\ \A p \in Pages : platter[p] \subseteq Content
  /\ disk[Header] \in HeaderContent
  /\ platter[Header] \subseteq HeaderContent

(* The table and the replacer. *)
TableOK ==
  /\ page_table \in [Pages -> Node \cup {NoFrame}]
  /\ replacer \in Seq(Pages)
  /\ ReplacerAgrees
  /\ PoolBounded

(* The counters, the clients and the history. *)
ClientsOK ==
  /\ pins \in [Pages -> Nat]
  /\ orphans \in [Pages -> Nat]
  /\ next_free \in 0 .. MaxPage + 1
  /\ lsn \in 0 .. MaxLsn
  /\ latest \in [Pages -> Content]
  /\ reissued \subseteq Pages
  /\ crashes \in 0 .. MaxCrashes

(* flush_all_pages collects the keys of the table, and the table stays as  *)
(* it is until the call ends.                                              *)
FlushOK ==
  /\ flush \in (SUBSET Pages) \cup {Idle}
  /\ flush # Idle => flush \subseteq Cached
  /\ goal \in [Pages -> Content]
  /\ checkpoint \in [Pages -> Content]

PoolInv == FileOK /\ TableOK /\ ClientsOK /\ FlushOK

-----------------------------------------------------------------------------
(* What the assumptions on the constants say of the sets built from them.  *)
LEMMA PoolConstants ==
  /\ PoolSize \in Nat /\ MaxPage \in Nat /\ MaxLsn \in Nat
  /\ MaxPins \in Nat /\ MaxCrashes \in Nat
  /\ HasWal \in BOOLEAN /\ IoFails \in BOOLEAN
  /\ Pages \subseteq File /\ Pages \subseteq Nat /\ 0 \in Pages
  /\ Header \in File /\ Header \notin Pages /\ NoPage \notin Pages
  /\ NoFrame \notin Node
  /\ Blank \in Content /\ 0 \in Content /\ Content \subseteq Int
  /\ IsFiniteSet(Pages)
<1>1. Pages \subseteq File /\ Pages \subseteq Nat /\ 0 \in Pages
  BY PoolAssumption DEF Pages, File
<1>2. IsFiniteSet(Pages)
  BY PoolAssumption, FS_Interval DEF Pages
<1>3. NoFrame \notin Node
  <2>1. Node \subseteq [content : Int, dirty : BOOLEAN]
    BY PoolAssumption DEF Node, Content, Blank
  <2>2. QED BY <2>1, PoolAssumption
<1>4. QED
  BY <1>1, <1>2, <1>3, PoolAssumption DEF File, Header, NoPage, Content, Blank

(* The four parts say at least what the run's type invariant says. *)
LEMMA PoolInvTypeOK == PoolInv => TypeOK
<1> SUFFICES ASSUME PoolInv PROVE TypeOK
  OBVIOUS
<1>1. /\ \A p \in Pages : disk[p] \in Content
      /\ disk[Header] \in {Blank} \cup 0 .. MaxPage + 1
  BY PoolConstants DEF PoolInv, FileOK, HeaderContent
<1>2. QED
  BY <1>1 DEF PoolInv, FileOK, TableOK, ClientsOK, FlushOK, TypeOK

(* The frame of a cached page is a node, so its content and dirty flag are *)
(* typed (page_table).                                                     *)
LEMMA FrameOfCached ==
  ASSUME TableOK, NEW p \in Cached
  PROVE  /\ p \in Pages
         /\ page_table[p] \in Node
         /\ page_table[p].content \in Content
         /\ page_table[p].dirty \in BOOLEAN
<1>1. p \in Pages /\ page_table[p] \in Node
  BY DEF TableOK, Cached
<1>2. QED BY <1>1 DEF Node

-----------------------------------------------------------------------------
(* Effects on the file.                                                    *)

(* The LSN flush_page forces the log up to is typed, never below what is   *)
(* already forced, and covers the page it is about to write                *)
(* (buffer_pool.rs:96-99).                                                 *)
LEMMA ForcedType ==
  ASSUME PoolInv, NEW p \in Cached
  PROVE  /\ Forced(p) \in 0 .. MaxLsn
         /\ Forced(p) >= forced
         /\ HasWal /\ page_table[p].dirty => Forced(p) >= page_table[p].content
<1>1. page_table[p].content \in Content /\ page_table[p].dirty \in BOOLEAN
  BY FrameOfCached DEF PoolInv
<1>2. forced \in 0 .. MaxLsn
  BY DEF PoolInv, FileOK
<1> DEFINE c == page_table[p].content
           d == page_table[p].dirty
<1>3. CASE HasWal /\ d /\ c > forced
  <2>1. Forced(p) = c
    BY <1>3 DEF Forced
  <2> HIDE DEF c, d
  <2>2. c \in Int /\ c <= MaxLsn
    BY <1>1, PoolConstants DEF c, Content, Blank
  <2>3. QED BY <1>2, <1>3, <2>1, <2>2, PoolConstants DEF c
<1>4. CASE ~ (HasWal /\ d /\ c > forced)
  <2>1. Forced(p) = forced
    BY <1>4 DEF Forced
  <2>2. c \in Int
    BY <1>1, PoolConstants
  <2>3. HasWal /\ d => forced >= c
    <3> HIDE DEF c, d
    <3>1. QED BY <1>2, <1>4, <2>2, PoolConstants
  <2>4. QED BY <1>2, <2>1, <2>3, PoolConstants
<1>5. QED BY <1>3, <1>4

(* Writing a page keeps the file well typed, and it survives or not. *)
LEMMA FlushedFile ==
  ASSUME PoolInv, NEW p \in Cached, Flushed(p)
  PROVE  FileOK'
<1> DEFINE c == page_table[p].content
<1>1. p \in Pages /\ c \in Content /\ c \in Int /\ p \in File /\ p # Header
  BY FrameOfCached, PoolConstants DEF PoolInv
<1>2. FileOK
  BY DEF PoolInv
<1>3. forced' \in 0 .. MaxLsn
  BY ForcedType DEF Flushed
<1>4. CASE page_table[p].dirty
  <2>1. disk' = PageWritten(p, c) /\ platter' = [platter EXCEPT ![p] = @ \cup {c}]
    BY <1>4 DEF Flushed
  <2> HIDE DEF c
  <2>2. /\ disk' \in [File -> Int]
        /\ disk'[p] = c
        /\ \A q \in Pages : q # p => disk'[q] = disk[q]
        /\ disk'[Header] \in HeaderContent
    BY <1>1, <1>2, <2>1, PoolConstants DEF FileOK, PageWritten, HeaderContent
  <2>3. /\ platter' \in [File -> SUBSET Int]
        /\ platter'[Header] = platter[Header]
        /\ \A q \in Pages : platter'[q] = IF q = p THEN platter[q] \cup {c} ELSE platter[q]
    BY <1>1, <1>2, <2>1, PoolConstants DEF FileOK
  <2>4. QED BY <1>1, <1>2, <1>3, <2>2, <2>3 DEF FileOK
<1>5. CASE ~ page_table[p].dirty
  <2>1. disk' = disk /\ platter' = platter
    BY <1>5 DEF Flushed
  <2>2. QED BY <1>2, <1>3, <2>1 DEF FileOK
<1>6. QED BY <1>4, <1>5

(* A flush that fails keeps the types of the file (buffer_pool.rs:98-102). *)
LEMMA FlushFailedFile ==
  ASSUME PoolInv, NEW p \in Cached, FlushFailed(p)
  PROVE  FileOK'
<1>1. forced' \in 0 .. MaxLsn
  BY ForcedType DEF FlushFailed, PoolInv, FileOK
<1>2. QED BY <1>1 DEF FlushFailed, PoolInv, FileOK

(* The victim that makes room is a cached page without a client. *)
LEMMA RoomMadeFile ==
  ASSUME PoolInv, NEW v \in Pages \cup {NoPage}, RoomMade(v)
  PROVE  /\ FileOK'
         /\ Full => v \in Cached /\ v \notin Pinned /\ Flushed(v)
         /\ ~ Full => v = NoPage /\ UNCHANGED fileVars
<1>1. CASE Full
  <2>1. IsVictim(replacer, Pinned, v) /\ Flushed(v)
    BY <1>1 DEF RoomMade
  <2>2. v \in Cached /\ v \notin Pinned
    BY <2>1, VictimIsTracked DEF PoolInv, TableOK, ReplacerAgrees
  <2>3. QED BY <1>1, <2>1, <2>2, FlushedFile
<1>2. CASE ~ Full
  <2>1. v = NoPage /\ UNCHANGED fileVars
    BY <1>2 DEF RoomMade
  <2>2. QED BY <1>2, <2>1 DEF PoolInv, FileOK, fileVars
<1>3. QED BY <1>1, <1>2

-----------------------------------------------------------------------------
(* Effects on the table.                                                   *)

(* The cached pages are finitely many, so the pool can count them.         *)
LEMMA CachedFinite == Cached \subseteq Pages /\ IsFiniteSet(Cached)
<1>1. Cached \subseteq Pages
  BY DEF Cached
<1>2. QED BY <1>1, PoolConstants, FS_Subset

(* A frame enters the table, in the place of the victim's if it was full. *)
LEMMA FrameAdded ==
  ASSUME PoolInv, NEW v \in Pages \cup {NoPage}, NEW p \in Pages, NEW n \in Node,
         Full => v \in Cached,
         page_table' = TableWith(v, p, n),
         replacer' = Touch(Drop(replacer, v), p)
  PROVE  TableOK' /\ Cached' = (Cached \ {v}) \cup {p}
<1>1. page_table' \in [Pages -> Node \cup {NoFrame}]
  BY DEF PoolInv, TableOK, TableWith
<1>2. Cached' = (Cached \ {v}) \cup {p}
  <2>1. \A q \in Pages : page_table'[q] # NoFrame <=> q = p \/ (q # v /\ page_table[q] # NoFrame)
    BY PoolConstants DEF TableWith
  <2>2. QED BY <2>1 DEF Cached
<1>3. /\ replacer \in Seq(Pages)
      /\ TrackedOnce(replacer)
      /\ Tracked(replacer) \subseteq Cached
  BY DEF PoolInv, TableOK, ReplacerAgrees, TrackedOnce
<1>4. /\ Drop(replacer, v) \in Seq(Pages)
      /\ TrackedOnce(Drop(replacer, v))
      /\ Tracked(Drop(replacer, v)) = Tracked(replacer) \ {v}
  BY <1>3, DropProperties
<1>5. /\ replacer' \in Seq(Pages)
      /\ TrackedOnce(replacer')
      /\ Tracked(replacer') = Tracked(Drop(replacer, v)) \cup {p}
  <2> DEFINE d == Drop(replacer, v)
             t == Touch(d, p)
  <2>1. d \in Seq(Pages) /\ TrackedOnce(d)
    BY <1>4
  <2> HIDE DEF d
  <2>2. t \in Seq(Pages) /\ TrackedOnce(t) /\ Tracked(t) = Tracked(d) \cup {p}
    BY <2>1, TouchProperties
  <2>3. replacer' = t
    BY DEF d
  <2> HIDE DEF t
  <2>4. QED BY <2>2, <2>3 DEF d
<1>6. Tracked(replacer') \subseteq Cached'
  BY <1>2, <1>3, <1>4, <1>5
<1>7. ReplacerAgrees'
  BY <1>5, <1>6 DEF ReplacerAgrees, TrackedOnce
<1>8. Cardinality(Cached') <= PoolSize
  <2>1. IsFiniteSet(Cached) /\ IsFiniteSet(Cached \ {v})
    BY CachedFinite, FS_RemoveElement
  <2>2. Cardinality(Cached) \in Nat /\ Cardinality(Cached \ {v}) \in Nat
    BY <2>1, FS_CardinalityType
  <2>3. Cardinality((Cached \ {v}) \cup {p}) <= Cardinality(Cached \ {v}) + 1
    <3>1. Cardinality((Cached \ {v}) \cup {p}) =
            IF p \in Cached \ {v} THEN Cardinality(Cached \ {v}) ELSE Cardinality(Cached \ {v}) + 1
      BY <2>1, FS_AddElement
    <3>2. QED BY <2>2, <3>1
  <2>4. Cardinality(Cached) <= PoolSize
    BY DEF PoolInv, TableOK, PoolBounded
  <2>5. CASE v \in Cached
    <3>1. Cardinality(Cached \ {v}) = Cardinality(Cached) - 1
      BY <2>1, <2>5, FS_RemoveElement
    <3>2. Cardinality((Cached \ {v}) \cup {p}) \in Nat
      BY <2>1, FS_AddElement, FS_CardinalityType
    <3>3. Cardinality((Cached \ {v}) \cup {p}) <= PoolSize
      BY <2>2, <2>3, <2>4, <3>1, <3>2, PoolConstants
    <3>4. QED BY <1>2, <3>3
  <2>6. CASE v \notin Cached
    <3>1. Cached \ {v} = Cached
      BY <2>6
    <3>2. Cardinality(Cached) < PoolSize
      BY <2>2, <2>6, PoolConstants DEF Full
    <3>3. Cardinality((Cached \ {v}) \cup {p}) \in Nat
      BY <2>1, FS_AddElement, FS_CardinalityType
    <3>4. Cardinality((Cached \ {v}) \cup {p}) <= Cardinality(Cached) + 1
      BY <2>3, <3>1
    <3>5. Cardinality((Cached \ {v}) \cup {p}) <= PoolSize
      BY <2>2, <3>2, <3>3, <3>4, PoolConstants
    <3>6. QED BY <1>2, <3>5
  <2>7. QED BY <2>5, <2>6
<1>9. QED BY <1>1, <1>2, <1>5, <1>7, <1>8 DEF TableOK, PoolBounded

(* The victim leaves the table and no frame takes its place. *)
LEMMA FrameDropped ==
  ASSUME PoolInv, NEW v \in Cached,
         page_table' = TableWith(v, v, NoFrame),
         replacer' = Drop(replacer, v)
  PROVE  TableOK'
<1>1. page_table' \in [Pages -> Node \cup {NoFrame}]
  BY DEF PoolInv, TableOK, TableWith
<1>2. Cached' = Cached \ {v}
  <2>1. \A q \in Pages : page_table'[q] # NoFrame <=> q # v /\ page_table[q] # NoFrame
    BY PoolConstants DEF TableWith
  <2>2. QED BY <2>1 DEF Cached
<1>3. /\ replacer' \in Seq(Pages)
      /\ TrackedOnce(replacer')
      /\ Tracked(replacer') = Tracked(replacer) \ {v}
  BY DropProperties DEF PoolInv, TableOK, ReplacerAgrees, TrackedOnce
<1>4. ReplacerAgrees'
  BY <1>2, <1>3 DEF PoolInv, TableOK, ReplacerAgrees, TrackedOnce
<1>5. Cardinality(Cached') <= PoolSize
  <2>1. /\ Cardinality(Cached) \in Nat
        /\ Cardinality(Cached \ {v}) = Cardinality(Cached) - 1
    BY CachedFinite, FS_RemoveElement, FS_CardinalityType
  <2>2. QED BY <1>2, <2>1, PoolConstants DEF PoolInv, TableOK, PoolBounded
<1>6. QED BY <1>1, <1>3, <1>4, <1>5 DEF TableOK, PoolBounded

(* Frames change, the table keeps its pages; the replacer keeps its order  *)
(* or loses a page.                                                        *)
LEMMA FramesChanged ==
  ASSUME PoolInv,
         page_table' \in [Pages -> Node \cup {NoFrame}],
         \A p \in Pages : page_table'[p] # NoFrame <=> page_table[p] # NoFrame,
         UNCHANGED replacer
  PROVE  TableOK' /\ Cached' = Cached
<1>1. Cached' = Cached
  BY DEF Cached
<1>2. QED BY <1>1 DEF PoolInv, TableOK, ReplacerAgrees, PoolBounded

(* A step that leaves page_table alone and permutes or shortens the        *)
(* recency order keeps the table and the replacer in agreement.            *)
LEMMA OrderChanged ==
  ASSUME PoolInv, UNCHANGED page_table,
         replacer' \in Seq(Pages), TrackedOnce(replacer'),
         Tracked(replacer') \subseteq Cached
  PROVE  TableOK' /\ Cached' = Cached
<1>1. Cached' = Cached
  BY DEF Cached
<1>2. QED BY <1>1 DEF PoolInv, TableOK, ReplacerAgrees, PoolBounded, TrackedOnce

-----------------------------------------------------------------------------
(* BufferPool::new over an empty file establishes the invariant.           *)
LEMMA PoolInvInit == Init => PoolInv
<1> SUFFICES ASSUME Init PROVE PoolInv
  OBVIOUS
<1>1. FileOK
  BY PoolConstants DEF Init, FileOK, HeaderContent
<1>2. TableOK
  <2>1. Cached = {}
    BY DEF Init, Cached
  <2>2. Cardinality(Cached) = 0
    BY <2>1, FS_EmptySet
  <2>3. replacer \in Seq(Pages) /\ Len(replacer) = 0
    BY DEF Init
  <2>4. ReplacerAgrees
    BY <2>3 DEF ReplacerAgrees, Tracked
  <2>5. QED BY <2>2, <2>3, <2>4, PoolConstants DEF Init, TableOK, PoolBounded
<1>3. ClientsOK
  BY PoolConstants DEF Init, ClientsOK
<1>4. FlushOK
  BY PoolConstants DEF Init, FlushOK
<1>5. QED BY <1>1, <1>2, <1>3, <1>4 DEF PoolInv

(* The flush part survives every step that leaves flush_all_pages alone    *)
(* and does not empty the table under it.                                  *)
LEMMA FlushUntouched ==
  ASSUME PoolInv, UNCHANGED flushVars, flush = Idle \/ Cached' = Cached
  PROVE  FlushOK'
BY DEF PoolInv, FlushOK, flushVars

(* fetch_page, hit, miss or failed read, preserves the invariant           *)
(* (buffer_pool.rs:52-73).                                                 *)
LEMMA FetchKeepsInv ==
  ASSUME PoolInv, NEW p \in Pages, FetchHit(p) \/ FetchMiss(p) \/ FetchReadFails(p)
  PROVE  PoolInv'
<1>1. CASE FetchHit(p)
  <2>1. FileOK'
    BY <1>1 DEF FetchHit, PoolInv, FileOK, fileVars
  <2>2. TableOK' /\ Cached' = Cached
    <3> DEFINE t == Touch(replacer, p)
    <3>1. /\ replacer \in Seq(Pages)
          /\ TrackedOnce(replacer)
          /\ Tracked(replacer) \subseteq Cached
      BY DEF PoolInv, TableOK, ReplacerAgrees, TrackedOnce
    <3>2. t \in Seq(Pages) /\ TrackedOnce(t) /\ Tracked(t) = Tracked(replacer) \cup {p}
      BY <3>1, TouchProperties
    <3>3. replacer' = t /\ UNCHANGED page_table /\ p \in Cached
      BY <1>1 DEF FetchHit
    <3> HIDE DEF t
    <3>4. QED BY <3>1, <3>2, <3>3, OrderChanged
  <2>3. ClientsOK'
    BY <1>1 DEF FetchHit, PoolInv, ClientsOK, histVars
  <2>4. FlushOK'
    BY <1>1, <2>2, FlushUntouched DEF FetchHit
  <2>5. QED BY <2>1, <2>2, <2>3, <2>4 DEF PoolInv
<1>2. CASE FetchMiss(p)
  <2> DEFINE n == [content |-> disk[p], dirty |-> FALSE]
  <2>1. n \in Node
    BY PoolConstants DEF PoolInv, FileOK, Node
  <2>2. PICK v \in Pages \cup {NoPage} :
          /\ RoomMade(v)
          /\ page_table' = TableWith(v, p, n)
          /\ replacer' = Touch(Drop(replacer, v), p)
    BY <1>2 DEF FetchMiss
  <2> HIDE DEF n
  <2>3. FileOK' /\ (Full => v \in Cached)
    BY <2>2, RoomMadeFile
  <2>4. TableOK'
    BY <2>1, <2>2, <2>3, FrameAdded
  <2>5. ClientsOK'
    BY <1>2 DEF FetchMiss, PoolInv, ClientsOK, histVars
  <2>6. FlushOK'
    BY <1>2, FlushUntouched DEF FetchMiss
  <2>7. QED BY <2>3, <2>4, <2>5, <2>6 DEF PoolInv
<1>3. CASE FetchReadFails(p)
  <2>1. PICK v \in Pages :
          /\ RoomMade(v)
          /\ page_table' = TableWith(v, v, NoFrame)
          /\ replacer' = Drop(replacer, v)
    BY <1>3 DEF FetchReadFails
  <2>2. FileOK' /\ v \in Cached
    BY <2>1, RoomMadeFile, PoolConstants
  <2>3. TableOK'
    BY <2>1, <2>2, FrameDropped
  <2>4. ClientsOK'
    BY <1>3 DEF FetchReadFails, PoolInv, ClientsOK, histVars
  <2>5. FlushOK'
    BY <1>3, FlushUntouched DEF FetchReadFails
  <2>6. QED BY <2>2, <2>3, <2>4, <2>5 DEF PoolInv
<1>4. QED BY <1>1, <1>2, <1>3

(* new_page preserves the invariant, also when it replaces a frame         *)
(* (buffer_pool.rs:76-89).                                                 *)
LEMMA NewPageKeepsInv ==
  ASSUME PoolInv, NewPage
  PROVE  PoolInv'
<1> DEFINE p == next_free
           n == [content |-> 0, dirty |-> FALSE]
<1>1. p \in Pages /\ n \in Node
  BY PoolConstants DEF NewPage, Node
<1>2. PICK v \in Pages \cup {NoPage} :
        /\ RoomMade(v)
        /\ page_table' = TableWith(v, p, n)
        /\ replacer' = Touch(Drop(replacer, v), p)
  BY DEF NewPage
<1>3. FileOK' /\ (Full => v \in Cached)
  BY <1>2, RoomMadeFile
<1> HIDE DEF n
<1>4. TableOK'
  <2>1. \A q \in Pages : q = p => page_table' = TableWith(v, q, n) /\ replacer' = Touch(Drop(replacer, v), q)
    BY <1>2
  <2> HIDE DEF p
  <2>2. PICK q \in Pages : q = p
    BY <1>1
  <2>3. page_table' = TableWith(v, q, n) /\ replacer' = Touch(Drop(replacer, v), q)
    BY <2>1, <2>2
  <2>4. QED BY <1>1, <1>3, <2>3, FrameAdded
<1>5. ClientsOK'
  <2>1. next_free' \in 0 .. MaxPage + 1
    BY <1>1, PoolConstants DEF NewPage, Pages
  <2>2. orphans' \in [Pages -> Nat] /\ pins' \in [Pages -> Nat]
    BY <1>1 DEF NewPage, PoolInv, ClientsOK
  <2>3. /\ latest' \in [Pages -> Content] /\ lsn' = lsn /\ crashes' = crashes
        /\ reissued' \subseteq Pages
    BY <1>1, PoolConstants DEF NewPage, PoolInv, ClientsOK, Reissued
  <2>4. QED BY <2>1, <2>2, <2>3 DEF PoolInv, ClientsOK
<1>6. FlushOK'
  BY FlushUntouched DEF NewPage
<1>7. QED BY <1>3, <1>4, <1>5, <1>6 DEF PoolInv

(* An eviction whose flush fails untracks the victim and preserves the     *)
(* invariant (buffer_pool.rs:121-138).                                     *)
LEMMA EvictFailsKeepsInv ==
  ASSUME PoolInv, EvictFails
  PROVE  PoolInv'
<1>1. PICK v \in Pages :
        /\ IsVictim(replacer, Pinned, v)
        /\ FlushFailed(v)
        /\ replacer' = Drop(replacer, v)
  BY DEF EvictFails
<1>2. v \in Cached
  BY <1>1, VictimIsTracked DEF PoolInv, TableOK, ReplacerAgrees
<1>3. FileOK'
  BY <1>1, <1>2, FlushFailedFile
<1>4. TableOK' /\ Cached' = Cached
  <2> DEFINE d == Drop(replacer, v)
  <2>1. /\ replacer \in Seq(Pages)
        /\ TrackedOnce(replacer)
        /\ Tracked(replacer) \subseteq Cached
    BY DEF PoolInv, TableOK, ReplacerAgrees, TrackedOnce
  <2>2. d \in Seq(Pages) /\ TrackedOnce(d) /\ Tracked(d) = Tracked(replacer) \ {v}
    BY <2>1, DropProperties
  <2>3. replacer' = d /\ UNCHANGED page_table
    BY <1>1 DEF EvictFails
  <2> HIDE DEF d
  <2>4. QED BY <2>1, <2>2, <2>3, OrderChanged
<1>5. ClientsOK'
  BY DEF EvictFails, PoolInv, ClientsOK, histVars
<1>6. FlushOK'
  BY <1>4, FlushUntouched DEF EvictFails
<1>7. QED BY <1>3, <1>4, <1>5, <1>6 DEF PoolInv

(* Clearing a frame's dirty bit, or writing through the frame, keeps the   *)
(* table's pages.                                                          *)
LEMMA FrameRewritten ==
  ASSUME PoolInv, NEW p \in Cached, NEW n \in Node,
         page_table' = [page_table EXCEPT ![p] = n],
         UNCHANGED replacer
  PROVE  TableOK' /\ Cached' = Cached
<1>1. p \in Pages /\ page_table \in [Pages -> Node \cup {NoFrame}]
  BY FrameOfCached DEF PoolInv, TableOK
<1>2. page_table' \in [Pages -> Node \cup {NoFrame}]
  BY <1>1
<1>3. \A q \in Pages : page_table'[q] # NoFrame <=> page_table[q] # NoFrame
  BY <1>1, PoolConstants DEF Cached
<1>4. QED BY <1>2, <1>3, FramesChanged

(* clear_dirty changes the dirty flag of one frame and nothing else        *)
(* (page.rs:371-377).                                                      *)
LEMMA CleanFrame ==
  ASSUME PoolInv, NEW p \in Cached
  PROVE  /\ [page_table[p] EXCEPT !.dirty = FALSE] \in Node
         /\ [page_table[p] EXCEPT !.dirty = FALSE].content = page_table[p].content
         /\ [page_table[p] EXCEPT !.dirty = FALSE].dirty = FALSE
         /\ [page_table EXCEPT ![p].dirty = FALSE] =
              [page_table EXCEPT ![p] = [page_table[p] EXCEPT !.dirty = FALSE]]
<1>1. page_table[p] \in Node
  BY FrameOfCached DEF PoolInv
<1>2. QED BY <1>1 DEF Node

(* flush_page preserves the invariant, whether or not it succeeds.         *)
LEMMA FlushPageKeepsInv ==
  ASSUME PoolInv, NEW p \in Pages,
         FlushPage(p) \/ FlushPageFails(p) \/ FlushAllPage(p) \/ FlushAllPageFails(p)
  PROVE  PoolInv'
<1>1. ASSUME p \in Cached, page_table' = [page_table EXCEPT ![p].dirty = FALSE],
             UNCHANGED replacer
      PROVE  TableOK' /\ Cached' = Cached
  BY <1>1, CleanFrame, FrameRewritten
<1>2. CASE FlushPage(p)
  <2>1. FileOK'
    BY <1>2, FlushedFile DEF FlushPage
  <2>2. TableOK' /\ Cached' = Cached
    BY <1>1, <1>2 DEF FlushPage
  <2>3. ClientsOK'
    BY <1>2 DEF FlushPage, PoolInv, ClientsOK, histVars
  <2>4. FlushOK'
    BY <1>2, <2>2, FlushUntouched DEF FlushPage
  <2>5. QED BY <2>1, <2>2, <2>3, <2>4 DEF PoolInv
<1>3. CASE FlushPageFails(p)
  <2>1. FileOK'
    BY <1>3, FlushFailedFile DEF FlushPageFails
  <2>2. QED
    BY <1>3, <2>1 DEF FlushPageFails, PoolInv, TableOK, ReplacerAgrees, PoolBounded,
                      ClientsOK, FlushOK, Cached, poolVars, histVars, flushVars
<1>4. CASE FlushAllPage(p)
  <2>1. p \in Cached
    BY <1>4 DEF FlushAllPage, PoolInv, FlushOK
  <2>2. FileOK'
    BY <1>4, <2>1, FlushedFile DEF FlushAllPage
  <2>3. TableOK' /\ Cached' = Cached
    BY <1>1, <1>4, <2>1 DEF FlushAllPage
  <2>4. ClientsOK'
    BY <1>4 DEF FlushAllPage, PoolInv, ClientsOK, histVars
  <2>5. FlushOK'
    <3>1. flush \in SUBSET Pages /\ flush \subseteq Cached
      BY <1>4 DEF FlushAllPage, PoolInv, FlushOK
    <3>2. QED BY <1>4, <2>3, <3>1 DEF FlushAllPage, PoolInv, FlushOK
  <2>6. QED BY <2>2, <2>3, <2>4, <2>5 DEF PoolInv
<1>5. CASE FlushAllPageFails(p)
  <2>1. p \in Cached
    BY <1>5 DEF FlushAllPageFails, PoolInv, FlushOK
  <2>2. FileOK'
    BY <1>5, <2>1, FlushFailedFile DEF FlushAllPageFails
  <2>3. FlushOK'
    BY <1>5, PoolConstants DEF FlushAllPageFails, FlushAllEnd, PoolInv, FlushOK
  <2>4. QED
    BY <1>5, <2>2, <2>3 DEF FlushAllPageFails, PoolInv, TableOK, ReplacerAgrees,
                            PoolBounded, ClientsOK, Cached, poolVars, histVars
<1>6. QED BY <1>2, <1>3, <1>4, <1>5

(* What the pool makes of a page is always a page content.                 *)
LEMMA HeldIsContent ==
  ASSUME PoolInv, NEW p \in Pages
  PROVE  Held(p) \in Content
<1>1. CASE p \in Cached
  BY <1>1, FrameOfCached DEF Held, PoolInv
<1>2. CASE p \notin Cached
  BY <1>2, PoolConstants DEF Held, PoolInv, FileOK
<1>3. QED BY <1>1, <1>2

(* A file a read may return: contents of pages, and a header.              *)
FileImage(d) ==
  /\ d \in [File -> Int]
  /\ \A p \in Pages : d[p] \in Content
  /\ d[Header] \in HeaderContent

(* save_header leaves every page but page 0 as it was (page.rs:729).       *)
LEMMA HeaderWrittenImage ==
  ASSUME PoolInv
  PROVE  /\ FileImage(HeaderWritten)
         /\ \A q \in Pages : HeaderWritten[q] = IF q = 0 THEN Blank ELSE disk[q]
<1>1. next_free \in HeaderContent /\ next_free \in Int
  BY PoolConstants DEF PoolInv, ClientsOK, HeaderContent
<1>2. /\ disk \in [File -> Int]
      /\ \A p \in Pages : disk[p] \in Content
  BY PoolConstants DEF PoolInv, FileOK
<1>3. QED BY <1>1, <1>2, PoolConstants DEF HeaderWritten, FileImage, Blank

(* What is synced is what a power loss leaves (page.rs:730).               *)
LEMMA SyncedFile ==
  ASSUME NEW d, FileImage(d)
  PROVE  /\ Synced(d) \in [File -> SUBSET Int]
         /\ \A p \in Pages : Synced(d)[p] = {d[p]} /\ Synced(d)[p] \subseteq Content
         /\ Synced(d)[Header] \subseteq HeaderContent
         /\ d \in [File -> Int] /\ d[Header] \in HeaderContent
BY PoolConstants DEF FileImage, Synced

(* Every step of flush_all_pages preserves the invariant, save_header      *)
(* included (buffer_pool.rs:110-117).                                      *)
LEMMA FlushAllKeepsInv ==
  ASSUME PoolInv, FlushAllBegin \/ SaveHeader \/ SaveHeaderFails
  PROVE  PoolInv'
<1>1. CASE FlushAllBegin
  <2>1. FlushOK'
    <3>1. goal' \in [Pages -> Content]
      BY <1>1, HeldIsContent DEF FlushAllBegin
    <3>2. Cached' = Cached /\ Cached \in SUBSET Pages
      BY <1>1 DEF FlushAllBegin, Cached, poolVars
    <3>3. QED BY <1>1, <3>1, <3>2 DEF FlushAllBegin, PoolInv, FlushOK
  <2>2. QED
    BY <1>1, <2>1 DEF FlushAllBegin, PoolInv, FileOK, TableOK, ReplacerAgrees, PoolBounded,
                      ClientsOK, Cached, poolVars, fileVars, histVars
<1>2. CASE SaveHeader
  <2>1. disk' = HeaderWritten /\ platter' = Synced(disk') /\ forced' = forced
    BY <1>2 DEF SaveHeader
  <2>2. FileOK'
    <3>1. FileImage(disk')
      BY <2>1, HeaderWrittenImage
    <3>2. QED BY <2>1, <3>1, SyncedFile DEF PoolInv, FileOK
  <2>3. FlushOK'
    BY <1>2, PoolConstants DEF SaveHeader, FlushAllEnd, PoolInv, FlushOK
  <2>4. QED
    BY <1>2, <2>2, <2>3 DEF SaveHeader, PoolInv, TableOK, ReplacerAgrees, PoolBounded,
                            ClientsOK, Cached, poolVars
<1>3. CASE SaveHeaderFails
  <2>1. next_free \in HeaderContent /\ next_free \in Int
    BY PoolConstants DEF PoolInv, ClientsOK, HeaderContent
  <2>2. FileOK'
    <3>1. CASE UNCHANGED <<disk, platter>>
      BY <1>3, <3>1 DEF SaveHeaderFails, PoolInv, FileOK
    <3>2. CASE /\ disk' = HeaderWritten
               /\ platter' = [platter EXCEPT ![Header] = @ \cup {next_free},
                                            ![0] = @ \cup {Blank}]
      <4>1. /\ platter' \in [File -> SUBSET Int]
            /\ platter'[Header] = platter[Header] \cup {next_free}
            /\ \A q \in Pages : platter'[q] = IF q = 0 THEN platter[q] \cup {Blank} ELSE platter[q]
        BY <2>1, <3>2, PoolConstants DEF PoolInv, FileOK, Blank
      <4>2. forced' = forced
        BY <1>3 DEF SaveHeaderFails
      <4>3. FileImage(disk') /\ \A q \in Pages : disk'[q] = IF q = 0 THEN Blank ELSE disk[q]
        BY <3>2, HeaderWrittenImage
      <4>4. QED BY <2>1, <4>1, <4>2, <4>3, PoolConstants DEF PoolInv, FileOK, FileImage
    <3>3. QED BY <1>3, <3>1, <3>2 DEF SaveHeaderFails
  <2>3. FlushOK'
    BY <1>3, PoolConstants DEF SaveHeaderFails, FlushAllEnd, PoolInv, FlushOK
  <2>4. QED
    BY <1>3, <2>2, <2>3 DEF SaveHeaderFails, PoolInv, TableOK, ReplacerAgrees, PoolBounded,
                            ClientsOK, Cached, poolVars, histVars
<1>4. QED BY <1>1, <1>2, <1>3

(* A client that writes through a cached frame preserves the invariant.    *)
LEMMA ModifyKeepsInv ==
  ASSUME PoolInv, NEW p \in Pages, p \in Cached, Modify(p)
  PROVE  PoolInv'
<1> DEFINE n == [content |-> lsn + 1, dirty |-> TRUE]
<1>1. lsn + 1 \in 0 .. MaxLsn /\ lsn + 1 \in Content
  BY PoolConstants DEF Modify, PoolInv, ClientsOK, Content, Blank
<1>2. n \in Node
  BY <1>1 DEF Node
<1>3. page_table' = [page_table EXCEPT ![p] = n] /\ UNCHANGED replacer
  BY DEF Modify
<1> HIDE DEF n
<1>4. TableOK' /\ Cached' = Cached
  BY <1>2, <1>3, FrameRewritten
<1>5. ClientsOK'
  BY <1>1 DEF Modify, PoolInv, ClientsOK
<1>6. FlushOK'
  BY <1>4, FlushUntouched DEF Modify
<1>7. FileOK'
  BY DEF Modify, PoolInv, FileOK, fileVars
<1>8. QED BY <1>4, <1>5, <1>6, <1>7 DEF PoolInv

(* The other client steps, on orphaned frames and on references, preserve  *)
(* the invariant.                                                          *)
LEMMA ClientsKeepInv ==
  ASSUME PoolInv, NEW p \in Pages, ModifyOrphan(p) \/ DropHandle(p) \/ DropOrphan(p)
  PROVE  PoolInv'
<1>1. CASE ModifyOrphan(p)
  <2>1. ClientsOK'
    BY <1>1, PoolConstants DEF ModifyOrphan, PoolInv, ClientsOK, poolVars, Content, Blank
  <2>2. QED
    BY <1>1, <2>1 DEF ModifyOrphan, PoolInv, FileOK, TableOK, ReplacerAgrees, PoolBounded,
                      FlushOK, Cached, poolVars, fileVars, flushVars
<1>2. CASE DropHandle(p)
  <2>1. ClientsOK'
    BY <1>2 DEF DropHandle, PoolInv, ClientsOK, histVars
  <2>2. QED
    BY <1>2, <2>1 DEF DropHandle, PoolInv, FileOK, TableOK, ReplacerAgrees, PoolBounded,
                      FlushOK, Cached, fileVars, flushVars
<1>3. CASE DropOrphan(p)
  <2>1. ClientsOK'
    BY <1>3 DEF DropOrphan, PoolInv, ClientsOK, histVars
  <2>2. QED
    BY <1>3, <2>1 DEF DropOrphan, PoolInv, FileOK, TableOK, ReplacerAgrees, PoolBounded,
                      FlushOK, Cached, fileVars, flushVars
<1>4. QED BY <1>1, <1>2, <1>3

(* What a power loss leaves of the file is a file again.                   *)
LEMMA CrashImage ==
  ASSUME PoolInv, Crash
  PROVE  /\ FileImage(disk')
         /\ \A q \in Pages : disk'[q] \in platter[q]
<1>1. /\ disk' \in [File -> UNION {platter[o] : o \in File} \cup {Blank}]
      /\ \A q \in Pages : disk'[q] \in platter[q]
      /\ disk'[Header] \in platter[Header] \cup {Blank}
  BY DEF Crash, Survivors
<1>2. /\ \A q \in Pages : disk'[q] \in Content
      /\ disk'[Header] \in HeaderContent
  BY <1>1 DEF PoolInv, FileOK, HeaderContent
<1>3. \A o \in File : disk'[o] \in Int
  <2>1. HeaderContent \subseteq Int
    BY PoolConstants DEF HeaderContent
  <2>2. QED BY <1>2, <2>1, PoolConstants DEF File
<1>4. disk' \in [File -> Int]
  BY <1>1, <1>3
<1>5. QED BY <1>1, <1>2, <1>4 DEF FileImage

(* A power loss and DiskManager::open on what survives preserve the        *)
(* invariant (page.rs:679-700).                                            *)
LEMMA CrashKeepsInv ==
  ASSUME PoolInv, Crash
  PROVE  PoolInv'
<1>1. platter' = Synced(disk') /\ forced' = forced
  BY DEF Crash
<1>2. FileImage(disk')
  BY CrashImage
<1>3. FileOK'
  BY <1>1, <1>2, SyncedFile DEF PoolInv, FileOK
<1>4. TableOK' /\ Cached' = {}
  <2>1. Cached' = {}
    BY DEF Crash, Cached
  <2>2. Cardinality(Cached') = 0
    BY <2>1, FS_EmptySet
  <2>3. replacer' \in Seq(Pages) /\ Len(replacer') = 0
    BY DEF Crash
  <2>4. ReplacerAgrees'
    BY <2>3 DEF ReplacerAgrees, Tracked
  <2>5. page_table' \in [Pages -> Node \cup {NoFrame}]
    BY DEF Crash
  <2>6. QED BY <2>1, <2>2, <2>3, <2>4, <2>5, PoolConstants DEF TableOK, PoolBounded
<1>5. ClientsOK'
  <2>1. next_free' \in 0 .. MaxPage + 1
    <3>1. next_free' = Reopened(disk')
      BY DEF Crash
    <3>2. CASE \A o \in File : disk'[o] = Blank
      BY <3>1, <3>2, PoolConstants DEF Reopened
    <3>3. CASE ~ (\A o \in File : disk'[o] = Blank) /\ disk'[Header] = Blank
      BY <3>1, <3>3, PoolConstants DEF Reopened
    <3>4. CASE ~ (\A o \in File : disk'[o] = Blank) /\ disk'[Header] # Blank
      BY <1>2, <3>1, <3>4 DEF Reopened, FileImage, HeaderContent
    <3>5. QED BY <3>2, <3>3, <3>4
  <2>2. latest' \in [Pages -> Content]
    BY <1>2 DEF Crash, FileImage
  <2>3. crashes' \in 0 .. MaxCrashes
    BY PoolConstants DEF Crash, PoolInv, ClientsOK
  <2>4. QED BY <2>1, <2>2, <2>3 DEF Crash, PoolInv, ClientsOK
<1>6. FlushOK'
  BY PoolConstants DEF Crash, FlushAllEnd, PoolInv, FlushOK
<1>7. QED BY <1>3, <1>4, <1>5, <1>6 DEF PoolInv

-----------------------------------------------------------------------------
(* A page a client holds is cached: its frame is the one in the table.     *)
HandlesCached == Pinned \subseteq Cached

IInv == PoolInv /\ HandlesCached

(* No step evicts a page that a client still holds: evict_if passes over   *)
(* frames with more than one strong reference (buffer_pool.rs:124-125).    *)
LEMMA HandlesStayCached ==
  ASSUME IInv, Next
  PROVE  HandlesCached'
<1> DEFINE NoNewPins == \A q \in Pages : pins'[q] > 0 => pins[q] > 0
<1>1. pins \in [Pages -> Nat] /\ PoolInv
  BY DEF IInv, PoolInv, ClientsOK
<1>2. ASSUME NoNewPins, Cached' = Cached PROVE HandlesCached'
  BY <1>2 DEF IInv, HandlesCached, Pinned, Cached
<1>3. ASSUME NEW v \in Pages \cup {NoPage}, NEW p \in Pages, NEW n \in Node,
             RoomMade(v), page_table' = TableWith(v, p, n), pins' = [pins EXCEPT ![p] = 1]
      PROVE  HandlesCached'
  <2>1. v \notin Pinned
    BY <1>1, <1>3, RoomMadeFile, PoolConstants DEF Pinned
  <2>2. \A q \in Pages : page_table'[q] # NoFrame <=> q = p \/ (q # v /\ page_table[q] # NoFrame)
    BY <1>3, PoolConstants DEF TableWith
  <2>3. \A q \in Pages : pins'[q] > 0 => q = p \/ q \in Pinned
    BY <1>1, <1>3 DEF Pinned
  <2>4. QED BY <2>1, <2>2, <2>3 DEF IInv, HandlesCached, Pinned, Cached
<1>4. ASSUME NEW p \in Pages, FetchHit(p) PROVE HandlesCached'
  BY <1>1, <1>4 DEF FetchHit, IInv, HandlesCached, Pinned, Cached
<1>5. ASSUME NEW p \in Pages, FetchMiss(p) PROVE HandlesCached'
  <2> DEFINE n == [content |-> disk[p], dirty |-> FALSE]
  <2>1. n \in Node
    BY <1>1, PoolConstants DEF PoolInv, FileOK, Node
  <2>2. PICK v \in Pages \cup {NoPage} : RoomMade(v) /\ page_table' = TableWith(v, p, n)
    BY <1>5 DEF FetchMiss
  <2>3. pins' = [pins EXCEPT ![p] = 1]
    BY <1>5 DEF FetchMiss
  <2> HIDE DEF n
  <2>4. QED BY <1>3, <2>1, <2>2, <2>3
<1>6. ASSUME NEW p \in Pages, FetchReadFails(p) PROVE HandlesCached'
  <2>1. PICK v \in Pages : RoomMade(v) /\ page_table' = TableWith(v, v, NoFrame)
    BY <1>6 DEF FetchReadFails
  <2>2. v \notin Pinned
    BY <1>1, <2>1, RoomMadeFile, PoolConstants DEF Pinned
  <2>3. QED BY <1>6, <2>1, <2>2 DEF FetchReadFails, TableWith, IInv, HandlesCached, Pinned, Cached
<1>7. ASSUME NewPage PROVE HandlesCached'
  <2> DEFINE n == [content |-> 0, dirty |-> FALSE]
  <2>1. n \in Node /\ next_free \in Pages
    BY <1>7, PoolConstants DEF NewPage, Node
  <2>2. PICK v \in Pages \cup {NoPage} : RoomMade(v) /\ page_table' = TableWith(v, next_free, n)
    BY <1>7 DEF NewPage
  <2>3. pins' = [pins EXCEPT ![next_free] = 1]
    BY <1>7 DEF NewPage
  <2> HIDE DEF n
  <2>4. PICK p \in Pages : p = next_free
    BY <2>1
  <2>5. page_table' = TableWith(v, p, n) /\ pins' = [pins EXCEPT ![p] = 1]
    BY <2>2, <2>3, <2>4
  <2>6. QED BY <1>3, <2>1, <2>2, <2>5
<1>8. ASSUME EvictFails \/ FlushAllBegin \/ SaveHeader \/ SaveHeaderFails
      PROVE  HandlesCached'
  BY <1>8 DEF EvictFails, FlushAllBegin, SaveHeader, SaveHeaderFails, poolVars,
              IInv, HandlesCached, Pinned, Cached
<1>9. ASSUME NEW p \in Pages,
             FlushPage(p) \/ FlushPageFails(p) \/ FlushAllPage(p) \/ FlushAllPageFails(p)
      PROVE  HandlesCached'
  <2>1. \A q \in Pages : page_table[q] # NoFrame => page_table'[q] # NoFrame
    <3>1. CASE UNCHANGED page_table
      BY <3>1
    <3>2. CASE p \in Cached /\ page_table' = [page_table EXCEPT ![p].dirty = FALSE]
      BY <1>1, <3>2, CleanFrame, PoolConstants DEF PoolInv, TableOK, Cached
    <3>3. QED BY <1>9, <1>1, <3>1, <3>2 DEF FlushPage, FlushPageFails, FlushAllPage,
                  FlushAllPageFails, poolVars, PoolInv, FlushOK
  <2>2. UNCHANGED pins
    BY <1>9 DEF FlushPage, FlushPageFails, FlushAllPage, FlushAllPageFails, poolVars
  <2>3. QED BY <2>1, <2>2 DEF IInv, HandlesCached, Pinned, Cached
<1>10. ASSUME NEW p \in Pages, Modify(p) PROVE HandlesCached'
  <2>1. \A q \in Pages : page_table[q] # NoFrame => page_table'[q] # NoFrame
    <3>1. [content |-> lsn + 1, dirty |-> TRUE] \in Node
      BY <1>1, <1>10, PoolConstants DEF Modify, PoolInv, ClientsOK, Node, Content, Blank
    <3>2. page_table' = [page_table EXCEPT ![p] = [content |-> lsn + 1, dirty |-> TRUE]]
      BY <1>10 DEF Modify
    <3>3. QED BY <1>1, <3>1, <3>2, PoolConstants DEF PoolInv, TableOK
  <2>2. UNCHANGED pins
    BY <1>10 DEF Modify
  <2>3. QED BY <2>1, <2>2 DEF IInv, HandlesCached, Pinned, Cached
<1>11. ASSUME NEW p \in Pages, ModifyOrphan(p) \/ DropHandle(p) \/ DropOrphan(p)
       PROVE  HandlesCached'
  <2>1. UNCHANGED page_table
    BY <1>11 DEF ModifyOrphan, DropHandle, DropOrphan, poolVars
  <2>2. NoNewPins
    BY <1>1, <1>11 DEF ModifyOrphan, DropHandle, DropOrphan, poolVars
  <2>3. QED BY <1>2, <2>1, <2>2 DEF Cached
<1>12. ASSUME Crash PROVE HandlesCached'
  BY <1>12 DEF Crash, HandlesCached, Pinned
<1>13. QED
  BY <1>4, <1>5, <1>6, <1>7, <1>8, <1>9, <1>10, <1>11, <1>12 DEF Next

(* The invariant is inductive.                                             *)
LEMMA NextKeepsInv ==
  ASSUME IInv, [Next]_vars
  PROVE  IInv'
<1>1. CASE Next
  <2>1. HandlesCached'
    BY <1>1, HandlesStayCached
  <2>2. PoolInv
    BY DEF IInv
  <2>3. ASSUME NEW p \in Pages, Modify(p) PROVE PoolInv'
    <3>1. p \in Cached
      BY <2>3 DEF IInv, HandlesCached, Modify, Pinned
    <3>2. QED BY <2>2, <2>3, <3>1, ModifyKeepsInv
  <2>4. PoolInv'
    BY <1>1, <2>2, <2>3, FetchKeepsInv, NewPageKeepsInv, EvictFailsKeepsInv, FlushPageKeepsInv,
       FlushAllKeepsInv, ClientsKeepInv, CrashKeepsInv DEF Next
  <2>5. QED BY <2>1, <2>4 DEF IInv
<1>2. CASE UNCHANGED vars
  BY <1>2 DEF vars, poolVars, fileVars, histVars, flushVars, IInv, PoolInv, FileOK, TableOK,
              ClientsOK, FlushOK, HandlesCached, ReplacerAgrees, PoolBounded, Cached, Pinned
<1>3. QED BY <1>1, <1>2

(* IInv is an inductive invariant of the pool. *)
LEMMA Inductive == Spec => []IInv
<1>1. Init => IInv
  <2>1. ASSUME Init PROVE HandlesCached
    BY <2>1 DEF Init, HandlesCached, Pinned
  <2>2. QED BY <2>1, PoolInvInit DEF IInv
<1>2. QED BY <1>1, NextKeepsInv, PTL DEF Spec

(* Every variable keeps its type: whatever fails, no frame, counter or     *)
(* image of the pool takes a value the code could not represent.           *)
THEOREM TypeCorrect == Spec => []TypeOK
<1>1. IInv => TypeOK
  BY PoolInvTypeOK DEF IInv
<1>2. QED BY <1>1, Inductive, PTL

(* The pool cannot panic: every page the replacer tracks is in the table,  *)
(* once, so the victim of evict_page has a frame (buffer_pool.rs:128) and  *)
(* record_access finds room (lru.rs:68).                                   *)
THEOREM ReplacerAgreesWithTable == Spec => []ReplacerAgrees
<1>1. IInv => ReplacerAgrees
  BY DEF IInv, PoolInv, TableOK
<1>2. QED BY <1>1, Inductive, PTL

(* The table never holds more frames than the capacity of the pool.        *)
THEOREM PoolStaysBounded == Spec => []PoolBounded
<1>1. IInv => PoolBounded
  BY DEF IInv, PoolInv, TableOK
<1>2. QED BY <1>1, Inductive, PTL

-----------------------------------------------------------------------------
(* The guarantees to the log.                                              *)

(* LSNs are assigned in order: nothing is ahead of the last one. *)
LsnsAssigned ==
  \A p \in Pages :
    /\ checkpoint[p] <= lsn
    /\ goal[p] <= lsn
    /\ \A c \in platter[p] : c <= lsn
    /\ p \in Cached => page_table[p].content <= lsn

(* A clean frame shows what the file holds, unless its page is new, or is  *)
(* page 0 with the header over it.                                         *)
CleanOnDisk ==
  \A p \in Cached \ {0} :
    ~ page_table[p].dirty /\ page_table[p].content > 0 => disk[p] = page_table[p].content

(* What the pool has yet to write is newer than the last checkpoint and    *)
(* than what the flush under way must reach.                               *)
DirtyIsNewer ==
  \A p \in Cached :
    page_table[p].dirty =>
      page_table[p].content >= checkpoint[p] /\ page_table[p].content >= goal[p]

(* The flush under way: a page it has yet to flush still has the goal in   *)
(* its frame, a page it is done with has it in the file.                   *)
FlushReachesGoal ==
  flush # Idle =>
    \A p \in Pages \ {0} : goal[p] > 0 =>
      /\ p \in flush => page_table[p].content >= goal[p]
      /\ p \notin flush => disk[p] >= goal[p]

(* No image is older than the checkpoint, in page 0's slot excepted: a     *)
(* page handed out again is written under a later LSN.                     *)
CheckpointKept == \A p \in Pages \ {0} : Kept(p)

CheckpointInv ==
  /\ LsnsAssigned
  /\ CleanOnDisk
  /\ DirtyIsNewer
  /\ FlushReachesGoal
  /\ CheckpointKept

-----------------------------------------------------------------------------
(* Where the images of a page come from: they were there, or the frame of  *)
(* a dirty page was written once the log was forced, or the header covers  *)
(* page 0.                                                                 *)
ImageFrom(q, c) ==
  \/ c \in platter[q]
  \/ /\ q \in Cached
     /\ page_table[q].dirty
     /\ c = page_table[q].content
     /\ HasWal => forced' >= c
  \/ q = 0 /\ c = Blank

ImagesFrom ==
  /\ forced' >= forced
  /\ \A q \in Pages : \A c \in platter'[q] : ImageFrom(q, c)

(* Where a frame comes from: it was there; it was flushed; it was read     *)
(* from the file; its page is new; or a client wrote to it.                *)
Flushing(q) ==
  /\ q \in Cached
  /\ page_table'[q].content = page_table[q].content
  /\ ~ page_table'[q].dirty
  /\ disk'[q] = IF page_table[q].dirty THEN page_table[q].content ELSE disk[q]

FrameFrom(q) ==
  \/ q \in Cached /\ page_table'[q] = page_table[q] /\ (disk'[q] = disk[q] \/ q = 0)
  \/ Flushing(q)
  \/ page_table'[q] = [content |-> disk[q], dirty |-> FALSE] /\ disk'[q] = disk[q]
  \/ page_table'[q] = [content |-> 0, dirty |-> FALSE]
  \/ page_table'[q] = [content |-> lsn + 1, dirty |-> TRUE] /\ lsn' = lsn + 1

(* A flush writes at most the image of one page, and only once the log is  *)
(* forced up to it.                                                        *)
LEMMA FlushedEffect ==
  ASSUME IInv, NEW p \in Cached, Flushed(p)
  PROVE  /\ ImagesFrom
         /\ \A q \in Pages : q # p => disk'[q] = disk[q]
         /\ disk'[p] = IF page_table[p].dirty THEN page_table[p].content ELSE disk[p]
<1>1. PoolInv /\ p \in Pages /\ p \in File
  BY FrameOfCached, PoolConstants DEF IInv, PoolInv
<1>2. /\ forced' >= forced
      /\ HasWal /\ page_table[p].dirty => forced' >= page_table[p].content
  BY <1>1, ForcedType DEF Flushed
<1>3. /\ disk \in [File -> Int]
      /\ platter \in [File -> SUBSET Int]
      /\ Pages \subseteq File /\ Header \notin Pages
  BY <1>1, PoolConstants DEF PoolInv, FileOK
<1>4. CASE page_table[p].dirty
  <2> DEFINE c == page_table[p].content
  <2>1. disk' = PageWritten(p, c) /\ platter' = [platter EXCEPT ![p] = @ \cup {c}]
    BY <1>4 DEF Flushed
  <2>2. \A q \in Pages : platter'[q] = IF q = p THEN platter[q] \cup {c} ELSE platter[q]
    BY <1>1, <1>3, <2>1
  <2>3. ImagesFrom
    BY <1>1, <1>2, <1>4, <2>2 DEF ImagesFrom, ImageFrom
  <2> HIDE DEF c
  <2>4. /\ \A q \in Pages : q # p => disk'[q] = disk[q]
        /\ disk'[p] = c
    BY <1>1, <1>3, <2>1 DEF PageWritten
  <2>5. QED BY <1>4, <2>3, <2>4 DEF c
<1>5. CASE ~ page_table[p].dirty
  <2>1. disk' = disk /\ platter' = platter
    BY <1>5 DEF Flushed
  <2>2. QED BY <1>2, <1>5, <2>1 DEF ImagesFrom, ImageFrom
<1>6. QED BY <1>1, <1>4, <1>5, FrameOfCached DEF PoolInv

(* Making room touches the image of the victim alone.                      *)
LEMMA RoomMadeEffect ==
  ASSUME IInv, NEW v \in Pages \cup {NoPage}, RoomMade(v)
  PROVE  /\ ImagesFrom
         /\ \A q \in Pages : q # v => disk'[q] = disk[q]
<1>1. PoolInv
  BY DEF IInv
<1>2. CASE Full
  BY <1>1, <1>2, RoomMadeFile, FlushedEffect
<1>3. CASE ~ Full
  <2>1. UNCHANGED fileVars
    BY <1>1, <1>3, RoomMadeFile
  <2>2. forced \in Int
    BY <1>1, PoolConstants DEF PoolInv, FileOK
  <2>3. QED BY <2>1, <2>2 DEF fileVars, ImagesFrom, ImageFrom
<1>4. QED BY <1>2, <1>3

(* A flush that fails touches no image.                                    *)
LEMMA FlushFailedEffect ==
  ASSUME IInv, NEW p \in Cached, FlushFailed(p)
  PROVE  ImagesFrom /\ disk' = disk
<1>1. PoolInv /\ forced \in Int
  BY PoolConstants DEF IInv, PoolInv, FileOK
<1>2. forced' >= forced
  BY <1>1, ForcedType DEF FlushFailed
<1>3. QED BY <1>2 DEF FlushFailed, ImagesFrom, ImageFrom

(* A frame that enters the table is the only one that changes.             *)
LEMMA TableWithFrames ==
  ASSUME NEW v, NEW p, NEW n, page_table' = TableWith(v, p, n),
         \A q \in Pages : q # v => disk'[q] = disk[q],
         p \in Pages => FrameFrom(p) \/ p \notin Cached'
  PROVE  \A q \in Cached' : FrameFrom(q)
<1> SUFFICES ASSUME NEW q \in Cached', q # p PROVE FrameFrom(q)
  BY DEF Cached
<1>1. q \in Pages /\ page_table'[q] # NoFrame
  BY DEF Cached
<1>2. q # v /\ page_table'[q] = page_table[q]
  BY <1>1 DEF TableWith
<1>3. QED BY <1>1, <1>2 DEF FrameFrom, Cached

(* Every step, seen from the file and from the frames.                     *)
LEMMA StepEffect ==
  ASSUME IInv, Next
  PROVE  ImagesFrom /\ \A q \in Cached' : FrameFrom(q)
<1> DEFINE Effect == ImagesFrom /\ \A q \in Cached' : FrameFrom(q)
<1>1. PoolInv /\ forced \in Int
  BY PoolConstants DEF IInv, PoolInv, FileOK
<1>2. ASSUME UNCHANGED <<disk, platter, forced, page_table>> PROVE Effect
  BY <1>1, <1>2 DEF ImagesFrom, ImageFrom, FrameFrom, Cached
<1>3. ASSUME NEW p \in Pages, FetchHit(p) PROVE Effect
  BY <1>2, <1>3 DEF FetchHit, fileVars
<1>4. ASSUME NEW p \in Pages, FetchMiss(p) PROVE Effect
  <2>1. PICK v \in Pages \cup {NoPage} :
          RoomMade(v) /\ page_table' = TableWith(v, p, [content |-> disk[p], dirty |-> FALSE])
    BY <1>4 DEF FetchMiss
  <2>2. ImagesFrom /\ \A q \in Pages : q # v => disk'[q] = disk[q]
    BY <2>1, RoomMadeEffect
  <2>3. p # v
    <3>1. v = NoPage \/ v \in Cached
      BY <1>1, <2>1, RoomMadeFile
    <3>2. QED BY <1>4, <3>1, PoolConstants DEF FetchMiss
  <2>4. FrameFrom(p)
    BY <2>1, <2>2, <2>3 DEF FrameFrom, TableWith
  <2>5. QED BY <2>1, <2>2, <2>4, TableWithFrames
<1>5. ASSUME NEW p \in Pages, FetchReadFails(p) PROVE Effect
  <2>1. PICK v \in Pages : RoomMade(v) /\ page_table' = TableWith(v, v, NoFrame)
    BY <1>5 DEF FetchReadFails
  <2>2. ImagesFrom /\ \A q \in Pages : q # v => disk'[q] = disk[q]
    BY <2>1, RoomMadeEffect
  <2>3. v \notin Cached'
    BY <2>1 DEF TableWith, Cached
  <2>4. QED BY <2>1, <2>2, <2>3, TableWithFrames
<1>6. ASSUME NewPage PROVE Effect
  <2>1. PICK v \in Pages \cup {NoPage} :
          RoomMade(v) /\ page_table' = TableWith(v, next_free, [content |-> 0, dirty |-> FALSE])
    BY <1>6 DEF NewPage
  <2>2. ImagesFrom /\ \A q \in Pages : q # v => disk'[q] = disk[q]
    BY <2>1, RoomMadeEffect
  <2>3. next_free \in Pages => FrameFrom(next_free)
    BY <2>1 DEF FrameFrom, TableWith
  <2>4. QED BY <2>1, <2>2, <2>3, TableWithFrames
<1>7. ASSUME EvictFails PROVE Effect
  <2>1. PICK v \in Pages : IsVictim(replacer, Pinned, v) /\ FlushFailed(v)
    BY <1>7 DEF EvictFails
  <2>2. v \in Cached
    BY <1>1, <2>1, VictimIsTracked DEF PoolInv, TableOK, ReplacerAgrees
  <2>3. ImagesFrom /\ disk' = disk
    BY <2>1, <2>2, FlushFailedEffect
  <2>4. QED BY <1>7, <2>3 DEF EvictFails, FrameFrom, Cached
<1>8. ASSUME NEW p \in Cached, Flushed(p),
             page_table' = [page_table EXCEPT ![p].dirty = FALSE]
      PROVE  Effect
  <2>1. /\ ImagesFrom
        /\ \A q \in Pages : q # p => disk'[q] = disk[q]
        /\ disk'[p] = IF page_table[p].dirty THEN page_table[p].content ELSE disk[p]
    BY <1>8, FlushedEffect
  <2>2. page_table \in [Pages -> Node \cup {NoFrame}] /\ p \in Pages
    BY <1>1, FrameOfCached DEF PoolInv, TableOK
  <2>3. /\ page_table'[p].content = page_table[p].content
        /\ ~ page_table'[p].dirty
        /\ \A q \in Pages : q # p => page_table'[q] = page_table[q]
    BY <1>1, <1>8, <2>2, CleanFrame
  <2>4. FrameFrom(p)
    BY <2>1, <2>3 DEF FrameFrom, Flushing
  <2>5. \A q \in Cached' : q # p => FrameFrom(q)
    BY <2>1, <2>3 DEF FrameFrom, Cached
  <2>6. QED BY <2>1, <2>4, <2>5
<1>9. ASSUME NEW p \in Cached, FlushFailed(p), UNCHANGED page_table PROVE Effect
  BY <1>9, FlushFailedEffect DEF FrameFrom, Cached
<1>10. ASSUME NEW p \in Pages,
              FlushPage(p) \/ FlushPageFails(p) \/ FlushAllPage(p) \/ FlushAllPageFails(p)
       PROVE  Effect
  <2>1. p \in Cached
    BY <1>1, <1>10 DEF FlushPage, FlushPageFails, FlushAllPage, FlushAllPageFails, PoolInv, FlushOK
  <2>2. CASE FlushPage(p) \/ FlushAllPage(p)
    BY <1>8, <2>1, <2>2 DEF FlushPage, FlushAllPage
  <2>3. CASE FlushPageFails(p) \/ FlushAllPageFails(p)
    BY <1>9, <2>1, <2>3 DEF FlushPageFails, FlushAllPageFails, poolVars
  <2>4. QED BY <1>10, <2>2, <2>3
<1>11. ASSUME FlushAllBegin PROVE Effect
  BY <1>2, <1>11 DEF FlushAllBegin, poolVars, fileVars
<1>12. ASSUME NEW p \in Pages, Modify(p) PROVE Effect
  <2>1. UNCHANGED <<disk, platter, forced>> /\ lsn' = lsn + 1
        /\ page_table' = [page_table EXCEPT ![p] = [content |-> lsn + 1, dirty |-> TRUE]]
    BY <1>12 DEF Modify, fileVars
  <2>2. page_table \in [Pages -> Node \cup {NoFrame}]
    BY <1>1 DEF PoolInv, TableOK
  <2>3. QED BY <1>1, <2>1, <2>2 DEF ImagesFrom, ImageFrom, FrameFrom, Cached
<1>13. ASSUME NEW p \in Pages, ModifyOrphan(p) \/ DropHandle(p) \/ DropOrphan(p) PROVE Effect
  BY <1>2, <1>13 DEF ModifyOrphan, DropHandle, DropOrphan, poolVars, fileVars
<1>14. ASSUME SaveHeader PROVE Effect
  <2>1. /\ disk' = HeaderWritten
        /\ platter' = Synced(disk')
        /\ UNCHANGED <<forced, page_table>>
    BY <1>14 DEF SaveHeader, poolVars
  <2>2. \A q \in Pages : /\ disk'[q] = IF q = 0 THEN Blank ELSE disk[q]
                         /\ platter'[q] = {disk'[q]}
    BY <1>1, <2>1, HeaderWrittenImage, SyncedFile
  <2>3. \A q \in Pages : disk[q] \in platter[q]
    BY <1>1, PoolConstants DEF PoolInv, FileOK
  <2>4. QED BY <1>1, <2>1, <2>2, <2>3 DEF ImagesFrom, ImageFrom, FrameFrom, Cached
<1>15. ASSUME SaveHeaderFails PROVE Effect
  <2>1. UNCHANGED <<forced, page_table>>
    BY <1>15 DEF SaveHeaderFails, poolVars
  <2>2. \A q \in Pages : /\ q # 0 => disk'[q] = disk[q]
                         /\ \A c \in platter'[q] : c \in platter[q] \/ (q = 0 /\ c = Blank)
    <3>1. CASE UNCHANGED <<disk, platter>>
      BY <3>1
    <3>2. CASE /\ disk' = HeaderWritten
               /\ platter' = [platter EXCEPT ![Header] = @ \cup {next_free},
                                            ![0] = @ \cup {Blank}]
      <4>1. platter \in [File -> SUBSET Int]
        BY <1>1 DEF PoolInv, FileOK
      <4>2. \A q \in Pages : platter'[q] = IF q = 0 THEN platter[q] \cup {Blank} ELSE platter[q]
        BY <3>2, <4>1, PoolConstants
      <4>3. \A q \in Pages : q # 0 => disk'[q] = disk[q]
        BY <1>1, <3>2, HeaderWrittenImage
      <4>4. ASSUME NEW q \in Pages, NEW c \in platter'[q]
            PROVE  c \in platter[q] \/ (q = 0 /\ c = Blank)
        BY <4>2
      <4>5. QED BY <4>3, <4>4
    <3>3. QED BY <1>15, <3>1, <3>2 DEF SaveHeaderFails
  <2>3. QED BY <1>1, <2>1, <2>2 DEF ImagesFrom, ImageFrom, FrameFrom, Cached
<1>16. ASSUME Crash PROVE Effect
  <2>1. Cached' = {}
    BY <1>16 DEF Crash, Cached
  <2>2. forced' = forced /\ \A q \in Pages : platter'[q] = {disk'[q]} /\ disk'[q] \in platter[q]
    BY <1>1, <1>16, CrashImage, SyncedFile DEF Crash
  <2>3. QED BY <1>1, <2>1, <2>2 DEF ImagesFrom, ImageFrom
<1> HIDE DEF Effect
<1>17. Effect
  BY <1>3, <1>4, <1>5, <1>6, <1>7, <1>10, <1>11, <1>12, <1>13, <1>14, <1>15, <1>16 DEF Next
<1>18. QED BY <1>17 DEF Effect

-----------------------------------------------------------------------------
(* No step puts an image into the file before the log is forced up to it.  *)
LEMMA WalRuleStep ==
  ASSUME IInv, WalRule, [Next]_vars
  PROVE  WalRule'
<1>1. CASE Next
  <2> SUFFICES ASSUME HasWal, NEW p \in Pages, NEW c \in platter'[p]
               PROVE  c <= forced'
    BY DEF WalRule
  <2>1. ImagesFrom
    BY <1>1, StepEffect
  <2>2. forced' >= forced /\ ImageFrom(p, c)
    BY <2>1 DEF ImagesFrom
  <2>3. forced \in Int /\ forced' \in Int /\ forced' >= 0 /\ c \in Int
    BY NextKeepsInv, PoolConstants DEF IInv, PoolInv, FileOK
  <2>4. CASE c \in platter[p]
    BY <2>2, <2>3, <2>4 DEF WalRule
  <2>5. CASE c = Blank
    BY <2>3, <2>5 DEF Blank
  <2>6. CASE c \notin platter[p] /\ c # Blank
    BY <2>2, <2>3, <2>6 DEF ImageFrom
  <2>7. QED BY <2>4, <2>5, <2>6
<1>2. CASE UNCHANGED vars
  BY <1>2 DEF vars, fileVars, WalRule
<1>3. QED BY <1>1, <1>2

(* Write-ahead: no image of a page that a power loss may leave is ahead of *)
(* the log the pool forced before it wrote the page (flush_page).          *)
THEOREM WriteAhead == Spec => []WalRule
<1>1. Init => WalRule
  <2>1. ASSUME Init, NEW p \in Pages, NEW c \in platter[p] PROVE c <= forced
    <3>1. c = -1 /\ forced = 0
      BY <2>1, PoolConstants DEF Init, Blank
    <3>2. QED BY <3>1
  <2>2. QED BY <2>1 DEF WalRule
<1>2. QED BY <1>1, WalRuleStep, Inductive, PTL DEF Spec

-----------------------------------------------------------------------------
(* The types the arithmetic below needs. *)
LEMMA Lsns ==
  ASSUME IInv
  PROVE  /\ lsn \in Int /\ lsn >= 0
         /\ \A p \in Pages :
              /\ goal[p] \in Int /\ checkpoint[p] \in Int
              /\ goal[p] >= Blank /\ checkpoint[p] >= Blank
              /\ disk[p] \in Int /\ disk[p] \in platter[p]
              /\ \A c \in platter[p] : c \in Int
              /\ p \in Cached => /\ page_table[p].content \in Int
                                  /\ page_table[p].content >= Blank
<1>1. PoolInv
  BY DEF IInv
<1>2. lsn \in Int /\ lsn >= 0
  BY <1>1, PoolConstants DEF PoolInv, ClientsOK
<1>3. ASSUME NEW c \in Content PROVE c \in Int /\ c >= Blank
  BY PoolConstants DEF Content, Blank
<1>4. ASSUME NEW p \in Pages
      PROVE  /\ goal[p] \in Int /\ checkpoint[p] \in Int
             /\ goal[p] >= Blank /\ checkpoint[p] >= Blank
  BY <1>1, <1>3 DEF PoolInv, FlushOK
<1>5. ASSUME NEW p \in Pages
      PROVE  disk[p] \in platter[p] /\ \A c \in platter[p] : c \in Int
  BY <1>1, <1>3, PoolConstants DEF PoolInv, FileOK
<1>6. ASSUME NEW p \in Cached
      PROVE  page_table[p].content \in Int /\ page_table[p].content >= Blank
  BY <1>1, <1>3, FrameOfCached DEF PoolInv
<1>7. QED BY <1>2, <1>4, <1>5, <1>6

(* What a step does to the LSN counter, the goal and the checkpoint.       *)
LEMMA StepHistory ==
  ASSUME IInv, Next
  PROVE  /\ lsn' >= lsn
         /\ \/ UNCHANGED checkpoint
            \/ checkpoint' = goal /\ SaveHeader
         /\ \/ UNCHANGED goal
            \/ goal' = [p \in Pages |-> Blank]
            \/ goal' = [p \in Pages |-> Held(p)] /\ FlushAllBegin
<1> DEFINE Hist == /\ lsn' >= lsn
                   /\ \/ UNCHANGED checkpoint
                      \/ checkpoint' = goal /\ SaveHeader
                   /\ \/ UNCHANGED goal
                      \/ goal' = [p \in Pages |-> Blank]
                      \/ goal' = [p \in Pages |-> Held(p)] /\ FlushAllBegin
<1>1. lsn \in Int
  BY Lsns
<1>2. ASSUME NEW p \in Pages, FetchHit(p) \/ FetchMiss(p) \/ FetchReadFails(p) PROVE Hist
  BY <1>1, <1>2 DEF FetchHit, FetchMiss, FetchReadFails, histVars, flushVars
<1>3. ASSUME NEW p \in Pages,
             FlushPage(p) \/ FlushPageFails(p) \/ FlushAllPage(p) \/ FlushAllPageFails(p)
      PROVE  Hist
  BY <1>1, <1>3 DEF FlushPage, FlushPageFails, FlushAllPage, FlushAllPageFails, FlushAllEnd,
                    histVars, flushVars
<1>4. ASSUME NEW p \in Pages, Modify(p) \/ ModifyOrphan(p) \/ DropHandle(p) \/ DropOrphan(p)
      PROVE  Hist
  BY <1>1, <1>4 DEF Modify, ModifyOrphan, DropHandle, DropOrphan, histVars, flushVars
<1>5. ASSUME NewPage \/ EvictFails \/ FlushAllBegin \/ SaveHeader \/ SaveHeaderFails \/ Crash
      PROVE  Hist
  BY <1>1, <1>5 DEF NewPage, EvictFails, FlushAllBegin, SaveHeader, SaveHeaderFails, Crash,
                    FlushAllEnd, histVars, flushVars
<1> HIDE DEF Hist
<1>6. Hist
  BY <1>2, <1>3, <1>4, <1>5 DEF Next
<1>7. QED BY <1>6 DEF Hist

(* No page, image, goal or checkpoint is ever ahead of the last LSN        *)
(* assigned.                                                               *)
LEMMA LsnsAssignedStep ==
  ASSUME IInv, LsnsAssigned, Next
  PROVE  LsnsAssigned'
<1> SUFFICES ASSUME NEW p \in Pages
             PROVE  /\ checkpoint'[p] <= lsn'
                    /\ goal'[p] <= lsn'
                    /\ \A c \in platter'[p] : c <= lsn'
                    /\ p \in Cached' => page_table'[p].content <= lsn'
  BY DEF LsnsAssigned
<1>1. IInv'
  BY NextKeepsInv
<1>2. lsn \in Int /\ lsn >= 0 /\ lsn' \in Int
  BY <1>1, Lsns DEF IInv, PoolInv, ClientsOK
<1>3. lsn' >= lsn
  BY StepHistory
<1>4. Held(p) <= lsn /\ Held(p) \in Int
  BY Lsns DEF Held, LsnsAssigned
<1>5. checkpoint'[p] <= lsn'
  <2>1. checkpoint'[p] = checkpoint[p] \/ checkpoint'[p] = goal[p]
    BY StepHistory
  <2>2. QED BY <1>2, <1>3, <2>1, Lsns DEF LsnsAssigned
<1>6. goal'[p] <= lsn'
  <2>1. goal'[p] = goal[p] \/ goal'[p] = Blank \/ goal'[p] = Held(p)
    BY StepHistory
  <2>2. QED BY <1>2, <1>3, <1>4, <2>1, Lsns DEF LsnsAssigned, Blank
<1>7. ASSUME NEW c \in platter'[p] PROVE c <= lsn'
  <2>1. c \in platter[p] \/ (p \in Cached /\ c = page_table[p].content) \/ c = Blank
    BY StepEffect DEF ImagesFrom, ImageFrom
  <2>2. c <= lsn /\ c \in Int
    BY <1>2, <2>1, Lsns DEF LsnsAssigned, Blank
  <2>3. QED BY <1>2, <1>3, <2>2
<1>8. ASSUME p \in Cached' PROVE page_table'[p].content <= lsn'
  <2>1. FrameFrom(p)
    BY <1>8, StepEffect
  <2>2. \/ p \in Cached /\ page_table'[p].content = page_table[p].content
        \/ page_table'[p].content = disk[p]
        \/ page_table'[p].content = 0
        \/ page_table'[p].content = lsn + 1 /\ lsn' = lsn + 1
    BY <2>1 DEF FrameFrom, Flushing
  <2>3. QED BY <1>2, <1>3, <2>2, Lsns DEF LsnsAssigned
<1>9. QED BY <1>5, <1>6, <1>7, <1>8

(* A page that is not dirty stays equal to the image a read of the file    *)
(* returns.                                                                *)
LEMMA CleanOnDiskStep ==
  ASSUME IInv, CleanOnDisk, Next
  PROVE  CleanOnDisk'
<1> SUFFICES ASSUME NEW p \in Cached', p # 0, ~ page_table'[p].dirty,
                    page_table'[p].content > 0
             PROVE  disk'[p] = page_table'[p].content
  BY DEF CleanOnDisk
<1>1. FrameFrom(p)
  BY StepEffect
<1>2. CASE p \in Cached /\ page_table'[p] = page_table[p] /\ disk'[p] = disk[p]
  BY <1>2 DEF CleanOnDisk
<1>3. CASE Flushing(p)
  BY <1>3 DEF Flushing, CleanOnDisk
<1>4. CASE page_table'[p] = [content |-> disk[p], dirty |-> FALSE] /\ disk'[p] = disk[p]
  BY <1>4
<1>5. CASE page_table'[p] = [content |-> 0, dirty |-> FALSE]
  BY <1>5
<1>6. CASE page_table'[p] = [content |-> lsn + 1, dirty |-> TRUE]
  BY <1>6
<1>7. QED BY <1>1, <1>2, <1>3, <1>4, <1>5, <1>6 DEF FrameFrom

(* A dirty page stays at least as new as every image a power loss may      *)
(* leave of it.                                                            *)
LEMMA DirtyIsNewerStep ==
  ASSUME IInv, LsnsAssigned, DirtyIsNewer, Next
  PROVE  DirtyIsNewer'
<1> SUFFICES ASSUME NEW p \in Cached', page_table'[p].dirty
             PROVE  /\ page_table'[p].content >= checkpoint'[p]
                    /\ page_table'[p].content >= goal'[p]
  BY DEF DirtyIsNewer
<1>1. p \in Pages /\ FrameFrom(p)
  BY StepEffect DEF Cached
<1>2. CASE p \in Cached /\ page_table'[p] = page_table[p]
  <2>1. page_table[p].content >= checkpoint[p] /\ page_table[p].content >= goal[p]
    BY <1>2 DEF DirtyIsNewer
  <2>2. checkpoint'[p] = checkpoint[p] \/ checkpoint'[p] = goal[p]
    BY <1>1, StepHistory
  <2>3. goal'[p] = goal[p] \/ goal'[p] = Blank \/ goal'[p] = page_table[p].content
    BY <1>1, <1>2, StepHistory DEF Held
  <2>4. QED BY <1>1, <1>2, <2>1, <2>2, <2>3, Lsns
<1>3. CASE page_table'[p] = [content |-> lsn + 1, dirty |-> TRUE] /\ lsn' = lsn + 1
  <2>1. IInv' /\ LsnsAssigned'
    BY NextKeepsInv, LsnsAssignedStep
  <2>2. checkpoint'[p] <= lsn' /\ goal'[p] <= lsn'
    BY <1>1, <2>1 DEF LsnsAssigned
  <2>3. page_table'[p].content = lsn'
    BY <1>3
  <2>4. QED BY <2>2, <2>3
<1>4. ~ Flushing(p) /\ page_table'[p] # [content |-> 0, dirty |-> FALSE]
      /\ page_table'[p] # [content |-> disk[p], dirty |-> FALSE]
  BY DEF Flushing
<1>5. QED BY <1>1, <1>2, <1>3, <1>4 DEF FrameFrom

(* While flush_all_pages runs, the pages it has passed have reached what   *)
(* the pool held when it began.                                            *)
LEMMA FlushReachesGoalStep ==
  ASSUME IInv, CheckpointInv, Next
  PROVE  FlushReachesGoal'
<1> SUFFICES ASSUME flush' # Idle, NEW q \in Pages, q # 0, goal'[q] > 0
             PROVE  /\ q \in flush' => page_table'[q].content >= goal'[q]
                    /\ q \notin flush' => disk'[q] >= goal'[q]
  BY DEF FlushReachesGoal
<1> DEFINE Reached == /\ q \in flush' => page_table'[q].content >= goal'[q]
                      /\ q \notin flush' => disk'[q] >= goal'[q]
<1>1. PoolInv
  BY DEF IInv
<1>2. ASSUME UNCHANGED <<flush, goal, page_table, disk>> PROVE Reached
  BY <1>2 DEF CheckpointInv, FlushReachesGoal
<1>3. ASSUME FlushAllBegin PROVE Reached
  <2>1. flush' = Cached /\ goal'[q] = Held(q) /\ UNCHANGED <<page_table, disk>>
    BY <1>3 DEF FlushAllBegin, poolVars, fileVars
  <2>2. QED BY <2>1, Lsns DEF Held
<1>4. ASSUME NEW p \in Pages, FlushAllPage(p) PROVE Reached
  <2>1. p \in Cached /\ flush # Idle /\ p \in flush /\ flush' = flush \ {p} /\ UNCHANGED goal
    BY <1>1, <1>4 DEF FlushAllPage, PoolInv, FlushOK
  <2>2. /\ \A r \in Pages : r # p => disk'[r] = disk[r]
        /\ disk'[p] = IF page_table[p].dirty THEN page_table[p].content ELSE disk[p]
    BY <1>4, <2>1, FlushedEffect DEF FlushAllPage
  <2>3. page_table' = [page_table EXCEPT ![p].dirty = FALSE]
    BY <1>4 DEF FlushAllPage
  <2>4. page_table \in [Pages -> Node \cup {NoFrame}]
    BY <1>1 DEF PoolInv, TableOK
  <2>5. CASE q = p
    <3>1. page_table[p].content >= goal[p] /\ goal[p] > 0
      BY <2>1, <2>5 DEF CheckpointInv, FlushReachesGoal
    <3>2. ~ page_table[p].dirty => disk[p] = page_table[p].content
      <4>1. page_table[p].content > 0
        BY <2>1, <3>1, Lsns
      <4>2. QED BY <2>1, <2>5, <4>1 DEF CheckpointInv, CleanOnDisk
    <3>3. QED BY <2>1, <2>2, <2>5, <3>1, <3>2
  <2>6. CASE q # p
    <3>1. disk'[q] = disk[q] /\ page_table'[q] = page_table[q]
      BY <2>2, <2>3, <2>4, <2>6
    <3>2. q \in flush' <=> q \in flush
      BY <2>1, <2>6
    <3>3. QED BY <2>1, <3>1, <3>2 DEF CheckpointInv, FlushReachesGoal
  <2>7. QED BY <2>5, <2>6
<1>5. ASSUME NEW p \in Pages, Modify(p) PROVE Reached
  <2>1. UNCHANGED <<flush, goal, disk>>
        /\ page_table' = [page_table EXCEPT ![p] = [content |-> lsn + 1, dirty |-> TRUE]]
    BY <1>5 DEF Modify, fileVars, flushVars
  <2>2. page_table \in [Pages -> Node \cup {NoFrame}]
    BY <1>1 DEF PoolInv, TableOK
  <2>3. CASE q = p
    <3>1. page_table'[p].content = lsn + 1
      BY <2>1, <2>2
    <3>2. goal[p] <= lsn
      BY DEF CheckpointInv, LsnsAssigned
    <3>3. lsn + 1 >= goal[p]
      BY <3>2, Lsns
    <3>4. QED BY <2>1, <2>3, <3>1, <3>3 DEF CheckpointInv, FlushReachesGoal
  <2>4. CASE q # p
    <3>1. page_table'[q] = page_table[q]
      BY <2>1, <2>2, <2>4
    <3>2. QED BY <2>1, <3>1 DEF CheckpointInv, FlushReachesGoal
  <2>5. QED BY <2>3, <2>4
<1>6. ASSUME NEW p \in Pages, ModifyOrphan(p) \/ DropHandle(p) \/ DropOrphan(p) PROVE Reached
  BY <1>2, <1>6 DEF ModifyOrphan, DropHandle, DropOrphan, poolVars, fileVars, flushVars
<1>7. ASSUME NEW p \in Pages,
             \/ FetchHit(p) \/ FetchMiss(p) \/ FetchReadFails(p)
             \/ FlushPage(p) \/ FlushPageFails(p) \/ FlushAllPageFails(p)
      PROVE  FALSE
  BY <1>7 DEF FetchHit, FetchMiss, FetchReadFails, FlushPage, FlushPageFails,
              FlushAllPageFails, FlushAllEnd, flushVars
<1>8. ASSUME NewPage \/ EvictFails \/ SaveHeader \/ SaveHeaderFails \/ Crash
      PROVE  FALSE
  BY <1>8 DEF NewPage, EvictFails, SaveHeader, SaveHeaderFails, Crash, FlushAllEnd, flushVars
<1> HIDE DEF Reached
<1>9. Reached
  BY <1>3, <1>4, <1>5, <1>6, <1>7, <1>8 DEF Next
<1>10. QED BY <1>9 DEF Reached

(* No step, failure or power loss takes a page behind the last checkpoint. *)
LEMMA CheckpointKeptStep ==
  ASSUME IInv, CheckpointInv, Next
  PROVE  CheckpointKept'
<1> SUFFICES ASSUME NEW p \in Pages, p # 0, NEW c \in platter'[p], checkpoint'[p] > 0
             PROVE  c >= checkpoint'[p]
  BY DEF CheckpointKept, Kept
<1>1. PoolInv
  BY DEF IInv
<1>2. CASE SaveHeader
  <2>1. checkpoint' = goal /\ flush = {}
    BY <1>2 DEF SaveHeader
  <2>2. c = disk[p]
    BY <1>1, <1>2, HeaderWrittenImage, SyncedFile DEF SaveHeader
  <2>3. flush # Idle
    BY <2>1 DEF Idle
  <2>4. disk[p] >= goal[p]
    BY <2>1, <2>3 DEF CheckpointInv, FlushReachesGoal
  <2>5. QED BY <2>1, <2>2, <2>4
<1>3. CASE UNCHANGED checkpoint
  <2>1. ImageFrom(p, c)
    BY StepEffect DEF ImagesFrom
  <2>2. CASE c \in platter[p]
    BY <1>3, <2>2 DEF CheckpointInv, CheckpointKept, Kept
  <2>3. CASE p \in Cached /\ page_table[p].dirty /\ c = page_table[p].content
    BY <1>3, <2>3 DEF CheckpointInv, DirtyIsNewer
  <2>4. QED BY <2>1, <2>2, <2>3 DEF ImageFrom
<1>4. QED BY <1>2, <1>3, StepHistory

(* The checkpoint invariant is inductive relative to IInv.                 *)
LEMMA CheckpointInvStep ==
  ASSUME IInv, CheckpointInv, [Next]_vars
  PROVE  CheckpointInv'
<1>1. CASE Next
  BY <1>1, LsnsAssignedStep, CleanOnDiskStep, DirtyIsNewerStep, FlushReachesGoalStep,
     CheckpointKeptStep DEF CheckpointInv
<1>2. CASE UNCHANGED vars
  BY <1>2 DEF vars, poolVars, fileVars, histVars, flushVars, CheckpointInv, LsnsAssigned,
              CleanOnDisk, DirtyIsNewer, FlushReachesGoal, CheckpointKept, Kept, Cached
<1>3. QED BY <1>1, <1>2

(* A checkpoint that flush_all_pages completed is not undone: whatever     *)
(* clients did while it ran, and whatever fails or crashes later, every    *)
(* image that may survive of a page is at least as new as the content the  *)
(* pool held when the call began.  That says that the update is in it as   *)
(* long as the slot holds the same page, hence the condition on pages      *)
(* handed out again; and page 0 is excepted, because save_header writes    *)
(* over it (page.rs:729).                                                  *)
THEOREM CheckpointHolds == Spec => []CheckpointSurvives
<1>1. Init => CheckpointInv
  <2>1. ASSUME Init PROVE CheckpointInv
    <3>1. Cached = {}
      BY <2>1 DEF Init, Cached
    <3>2. \A p \in Pages : platter[p] = {-1} /\ goal[p] = -1 /\ checkpoint[p] = -1
      BY <2>1, PoolConstants DEF Init, Blank
    <3>3. lsn = 0 /\ flush = Idle
      BY <2>1 DEF Init
    <3>4. QED BY <3>1, <3>2, <3>3 DEF CheckpointInv, LsnsAssigned, CleanOnDisk, DirtyIsNewer,
                                      FlushReachesGoal, CheckpointKept, Kept
  <2>2. QED BY <2>1
<1>2. CheckpointInv => CheckpointSurvives
  BY DEF CheckpointInv, CheckpointKept, CheckpointSurvives
<1>3. QED BY <1>1, <1>2, CheckpointInvStep, Inductive, PTL DEF Spec

-----------------------------------------------------------------------------
(* Page 0 is not a page of anyone: its slot is the header's.               *)
HeaderSlotFree ==
  /\ disk[0] = Blank
  /\ 0 \in Cached => page_table[0] = [content |-> Blank, dirty |-> FALSE]

(* The clients' pages, until the first power loss. *)
UpdateInv == FreeSpaceIsFree /\ OneFramePerPage /\ NoLostUpdate /\ HeaderSlotFree

(* What a step without a power loss does to a page: nothing; it is flushed,*)
(* and kept or evicted; it is read; it is allocated; a client writes to it.*)
Unmoved(q) ==
  /\ page_table'[q] = page_table[q]
  /\ disk'[q] = disk[q]
  /\ latest'[q] = latest[q]

WrittenBack(q) ==
  /\ q \in Cached
  /\ disk'[q] = IF page_table[q].dirty THEN page_table[q].content ELSE disk[q]
  /\ \/ page_table'[q] = NoFrame
     \/ page_table'[q].content = page_table[q].content /\ ~ page_table'[q].dirty
  /\ latest'[q] = latest[q]

ReadIn(q) ==
  /\ q \notin Cached
  /\ q < next_free
  /\ page_table'[q] = [content |-> disk[q], dirty |-> FALSE]
  /\ disk'[q] = disk[q]
  /\ latest'[q] = latest[q]

Allocated(q) ==
  /\ q = next_free
  /\ next_free' = next_free + 1
  /\ latest'[q] = 0

WrittenTo(q) ==
  /\ q \in Cached
  /\ page_table[q].content # Blank
  /\ page_table'[q] = [content |-> lsn + 1, dirty |-> TRUE]
  /\ disk'[q] = disk[q]
  /\ latest'[q] = lsn + 1

PageStep(q) ==
  Unmoved(q) \/ WrittenBack(q) \/ ReadIn(q) \/ Allocated(q) \/ WrittenTo(q)

PoolStep ==
  /\ \A q \in Pages : PageStep(q)
  /\ next_free' >= next_free
  /\ orphans' = orphans

-----------------------------------------------------------------------------
(* The victim is written back and dropped, before anything else happens.   *)
LEMMA VictimWrittenBack ==
  ASSUME IInv, NEW v \in Pages \cup {NoPage}, RoomMade(v),
         NEW p \in Pages, NEW n, page_table' = TableWith(v, p, n)
  PROVE  /\ p = v \/ p \notin Cached => \A q \in Pages : q # p =>
              /\ q # v => page_table'[q] = page_table[q] /\ disk'[q] = disk[q]
              /\ q = v => /\ q \in Cached
                          /\ page_table'[q] = NoFrame
                          /\ disk'[q] = IF page_table[q].dirty THEN page_table[q].content
                                                               ELSE disk[q]
         /\ v # NoPage => v \in Cached /\ Flushed(v)
<1>1. PoolInv
  BY DEF IInv
<1>2. v # NoPage => v \in Cached /\ Flushed(v)
  BY <1>1, RoomMadeFile
<1>3. ASSUME NEW q \in Pages, q # p, q # v
      PROVE  page_table'[q] = page_table[q] /\ disk'[q] = disk[q]
  BY <1>3, RoomMadeEffect DEF TableWith
<1>4. ASSUME NEW q \in Pages, q # p, q = v
      PROVE  /\ q \in Cached
             /\ page_table'[q] = NoFrame
             /\ disk'[q] = IF page_table[q].dirty THEN page_table[q].content ELSE disk[q]
  BY <1>2, <1>4, FlushedEffect, PoolConstants DEF TableWith
<1>5. QED BY <1>2, <1>3, <1>4

(* A page the file reaches was allocated before.                           *)
LEMMA ReachedIsAllocated ==
  ASSUME IInv, FreeSpaceIsFree, NEW v \in Pages \cup {NoPage}, RoomMade(v),
         NEW p \in Pages, \E q \in Pages : q >= p /\ disk'[q] # Blank
  PROVE  p < next_free
<1>1. PICK q \in Pages : q >= p /\ disk'[q] # Blank
  OBVIOUS
<1>2. q < next_free \/ q >= next_free
  BY PoolConstants DEF IInv, PoolInv, ClientsOK, Pages
<1>3. v \in Pages => v \in Cached
  BY RoomMadeFile, PoolConstants DEF IInv
<1>4. CASE q >= next_free
  <2>1. disk[q] = Blank /\ q \notin Cached
    BY <1>4 DEF FreeSpaceIsFree
  <2>2. q # v
    BY <1>3, <2>1
  <2>3. QED BY <1>1, <2>1, <2>2, RoomMadeEffect
<1>5. CASE q < next_free
  BY <1>1, <1>5, PoolConstants DEF IInv, PoolInv, ClientsOK, Pages
<1>6. QED BY <1>2, <1>4, <1>5

(* Every step without a power loss, page by page.                          *)
LEMMA StepWithoutPowerLoss ==
  ASSUME IInv, FreeSpaceIsFree, OneFramePerPage, HeaderSlotFree, Next, crashes' = 0
  PROVE  PoolStep
<1>1. PoolInv /\ next_free \in Int /\ orphans \in [Pages -> Nat] /\ latest \in [Pages -> Content]
  BY PoolConstants DEF IInv, PoolInv, ClientsOK
<1>2. page_table \in [Pages -> Node \cup {NoFrame}]
  BY <1>1 DEF PoolInv, TableOK
<1>3. ASSUME UNCHANGED <<page_table, disk, latest, next_free, orphans>> PROVE PoolStep
  BY <1>1, <1>3 DEF PoolStep, PageStep, Unmoved
<1>4. ASSUME NEW p \in Pages, FetchMiss(p) PROVE PoolStep
  <2>1. PICK v \in Pages \cup {NoPage} :
          /\ RoomMade(v)
          /\ \E q \in Pages : q >= p /\ disk'[q] # Blank
          /\ page_table' = TableWith(v, p, [content |-> disk[p], dirty |-> FALSE])
    BY <1>4 DEF FetchMiss
  <2>2. p \notin Cached /\ UNCHANGED <<latest, next_free, orphans>>
    BY <1>4 DEF FetchMiss, histVars
  <2>3. p < next_free
    BY <2>1, ReachedIsAllocated
  <2>4. p # v
    BY <2>1, <2>2, VictimWrittenBack, PoolConstants
  <2>5. ReadIn(p)
    BY <2>1, <2>2, <2>3, <2>4, RoomMadeEffect DEF ReadIn, TableWith
  <2>6. \A q \in Pages : q # p => Unmoved(q) \/ WrittenBack(q)
    BY <2>1, <2>2, VictimWrittenBack DEF Unmoved, WrittenBack
  <2>7. QED BY <1>1, <2>2, <2>5, <2>6 DEF PoolStep, PageStep
<1>5. ASSUME NEW p \in Pages, FetchReadFails(p) PROVE PoolStep
  <2>1. PICK v \in Pages : RoomMade(v) /\ page_table' = TableWith(v, v, NoFrame)
    BY <1>5 DEF FetchReadFails
  <2>2. UNCHANGED <<latest, next_free, orphans>>
    BY <1>5 DEF FetchReadFails, histVars
  <2>3. \A q \in Pages : q # v => Unmoved(q)
    BY <2>1, <2>2, VictimWrittenBack DEF Unmoved
  <2>4. WrittenBack(v)
    BY <2>1, <2>2, VictimWrittenBack, FlushedEffect, PoolConstants DEF WrittenBack, TableWith
  <2>5. QED BY <1>1, <2>2, <2>3, <2>4 DEF PoolStep, PageStep
<1>6. ASSUME NewPage PROVE PoolStep
  <2>1. PICK v \in Pages \cup {NoPage} :
          RoomMade(v) /\ page_table' = TableWith(v, next_free, [content |-> 0, dirty |-> FALSE])
    BY <1>6 DEF NewPage
  <2>2. /\ next_free \in Pages
        /\ next_free' = next_free + 1
        /\ latest' = [latest EXCEPT ![next_free] = 0]
        /\ orphans' = [orphans EXCEPT ![next_free] = @ + pins[next_free]]
    BY <1>6 DEF NewPage
  <2>3. next_free \notin Cached
    BY <1>1, <2>2 DEF FreeSpaceIsFree
  <2>4. pins[next_free] = 0
    BY <2>2, <2>3 DEF OneFramePerPage, IInv, PoolInv, ClientsOK
  <2>5. orphans' = orphans
    BY <1>1, <2>2, <2>4
  <2>6. Allocated(next_free)
    BY <1>1, <2>2 DEF Allocated
  <2>7. \A q \in Pages : q # next_free => Unmoved(q) \/ WrittenBack(q)
    BY <1>1, <2>1, <2>2, <2>3, VictimWrittenBack DEF Unmoved, WrittenBack
  <2>8. QED BY <1>1, <2>2, <2>5, <2>6, <2>7 DEF PoolStep, PageStep
<1>7. ASSUME NEW p \in Cached, Flushed(p), page_table' = [page_table EXCEPT ![p].dirty = FALSE],
             UNCHANGED <<latest, next_free, orphans>>
      PROVE  PoolStep
  <2>1. /\ \A q \in Pages : q # p => disk'[q] = disk[q]
        /\ disk'[p] = IF page_table[p].dirty THEN page_table[p].content ELSE disk[p]
    BY <1>7, FlushedEffect
  <2>2. p \in Pages
    BY DEF Cached
  <2>3. /\ page_table'[p].content = page_table[p].content
        /\ ~ page_table'[p].dirty
        /\ \A q \in Pages : q # p => page_table'[q] = page_table[q]
    BY <1>1, <1>2, <1>7, <2>2, CleanFrame
  <2>4. WrittenBack(p) /\ \A q \in Pages : q # p => Unmoved(q)
    BY <1>7, <2>1, <2>3 DEF WrittenBack, Unmoved
  <2>5. QED BY <1>1, <1>7, <2>4 DEF PoolStep, PageStep
<1>8. ASSUME NEW p \in Pages, FlushPage(p) \/ FlushAllPage(p) PROVE PoolStep
  <2>1. p \in Cached
    BY <1>1, <1>8 DEF FlushPage, FlushAllPage, PoolInv, FlushOK
  <2>2. QED BY <1>7, <1>8, <2>1 DEF FlushPage, FlushAllPage, histVars
<1>9. ASSUME NEW p \in Pages, Modify(p) PROVE PoolStep
  <2>1. p \in Cached
    BY <1>9 DEF Modify, IInv, HandlesCached, Pinned
  <2>2. /\ page_table' = [page_table EXCEPT ![p] = [content |-> lsn + 1, dirty |-> TRUE]]
        /\ latest' = [latest EXCEPT ![p] = lsn + 1]
        /\ UNCHANGED <<disk, next_free, orphans>>
    BY <1>9 DEF Modify, fileVars
  <2>3. WrittenTo(p) /\ \A q \in Pages : q # p => Unmoved(q)
    BY <1>1, <1>2, <1>9, <2>1, <2>2 DEF WrittenTo, Unmoved, Modify
  <2>4. QED BY <1>1, <2>2, <2>3 DEF PoolStep, PageStep
<1>10. ASSUME NEW p \in Pages, FetchHit(p) \/ FlushPageFails(p) \/ FlushAllPageFails(p) \/ DropHandle(p)
       PROVE  PoolStep
  BY <1>3, <1>10 DEF FetchHit, FlushPageFails, FlushAllPageFails, DropHandle, FlushFailed,
                     poolVars, fileVars, histVars
<1>11. ASSUME NEW p \in Pages, ModifyOrphan(p) \/ DropOrphan(p) PROVE FALSE
  BY <1>11 DEF ModifyOrphan, DropOrphan, OneFramePerPage
<1>12. ASSUME EvictFails \/ FlushAllBegin PROVE PoolStep
  BY <1>3, <1>12 DEF EvictFails, FlushAllBegin, FlushFailed, poolVars, fileVars, histVars
<1>13. ASSUME SaveHeader \/ SaveHeaderFails PROVE PoolStep
  <2>1. UNCHANGED <<page_table, latest, next_free, orphans>>
    BY <1>13 DEF SaveHeader, SaveHeaderFails, poolVars, histVars
  <2>2. disk' = disk \/ disk' = HeaderWritten
    BY <1>13 DEF SaveHeader, SaveHeaderFails
  <2>3. \A q \in Pages : disk'[q] = disk[q]
    BY <1>1, <2>2, HeaderWrittenImage DEF HeaderSlotFree
  <2>4. QED BY <1>1, <2>1, <2>3 DEF PoolStep, PageStep, Unmoved
<1>14. ~ Crash
  BY PoolConstants DEF Crash, IInv, PoolInv, ClientsOK
<1>15. QED
  BY <1>4, <1>5, <1>6, <1>8, <1>9, <1>10, <1>11, <1>12, <1>13, <1>14 DEF Next

-----------------------------------------------------------------------------
(* Pages are allocated in order, so what lies past next_free_offset is     *)
(* neither flushed, nor read, nor written to.                              *)
LEMMA FreeSpaceIsFreeStep ==
  ASSUME IInv, UpdateInv, PoolStep, next_free' \in Int
  PROVE  FreeSpaceIsFree'
<1>1. next_free \in Int /\ next_free' >= next_free
  BY PoolConstants DEF IInv, PoolInv, ClientsOK, PoolStep
<1>2. ASSUME NEW p \in Pages, p >= next_free'
      PROVE  disk'[p] = Blank /\ p \notin Cached'
  <2>1. p \in Int /\ p >= next_free
    BY <1>1, <1>2 DEF Pages
  <2>2. disk[p] = Blank /\ p \notin Cached
    BY <2>1 DEF UpdateInv, FreeSpaceIsFree
  <2>3. ~ Allocated(p)
    BY <1>1, <1>2, <2>1 DEF Allocated
  <2>4. ~ WrittenBack(p) /\ ~ WrittenTo(p)
    BY <2>2 DEF WrittenBack, WrittenTo
  <2>5. ~ ReadIn(p)
    BY <1>1, <2>1 DEF ReadIn
  <2>6. Unmoved(p)
    BY <2>3, <2>4, <2>5 DEF PoolStep, PageStep
  <2>7. QED BY <2>2, <2>6 DEF Unmoved, Cached
<1>3. QED BY <1>1, <1>2 DEF UpdateInv, FreeSpaceIsFree

(* What a client last wrote moves from the frame to the file before the    *)
(* frame goes, and from the file to the frame when it is back.             *)
LEMMA NoLostUpdateStep ==
  ASSUME IInv, UpdateInv, PoolStep
  PROVE  NoLostUpdate'
<1> SUFFICES ASSUME NEW q \in Pages, latest'[q] > 0
             PROVE  /\ Held(q)' = latest'[q]
                    /\ q \in Cached' /\ ~ page_table'[q].dirty => disk'[q] = latest'[q]
  BY DEF NoLostUpdate
<1>1. latest[q] > 0 => /\ Held(q) = latest[q]
                       /\ q \in Cached /\ ~ page_table[q].dirty => disk[q] = latest[q]
  BY DEF UpdateInv, NoLostUpdate
<1>2. CASE Unmoved(q)
  BY <1>1, <1>2 DEF Unmoved, Held, Cached
<1>3. CASE WrittenBack(q)
  <2>1. disk'[q] = latest'[q]
    BY <1>1, <1>3 DEF WrittenBack, Held
  <2>2. QED BY <1>1, <1>3, <2>1 DEF WrittenBack, Held, Cached
<1>4. CASE ReadIn(q)
  BY <1>1, <1>4 DEF ReadIn, Held, Cached
<1>5. ~ Allocated(q)
  BY DEF Allocated
<1>6. CASE WrittenTo(q)
  <2>1. page_table'[q].content = latest'[q] /\ page_table'[q].dirty
    BY <1>6 DEF WrittenTo
  <2>2. page_table'[q] # NoFrame
    <3>1. [content |-> lsn + 1, dirty |-> TRUE] \in [content : Int, dirty : BOOLEAN]
      BY PoolConstants DEF IInv, PoolInv, ClientsOK
    <3>2. QED BY <1>6, <3>1, PoolAssumption DEF WrittenTo
  <2>3. QED BY <2>1, <2>2 DEF Held, Cached
<1>7. QED BY <1>2, <1>3, <1>4, <1>5, <1>6 DEF PoolStep, PageStep

(* No page is allocated, written or flushed in the header's slot.          *)
LEMMA HeaderSlotFreeStep ==
  ASSUME IInv', UpdateInv, PoolStep
  PROVE  HeaderSlotFree'
<1>1. /\ disk[0] = Blank
      /\ 0 \in Cached => page_table[0] = [content |-> Blank, dirty |-> FALSE]
      /\ next_free >= 1
  BY DEF UpdateInv, HeaderSlotFree, FreeSpaceIsFree
<1>2. 0 \in Pages /\ PageStep(0)
  BY PoolConstants DEF PoolStep
<1>3. CASE Unmoved(0)
  BY <1>1, <1>3 DEF Unmoved, HeaderSlotFree, Cached
<1>4. CASE WrittenBack(0)
  <2>1. disk'[0] = Blank
    BY <1>1, <1>4 DEF WrittenBack
  <2>2. \/ page_table'[0] = NoFrame
        \/ page_table'[0].content = Blank /\ ~ page_table'[0].dirty
    BY <1>1, <1>4 DEF WrittenBack
  <2>3. page_table'[0] \in Node \cup {NoFrame}
    BY <1>2 DEF IInv, PoolInv, TableOK
  <2>4. QED BY <2>1, <2>2, <2>3 DEF HeaderSlotFree, Cached, Node
<1>5. CASE ReadIn(0)
  BY <1>1, <1>5 DEF ReadIn, HeaderSlotFree
<1>6. ~ Allocated(0) /\ ~ WrittenTo(0)
  BY <1>1 DEF Allocated, WrittenTo
<1>7. QED BY <1>2, <1>3, <1>4, <1>5, <1>6 DEF PageStep

(* Power losses are counted, and nothing else is counted as one.           *)
LEMMA OnlyCrashCounts ==
  ASSUME Next
  PROVE  crashes' = crashes \/ crashes' = crashes + 1
<1> DEFINE Counted == crashes' = crashes \/ crashes' = crashes + 1
<1>1. ASSUME NEW p \in Pages, FetchHit(p) \/ FetchMiss(p) \/ FetchReadFails(p) PROVE Counted
  BY <1>1 DEF FetchHit, FetchMiss, FetchReadFails
<1>2. ASSUME NEW p \in Pages,
             FlushPage(p) \/ FlushPageFails(p) \/ FlushAllPage(p) \/ FlushAllPageFails(p)
      PROVE  Counted
  BY <1>2 DEF FlushPage, FlushPageFails, FlushAllPage, FlushAllPageFails
<1>3. ASSUME NEW p \in Pages, Modify(p) \/ ModifyOrphan(p) \/ DropHandle(p) \/ DropOrphan(p)
      PROVE  Counted
  BY <1>3 DEF Modify, ModifyOrphan, DropHandle, DropOrphan
<1>4. ASSUME NewPage \/ EvictFails \/ FlushAllBegin \/ SaveHeader \/ SaveHeaderFails \/ Crash
      PROVE  Counted
  BY <1>4 DEF NewPage, EvictFails, FlushAllBegin, SaveHeader, SaveHeaderFails, Crash
<1>5. QED BY <1>1, <1>2, <1>3, <1>4 DEF Next

(* Every step but a power loss keeps the invariant of updates.             *)
LEMMA UpdateInvStep ==
  ASSUME IInv, crashes = 0 => UpdateInv, [Next]_vars, crashes' = 0
  PROVE  UpdateInv'
<1>1. IInv'
  BY NextKeepsInv
<1>2. CASE Next
  <2>1. crashes = 0
    <3>1. crashes \in Nat
      BY PoolConstants DEF IInv, PoolInv, ClientsOK
    <3>2. QED BY <1>2, <3>1, OnlyCrashCounts
  <2>2. UpdateInv /\ PoolStep
    BY <1>2, <2>1, StepWithoutPowerLoss DEF UpdateInv
  <2>3. next_free' \in Int
    BY <1>1, PoolConstants DEF IInv, PoolInv, ClientsOK
  <2>4. OneFramePerPage'
    BY <1>1, <2>2 DEF UpdateInv, OneFramePerPage, PoolStep, IInv, HandlesCached, Pinned
  <2>5. QED
    BY <1>1, <2>2, <2>3, <2>4, FreeSpaceIsFreeStep, NoLostUpdateStep, HeaderSlotFreeStep
       DEF UpdateInv
<1>3. CASE UNCHANGED vars
  BY <1>3 DEF vars, poolVars, fileVars, histVars, UpdateInv, FreeSpaceIsFree, OneFramePerPage,
    NoLostUpdate, HeaderSlotFree, Held, Cached
<1>4. QED BY <1>2, <1>3

(* The invariant of updates holds up to the first power loss.              *)
LEMMA UpdatesKept == Spec => [](crashes = 0 => UpdateInv)
<1>1. Init => UpdateInv
  BY PoolConstants DEF Init, UpdateInv, FreeSpaceIsFree, OneFramePerPage, NoLostUpdate,
                       HeaderSlotFree, Cached, Blank
<1>2. IInv /\ (crashes = 0 => UpdateInv) /\ [Next]_vars => (crashes = 0 => UpdateInv)'
  BY UpdateInvStep
<1>3. QED BY <1>1, <1>2, Inductive, PTL DEF Spec

(* No page is evicted under a client that holds it, and no frame is taken  *)
(* out of the table while a client has it, until a power loss.             *)
THEOREM OneFrameUntilPowerLoss == Spec => [](crashes = 0 => OneFramePerPage)
<1>1. (crashes = 0 => UpdateInv) => (crashes = 0 => OneFramePerPage)
  BY DEF UpdateInv
<1>2. QED BY <1>1, UpdatesKept, PTL

(* What a client last wrote to a page is what the next fetch of it shows,  *)
(* through evictions, failed writes and flushes in between, until a power  *)
(* loss.                                                                   *)
THEOREM UpdatesHoldUntilPowerLoss == Spec => [](crashes = 0 => NoLostUpdate)
<1>1. (crashes = 0 => UpdateInv) => (crashes = 0 => NoLostUpdate)
  BY DEF UpdateInv
<1>2. QED BY <1>1, UpdatesKept, PTL

(* new_page hands out pages nothing was ever written to, until a power loss*)
(* brings back an old next_free_offset.                                    *)
THEOREM NewPagesAreNewUntilPowerLoss == Spec => [](crashes = 0 => FreeSpaceIsFree)
<1>1. (crashes = 0 => UpdateInv) => (crashes = 0 => FreeSpaceIsFree)
  BY DEF UpdateInv
<1>2. QED BY <1>1, UpdatesKept, PTL

-----------------------------------------------------------------------------
(* Making room drops the victim from the table and from the replacer       *)
(* alike, so nothing is stranded by a fetch or by an allocation that gets  *)
(* its room, whatever fails afterwards.                                    *)
LEMMA RoomStrandsNothing ==
  ASSUME IInv, NEW v \in Pages \cup {NoPage}, NEW p \in Pages, NEW n,
         RoomMade(v),
         page_table' = TableWith(v, p, n),
         \/ replacer' = Touch(Drop(replacer, v), p)
         \/ replacer' = Drop(replacer, v) /\ p = v /\ n = NoFrame
  PROVE  Stranded' \subseteq Stranded
<1>1. /\ replacer \in Seq(Pages)
      /\ TrackedOnce(replacer)
  BY DEF IInv, PoolInv, TableOK, ReplacerAgrees, TrackedOnce
<1> DEFINE d == Drop(replacer, v)
<1>2. d \in Seq(Pages) /\ TrackedOnce(d) /\ Tracked(d) = Tracked(replacer) \ {v}
  BY <1>1, DropProperties
<1> HIDE DEF d
<1>3. CASE replacer' = Touch(d, p)
  <2>1. Tracked(Touch(d, p)) = Tracked(d) \cup {p}
    BY <1>2, TouchProperties
  <2>2. Tracked(replacer)' = (Tracked(replacer) \ {v}) \cup {p}
    BY <1>2, <1>3, <2>1
  <2>3. Cached' \subseteq (Cached \ {v}) \cup {p}
    BY DEF Cached, TableWith
  <2>4. QED BY <2>2, <2>3 DEF Stranded
<1>4. CASE replacer' = d /\ p = v /\ n = NoFrame
  <2>1. Tracked(replacer)' = Tracked(replacer) \ {v}
    BY <1>2, <1>4
  <2>2. Cached' = Cached \ {v}
    BY <1>4 DEF Cached, TableWith
  <2>3. QED BY <2>1, <2>2 DEF Stranded
<1>5. QED BY <1>3, <1>4 DEF d

(* A page flushed or written to stays where it was, in both.               *)
LEMMA FrameKept ==
  ASSUME IInv, NEW p \in Cached, UNCHANGED replacer,
         \/ page_table' = [page_table EXCEPT ![p].dirty = FALSE]
         \/ \E n \in Node : page_table' = [page_table EXCEPT ![p] = n]
  PROVE  Stranded' = Stranded
<1>1. PoolInv
  BY DEF IInv
<1>2. PICK n \in Node : page_table' = [page_table EXCEPT ![p] = n]
  BY <1>1, CleanFrame
<1>3. Cached' = Cached
  BY <1>1, <1>2, FrameRewritten
<1>4. QED BY <1>3 DEF Stranded

(* A page becomes stranded only by an eviction whose write-back failed:    *)
(* its frame stays as it was, dirty, and the file too.                     *)
LEMMA StrandStep ==
  ASSUME IInv, [Next]_vars, NEW p \in Stranded' \ Stranded
  PROVE  /\ p \in Cached
         /\ page_table[p].dirty
         /\ page_table'[p] = page_table[p]
         /\ disk'[p] = disk[p]
<1> DEFINE None == Stranded' \subseteq Stranded
<1>1. PoolInv
  BY DEF IInv
<1>2. ASSUME UNCHANGED <<page_table, replacer>> PROVE None
  BY <1>2 DEF Stranded, Cached
<1>3. ASSUME NEW q \in Pages, FetchHit(q) PROVE None
  <2>1. UNCHANGED page_table /\ replacer' = Touch(replacer, q)
    BY <1>3 DEF FetchHit
  <2>2. Tracked(replacer)' = Tracked(replacer) \cup {q}
    BY <1>1, <2>1, TouchProperties DEF PoolInv, TableOK, ReplacerAgrees, TrackedOnce
  <2>3. QED BY <2>1, <2>2 DEF Stranded, Cached
<1>4. ASSUME NEW q \in Pages, FetchMiss(q) PROVE None
  BY <1>4, RoomStrandsNothing DEF FetchMiss
<1>5. ASSUME NEW q \in Pages, FetchReadFails(q) PROVE None
  BY <1>5, RoomStrandsNothing DEF FetchReadFails
<1>6. ASSUME NewPage PROVE None
  BY <1>6, RoomStrandsNothing DEF NewPage
<1>7. ASSUME NEW q \in Pages, FlushPage(q) \/ FlushAllPage(q) PROVE None
  <2>1. /\ q \in Cached
        /\ page_table' = [page_table EXCEPT ![q].dirty = FALSE]
        /\ UNCHANGED replacer
    BY <1>1, <1>7 DEF FlushPage, FlushAllPage, PoolInv, FlushOK
  <2>2. QED BY <2>1, FrameKept
<1>8. ASSUME NEW q \in Pages, Modify(q) PROVE None
  <2>1. q \in Cached
    BY <1>8 DEF Modify, IInv, HandlesCached, Pinned
  <2>2. [content |-> lsn + 1, dirty |-> TRUE] \in Node
    BY <1>1, <1>8, PoolConstants DEF Modify, PoolInv, ClientsOK, Node, Content, Blank
  <2>3. QED BY <1>8, <2>1, <2>2, FrameKept DEF Modify
<1>9. ASSUME NEW q \in Pages,
             FlushPageFails(q) \/ FlushAllPageFails(q) \/ ModifyOrphan(q)
               \/ DropHandle(q) \/ DropOrphan(q)
      PROVE  None
  BY <1>2, <1>9 DEF FlushPageFails, FlushAllPageFails, ModifyOrphan, DropHandle, DropOrphan, poolVars
<1>10. ASSUME FlushAllBegin \/ SaveHeader \/ SaveHeaderFails \/ UNCHANGED vars PROVE None
  BY <1>2, <1>10 DEF FlushAllBegin, SaveHeader, SaveHeaderFails, vars, poolVars
<1>11. ASSUME Crash PROVE None
  BY <1>11 DEF Crash, Stranded, Cached
<1>12. CASE EvictFails
  <2>1. PICK v \in Pages :
          IsVictim(replacer, Pinned, v) /\ FlushFailed(v) /\ replacer' = Drop(replacer, v)
    BY <1>12 DEF EvictFails
  <2>2. v \in Cached
    BY <1>1, <2>1, VictimIsTracked DEF PoolInv, TableOK, ReplacerAgrees
  <2>3. page_table' = page_table /\ disk' = disk /\ page_table[v].dirty
    BY <1>12, <2>1 DEF EvictFails, FlushFailed
  <2>4. Tracked(replacer)' = Tracked(replacer) \ {v}
    BY <1>1, <2>1, DropProperties DEF PoolInv, TableOK, ReplacerAgrees, TrackedOnce
  <2>5. p = v
    BY <2>3, <2>4 DEF Stranded, Cached
  <2>6. QED BY <2>2, <2>3, <2>5
<1>13. EvictFails \/ None
  BY <1>3, <1>4, <1>5, <1>6, <1>7, <1>8, <1>9, <1>10, <1>11 DEF Next
<1>14. QED BY <1>12, <1>13

(* A frame gets out of the reach of evictions only by its own failed       *)
(* write-back, and then it is still marked and still holds the change: at  *)
(* every size of the pool, before a power loss and after it.               *)
THEOREM StrandedByOwnFailure == Spec => OnlyFailedWriteBackStrands
<1>1. IInv /\ [Next]_vars =>
        [\A p \in Stranded' \ Stranded :
           /\ p \in Cached
           /\ page_table[p].dirty
           /\ page_table'[p] = page_table[p]
           /\ disk'[p] = disk[p]]_vars
  BY StrandStep
<1>2. QED BY <1>1, Inductive, PTL DEF Spec, OnlyFailedWriteBackStrands
=============================================================================
