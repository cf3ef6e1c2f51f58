--------------------------- MODULE RecoveryProofs ---------------------------
(***************************************************************************)
(* Proofs about Recovery: a log that is truncated only after a synced      *)
(* flush, under LSNs that are not handed out twice, recovers every logged  *)
(* change, for any number of pages, changes, failures and power losses.    *)
(***************************************************************************)
EXTENDS Recovery, WellFoundedInduction, TLAPS

(* Types, for either way of counting LSNs.  The log is never longer than   *)
(* the largest LSN.                                                        *)
Checkpointing == ~ starting /\ phase \in {"flushing", "truncating", "syncing"}

TypeInv ==
  /\ TypeOK
  /\ pending \in [Pages -> {<<>>} \cup {<<e>> : e \in Entry}]
  /\ Len(log) <= MaxLsn
  /\ Len(untruncated) <= MaxLsn
  /\ phase = "running" \/ Checkpointing => Len(log) <= lsn
  /\ phase = "replaying" => starting /\ pos <= Len(log) + 1
  /\ phase = "syncing" => log = <<>>

(* The image a write of the page would leave. *)
HeldImage(p) == Stored(Held(p))

(* f is the run of a redo of the log l over an image of page p: the image  *)
(* before each entry, and at the end.                                      *)
Run(f, l, p, image) ==
  /\ f \in [0 .. Len(l) -> Image]
  /\ f[0] = image
  /\ \A i \in 1 .. Len(l) : f[i] = Redo(l[i], p, f[i - 1])

(* It meets no change that the page does not accept, and ends in the row,  *)
(* with no LSN above n.                                                    *)
Succeeds(f, l, p, row, n) ==
  /\ f[Len(l)].row = row
  /\ f[Len(l)].lsn <= n
  /\ \A i \in 1 .. Len(l) :
       l[i].page = p /\ l[i].lsn > f[i - 1].lsn => Applied(l[i], f[i - 1].row).ret = "Ok"

Recovers(l, p, image, row, n) ==
  \E f : Run(f, l, p, image) /\ Succeeds(f, l, p, row, n)

(* No entry of l is newer than the image of page p, which has the row.     *)
Covers(image, l, p) == \A i \in 1 .. Len(l) : l[i].page = p => l[i].lsn <= image.lsn

Current(image, l, p, row) == Covers(image, l, p) /\ image.row = row

-----------------------------------------------------------------------------
(* A clean frame shows what the file holds.                                *)
FramesAgree ==
  \A p \in Pages :
    /\ disk[p] \in platter[p]
    /\ cache[p] # NoFrame /\ ~ cache[p].dirty => Stored(cache[p]) = disk[p]

(* The log recovers every image, and the page as the pool has it.          *)
LogRecovers ==
  \A p \in Pages : \A image \in platter[p] \cup {HeldImage(p)} :
    Recovers(log, p, image, committed[p], lsn)

LsnsBelow ==
  /\ \A i \in 1 .. Len(log) : log[i].lsn <= lsn
  /\ \A i \in 1 .. Len(untruncated) : untruncated[i].lsn <= lsn

(* A change that is logged and not applied is the last one of its page,    *)
(* and leads from the page as it is to the row it is to have.              *)
PendingIsLast ==
  \A p \in Pages : pending[p] # <<>> =>
    /\ phase = "running"
    /\ pending[p][1].lsn <= lsn
    /\ Covers(pending[p][1], log, p)
    /\ Applied(pending[p][1], HeldImage(p).row).row = committed[p]

(* While the engine runs or flushes, the pool has every other change.      *)
PoolIsCurrent ==
  phase \in {"running", "flushing"} =>
    \A p \in Pages : pending[p] = <<>> => Current(HeldImage(p), log, p, committed[p])

(* Replay: the pool has what the redo of the first k entries makes of it.  *)
ReplayedTo(k, p) ==
  \E f : /\ Run(f, log, p, HeldImage(p))
         /\ Succeeds(f, log, p, committed[p], lsn)
         /\ \A i \in 0 .. k : f[i] = HeldImage(p)
         /\ \A i \in 1 .. k : log[i].page = p => log[i].lsn <= HeldImage(p).lsn

ReplayIsAt == phase = "replaying" => \A p \in Pages : ReplayedTo(pos - 1, p)

NothingDirty == \A p \in Pages : cache[p] # NoFrame => ~ cache[p].dirty

(* The log goes only when every image has what is in it; until its removal *)
(* is synced it may come back.                                             *)
TruncatedIsCurrent ==
  /\ phase \in {"truncating", "syncing"} =>
       /\ NothingDirty
       /\ \A p \in Pages : \A image \in platter[p] : Current(image, log, p, committed[p])
  /\ untruncated # <<>> =>
       /\ log = <<>>
       /\ NothingDirty
       /\ \A p \in Pages : pending[p] = <<>>
       /\ \A p \in Pages : \A image \in platter[p] :
            Current(image, untruncated, p, committed[p])

RecoveryInv ==
  /\ FramesAgree
  /\ LogRecovers
  /\ LsnsBelow
  /\ PendingIsLast
  /\ PoolIsCurrent
  /\ ReplayIsAt
  /\ TruncatedIsCurrent
  /\ ReplayNeverMisapplies

-----------------------------------------------------------------------------
(* Every nonempty set of naturals has a least element: what stands for     *)
(* induction below.                                                        *)
LEMMA Least ==
  ASSUME NEW T \in SUBSET Nat, T # {}
  PROVE  \E m \in T : \A k \in T : m <= k
<1> DEFINE R == {ss \in Nat \X Nat : ss[1] < ss[2]}
<1>1. R = OpToRel(<, Nat)
  BY DEF OpToRel
<1>2. IsWellFoundedOn(R, Nat)
  BY <1>1, NatLessThanWellFounded
<1>3. PICK m \in T : \A y \in T : ~ (<<y, m>> \in R)
  <2> HIDE DEF R
  <2>1. QED BY <1>2, WFMin
<1>4. ASSUME NEW k \in T PROVE m <= k
  <2>1. ~ (k < m)
    BY <1>3
  <2>2. QED BY <2>1
<1>5. QED BY <1>4

(* The largest LSN of a batch is one of them.                              *)
LEMMA ObservedType ==
  ASSUME NEW batch \in Seq(Entry)
  PROVE  Observed(batch) \in 0 .. MaxLsn
<1> DEFINE lsns == {batch[i].lsn : i \in 1 .. Len(batch)}
<1>1. MaxLsn \in Nat
  BY RecoveryAssumption
<1>2. lsns \subseteq 1 .. MaxLsn
  <2>1. ASSUME NEW i \in 1 .. Len(batch) PROVE batch[i].lsn \in 1 .. MaxLsn
    <3>1. batch[i] \in Entry
      OBVIOUS
    <3>2. QED BY <3>1 DEF Entry, Lsns
  <2>2. QED BY <2>1
<1>3. CASE batch = <<>>
  BY <1>1, <1>3 DEF Observed
<1>4. CASE batch # <<>>
  <2> DEFINE T == {MaxLsn - l : l \in lsns}
  <2>1. batch[1].lsn \in lsns
    BY <1>4
  <2> HIDE DEF lsns
  <2>2. \A l \in lsns : l \in Nat /\ l <= MaxLsn
    BY <1>1, <1>2
  <2>3. T \in SUBSET Nat
    BY <1>1, <2>2
  <2>4. T # {}
    BY <2>1
  <2>5. PICK m \in T : \A k \in T : m <= k
    BY <2>3, <2>4, Least
  <2>6. PICK x \in lsns : m = MaxLsn - x
    OBVIOUS
  <2>7. ASSUME NEW l \in lsns PROVE l <= x
    <3>1. MaxLsn - x <= MaxLsn - l
      BY <2>5, <2>6
    <3>2. QED BY <1>1, <2>2, <3>1
  <2>8. Observed(batch) = CHOOSE y \in lsns : \A l \in lsns : l <= y
    BY <1>4 DEF Observed, lsns
  <2>9. Observed(batch) \in lsns
    BY <2>7, <2>8
  <2>10. QED BY <1>1, <2>2, <2>9
<1>5. QED BY <1>3, <1>4

(* apply_entry leaves a row.                                               *)
LEMMA AppliedType ==
  ASSUME NEW e \in Entry, NEW row \in Row
  PROVE  Applied(e, row).row \in Row
<1>1. CASE e.op = "insert"
  BY <1>1 DEF Applied, Row, Absent, Entry
<1>2. CASE e.op = "update"
  BY <1>2 DEF Applied, Row, Absent, Entry
<1>3. CASE e.op = "delete"
  BY <1>3 DEF Applied, Row, Absent, Entry
<1>4. QED BY <1>1, <1>2, <1>3 DEF Entry

(* What fetch_page returns is a frame, whose row and LSN have their types. *)
LEMMA HeldType ==
  ASSUME TypeOK, NEW p \in Pages
  PROVE  Held(p) \in Frame /\ Held(p).row \in Row /\ Held(p).lsn \in 0 .. MaxLsn
<1>1. Loaded(disk[p]) \in Frame
  BY DEF TypeOK, Loaded, Image, Frame
<1>2. Held(p) \in Frame
  BY <1>1 DEF TypeOK, Held
<1>3. QED BY <1>2 DEF Frame

(* The bounds are numbers, and a fresh page is an image.                   *)
LEMMA ConstantTypes ==
  /\ MaxLsn \in Nat /\ MaxCrashes \in Nat /\ MaxFaults \in Nat
  /\ Absent \in Row
  /\ Blank \in Image
<1>1. MaxLsn \in Nat /\ MaxCrashes \in Nat /\ MaxFaults \in Nat
  BY RecoveryAssumption
<1>2. Absent \in Row
  BY DEF Row
<1>3. QED BY <1>1, <1>2 DEF Blank, Image

(* The program is down over empty pages and an empty log.                  *)
LEMMA TypeInit == Init => TypeInv
<1> SUFFICES ASSUME Init PROVE TypeInv
  OBVIOUS
<1>1. Len(<<>>) = 0
  OBVIOUS
<1>2. log \in Seq(Entry) /\ untruncated \in Seq(Entry)
  BY DEF Init
<1>3. cache \in [Pages -> Frame \cup {NoFrame}]
  BY DEF Init
<1>4. disk \in [Pages -> Image] /\ platter \in [Pages -> SUBSET Image]
  BY ConstantTypes DEF Init
<1>5. committed \in [Pages -> Row]
  BY ConstantTypes DEF Init
<1>6. pending \in [Pages -> {<<>>} \cup {<<e>> : e \in Entry}]
  BY DEF Init
<1>7. TypeOK
  <2>1. pos \in 1 .. MaxLsn + 1 /\ lsn \in 0 .. MaxLsn
    BY ConstantTypes DEF Init
  <2>2. crashes \in 0 .. MaxCrashes /\ faults \in 0 .. MaxFaults
    BY ConstantTypes DEF Init
  <2>3. phase = "down" /\ starting \in BOOLEAN
    BY DEF Init
  <2>4. QED BY <1>2, <1>3, <1>4, <1>5, <1>6, <2>1, <2>2, <2>3 DEF Init, TypeOK
<1>8. Len(log) <= MaxLsn /\ Len(untruncated) <= MaxLsn /\ phase = "down"
  BY <1>1, ConstantTypes DEF Init
<1>9. QED BY <1>6, <1>7, <1>8 DEF TypeInv, Checkpointing

(* A change: the LSN is the next one, and the log grows with the counter.  *)
LEMMA TypeLogChange ==
  ASSUME TypeInv, NEW p \in Pages, NEW op \in {"insert", "update", "delete"}, LogChange(p, op)
  PROVE  TypeInv'
<1> DEFINE e == [lsn |-> lsn + 1, page |-> p, op |-> op]
<1>1. lsn + 1 \in 1 .. MaxLsn
  BY ConstantTypes DEF LogChange, TypeInv, TypeOK
<1>2. e \in Entry
  BY <1>1 DEF Entry, Lsns
<1>3. Applied(e, Held(p).row).row \in Row
  BY <1>2, HeldType, AppliedType DEF TypeInv
<1>4. /\ log' = Append(log, e)
      /\ committed' = [committed EXCEPT ![p] = Applied(e, Held(p).row).row]
      /\ pending' = [pending EXCEPT ![p] = <<e>>]
      /\ untruncated' = <<>>
      /\ lsn' = lsn + 1
      /\ phase = "running"
      /\ UNCHANGED <<pageVars, torn, phase, starting, pos, boundVars>>
  BY DEF LogChange
<1> HIDE DEF e
<1>5. log' \in Seq(Entry) /\ Len(log') = Len(log) + 1
  BY <1>2, <1>4 DEF TypeInv, TypeOK
<1>6. committed' \in [Pages -> Row]
  BY <1>3, <1>4 DEF TypeInv, TypeOK
<1>7. pending' \in [Pages -> {<<>>} \cup {<<d>> : d \in Entry}]
  BY <1>2, <1>4 DEF TypeInv
<1>8. Len(log) \in Nat /\ Len(log) <= lsn
  BY <1>4 DEF TypeInv, TypeOK
<1>9. untruncated' \in Seq(Entry) /\ Len(untruncated') = 0
  BY <1>4
<1>10. TypeOK'
  BY <1>1, <1>4, <1>5, <1>6, <1>7, <1>9 DEF TypeInv, TypeOK, pageVars, boundVars
<1>11. Len(log') <= lsn' /\ Len(log') <= MaxLsn /\ Len(untruncated') <= MaxLsn
  <2>1. lsn \in Nat /\ lsn + 1 <= MaxLsn
    BY <1>1, ConstantTypes DEF TypeInv, TypeOK
  <2>2. QED BY <1>4, <1>5, <1>8, <1>9, <2>1, ConstantTypes
<1>12. phase' = "running"
  BY <1>4
<1>13. QED BY <1>7, <1>10, <1>11, <1>12 DEF TypeInv

(* The page as it is changed, written or evicted.                          *)
LEMMA TypePage ==
  ASSUME TypeInv, NEW p \in Pages, MakeChange(p) \/ WriteBack(p) \/ Evict(p)
  PROVE  TypeInv'
<1>1. CASE MakeChange(p)
  <2> DEFINE e == pending[p][1]
  <2>1. e \in Entry
    BY <1>1 DEF MakeChange, TypeInv
  <2>2. [lsn |-> e.lsn, row |-> Applied(e, Held(p).row).row, dirty |-> TRUE] \in Frame
    <3>1. Applied(e, Held(p).row).row \in Row
      BY <2>1, HeldType, AppliedType DEF TypeInv
    <3>2. e.lsn \in 0 .. MaxLsn
      BY <2>1 DEF Entry, Lsns
    <3> HIDE DEF e
    <3>3. QED BY <3>1, <3>2 DEF Frame
  <2>3. cache' \in [Pages -> Frame \cup {NoFrame}]
    BY <1>1, <2>2 DEF MakeChange, TypeInv, TypeOK
  <2>4. pending' \in [Pages -> {<<>>} \cup {<<d>> : d \in Entry}]
    BY <1>1 DEF MakeChange, TypeInv
  <2>5. TypeOK'
    BY <1>1, <2>3, <2>4 DEF MakeChange, TypeInv, TypeOK, logVars, boundVars
  <2>6. QED
    BY <1>1, <2>4, <2>5 DEF MakeChange, TypeInv, Checkpointing, logVars
<1>2. CASE WriteBack(p)
  <2>1. cache[p] \in Frame
    BY <1>2 DEF WriteBack, TypeInv, TypeOK
  <2>2. [cache[p] EXCEPT !.dirty = FALSE] \in Frame /\ Stored(cache[p]) \in Image
    BY <2>1 DEF Frame, Image, Stored
  <2>3. cache' = [cache EXCEPT ![p] = [cache[p] EXCEPT !.dirty = FALSE]]
    BY <1>2 DEF WriteBack
  <2>4. cache' \in [Pages -> Frame \cup {NoFrame}]
    BY <2>2, <2>3 DEF TypeInv, TypeOK
  <2>5. disk' \in [Pages -> Image]
    BY <1>2, <2>2 DEF WriteBack, TypeInv, TypeOK
  <2>6. platter' \in [Pages -> SUBSET Image]
    BY <1>2, <2>5 DEF WriteBack, TypeInv, TypeOK
  <2>7. TypeOK'
    BY <1>2, <2>4, <2>5, <2>6 DEF WriteBack, TypeInv, TypeOK, logVars, engineVars, boundVars
  <2>8. QED
    BY <1>2, <2>7 DEF WriteBack, TypeInv, Checkpointing, logVars, engineVars
<1>3. CASE Evict(p)
  <2>1. cache' \in [Pages -> Frame \cup {NoFrame}]
    BY <1>3 DEF Evict, TypeInv, TypeOK
  <2>2. TypeOK'
    BY <1>3, <2>1 DEF Evict, TypeInv, TypeOK, logVars, engineVars, boundVars
  <2>3. QED
    BY <1>3, <2>2 DEF Evict, TypeInv, Checkpointing, logVars, engineVars
<1>4. QED BY <1>1, <1>2, <1>3

(* Replay moves on by one entry and leaves a frame on its page.            *)
LEMMA TypeReplayEntry ==
  ASSUME TypeInv, ReplayEntry
  PROVE  TypeInv'
<1> DEFINE e == log[pos]
           f == Held(e.page)
           a == Applied(e, f.row)
<1>1. pos \in 1 .. Len(log) /\ Len(log) \in Nat
  BY DEF ReplayEntry, TypeInv, TypeOK
<1>2. e \in Entry
  BY <1>1 DEF TypeInv, TypeOK
<1>3. e.page \in Pages /\ e.lsn \in 0 .. MaxLsn
  BY <1>2 DEF Entry, Lsns
<1>4. f \in Frame /\ a.row \in Row
  BY <1>2, <1>3, HeldType, AppliedType DEF TypeInv
<1>5. /\ cache' = [cache EXCEPT ![e.page] = IF Obsolete(e, f) \/ a.ret # "Ok" THEN f
                                             ELSE [lsn |-> e.lsn, row |-> a.row, dirty |-> TRUE]]
      /\ phase = "replaying" /\ phase' \in {"replaying", "misapplied"}
      /\ pos' = pos + 1
      /\ UNCHANGED <<disk, platter, logVars, starting, engineVars, boundVars>>
  BY DEF ReplayEntry
<1> HIDE DEF e, f, a
<1>6. [lsn |-> e.lsn, row |-> a.row, dirty |-> TRUE] \in Frame
  BY <1>3, <1>4 DEF Frame
<1>7. cache' \in [Pages -> Frame \cup {NoFrame}]
  BY <1>4, <1>5, <1>6 DEF TypeInv, TypeOK
<1>8. pos' <= Len(log) + 1 /\ pos' \in 1 .. MaxLsn + 1
  BY <1>1, <1>5, ConstantTypes DEF TypeInv
<1>9. TypeOK'
  BY <1>5, <1>7, <1>8 DEF TypeInv, TypeOK, logVars, engineVars, boundVars
<1>10. QED
  BY <1>5, <1>8, <1>9 DEF TypeInv, Checkpointing, logVars, engineVars

(* Phases change, and with them the counter.                               *)
LEMMA TypePhases ==
  ASSUME TypeInv,
         \/ StartClean \/ StartReplay \/ StartFails \/ Restart
         \/ ReplayEnds \/ BeginCheckpoint
         \/ FlushEnds \/ Truncate \/ SyncLog
  PROVE  TypeInv'
<1>1. <<>> \in Seq(Entry) /\ Len(<<>>) = 0 /\ Len(log) \in Nat
  BY DEF TypeInv, TypeOK
<1>2. CASE StartClean
  <2>1. lsn' \in 0 .. MaxLsn
    BY <1>2, ConstantTypes DEF StartClean, TypeInv, TypeOK
  <2>2. TypeOK'
    BY <1>2, <2>1 DEF StartClean, TypeInv, TypeOK, pageVars, logVars, boundVars
  <2>3. QED
    BY <1>1, <1>2, <2>1, <2>2 DEF StartClean, TypeInv, Checkpointing, logVars
<1>3. CASE StartReplay
  BY <1>1, <1>3, ConstantTypes
    DEF StartReplay, TypeInv, TypeOK, Checkpointing, pageVars, logVars, engineVars, boundVars
<1>4. CASE ReplayEnds
  <2>1. TypeOK'
    BY <1>4 DEF ReplayEnds, TypeInv, TypeOK, pageVars, logVars, engineVars, boundVars
  <2>2. ~ Checkpointing'
    BY <1>4 DEF ReplayEnds, Checkpointing, TypeInv
  <2>3. QED BY <1>4, <2>1, <2>2 DEF ReplayEnds, TypeInv, logVars, engineVars
<1>5. CASE BeginCheckpoint
  BY <1>5 DEF BeginCheckpoint, TypeInv, TypeOK, Checkpointing,
              pageVars, logVars, engineVars, boundVars
<1>6. CASE FlushEnds
  <2>1. platter' \in [Pages -> SUBSET Image]
    BY <1>6 DEF FlushEnds, TypeInv, TypeOK
  <2>2. QED
    BY <1>6, <2>1 DEF FlushEnds, TypeInv, TypeOK, Checkpointing, logVars, engineVars, boundVars
<1>7. CASE Truncate
  <2>1. log' \in Seq(Entry) /\ Len(log') = 0
    BY <1>1, <1>7 DEF Truncate
  <2>2. untruncated' \in Seq(Entry) /\ Len(untruncated') <= MaxLsn
    BY <1>7 DEF Truncate, TypeInv, TypeOK
  <2>3. TypeOK'
    BY <1>7, <2>1, <2>2 DEF Truncate, TypeInv, TypeOK, pageVars, engineVars, boundVars
  <2>4. QED
    BY <1>7, <2>1, <2>2, <2>3, ConstantTypes DEF Truncate, TypeInv, TypeOK, engineVars
<1>8. CASE SyncLog
  <2>1. untruncated' \in Seq(Entry) /\ Len(untruncated') = 0
    BY <1>1, <1>8 DEF SyncLog
  <2>2. lsn' \in 0 .. MaxLsn
    BY <1>8, ObservedType DEF SyncLog, TypeInv, TypeOK
  <2>3. TypeOK'
    BY <1>8, <2>1, <2>2 DEF SyncLog, TypeInv, TypeOK, pageVars, boundVars
  <2>4. log = <<>> /\ Len(log) <= lsn'
    BY <1>1, <1>8, <2>2 DEF SyncLog, TypeInv
  <2>5. QED BY <1>8, <2>1, <2>3, <2>4, ConstantTypes DEF SyncLog, TypeInv, Checkpointing
<1>9. CASE StartFails \/ Restart
  <2>1. TypeOK'
    BY <1>9 DEF StartFails, Restart, TypeInv, TypeOK, pageVars, logVars, engineVars, boundVars
  <2>2. QED
    BY <1>9, <2>1 DEF StartFails, Restart, TypeInv, Checkpointing, logVars, engineVars
<1>10. QED BY <1>2, <1>3, <1>4, <1>5, <1>6, <1>7, <1>8, <1>9

(* A failure changes phases; a power loss takes a log and images there     *)
(* are.                                                                    *)
LEMMA TypeFailures ==
  ASSUME TypeInv, StepFails \/ Crash
  PROVE  TypeInv'
<1>1. CASE StepFails
  <2>1. cache' \in [Pages -> Frame \cup {NoFrame}]
    BY <1>1 DEF StepFails, TypeInv, TypeOK
  <2>2. faults' \in 0 .. MaxFaults
    BY <1>1, ConstantTypes DEF StepFails, TypeInv, TypeOK
  <2>3. TypeOK'
    BY <1>1, <2>1, <2>2 DEF StepFails, TypeInv, TypeOK, logVars, engineVars
  <2>4. QED
    BY <1>1, <2>3 DEF StepFails, TypeInv, Checkpointing, logVars, engineVars
<1>2. CASE Crash
  <2>1. \A p \in Pages : disk'[p] \in platter[p]
    BY <1>2 DEF Crash
  <2>2. disk' \in [Pages -> Image]
    BY <1>2, <2>1 DEF Crash, TypeInv, TypeOK
  <2>3. platter' \in [Pages -> SUBSET Image]
    BY <1>2, <2>2 DEF Crash
  <2>4. log' \in Seq(Entry) /\ Len(log') <= MaxLsn
    BY <1>2 DEF Crash, TypeInv, TypeOK
  <2>5. untruncated' \in Seq(Entry) /\ Len(untruncated') <= MaxLsn
    BY <1>2, ConstantTypes DEF Crash
  <2>6. crashes' \in 0 .. MaxCrashes
    BY <1>2, ConstantTypes DEF Crash, TypeInv, TypeOK
  <2>7. cache' \in [Pages -> Frame \cup {NoFrame}]
    BY <1>2 DEF Crash
  <2>8. pending' \in [Pages -> {<<>>} \cup {<<d>> : d \in Entry}]
    BY <1>2 DEF Crash
  <2>9. TypeOK'
    <3>1. torn' \in BOOLEAN
      BY <1>2 DEF Crash, TypeInv, TypeOK
    <3>2. QED
      BY <1>2, <2>2, <2>3, <2>4, <2>5, <2>6, <2>7, <2>8, <3>1 DEF Crash, TypeInv, TypeOK
  <2>10. QED
    BY <1>2, <2>4, <2>5, <2>8, <2>9 DEF Crash, TypeInv, Checkpointing
<1>3. QED BY <1>1, <1>2

(* Every step keeps the types.                                             *)
LEMMA TypeStep ==
  ASSUME TypeInv, [Next]_vars
  PROVE  TypeInv'
<1>1. CASE UNCHANGED vars
  BY <1>1 DEF vars, pageVars, logVars, engineVars, boundVars, TypeInv, TypeOK, Checkpointing
<1>2. CASE Next
  BY <1>2, TypeLogChange, TypePage, TypeReplayEntry, TypePhases, TypeFailures DEF Next
<1>3. QED BY <1>1, <1>2

(* The log fits its bound and the counter stays ahead of it, whichever way *)
(* the engine counts its LSNs and wherever a power loss cuts it.           *)
THEOREM TypeCorrect == Spec => []TypeOK
<1>1. TypeInv /\ [Next]_vars => TypeInv'
  BY TypeStep
<1>2. TypeInv => TypeOK
  BY DEF TypeInv
<1>3. QED BY <1>1, <1>2, TypeInit, PTL DEF Spec

-----------------------------------------------------------------------------
(* Runs of a redo.  There is one for a log and an image, which Redone      *)
(* computes.                                                               *)
LEMMA RedoneOfRun ==
  ASSUME NEW l \in Seq(Entry), NEW p \in Pages, NEW image, NEW f, Run(f, l, p, image)
  PROVE  Redone(l, p, image) = f[Len(l)].row
<1> DEFINE Step(done) ==
             [i \in 0 .. Len(l) |-> IF i = 0 THEN image ELSE Redo(l[i], p, done[i - 1])]
           d == CHOOSE done : done = Step(done)
<1>1. Redone(l, p, image) = d[Len(l)].row
  BY DEF Redone
<1>2. Len(l) \in Nat
  OBVIOUS
<1>3. f = Step(f)
  BY <1>2 DEF Run
<1>4. d = Step(d)
  BY <1>3
<1>5. /\ d[0] = image
      /\ \A i \in 1 .. Len(l) : d[i] = Redo(l[i], p, d[i - 1])
  <2> HIDE DEF d
  <2>1. \A i \in 0 .. Len(l) : d[i] = IF i = 0 THEN image ELSE Redo(l[i], p, d[i - 1])
    BY <1>4
  <2>2. QED BY <1>2, <2>1
<1> HIDE DEF d
<1> DEFINE T == {i \in 0 .. Len(l) : d[i] # f[i]}
<1>6. CASE T = {}
  BY <1>1, <1>2, <1>6
<1>7. CASE T # {}
  <2>1. T \in SUBSET Nat
    BY <1>2
  <2>2. PICK m \in T : \A k \in T : m <= k
    BY <1>7, <2>1, Least
  <2>3. m \in 1 .. Len(l) /\ m - 1 \notin T
    BY <1>2, <1>5, <2>2 DEF Run
  <2>4. d[m - 1] = f[m - 1]
    BY <1>2, <2>3
  <2>5. d[m] = f[m]
    BY <1>5, <2>3, <2>4 DEF Run
  <2>6. QED BY <2>2, <2>5
<1>8. QED BY <1>6, <1>7

(* What a run of the redo shows is what Redone computes.                   *)
LEMMA RecoveredRow ==
  ASSUME NEW l \in Seq(Entry), NEW p \in Pages, NEW image, NEW row, NEW n,
         Recovers(l, p, image, row, n)
  PROVE  Redone(l, p, image) = row
BY RedoneOfRun DEF Recovers, Succeeds

(* An entry of a log has an LSN and a page.                                *)
LEMMA EntryTypes ==
  ASSUME NEW l \in Seq(Entry), NEW i \in 1 .. Len(l)
  PROVE  l[i] \in Entry /\ l[i].lsn \in Nat /\ l[i].page \in Pages
<1>1. l[i] \in Entry
  OBVIOUS
<1>2. QED BY <1>1 DEF Entry, Lsns

(* A step of the redo makes an image of an image.                          *)
LEMMA RedoType ==
  ASSUME NEW e \in Entry, NEW p \in Pages, NEW image \in Image
  PROVE  Redo(e, p, image) \in Image
<1>1. image.row \in Row
  BY DEF Image
<1>2. Applied(e, image.row).row \in Row
  BY <1>1, AppliedType
<1>3. e.lsn \in 0 .. MaxLsn
  BY DEF Entry, Lsns
<1>4. [lsn |-> e.lsn, row |-> Applied(e, image.row).row] \in Image
  BY <1>2, <1>3 DEF Image
<1>5. QED BY <1>4 DEF Redo

(* An image that has every change of the log is left as it is.             *)
LEMMA RecoversCovered ==
  ASSUME NEW l \in Seq(Entry), NEW p \in Pages, NEW image \in Image,
         NEW n, image.lsn <= n, Covers(image, l, p)
  PROVE  Recovers(l, p, image, image.row, n)
<1> DEFINE f == [i \in 0 .. Len(l) |-> image]
<1>1. Len(l) \in Nat
  OBVIOUS
<1>2. image.lsn \in Nat
  BY ConstantTypes DEF Image
<1>3. ASSUME NEW i \in 1 .. Len(l) PROVE l[i].page = p => ~ (l[i].lsn > image.lsn)
  <2>1. l[i].lsn \in Nat
    BY EntryTypes
  <2>2. QED BY <1>2, <2>1 DEF Covers
<1>4. Run(f, l, p, image)
  <2>1. f \in [0 .. Len(l) -> Image] /\ f[0] = image
    BY <1>1
  <2>2. ASSUME NEW i \in 1 .. Len(l) PROVE f[i] = Redo(l[i], p, f[i - 1])
    BY <1>1, <1>3 DEF Redo
  <2>3. QED BY <2>1, <2>2 DEF Run
<1>5. Succeeds(f, l, p, image.row, n)
  BY <1>1, <1>3 DEF Succeeds
<1>6. QED BY <1>4, <1>5 DEF Recovers

(* A redo that passes over the log ends with the LSN it began with.        *)
LEMMA CoveredLsn ==
  ASSUME NEW l \in Seq(Entry), NEW p \in Pages, NEW image \in Image, NEW row, NEW n \in Nat,
         Recovers(l, p, image, row, n), Covers(image, l, p)
  PROVE  image.lsn <= n
<1>1. PICK f : Run(f, l, p, image) /\ Succeeds(f, l, p, row, n)
  BY DEF Recovers
<1>2. Len(l) \in Nat /\ image.lsn \in Nat
  BY ConstantTypes DEF Image
<1> DEFINE T == {i \in 0 .. Len(l) : f[i] # image}
<1>3. CASE T = {}
  BY <1>1, <1>2, <1>3 DEF Succeeds
<1>4. CASE T # {}
  <2>1. T \in SUBSET Nat
    BY <1>2
  <2>2. PICK m \in T : \A k \in T : m <= k
    BY <1>4, <2>1, Least
  <2>3. m \in 1 .. Len(l) /\ m - 1 \notin T
    BY <1>1, <1>2, <2>2 DEF Run
  <2>4. f[m - 1] = image /\ f[m] = Redo(l[m], p, image)
    BY <1>1, <1>2, <2>3 DEF Run
  <2>5. l[m].lsn \in Nat /\ (l[m].page = p => l[m].lsn <= image.lsn)
    BY <2>3, EntryTypes DEF Covers
  <2>6. QED BY <1>2, <2>2, <2>4, <2>5 DEF Redo
<1>5. QED BY <1>3, <1>4

(* Without a log an image is all there is.                                 *)
LEMMA RecoversAlone ==
  ASSUME NEW p \in Pages, NEW image, NEW row, NEW n, Recovers(<<>>, p, image, row, n)
  PROVE  image.row = row /\ image.lsn <= n
<1>1. PICK f : Run(f, <<>>, p, image) /\ Succeeds(f, <<>>, p, row, n)
  BY DEF Recovers
<1>2. Len(<<>>) = 0
  OBVIOUS
<1>3. QED BY <1>1, <1>2 DEF Run, Succeeds

(* The log grows by a change that the row accepts: every image that led to *)
(* the row leads to the changed one, and one of another page is not        *)
(* concerned.                                                              *)
LEMMA RecoversMore ==
  ASSUME NEW l \in Seq(Entry), NEW p \in Pages, NEW image, NEW row, NEW n \in Nat,
         Recovers(l, p, image, row, n),
         NEW e \in Entry, e.lsn = n + 1,
         e.page = p => Applied(e, row).ret = "Ok"
  PROVE  Recovers(Append(l, e), p, image,
                  IF e.page = p THEN Applied(e, row).row ELSE row, n + 1)
<1>1. PICK f : Run(f, l, p, image) /\ Succeeds(f, l, p, row, n)
  BY DEF Recovers
<1> DEFINE m == Len(l)
           last == Redo(e, p, f[m])
           g == [i \in 0 .. m + 1 |-> IF i <= m THEN f[i] ELSE last]
           k == Append(l, e)
<1>2. m \in Nat /\ Len(k) = m + 1 /\ k[m + 1] = e /\ \A i \in 1 .. m : k[i] = l[i]
  OBVIOUS
<1>3. /\ f \in [0 .. m -> Image]
      /\ f[0] = image
      /\ f[m] \in Image
      /\ f[m].row = row
      /\ f[m].lsn \in Nat
      /\ f[m].lsn < n + 1
  <2>1. f \in [0 .. m -> Image] /\ f[0] = image /\ f[m].row = row /\ f[m].lsn <= n
    BY <1>1 DEF Run, Succeeds
  <2>2. f[m] \in Image
    BY <1>2, <2>1
  <2>3. f[m].lsn \in Nat
    BY <2>2, ConstantTypes DEF Image
  <2>4. QED BY <2>1, <2>2, <2>3
<1>4. last \in Image
  BY <1>3, RedoType
<1> HIDE DEF m, k
<1>5. g \in [0 .. m + 1 -> Image] /\ g[m + 1] = last /\ \A i \in 0 .. m : g[i] = f[i]
  <2> HIDE DEF last
  <2>1. QED BY <1>2, <1>3, <1>4
<1>6. /\ last.row = IF e.page = p THEN Applied(e, row).row ELSE row
      /\ last.lsn <= n + 1
  BY <1>3 DEF Redo
<1> HIDE DEF g, last
<1>7. Run(g, k, p, image)
  <2>1. ASSUME NEW i \in 1 .. m + 1 PROVE g[i] = Redo(k[i], p, g[i - 1])
    <3>1. CASE i <= m
      <4>1. i \in 1 .. m /\ i - 1 \in 0 .. m /\ i \in 0 .. m
        BY <1>2, <3>1
      <4>2. f[i] = Redo(l[i], p, f[i - 1])
        BY <1>1, <4>1 DEF Run, m
      <4>3. QED BY <1>2, <1>5, <4>1, <4>2
    <3>2. CASE ~ (i <= m)
      <4>1. i = m + 1 /\ i - 1 = m /\ m \in 0 .. m
        BY <1>2, <3>2
      <4>2. QED BY <1>2, <1>5, <4>1 DEF last
    <3>3. QED BY <3>1, <3>2
  <2>2. g[0] = image
    BY <1>2, <1>3, <1>5
  <2>3. QED BY <1>2, <1>5, <2>1, <2>2 DEF Run
<1>8. Succeeds(g, k, p, IF e.page = p THEN Applied(e, row).row ELSE row, n + 1)
  <2>1. ASSUME NEW i \in 1 .. m + 1, k[i].page = p, k[i].lsn > g[i - 1].lsn
        PROVE  Applied(k[i], g[i - 1].row).ret = "Ok"
    <3>1. CASE i <= m
      <4>1. i \in 1 .. m /\ i - 1 \in 0 .. m
        BY <1>2, <3>1
      <4>2. l[i].page = p /\ l[i].lsn > f[i - 1].lsn => Applied(l[i], f[i - 1].row).ret = "Ok"
        BY <1>1, <4>1 DEF Succeeds, m
      <4>3. QED BY <1>2, <1>5, <2>1, <4>1, <4>2
    <3>2. CASE ~ (i <= m)
      <4>1. i = m + 1 /\ i - 1 = m /\ m \in 0 .. m
        BY <1>2, <3>2
      <4>2. QED BY <1>2, <1>3, <1>5, <2>1, <4>1
    <3>3. QED BY <3>1, <3>2
  <2>2. QED BY <1>2, <1>5, <1>6, <2>1 DEF Succeeds
<1>9. QED BY <1>7, <1>8 DEF Recovers, k

(* Replay moves from the image before an entry to the one after it; from   *)
(* there a redo of the whole log is as good.                               *)
LEMMA RecoversOnward ==
  ASSUME NEW l \in Seq(Entry), NEW p \in Pages, NEW image \in Image, NEW row, NEW n,
         NEW f, Run(f, l, p, image), Succeeds(f, l, p, row, n),
         NEW k \in 1 .. Len(l),
         \A i \in 0 .. k - 1 : f[i] = image,
         \A i \in 1 .. k - 1 : l[i].page = p => l[i].lsn <= image.lsn
  PROVE  LET next == Redo(l[k], p, image)
         IN \E g : /\ Run(g, l, p, next)
                   /\ Succeeds(g, l, p, row, n)
                   /\ \A i \in 0 .. k : g[i] = next
                   /\ \A i \in 1 .. k : l[i].page = p => l[i].lsn <= next.lsn
<1> DEFINE m == Len(l)
           next == Redo(l[k], p, image)
           g == [i \in 0 .. m |-> IF i < k THEN next ELSE f[i]]
<1>1. m \in Nat /\ k \in 1 .. m
  OBVIOUS
<1>2. \A i \in 1 .. m : l[i] \in Entry /\ l[i].lsn \in Nat
  BY EntryTypes
<1>3. next \in Image /\ image.lsn \in Nat /\ next.lsn \in Nat
  <2>1. next \in Image
    BY <1>1, <1>2, RedoType
  <2> HIDE DEF next
  <2>2. QED BY <2>1, ConstantTypes DEF Image
<1>4. /\ next.lsn >= image.lsn
      /\ l[k].page = p => l[k].lsn <= next.lsn
  BY <1>1, <1>2, <1>3 DEF Redo
<1>5. f[k] = next
  <2>1. k - 1 \in 0 .. k - 1
    BY <1>1
  <2>2. QED BY <1>1, <2>1 DEF Run
<1>6. f \in [0 .. m -> Image] /\ \A i \in 1 .. m : f[i] = Redo(l[i], p, f[i - 1])
  BY DEF Run
<1> HIDE DEF m, next
<1>7. \A i \in 1 .. k : l[i].page = p => l[i].lsn <= next.lsn
  <2>1. ASSUME NEW i \in 1 .. k, l[i].page = p PROVE l[i].lsn <= next.lsn
    <3>1. CASE i = k
      BY <1>4, <2>1, <3>1
    <3>2. CASE i # k
      <4>1. i \in 1 .. k - 1 /\ i \in 1 .. m
        BY <1>1, <3>2
      <4>2. l[i].lsn <= image.lsn
        BY <2>1, <4>1
      <4>3. QED BY <1>2, <1>3, <1>4, <4>1, <4>2
    <3>3. QED BY <3>1, <3>2
  <2>2. QED BY <2>1
<1>8. /\ g \in [0 .. m -> Image]
      /\ \A i \in 0 .. k : g[i] = next
      /\ \A i \in k .. m : g[i] = f[i]
  BY <1>1, <1>3, <1>5, <1>6
<1> HIDE DEF g
<1>9. ASSUME NEW i \in 1 .. m
      PROVE  \/ i \in 1 .. k /\ g[i - 1] = next /\ g[i] = next
             \/ i \in k + 1 .. m /\ g[i - 1] = f[i - 1] /\ g[i] = f[i]
  <2>1. CASE i <= k
    <3>1. i \in 1 .. k /\ i - 1 \in 0 .. k /\ i \in 0 .. k
      BY <1>1, <2>1
    <3>2. QED BY <1>8, <3>1
  <2>2. CASE ~ (i <= k)
    <3>1. i \in k + 1 .. m /\ i - 1 \in k .. m /\ i \in k .. m
      BY <1>1, <2>2
    <3>2. QED BY <1>8, <3>1
  <2>3. QED BY <2>1, <2>2
<1>10. Run(g, l, p, next)
  <2>1. ASSUME NEW i \in 1 .. m PROVE g[i] = Redo(l[i], p, g[i - 1])
    <3>1. CASE i \in 1 .. k /\ g[i - 1] = next /\ g[i] = next
      <4>1. l[i].page = p => ~ (l[i].lsn > next.lsn)
        BY <1>2, <1>3, <1>7, <3>1
      <4>2. QED BY <3>1, <4>1 DEF Redo
    <3>2. CASE g[i - 1] = f[i - 1] /\ g[i] = f[i]
      BY <1>6, <3>2
    <3>3. QED BY <1>9, <3>1, <3>2
  <2>2. g[0] = next
    BY <1>1, <1>8
  <2>3. QED BY <1>8, <2>1, <2>2 DEF Run, m
<1>11. Succeeds(g, l, p, row, n)
  <2>1. ASSUME NEW i \in 1 .. m, l[i].page = p, l[i].lsn > g[i - 1].lsn
        PROVE  Applied(l[i], g[i - 1].row).ret = "Ok"
    <3>1. CASE i \in 1 .. k /\ g[i - 1] = next
      BY <1>2, <1>3, <1>7, <2>1, <3>1
    <3>2. CASE g[i - 1] = f[i - 1]
      BY <2>1, <3>2 DEF Succeeds, m
    <3>3. QED BY <1>9, <3>1, <3>2
  <2>2. g[m] = f[m]
    BY <1>1, <1>8
  <2>3. QED BY <2>1, <2>2 DEF Succeeds, m
<1>12. QED BY <1>7, <1>8, <1>10, <1>11 DEF next

-----------------------------------------------------------------------------
(* Types of what the steps below speak of.                                 *)
LEMMA HeldImageType ==
  ASSUME TypeOK, NEW p \in Pages
  PROVE  /\ HeldImage(p) \in Image
         /\ HeldImage(p).row = Held(p).row
         /\ HeldImage(p).lsn = Held(p).lsn
BY HeldType DEF HeldImage, Stored, Image

(* The image of a frame just loaded is the image it was loaded from.       *)
LEMMA LoadedImage ==
  ASSUME NEW i \in Image
  PROVE  Stored(Loaded(i)) = i
BY DEF Stored, Loaded, Image

(* A cached page is held in its frame.                                     *)
LEMMA FrameIsFrame ==
  ASSUME TypeOK, NEW p \in Pages, cache[p] # NoFrame
  PROVE  cache[p] \in Frame /\ Held(p) = cache[p]
BY DEF TypeOK, Held

(* Nothing is logged, every page is empty in the file.                     *)
LEMMA RecoveryInit == Init => RecoveryInv
<1> SUFFICES ASSUME Init PROVE RecoveryInv
  OBVIOUS
<1>1. TypeOK
  BY TypeInit DEF TypeInv
<1>2. \A p \in Pages : HeldImage(p) = Blank
  BY ConstantTypes, LoadedImage DEF Init, HeldImage, Held
<1>3. log = <<>> /\ Len(log) = 0 /\ log \in Seq(Entry) /\ untruncated = <<>>
  BY DEF Init
<1>4. \A p \in Pages : Recovers(log, p, Blank, Blank.row, lsn)
  <2>1. Blank.lsn <= lsn
    BY DEF Init, Blank
  <2>2. \A p \in Pages : Covers(Blank, log, p)
    BY <1>3 DEF Covers
  <2>3. QED BY <1>3, <2>1, <2>2, ConstantTypes, RecoversCovered
<1>5. LogRecovers
  BY <1>2, <1>4 DEF Init, LogRecovers, Blank
<1>6. FramesAgree
  BY DEF Init, FramesAgree
<1>7. QED
  BY <1>3, <1>5, <1>6 DEF Init, RecoveryInv, LsnsBelow, PendingIsLast, PoolIsCurrent,
    ReplayIsAt, TruncatedIsCurrent, ReplayNeverMisapplies

-----------------------------------------------------------------------------
(* The engine logs a change: the log recovers the row it leads to, from    *)
(* every image and from the frame, since its LSN is above all of theirs.   *)
LEMMA LogChangeKeeps ==
  ASSUME KeepsCounter, TypeInv, RecoveryInv,
         NEW p \in Pages, NEW op \in {"insert", "update", "delete"}, LogChange(p, op)
  PROVE  RecoveryInv'
<1> DEFINE e == [lsn |-> lsn + 1, page |-> p, op |-> op]
<1>1. /\ phase = "running"
      /\ pending[p] = <<>>
      /\ Applied(e, Held(p).row).ret = "Ok"
      /\ log' = Append(log, e)
      /\ untruncated' = <<>>
      /\ lsn' = lsn + 1
      /\ pending' = [pending EXCEPT ![p] = <<e>>]
      /\ committed' = [committed EXCEPT ![p] = Applied(e, Held(p).row).row]
      /\ UNCHANGED <<cache, disk, platter, phase, starting, pos>>
      /\ lsn + 1 \in 1 .. MaxLsn
  BY ConstantTypes DEF LogChange, pageVars, TypeInv, TypeOK
<1>2. e \in Entry /\ e.lsn = lsn + 1 /\ e.page = p
  BY <1>1 DEF Entry, Lsns
<1> HIDE DEF e
<1>3. lsn \in Nat /\ log \in Seq(Entry) /\ committed \in [Pages -> Row] /\ TypeOK
  BY ConstantTypes DEF TypeInv, TypeOK
<1>4. Held(p).row = committed[p] /\ HeldImage(p).row = Held(p).row
  BY <1>1, <1>3, HeldImageType DEF RecoveryInv, PoolIsCurrent, Current
<1>5. \A q \in Pages : HeldImage(q)' = HeldImage(q)
  BY <1>1 DEF HeldImage, Held
<1>6. \A q \in Pages : committed'[q] = IF e.page = q THEN Applied(e, committed[q]).row
                                                      ELSE committed[q]
  BY <1>1, <1>2, <1>3, <1>4
<1>7. LogRecovers'
  <2>1. ASSUME NEW q \in Pages, NEW image \in platter[q] \cup {HeldImage(q)}
        PROVE  Recovers(log', q, image, committed'[q], lsn')
    <3>1. Recovers(log, q, image, committed[q], lsn)
      BY DEF RecoveryInv, LogRecovers
    <3>2. e.page = q => Applied(e, committed[q]).ret = "Ok"
      BY <1>1, <1>2, <1>4
    <3>3. QED BY <1>1, <1>2, <1>3, <1>6, <3>1, <3>2, RecoversMore
  <2>2. QED BY <1>1, <1>5, <2>1 DEF LogRecovers
<1>8. /\ Len(log') = Len(log) + 1
      /\ Len(log) \in Nat
      /\ log'[Len(log) + 1] = e
      /\ \A i \in 1 .. Len(log) : log'[i] = log[i]
  BY <1>1, <1>2, <1>3
<1>9. \A i \in 1 .. Len(log') : log'[i].lsn <= lsn'
  <2>1. \A i \in 1 .. Len(log) : log[i].lsn <= lsn /\ log[i].lsn \in Nat
    BY <1>3, EntryTypes DEF RecoveryInv, LsnsBelow
  <2>2. QED BY <1>1, <1>2, <1>3, <1>8, <2>1
<1>10. LsnsBelow'
  BY <1>1, <1>9 DEF LsnsBelow
<1>11. \A q \in Pages : q # p => \A image : Covers(image, log, q) => Covers(image, log', q)
  BY <1>2, <1>8 DEF Covers
<1>12. PendingIsLast'
  <2>1. pending'[p] = <<e>> /\ <<e>>[1] = e
    BY <1>1 DEF TypeInv
  <2>2. Covers(e, log', p)
    BY <1>1, <1>2, <1>9 DEF Covers
  <2>3. lsn + 1 <= lsn'
    BY <1>1, <1>3
  <2>4. Applied(e, HeldImage(p).row).row = committed'[p]
    BY <1>2, <1>4, <1>6
  <2>5. \A q \in Pages : q # p => pending'[q] = pending[q]
    BY <1>1 DEF TypeInv
  <2>6. ASSUME NEW q \in Pages, q # p, pending[q] # <<>>
        PROVE  /\ pending[q][1].lsn <= lsn'
               /\ Covers(pending[q][1], log', q)
               /\ Applied(pending[q][1], HeldImage(q).row).row = committed'[q]
    <3>1. /\ pending[q][1].lsn <= lsn
          /\ Covers(pending[q][1], log, q)
          /\ Applied(pending[q][1], HeldImage(q).row).row = committed[q]
      BY <2>6 DEF RecoveryInv, PendingIsLast
    <3>2. pending[q][1] \in Entry
      BY <2>6 DEF TypeInv
    <3>3. pending[q][1].lsn \in Nat
      BY <3>2 DEF Entry, Lsns
    <3>4. QED BY <1>1, <1>2, <1>3, <1>6, <1>11, <2>6, <3>1, <3>3
  <2>7. QED BY <1>1, <1>2, <1>5, <2>1, <2>2, <2>3, <2>4, <2>5, <2>6 DEF PendingIsLast
<1>13. PoolIsCurrent'
  <2>1. ASSUME NEW q \in Pages, pending'[q] = <<>>
        PROVE  Current(HeldImage(q), log', q, committed'[q])
    <3>1. q # p /\ pending[q] = <<>>
      BY <1>1, <2>1 DEF TypeInv
    <3>2. Current(HeldImage(q), log, q, committed[q])
      BY <1>1, <3>1 DEF RecoveryInv, PoolIsCurrent
    <3>3. QED BY <1>2, <1>6, <1>11, <3>1, <3>2 DEF Current
  <2>2. QED BY <1>5, <2>1 DEF PoolIsCurrent
<1>14. FramesAgree'
  BY <1>1 DEF RecoveryInv, FramesAgree
<1>15. ReplayIsAt' /\ TruncatedIsCurrent' /\ ReplayNeverMisapplies'
  BY <1>1 DEF ReplayIsAt, TruncatedIsCurrent, ReplayNeverMisapplies
<1>16. QED BY <1>7, <1>10, <1>12, <1>13, <1>14, <1>15 DEF RecoveryInv

(* ... and makes it: the frame then has all there is in the log.           *)
LEMMA MakeChangeKeeps ==
  ASSUME TypeInv, RecoveryInv, NEW p \in Pages, MakeChange(p)
  PROVE  RecoveryInv'
<1> DEFINE e == pending[p][1]
           f == [lsn |-> e.lsn, row |-> Applied(e, Held(p).row).row, dirty |-> TRUE]
<1>1. /\ phase = "running"
      /\ pending[p] # <<>>
      /\ cache' = [cache EXCEPT ![p] = f]
      /\ pending' = [pending EXCEPT ![p] = <<>>]
      /\ UNCHANGED <<disk, platter, log, untruncated, phase, starting, pos, lsn, committed>>
  BY DEF MakeChange, logVars
<1>2. TypeOK /\ log \in Seq(Entry)
  BY DEF TypeInv, TypeOK
<1>3. e \in Entry /\ e.lsn \in Nat /\ e.lsn \in 0 .. MaxLsn
  <2>1. e \in Entry
    BY <1>1 DEF TypeInv
  <2> HIDE DEF e
  <2>2. QED BY <2>1, ConstantTypes DEF Entry, Lsns
<1>4. e.lsn <= lsn /\ Covers(e, log, p) /\ Applied(e, Held(p).row).row = committed[p]
  BY <1>1, <1>2, HeldImageType DEF RecoveryInv, PendingIsLast
<1>5. f \in Frame /\ f.row = committed[p] /\ f.lsn = e.lsn /\ f.dirty
  <2>1. committed[p] \in Row
    BY <1>2 DEF TypeOK
  <2> HIDE DEF e
  <2>2. QED BY <1>3, <1>4, <2>1 DEF Frame
<1> HIDE DEF e, f
<1>6. cache'[p] = f /\ cache'[p] # NoFrame /\ \A q \in Pages : q # p => cache'[q] = cache[q]
  BY <1>1, <1>2, <1>5, FrameAssumption DEF TypeOK
<1>7. HeldImage(p)' = Stored(f) /\ \A q \in Pages : q # p => HeldImage(q)' = HeldImage(q)
  BY <1>1, <1>6 DEF HeldImage, Held
<1>8. Stored(f) \in Image /\ Stored(f).lsn = e.lsn /\ Stored(f).row = committed[p]
  BY <1>5 DEF Stored, Frame, Image
<1>9. Covers(Stored(f), log, p)
  BY <1>4, <1>8 DEF Covers
<1>10. Recovers(log, p, Stored(f), committed[p], lsn)
  BY <1>2, <1>4, <1>8, <1>9, RecoversCovered
<1>11. LogRecovers'
  BY <1>1, <1>7, <1>10 DEF RecoveryInv, LogRecovers
<1>12. FramesAgree'
  BY <1>1, <1>5, <1>6 DEF RecoveryInv, FramesAgree
<1>13. pending'[p] = <<>> /\ \A q \in Pages : q # p => pending'[q] = pending[q]
  BY <1>1 DEF TypeInv
<1>14. PendingIsLast'
  BY <1>1, <1>7, <1>13 DEF RecoveryInv, PendingIsLast
<1>15. PoolIsCurrent'
  BY <1>1, <1>7, <1>8, <1>9, <1>13 DEF RecoveryInv, PoolIsCurrent, Current
<1>16. untruncated = <<>>
  BY <1>1 DEF RecoveryInv, TruncatedIsCurrent
<1>17. LsnsBelow' /\ ReplayIsAt' /\ TruncatedIsCurrent' /\ ReplayNeverMisapplies'
  BY <1>1, <1>16
    DEF RecoveryInv, LsnsBelow, ReplayIsAt, TruncatedIsCurrent, ReplayNeverMisapplies
<1>18. QED BY <1>11, <1>12, <1>14, <1>15, <1>17 DEF RecoveryInv

(* Pages move between frames and file: no page changes, and the images     *)
(* that may survive are joined by what the frames hold.                    *)
LEMMA PagesMove ==
  ASSUME TypeInv, RecoveryInv,
         UNCHANGED <<log, untruncated, phase, pos, lsn, pending, committed>>,
         \A p \in Pages : HeldImage(p)' = HeldImage(p),
         \A p \in Pages : platter'[p] \subseteq platter[p] \cup {HeldImage(p)},
         NothingDirty => NothingDirty' /\ platter' = platter,
         FramesAgree'
  PROVE  RecoveryInv'
<1>1. LogRecovers'
  BY DEF RecoveryInv, LogRecovers
<1>2. LsnsBelow' /\ PendingIsLast' /\ PoolIsCurrent' /\ ReplayNeverMisapplies'
  BY DEF RecoveryInv, LsnsBelow, PendingIsLast, PoolIsCurrent, ReplayNeverMisapplies
<1>3. ReplayIsAt'
  BY DEF RecoveryInv, ReplayIsAt, ReplayedTo
<1>4. TruncatedIsCurrent'
  BY DEF RecoveryInv, TruncatedIsCurrent
<1>5. QED BY <1>1, <1>2, <1>3, <1>4 DEF RecoveryInv

(* flush_page: the image of the frame joins those that may survive.        *)
LEMMA WriteBackKeeps ==
  ASSUME TypeInv, RecoveryInv, NEW p \in Pages, WriteBack(p)
  PROVE  RecoveryInv'
<1>1. /\ cache[p] # NoFrame
      /\ cache[p].dirty
      /\ cache' = [cache EXCEPT ![p].dirty = FALSE]
      /\ disk' = [disk EXCEPT ![p] = Stored(cache[p])]
      /\ platter' = [platter EXCEPT ![p] = @ \cup {disk'[p]}]
      /\ UNCHANGED <<log, untruncated, phase, pos, lsn, pending, committed>>
  BY DEF WriteBack, logVars, engineVars
<1>2. TypeOK
  BY DEF TypeInv
<1> DEFINE f == [cache[p] EXCEPT !.dirty = FALSE]
<1>3. f \in Frame /\ Stored(f) = Stored(cache[p]) /\ HeldImage(p) = Stored(cache[p])
  <2>1. cache[p] \in Frame /\ Held(p) = cache[p]
    BY <1>1, <1>2, FrameIsFrame
  <2>2. QED BY <2>1 DEF Frame, Stored, HeldImage
<1>4. cache' = [cache EXCEPT ![p] = f]
  BY <1>1
<1>5. f.dirty = FALSE
  BY <1>1, <1>2, FrameIsFrame DEF Frame
<1> HIDE DEF f
<1>6. /\ cache'[p] = f /\ f # NoFrame
      /\ \A q \in Pages : q # p => cache'[q] = cache[q]
  BY <1>2, <1>3, <1>4, FrameAssumption DEF TypeOK
<1>7. /\ disk'[p] = HeldImage(p) /\ \A q \in Pages : q # p => disk'[q] = disk[q]
      /\ platter'[p] = platter[p] \cup {HeldImage(p)}
      /\ \A q \in Pages : q # p => platter'[q] = platter[q]
  BY <1>1, <1>2, <1>3 DEF TypeOK
<1>8. \A q \in Pages : HeldImage(q)' = HeldImage(q)
  BY <1>3, <1>6, <1>7 DEF HeldImage, Held
<1>9. FramesAgree'
  BY <1>3, <1>6, <1>7 DEF RecoveryInv, FramesAgree
<1>10. ~ NothingDirty
  BY <1>1 DEF NothingDirty
<1>11. QED BY <1>1, <1>7, <1>8, <1>9, <1>10, PagesMove

(* An eviction: the file has what the clean frame had.                     *)
LEMMA EvictKeeps ==
  ASSUME TypeInv, RecoveryInv, NEW p \in Pages, Evict(p)
  PROVE  RecoveryInv'
<1>1. /\ cache[p] # NoFrame
      /\ ~ cache[p].dirty
      /\ cache' = [cache EXCEPT ![p] = NoFrame]
      /\ UNCHANGED <<disk, platter, log, untruncated, phase, pos, lsn, pending, committed>>
  BY DEF Evict, logVars, engineVars
<1>2. TypeOK
  BY DEF TypeInv
<1>3. cache'[p] = NoFrame /\ \A q \in Pages : q # p => cache'[q] = cache[q]
  BY <1>1, <1>2 DEF TypeOK
<1>4. HeldImage(p) = disk[p] /\ disk[p] \in Image
  BY <1>1, <1>2 DEF HeldImage, Held, RecoveryInv, FramesAgree, TypeOK
<1>5. \A q \in Pages : HeldImage(q)' = HeldImage(q)
  BY <1>1, <1>3, <1>4, LoadedImage DEF HeldImage, Held
<1>6. FramesAgree'
  BY <1>1, <1>3 DEF RecoveryInv, FramesAgree
<1>7. NothingDirty => NothingDirty'
  BY <1>3 DEF NothingDirty
<1>8. QED BY <1>1, <1>5, <1>6, <1>7, PagesMove

-----------------------------------------------------------------------------
(* The program starts: without a log every page is what it should be, with *)
(* one the redo begins at its first entry.                                 *)
LEMMA StartKeeps ==
  ASSUME KeepsCounter, TypeInv, RecoveryInv, StartClean \/ StartReplay
  PROVE  RecoveryInv'
<1>1. /\ phase = "down"
      /\ UNCHANGED <<cache, disk, platter, log, untruncated, lsn, pending, committed>>
  BY DEF StartClean, StartReplay, pageVars, logVars, engineVars
<1>2. \A q \in Pages : HeldImage(q)' = HeldImage(q)
  BY <1>1 DEF HeldImage, Held
<1>3. FramesAgree' /\ LogRecovers' /\ LsnsBelow'
  BY <1>1, <1>2 DEF RecoveryInv, FramesAgree, LogRecovers, LsnsBelow
<1>4. \A q \in Pages : pending[q] = <<>>
  BY <1>1 DEF RecoveryInv, PendingIsLast
<1>5. PendingIsLast'
  BY <1>1, <1>4 DEF PendingIsLast
<1>6. CASE StartClean
  <2>1. log = <<>> /\ phase' = "running"
    BY <1>6 DEF StartClean
  <2>2. ASSUME NEW q \in Pages PROVE Current(HeldImage(q), log, q, committed[q])
    <3>1. Recovers(<<>>, q, HeldImage(q), committed[q], lsn)
      BY <2>1 DEF RecoveryInv, LogRecovers
    <3>2. HeldImage(q).row = committed[q]
      BY <3>1, RecoversAlone
    <3>3. QED BY <2>1, <3>2 DEF Current, Covers
  <2>3. PoolIsCurrent'
    BY <1>1, <1>2, <2>2 DEF PoolIsCurrent
  <2>4. ReplayIsAt' /\ TruncatedIsCurrent' /\ ReplayNeverMisapplies'
    BY <1>1, <1>4, <2>1
      DEF RecoveryInv, ReplayIsAt, TruncatedIsCurrent, ReplayNeverMisapplies, NothingDirty
  <2>5. QED BY <1>3, <1>5, <2>3, <2>4 DEF RecoveryInv
<1>7. CASE StartReplay
  <2>1. pos' = 1 /\ phase' = "replaying"
    BY <1>7 DEF StartReplay
  <2>2. ASSUME NEW q \in Pages PROVE ReplayedTo(0, q)
    <3>1. PICK f : /\ Run(f, log, q, HeldImage(q))
                   /\ Succeeds(f, log, q, committed[q], lsn)
      BY DEF RecoveryInv, LogRecovers, Recovers
    <3>2. \A i \in 0 .. 0 : f[i] = HeldImage(q)
      BY <3>1 DEF Run
    <3>3. QED BY <3>1, <3>2 DEF ReplayedTo
  <2>3. ReplayIsAt'
    BY <1>1, <1>2, <2>1, <2>2 DEF ReplayIsAt, ReplayedTo
  <2>4. PoolIsCurrent' /\ TruncatedIsCurrent' /\ ReplayNeverMisapplies'
    BY <1>1, <1>4, <2>1
      DEF RecoveryInv, PoolIsCurrent, TruncatedIsCurrent, ReplayNeverMisapplies, NothingDirty
  <2>5. QED BY <1>3, <1>5, <2>3, <2>4 DEF RecoveryInv
<1>8. QED BY <1>6, <1>7

(* The program is refused and started again: nothing else changes.         *)
LEMMA RefusalKeeps ==
  ASSUME RecoveryInv, StartFails \/ Restart
  PROVE  RecoveryInv'
<1>1. /\ phase \in {"down", "refused"} /\ phase' \in {"down", "refused"}
      /\ UNCHANGED <<cache, disk, platter, log, untruncated, lsn, pending, committed>>
  BY DEF StartFails, Restart, pageVars, logVars, engineVars
<1>2. \A q \in Pages : HeldImage(q)' = HeldImage(q)
  BY <1>1 DEF HeldImage, Held
<1>3. FramesAgree' /\ LogRecovers' /\ LsnsBelow'
  BY <1>1, <1>2 DEF RecoveryInv, FramesAgree, LogRecovers, LsnsBelow
<1>4. PendingIsLast' /\ TruncatedIsCurrent'
  BY <1>1 DEF RecoveryInv, PendingIsLast, TruncatedIsCurrent, NothingDirty
<1>5. PoolIsCurrent' /\ ReplayIsAt' /\ ReplayNeverMisapplies'
  BY <1>1 DEF PoolIsCurrent, ReplayIsAt, ReplayNeverMisapplies
<1>6. QED BY <1>3, <1>4, <1>5 DEF RecoveryInv

(* An entry is replayed: its page is led on by one step of the redo, which *)
(* the page accepts; the redo of other pages passes over the entry.        *)
LEMMA ReplayEntryKeeps ==
  ASSUME TypeInv, RecoveryInv, ReplayEntry
  PROVE  RecoveryInv'
<1> DEFINE e == log[pos]
           f == Held(e.page)
           a == Applied(e, f.row)
           n == [lsn |-> e.lsn, row |-> a.row, dirty |-> TRUE]
<1>1. /\ phase = "replaying"
      /\ pos \in 1 .. Len(log)
      /\ cache' = [cache EXCEPT ![e.page] = IF Obsolete(e, f) \/ a.ret # "Ok" THEN f ELSE n]
      /\ phase' = IF Obsolete(e, f) \/ a.ret = "Ok" THEN "replaying" ELSE "misapplied"
      /\ pos' = pos + 1
      /\ UNCHANGED <<disk, platter, log, untruncated, lsn, pending, committed>>
  BY DEF ReplayEntry, logVars, engineVars, TypeInv, TypeOK
<1>2. TypeOK /\ log \in Seq(Entry)
  BY DEF TypeInv, TypeOK
<1>3. e \in Entry /\ e.lsn \in Nat /\ e.page \in Pages /\ e.lsn \in 0 .. MaxLsn
  <2>1. e \in Entry /\ e.lsn \in Nat /\ e.page \in Pages
    BY <1>1, <1>2, EntryTypes
  <2> HIDE DEF e
  <2>2. QED BY <2>1 DEF Entry, Lsns
<1>4. f \in Frame /\ f.lsn \in Nat /\ a.row \in Row
  <2>1. f \in Frame /\ f.row \in Row /\ f.lsn \in 0 .. MaxLsn
    BY <1>2, <1>3, HeldType
  <2>2. QED BY <1>3, <2>1, ConstantTypes, AppliedType
<1>5. n \in Frame /\ n.lsn = e.lsn /\ n.row = a.row /\ n.dirty
  <2> HIDE DEF e, a
  <2>1. QED BY <1>3, <1>4 DEF Frame
<1>6. HeldImage(e.page).row = f.row /\ HeldImage(e.page).lsn = f.lsn
  BY <1>2, <1>3, HeldImageType
<1>7. Obsolete(e, f) <=> ~ (e.lsn > f.lsn)
  BY <1>3, <1>4 DEF Obsolete
<1>8. \A q \in Pages : ReplayedTo(pos - 1, q)
  BY <1>1 DEF RecoveryInv, ReplayIsAt
<1>9. Obsolete(e, f) \/ a.ret = "Ok"
  <2>1. PICK g : /\ Succeeds(g, log, e.page, committed[e.page], lsn)
                 /\ \A i \in 0 .. pos - 1 : g[i] = HeldImage(e.page)
    BY <1>3, <1>8 DEF ReplayedTo
  <2>2. g[pos - 1] = HeldImage(e.page)
    BY <1>1, <2>1
  <2>3. e.lsn > HeldImage(e.page).lsn => Applied(e, HeldImage(e.page).row).ret = "Ok"
    BY <1>1, <2>1, <2>2 DEF Succeeds
  <2>4. QED BY <1>6, <1>7, <2>3
<1> HIDE DEF e, f, a, n
<1>10. cache'[e.page] = (IF Obsolete(e, f) THEN f ELSE n) /\ phase' = "replaying"
  BY <1>1, <1>2, <1>3, <1>9 DEF TypeOK
<1>11. \A q \in Pages : q # e.page => cache'[q] = cache[q]
  BY <1>1, <1>2 DEF TypeOK
<1>12. ASSUME NEW q \in Pages PROVE HeldImage(q)' = Redo(log[pos], q, HeldImage(q))
  <2>1. CASE q # e.page
    BY <1>1, <1>11, <2>1 DEF HeldImage, Held, Redo, e
  <2>2. CASE q = e.page /\ Obsolete(e, f)
    <3>1. HeldImage(q)' = HeldImage(q)
      BY <1>4, <1>10, <2>2, FrameAssumption DEF HeldImage, Held, f
    <3>2. ~ (e.lsn > HeldImage(q).lsn)
      BY <1>6, <1>7, <2>2
    <3>3. QED BY <3>1, <3>2 DEF Redo, e
  <2>3. CASE q = e.page /\ ~ Obsolete(e, f)
    <3>1. HeldImage(q)' = Stored(n)
      BY <1>5, <1>10, <2>3, FrameAssumption DEF HeldImage, Held
    <3>2. e.lsn > HeldImage(q).lsn /\ Applied(e, HeldImage(q).row).row = a.row
      BY <1>6, <1>7, <2>3 DEF a
    <3>3. Redo(e, q, HeldImage(q)) = [lsn |-> e.lsn, row |-> a.row]
      BY <2>3, <3>2 DEF Redo
    <3>4. QED BY <1>5, <3>1, <3>3 DEF Stored, e
  <2>4. QED BY <2>1, <2>2, <2>3
<1>13. ASSUME NEW q \in Pages
       PROVE  \E h : /\ Run(h, log, q, HeldImage(q)')
                     /\ Succeeds(h, log, q, committed[q], lsn)
                     /\ \A i \in 0 .. pos : h[i] = HeldImage(q)'
                     /\ \A i \in 1 .. pos : log[i].page = q => log[i].lsn <= HeldImage(q)'.lsn
  <2>1. PICK g : /\ Run(g, log, q, HeldImage(q))
                 /\ Succeeds(g, log, q, committed[q], lsn)
                 /\ \A i \in 0 .. pos - 1 : g[i] = HeldImage(q)
                 /\ \A i \in 1 .. pos - 1 : log[i].page = q => log[i].lsn <= HeldImage(q).lsn
    BY <1>8 DEF ReplayedTo
  <2>2. HeldImage(q) \in Image
    BY <1>2, HeldImageType
  <2> DEFINE next == Redo(log[pos], q, HeldImage(q))
  <2>3. \E h : /\ Run(h, log, q, next)
               /\ Succeeds(h, log, q, committed[q], lsn)
               /\ \A i \in 0 .. pos : h[i] = next
               /\ \A i \in 1 .. pos : log[i].page = q => log[i].lsn <= next.lsn
    BY <1>1, <1>2, <2>1, <2>2, RecoversOnward
  <2>4. HeldImage(q)' = next
    BY <1>12
  <2> HIDE DEF next
  <2>5. QED BY <2>3, <2>4
<1>14. pos' - 1 = pos
  BY <1>1, <1>2 DEF TypeOK
<1>15. ReplayIsAt'
  BY <1>1, <1>13, <1>14 DEF ReplayIsAt, ReplayedTo
<1>16. LogRecovers'
  <2>1. ASSUME NEW q \in Pages PROVE Recovers(log, q, HeldImage(q)', committed[q], lsn)
    BY <1>13 DEF Recovers
  <2>2. QED BY <1>1, <2>1 DEF RecoveryInv, LogRecovers
<1>17. FramesAgree'
  <2>1. ASSUME Obsolete(e, f), ~ f.dirty PROVE Stored(f) = disk[e.page]
    <3>1. CASE cache[e.page] # NoFrame
      BY <1>2, <1>3, <2>1, <3>1, FrameIsFrame DEF RecoveryInv, FramesAgree, f
    <3>2. CASE cache[e.page] = NoFrame
      <4>1. f = Loaded(disk[e.page]) /\ disk[e.page] \in Image
        BY <1>2, <1>3, <3>2 DEF Held, f, TypeOK
      <4>2. QED BY <4>1, LoadedImage
    <3>3. QED BY <3>1, <3>2
  <2>2. QED BY <1>1, <1>5, <1>10, <1>11, <2>1 DEF RecoveryInv, FramesAgree
<1>18. \A q \in Pages : pending[q] = <<>>
  BY <1>1 DEF RecoveryInv, PendingIsLast
<1>19. untruncated = <<>>
  <2>1. log # <<>>
    BY <1>1
  <2>2. QED BY <2>1 DEF RecoveryInv, TruncatedIsCurrent
<1>20. LsnsBelow' /\ PendingIsLast' /\ PoolIsCurrent' /\ TruncatedIsCurrent'
       /\ ReplayNeverMisapplies'
  BY <1>1, <1>10, <1>18, <1>19
    DEF RecoveryInv, LsnsBelow, PendingIsLast, PoolIsCurrent, TruncatedIsCurrent,
        ReplayNeverMisapplies
<1>21. QED BY <1>15, <1>16, <1>17, <1>20 DEF RecoveryInv

-----------------------------------------------------------------------------
(* The redo is done: it has passed over the whole log.                     *)
LEMMA ReplayEndsKeeps ==
  ASSUME TypeInv, RecoveryInv, ReplayEnds
  PROVE  RecoveryInv'
<1>1. /\ phase = "replaying"
      /\ pos > Len(log)
      /\ phase' = "flushing"
      /\ UNCHANGED <<cache, disk, platter, log, untruncated, lsn, pending, committed>>
  BY DEF ReplayEnds, pageVars, logVars, engineVars
<1>2. pos - 1 = Len(log) /\ Len(log) \in Nat
  BY <1>1, ConstantTypes DEF TypeInv, TypeOK
<1>3. \A q \in Pages : HeldImage(q)' = HeldImage(q)
  BY <1>1 DEF HeldImage, Held
<1>4. FramesAgree' /\ LogRecovers' /\ LsnsBelow'
  BY <1>1, <1>3 DEF RecoveryInv, FramesAgree, LogRecovers, LsnsBelow
<1>5. ASSUME NEW q \in Pages PROVE Current(HeldImage(q), log, q, committed[q])
  <2>1. ReplayedTo(Len(log), q)
    BY <1>1, <1>2 DEF RecoveryInv, ReplayIsAt
  <2>2. QED BY <1>2, <2>1 DEF ReplayedTo, Succeeds, Current, Covers
<1>6. PoolIsCurrent'
  BY <1>1, <1>3, <1>5 DEF PoolIsCurrent
<1>7. \A q \in Pages : pending[q] = <<>>
  BY <1>1 DEF RecoveryInv, PendingIsLast
<1>8. PendingIsLast' /\ ReplayIsAt' /\ TruncatedIsCurrent' /\ ReplayNeverMisapplies'
  BY <1>1, <1>7 DEF RecoveryInv, PendingIsLast, ReplayIsAt, TruncatedIsCurrent,
    ReplayNeverMisapplies, NothingDirty
<1>9. QED BY <1>4, <1>6, <1>8 DEF RecoveryInv

(* The engine begins a checkpoint with no change under way.                *)
LEMMA BeginCheckpointKeeps ==
  ASSUME TypeInv, RecoveryInv, BeginCheckpoint
  PROVE  RecoveryInv'
<1>1. /\ phase = "running"
      /\ \A q \in Pages : pending[q] = <<>>
      /\ phase' = "flushing"
      /\ UNCHANGED <<cache, disk, platter, log, untruncated, lsn, pending, committed>>
  BY DEF BeginCheckpoint, pageVars, logVars, engineVars
<1>2. \A q \in Pages : HeldImage(q)' = HeldImage(q)
  BY <1>1 DEF HeldImage, Held
<1>3. FramesAgree' /\ LogRecovers' /\ LsnsBelow' /\ PoolIsCurrent'
  BY <1>1, <1>2 DEF RecoveryInv, FramesAgree, LogRecovers, LsnsBelow, PoolIsCurrent
<1>4. PendingIsLast' /\ ReplayIsAt' /\ TruncatedIsCurrent' /\ ReplayNeverMisapplies'
  BY <1>1 DEF RecoveryInv, PendingIsLast, ReplayIsAt, TruncatedIsCurrent,
    ReplayNeverMisapplies, NothingDirty
<1>5. QED BY <1>3, <1>4 DEF RecoveryInv

(* When nothing is dirty, the file has what the pool has.                  *)
LEMMA CleanIsStored ==
  ASSUME TypeOK, FramesAgree, NothingDirty, NEW p \in Pages
  PROVE  HeldImage(p) = disk[p]
<1>1. CASE cache[p] # NoFrame
  BY <1>1 DEF FramesAgree, NothingDirty, HeldImage, Held
<1>2. CASE cache[p] = NoFrame
  <2>1. disk[p] \in Image
    BY DEF TypeOK
  <2>2. QED BY <1>2, <2>1, LoadedImage DEF HeldImage, Held
<1>3. QED BY <1>1, <1>2

(* The flush has synced the file: it is the only image of each page, and   *)
(* it has all there is in the log.                                         *)
LEMMA FlushEndsKeeps ==
  ASSUME TypeInv, RecoveryInv, FlushEnds
  PROVE  RecoveryInv'
<1>1. /\ phase = "flushing"
      /\ NothingDirty
      /\ platter' = [q \in Pages |-> {disk[q]}]
      /\ phase' = "truncating"
      /\ UNCHANGED <<cache, disk, log, untruncated, lsn, pending, committed>>
  BY DEF FlushEnds, NothingDirty, logVars, engineVars
<1>2. \A q \in Pages : HeldImage(q)' = HeldImage(q) /\ HeldImage(q) = disk[q]
  <2>1. \A q \in Pages : HeldImage(q)' = HeldImage(q)
    BY <1>1 DEF HeldImage, Held
  <2>2. TypeOK /\ FramesAgree
    BY DEF TypeInv, RecoveryInv
  <2>3. QED BY <1>1, <2>1, <2>2, CleanIsStored
<1>3. \A q \in Pages : platter'[q] = {HeldImage(q)}
  BY <1>1, <1>2
<1>4. FramesAgree' /\ LogRecovers' /\ LsnsBelow'
  BY <1>1, <1>2, <1>3 DEF RecoveryInv, FramesAgree, LogRecovers, LsnsBelow
<1>5. \A q \in Pages : pending[q] = <<>>
  BY <1>1 DEF RecoveryInv, PendingIsLast
<1>6. \A q \in Pages : Current(HeldImage(q), log, q, committed[q])
  BY <1>1, <1>5 DEF RecoveryInv, PoolIsCurrent
<1>7. untruncated # <<>> =>
        /\ log = <<>>
        /\ \A q \in Pages : Current(HeldImage(q), untruncated, q, committed[q])
  <2>1. ASSUME untruncated # <<>>, NEW q \in Pages
        PROVE  log = <<>> /\ Current(HeldImage(q), untruncated, q, committed[q])
    BY <1>2, <2>1 DEF RecoveryInv, TruncatedIsCurrent, FramesAgree
  <2>2. untruncated # <<>> => log = <<>>
    BY DEF RecoveryInv, TruncatedIsCurrent
  <2>3. QED BY <2>1, <2>2
<1>8. TruncatedIsCurrent'
  BY <1>1, <1>3, <1>5, <1>6, <1>7 DEF TruncatedIsCurrent, NothingDirty
<1>9. PendingIsLast' /\ PoolIsCurrent' /\ ReplayIsAt' /\ ReplayNeverMisapplies'
  BY <1>1, <1>5 DEF PendingIsLast, PoolIsCurrent, ReplayIsAt, ReplayNeverMisapplies
<1>10. QED BY <1>4, <1>8, <1>9 DEF RecoveryInv

(* The log is emptied.  What was in it, and what may come back of it, is   *)
(* in every image.                                                         *)
LEMMA TruncateKeeps ==
  ASSUME TypeInv, RecoveryInv, Truncate
  PROVE  RecoveryInv'
<1>1. /\ phase = "truncating"
      /\ log' = <<>>
      /\ untruncated' = IF log = <<>> THEN untruncated ELSE log
      /\ phase' = "syncing"
      /\ UNCHANGED <<cache, disk, platter, lsn, pending, committed>>
  BY DEF Truncate, pageVars, engineVars
<1>2. TypeOK /\ log \in Seq(Entry) /\ lsn \in Nat /\ \A q \in Pages : platter[q] \subseteq Image
  BY ConstantTypes DEF TypeInv, TypeOK
<1>3. NothingDirty
      /\ \A q \in Pages : \A image \in platter[q] : Current(image, log, q, committed[q])
  BY <1>1 DEF RecoveryInv, TruncatedIsCurrent
<1>4. \A q \in Pages : HeldImage(q)' = HeldImage(q) /\ HeldImage(q) \in platter[q]
  <2>1. \A q \in Pages : HeldImage(q)' = HeldImage(q)
    BY <1>1 DEF HeldImage, Held
  <2>2. FramesAgree
    BY DEF RecoveryInv
  <2>3. QED BY <1>2, <1>3, <2>1, <2>2, CleanIsStored DEF FramesAgree
<1>5. Len(<<>>) = 0 /\ <<>> \in Seq(Entry)
  OBVIOUS
<1>6. FramesAgree'
  BY <1>1 DEF RecoveryInv, FramesAgree
<1>7. LogRecovers'
  <2>1. ASSUME NEW q \in Pages, NEW image \in platter[q]
        PROVE  Recovers(<<>>, q, image, committed[q], lsn)
    <3>1. image \in Image /\ image.row = committed[q]
      BY <1>2, <1>3 DEF Current
    <3>2. Recovers(log, q, image, committed[q], lsn) /\ Covers(image, log, q)
      BY <1>3 DEF RecoveryInv, LogRecovers, Current
    <3>3. image.lsn <= lsn
      BY <1>2, <3>1, <3>2, CoveredLsn
    <3>4. Covers(image, <<>>, q)
      BY <1>5 DEF Covers
    <3>5. QED BY <1>5, <3>1, <3>3, <3>4, RecoversCovered
  <2>2. QED BY <1>1, <1>4, <2>1 DEF LogRecovers
<1>8. LsnsBelow'
  BY <1>1, <1>5 DEF RecoveryInv, LsnsBelow
<1>9. \A q \in Pages : pending[q] = <<>>
  BY <1>1 DEF RecoveryInv, PendingIsLast
<1>10. PendingIsLast' /\ PoolIsCurrent' /\ ReplayIsAt' /\ ReplayNeverMisapplies'
  BY <1>1, <1>9 DEF PendingIsLast, PoolIsCurrent, ReplayIsAt, ReplayNeverMisapplies
<1>11. \A q \in Pages : \A image \in platter[q] : Current(image, <<>>, q, committed[q])
  BY <1>3, <1>5 DEF Current, Covers
<1>12. untruncated' # <<>> =>
         \A q \in Pages : \A image \in platter[q] : Current(image, untruncated', q, committed[q])
  BY <1>1, <1>3 DEF RecoveryInv, TruncatedIsCurrent
<1>13. TruncatedIsCurrent'
  BY <1>1, <1>3, <1>9, <1>11, <1>12 DEF TruncatedIsCurrent, NothingDirty
<1>14. QED BY <1>6, <1>7, <1>8, <1>10, <1>13 DEF RecoveryInv

(* The truncation is synced and the engine runs.                           *)
LEMMA SyncLogKeeps ==
  ASSUME KeepsCounter, TypeInv, RecoveryInv, SyncLog
  PROVE  RecoveryInv'
<1>1. /\ phase = "syncing"
      /\ untruncated' = <<>>
      /\ phase' = "running"
      /\ UNCHANGED <<cache, disk, platter, log, lsn, pending, committed>>
  BY DEF SyncLog, pageVars
<1>2. Len(<<>>) = 0
  OBVIOUS
<1>3. \A q \in Pages : HeldImage(q)' = HeldImage(q)
  BY <1>1 DEF HeldImage, Held
<1>4. FramesAgree' /\ LogRecovers' /\ LsnsBelow'
  BY <1>1, <1>2, <1>3 DEF RecoveryInv, FramesAgree, LogRecovers, LsnsBelow
<1>5. \A q \in Pages : Current(HeldImage(q), log, q, committed[q])
  <2>1. NothingDirty /\ FramesAgree /\ TypeOK
    BY <1>1 DEF RecoveryInv, TruncatedIsCurrent, TypeInv
  <2>2. \A q \in Pages : HeldImage(q) \in platter[q]
    BY <2>1, CleanIsStored DEF FramesAgree
  <2>3. QED BY <1>1, <2>2 DEF RecoveryInv, TruncatedIsCurrent
<1>6. PoolIsCurrent'
  BY <1>1, <1>3, <1>5 DEF PoolIsCurrent
<1>7. \A q \in Pages : pending[q] = <<>>
  BY <1>1 DEF RecoveryInv, PendingIsLast
<1>8. PendingIsLast' /\ ReplayIsAt' /\ TruncatedIsCurrent' /\ ReplayNeverMisapplies'
  BY <1>1, <1>7 DEF PendingIsLast, ReplayIsAt, TruncatedIsCurrent, ReplayNeverMisapplies
<1>9. QED BY <1>4, <1>6, <1>8 DEF RecoveryInv

(* A call fails.  In init the program ends and the frames are lost: the    *)
(* file is what is left.  A checkpoint is given up and the engine goes on. *)
LEMMA StepFailsKeeps ==
  ASSUME TypeInv, RecoveryInv, StepFails
  PROVE  RecoveryInv'
<1>1. /\ phase \in {"replaying", "flushing", "truncating", "syncing"}
      /\ phase' = IF starting THEN "down" ELSE "running"
      /\ cache' = IF starting THEN [q \in Pages |-> NoFrame] ELSE cache
      /\ UNCHANGED <<disk, platter, log, untruncated, lsn, pending, committed>>
  BY DEF StepFails, logVars, engineVars
<1>2. TypeOK /\ \A q \in Pages : disk[q] \in Image /\ disk[q] \in platter[q]
  BY DEF TypeInv, TypeOK, RecoveryInv, FramesAgree
<1>3. \A q \in Pages : pending[q] = <<>>
  BY <1>1 DEF RecoveryInv, PendingIsLast
<1>4. LsnsBelow' /\ PendingIsLast' /\ ReplayIsAt' /\ ReplayNeverMisapplies'
  BY <1>1, <1>3 DEF RecoveryInv, LsnsBelow, PendingIsLast, ReplayIsAt, ReplayNeverMisapplies
<1>5. NothingDirty => NothingDirty'
  BY <1>1 DEF NothingDirty
<1>6. TruncatedIsCurrent'
  BY <1>1, <1>3, <1>5 DEF RecoveryInv, TruncatedIsCurrent
<1>7. FramesAgree'
  BY <1>1 DEF RecoveryInv, FramesAgree
<1>8. CASE starting
  <2>1. \A q \in Pages : HeldImage(q)' = disk[q]
    BY <1>1, <1>2, <1>8, LoadedImage DEF HeldImage, Held
  <2>2. LogRecovers'
    BY <1>1, <1>2, <2>1 DEF RecoveryInv, LogRecovers
  <2>3. PoolIsCurrent'
    BY <1>1, <1>8 DEF PoolIsCurrent
  <2>4. QED BY <1>4, <1>6, <1>7, <2>2, <2>3 DEF RecoveryInv
<1>9. CASE ~ starting
  <2>1. cache' = cache /\ phase # "replaying"
    BY <1>1, <1>9 DEF TypeInv
  <2>2. \A q \in Pages : HeldImage(q)' = HeldImage(q)
    BY <1>1, <2>1 DEF HeldImage, Held
  <2>3. LogRecovers'
    BY <1>1, <2>2 DEF RecoveryInv, LogRecovers
  <2>4. \A q \in Pages : Current(HeldImage(q), log, q, committed[q])
    <3>1. CASE phase = "flushing"
      BY <1>3, <3>1 DEF RecoveryInv, PoolIsCurrent
    <3>2. CASE phase \in {"truncating", "syncing"}
      <4>1. NothingDirty /\ FramesAgree
        BY <3>2 DEF RecoveryInv, TruncatedIsCurrent
      <4>2. \A q \in Pages : HeldImage(q) \in platter[q]
        BY <1>2, <4>1, CleanIsStored
      <4>3. QED BY <3>2, <4>2 DEF RecoveryInv, TruncatedIsCurrent
    <3>3. QED BY <1>1, <2>1, <3>1, <3>2
  <2>5. PoolIsCurrent'
    BY <1>1, <2>2, <2>4 DEF PoolIsCurrent
  <2>6. QED BY <1>4, <1>6, <1>7, <2>3, <2>5 DEF RecoveryInv
<1>10. QED BY <1>8, <1>9

(* A power loss leaves one image of each page, which the log that is left  *)
(* recovers: the one there was, or the one whose truncation is undone,     *)
(* which every image is past.                                              *)
LEMMA CrashKeeps ==
  ASSUME TypeInv, RecoveryInv, Crash
  PROVE  RecoveryInv'
<1>1. /\ \A q \in Pages : disk'[q] \in platter[q] /\ platter'[q] = {disk'[q]}
      /\ log' = log \/ (untruncated # <<>> /\ log' = untruncated)
      /\ untruncated' = <<>>
      /\ cache' = [q \in Pages |-> NoFrame]
      /\ pending' = [q \in Pages |-> <<>>]
      /\ phase' = "down"
      /\ UNCHANGED <<lsn, committed>>
  BY DEF Crash
<1>2. /\ log \in Seq(Entry) /\ untruncated \in Seq(Entry)
      /\ \A q \in Pages : platter[q] \subseteq Image
      /\ lsn \in Nat
  BY ConstantTypes DEF TypeInv, TypeOK
<1>3. \A q \in Pages : HeldImage(q)' = disk'[q]
  BY <1>1, <1>2, LoadedImage DEF HeldImage, Held
<1>4. ASSUME NEW q \in Pages, NEW image \in platter[q]
      PROVE  Recovers(log', q, image, committed[q], lsn)
  <2>1. Recovers(log, q, image, committed[q], lsn)
    BY DEF RecoveryInv, LogRecovers
  <2>2. CASE log' = log
    BY <2>1, <2>2
  <2>3. CASE untruncated # <<>> /\ log' = untruncated
    <3>1. log = <<>> /\ Current(image, untruncated, q, committed[q])
      BY <2>3 DEF RecoveryInv, TruncatedIsCurrent
    <3>2. image.lsn <= lsn
      BY <2>1, <3>1, RecoversAlone
    <3>3. QED BY <1>2, <2>3, <3>1, <3>2, RecoversCovered DEF Current
  <2>4. QED BY <1>1, <2>2, <2>3
<1>5. LogRecovers'
  BY <1>1, <1>3, <1>4 DEF LogRecovers
<1>6. FramesAgree'
  BY <1>1 DEF FramesAgree
<1>7. LsnsBelow'
  <2>1. \A i \in 1 .. Len(log') : log'[i].lsn <= lsn
    BY <1>1 DEF RecoveryInv, LsnsBelow
  <2>2. Len(<<>>) = 0
    OBVIOUS
  <2>3. QED BY <1>1, <2>1, <2>2 DEF LsnsBelow
<1>8. PendingIsLast' /\ PoolIsCurrent' /\ ReplayIsAt' /\ TruncatedIsCurrent'
      /\ ReplayNeverMisapplies'
  BY <1>1 DEF PendingIsLast, PoolIsCurrent, ReplayIsAt, TruncatedIsCurrent,
    ReplayNeverMisapplies
<1>9. QED BY <1>5, <1>6, <1>7, <1>8 DEF RecoveryInv

-----------------------------------------------------------------------------
(* A step that changes nothing.                                            *)
LEMMA RecoveryStutter ==
  ASSUME RecoveryInv, UNCHANGED vars
  PROVE  RecoveryInv'
<1>1. UNCHANGED <<cache, disk, platter, log, untruncated, phase, pos, lsn, pending, committed>>
  BY DEF vars, pageVars, logVars, engineVars
<1>2. \A q \in Pages : HeldImage(q)' = HeldImage(q)
  BY <1>1 DEF HeldImage, Held
<1>3. FramesAgree' /\ LogRecovers' /\ LsnsBelow' /\ PendingIsLast' /\ PoolIsCurrent'
  BY <1>1, <1>2
    DEF RecoveryInv, FramesAgree, LogRecovers, LsnsBelow, PendingIsLast, PoolIsCurrent
<1>4. ReplayIsAt'
  BY <1>1, <1>2 DEF RecoveryInv, ReplayIsAt, ReplayedTo
<1>5. TruncatedIsCurrent' /\ ReplayNeverMisapplies'
  BY <1>1 DEF RecoveryInv, TruncatedIsCurrent, ReplayNeverMisapplies, NothingDirty
<1>6. QED BY <1>3, <1>4, <1>5 DEF RecoveryInv

(* Every step keeps the invariant, if no LSN is handed out twice.          *)
LEMMA RecoveryStep ==
  ASSUME KeepsCounter, TypeInv, RecoveryInv, [Next]_vars
  PROVE  RecoveryInv'
<1>1. CASE UNCHANGED vars
  BY <1>1, RecoveryStutter
<1>2. CASE \E p \in Pages : \E op \in {"insert", "update", "delete"} : LogChange(p, op)
  BY <1>2, LogChangeKeeps
<1>3. CASE \E p \in Pages : MakeChange(p) \/ WriteBack(p) \/ Evict(p)
  BY <1>3, MakeChangeKeeps, WriteBackKeeps, EvictKeeps
<1>4. CASE StartClean \/ StartReplay \/ ReplayEntry \/ ReplayEnds
  BY <1>4, StartKeeps, ReplayEntryKeeps, ReplayEndsKeeps
<1>5. CASE BeginCheckpoint \/ FlushEnds \/ Truncate \/ SyncLog
  BY <1>5, BeginCheckpointKeeps, FlushEndsKeeps, TruncateKeeps, SyncLogKeeps
<1>6. CASE StepFails \/ Crash
  BY <1>6, StepFailsKeeps, CrashKeeps
<1>7. CASE StartFails \/ Restart
  BY <1>7, RefusalKeeps
<1>8. QED BY <1>1, <1>2, <1>3, <1>4, <1>5, <1>6, <1>7 DEF Next

(* The engine that keeps its counter stays in the invariant for ever.      *)
LEMMA RecoveryAlways ==
  ASSUME KeepsCounter
  PROVE  Spec => [](TypeInv /\ RecoveryInv)
<1>1. Init => TypeInv /\ RecoveryInv
  BY TypeInit, RecoveryInit
<1>2. TypeInv /\ RecoveryInv /\ [Next]_vars => (TypeInv /\ RecoveryInv)'
  BY TypeStep, RecoveryStep
<1>3. QED BY <1>1, <1>2, PTL DEF Spec

(* Whatever log and images a power loss may leave, at any moment of a      *)
(* change, a checkpoint, a recovery or a failure of one, replay makes of   *)
(* them the rows as of the last logged change (recovery.rs:34-43, :66).    *)
THEOREM RecoverableAtAnyMoment ==
  ASSUME KeepsCounter
  PROVE  Spec => []AlwaysRecoverable
<1>1. TypeInv /\ RecoveryInv => AlwaysRecoverable
  <2> SUFFICES ASSUME TypeInv, RecoveryInv, NEW p \in Pages, NEW image \in platter[p]
               PROVE  /\ Redone(log, p, image) = committed[p]
                      /\ untruncated # <<>> => Redone(untruncated, p, image) = committed[p]
    BY DEF AlwaysRecoverable
  <2>1. log \in Seq(Entry) /\ untruncated \in Seq(Entry) /\ image \in Image
    BY DEF TypeInv, TypeOK
  <2>2. Recovers(log, p, image, committed[p], lsn)
    BY DEF RecoveryInv, LogRecovers
  <2>3. Redone(log, p, image) = committed[p]
    BY <2>1, <2>2, RecoveredRow
  <2>4. ASSUME untruncated # <<>> PROVE Redone(untruncated, p, image) = committed[p]
    <3>1. log = <<>> /\ Current(image, untruncated, p, committed[p])
      BY <2>4 DEF RecoveryInv, TruncatedIsCurrent
    <3>2. image.lsn <= lsn
      BY <2>2, <3>1, RecoversAlone
    <3>3. Recovers(untruncated, p, image, image.row, lsn)
      BY <2>1, <3>1, <3>2, RecoversCovered DEF Current
    <3>4. QED BY <2>1, <3>1, <3>3, RecoveredRow DEF Current
  <2>5. QED BY <2>3, <2>4
<1>2. QED BY <1>1, RecoveryAlways, PTL

(* Once the engine runs, pool and file together show every change that was *)
(* logged, but for the one under way (recovery.rs:33, :59).                *)
THEOREM RunsOnRecoveredRows ==
  ASSUME KeepsCounter
  PROVE  Spec => []RowsRecovered
<1>1. TypeInv /\ RecoveryInv => RowsRecovered
  BY HeldImageType DEF TypeInv, RecoveryInv, PoolIsCurrent, Current, RowsRecovered
<1>2. QED BY <1>1, RecoveryAlways, PTL

(* Replay never meets a page that refuses the change it is due: the        *)
(* database can be opened after any number of power losses, in recovery    *)
(* too (recovery.rs:59-62).                                                *)
THEOREM ReplayIsAccepted ==
  ASSUME KeepsCounter
  PROVE  Spec => []ReplayNeverMisapplies
<1>1. RecoveryInv => ReplayNeverMisapplies
  BY DEF RecoveryInv
<1>2. QED BY <1>1, RecoveryAlways, PTL

=============================================================================
