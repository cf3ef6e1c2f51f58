------------------------------ MODULE Recovery ------------------------------
(***************************************************************************)
(* Redo recovery: src/src/storage/recovery.rs with the log, the pages and  *)
(* the pool it works on, and the engine the log is kept for, over any      *)
(* number of power losses, in recovery too.                                *)
(*                                                                         *)
(* The repository has no engine yet.  What its comments ask of one is      *)
(* modelled: it logs a change under the next LSN, with sync on, before it  *)
(* applies it; it holds the page's latch over both; it logs only what the  *)
(* leaf accepts; and it truncates the log only after flush_all_pages       *)
(* succeeded, with no change under way (wal.rs:242-247).                   *)
(*                                                                         *)
(* A page stands for one row of it.  The bytes of the log are the subject  *)
(* of Wal.tla, victims and references that of BufferPool.tla.              *)
(***************************************************************************)
EXTENDS Naturals, Sequences, FiniteSets

CONSTANTS
  Pages,         (* pages of the file, written empty before the first start *)
  KeepsCounter,  (* the engine never hands out an LSN twice; otherwise it   *)
                 (* starts its counter from what init returns               *)
  NoFrame,       (* the None of page_table.get                              *)
  MaxLsn,        (* bound: the largest LSN                                  *)
  MaxCrashes,    (* bound: power losses                                     *)
  MaxFaults      (* bound: calls that fail with an I/O error                *)

ASSUME RecoveryAssumption ==
  /\ IsFiniteSet(Pages)
  /\ KeepsCounter \in BOOLEAN
  /\ {MaxLsn, MaxCrashes, MaxFaults} \subseteq Nat

VARIABLES
  cache,      (* page_table: the frame of a cached page                    *)
  disk,       (* the image of a page that a read returns                   *)
  platter,    (* the images of a page that a power loss may leave          *)
  log,        (* the entries of the log file                               *)
  untruncated,(* what the file held before a truncation not yet synced     *)
  torn,       (* behind the entries is one that is cut off in its body     *)
  phase,      (* what the program is doing                                 *)
  starting,   (* it does so in init; otherwise in a checkpoint             *)
  pos,        (* the entry replay looks at next                            *)
  lsn,        (* the engine's counter: the last LSN it assigned            *)
  pending,    (* the entry logged for a page and not applied yet, or <<>>  *)
  committed,  (* the row after all changes that were logged (history)      *)
  crashes, faults

pageVars   == <<cache, disk, platter>>
logVars    == <<log, untruncated, torn>>
engineVars == <<lsn, pending, committed>>
boundVars  == <<crashes, faults>>
vars == <<pageVars, logVars, phase, starting, pos, engineVars, boundVars>>

Lsns   == 1 .. MaxLsn
Absent == [state |-> "absent", data |-> 0]
Row    == {Absent} \cup [state : {"live", "dead"}, data : Lsns]
Image  == [lsn : 0 .. MaxLsn, row : Row]
Frame  == [lsn : 0 .. MaxLsn, row : Row, dirty : BOOLEAN]
Entry  == [lsn : Lsns, page : Pages, op : {"insert", "update", "delete"}]

ASSUME FrameAssumption == NoFrame \notin Frame

Blank == [lsn |-> 0, row |-> Absent]

(* The frame read_page and decode make of an image, and the image of it.   *)
Loaded(i) == [lsn |-> i.lsn, row |-> i.row, dirty |-> FALSE]

(* Faulty: the mark is written with the page. *)
StoredMarked(f) == f

Stored(f) == [lsn |-> f.lsn, row |-> f.row]

(* What fetch_page returns. *)
Held(p) == IF cache[p] # NoFrame THEN cache[p] ELSE Loaded(disk[p])

(* apply_entry: the leaf's answer and the row it leaves.  The payload is   *)
(* the entry's LSN.  A tombstone is found by update and delete.            *)
Applied(e, row) ==
  CASE e.op = "insert" /\ row.state = "live" ->
         [ret |-> "DuplicateKey", row |-> row]
    [] e.op = "insert" /\ row.state # "live" ->
         [ret |-> "Ok", row |-> [state |-> "live", data |-> e.lsn]]
    [] e.op # "insert" /\ row.state = "absent" ->
         [ret |-> "KeyNotFound", row |-> row]
    [] e.op = "update" /\ row.state # "absent" ->
         [ret |-> "Ok", row |-> [row EXCEPT !.data = e.lsn]]
    [] e.op = "delete" /\ row.state # "absent" ->
         [ret |-> "Ok", row |-> [row EXCEPT !.state = "dead"]]

Init ==
  /\ cache = [p \in Pages |-> NoFrame]
  /\ disk = [p \in Pages |-> Blank]
  /\ platter = [p \in Pages |-> {Blank}]
  /\ log = <<>>
  /\ untruncated = <<>>
  /\ torn = FALSE
  /\ phase = "down"
  /\ starting = FALSE
  /\ pos = 1
  /\ lsn = 0
  /\ pending = [p \in Pages |-> <<>>]
  /\ committed = [p \in Pages |-> Absent]
  /\ crashes = 0
  /\ faults = 0

-----------------------------------------------------------------------------
(* The engine, latch in hand, logs a change of the page ...                *)
LogChange(p, op) ==
  LET e == [lsn |-> lsn + 1, page |-> p, op |-> op] IN
  /\ phase = "running"
  /\ pending[p] = <<>>
  /\ lsn < MaxLsn
  /\ Applied(e, Held(p).row).ret = "Ok"
  /\ log' = Append(log, e)
  /\ untruncated' = <<>>
  /\ lsn' = lsn + 1
  /\ pending' = [pending EXCEPT ![p] = <<e>>]
  /\ committed' = [committed EXCEPT ![p] = Applied(e, Held(p).row).row]
  /\ UNCHANGED <<pageVars, torn, phase, starting, pos, boundVars>>

(* ... and makes it.                                                       *)
MakeChange(p) ==
  /\ phase = "running"
  /\ pending[p] # <<>>
  /\ LET e == pending[p][1] IN
     cache' = [cache EXCEPT ![p] =
                 [lsn |-> e.lsn, row |-> Applied(e, Held(p).row).row, dirty |-> TRUE]]
  /\ pending' = [pending EXCEPT ![p] = <<>>]
  /\ UNCHANGED <<disk, platter, logVars, phase, starting, pos, lsn, committed, boundVars>>

(* flush_page, for flush_all_pages, an eviction or anybody else: it waits  *)
(* for the latch.  The log is synced already.                              *)
WriteBack(p) ==
  /\ phase # "down"
  /\ pending[p] = <<>>
  /\ cache[p] # NoFrame
  /\ cache[p].dirty
  /\ cache' = [cache EXCEPT ![p].dirty = FALSE]
  /\ disk' = [disk EXCEPT ![p] = Stored(cache[p])]
  /\ platter' = [platter EXCEPT ![p] = @ \cup {disk'[p]}]
  /\ UNCHANGED <<logVars, phase, starting, pos, engineVars, boundVars>>

(* The pool drops a clean frame. *)
Evict(p) ==
  /\ pending[p] = <<>>
  /\ cache[p] # NoFrame
  /\ ~ cache[p].dirty
  /\ cache' = [cache EXCEPT ![p] = NoFrame]
  /\ UNCHANGED <<disk, platter, logVars, phase, starting, pos, engineVars, boundVars>>

-----------------------------------------------------------------------------
(* init reads the log and returns at once if it is empty.                  *)
StartClean ==
  /\ phase = "down"
  /\ ~ torn
  /\ log = <<>>
  /\ phase' = "running"
  /\ lsn' = IF KeepsCounter THEN lsn ELSE 0
  /\ UNCHANGED <<pageVars, logVars, starting, pos, pending, committed, boundVars>>

StartReplay ==
  /\ phase = "down"
  /\ ~ torn
  /\ log # <<>>
  /\ phase' = "replaying"
  /\ starting' = TRUE
  /\ pos' = 1
  /\ UNCHANGED <<pageVars, logVars, engineVars, boundVars>>

(* read_batch returns the torn write as an error, and so does init.  It    *)
(* leaves the log as it is: the next start fails as well.                  *)
StartFails ==
  /\ phase = "down"
  /\ torn
  /\ phase' = "refused"
  /\ UNCHANGED <<pageVars, logVars, starting, pos, engineVars, boundVars>>

Restart ==
  /\ phase = "refused"
  /\ phase' = "down"
  /\ UNCHANGED <<pageVars, logVars, starting, pos, engineVars, boundVars>>

(* Faulty: a page that has the very change is given it again. *)
ObsoleteIfOlder(e, f) == e.lsn < f.lsn

(* Faulty: a page one change behind counts as up to date. *)
ObsoleteIfNext(e, f) == e.lsn <= f.lsn + 1

(* The page has the change, as its last_lsn says. *)
Obsolete(e, f) == e.lsn <= f.lsn

(* Faulty: an entry that is skipped is looked at again. *)
ReplayEntryAgain ==
  /\ phase = "replaying"
  /\ pos <= Len(log)
  /\ LET e == log[pos]
         f == Held(e.page)
         a == Applied(e, f.row)
     IN
     /\ cache' = [cache EXCEPT ![e.page] =
                    IF Obsolete(e, f) \/ a.ret # "Ok" THEN f
                    ELSE [lsn |-> e.lsn, row |-> a.row, dirty |-> TRUE]]
     /\ pos' = IF Obsolete(e, f) THEN pos ELSE pos + 1
  /\ UNCHANGED <<disk, platter, logVars, phase, starting, engineVars, boundVars>>

(* One entry of replay.  An error of apply_entry ends init, for good: the  *)
(* next start meets the same log and the same pages.                       *)
ReplayEntry ==
  /\ phase = "replaying"
  /\ pos <= Len(log)
  /\ LET e == log[pos]
         f == Held(e.page)
         a == Applied(e, f.row)
     IN
     /\ cache' = [cache EXCEPT ![e.page] =
                    IF Obsolete(e, f) \/ a.ret # "Ok" THEN f
                    ELSE [lsn |-> e.lsn, row |-> a.row, dirty |-> TRUE]]
     /\ phase' = IF Obsolete(e, f) \/ a.ret = "Ok" THEN "replaying" ELSE "misapplied"
  /\ pos' = pos + 1
  /\ UNCHANGED <<disk, platter, logVars, starting, engineVars, boundVars>>

(* The loop ends, or the engine begins a checkpoint: flush_all_pages.      *)
ReplayEnds ==
  /\ phase = "replaying"
  /\ pos > Len(log)
  /\ phase' = "flushing"
  /\ UNCHANGED <<pageVars, logVars, starting, pos, engineVars, boundVars>>

BeginCheckpoint ==
  /\ phase = "running"
  /\ \A p \in Pages : pending[p] = <<>>
  /\ phase' = "flushing"
  /\ starting' = FALSE
  /\ UNCHANGED <<pageVars, logVars, pos, engineVars, boundVars>>

(* Faulty: the log goes when the pages are written, not when they are synced. *)
FlushEndsUnsynced ==
  /\ phase = "flushing"
  /\ \A p \in Pages : cache[p] # NoFrame => ~ cache[p].dirty
  /\ phase' = "truncating"
  /\ UNCHANGED <<pageVars, logVars, starting, pos, engineVars, boundVars>>

(* Every page is written (WriteBack): save_header syncs the file.          *)
FlushEnds ==
  /\ phase = "flushing"
  /\ \A p \in Pages : cache[p] # NoFrame => ~ cache[p].dirty
  /\ platter' = [p \in Pages |-> {disk[p]}]
  /\ phase' = "truncating"
  /\ UNCHANGED <<cache, disk, logVars, starting, pos, engineVars, boundVars>>

(* truncate empties the file; the sync is part of it in a checkpoint, and  *)
(* a call of its own in init.                                              *)
Truncate ==
  /\ phase = "truncating"
  /\ log' = <<>>
  /\ untruncated' = IF log = <<>> THEN untruncated ELSE log
  /\ phase' = "syncing"
  /\ UNCHANGED <<pageVars, torn, starting, pos, engineVars, boundVars>>

(* The largest LSN of the batch, which init returns. *)
Observed(batch) ==
  IF batch = <<>> THEN 0
  ELSE LET lsns == {batch[i].lsn : i \in 1 .. Len(batch)}
       IN CHOOSE m \in lsns : \A l \in lsns : l <= m

SyncLog ==
  /\ phase = "syncing"
  /\ untruncated' = <<>>
  /\ phase' = "running"
  /\ lsn' = IF starting /\ ~ KeepsCounter THEN Observed(untruncated) ELSE lsn
  /\ UNCHANGED <<pageVars, log, torn, starting, pos, pending, committed, boundVars>>

-----------------------------------------------------------------------------
(* A fetch, a flush, the header, the truncation or its sync fails: init    *)
(* returns the error and the program ends; a checkpoint is given up.       *)
StepFails ==
  /\ phase \in {"replaying", "flushing", "truncating", "syncing"}
  /\ faults < MaxFaults
  /\ faults' = faults + 1
  /\ phase' = IF starting THEN "down" ELSE "running"
  /\ cache' = IF starting THEN [p \in Pages |-> NoFrame] ELSE cache
  /\ UNCHANGED <<disk, platter, logVars, starting, pos, engineVars, crashes>>

(* The engine is appending the entry of a change.                          *)
Appending ==
  /\ phase = "running"
  /\ lsn < MaxLsn
  /\ \E p \in Pages : pending[p] = <<>>

(* A power loss leaves one of the possible images of each page, and of the *)
(* log what it holds, perhaps with a torn entry behind it, or what a       *)
(* truncation not yet synced took away.                                    *)
Crash ==
  /\ crashes < MaxCrashes
  /\ crashes' = crashes + 1
  /\ disk' \in {d \in [Pages -> UNION {platter[p] : p \in Pages}] :
                  \A p \in Pages : d[p] \in platter[p]}
  /\ platter' = [p \in Pages |-> {disk'[p]}]
  /\ log' \in {log} \cup (IF untruncated # <<>> THEN {untruncated} ELSE {})
  /\ torn' \in {torn} \cup (IF Appending /\ log' = log THEN {TRUE} ELSE {})
  /\ untruncated' = <<>>
  /\ cache' = [p \in Pages |-> NoFrame]
  /\ pending' = [p \in Pages |-> <<>>]
  /\ phase' = "down"
  /\ UNCHANGED <<starting, pos, lsn, committed, faults>>

Next ==
  \/ \E p \in Pages :
       \/ \E op \in {"insert", "update", "delete"} : LogChange(p, op)
       \/ MakeChange(p) \/ WriteBack(p) \/ Evict(p)
  \/ StartClean \/ StartReplay \/ StartFails \/ Restart
  \/ ReplayEntry \/ ReplayEnds
  \/ BeginCheckpoint \/ FlushEnds \/ Truncate \/ SyncLog
  \/ StepFails \/ Crash

(* A call that has begun goes on, and a program that has ended is started  *)
(* again.  Nothing makes clients change rows or the engine flush.          *)
Fairness ==
  /\ WF_vars(StartClean \/ StartReplay \/ ReplayEntry \/ ReplayEnds)
  /\ WF_vars(FlushEnds \/ Truncate \/ SyncLog)
  /\ WF_vars(phase = "flushing" /\ \E p \in Pages : WriteBack(p))

Spec == Init /\ [][Next]_vars /\ Fairness

-----------------------------------------------------------------------------
TypeOK ==
  /\ cache \in [Pages -> Frame \cup {NoFrame}]
  /\ disk \in [Pages -> Image]
  /\ platter \in [Pages -> SUBSET Image]
  /\ log \in Seq(Entry)
  /\ untruncated \in Seq(Entry)
  /\ torn \in BOOLEAN
  /\ phase \in {"down", "refused", "replaying", "misapplied", "flushing", "truncating",
                "syncing", "running"}
  /\ starting \in BOOLEAN
  /\ pos \in 1 .. MaxLsn + 1
  /\ lsn \in 0 .. MaxLsn
  /\ \A p \in Pages : pending[p] = <<>> \/ pending[p] \in {<<e>> : e \in Entry}
  /\ committed \in [Pages -> Row]
  /\ crashes \in 0 .. MaxCrashes
  /\ faults \in 0 .. MaxFaults

(* What a redo of the log makes of an image of a page. *)
Redo(e, p, n) ==
  IF e.page = p /\ e.lsn > n.lsn
  THEN [lsn |-> e.lsn, row |-> Applied(e, n.row).row]
  ELSE n

Redone(l, p, image) ==
  LET done[i \in 0 .. Len(l)] == IF i = 0 THEN image ELSE Redo(l[i], p, done[i - 1])
  IN done[Len(l)].row

(* A power loss at this moment would take nothing away: the entries of     *)
(* every log and every image of a page it may leave yield the row as of    *)
(* the last logged change.  So a checkpoint, a failed one, a recovery and  *)
(* one cut short each leave the log as long as it is needed                *)
(* (recovery.rs:34-43, :66).  Whether init reads those entries, or returns *)
(* an error because of a torn one behind them, is another matter.          *)
AlwaysRecoverable ==
  \A p \in Pages : \A image \in platter[p] :
    /\ Redone(log, p, image) = committed[p]
    /\ untruncated # <<>> => Redone(untruncated, p, image) = committed[p]

(* While the engine runs it works on the recovered rows: pool and file     *)
(* together show what was logged, but for the change under way.  A change  *)
(* under an LSN the page is past would be skipped by the next replay       *)
(* (recovery.rs:33, :59).                                                  *)
RowsRecovered ==
  phase = "running" =>
    \A p \in Pages : pending[p] = <<>> =>
      Held(p).row = committed[p]

(* Replay never applies an entry to a page in a state the change was not   *)
(* logged for: it would end in DuplicateKey or KeyNotFound and the         *)
(* database could not be opened any more (recovery.rs:59-62).              *)
ReplayNeverMisapplies == phase # "misapplied"

(* Over a log that a power loss did not tear in the middle of an append,   *)
(* the program comes up, however often recovery or a checkpoint was cut    *)
(* short: a power loss in either leaves no log that init refuses           *)
(* (recovery.rs:27-43).  Over a torn one it never does (wal.rs:262).       *)
StartEnds == phase = "down" /\ ~ torn ~> phase = "running"
=============================================================================
