--------------------------------- MODULE Wal --------------------------------
(***************************************************************************)
(* The write-ahead log of src/src/storage/wal.rs, its crashes, and what    *)
(* RecoveryEngine::init (recovery.rs) does with the log it finds.  The     *)
(* file is a sequence of cells: an entry is a length prefix and a body, an *)
(* interrupted write leaves part of one of them, and space the file system *)
(* allocated but did not fill is a zero cell.  An entry is its LSN.        *)
(***************************************************************************)
EXTENDS Naturals, Sequences, FiniteSets

CONSTANTS
  Sync,        (* WalManager.sync                                          *)
  WriteFails,  (* write_all, set_len and sync_all may fail                 *)
  Tears,       (* how a power loss may tear the unsynced end of the file   *)
  MaxLsn,      (* bound: log entries written                               *)
  MaxBatch,    (* bound: entries of one batch                              *)
  MaxCrashes   (* bound: power losses and ends of the program              *)

ASSUME WalAssumption ==
  /\ {Sync, WriteFails} \subseteq BOOLEAN
  /\ Tears \subseteq {"part", "cut", "zero"}
  /\ {MaxLsn, MaxBatch, MaxCrashes} \subseteq Nat

VARIABLES
  file,         (* the cells of the log file, as a read sees them          *)
  durable,      (* how many of them a power loss leaves                    *)
  old,          (* the files truncate emptied, while that is not synced    *)
  flushed_lsn,
  entry_count,
  lsn,          (* last LSN the engine assigned                            *)
  mode,         (* running, writing (write_batch, before sync_all), down,  *)
                (* replayed (init, before truncate), truncated (init,      *)
                (* before sync), failed (init returned an error)           *)
  found,        (* entries the last read_batch returned                    *)
  batches,      (* batches handed to write_batch (history)                 *)
  acked,        (* entries fsynced and acknowledged since the last         *)
                (* checkpoint (history)                                    *)
  missed,       (* acked entries a successful recovery overlooked          *)
  spoiled,      (* a call that failed left bytes or counters that disagree *)
                (* (history)                                               *)
  crashes

logVars == <<file, durable, old>>
memVars == <<flushed_lsn, entry_count>>
histVars == <<batches, acked, missed, spoiled>>
vars == <<logVars, memVars, lsn, mode, found, histVars, crashes>>

Cell == [kind : {"len", "body", "part", "cut", "zero"}, lsn : 0 .. MaxLsn]

Garbled == 0   (* an entry decoded from bytes of several writes *)

(* The cells of the entries of a batch, in order. *)
Framed(b) ==
  [i \in 1 .. 2 * Len(b) |->
     [kind |-> IF i % 2 = 1 THEN "len" ELSE "body", lsn |-> b[(i + 1) \div 2]]]

Entries(cells) == {cells[i].lsn : i \in {j \in 1 .. Len(cells) : cells[j].kind = "body"}}

Highest(S) == IF S = {} THEN 0 ELSE CHOOSE n \in S : \A m \in S : m <= n

(* f cut after k cells, which may include part of the next one. *)
TornAt(f, k) ==
  {SubSeq(f, 1, k)} \cup
  (IF k = Len(f) THEN {}
   ELSE LET torn(kind) == Append(SubSeq(f, 1, k), [f[k + 1] EXCEPT !.kind = kind]) IN
        {torn(kind) : kind \in Tears \cap (IF f[k + 1].kind = "len" THEN {"part", "zero"}
                                          ELSE IF f[k + 1].kind = "body" THEN {"cut"}
                                          ELSE {})})

-----------------------------------------------------------------------------
(* read_batch: the entries whose two cells are in place from the start.    *)
Intact(f) ==
  CHOOSE n \in 0 .. Len(f) :
    /\ \A i \in 1 .. n : 2 * i <= Len(f) /\ f[2 * i - 1].kind = "len" /\ f[2 * i].kind = "body"
    /\ ~ (/\ 2 * n + 2 <= Len(f)
          /\ f[2 * n + 1].kind = "len"
          /\ f[2 * n + 2].kind = "body")

(* Faulty: a body that is cut off is read as far as it goes. *)
ReadResultsShort(f) ==
  LET n    == Intact(f)
      good == [i \in 1 .. n |-> f[2 * i].lsn]
  IN {[ok |-> TRUE, batch |-> IF 2 * n + 2 <= Len(f) THEN Append(good, Garbled) ELSE good]}

(* What ends the parse after the intact entries.  A prefix that is cut off *)
(* counts as the end of the file, a body that is cut off is a torn write.  *)
(* Entries behind the one to three bytes of a cut prefix complete it to a  *)
(* length of at least 256 times the low byte of their own, 29 or more,     *)
(* which a few entries do not reach: a torn write again (an entry whose    *)
(* size is a multiple of 256 is left out).  Bytes behind a cut body become *)
(* its end, which is an error unless they happen to decode.                *)
ReadResults(f) ==
  LET n    == Intact(f)
      good == [i \in 1 .. n |-> f[2 * i].lsn]
      rest == SubSeq(f, 2 * n + 1, Len(f))
      Ok(b) == [ok |-> TRUE, batch |-> b]
      Error == [ok |-> FALSE, batch |-> <<>>]
  IN
  CASE rest = <<>>                                    -> {Ok(good)}
    [] rest # <<>> /\ rest[1].kind = "zero"           -> {Ok(good)}
    [] Len(rest) = 1 /\ rest[1].kind = "part"         -> {Ok(good)}
    [] Len(rest) > 1 /\ rest[1].kind = "part"         -> {Error}
    [] Len(rest) = 1 /\ rest[1].kind = "len"          -> {Error}
    [] Len(rest) = 2 /\ rest[1].kind = "len" /\ rest[2].kind = "cut" -> {Error}
    [] OTHER -> {Error, Ok(Append(good, Garbled))}

Init ==
  /\ file = <<>>
  /\ durable = 0
  /\ old = {}
  /\ flushed_lsn = 0
  /\ entry_count = 0
  /\ lsn = 0
  /\ mode = "running"
  /\ found = <<>>
  /\ batches = {}
  /\ acked = {}
  /\ missed = {}
  /\ spoiled = FALSE
  /\ crashes = 0

-----------------------------------------------------------------------------
(* The batches the engine can log next. *)
NextBatches == {[i \in 1 .. k |-> lsn + i] : k \in 1 .. MaxBatch}

Elements(b) == {b[i] : i \in 1 .. Len(b)}

(* write_batch up to its write_all: one append for the whole batch.        *)
WriteBatch ==
  /\ mode = "running"
  /\ \E b \in NextBatches :
       /\ lsn + Len(b) <= MaxLsn
       /\ lsn' = lsn + Len(b)
       /\ file' = file \o Framed(b)
       /\ batches' = batches \cup {Elements(b)}
  /\ mode' = "writing"
  /\ UNCHANGED <<durable, old, memVars, found, acked, missed, spoiled, crashes>>

(* Faulty: the batch is acknowledged without the fsync. *)
WriteBatchEndUnsynced ==
  /\ mode = "writing"
  /\ LET b == CHOOSE b \in batches : lsn \in b IN
       /\ acked' = acked \cup b
       /\ flushed_lsn' = Highest(b)
       /\ entry_count' = entry_count + Cardinality(b)
  /\ mode' = "running"
  /\ UNCHANGED <<logVars, lsn, found, batches, missed, spoiled, crashes>>

(* The rest of write_batch: an fsync if asked for; then flushed_lsn is the *)
(* highest LSN of the batch in either case.                                *)
WriteBatchEnd ==
  /\ mode = "writing"
  /\ LET b == CHOOSE b \in batches : lsn \in b IN
       /\ IF Sync
          THEN durable' = Len(file) /\ old' = {} /\ acked' = acked \cup b
          ELSE UNCHANGED <<durable, old, acked>>
       /\ flushed_lsn' = Highest(b)
       /\ entry_count' = entry_count + Cardinality(b)
  /\ mode' = "running"
  /\ UNCHANGED <<file, lsn, found, batches, missed, spoiled, crashes>>

(* Faulty: flushed_lsn moves on before the write is known to succeed. *)
WriteBatchFailsAdvancing ==
  /\ WriteFails
  /\ mode = "running"
  /\ \E b \in NextBatches :
       /\ lsn + Len(b) <= MaxLsn
       /\ lsn' = lsn + Len(b)
       /\ flushed_lsn' = lsn'
       /\ file' = file \o Framed(b)
       /\ batches' = batches \cup {Elements(b)}
  /\ spoiled' = TRUE
  /\ UNCHANGED <<durable, old, entry_count, mode, found, acked, missed, crashes>>

(* write_all stopped in the middle, or sync_all failed: what was appended  *)
(* stays in the file.                                                      *)
WriteBatchFails ==
  /\ WriteFails
  /\ mode = "running"
  /\ \E b \in NextBatches :
       /\ lsn + Len(b) <= MaxLsn
       /\ lsn' = lsn + Len(b)
       /\ \E k \in 0 .. 2 * Len(b) : \E cells \in TornAt(Framed(b), k) : file' = file \o cells
       /\ batches' = batches \cup {Elements(b)}
  /\ spoiled' = TRUE
  /\ UNCHANGED <<durable, old, memVars, mode, found, acked, missed, crashes>>

(* flush_upto, called by the buffer pool with the LSN of a logged change. *)
FlushUpto(l) ==
  /\ mode = "running"
  /\ l > flushed_lsn
  /\ durable' = Len(file)
  /\ old' = {}
  /\ flushed_lsn' = l
  /\ UNCHANGED <<file, entry_count, lsn, mode, found, histVars, crashes>>

SyncFile ==
  /\ mode = "running"
  /\ durable' = Len(file)
  /\ old' = {}
  /\ UNCHANGED <<file, memVars, lsn, mode, found, histVars, crashes>>

(* Faulty: the entries go, their count stays. *)
TruncatedUncounted(synced) ==
  /\ file' = <<>>
  /\ durable' = 0
  /\ old' = IF synced THEN {} ELSE old \cup {file}
  /\ flushed_lsn' = 0
  /\ UNCHANGED entry_count

(* Faulty: the file is emptied, the position in it stays. *)
TruncatedInPlace(synced) ==
  /\ file' = <<>>
  /\ old' = IF synced THEN {} ELSE old \cup {file}
  /\ flushed_lsn' = 0
  /\ entry_count' = 0
  /\ UNCHANGED durable

(* truncate, at a checkpoint: the pages hold every logged change. *)
Truncated(synced) ==
  /\ file' = <<>>
  /\ durable' = 0
  /\ old' = IF synced THEN {} ELSE old \cup {file}
  /\ flushed_lsn' = 0
  /\ entry_count' = 0

Truncate ==
  /\ mode = "running"
  /\ Truncated(Sync)
  /\ acked' = {}
  /\ missed' = {}
  /\ spoiled' = (spoiled /\ ~ Sync)
  /\ UNCHANGED <<lsn, mode, found, batches, crashes>>

(* truncate emptied the file and could not sync it: flushed_lsn and        *)
(* entry_count stay.                                                       *)
TruncateFails ==
  /\ WriteFails /\ Sync
  /\ mode = "running"
  /\ file' = <<>>
  /\ durable' = 0
  /\ old' = old \cup {file}
  /\ acked' = {}
  /\ spoiled' = TRUE
  /\ UNCHANGED <<memVars, lsn, mode, found, batches, missed, crashes>>

-----------------------------------------------------------------------------
(* A power loss keeps the durable cells, any further cells, and a torn one *)
(* after them; a truncation that was not synced may be undone.             *)
Crash ==
  /\ mode # "down"
  /\ crashes < MaxCrashes
  /\ crashes' = crashes + 1
  /\ \/ \E k \in durable .. Len(file) : file' \in TornAt(file, k)
     \/ file' \in old
  /\ durable' = Len(file')
  /\ old' = {}
  /\ flushed_lsn' = 0
  /\ entry_count' = 0
  /\ mode' = "down"
  /\ found' = <<>>
  /\ UNCHANGED <<lsn, histVars>>

(* The program ends, killed or after an error, and the machine does not:   *)
(* the file is as it was, and what was not synced still is not.            *)
Stop ==
  /\ mode # "down"
  /\ crashes < MaxCrashes
  /\ crashes' = crashes + 1
  /\ flushed_lsn' = 0
  /\ entry_count' = 0
  /\ mode' = "down"
  /\ found' = <<>>
  /\ UNCHANGED <<logVars, lsn, histVars>>

(* RecoveryEngine::init: open and read_batch.  An empty batch ends it      *)
(* there; an error ends it with the log as it was.                         *)
Recover ==
  /\ mode = "down"
  /\ \E r \in ReadResults(file) :
       /\ found' = r.batch
       /\ IF r.ok
          THEN /\ mode' = IF r.batch = <<>> THEN "running" ELSE "replayed"
               /\ missed' = acked \ Elements(r.batch)
               /\ flushed_lsn' = Highest(Elements(r.batch))
               /\ entry_count' = Len(r.batch)
          ELSE /\ mode' = "failed"
               /\ UNCHANGED <<missed, memVars>>
  /\ UNCHANGED <<logVars, lsn, batches, acked, spoiled, crashes>>

(* init, after replay flushed the pages: truncate without a sync ... *)
RecoverTruncate ==
  /\ mode = "replayed"
  /\ Truncated(FALSE)
  /\ mode' = "truncated"
  /\ found' = <<>>
  /\ acked' = {}
  /\ missed' = {}
  /\ UNCHANGED <<lsn, batches, spoiled, crashes>>

(* ... then sync; the engine opens the log and runs. *)
RecoverSync ==
  /\ mode = "truncated"
  /\ old' = {}
  /\ mode' = "running"
  /\ spoiled' = FALSE
  /\ UNCHANGED <<file, durable, memVars, lsn, found, batches, acked, missed, crashes>>

(* set_len or the sync after it returned an error, and so does init. *)
RecoverFails ==
  /\ WriteFails
  /\ mode \in {"replayed", "truncated"}
  /\ mode' = "failed"
  /\ UNCHANGED <<logVars, memVars, lsn, found, histVars, crashes>>

Next ==
  \/ WriteBatch \/ WriteBatchEnd \/ WriteBatchFails \/ SyncFile
  \/ Truncate \/ TruncateFails
  \/ \E l \in 1 .. lsn : FlushUpto(l)
  \/ Crash \/ Stop \/ Recover \/ RecoverTruncate \/ RecoverSync \/ RecoverFails

Spec == Init /\ [][Next]_vars

-----------------------------------------------------------------------------
TypeOK ==
  /\ file \in Seq(Cell)
  /\ durable \in 0 .. Len(file)
  /\ old \in SUBSET Seq(Cell)
  /\ flushed_lsn \in 0 .. MaxLsn
  /\ entry_count \in 0 .. MaxLsn
  /\ lsn \in 0 .. MaxLsn
  /\ mode \in {"running", "writing", "down", "replayed", "truncated", "failed"}
  /\ found \in Seq(0 .. MaxLsn)
  /\ batches \in SUBSET SUBSET (1 .. MaxLsn)
  /\ acked \in SUBSET (1 .. MaxLsn)
  /\ missed \in SUBSET (1 .. MaxLsn)
  /\ spoiled \in BOOLEAN
  /\ crashes \in 0 .. MaxCrashes

(* While the engine runs, every logged entry up to flushed_lsn is fsynced: *)
(* "the highest Lsn currently guaranteed to be durable on physical disk"   *)
(* (wal.rs:181).  It is what flush_upto compares with before a page may be *)
(* written (wal.rs:151).  It is not so in init before truncate, and need   *)
(* not: read_batch takes flushed_lsn from the entries it finds, and those  *)
(* of a program that was killed before its fsync are there (wal.rs:307).   *)
FlushedLsnIsDurable ==
  mode \in {"running", "writing"} =>
    \A i \in 1 .. Len(file) :
      file[i].kind = "body" /\ file[i].lsn \in 1 .. flushed_lsn => i <= durable

(* A recovery that succeeds replays every entry that write_batch           *)
(* acknowledged after an fsync and no checkpoint covers, unless a write    *)
(* that failed came in between.                                            *)
AckedRecovered == ~ spoiled => missed = {}

(* What recovery replays is the log from its start, without a gap and      *)
(* without an entry nobody wrote, whichever unsynced bytes survived.       *)
RecoveredInOrder ==
  mode = "replayed" /\ ~ spoiled =>
    /\ \A i \in 1 .. Len(found) : \E b \in batches : found[i] \in b
    /\ \A i \in 2 .. Len(found) : found[i] = found[i - 1] + 1

(* entry_count, which decides on volume based checkpoints, counts the      *)
(* entries a read of the log would find (wal.rs:142).                      *)
EntryCountTracksLog ==
  mode \in {"running", "replayed"} /\ ~ spoiled => entry_count = Cardinality(Entries(file))
=============================================================================
