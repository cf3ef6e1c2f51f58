----------------------------- MODULE BufferPool -----------------------------
(***************************************************************************)
(* The buffer pool of src/src/storage/buffer_pool.rs over the file of      *)
(* DiskManager (page.rs), shared by clients that hold references to its    *)
(* frames, and by the background flusher.  A page is the number of its     *)
(* PAGE_SIZE slot in the file, and the content of a page is its last_lsn.  *)
(* Slot 0 begins with the file header; a page of that number shares its    *)
(* bytes, and of header and page the one written last is there.  Pool      *)
(* calls take &mut self: they exclude one another, but clients go on       *)
(* modifying and dropping frames between the page writes of                *)
(* flush_all_pages.                                                        *)
(***************************************************************************)
EXTENDS Integers, FiniteSets, RecencyOrder

CONSTANTS
  PoolSize,    (* BufferPool.capacity                                      *)
  HasWal,      (* a WalFlusher is attached                                 *)
  IoFails,     (* encoding, reading, writing and syncing may fail          *)
  NoFrame,     (* the None of page_table.get                               *)
  MaxPage,     (* bound: the last page the file has room for               *)
  MaxLsn,      (* bound: log sequence numbers clients assign               *)
  MaxPins,     (* bound: references clients hold to one frame              *)
  MaxCrashes   (* bound: power losses                                      *)

ASSUME PoolAssumption ==
  /\ PoolSize \in Nat
  /\ {HasWal, IoFails} \subseteq BOOLEAN
  /\ {MaxPage, MaxLsn, MaxPins, MaxCrashes} \subseteq Nat
  /\ NoFrame \notin [content : Int, dirty : BOOLEAN]

VARIABLES
  page_table,  (* HashMap<PageId, Frame>: the frame of a cached page       *)
  replacer,    (* LruReplacer: tracked pages, most recently used first     *)
  pins,        (* strong references of clients to the cached frame         *)
  orphans,     (* references of clients to frames the table has dropped    *)
  disk,        (* what a read of the file returns                          *)
  platter,     (* what a power loss may leave of each slot; of the header, *)
               (* where it leaves no page in slot 0                        *)
  next_free,   (* header.next_free_offset, in pages                        *)
  forced,      (* highest LSN that flush_upto confirmed                    *)
  lsn,         (* last LSN a client assigned                               *)
  latest,      (* what clients last put in the page (history)              *)
  flush,       (* pages flush_all_pages has yet to flush, or Idle          *)
  goal,        (* what the pool held when flush_all_pages began (history)  *)
  checkpoint,  (* goal of the last flush_all_pages that succeeded          *)
  reissued,    (* pages handed out over another one since the last         *)
               (* checkpoint (history)                                     *)
  crashes

poolVars == <<page_table, replacer, pins, orphans, next_free>>
fileVars == <<disk, platter, forced>>
histVars == <<lsn, latest, reissued>>
flushVars == <<flush, goal, checkpoint>>
vars == <<poolVars, fileVars, histVars, flushVars, crashes>>

Pages  == 0 .. MaxPage
Header == -1           (* next_free_offset, in the first bytes of slot 0 *)
File   == {Header} \cup Pages
NoPage == -1

Blank    == -1         (* a slot never written: zero bytes, or past EOF    *)
Content  == Blank .. MaxLsn
Node     == [content : Content, dirty : BOOLEAN]
Idle     == {NoPage}

Cached == {p \in Pages : page_table[p] # NoFrame}
(* Faulty: evict_page ignores the references of clients. *)
PinnedByNobody == {}

Pinned == {p \in Pages : pins[p] > 0}
(* Faulty: room is made one frame too late. *)
FullTooLate == Cardinality(Cached) > PoolSize

Full   == Cardinality(Cached) >= PoolSize

(* What the pool makes of page p: the frame when cached, else the file. *)
Held(p) == IF p \in Cached THEN page_table[p].content ELSE disk[p]

Init ==
  /\ page_table = [p \in Pages |-> NoFrame]
  /\ replacer = <<>>
  /\ pins = [p \in Pages |-> 0]
  /\ orphans = [p \in Pages |-> 0]
  /\ disk = [o \in File |-> Blank]
  /\ platter = [o \in File |-> {Blank}]
  /\ next_free = 1
  /\ forced = 0
  /\ lsn = 0
  /\ latest = [p \in Pages |-> Blank]
  /\ flush = Idle
  /\ goal = [p \in Pages |-> Blank]
  /\ checkpoint = [p \in Pages |-> Blank]
  /\ reissued = {}
  /\ crashes = 0

-----------------------------------------------------------------------------
(* Faulty: pages are written without forcing the log. *)
ForcedNever(p) == forced

(* write_page: page 0 covers the header, and its bytes there read as zero  *)
(* (those of a leaf without siblings).                                     *)
PageWritten(p, c) ==
  [disk EXCEPT ![p] = c, ![Header] = IF p = 0 THEN Blank ELSE @]

(* flush_page: the log is forced up to the page's last_lsn, then the page  *)
(* is written.  What happens to the frame is left to the caller.           *)
Forced(p) ==
  LET n == page_table[p] IN
  IF HasWal /\ n.dirty /\ n.content > forced THEN n.content ELSE forced

Flushed(p) ==
  LET n == page_table[p] IN
  /\ forced' = Forced(p)
  /\ disk' = IF n.dirty THEN PageWritten(p, n.content) ELSE disk
  /\ platter' = IF n.dirty THEN [platter EXCEPT ![p] = @ \cup {n.content}]
                           ELSE platter

(* flush_upto, encode or write_page returned an error. *)
FlushFailed(p) ==
  /\ IoFails
  /\ page_table[p].dirty
  /\ forced' \in {forced, Forced(p)}
  /\ UNCHANGED <<disk, platter>>

(* Faulty: the victim is dropped without a flush. *)
RoomMadeUnflushed(v) ==
  /\ IF Full THEN v # NoPage /\ IsVictim(replacer, Pinned, v) ELSE v = NoPage
  /\ UNCHANGED fileVars

(* evict_page, when the pool is full: v is the victim, NoPage without one. *)
RoomMade(v) ==
  IF Full
  THEN /\ v # NoPage
       /\ IsVictim(replacer, Pinned, v)
       /\ Flushed(v)
  ELSE /\ v = NoPage
       /\ UNCHANGED fileVars

(* The table with page p's frame replaced by n, and without the victim v. *)
TableWith(v, p, n) ==
  [q \in Pages |-> IF q = p THEN n ELSE IF q = v THEN NoFrame ELSE page_table[q]]

(* fetch_page of a cached page. *)
FetchHit(p) ==
  /\ flush = Idle
  /\ p \in Cached
  /\ pins[p] < MaxPins
  /\ replacer' = Touch(replacer, p)
  /\ pins' = [pins EXCEPT ![p] = @ + 1]
  /\ UNCHANGED <<page_table, orphans, next_free, fileVars, histVars, flushVars, crashes>>

(* Faulty: evict_page leaves the victim in the replacer. *)
FetchMissKeepsVictim(p) ==
  /\ flush = Idle
  /\ p \notin Cached
  /\ \E v \in Pages \cup {NoPage} :
       /\ RoomMade(v)
       /\ \E q \in Pages : q >= p /\ disk'[q] # Blank
       /\ page_table' = TableWith(v, p, [content |-> disk[p], dirty |-> FALSE])
       /\ replacer' = Touch(replacer, p)
  /\ pins' = [pins EXCEPT ![p] = 1]
  /\ UNCHANGED <<orphans, next_free, histVars, flushVars, crashes>>

(* Faulty: fetch_page does not record the access to a page it read. *)
FetchMissUntracked(p) ==
  /\ flush = Idle
  /\ p \notin Cached
  /\ \E v \in Pages \cup {NoPage} :
       /\ RoomMade(v)
       /\ \E q \in Pages : q >= p /\ disk'[q] # Blank
       /\ page_table' = TableWith(v, p, [content |-> disk[p], dirty |-> FALSE])
       /\ replacer' = Drop(replacer, v)
  /\ pins' = [pins EXCEPT ![p] = 1]
  /\ UNCHANGED <<orphans, next_free, histVars, flushVars, crashes>>

(* fetch_page of an uncached page that the file reaches: a slot the file   *)
(* skips reads as zero bytes, which decode to an internal node.            *)
FetchMiss(p) ==
  /\ flush = Idle
  /\ p \notin Cached
  /\ \E v \in Pages \cup {NoPage} :
       /\ RoomMade(v)
       /\ \E q \in Pages : q >= p /\ disk'[q] # Blank
       /\ page_table' = TableWith(v, p, [content |-> disk[p], dirty |-> FALSE])
       /\ replacer' = Touch(Drop(replacer, v), p)
  /\ pins' = [pins EXCEPT ![p] = 1]
  /\ UNCHANGED <<orphans, next_free, histVars, flushVars, crashes>>

(* fetch_page made room, then read_page failed or met the end of the file. *)
FetchReadFails(p) ==
  /\ flush = Idle
  /\ p \notin Cached
  /\ \E v \in Pages :
       /\ RoomMade(v)
       /\ IoFails \/ \A q \in Pages : q >= p => disk'[q] = Blank
       /\ page_table' = TableWith(v, v, NoFrame)
       /\ replacer' = Drop(replacer, v)
  /\ UNCHANGED <<pins, orphans, next_free, histVars, flushVars, crashes>>

(* Page p is handed out, over a page of the file or a frame if it has one. *)
Reissued(p) ==
  IF p \in Cached \/ disk[p] # Blank THEN reissued \cup {p} ELSE reissued

(* Faulty: the offset moves on by k slots, not by one. *)
NewPageAdvancing(k) ==
  LET p == next_free IN
  /\ flush = Idle
  /\ p \in Pages
  /\ \E v \in Pages \cup {NoPage} :
       /\ RoomMade(v)
       /\ page_table' = TableWith(v, p, [content |-> 0, dirty |-> FALSE])
       /\ replacer' = Touch(Drop(replacer, v), p)
  /\ next_free' = next_free + k
  /\ pins' = [pins EXCEPT ![p] = 1]
  /\ orphans' = [orphans EXCEPT ![p] = @ + pins[p]]
  /\ latest' = [latest EXCEPT ![p] = 0]
  /\ reissued' = Reissued(p)
  /\ UNCHANGED <<lsn, flushVars, crashes>>

NewPageStays == NewPageAdvancing(0)
NewPageSkips == NewPageAdvancing(2)

(* new_page hands out the slot at next_free_offset, whatever is there; the *)
(* new frame takes the place of one the page may have had.                 *)
NewPage ==
  LET p == next_free IN
  /\ flush = Idle
  /\ p \in Pages
  /\ \E v \in Pages \cup {NoPage} :
       /\ RoomMade(v)
       /\ page_table' = TableWith(v, p, [content |-> 0, dirty |-> FALSE])
       /\ replacer' = Touch(Drop(replacer, v), p)
  /\ next_free' = next_free + 1
  /\ pins' = [pins EXCEPT ![p] = 1]
  /\ orphans' = [orphans EXCEPT ![p] = @ + pins[p]]
  /\ latest' = [latest EXCEPT ![p] = 0]
  /\ reissued' = Reissued(p)
  /\ UNCHANGED <<lsn, flushVars, crashes>>

(* evict_page, for fetch_page or new_page, took the victim out of the      *)
(* replacer and could not flush it: the frame stays in the table.          *)
EvictFails ==
  /\ flush = Idle
  /\ Full
  /\ \E v \in Pages :
       /\ IsVictim(replacer, Pinned, v)
       /\ FlushFailed(v)
       /\ replacer' = Drop(replacer, v)
  /\ UNCHANGED <<page_table, pins, orphans, next_free, histVars, flushVars, crashes>>

FlushPage(p) ==
  /\ flush = Idle
  /\ p \in Cached
  /\ Flushed(p)
  /\ page_table' = [page_table EXCEPT ![p].dirty = FALSE]
  /\ UNCHANGED <<replacer, pins, orphans, next_free, histVars, flushVars, crashes>>

FlushPageFails(p) ==
  /\ flush = Idle
  /\ p \in Cached
  /\ FlushFailed(p)
  /\ UNCHANGED <<poolVars, histVars, flushVars, crashes>>

-----------------------------------------------------------------------------
(* flush_all_pages, one action per page: clients run in between.           *)
FlushAllBegin ==
  /\ flush = Idle
  /\ flush' = Cached
  /\ goal' = [p \in Pages |-> Held(p)]
  /\ UNCHANGED <<poolVars, fileVars, histVars, checkpoint, crashes>>

FlushAllPage(p) ==
  /\ flush # Idle
  /\ p \in flush
  /\ Flushed(p)
  /\ page_table' = [page_table EXCEPT ![p].dirty = FALSE]
  /\ flush' = flush \ {p}
  /\ UNCHANGED <<replacer, pins, orphans, next_free, histVars, goal, checkpoint, crashes>>

FlushAllEnd ==
  /\ flush' = Idle
  /\ goal' = [p \in Pages |-> Blank]

(* Faulty: the error is dropped and the loop goes on. *)
FlushAllPageFailsUnseen(p) ==
  /\ flush # Idle
  /\ p \in flush
  /\ FlushFailed(p)
  /\ flush' = flush \ {p}
  /\ UNCHANGED <<poolVars, histVars, goal, checkpoint, crashes>>

(* The first error ends the call: the other pages and the header wait. *)
FlushAllPageFails(p) ==
  /\ flush # Idle
  /\ p \in flush
  /\ FlushFailed(p)
  /\ FlushAllEnd
  /\ UNCHANGED <<poolVars, histVars, checkpoint, crashes>>

(* The header covers the start of a page 0: what is left decodes to an     *)
(* internal node without an LSN, as the zero bytes of a skipped slot do.   *)
HeaderWritten == [disk EXCEPT ![Header] = next_free, ![0] = Blank]

(* What is left to a power loss once the file is d and synced. *)
Synced(d) == [o \in File |-> IF o = Header /\ d[0] # Blank THEN {} ELSE {d[o]}]

(* save_header writes the header and syncs the file. *)
SaveHeader ==
  /\ flush = {}
  /\ disk' = HeaderWritten
  /\ platter' = Synced(disk')
  /\ checkpoint' = goal
  /\ reissued' = {}
  /\ FlushAllEnd
  /\ UNCHANGED <<poolVars, forced, lsn, latest, crashes>>

(* The header write failed, or it succeeded and the sync failed. *)
SaveHeaderFails ==
  /\ IoFails
  /\ flush = {}
  /\ \/ UNCHANGED <<disk, platter>>
     \/ /\ disk' = HeaderWritten
        /\ platter' = [platter EXCEPT ![Header] = @ \cup {next_free},
                                      ![0] = @ \cup {Blank}]
  /\ FlushAllEnd
  /\ UNCHANGED <<poolVars, forced, histVars, checkpoint, crashes>>

-----------------------------------------------------------------------------
(* Clients of the pool: they write through the frames they hold, having    *)
(* logged the change under the LSN they mark the page with.  A node that   *)
(* was decoded from zero bytes is an internal node no client writes to.    *)
Modify(p) ==
  /\ lsn < MaxLsn
  /\ pins[p] > 0
  /\ page_table[p].content # Blank
  /\ lsn' = lsn + 1
  /\ page_table' = [page_table EXCEPT ![p] = [content |-> lsn + 1, dirty |-> TRUE]]
  /\ latest' = [latest EXCEPT ![p] = lsn + 1]
  /\ UNCHANGED <<replacer, pins, orphans, next_free, fileVars, reissued, flushVars,
                 crashes>>

(* The same through a frame the pool no longer knows. *)
ModifyOrphan(p) ==
  /\ lsn < MaxLsn
  /\ orphans[p] > 0
  /\ lsn' = lsn + 1
  /\ latest' = [latest EXCEPT ![p] = lsn + 1]
  /\ UNCHANGED <<poolVars, fileVars, reissued, flushVars, crashes>>

DropHandle(p) ==
  /\ pins[p] > 0
  /\ pins' = [pins EXCEPT ![p] = @ - 1]
  /\ UNCHANGED <<page_table, replacer, orphans, next_free, fileVars, histVars,
                 flushVars, crashes>>

DropOrphan(p) ==
  /\ orphans[p] > 0
  /\ orphans' = [orphans EXCEPT ![p] = @ - 1]
  /\ UNCHANGED <<page_table, replacer, pins, next_free, fileVars, histVars,
                 flushVars, crashes>>

(* DiskManager::open: the defaults for an empty file, else what the header *)
(* bytes say, which are zero when only pages were ever written.            *)
Reopened(d) ==
  IF \A o \in File : d[o] = Blank THEN 1
  ELSE IF d[Header] = Blank THEN 0 ELSE d[Header]

(* The files a power loss may leave: any surviving image of every slot,    *)
(* and a header unless slot 0 holds a page.                                *)
Survivors ==
  {d \in [File -> UNION {platter[o] : o \in File} \cup {Blank}] :
     /\ \A p \in Pages : d[p] \in platter[p]
     /\ IF d[0] = Blank THEN d[Header] \in platter[Header] ELSE d[Header] = Blank}

(* A power loss; the program reopens the file with an empty pool.          *)
Crash ==
  /\ crashes < MaxCrashes
  /\ crashes' = crashes + 1
  /\ disk' \in Survivors
  /\ platter' = Synced(disk')
  /\ next_free' = Reopened(disk')
  /\ page_table' = [p \in Pages |-> NoFrame]
  /\ replacer' = <<>>
  /\ pins' = [p \in Pages |-> 0]
  /\ orphans' = [p \in Pages |-> 0]
  /\ latest' = [p \in Pages |-> disk'[p]]
  /\ FlushAllEnd
  /\ UNCHANGED <<forced, lsn, reissued, checkpoint>>

Next ==
  \/ \E p \in Pages :
       \/ FetchHit(p) \/ FetchMiss(p) \/ FetchReadFails(p)
       \/ FlushPage(p) \/ FlushPageFails(p)
       \/ FlushAllPage(p) \/ FlushAllPageFails(p)
       \/ Modify(p) \/ ModifyOrphan(p) \/ DropHandle(p) \/ DropOrphan(p)
  \/ NewPage \/ EvictFails
  \/ FlushAllBegin \/ SaveHeader \/ SaveHeaderFails
  \/ Crash

Spec == Init /\ [][Next]_vars

-----------------------------------------------------------------------------
TypeOK ==
  /\ page_table \in [Pages -> Node \cup {NoFrame}]
  /\ replacer \in Seq(Pages)
  /\ pins \in [Pages -> Nat]
  /\ orphans \in [Pages -> Nat]
  /\ disk \in [File -> Int]
  /\ \A p \in Pages : disk[p] \in Content
  /\ disk[Header] \in {Blank} \cup 0 .. MaxPage + 1
  /\ platter \in [File -> SUBSET Int]
  /\ next_free \in 0 .. MaxPage + 1
  /\ forced \in 0 .. MaxLsn
  /\ lsn \in 0 .. MaxLsn
  /\ latest \in [Pages -> Content]
  /\ flush \in (SUBSET Pages) \cup {Idle}
  /\ goal \in [Pages -> Content]
  /\ checkpoint \in [Pages -> Content]
  /\ reissued \subseteq Pages
  /\ crashes \in 0 .. MaxCrashes

(* The two panics of the pool cannot happen: evict_if's predicate finds    *)
(* every tracked page in page_table, and record_access, called for a page  *)
(* the replacer does not track, finds room for it (buffer_pool.rs:128,     *)
(* lru.rs:69), because each page is tracked once and only while cached.    *)
ReplacerAgrees ==
  /\ Tracked(replacer) \subseteq Cached
  /\ \A i, j \in 1 .. Len(replacer) : replacer[i] = replacer[j] => i = j

(* The table never holds more frames than its capacity, whatever fails     *)
(* between making room for a frame and inserting it.                       *)
PoolBounded == Cardinality(Cached) <= PoolSize

(* One frame per page: a client's reference is to the frame in the table,  *)
(* and no page is evicted under a client that still holds it.              *)
OneFramePerPage ==
  \A p \in Pages : orphans[p] = 0 /\ (pins[p] > 0 => p \in Cached)

(* What a client last wrote to a page is what the pool, or after eviction  *)
(* the file, makes of it; and the pool writes back whatever differs.       *)
NoLostUpdate ==
  \A p \in Pages : latest[p] > 0 =>
     /\ Held(p) = latest[p]
     /\ p \in Cached /\ ~ page_table[p].dirty => disk[p] = latest[p]

(* Write-ahead: no image of a page, in the file or surviving, is ahead of  *)
(* what flush_upto confirmed when the page was written.                    *)
WalRule ==
  HasWal => \A p \in Pages : \A c \in platter[p] : c <= forced

(* What a checkpoint promises to the log: a page that held an update when  *)
(* flush_all_pages began has no older image left.                          *)
Kept(p) == \A c \in platter[p] : checkpoint[p] > 0 => c >= checkpoint[p]

(* A successful flush_all_pages (the checkpoint that lets the engine       *)
(* truncate the log) leaves every update the pool held when the call began *)
(* on the disk, whatever clients did during the call, and after any later  *)
(* failure and power loss: until new_page hands the page out again (an     *)
(* image with a later LSN is then of another page), and but for page 0,    *)
(* which lies under the header.  A power loss that left pages without a    *)
(* header makes it the next page: the file is opened with next_free_offset *)
(* 0, and save_header then overwrites a page 0 that the same call wrote    *)
(* (page.rs:696-697, 715-719, 729), against truncate's doc (wal.rs:245).   *)
CheckpointSurvives == \A p \in Pages \ (reissued \cup {0}) : Kept(p)

(* new_page allocates a completely new page (buffer_pool.rs:75): nothing   *)
(* from next_free_offset on was ever written or is cached.                 *)
FreeSpaceIsFree ==
  /\ next_free >= 1
  /\ \A p \in Pages : p >= next_free => disk[p] = Blank /\ p \notin Cached

(* Cached pages that no eviction considers. *)
Stranded == Cached \ Tracked(replacer)

(* A cached page leaves the replacer only when its own write-back fails,   *)
(* and then it keeps its change and its mark (buffer_pool.rs:135): what    *)
(* fails on the way to another page takes no frame out of the reach of     *)
(* evictions.                                                              *)
OnlyFailedWriteBackStrands ==
  [][\A p \in Stranded' \ Stranded :
       /\ p \in Cached
       /\ page_table[p].dirty
       /\ page_table'[p] = page_table[p]
       /\ disk'[p] = disk[p]]_vars
=============================================================================
