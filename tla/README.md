# smol-db in TLA+

A verification project for [smol-db](../src/README.md), a small storage engine in
Rust: a page file with a buffer pool and an LRU replacer, a write-ahead log with
redo recovery, leaf pages of a B+ tree, and a thread that flushes in the
background. Paths below are relative to the repository (`src/src/storage/` is
shortened to the file's name).

Contents: the system, what is hard about it, the modules and their relation to the
code, the runs, the proofs, what was observed, what is not modelled, the plan.

## 1. The system

| component | state it keeps | operations |
|---|---|---|
| page replacer (`lru.rs`) | arena of list nodes, page -> index map, head, tail, free list | `record_access`, `remove`, `evict`, `evict_if`, `peek_rev` |
| buffer pool (`buffer_pool.rs`) | `page_table`: page -> `Arc<RwLock<BTreeNode>>`, replacer, disk manager, optional `WalFlusher` | `fetch_page`, `new_page`, `flush_page`, `flush_all_pages`, private `evict_page` |
| disk manager (`page.rs`) | the file, the header in memory (`next_free_offset` is the only field that changes) | `open`, `read_page`, `write_page`, `allocate_page`, `save_header` |
| leaf node (`page.rs`) | records, slot array, `free_size`, sibling links, `last_lsn`, dirty flag | `insert_record`, `update_record`, `delete_record`, `get_record`, `split`, `compact`, `encode`, `decode` |
| internal node (`page.rs`) | routing entries, rightmost child | `route_key`, `encode`, `decode` |
| write-ahead log (`wal.rs`) | the file, `sync`, `entry_count`, `flushed_lsn` | `open`, `write_batch`, `flush_upto`, `sync`, `truncate`, `read_batch` |
| recovery (`recovery.rs`) | none | `init`, `replay`, `apply_entry` |
| B+ tree (`bptree.rs`) | root page id, borrowed pool | `insert_leaf`, `find_record` |
| background flusher (`flusher.rs`) | shutdown channel, join handle | `start`, `shutdown`, `Drop` |
| codecs (`ByteCursor`, `WalEntry`), errors, `main.rs` | none | |

How they interact:

- The pool calls the replacer on every fetch, new page and eviction. The replacer
  asks back, through `evict_if`'s predicate, whether a frame is pinned: it is when
  its `Arc` has a second strong reference.
- The pool calls the log (`flush_upto`) before it writes a dirty page.
- Clients - `insert_leaf`, recovery, an engine that does not exist yet - hold frames
  beyond the pool call that returned them, modify them under the frame's latch and
  mark them dirty with the LSN of the change they logged.
- The flusher shares the pool through a mutex and calls `flush_all_pages` every
  100 ms, and once more at shutdown. Clients' frames are not covered by that mutex:
  they go on changing between the page writes of `flush_all_pages`.
- `RecoveryEngine::init` reads the log, replays it through the pool, flushes, and
  truncates the log.

The behaviours that are hard: every call can fail half way (I/O, a full page, no
victim) with a state that has already changed; a power loss may strike between any
two writes and keeps an arbitrary part of what was not synced; clients run
concurrently with flushes; two structures that must agree (page table and replacer,
slot array and records, log file and its counters) are updated separately on every
path. `PROJECT.json` lists these as hazards, each at its line.

What makes each component correct:

- replacer: the list runs over exactly the tracked pages, arena slots are neither
  leaked nor shared, and evictions follow recency;
- pool: one frame per page; no update is lost by eviction; log before page; a flush
  of everything is a checkpoint; neither of its two panics is reachable; a frame
  nobody holds can be evicted; free space is free;
- log: what was acknowledged is recovered, what is recovered was logged, in order;
  `flushed_lsn` does not run ahead of the disk; `entry_count` counts the log;
- leaf: a map from row ids to payloads that always fits its page and survives
  encoding; a split loses nothing and makes room;
- recovery: whatever a power loss leaves, in recovery too, the log and the pages yield
  every logged change once; a start over a log without a torn entry comes to an end;
- tree: the leaves are one ordered, doubly linked chain, `find_record` agrees with a
  scan of it, and an insert that fails changes no row;
- flusher: no thread waits in a circle, `shutdown` returns, and what was changed before
  it is on the disk then; marked pages do not stay unwritten.

## 2. Modules

| module | models | role |
|---|---|---|
| `RecencyOrder` | recency as a sequence | operators `Drop`, `Touch`, `IsVictim`, shared by the next three |
| `LruOrder` | what the replacer promises | abstract specification |
| `LruReplacer` | `lru.rs` | arena, links, map, free list; implements `LruOrder` |
| `BufferPool` | `buffer_pool.rs`, `DiskManager` | pool, file, clients, failures, power loss |
| `Wal` | `wal.rs`, the log side of `RecoveryEngine::init` | log file, torn tails, power loss, ends of the program, recovery |
| `LeafNode` | leaf part of `page.rs` | operators on a leaf's value |
| `RowMap` | what a leaf, and the tree, promise | abstract specification |
| `LeafPage` | one leaf over its life | state machine over `LeafNode`; implements `RowMap` |
| `InternalNode` | internal part of `page.rs` | operators on an internal node's value |
| `BpTree` | `bptree.rs` | composes `LeafNode` and `InternalNode` over a coarse pool; implements `RowMap` |
| `Recovery` | `recovery.rs` | composes log, pages with their LSN, a coarse pool and an engine |
| `Flusher` | `flusher.rs`, the mutex and the latches of `buffer_pool.rs` and `bptree.rs` | threads, locks, channel, join |
| `MC*` | | instances for the model checker |
| `LruReplacerProofs`, `BufferPoolProofs`, `FlusherProofs`, `WalProofs`, `RecoveryProofs`, `LeafNodeProofs`, `LeafProofs`, `BpTreeProofs` | | proofs |

Definitions commented "Faulty" are deliberate bugs. No action uses them; each is
substituted for the definition beside it to show that a property notices the bug.

### LruReplacer

The variables are the fields of the struct. Arena indices count from 1 so that 0 is
`None`. `record_access` is two actions (`AccessTracked`, `AccessNew`; the second
guard is the `assert!`), `evict_if` is two outcomes (`EvictIfFound`, `EvictIfNone`),
`Remove` and `Evict` are one each. The loop of `evict_if` is a walk along `prev`,
expressed as a function whose elements follow the links (`TailWalks`). `pinned` is
the answer the pool's predicate would give, and `Repin` lets it change arbitrarily
between calls.

`ImplementsLruOrder` maps the list, read from head to tail, to the sequence of
`LruOrder`: every call on the arena is the abstract call or a stutter and returns
the same page. `BufferPool` therefore keeps the sequence and not the list.

### BufferPool

A page is the number of its slot in the file (offset / 4096) and its content is its
`last_lsn`: that is what flushing, the log rule and checkpoints are about. `disk` is
what a read returns; `platter` is, per slot, the set of images a power loss may leave,
which a write adds to and only `save_header`'s `sync_all` collapses. `pins` counts the
references of clients to the frame in the table, `orphans` those to frames the table
has lost. `latest`, `goal`, `checkpoint` and `reissued` are history variables.

`Header` is `next_free_offset`, in the first bytes of slot 0. A new file hands out pages
from 1 on; a file that a power loss left with pages and without a header is opened with
`next_free_offset` 0, and its first new page is page 0. Of that page and the header the one
written last is there (`PageWritten`, `HeaderWritten`): a page 0 under the header decodes
to an internal node, and a header under page 0 reads as 0, since a page that was not
linked to siblings has zeros there. `new_page` looks at nothing but `next_free_offset`, so
that after a power loss it may hand out pages in use; `reissued` are those of them
since the last checkpoint.

Pool calls take `&mut self` and exclude one another, so `fetch_page`, `new_page` and
`flush_page` are one action per outcome, with the eviction inside (`RoomMade`).
`flush_all_pages` is one action per page (`FlushAllBegin`, `FlushAllPage`,
`FlushAllPageFails`, `SaveHeader`, `SaveHeaderFails`), because clients modify and
drop frames in between (`Modify`, `DropHandle`). `EvictFails` is the eviction whose
flush fails after the victim has left the replacer. `Crash` chooses an image of
every slot and reopens the file (`Reopened` is `DiskManager::open`, including the
zero header it reads when only pages were ever written).

Abstractions: a frame's latch is left to `Flusher` (a flush of one page is atomic with
respect to its writers, as the write latch makes it); a page image is whole; a
client's change and its `mark_dirty` are one step; page ids a client makes up, and a page
0 that is linked to siblings, are outside the model.

### Wal

The file is a sequence of cells: a length prefix and a body per entry, and at most the torn pieces
a failed write or a power loss leaves. `durable` is the prefix that is synced. A power loss keeps
it, any number of further cells and possibly a torn one (`Tears` says which kinds: part of a
prefix, a body cut off, zero-filled space), or brings back a file whose truncation was not synced
(`old`). `write_batch` is two actions, so that a power loss may strike between the write and the
fsync; a write or sync that fails is a third. `Stop` is the end of the program without a power
loss: the file stays, and what was not synced still is not. `MaxCrashes` bounds both together.
`ReadResults` is `read_batch`: it distinguishes the clean ends, the torn write it detects, and
bytes behind a torn entry, which are read at the wrong place. Behind a prefix that was cut off
they complete a length that is longer than a few entries: again a torn write. Behind a body that
was cut off they either fail or decode to garbage. `Recover`, `RecoverTruncate`, `RecoverSync` are
`init` with the page replay left to `Recovery`: it returns early on an empty batch and truncates
without a sync before it syncs.

LSNs never restart in this module. That `init` lets the engine's counter restart
concerns pages and log together and is in `Recovery`.

### LeafNode, LeafPage

A leaf is its records in push order and the slot array of indices into them, as in
the code; binary search is its result on a sorted array (`SlotsOf`, `PlaceOf`), and
that the array is sorted is checked, not assumed. `Compact`, `Split`, `InsertNew`
with the code's own byte count (one slot more than needed), `Revive` with none at
all, and `Encode`/`Decode` with the permutation of the slot array follow the source
line by line. Sizes are scaled down through the constants. `Reload` is an eviction
and a fetch. A panic of `compact` leaves the node modified and the latch released,
as parking_lot locks do, and later calls see that node.

### InternalNode, BpTree

A page of the tree is a leaf with its two links and its mark: in a frame (`cache`), in the
file (`disk`), or both. `insert_leaf` is one action per way it can end, each with
everything it changed until then: `FetchFails`, `InsertInPlace` (also a duplicate, a
payload that is too large, and the panic of `compact`), `NewPageFails`, `SplitFails` (the
split itself, or the insert after it), `SiblingFails` (the old right sibling cannot be
fetched, after both halves were linked and before either is marked), `InsertSplitting`.
The pool takes `&mut self`, so that nothing comes between the steps of one insert except
evictions the insert itself causes; those are evictions of other pages and are the action
`Evict` before or after. `Evict` may strike any page between calls: it writes a marked
page that fits and forgets the others. A fetch or an allocation may fail at will
(`PoolFails`).

The code returns the promoted key and leaves it to the caller to install it in the
parent; no code does. `Install` is that caller, external: it puts the entry where
`route_key` needs it, before the next call (`Called`). `pending` is the split between
`insert_leaf`'s return and that moment. The root may be written and read again in
between (`ReloadRoot`: `decode` after `encode`), if it fits a page (`MaxEntries`). The root
is one level deep.

`Tidy` renumbers a leaf's records in the order of their slots after every step. No
operation looks at the record indices except through the slots, and `LeafPage` checks
that part with the indices the code uses. `torn` records that an `insert_leaf` failed
after it had changed a page; the properties promise nothing from then on, and the run
`tree_clean` shows why they cannot.

### Recovery

A page is one row and its `last_lsn`; the row distinguishes a deleted row from one that
never was, as `insert`, `update` and `delete` do (`Applied`). `platter` is, per page, the
set of images a power loss may leave. The entries are those of the log, whole;
`untruncated` is what an unsynced truncation may bring back. `torn` says that a power loss
in the middle of an append left part of an entry behind them: `read_batch` returns an
error, `init` passes it on (`recovery.rs:28`), and the program that is started again
meets the same log (`StartFails`, `Restart`). `replay` is one action per
entry, so that writes of pages, errors and power losses come between; `flush_all_pages`
writes the pages one by one (`WriteBack`), then syncs (`FlushEnds`); `Truncate` and
`SyncLog` follow in `init` and in a checkpoint. An error of `apply_entry` ends in
`misapplied`, which is for good: the next start would meet the same log and the same
pages. `StepFails` is every other error. A `write_batch` that fails is left to `Wal`.

The engine is not in the repository, and what its callers' comments ask of it is assumed:
it logs a change with sync on before it makes it, holding the page's latch over both; it
logs only what the leaf will accept; it gives every entry an LSN of its own; it truncates
only after `flush_all_pages` succeeded, with no change under way. With `KeepsCounter` it
also never hands out an LSN twice; without, it starts from what `init` returns.

### Flusher

Threads are the clients, the background thread and its owner. The mutex of the pool and
the latch of each frame are variables; a thread first asks for a latch (`wants`, `victim`)
or the mutex ("asking") and takes it in a later step, so that waiting is a state. Clients
do what `insert_leaf` does: inside the mutex they fetch pages one after the other, keep
the latches they have while they fetch, evict and latch further ones, and release
everything when they return. An eviction takes the latch of its victim (`flush_page`),
which is why `evict_if` must pass over frames somebody holds. A client may keep one frame
beyond the call and latch it without the mutex, which is how changes happen during a
flush. The thread: timeout or signal, mutex, the list of the pages, one latch and write
per page, the header with its sync, round again or the last time. `unwritten` and
`unsynced` follow the changes made before `shutdown`.

What is required of clients, and not enforced by the types: nobody asks for the mutex
with a latch in hand, nobody latches two frames outside of it, and the owner calls
`shutdown`, or drops the flusher, with neither. Latches are exclusive here; a read latch
only ever waits or is waited for less. The order of the page list is left open.

## 3. Runs

| run | instance | shows |
|---|---|---|
| `lru` | 4 interchangeable pages, capacity 3 | `TypeOK`, `SlotsPartitioned`, `LiveLinked`, `ArenaBounded`, `ImplementsLruOrder` |
| `pool` | 2 frames, pages 1 to 3, 2 LSNs, one reference per page, I/O errors | `TypeOK`, `ReplacerAgrees`, `PoolBounded`, `OneFramePerPage`, `NoLostUpdate`, `FreeSpaceIsFree`, `OnlyFailedWriteBackStrands` |
| `pool_crash` | 2 frames, pages 0 to 2, 2 LSNs, I/O errors, a power loss | `WalRule`, `CheckpointSurvives` |
| `wal` | 5 LSNs, batches of up to 2, 2 power losses or ends of the program, failing writes and syncs | `TypeOK`, `FlushedLsnIsDurable`, `AckedRecovered`, `RecoveredInOrder`, `EntryCountTracksLog` |
| `leaf` | 3 row ids, payloads of 1, 2, 4 (the maximum) and 5 units, page of 20 | `TypeOK`, `SlotsInOrder`, `SplitKeepsRows`, `SplitMakesRoom`, `ImplementsRowMap`, `OnlyGrowthOverfills` |
| `tree` | 4 row ids of one size, leaves of two, 3 pages, failing fetches and allocations | `TypeOK`, `ChainInOrder`, `FindAgreesWithScan`, `ImplementsRowMap` |
| `recovery` | 2 pages, 3 LSNs, 2 power losses, also within an append, one failing call, the counter kept | `TypeOK`, `AlwaysRecoverable`, `RowsRecovered`, `ReplayNeverMisapplies`, `StartEnds` |
| `flusher` | 2 clients, 3 pages, 2 frames | `TypeOK`, `NoCircularWait`, `DurableAtReturn` |
| `flusher_live` | 2 clients, 2 pages, 1 frame | `ShutdownReturns`, `FlusherCatchesUp` |

Why the bounds are enough. A list of three nodes has a head, a tail and an inner
node, a fourth page forces reuse and refusal. Two frames over three pages make every
fetch a possible eviction while another page is pinned; two LSNs give a page two
versions, or two pages one each. With a power loss two pages and page 0 suffice: a lost
header makes `new_page` hand out page 0 and then a used offset, which evicts, and a
checkpoint can fail between its two pages. Two power losses let the second strike during or
after the recovery from the first. Batches of two can be cut in the middle, and five
LSNs leave a batch before, during and after a checkpoint. A page of 20 units holds
two records of size 4 or 2, or three of size 1, so full pages, splits,
tombstones and overfilling by update or revival all occur.

Four rows in leaves of two make two splits, of which the second splits the left leaf, with an old
right sibling to relink and an entry to install before another one, or the right leaf. In `tree`
the last call and whether a page equal to its image is cached are left out of the state that is
compared (`MCView`): what follows does not depend on either. `MCBound` stops at a torn tree, at a
second tombstone and at a third page out of date. In pages that fit, rows of one size never fail
after a split (`SplitMakesRoom`), which is why `tree_clean` has two sizes. Three LSNs over two
pages let a page be ahead of the other and of the log's beginning, and give one page an insert, a
delete and an insert; two power losses let one strike the recovery from the other. Two clients are
enough for a circle of two, with the thread and the owner for one of four; three pages over two
frames give a client a latch in hand while it evicts, which one frame would not. For liveness one
frame is the harder case, and it keeps the graph small: without symmetry, which liveness checking
does not allow.

Fairness. `Recovery` assumes weak fairness of the steps of a call that has begun and of a start
after the program ended; since power losses and failures are bounded, a start comes to an end.
`StartEnds` excludes torn logs: on those every start fails, as `read_batch` is documented to
(`wal.rs:262`). `Flusher` assumes weak fairness of what a thread does without waiting for a lock
(a client that holds a latch or the mutex goes on and releases it; the operating system schedules
threads) and strong fairness of taking a lock: the locks are parking_lot's, whose fairness is
eventual. `recv_timeout` returns after its 100 ms or on the signal. Nothing makes a client call,
an engine flush, or an owner shut down.

`AckedRecovered`, `RecoveredInOrder` and `EntryCountTracksLog` are conditional on
`~ spoiled`: after a `write_batch` or a `truncate` that returned an error, bytes and
counters may disagree until the next synced truncation, and entries logged behind
such bytes may be lost. The code does nothing about it; the condition says so.

`Wal` stops where `init` returns an error (the program ends) and at its bounds, so its
configurations switch deadlock checking off; everywhere else deadlock is checked, and in
`flusher` it is part of the question.

Three further runs state what a comment or a document says and the code does not do;
the checker finds the counterexample (`PROJECT.json`, findings):

| run | says | what happens |
|---|---|---|
| `wal_tail` | an empty log means a clean shutdown (`recovery.rs:30`) | a log that begins with zeros is not truncated, and what is appended behind it is lost by a recovery that succeeds |
| `recovery_restart` | `init` returns the highest observed LSN for the engine's counter (`recovery.rs:21`) | after a clean start it returns 0, below the LSNs of the pages; the next changes are logged under LSNs the pages are past, and the replay after a power loss skips them |
| `tree_clean` | a frame that is not dirty is as loaded from disk (`page.rs:358`) | the insert after a split returns `PageFull` when rows differ in size; the upper half of the leaf is in a new frame nobody knows, neither page is marked, and an eviction loses the rows |

The invariant that `recovery_restart` violates holds, in `recovery`, once the engine
keeps its counter elsewhere, for example in the `next_lsn` of the file's header, which
nothing uses.

## 4. Proofs

TLAPS checks the following for every value of the constants, under the named assumptions of the
modules (`ReplacerAssumption`, `PoolAssumption`, `FlusherAssumption`, `WalAssumption`,
`RecoveryAssumption`, `FrameAssumption`, `LeafAssumption`, `TreeAssumption`, `InternalAssumption`,
`NoNodeAssumption`): sets are finite, bounds and sizes are natural numbers, the "none" values are
not among the values. Some theorems have a hypothesis of their own, named in the table. No bound
of a run is used.

| theorem | property | argument |
|---|---|---|
| `LruReplacerProofs!TypeCorrect`, `SlotsNeverLeak`, `ListStaysLinked`, `ArenaStaysBounded` | `TypeOK`, `SlotsPartitioned`, `LiveLinked`, `ArenaBounded` | one inductive invariant |
| `LruReplacerProofs!ReplacerImplementsOrder` | `ImplementsLruOrder` | refinement, from it and the run of the list |
| `BufferPoolProofs!TypeCorrect`, `ReplacerAgreesWithTable`, `PoolStaysBounded` | `TypeOK`, `ReplacerAgrees`, `PoolBounded` | one inductive invariant |
| `BufferPoolProofs!WriteAhead` | `WalRule` | inductive relative to the pool's invariant |
| `BufferPoolProofs!CheckpointHolds` | `CheckpointSurvives` | strengthened by four invariants |
| `BufferPoolProofs!OneFrameUntilPowerLoss`, `UpdatesHoldUntilPowerLoss`, `NewPagesAreNewUntilPowerLoss` | `OneFramePerPage`, `NoLostUpdate`, `FreeSpaceIsFree` | inductive together, while `crashes = 0` |
| `BufferPoolProofs!StrandedByOwnFailure` | `OnlyFailedWriteBackStrands` | step by step, from the pool's invariant |
| `FlusherProofs!TypeCorrect`, `NoDeadlock` | `TypeOK`, `NoCircularWait` | one inductive invariant of locks and waits |
| `FlusherProofs!ShutdownIsDurable` | `DurableAtReturn` | inductive relative to it |
| `WalProofs!TypeCorrect` | `TypeOK` | inductive, with bounds on files and counters |
| `WalProofs!FlushedIsDurable` | `FlushedLsnIsDurable` | inductive, if `Sync` |
| `WalProofs!AcknowledgedIsRecovered`, `ReplayIsInOrder`, `CountTracksLog` | `AckedRecovered`, `RecoveredInOrder`, `EntryCountTracksLog` | one inductive invariant, if power losses tear bodies only |
| `RecoveryProofs!TypeCorrect` | `TypeOK` | inductive |
| `RecoveryProofs!RecoverableAtAnyMoment`, `RunsOnRecoveredRows`, `ReplayIsAccepted` | `AlwaysRecoverable`, `RowsRecovered`, `ReplayNeverMisapplies` | one inductive invariant, if the counter is kept |
| `LeafProofs!TypeCorrect`, `SlotsStayInOrder` | `TypeOK`, `SlotsInOrder` | one inductive invariant |
| `LeafProofs!LeafIsARowMap` | `ImplementsRowMap` | refinement, from it |
| `LeafProofs!SplitNeverLosesRows`, `OnlyGrowthDoes` | `SplitKeepsRows`, `OnlyGrowthOverfills` | from it |
| `LeafProofs!SplitLeavesRoom` | `SplitMakesRoom` | from it, if `RoomForThree` |
| `BpTreeProofs!TreeTypeCorrect` | `TypeOK` | inductive, whatever fails |
| `BpTreeProofs!LeavesStayInOrder`, `FindSeesTheScan` | `ChainInOrder`, `FindAgreesWithScan` | one inductive invariant |
| `BpTreeProofs!TreeIsARowMap` | `ImplementsRowMap` | refinement, from it |

*Replacer.* None of the four properties is inductive alone: the links are only
meaningful over live slots, and the arena is bounded because a slot is live or free
and live slots are as many as tracked pages. Their conjunction, with the size of the
page map, is inductive. The work is in two lemmas about lists as values,
`UnlinkProperties` and `InsertHeadProperties`: what `Linked(l, L)` becomes when a
slot leaves or joins `L`. `remove`, `evict` and `evict_if` share `ReleaseIInv`; that
the slot `evict_if` stops at is live follows from the links (`WalkIsLive`).

That invariant alone does not exclude a circle of live slots beside the list from head to
tail. The refinement adds `OrderInv`: there is a sequence of the live slots, each once,
whose neighbours are those of the links (`Runs`). `UnlinkRuns` and `InsertHeadRuns` say how
the two list operations change it, `WalkPlaces` that a walk along `prev` meets it backwards,
and `RunsAreReadOff` that `Recency` is the pages it holds. Each call is then the abstract one
(`ReleaseOrder`, `AccessTrackedOrder`, `AccessNewOrder`), and the slot at which `evict` or
`evict_if` stops holds the abstract victim (`EvictOrder`, `EvictIfFoundOrder`).

*Pool.* `PoolInv` splits the state into file, table, clients and flush, so that a
step is proved part by part. `HandlesCached` (a referenced frame is in the table) is
what lets `Modify` write through a cached frame; it holds since an eviction passes
over referenced pages, and a new page replaces a frame only under a new reference.
The lemmas at its head are the facts about recency sequences the pool needs; the replacer's
proofs have the same ones, and two more.

*Checkpoints.* `CheckpointSurvives` needs: no LSN is ahead of the last one assigned
(`LsnsAssigned`); a clean frame equals the image a read returns (`CleanOnDisk`); a dirty frame is
at least as new as every image of its page (`DirtyIsNewer`); and during a flush the pages already
passed have reached the goal (`FlushReachesGoal`). Then the sync in `save_header` leaves one image
per slot, none below the goal, and every later write is newer (`CheckpointKept`). Page 0 is left
out, for `save_header` writes over it. A page handed out again is written under later LSNs too,
but they are those of another page, and the update the checkpoint covered may be gone: the
property, which is about updates, claims nothing of such a page (`reissued`). This holds for any
pool size, any failures and any number of power losses, with clients writing during the flush.

*Updates.* The three properties need one another: a page handed out as new has no frame that could
be orphaned and no update that could be lost only if its slot was never used, and page 0 by nobody
(`HeaderSlotFree`). A step is summed up by what it does to one page (`Unmoved`, `WrittenBack`,
`ReadIn`, `Allocated`, `WrittenTo`), and the invariant is proved from these five. The condition
`crashes = 0` is in the statement because the properties are false without it: `next_free_offset`
is stored only by `save_header`, and a power loss may bring back one below pages in use, or none.
Run `pool` checks them without power losses for the same reason.

*Flusher.* `LockInv` says of each lock who may hold it and of each thread what it may
wait for: who holds the mutex is inside the pool (`PoolLock`); a latch belongs to the
holder of the mutex or to a client outside, which has no other (`FrameLatches`); nobody
waits for the mutex with a latch in hand (`Waits`); the victim of an eviction has no other
holder (`Victims`). In a circle either somebody has a latch outside the pool, and then it waits
for nothing; or all the latches belong to the holder of the mutex, which then waits for
nobody in the circle if it is in it, and is waited for by nobody in it if it is not (`NoCircle`).
`ShutdownInv` follows the last flush: its list
covers every change made before the signal.

*Log.* `TypeInv` bounds every file that may survive by the last LSN. `DurableInv`, for
`FlushedIsDurable`, says that, from the start of the engine on, nothing behind `durable` has an
LSN which `flushed_lsn` covers. It holds again once `init` has truncated the log, and not before:
`read_batch` counts unsynced entries too; with `sync` off it is false (section 5), which is the
hypothesis. For the rest, an unspoiled file is described without recursion: its i-th cell belongs
to the entry `n + (i + 1) \div 2` (`Logged`). Then a power loss leaves such a file
(`TornEntries`), a batch continues it (`Appended`), `read_batch` returns all of its entries or an
error (`ReadEntries`), and `LogInv` adds that nothing acknowledged is missing from it
(`LogIsWhole`), that recovery has found what is in it (`FoundIsLog`) and that what is acknowledged
is durable (`AckedIsDurable`). The hypothesis `Tears \subseteq {"cut"}` is how run `wal` is
instantiated; `wal_tail` shows that `AckedRecovered` fails for zeros, and behind a cut prefix a
second batch makes the log unreadable (section 5).

*Recovery.* `AlwaysRecoverable` says that a redo of the log over any image that may
survive yields the current row. `Redone` is a recursive function of the log; instead of
induction, the proof speaks of runs: `Run(f, l, p, image)` says that `f` lists the image
before each entry, `Succeeds` that no entry was refused, and `Recovers` that a run ends in
the row. `RedoneOfRun` connects them with `Redone`, by the least entry at which two runs
differ (`Least`, from well-foundedness of the naturals). `RecoversMore` (the log grows),
`RecoversCovered` (an image past the log) and `RecoversOnward` (one entry replayed) are
the facts the steps use. `RecoveryInv` joins: every image a power loss may leave
recovers, from the log and from what an unsynced truncation may bring back (`LogRecovers`,
`TruncatedIsCurrent`); no LSN on a page is ahead of the counter (`LsnsBelow`); a change
under way is the last of the log (`PendingIsLast`); the frames are current, or as
far as replay has come (`PoolIsCurrent`, `ReplayIsAt`). A torn entry behind the log changes none
of this, it only keeps `init` from going on (`RefusalKeeps`). The hypothesis `KeepsCounter`
is how run `recovery` is instantiated; without it the property is false
(`recovery_restart`).

*Leaf.* `LeafNodeProofs` is about the operators of `LeafNode`, `LeafProofs` about one leaf over
its life. The inductive invariant is `WellFormed(node)`: slots in the order of the keys, and one
for every record. The proof of each operation says what it makes of `Live`, the set of records
that are reached and not deleted; `GetRow` reads a row off that set, so the refinement needs no
more than `Live` (`RowPut`, `RowTaken`). The loops of the code - what `compact` keeps, what the
records add up to - are recursive functions, taken one iteration at a time (`LiveSlotsLoop`,
`KeepOne`, `FooterSum`). `PlaceProperties` is the binary search, `CompactProperties` says that
compaction keeps `Live` and takes no more bytes than before (`UsedLess`), `LowerHalf` and
`UpperHalf` say what a split gives to each side. `Encode` and `Decode` permute the records to the
order of the slots (`ReloadProperties`).

`SplitMakesRoom` is a matter of arithmetic: records of `c` bytes with their slots take `N * c` on
a full page (`UniformUsed`), and the half with `m` of them must take one more, and the slot that
`insert_record` counts twice. From `m = 3` on that is less than the whole was, which fitted;
smaller halves need `RoomForThree`, that a page takes three of the largest records and a slot
(`HalfHasRoom`). The sizes of `page.rs` leave room for nine (415 bytes each of 4096). The
hypothesis is needed: with three records filling a page, the half with two of them refuses the
third when the slot does not fit. Run `leaf` does not meet it, and with its three row ids it never
splits more than two records for a new one. The property speaks of pages that fit: of one that
updates have overfilled, a half may be exactly full.

*Tree.* `TreeShape` is what holds whatever fails: every page in a frame or in the file is a
well-formed leaf in the order of its slots, and the root's slot array points at each entry
once. It gives `TypeOK`. `Intact` is what holds until an `insert_leaf` fails half way
(`torn`). It speaks of `Whole`, the root with the pending split in it, so that the
state between `insert_leaf`'s return and the caller's `Install` is no special case:

- `Links`: the children of `Whole`, each once, are exactly the allocated pages; each is linked
  to its neighbours in that order, and the first is the first leaf;
- `Routed`: every key of a leaf, tombstones included, is routed by `Whole` to that leaf;
- the children of the root differ, and the promoted key is still routed to the left half;
- `CleanOnDisk`: a frame that is not marked holds what the file does, or else an eviction would
  lose it.

`ChainInOrder` is not inductive without `Routed`: that keys of neighbours are in order follows
from the routing key between them. Nor is the refinement without `Links`: the old
right sibling would be relinked as a page nobody knows.

`InstallProperties` says what an entry does to the places of keys and children (`Widened`),
`RouteInstalled` that the keys from the promoted one on, of those routed to the left half, go to
the right one and no others move. `Parted` is what a split and the insert after it make of a
leaf's keys and rows; with it `LinksWidened` and `RoutedWidened` carry the invariant over
a split, the only step that changes three pages. Steps that change one page share `InPlace`;
`RowsChange` turns the change of a leaf into that of the map. `Install`, `ReloadRoot` and `Evict`
change no row (`RowsUnmoved`): `decode` after `encode` gives the root back (`ReloadedRoot`), and a
page that is evicted is in the file as it was in its frame. The scan of `ChainInOrder`
is a recursive function; `ChainWalked` and `PathFurther` show that it visits the children of
`Whole` from left to right. The condition `~ torn` stays in the statements: run `tree_clean`
shows that a failure half way loses rows.

Left to the model checker: `StartEnds`, `ShutdownReturns` and `FlusherCatchesUp`; liveness
under fairness is out of the prover's reach.

## 5. Observed in the code, without a run of its own

- `peek_rev(limit)` yields `limit + 1` pages (`lru.rs:159`; its comment says up to `limit`).
- `update_record` refuses a payload of exactly `MAX_VALUE_SIZE` bytes (`page.rs:283`),
  `insert_record` accepts it.
- `update_record` and `delete_record` answer `Ok` for a row that is already deleted
  (`page.rs:282-307`); `RowMap` allows that and demands that the row stays away.
- `update_record` does not look at the room left; the page can then be encoded no more
  (`OnlyGrowthOverfills` says this is one of two ways).
- A torn length prefix reads as the end of the log (`wal.rs:277`), although the comment
  of `read_batch` promises an error for a torn write. If nothing intact precedes it, `init`
  leaves it in the file; the entries appended behind it complete it to a length longer than
  what follows, and the next start fails.
- A torn last entry makes `init` fail, on this start and on every later one, although
  intact acknowledged entries precede it (`recovery.rs:28`). `StartFails` of `Recovery` is
  this start; `read_batch` documents the error (`wal.rs:262`) and a test has it, so no run does.
- An old sibling whose page was lost may read as zeros, that is as an internal node;
  `insert_leaf` then passes over the relinking without an error (`bptree.rs:113`).
- `free_size` is kept in a leaf but no decision reads it.
- A write-back that fails in `evict_page` leaves the frame cached and out of the replacer
  (`buffer_pool.rs:135`) until a later fetch of that page tracks it again
  (`buffer_pool.rs:54`); after as many failures as frames every call that needs room
  returns `LruEviction`. `OnlyFailedWriteBackStrands` says that there is no other way.
- A page from `new_page` that nobody modified is dropped unwritten by an eviction, and
  the next `fetch_page` of it fails, or reads zeros (`buffer_pool.rs:82`). The caller
  must mark it before it gives up the frame.
- `next_free_offset` is stored only by `save_header`; after a power loss `new_page` hands
  out pages that are in use (`page.rs:717`). `insert_leaf`
  could then be given the id of the right sibling, and latch one frame twice.
- If a page was written before the first `save_header` and a power loss leaves the file
  without a header, it is opened with `next_free_offset` 0 (`page.rs:686-697`), and the next
  `new_page` returns page 0. A `flush_all_pages` that writes it overwrites its first bytes
  with the header (`page.rs:729`) and succeeds, although `truncate` may follow that
  (`wal.rs:245-247`). `NewPage` and `HeaderWritten` do this; `CheckpointSurvives` is false of
  page 0 and leaves it out.
- With `sync` off, `flushed_lsn` covers entries that were never synced (`wal.rs:237`), though its
  comment promises durability (`wal.rs:181`), and `flush_upto` relies on it. With `sync` on,
  `read_batch` does the same to entries that a program killed before its fsync left behind
  (`wal.rs:307`, `Stop`); `init` truncates the log before anybody relies on it.
- A batch is replayed in part when a power loss cut its write short; `NOTES.md:27-29`
  promises all or nothing.
- Reviving a tombstone with a larger payload can overfill the page and reach the
  `unreachable!()` of `compact` (`page.rs:190`, `page.rs:240`).
- A split whose upper half holds tombstones only fails with `CorruptPage` after it
  truncated the left leaf (`bptree.rs:85`); only tombstones are gone, but the new page is
  allocated for nothing.
- A page that can no longer be encoded ends every `flush_all_pages` at its place in the
  table (`buffer_pool.rs:113`): pages behind it wait, and the header is not written.
- A split is not logged. After a power loss between the writes of its three pages nothing
  restores the tree, and entries are replayed into the page they name.
- `Drop` of the flusher is `shutdown`, so a thread that holds the pool's lock, or a latch,
  must not drop it.

## 6. Not modelled

Pages torn inside their 4 KiB; the byte layout of pages and log entries (`ByteCursor`,
`WalEntry::encode`/`decode`); u16 slot indices (a page holds far fewer records);
`last_row_id`, `page_root_offset` and `next_lsn` of the header, which no code uses;
trees of more than one internal level (no code splits an internal node or makes a root);
power losses of the tree (splits are not logged, so nothing could be promised); an
engine, beyond what the comments ask of it; `peek_rev`, which has no caller.

## 7. Plan

Done: every component that keeps state; the proofs above.

1. Model: an abstract specification for `Recovery` (the rows as of the last logged
   change, a crash as a stutter), if it says more than `AlwaysRecoverable` does.
