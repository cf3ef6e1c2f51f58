---------------------------- MODULE FlusherProofs ---------------------------
(***************************************************************************)
(* Proofs about Flusher: who may hold which lock, that no threads wait for *)
(* one another in a circle, and that shutdown returns to a synced file.    *)
(***************************************************************************)
EXTENDS Flusher, TLAPS

(* The lock of the pool: a thread between its lock and its unlock, no      *)
(* other, is the holder; the list of flush_all_pages lives in between.     *)
PoolLock ==
  /\ \A c \in Clients : client[c] = "inside" <=> mutex = c
  /\ flusher = "flushing" <=> mutex = Background
  /\ flusher # "flushing" => todo = {}

(* The latches: held on frames the holder has an Arc of, at most one by a  *)
(* client outside the pool, none by one that asks for the pool.            *)
FrameLatches ==
  /\ \A p \in Pages : latch[p] # None =>
       /\ p \in refs[latch[p]]
       /\ client[latch[p]] # "asking"
  /\ \A p, q \in Pages :
       latch[p] = latch[q] /\ latch[p] # None /\ client[latch[p]] = "outside" => p = q

(* What a thread waits for: a latch it does not hold, on a frame it has an *)
(* Arc of; outside the pool it then holds none.                            *)
Waits ==
  /\ \A c \in Clients : wants[c] # None =>
       /\ client[c] # "asking"
       /\ wants[c] \in refs[c]
       /\ latch[wants[c]] # c
       /\ client[c] = "outside" => \A p \in Pages : latch[p] # c
  /\ wants[Background] # None => flusher = "flushing" /\ wants[Background] \in todo

(* The victim of evict_page stays unreferenced while its flush waits: only *)
(* the holder of the pool could hand out an Arc of it.                     *)
Victims ==
  \A c \in Clients : victim[c] # None =>
     /\ client[c] = "inside"
     /\ wants[c] = None
     /\ \A d \in Clients : victim[c] \notin refs[d]

LockInv == TypeOK /\ PoolLock /\ FrameLatches /\ Waits /\ Victims

(* The shutdown: the channel says what the owner did, and the last flush   *)
(* starts from a list that covers every change made before the signal.     *)
ShutdownInv ==
  /\ channel = "open" <=> owner = "running"
  /\ leaving => channel = "signalled" /\ flusher # "waiting"
  /\ flusher = "stopped" => leaving
  /\ owner = "returned" => flusher = "stopped"
  /\ leaving /\ flusher = "flushing" => unwritten \subseteq todo
  /\ flusher = "stopped" /\ ~ failed => unwritten = {} /\ unsynced = {}

-----------------------------------------------------------------------------
(* Calls into the pool, evictions under its lock, and the latches granted. *)
LEMMA ClientPoolStep ==
  ASSUME LockInv, NEW c \in Clients,
         \/ AskForPool(c)
         \/ TakePool(c)
         \/ LeavePool(c)
         \/ Evict(c)
         \/ EvictFails(c)
         \/ TakeLatch(c)
  PROVE  LockInv'
<1>1. CASE AskForPool(c)
  <2>1. TypeOK'
    BY <1>1 DEF LockInv, TypeOK, AskForPool, lockVars, poolVars, threadVars,
      ownerVars, histVars
  <2>2. PoolLock'
    BY <1>1 DEF LockInv, PoolLock, AskForPool, lockVars, threadVars
  <2>3. FrameLatches'
    BY <1>1 DEF LockInv, FrameLatches, AskForPool, lockVars, Latched
  <2>4. Waits'
    BY <1>1 DEF LockInv, Waits, AskForPool, lockVars, threadVars, Busy
  <2>5. Victims'
    BY <1>1 DEF LockInv, Victims, AskForPool, lockVars, poolVars
  <2>6. QED BY <2>1, <2>2, <2>3, <2>4, <2>5 DEF LockInv
<1>2. CASE TakePool(c)
  <2>1. TypeOK'
    BY <1>2 DEF LockInv, TypeOK, TakePool, poolVars, threadVars, ownerVars,
      histVars
  <2>2. PoolLock'
    BY <1>2, FlusherAssumption DEF LockInv, TypeOK, PoolLock, TakePool,
      threadVars
  <2>3. FrameLatches'
    BY <1>2 DEF LockInv, FrameLatches, TakePool
  <2>4. Waits'
    BY <1>2 DEF LockInv, Waits, TakePool, threadVars
  <2>5. Victims'
    BY <1>2 DEF LockInv, Victims, TakePool, poolVars
  <2>6. QED BY <2>1, <2>2, <2>3, <2>4, <2>5 DEF LockInv
<1>3. CASE LeavePool(c)
  <2>1. TypeOK'
    BY <1>3 DEF LockInv, TypeOK, LeavePool, threadVars, ownerVars, histVars,
      Return
  <2>2. PoolLock'
    BY <1>3, FlusherAssumption DEF LockInv, TypeOK, PoolLock, LeavePool,
      threadVars, Return
  <2>3. FrameLatches'
    BY <1>3 DEF LockInv, FrameLatches, LeavePool, Return
  <2>4. Waits'
    BY <1>3, FlusherAssumption DEF LockInv, TypeOK, Waits, LeavePool,
      threadVars, Return, Busy
  <2>5. Victims'
    BY <1>3 DEF LockInv, Victims, LeavePool, Return, Busy
  <2>6. QED BY <2>1, <2>2, <2>3, <2>4, <2>5 DEF LockInv
<1>4. CASE Evict(c)
  <2>1. TypeOK'
    BY <1>4, FlusherAssumption DEF LockInv, TypeOK, PoolLock, Victims, Evict,
      lockVars, clientVars, threadVars, ownerVars, Written
  <2>2. PoolLock'
    BY <1>4 DEF LockInv, PoolLock, Evict, lockVars, clientVars, threadVars
  <2>3. FrameLatches'
    BY <1>4 DEF LockInv, FrameLatches, Evict, lockVars, clientVars
  <2>4. Waits'
    BY <1>4 DEF LockInv, Waits, Evict, lockVars, clientVars, threadVars
  <2>5. Victims'
    BY <1>4 DEF LockInv, Victims, Evict, lockVars, clientVars
  <2>6. QED BY <2>1, <2>2, <2>3, <2>4, <2>5 DEF LockInv
<1>5. CASE EvictFails(c)
  <2>1. TypeOK'
    BY <1>5 DEF LockInv, TypeOK, EvictFails, threadVars, ownerVars, histVars,
      Return
  <2>2. PoolLock'
    BY <1>5, FlusherAssumption DEF LockInv, TypeOK, PoolLock, Victims,
      EvictFails, threadVars, Return
  <2>3. FrameLatches'
    BY <1>5 DEF LockInv, FrameLatches, EvictFails, Return
  <2>4. Waits'
    BY <1>5, FlusherAssumption DEF LockInv, TypeOK, Waits, Victims,
      EvictFails, threadVars, Return
  <2>5. Victims'
    BY <1>5 DEF LockInv, TypeOK, Victims, EvictFails, Return
  <2>6. QED BY <2>1, <2>2, <2>3, <2>4, <2>5 DEF LockInv
<1>6. CASE TakeLatch(c)
  <2>1. TypeOK'
    BY <1>6 DEF LockInv, TypeOK, TakeLatch, poolVars, clientVars, threadVars,
      ownerVars, histVars
  <2>2. PoolLock'
    BY <1>6 DEF LockInv, PoolLock, TakeLatch, clientVars, threadVars
  <2>3. FrameLatches'
    BY <1>6 DEF LockInv, FrameLatches, Waits, TakeLatch, clientVars
  <2>4. Waits'
    BY <1>6 DEF LockInv, TypeOK, Waits, TakeLatch, clientVars, threadVars
  <2>5. Victims'
    BY <1>6 DEF LockInv, Victims, TakeLatch, poolVars, clientVars
  <2>6. QED BY <2>1, <2>2, <2>3, <2>4, <2>5 DEF LockInv
<1>7. QED BY <1>1, <1>2, <1>3, <1>4, <1>5, <1>6

(* What a client does to frames, inside the pool and outside.              *)
LEMMA ClientFrameStep ==
  ASSUME LockInv, NEW c \in Clients, NEW p \in Pages,
         \/ Fetch(c, p)
         \/ BeginEvict(c, p)
         \/ AskForLatch(c, p)
         \/ Modify(c, p)
         \/ Unlatch(c, p)
         \/ DropFrame(c, p)
  PROVE  LockInv'
<1>1. CASE Fetch(c, p)
  <2>1. TypeOK'
    BY <1>1 DEF LockInv, TypeOK, Fetch, lockVars, threadVars, ownerVars,
      histVars
  <2>2. PoolLock'
    BY <1>1 DEF LockInv, PoolLock, Fetch, lockVars, threadVars
  <2>3. FrameLatches'
    BY <1>1 DEF LockInv, FrameLatches, Fetch, lockVars
  <2>4. Waits'
    BY <1>1 DEF LockInv, Waits, Fetch, lockVars, threadVars
  <2>5. Victims'
    BY <1>1 DEF LockInv, PoolLock, Victims, Fetch, Busy
  <2>6. QED BY <2>1, <2>2, <2>3, <2>4, <2>5 DEF LockInv
<1>2. CASE BeginEvict(c, p)
  <2>1. TypeOK'
    BY <1>2 DEF LockInv, TypeOK, BeginEvict, lockVars, clientVars, threadVars,
      ownerVars, histVars
  <2>2. PoolLock'
    BY <1>2 DEF LockInv, PoolLock, BeginEvict, lockVars, clientVars,
      threadVars
  <2>3. FrameLatches'
    BY <1>2 DEF LockInv, FrameLatches, BeginEvict, lockVars, clientVars
  <2>4. Waits'
    BY <1>2 DEF LockInv, Waits, BeginEvict, lockVars, clientVars, threadVars
  <2>5. Victims'
    BY <1>2 DEF LockInv, Victims, BeginEvict, lockVars, clientVars,
      Unreferenced, Busy
  <2>6. QED BY <2>1, <2>2, <2>3, <2>4, <2>5 DEF LockInv
<1>3. CASE AskForLatch(c, p)
  <2>1. TypeOK'
    BY <1>3 DEF LockInv, TypeOK, AskForLatch, poolVars, clientVars,
      threadVars, ownerVars, histVars
  <2>2. PoolLock'
    BY <1>3 DEF LockInv, PoolLock, AskForLatch, clientVars, threadVars
  <2>3. FrameLatches'
    BY <1>3 DEF LockInv, FrameLatches, AskForLatch, clientVars
  <2>4. Waits'
    BY <1>3, FlusherAssumption DEF LockInv, Waits, AskForLatch, clientVars,
      threadVars, Latched
  <2>5. Victims'
    BY <1>3 DEF LockInv, Victims, AskForLatch, poolVars, clientVars, Busy
  <2>6. QED BY <2>1, <2>2, <2>3, <2>4, <2>5 DEF LockInv
<1>4. CASE Modify(c, p)
  <2>1. TypeOK'
    BY <1>4, FlusherAssumption DEF LockInv, TypeOK, FrameLatches, Modify,
      lockVars, clientVars, threadVars, ownerVars
  <2>2. PoolLock'
    BY <1>4 DEF LockInv, PoolLock, Modify, lockVars, clientVars, threadVars
  <2>3. FrameLatches'
    BY <1>4 DEF LockInv, FrameLatches, Modify, lockVars, clientVars
  <2>4. Waits'
    BY <1>4 DEF LockInv, Waits, Modify, lockVars, clientVars, threadVars
  <2>5. Victims'
    BY <1>4 DEF LockInv, Victims, Modify, lockVars, clientVars
  <2>6. QED BY <2>1, <2>2, <2>3, <2>4, <2>5 DEF LockInv
<1>5. CASE Unlatch(c, p)
  <2>1. TypeOK'
    BY <1>5 DEF LockInv, TypeOK, Unlatch, poolVars, clientVars, threadVars,
      ownerVars, histVars
  <2>2. PoolLock'
    BY <1>5 DEF LockInv, PoolLock, Unlatch, clientVars, threadVars
  <2>3. FrameLatches'
    BY <1>5 DEF LockInv, FrameLatches, Unlatch, clientVars
  <2>4. Waits'
    BY <1>5, FlusherAssumption DEF LockInv, Waits, Unlatch, clientVars,
      threadVars
  <2>5. Victims'
    BY <1>5 DEF LockInv, Victims, Unlatch, poolVars, clientVars
  <2>6. QED BY <2>1, <2>2, <2>3, <2>4, <2>5 DEF LockInv
<1>6. CASE DropFrame(c, p)
  <2>1. TypeOK'
    BY <1>6 DEF LockInv, TypeOK, DropFrame, lockVars, poolVars, threadVars,
      ownerVars, histVars
  <2>2. PoolLock'
    BY <1>6 DEF LockInv, PoolLock, DropFrame, lockVars, threadVars
  <2>3. FrameLatches'
    BY <1>6 DEF LockInv, FrameLatches, DropFrame, lockVars, Latched
  <2>4. Waits'
    BY <1>6 DEF LockInv, Waits, DropFrame, lockVars, threadVars, Busy
  <2>5. Victims'
    BY <1>6 DEF LockInv, Victims, DropFrame, lockVars, poolVars
  <2>6. QED BY <2>1, <2>2, <2>3, <2>4, <2>5 DEF LockInv
<1>7. QED BY <1>1, <1>2, <1>3, <1>4, <1>5, <1>6

(* The loop of the thread and its flushes.                                 *)
LEMMA ThreadStep ==
  ASSUME LockInv,
         \/ Timeout
         \/ Signal
         \/ BeginFlush
         \/ \E p \in Pages : AskForPage(p)
         \/ FlushPage
         \/ SaveHeader
         \/ FlushFails
  PROVE  LockInv'
<1>1. CASE Timeout
  <2>1. TypeOK'
    BY <1>1 DEF LockInv, TypeOK, Timeout, lockVars, poolVars, clientVars,
      ownerVars, histVars
  <2>2. PoolLock'
    BY <1>1 DEF LockInv, PoolLock, Timeout, lockVars, clientVars
  <2>3. FrameLatches'
    BY <1>1 DEF LockInv, FrameLatches, Timeout, lockVars, clientVars
  <2>4. Waits'
    BY <1>1 DEF LockInv, Waits, Timeout, lockVars, clientVars
  <2>5. Victims'
    BY <1>1 DEF LockInv, Victims, Timeout, lockVars, poolVars, clientVars
  <2>6. QED BY <2>1, <2>2, <2>3, <2>4, <2>5 DEF LockInv
<1>2. CASE Signal
  <2>1. TypeOK'
    BY <1>2 DEF LockInv, TypeOK, Signal, lockVars, poolVars, clientVars,
      ownerVars, histVars
  <2>2. PoolLock'
    BY <1>2 DEF LockInv, PoolLock, Signal, lockVars, clientVars
  <2>3. FrameLatches'
    BY <1>2 DEF LockInv, FrameLatches, Signal, lockVars, clientVars
  <2>4. Waits'
    BY <1>2 DEF LockInv, Waits, Signal, lockVars, clientVars
  <2>5. Victims'
    BY <1>2 DEF LockInv, Victims, Signal, lockVars, poolVars, clientVars
  <2>6. QED BY <2>1, <2>2, <2>3, <2>4, <2>5 DEF LockInv
<1>3. CASE BeginFlush
  <2>1. TypeOK'
    BY <1>3 DEF LockInv, TypeOK, BeginFlush, poolVars, clientVars, ownerVars,
      histVars
  <2>2. PoolLock'
    BY <1>3, FlusherAssumption DEF LockInv, PoolLock, BeginFlush, clientVars
  <2>3. FrameLatches'
    BY <1>3 DEF LockInv, FrameLatches, BeginFlush, clientVars
  <2>4. Waits'
    BY <1>3 DEF LockInv, Waits, BeginFlush, clientVars
  <2>5. Victims'
    BY <1>3 DEF LockInv, Victims, BeginFlush, poolVars, clientVars
  <2>6. QED BY <2>1, <2>2, <2>3, <2>4, <2>5 DEF LockInv
<1>4. ASSUME NEW p \in Pages, AskForPage(p) PROVE LockInv'
  <2>1. TypeOK'
    BY <1>4 DEF LockInv, TypeOK, AskForPage, poolVars, clientVars, threadVars,
      ownerVars, histVars
  <2>2. PoolLock'
    BY <1>4 DEF LockInv, PoolLock, AskForPage, clientVars, threadVars
  <2>3. FrameLatches'
    BY <1>4 DEF LockInv, FrameLatches, AskForPage, clientVars
  <2>4. Waits'
    BY <1>4, FlusherAssumption DEF LockInv, Waits, AskForPage, clientVars,
      threadVars
  <2>5. Victims'
    BY <1>4, FlusherAssumption DEF LockInv, Victims, AskForPage, poolVars,
      clientVars
  <2>6. QED BY <2>1, <2>2, <2>3, <2>4, <2>5 DEF LockInv
<1>5. CASE FlushPage
  <2>1. TypeOK'
    BY <1>5 DEF LockInv, TypeOK, FlushPage, clientVars, ownerVars, Written
  <2>2. PoolLock'
    BY <1>5 DEF LockInv, PoolLock, FlushPage, clientVars
  <2>3. FrameLatches'
    BY <1>5 DEF LockInv, FrameLatches, FlushPage, clientVars
  <2>4. Waits'
    BY <1>5 DEF LockInv, TypeOK, Waits, FlushPage, clientVars
  <2>5. Victims'
    BY <1>5 DEF LockInv, Victims, FlushPage, clientVars
  <2>6. QED BY <2>1, <2>2, <2>3, <2>4, <2>5 DEF LockInv
<1>6. CASE SaveHeader
  <2>1. TypeOK'
    BY <1>6 DEF LockInv, TypeOK, SaveHeader, poolVars, clientVars, ownerVars,
      EndFlush
  <2>2. PoolLock'
    BY <1>6, FlusherAssumption DEF LockInv, PoolLock, SaveHeader, clientVars,
      EndFlush
  <2>3. FrameLatches'
    BY <1>6 DEF LockInv, FrameLatches, SaveHeader, clientVars, EndFlush
  <2>4. Waits'
    BY <1>6 DEF LockInv, Waits, SaveHeader, clientVars, EndFlush
  <2>5. Victims'
    BY <1>6 DEF LockInv, Victims, SaveHeader, poolVars, clientVars, EndFlush
  <2>6. QED BY <2>1, <2>2, <2>3, <2>4, <2>5 DEF LockInv
<1>7. CASE FlushFails
  <2>1. TypeOK'
    BY <1>7 DEF LockInv, TypeOK, FlushFails, poolVars, clientVars, ownerVars,
      EndFlush
  <2>2. PoolLock'
    BY <1>7, FlusherAssumption DEF LockInv, PoolLock, FlushFails, clientVars,
      EndFlush
  <2>3. FrameLatches'
    BY <1>7 DEF LockInv, FrameLatches, FlushFails, clientVars, EndFlush
  <2>4. Waits'
    BY <1>7 DEF LockInv, TypeOK, Waits, FlushFails, clientVars, EndFlush
  <2>5. Victims'
    BY <1>7 DEF LockInv, Victims, FlushFails, poolVars, clientVars, EndFlush
  <2>6. QED BY <2>1, <2>2, <2>3, <2>4, <2>5 DEF LockInv
<1>8. QED BY <1>1, <1>2, <1>3, <1>4, <1>5, <1>6, <1>7

(* The owner.                                                              *)
LEMMA OwnerStep ==
  ASSUME LockInv,
         \/ Shutdown
         \/ Join
  PROVE  LockInv'
<1>1. CASE Shutdown
  <2>1. TypeOK'
    BY <1>1 DEF LockInv, TypeOK, Shutdown, lockVars, poolVars, clientVars,
      threadVars, histVars
  <2>2. PoolLock'
    BY <1>1 DEF LockInv, PoolLock, Shutdown, lockVars, clientVars, threadVars
  <2>3. FrameLatches'
    BY <1>1 DEF LockInv, FrameLatches, Shutdown, lockVars, clientVars
  <2>4. Waits'
    BY <1>1 DEF LockInv, Waits, Shutdown, lockVars, clientVars, threadVars
  <2>5. Victims'
    BY <1>1 DEF LockInv, Victims, Shutdown, lockVars, poolVars, clientVars
  <2>6. QED BY <2>1, <2>2, <2>3, <2>4, <2>5 DEF LockInv
<1>2. CASE Join
  <2>1. TypeOK'
    BY <1>2 DEF LockInv, TypeOK, Join, lockVars, poolVars, clientVars,
      threadVars, histVars
  <2>2. PoolLock'
    BY <1>2 DEF LockInv, PoolLock, Join, lockVars, clientVars, threadVars
  <2>3. FrameLatches'
    BY <1>2 DEF LockInv, FrameLatches, Join, lockVars, clientVars
  <2>4. Waits'
    BY <1>2 DEF LockInv, Waits, Join, lockVars, clientVars
  <2>5. Victims'
    BY <1>2 DEF LockInv, Victims, Join, lockVars, poolVars, clientVars
  <2>6. QED BY <2>1, <2>2, <2>3, <2>4, <2>5 DEF LockInv
<1>3. QED BY <1>1, <1>2

(* Every step keeps the locks, the latches and the waits as they should    *)
(* be.                                                                     *)
LEMMA LockStep ==
  ASSUME LockInv, [Next]_vars
  PROVE  LockInv'
<1>1. CASE UNCHANGED vars
  BY <1>1 DEF LockInv, TypeOK, PoolLock, FrameLatches, Waits, Victims, vars,
    lockVars, poolVars, clientVars, threadVars, ownerVars, histVars
<1>2. CASE Next
  BY <1>2, ClientPoolStep, ClientFrameStep, ThreadStep, OwnerStep DEF Next
<1>3. QED BY <1>1, <1>2

(* Nobody holds or waits for anything.                                     *)
LEMMA LockInit == Init => LockInv
  BY FlusherAssumption DEF Init, LockInv, TypeOK, PoolLock, FrameLatches,
    Waits, Victims

(* Marks only on cached pages, references only to cached frames, the list  *)
(* of a flush within the table: an eviction disturbs none of them, because *)
(* nobody refers to its victim and no flush runs beside it.                *)
THEOREM TypeCorrect == Spec => []TypeOK
<1>1. LockInv /\ [Next]_vars => LockInv'
  BY LockStep
<1>2. LockInv => TypeOK
  BY DEF LockInv
<1>3. QED BY <1>1, <1>2, LockInit, PTL DEF Spec

-----------------------------------------------------------------------------
(* A victim's latch is free: its flush in evict_page does not wait.        *)
LEMMA VictimUnlatched ==
  ASSUME LockInv, NEW c \in Clients, victim[c] # None
  PROVE  latch[victim[c]] = None
  BY DEF LockInv, TypeOK, FrameLatches, Victims

(* A client with a latch outside the pool waits for nobody, so what it     *)
(* holds is released.                                                      *)
LEMMA OutsideHolderRuns ==
  ASSUME LockInv, NEW c \in Clients, NEW p \in Pages,
         latch[p] = c, client[c] = "outside"
  PROVE  \A u \in Threads : ~ WaitsFor(c, u)
  BY FlusherAssumption DEF LockInv, Waits, Victims, WaitsFor

(* A latch is held outside the pool, or by the holder of the pool.         *)
LEMMA LatchHolder ==
  ASSUME LockInv, NEW p \in Pages, latch[p] # None
  PROVE  /\ latch[p] \in Clients
         /\ client[latch[p]] = "outside" \/ latch[p] = mutex
  BY DEF LockInv, TypeOK, PoolLock, FrameLatches

(* The argument against a circle in any group of threads.  If a member     *)
(* holds a latch outside the pool, it waits for nobody.  Otherwise only    *)
(* the holder of the pool has latches, so it waits for nobody in the group *)
(* if it is a member; if it is not, nobody in the group waits for a lock   *)
(* of a member, and the owner waits for the thread only.                   *)
LEMMA NoCircle ==
  ASSUME LockInv
  PROVE  NoCircularWait
<1> SUFFICES ASSUME NEW group \in SUBSET Threads, group # {}
             PROVE  \E t \in group : \A u \in group : ~ WaitsFor(t, u)
  BY DEF NoCircularWait
<1>1. CASE \E c \in group \cap Clients, p \in Pages : latch[p] = c /\ client[c] = "outside"
  BY <1>1, OutsideHolderRuns
<1>2. CASE /\ \A c \in group \cap Clients, p \in Pages :
                ~ (latch[p] = c /\ client[c] = "outside")
           /\ mutex \in group
  <2>1. mutex \in Clients \cup {Background}
    BY <1>2, FlusherAssumption DEF LockInv, TypeOK, Threads
  <2>2. ASSUME NEW u \in group, WaitsFor(mutex, u) PROVE FALSE
    <3>1. wants[mutex] # None /\ latch[wants[mutex]] = u
      BY <2>1, <2>2, VictimUnlatched, FlusherAssumption DEF LockInv, PoolLock,
        WaitsFor, Threads
    <3>2. u \in Clients /\ (client[u] = "outside" \/ u = mutex) /\ wants[mutex] \in Pages
      BY <2>1, <3>1, LatchHolder, FlusherAssumption DEF LockInv, TypeOK,
        Threads
    <3>3. u # mutex
      BY <3>1, <3>2 DEF LockInv, Waits
    <3>4. QED BY <1>2, <3>1, <3>2, <3>3
  <2>3. QED BY <1>2, <2>2
<1>3. CASE /\ \A c \in group \cap Clients, p \in Pages :
                ~ (latch[p] = c /\ client[c] = "outside")
           /\ mutex \notin group
  <2>1. ASSUME NEW p \in Pages, latch[p] \in group PROVE FALSE
    BY <1>3, <2>1, LatchHolder, FlusherAssumption DEF Threads
  <2>2. ASSUME NEW t \in group, t # Owner, NEW u \in group, WaitsFor(t, u) PROVE FALSE
    BY <1>3, <2>1, <2>2 DEF LockInv, TypeOK, WaitsFor
  <2>3. CASE group = {Owner}
    BY <2>3, FlusherAssumption DEF WaitsFor
  <2>4. QED BY <2>2, <2>3
<1>4. QED BY <1>1, <1>2, <1>3

(* No threads wait for one another in a circle, however many clients, pages*)
(* and frames there are: latches are taken under the lock of the pool, or  *)
(* by a client that holds no other lock.                                   *)
THEOREM NoDeadlock == Spec => []NoCircularWait
<1>1. LockInv /\ [Next]_vars => LockInv'
  BY LockStep
<1>2. LockInv => NoCircularWait
  BY NoCircle
<1>3. QED BY <1>1, <1>2, LockInit, PTL DEF Spec

-----------------------------------------------------------------------------
(* Clients write pages back and mark pages; neither undoes what the last   *)
(* flush is to reach, and what is changed after the signal is not its task.*)
LEMMA ShutdownClientStep ==
  ASSUME LockInv, ShutdownInv, NEW c \in Clients,
         \/ AskForPool(c) \/ TakePool(c) \/ LeavePool(c)
         \/ Evict(c) \/ EvictFails(c) \/ TakeLatch(c)
         \/ \E p \in Pages :
              \/ Fetch(c, p) \/ BeginEvict(c, p) \/ AskForLatch(c, p)
              \/ Modify(c, p) \/ Unlatch(c, p) \/ DropFrame(c, p)
  PROVE  ShutdownInv'
<1>1. /\ UNCHANGED <<threadVars, ownerVars>>
      /\ \/ UNCHANGED histVars
         \/ \E p \in Pages : Written(p)
         \/ owner = "running" /\ UNCHANGED unsynced
  BY DEF AskForPool, TakePool, LeavePool, Evict, EvictFails, TakeLatch, Fetch,
    BeginEvict, AskForLatch, Modify, Unlatch, DropFrame, Return, histVars,
    LockInv, TypeOK
<1>2. QED BY <1>1 DEF ShutdownInv, threadVars, ownerVars, histVars, Written

(* The thread and its owner: the list of a flush that begins after the     *)
(* signal covers what is not written, each page leaves both, and the       *)
(* header's sync ends it.                                                  *)
LEMMA ShutdownThreadStep ==
  ASSUME LockInv, ShutdownInv,
         \/ Timeout \/ Signal \/ BeginFlush \/ FlushPage \/ SaveHeader \/ FlushFails
         \/ \E p \in Pages : AskForPage(p)
         \/ Shutdown \/ Join
  PROVE  ShutdownInv'
<1> USE DEF ShutdownInv, threadVars, ownerVars, histVars
<1>1. CASE Timeout \/ Signal \/ \E p \in Pages : AskForPage(p)
  BY <1>1 DEF Timeout, Signal, AskForPage
<1>2. CASE BeginFlush
  BY <1>2 DEF BeginFlush, LockInv, TypeOK
<1>3. CASE FlushPage
  BY <1>3 DEF FlushPage, Written
<1>4. CASE SaveHeader
  BY <1>4 DEF SaveHeader, EndFlush
<1>5. CASE FlushFails
  BY <1>5 DEF FlushFails, EndFlush
<1>6. CASE Shutdown \/ Join
  BY <1>6 DEF Shutdown, Join
<1>7. QED BY <1>1, <1>2, <1>3, <1>4, <1>5, <1>6

(* shutdown returns with every earlier change written and synced, or after *)
(* a flush that failed.                                                    *)
THEOREM ShutdownIsDurable == Spec => []DurableAtReturn
<1>1. Init => ShutdownInv
  BY DEF Init, ShutdownInv
<1>2. ASSUME LockInv, ShutdownInv, [Next]_vars PROVE ShutdownInv'
  <2>1. CASE UNCHANGED vars
    BY <1>2, <2>1 DEF ShutdownInv, vars, threadVars, ownerVars, histVars
  <2>2. CASE Next
    BY <1>2, <2>2, ShutdownClientStep, ShutdownThreadStep DEF Next
  <2>3. QED BY <1>2, <2>1, <2>2
<1>3. LockInv /\ [Next]_vars => LockInv'
  BY LockStep
<1>4. ShutdownInv => DurableAtReturn
  BY DEF ShutdownInv, DurableAtReturn
<1>5. QED BY <1>1, <1>2, <1>3, <1>4, LockInit, PTL DEF Spec
=============================================================================
