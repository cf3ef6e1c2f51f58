------------------------------- MODULE Flusher ------------------------------
(***************************************************************************)
(* The background thread of src/src/storage/flusher.rs, its owner, and the *)
(* clients it shares the pool with: the pool's mutex, the latches of the   *)
(* frames, the shutdown channel and the join.                              *)
(*                                                                         *)
(* Clients work as insert_leaf does (bptree.rs:49-126): with the mutex     *)
(* held they fetch pages and latch them one after the other, and release   *)
(* the latches and the mutex when they return.  They may keep a frame, and *)
(* latch it without the mutex, which they do not ask for then.             *)
(* find_record and recovery hold less.  A latch is held by one thread; the *)
(* read latches of find_record are latches under which nothing is changed. *)
(***************************************************************************)
EXTENDS Naturals, FiniteSets

CONSTANTS
  Clients,    (* threads that use the pool                                 *)
  Pages,
  PoolSize,   (* capacity of the pool                                      *)
  Background, (* the flusher's thread                                      *)
  Owner,      (* the thread that owns the BackgroundFlusher                *)
  None        (* nobody; no page                                           *)

ASSUME FlusherAssumption ==
  /\ IsFiniteSet(Pages)
  /\ PoolSize \in Nat \ {0}
  /\ Background \notin Clients
  /\ Owner \notin Clients \cup {Background}
  /\ None \notin Clients \cup Pages \cup {Background, Owner}

VARIABLES
  mutex,     (* who holds the lock of the pool                             *)
  latch,     (* who holds the lock of the frame of a page                  *)
  cached,    (* page_table                                                 *)
  dirty,     (* cached pages that are marked                               *)
  refs,      (* the frames a client holds an Arc of                        *)
  client,    (* what a client does: outside, asking, inside                *)
  wants,     (* the page whose latch a client, or the flusher, waits for   *)
  victim,    (* the page evict_page is about to flush, for a client        *)
  flusher,   (* what the thread does: waiting, asking, flushing, stopped   *)
  todo,      (* pages its flush_all_pages has yet to flush                 *)
  leaving,   (* it has left the loop: this flush is the last               *)
  channel,   (* the shutdown channel: open, signalled                      *)
  owner,     (* what the owner does: running, joining, returned            *)
  failed,    (* the last flush_all_pages of the thread returned an error   *)
  unwritten, (* pages with a change from before shutdown, not written      *)
  unsynced   (* pages with such a change written, not synced (both history)*)

lockVars   == <<mutex, latch, wants>>
poolVars   == <<cached, dirty, victim>>
clientVars == <<refs, client>>
threadVars == <<flusher, todo, leaving, failed>>
ownerVars  == <<channel, owner>>
histVars   == <<unwritten, unsynced>>
vars == <<lockVars, poolVars, clientVars, threadVars, ownerVars, histVars>>

Threads == Clients \cup {Background, Owner}

Init ==
  /\ mutex = None
  /\ latch = [p \in Pages |-> None]
  /\ wants = [t \in Clients \cup {Background} |-> None]
  /\ cached = {}
  /\ dirty = {}
  /\ victim = [c \in Clients |-> None]
  /\ refs = [c \in Clients |-> {}]
  /\ client = [c \in Clients |-> "outside"]
  /\ flusher = "waiting"
  /\ todo = {}
  /\ leaving = FALSE
  /\ failed = FALSE
  /\ channel = "open"
  /\ owner = "running"
  /\ unwritten = {}
  /\ unsynced = {}

-----------------------------------------------------------------------------
Latched(c) == {p \in Pages : latch[p] = c}
Busy(c)    == wants[c] # None \/ victim[c] # None

(* A client asks for the pool, with no latch in hand, and gets it.         *)
AskForPool(c) ==
  /\ client[c] = "outside"
  /\ ~ Busy(c)
  /\ Latched(c) = {}
  /\ client' = [client EXCEPT ![c] = "asking"]
  /\ UNCHANGED <<lockVars, poolVars, refs, threadVars, ownerVars, histVars>>

TakePool(c) ==
  /\ client[c] = "asking"
  /\ mutex = None
  /\ mutex' = c
  /\ client' = [client EXCEPT ![c] = "inside"]
  /\ UNCHANGED <<latch, wants, poolVars, refs, threadVars, ownerVars, histVars>>

(* It returns, with an error or without: every latch is released, and the  *)
(* pool; at most one frame is kept.                                        *)
Return(c) ==
  /\ mutex' = None
  /\ \E kept \in SUBSET refs[c] :
       /\ Cardinality(kept) <= 1
       /\ refs' = [refs EXCEPT ![c] = kept]
  /\ latch' = [p \in Pages |-> IF latch[p] = c THEN None ELSE latch[p]]
  /\ client' = [client EXCEPT ![c] = "outside"]
  /\ UNCHANGED <<wants, cached, dirty, threadVars, ownerVars, histVars>>

LeavePool(c) ==
  /\ client[c] = "inside"
  /\ ~ Busy(c)
  /\ Return(c)
  /\ UNCHANGED victim

(* Faulty: evict_page does not ask for references. *)
UnreferencedOrNot == cached

(* What evict_if's predicate lets pass. *)
Unreferenced == {p \in cached : \A c \in Clients : p \notin refs[c]}

(* fetch_page of a cached page, or with room in the pool. *)
Fetch(c, p) ==
  /\ client[c] = "inside"
  /\ ~ Busy(c)
  /\ p \notin refs[c]
  /\ p \in cached \/ Cardinality(cached) < PoolSize
  /\ cached' = cached \cup {p}
  /\ refs' = [refs EXCEPT ![c] = @ \cup {p}]
  /\ UNCHANGED <<lockVars, dirty, victim, client, threadVars, ownerVars, histVars>>

(* fetch_page or new_page with a full pool: evict_page settles on a victim *)
(* and flushes it, which takes its latch.                                  *)
BeginEvict(c, v) ==
  /\ client[c] = "inside"
  /\ ~ Busy(c)
  /\ Cardinality(cached) >= PoolSize
  /\ v \in Unreferenced
  /\ victim' = [victim EXCEPT ![c] = v]
  /\ UNCHANGED <<lockVars, cached, dirty, clientVars, threadVars, ownerVars, histVars>>

(* A page is written. *)
Written(p) ==
  /\ unwritten' = unwritten \ {p}
  /\ unsynced' = unsynced \cup ({p} \cap unwritten)

Evict(c) ==
  LET v == victim[c] IN
  /\ v # None
  /\ latch[v] = None
  /\ Written(v)
  /\ dirty' = dirty \ {v}
  /\ cached' = cached \ {v}
  /\ victim' = [victim EXCEPT ![c] = None]
  /\ UNCHANGED <<lockVars, clientVars, threadVars, ownerVars>>

(* The write fails: the page stays, and the client's call ends.            *)
EvictFails(c) ==
  LET v == victim[c] IN
  /\ v # None
  /\ latch[v] = None
  /\ v \in dirty
  /\ victim' = [victim EXCEPT ![c] = None]
  /\ Return(c)

(* A client latches a frame it holds: any number inside, one outside.      *)
AskForLatch(c, p) ==
  /\ client[c] \in {"inside", "outside"}
  /\ ~ Busy(c)
  /\ p \in refs[c] \ Latched(c)
  /\ client[c] = "outside" => Latched(c) = {}
  /\ wants' = [wants EXCEPT ![c] = p]
  /\ UNCHANGED <<mutex, latch, poolVars, clientVars, threadVars, ownerVars, histVars>>

TakeLatch(c) ==
  /\ wants[c] # None
  /\ latch[wants[c]] = None
  /\ latch' = [latch EXCEPT ![wants[c]] = c]
  /\ wants' = [wants EXCEPT ![c] = None]
  /\ UNCHANGED <<mutex, poolVars, clientVars, threadVars, ownerVars, histVars>>

Modify(c, p) ==
  /\ latch[p] = c
  /\ ~ Busy(c)
  /\ dirty' = dirty \cup {p}
  /\ unwritten' = IF owner = "running" THEN unwritten \cup {p} ELSE unwritten
  /\ UNCHANGED <<lockVars, cached, victim, clientVars, threadVars, ownerVars, unsynced>>

Unlatch(c, p) ==
  /\ client[c] = "outside"
  /\ latch[p] = c
  /\ latch' = [latch EXCEPT ![p] = None]
  /\ UNCHANGED <<mutex, wants, poolVars, clientVars, threadVars, ownerVars, histVars>>

DropFrame(c, p) ==
  /\ client[c] = "outside"
  /\ ~ Busy(c)
  /\ p \in refs[c] \ Latched(c)
  /\ refs' = [refs EXCEPT ![c] = @ \ {p}]
  /\ UNCHANGED <<lockVars, poolVars, client, threadVars, ownerVars, histVars>>

-----------------------------------------------------------------------------
(* recv_timeout: 100 ms without a signal.                                  *)
Timeout ==
  /\ flusher = "waiting"
  /\ channel = "open"
  /\ flusher' = "asking"
  /\ UNCHANGED <<lockVars, poolVars, clientVars, todo, leaving, failed, ownerVars, histVars>>

(* Faulty: the loop is left without the last flush. *)
SignalStops ==
  /\ flusher = "waiting"
  /\ channel = "signalled"
  /\ leaving' = TRUE
  /\ flusher' = "stopped"
  /\ UNCHANGED <<lockVars, poolVars, clientVars, todo, failed, ownerVars, histVars>>

(* recv_timeout: the signal.  The loop is left, for the last flush. *)
Signal ==
  /\ flusher = "waiting"
  /\ channel = "signalled"
  /\ leaving' = TRUE
  /\ flusher' = "asking"
  /\ UNCHANGED <<lockVars, poolVars, clientVars, todo, failed, ownerVars, histVars>>

(* pool.lock(), and flush_all_pages collects the pages.                    *)
BeginFlush ==
  /\ flusher = "asking"
  /\ mutex = None
  /\ mutex' = Background
  /\ flusher' = "flushing"
  /\ todo' = cached
  /\ failed' = FALSE
  /\ UNCHANGED <<latch, wants, poolVars, clientVars, leaving, ownerVars, histVars>>

(* flush_page asks for the latch of the next page of the list, gets it,    *)
(* writes the page if it is marked, and releases the latch.                *)
AskForPage(p) ==
  /\ flusher = "flushing"
  /\ wants[Background] = None
  /\ p \in todo
  /\ wants' = [wants EXCEPT ![Background] = p]
  /\ UNCHANGED <<mutex, latch, poolVars, clientVars, threadVars, ownerVars, histVars>>

(* Faulty: the mark stays. *)
FlushPageMarked ==
  LET p == wants[Background] IN
  /\ p # None
  /\ latch[p] = None
  /\ Written(p)
  /\ todo' = todo \ {p}
  /\ wants' = [wants EXCEPT ![Background] = None]
  /\ UNCHANGED <<mutex, latch, poolVars, clientVars, flusher, leaving, failed, ownerVars>>

FlushPage ==
  LET p == wants[Background] IN
  /\ p # None
  /\ latch[p] = None
  /\ Written(p)
  /\ dirty' = dirty \ {p}
  /\ todo' = todo \ {p}
  /\ wants' = [wants EXCEPT ![Background] = None]
  /\ UNCHANGED <<mutex, latch, cached, victim, clientVars, flusher, leaving, failed, ownerVars>>

(* flush_all_pages returns, the lock is released; the thread goes on       *)
(* waiting, or ends.                                                       *)
EndFlush ==
  /\ mutex' = None
  /\ todo' = {}
  /\ flusher' = IF leaving THEN "stopped" ELSE "waiting"
  /\ UNCHANGED <<latch, poolVars, clientVars, leaving, ownerVars, unwritten>>

SaveHeader ==
  /\ flusher = "flushing"
  /\ todo = {}
  /\ unsynced' = {}
  /\ EndFlush
  /\ UNCHANGED <<wants, failed>>

(* A page cannot be written, or the header: the rest is left, the error is *)
(* printed.                                                                *)
FlushFails ==
  /\ flusher = "flushing"
  /\ LET p == wants[Background] IN
     IF todo = {} THEN TRUE ELSE p # None /\ latch[p] = None /\ p \in dirty
  /\ wants' = [wants EXCEPT ![Background] = None]
  /\ failed' = TRUE
  /\ EndFlush
  /\ UNCHANGED unsynced

-----------------------------------------------------------------------------
(* shutdown, called by the owner or by drop: the signal ...                *)
Shutdown ==
  /\ owner = "running"
  /\ channel' = "signalled"
  /\ owner' = "joining"
  /\ UNCHANGED <<lockVars, poolVars, clientVars, threadVars, histVars>>

(* ... and the join.  A second call finds nothing to do. *)
Join ==
  /\ owner = "joining"
  /\ flusher = "stopped"
  /\ owner' = "returned"
  /\ UNCHANGED <<lockVars, poolVars, clientVars, threadVars, channel, histVars>>

Next ==
  \/ \E c \in Clients :
       \/ AskForPool(c) \/ TakePool(c) \/ LeavePool(c)
       \/ Evict(c) \/ EvictFails(c) \/ TakeLatch(c)
       \/ \E p \in Pages :
            \/ Fetch(c, p) \/ BeginEvict(c, p) \/ AskForLatch(c, p)
            \/ Modify(c, p) \/ Unlatch(c, p) \/ DropFrame(c, p)
  \/ Timeout \/ Signal \/ BeginFlush \/ FlushPage \/ SaveHeader \/ FlushFails
  \/ \E p \in Pages : AskForPage(p)
  \/ Shutdown \/ Join

(* Threads that can go on do, and calls end: a client releases what it     *)
(* took.  A thread that waits for a lock gets it if the lock is free again *)
(* and again, since parking_lot's locks are eventually fair.  Nothing makes*)
(* clients call, or the owner call shutdown.                               *)
Fairness ==
  /\ \A c \in Clients :
       /\ WF_vars(LeavePool(c)) /\ WF_vars(Evict(c)) /\ SF_vars(TakeLatch(c))
       /\ \A p \in Pages : WF_vars(Unlatch(c, p))
  /\ WF_vars(Timeout) /\ WF_vars(Signal)
  /\ SF_vars(BeginFlush) /\ SF_vars(FlushPage)
  /\ WF_vars(\E p \in Pages : AskForPage(p))
  /\ WF_vars(SaveHeader) /\ WF_vars(Join)

Spec == Init /\ [][Next]_vars /\ Fairness

-----------------------------------------------------------------------------
TypeOK ==
  /\ mutex \in Clients \cup {Background, None}
  /\ latch \in [Pages -> Clients \cup {None}]
  /\ wants \in [Clients \cup {Background} -> Pages \cup {None}]
  /\ dirty \subseteq cached
  /\ cached \subseteq Pages
  /\ victim \in [Clients -> Pages \cup {None}]
  /\ refs \in [Clients -> SUBSET cached]
  /\ client \in [Clients -> {"outside", "asking", "inside"}]
  /\ flusher \in {"waiting", "asking", "flushing", "stopped"}
  /\ todo \subseteq cached
  /\ leaving \in BOOLEAN
  /\ failed \in BOOLEAN
  /\ channel \in {"open", "signalled"}
  /\ owner \in {"running", "joining", "returned"}
  /\ unwritten \subseteq dirty
  /\ unsynced \subseteq Pages

(* Who waits for whom: for a latch, for the pool, for the thread to end.   *)
WaitsFor(t, u) ==
  \/ /\ t \in Clients
     /\ \/ wants[t] # None /\ latch[wants[t]] = u
        \/ victim[t] # None /\ latch[victim[t]] = u
        \/ client[t] = "asking" /\ mutex = u
  \/ /\ t = Background
     /\ \/ wants[t] # None /\ latch[wants[t]] = u
        \/ flusher = "asking" /\ mutex = u
  \/ t = Owner /\ owner = "joining" /\ flusher # "stopped" /\ u = Background

(* No threads wait for one another in a circle, nor one for itself: not an *)
(* insert that evicts with latches in hand, not a flush that meets latched *)
(* frames, not the join (bptree.rs:57, buffer_pool.rs:94, flusher.rs:85).  *)
NoCircularWait ==
  \A group \in (SUBSET Threads) \ {{}} :
    \E t \in group : \A u \in group : ~ WaitsFor(t, u)

(* "waits for it to finish its final flush" (flusher.rs:76-77): when       *)
(* shutdown returns, every change made before it was called is on the disk *)
(* and synced, whether the signal came between two flushes, during one or  *)
(* together with the timeout, unless the last flush failed.                *)
DurableAtReturn ==
  owner = "returned" /\ ~ failed => unwritten = {} /\ unsynced = {}

(* shutdown returns: no client can keep the thread from its last flush. *)
ShutdownReturns == owner = "joining" ~> owner = "returned"

(* A marked page does not stay so: it is written, or a flush fails, or the *)
(* flusher is shut down (flusher.rs:44-46).                                *)
FlusherCatchesUp ==
  \A p \in Pages :
    p \in dirty ~> p \notin dirty \/ failed \/ owner # "running"
=============================================================================
