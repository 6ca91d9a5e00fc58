----------------------------- MODULE QueueStats -----------------------------
(***************************************************************************)
(* The removal counters of queue/QueueStats.h and                          *)
(* consumer/QueueConsumerWorker.h.  Each worker counts the entries it      *)
(* removes in its QueueAccess::removedCount with a plain removedCount++    *)
(* (no synchronisation, "we do an atomic swap so that calls to             *)
(* incrementRemovedCount require no synchronization").  updateStats, run   *)
(* by a client thread in QueueProcessor::writeQueueStats (under           *)
(* workerLock) or by the worker itself in finalize, swaps the counter to  *)
(* 0, releases it (writing 0 again) and adds what it took to the queue's  *)
(* QueueStats::removedCount with __sync_fetch_and_add.  Producers add      *)
(* entries and increment addedCount under addMutex (one step).            *)
(***************************************************************************)
EXTENDS Naturals, FiniteSets, Functions

CONSTANTS
  Workers,     \* worker threads, each with its QueueAccess
  Clients,     \* threads calling writeQueueStats
  MaxEntries,  \* bound on entries added
  MaxReports   \* bound on writeQueueStats calls

VARIABLES
  local,       \* QueueAccess::removedCount, per worker
  wpc,         \* worker program counter
  wread,       \* the value removedCount++ has read, per worker
  wtaken,      \* the value the worker's own updateStats took by the swap
  addedCount,  \* QueueStats::addedCount
  removedCount,\* QueueStats::removedCount
  cpc,         \* client program counter
  todo,        \* workers the client's loop has still to visit
  cur,         \* the worker whose counter the client is updating
  taken,       \* the value the client's swap took
  reports,     \* writeQueueStats calls made
  handled      \* history: entries each worker has removed

vars == <<local, wpc, wread, wtaken, addedCount, removedCount, cpc, todo, cur,
          taken, reports, handled>>

Init ==
  /\ local = [w \in Workers |-> 0]
  /\ wpc = [w \in Workers |-> "idle"]
  /\ wread = [w \in Workers |-> 0]
  /\ wtaken = [w \in Workers |-> 0]
  /\ addedCount = 0
  /\ removedCount = 0
  /\ cpc = [c \in Clients |-> "idle"]
  /\ todo = [c \in Clients |-> {}]
  /\ cur = [c \in Clients |-> CHOOSE w \in Workers : TRUE]
  /\ taken = [c \in Clients |-> 0]
  /\ reports = 0
  /\ handled = [w \in Workers |-> 0]

-----------------------------------------------------------------------------
(* Producers.                                                              *)

(* SyncWriterQueue::add -> ReaderWriterQueue::add, line 59: under         *)
(* addMutex, stats.incrementAddedCount()                                  *)
Add ==
  /\ addedCount < MaxEntries
  /\ addedCount' = addedCount + 1
  /\ UNCHANGED <<local, wpc, wread, wtaken, removedCount, cpc, todo, cur,
                 taken, reports, handled>>

-----------------------------------------------------------------------------
(* Workers.                                                                *)

(* QueueConsumerWorker::doWork, lines 26-28: an entry is removed, and     *)
(* removedCount++ loads the counter                                       *)
IncLoad(w) ==
  /\ wpc[w] = "idle"
  /\ SumFunction(handled) < addedCount
  /\ handled' = [handled EXCEPT ![w] = @ + 1]
  /\ wread' = [wread EXCEPT ![w] = local[w]]
  /\ wpc' = [wpc EXCEPT ![w] = "store"]
  /\ UNCHANGED <<local, wtaken, addedCount, removedCount, cpc, todo, cur,
                 taken, reports>>

(* Fault variant of IncStore: the increment is an atomic fetch-and-add *)
IncStoreAtomic(w) ==
  /\ wpc[w] = "store"
  /\ local' = [local EXCEPT ![w] = @ + 1]
  /\ wpc' = [wpc EXCEPT ![w] = "idle"]
  /\ UNCHANGED <<wread, wtaken, addedCount, removedCount, cpc, todo, cur,
                 taken, reports, handled>>

(* QueueAccess::incrementRemovedCount, line 52: removedCount++ stores the *)
(* value it loaded plus one                                               *)
IncStore(w) ==
  /\ wpc[w] = "store"
  /\ local' = [local EXCEPT ![w] = wread[w] + 1]
  /\ wpc' = [wpc EXCEPT ![w] = "idle"]
  /\ UNCHANGED <<wread, wtaken, addedCount, removedCount, cpc, todo, cur,
                 taken, reports, handled>>

(* QueueConsumerWorker::finalize -> updateStats, QueueConsumerWorker.h    *)
(* lines 45-48, run once by the worker itself as its thread ends: swap,   *)
(* release, fetch-and-add                                                 *)
WorkerSwap(w) ==
  /\ wpc[w] = "idle"
  /\ wtaken' = [wtaken EXCEPT ![w] = local[w]]
  /\ local' = [local EXCEPT ![w] = 0]
  /\ wpc' = [wpc EXCEPT ![w] = "release"]
  /\ UNCHANGED <<wread, addedCount, removedCount, cpc, todo, cur, taken,
                 reports, handled>>

WorkerRelease(w) ==
  /\ wpc[w] = "release"
  /\ local' = [local EXCEPT ![w] = 0]
  /\ wpc' = [wpc EXCEPT ![w] = "add"]
  /\ UNCHANGED <<wread, wtaken, addedCount, removedCount, cpc, todo, cur,
                 taken, reports, handled>>

WorkerAdd(w) ==
  /\ wpc[w] = "add"
  /\ removedCount' = removedCount + wtaken[w]
  /\ wpc' = [wpc EXCEPT ![w] = "finalized"]
  /\ UNCHANGED <<local, wread, wtaken, addedCount, cpc, todo, cur, taken,
                 reports, handled>>

-----------------------------------------------------------------------------
(* Clients: QueueProcessor::writeQueueStats, lines 196-220.  workerLock   *)
(* serialises clients, so at most one is inside the loop.                  *)

(* lines 196-197: take workerLock and start the loop over the workers *)
ReportStart(c) ==
  /\ cpc[c] = "idle"
  /\ \A d \in Clients : cpc[d] = "idle"
  /\ reports < MaxReports
  /\ reports' = reports + 1
  /\ todo' = [todo EXCEPT ![c] = Workers]
  /\ cpc' = [cpc EXCEPT ![c] = "loop"]
  /\ UNCHANGED <<local, wpc, wread, wtaken, addedCount, removedCount, cur,
                 taken, handled>>

(* line 201 -> updateStats, QueueConsumerWorker.h line 46:                *)
(* removed = __sync_lock_test_and_set(ptr, 0)                             *)
ClientSwap(c) ==
  /\ cpc[c] = "loop"
  /\ \E w \in todo[c] :
       /\ cur' = [cur EXCEPT ![c] = w]
       /\ todo' = [todo EXCEPT ![c] = @ \ {w}]
       /\ taken' = [taken EXCEPT ![c] = local[w]]
       /\ local' = [local EXCEPT ![w] = 0]
  /\ cpc' = [cpc EXCEPT ![c] = "release"]
  /\ UNCHANGED <<wpc, wread, wtaken, addedCount, removedCount, reports,
                 handled>>

(* line 47: __sync_lock_release(ptr) writes 0 again *)
ClientRelease(c) ==
  /\ cpc[c] = "release"
  /\ local' = [local EXCEPT ![cur[c]] = 0]
  /\ cpc' = [cpc EXCEPT ![c] = "add"]
  /\ UNCHANGED <<wpc, wread, wtaken, addedCount, removedCount, todo, cur,
                 taken, reports, handled>>

(* line 48 -> QueueStats::incrementRemovedCount(increment), line 48:     *)
(* __sync_fetch_and_add; the loop goes on, or workerLock is released and *)
(* the stats are copied and printed (lines 204-219)                       *)
ClientAdd(c) ==
  /\ cpc[c] = "add"
  /\ removedCount' = removedCount + taken[c]
  /\ cpc' = [cpc EXCEPT ![c] = IF todo[c] = {} THEN "idle" ELSE "loop"]
  /\ UNCHANGED <<local, wpc, wread, wtaken, addedCount, todo, cur, taken,
                 reports, handled>>

-----------------------------------------------------------------------------
Next ==
  \/ Add
  \/ \E w \in Workers :
       IncLoad(w) \/ IncStore(w) \/ WorkerSwap(w) \/ WorkerRelease(w)
       \/ WorkerAdd(w)
  \/ \E c \in Clients :
       ReportStart(c) \/ ClientSwap(c) \/ ClientRelease(c) \/ ClientAdd(c)

Spec == Init /\ [][Next]_vars

-----------------------------------------------------------------------------
(* Properties.                                                             *)

(* QueueProcessor.cpp:206-216: the read counts are only ever older than   *)
(* the write counts, so the queue "may appear larger": the removedCount   *)
(* of the queue's stats never exceeds the entries the workers have        *)
(* actually removed                                                        *)
RemovedNeverOvercounted == removedCount <= SumFunction(handled)

=============================================================================
