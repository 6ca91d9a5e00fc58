---------------------------- MODULE SampleCount ----------------------------
(***************************************************************************)
(* How sample/testQueues.cpp counts the entries its consumers handled.    *)
(* QueueProcessor's constructor (consumer/QueueProcessor.h:84-91) gives    *)
(* worker i the consumer workerConsumers[min(size - 1, i)], so when there  *)
(* are more workers than consumers (main: 8 workers, 5 consumers) the last *)
(* consumer is shared.  SampleQueueEntryConsumer::handle increments its    *)
(* count with a plain count++ (a load and a store).  main, once the adder  *)
(* threads are joined, counts down totalExpected by swapping each          *)
(* consumer's count to 0, for at most three rounds (testQueues.cpp:168-184)*)
(*                                                                         *)
(* The queue is abstracted to the number of entries not yet handled: the  *)
(* adders have returned before main counts, and any worker may take the    *)
(* next entry.  Every entry of the sample is a SampleQueueEntry1 or 2, so  *)
(* handle always counts it.                                                *)
(***************************************************************************)
EXTENDS Naturals, Functions

CONSTANTS
  NumWorkers,    \* numWorkerThreads
  NumConsumers,  \* the size of workerConsumers
  Entries,       \* totalExpected: the entries the adders added
  Rounds,        \* the rounds of main's counting loop (3 in main)
  UIntBits       \* the width of UINT_32 count and totalExpected

ASSUME NumConsumers >= 1 /\ NumWorkers >= 1 /\ Entries < 2^UIntBits

VARIABLES
  left,          \* entries in the queue not yet taken by a worker
  wpc,           \* worker: "take" or "store" (between count's load and store)
  wread,         \* the value of count the worker's count++ loaded
  count,         \* SampleQueueEntryConsumer::count, per consumer
  counted,       \* history: the increments each worker has completed
  mpc,           \* main: "count", "consumer", "done"
  j,             \* main's loop index over the consumers
  rounds,        \* main's rounds
  totalExpected  \* main's totalExpected

vars == <<left, wpc, wread, count, counted, mpc, j, rounds, totalExpected>>

Worker == 0 .. NumWorkers - 1
Consumer == 0 .. NumConsumers - 1

(* the consumer QueueProcessor's constructor gives worker w *)
ConsumerOf(w) == IF NumConsumers - 1 < w THEN NumConsumers - 1 ELSE w

(* UINT_32 subtraction, totalExpected -= removed *)
USub(a, b) == (a - b) % 2^UIntBits

Init ==
  /\ left = Entries
  /\ wpc = [w \in Worker |-> "take"]
  /\ wread = [w \in Worker |-> 0]
  /\ count = [c \in Consumer |-> 0]
  /\ counted = [w \in Worker |-> 0]
  /\ mpc = "count"
  /\ j = 0
  /\ rounds = 0
  /\ totalExpected = Entries

-----------------------------------------------------------------------------
(* Workers: QueueConsumerWorker::doWork removes an entry and calls        *)
(* consumer->handle, SampleQueueEntryConsumer.h:22-34.                     *)

(* the entry is taken, setStatus delivered, and count++ loads count *)
HandleLoad(w) ==
  /\ wpc[w] = "take"
  /\ left > 0
  /\ left' = left - 1
  /\ wread' = [wread EXCEPT ![w] = count[ConsumerOf(w)]]
  /\ wpc' = [wpc EXCEPT ![w] = "store"]
  /\ UNCHANGED <<count, counted, mpc, j, rounds, totalExpected>>

(* count++ stores the value it loaded plus one (lines 28, 32) *)
HandleStore(w) ==
  /\ wpc[w] = "store"
  /\ count' = [count EXCEPT ![ConsumerOf(w)] = (wread[w] + 1) % 2^UIntBits]
  /\ counted' = [counted EXCEPT ![w] = @ + 1]
  /\ wpc' = [wpc EXCEPT ![w] = "take"]
  /\ UNCHANGED <<left, wread, mpc, j, rounds, totalExpected>>

-----------------------------------------------------------------------------
(* main, testQueues.cpp:168-184.                                           *)

(* line 171: while(totalExpected > 0 && rounds++ < 3); after the sleep    *)
(* the loop starts at the last consumer, or main reports what is missing  *)
(* (lines 182-183) and goes on to writeQueueStats and terminate           *)
RoundCheck ==
  /\ mpc = "count"
  /\ IF totalExpected > 0 /\ rounds < Rounds
     THEN /\ mpc' = "consumer"
          /\ j' = NumConsumers - 1
     ELSE /\ mpc' = "done"
          /\ UNCHANGED j
  /\ rounds' = IF totalExpected > 0 THEN rounds + 1 ELSE rounds
  /\ UNCHANGED <<left, wpc, wread, count, counted, totalExpected>>

(* lines 175-178: removed = __sync_lock_test_and_set(&count, 0);          *)
(* totalExpected -= removed; the loop goes down to consumer 0             *)
TakeCount ==
  /\ mpc = "consumer"
  /\ count' = [count EXCEPT ![j] = 0]
  /\ totalExpected' = USub(totalExpected, count[j])
  /\ j' = IF j > 0 THEN j - 1 ELSE 0
  /\ mpc' = IF j > 0 THEN "consumer" ELSE "count"
  /\ UNCHANGED <<left, wpc, wread, counted, rounds>>

(* main has finished counting and every worker waits for more work *)
Finished ==
  /\ mpc = "done"
  /\ \A w \in Worker : wpc[w] = "take"
  /\ left = 0
  /\ UNCHANGED vars

Next ==
  \/ \E w \in Worker : HandleLoad(w) \/ HandleStore(w)
  \/ RoundCheck \/ TakeCount \/ Finished

Spec == Init /\ [][Next]_vars

-----------------------------------------------------------------------------
(* Properties.                                                             *)

(* SampleQueueEntryConsumer.h:20 says each worker has its own consumer,  *)
(* so count++ needs no thread-safety, and main counts totalExpected down *)
(* by the counts it swaps out: every completed handle is counted exactly *)
(* once, still in a consumer's count or already taken off totalExpected  *)
CountAccounted ==
  USub(Entries, totalExpected) + SumFunction(count) = SumFunction(counted)

=============================================================================
