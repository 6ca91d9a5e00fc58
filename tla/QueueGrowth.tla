----------------------------- MODULE QueueGrowth -----------------------------
(***************************************************************************)
(* The growth of one queue under the resize loop of                        *)
(* QueueProducerInterface::addToQueue: while an adder finds the queue full *)
(* and checkResizable finds it below MAX_QUEUE_SIZE, it resizes to         *)
(* getNewQueueSize() (ProcessorQueueAdder::resize), and                    *)
(* ReaderWriterQueue::resize ignores a size that is not larger.  The       *)
(* queue may start at any size the constructor accepts and the entry type  *)
(* may give any cap, so the behaviours cover every current size, the ones  *)
(* where doubling overflows the unsigned word included.  Words are         *)
(* UIntBits wide (ProcessingQueue).                                        *)
(***************************************************************************)
EXTENDS ProcessingQueue

VARIABLES
  size,   \* ProcessingQueue::currentSize
  cap     \* MAX_QUEUE_SIZE(getEntrySize()), fixed by the entry type

vars == <<size, cap>>

(* every size a queue can have: the constructor takes any unsigned but 0, *)
(* for which nextIndex would divide by zero                               *)
GrowthSizes == 1 .. UINT_MAX

(* every cap MAX_QUEUE_SIZE can take: 500 MiB over an entry of at least  *)
(* a 4-byte pointer is below 2^27 with 32-bit words, so the caps run     *)
(* from 0 up to UINT_MAX / 32, scaled to the width                       *)
GrowthCaps == 0 .. (UINT_MAX + 1) \div 32

Init ==
  /\ size \in GrowthSizes
  /\ cap \in GrowthCaps

(* Fault variant of IsMaxSize: a queue exactly at the cap is not at it *)
IsMaxSizeStrict == size > cap

(* ProcessorQueueAdder::isMaxSize (QueueProducerInterface.cpp:26-28) *)
IsMaxSize == size >= cap

(* addToQueue, lines 64-71, for a queue that is full: checkResizable finds *)
(* it below the cap, the adder resizes to getNewQueueSize(), and          *)
(* ReaderWriterQueue::resize (lines 92-95, 101) keeps the current size    *)
(* unless the new one is larger                                           *)
Resize ==
  /\ ~IsMaxSize
  /\ LET ns == GetNewQueueSize(size, cap)
     IN  size' = IF size >= ns THEN size ELSE ns
  /\ UNCHANGED cap

(* checkResizable, lines 80-85: at the cap the adder spins on add() until *)
(* a worker frees a slot; the size no longer changes                      *)
SpinAtMax ==
  /\ IsMaxSize
  /\ UNCHANGED vars

Next == Resize \/ SpinAtMax

(* an adder that keeps finding the queue full keeps resizing it *)
Spec == Init /\ [][Next]_vars /\ WF_vars(Resize)

-----------------------------------------------------------------------------
(* Properties.                                                             *)

(* what the growth rule is meant to compute: twice the size, never more *)
(* than the cap                                                          *)
GrowthReference(cur, maxSize) ==
  IF 2 * cur > maxSize THEN maxSize ELSE 2 * cur

(* getNewQueueSize returns twice the current size, capped at             *)
(* MAX_QUEUE_SIZE, whatever the size, including those where doubling     *)
(* overflows the word (ProcessingQueue.cpp:16-19)                         *)
GrowthMatchesReference ==
  GetNewQueueSize(size, cap) = GrowthReference(size, cap)

(* an adder that keeps finding the queue full brings it to MAX_QUEUE_SIZE, *)
(* after which checkResizable stops resizing                                *)
ReachesMaxSize == <>IsMaxSize

=============================================================================
