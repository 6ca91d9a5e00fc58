---------------------------- MODULE MCSyncQueue ----------------------------
(***************************************************************************)
(* Model-checking instance of SyncQueue: model values for the threads and  *)
(* the disciplines a caller may follow for SyncQueue::endAccess.           *)
(***************************************************************************)
EXTENDS SyncQueue, TLC

CONSTANTS r1, r2, r3, w1, w2

MCReaders2 == {r1, r2}
MCReaders3 == {r1, r2, r3}
MCWriters1 == {w1}
MCWriters2 == {w1, w2}

(* readers register and stay, as the workers of a running QueueProcessor *)
NeverLeave(r) == FALSE

(* only a reader whose last check found its slot empty leaves: a worker   *)
(* stopped while waiting for work                                         *)
WaitingLeave(r) == ~isDone[r]

(* only a reader that has handled its slot leaves: a worker stopped right *)
(* after doWork returned                                                   *)
DoneLeave(r) == isDone[r]

(* The state without the values no later step reads: the index and the   *)
(* history of a ReaderIndex outside the list (add assigns them afresh)    *)
(* and the previous pointer of the back, which the code leaves dangling.  *)
LiveView ==
  <<queueVars, writerVars, front, back, next,
    [r \in Readers |-> IF r = back THEN NULL ELSE prev[r]],
    [r \in Readers |-> IF inQueue[r] THEN idx[r] ELSE 0],
    isDone, inQueue, readerVars, consumed,
    [r \in Readers |-> IF inQueue[r] THEN lastHandled[r] ELSE 0]>>

ReaderSymmetry == Permutations(Readers)

(* isEmpty's loads as the source reads: the left operand's call (writeIndex,  *)
(* then readIndex in its body) before the right one's                         *)
LeftFirst ==
  <<[op |-> "w", kind |-> "arg"], [op |-> "w", kind |-> "base"],
    [op |-> "m", kind |-> "arg"], [op |-> "m", kind |-> "base"]>>

(* the right operand's call first *)
RightFirst ==
  <<[op |-> "m", kind |-> "arg"], [op |-> "m", kind |-> "base"],
    [op |-> "w", kind |-> "arg"], [op |-> "w", kind |-> "base"]>>

(* isEmpty never reports a slot populated that was not populated when its *)
(* result was taken (the comment of SyncQueue::isEmpty, SyncQueue.cpp:23-27)  *)
NoTornRead == ~tornRead

=============================================================================
