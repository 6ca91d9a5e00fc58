----------------------------- MODULE FifoQueue -----------------------------
(***************************************************************************)
(* What a queue with one consumer promises (queue/ReaderWriterQueue.h,     *)
(* "add" and "remove"): entries are numbered in the order they are added,  *)
(* the consumer takes the oldest one not yet taken, handles it, and only   *)
(* then takes the next.  Nothing is lost, duplicated or reordered.         *)
(***************************************************************************)
EXTENDS Naturals, Sequences

VARIABLES
  waiting,   \* entries added and not yet taken, oldest first
  held,      \* the entry the consumer is handling, 0 when none
  done,      \* the entries handled, in the order they were handled
  count      \* the number of entries added so far

fifoVars == <<waiting, held, done, count>>

Init ==
  /\ waiting = <<>>
  /\ held = 0
  /\ done = <<>>
  /\ count = 0

(* a producer adds the next entry at the back *)
Add ==
  /\ count' = count + 1
  /\ waiting' = Append(waiting, count + 1)
  /\ UNCHANGED <<held, done>>

(* the consumer takes the oldest entry *)
Take ==
  /\ held = 0
  /\ waiting # <<>>
  /\ held' = Head(waiting)
  /\ waiting' = Tail(waiting)
  /\ UNCHANGED <<done, count>>

(* the consumer finishes handling the entry it took *)
Finish ==
  /\ held # 0
  /\ done' = Append(done, held)
  /\ held' = 0
  /\ UNCHANGED <<waiting, count>>

Next == Add \/ Take \/ Finish

(* a consumer that keeps running takes and finishes every entry added *)
FairSpec == Init /\ [][Next]_fifoVars /\ WF_fifoVars(Take) /\ WF_fifoVars(Finish)

=============================================================================
