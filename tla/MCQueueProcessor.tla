--------------------------- MODULE MCQueueProcessor --------------------------
(***************************************************************************)
(* QueueProcessor instantiated for TLC: a workers vector of model values  *)
(* and small sets of user and producer threads.                           *)
(***************************************************************************)
EXTENDS QueueProcessor, TLC

CONSTANTS w1, w2, u1, p1, p2

MCWorkerSeq == <<w1, w2>>
MCWorkerSeqOne == <<w1>>

=============================================================================
