-------------------------- MODULE MCResultReceiver --------------------------
(* Two producers, each blocking on its own ResultReceiver, as the adder   *)
(* threads of sample/testQueues.cpp do in their count3 loop.              *)
EXTENDS ResultReceiver, TLC

ProducerSymmetry == Permutations(Producers)
=============================================================================
