------------------------------ MODULE MCSample ------------------------------
(***************************************************************************)
(* The sample program, sample/testQueues.cpp, run against the pool of      *)
(* QueueProcessor: adder threads each run testPopulate (adds before        *)
(* start, start(), adds after), and the main thread terminates the         *)
(* processor once it has joined them.  The adds of the count3 loop, which  *)
(* block on a ResultReceiver, are plain adds here: the receiver is         *)
(* modelled in ResultReceiver and ReaderWriterQueue.                        *)
(***************************************************************************)
EXTENDS QueueProcessor, TLC

CONSTANTS w1, w2, a1, a2, main

VARIABLE step  \* the position of each adder thread in testPopulate

MCWorkerSeq == <<w1>>

(* testPopulate, lines 38-105, with count1 = 2 adds before start() and    *)
(* count2 + count3 = 1 add after it                                        *)
Script == <<"add", "add", "start", "add">>

(* main, lines 150-160: a QueueProducerInterface of queue size 3, not yet *)
(* started, and each adder thread at the start of testPopulate             *)
SampleInit ==
    /\ PoolInit
    /\ step = [t \in Producers |-> 1]

(* testPopulate: the adder's next call, operationsProcessor.add(data)     *)
(* (lines 53, 72, 80, 99) or operationsProcessor.start() (line 59)        *)
SampleCall(t) ==
    /\ t \in Producers
    /\ step[t] <= Len(Script)
    /\ IF Script[step[t]] = "add" THEN AddCall(t) ELSE StartCall(t)
    /\ step' = [step EXCEPT ![t] = @ + 1]

(* main, lines 165-187: testQueuesMultipleThreads joins every adder, then *)
(* processors[i]->terminate()                                              *)
MainTerminate(t) ==
    /\ t = main
    /\ \A a \in Producers : step[a] > Len(Script) /\ ppc[a] = "idle"
    /\ TerminateCall(t)
    /\ UNCHANGED step

SampleNext ==
    \/ \E t \in Callers :
         \/ SampleCall(t) \/ MainTerminate(t)
         \/ PoolStep(t) /\ UNCHANGED step
    \/ \E w \in Workers : WorkerThread(w) /\ UNCHANGED step
    \/ Finished /\ UNCHANGED step

SampleSpec == SampleInit /\ [][SampleNext]_<<vars, step>>

=============================================================================
