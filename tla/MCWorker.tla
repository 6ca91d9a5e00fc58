------------------------------ MODULE MCWorker ------------------------------
(***************************************************************************)
(* Worker driven the way QueueProcessor and QueueProducerInterface drive  *)
(* it: one control thread (QueueProcessor calls every control method      *)
(* under startLock, so one at a time) and producer threads that add an    *)
(* entry and then signal() every worker (QueueProcessor::broadcast).      *)
(***************************************************************************)
EXTENDS Worker, TLC

CONSTANTS
    ctl,          \* the control thread
    Producers,    \* producer threads
    MaxCalls,     \* bound on control calls
    MaxAdds       \* bound on entries added

ASSUME Callers = {ctl} \cup Producers

VARIABLES
    ctlCalls,        \* control calls made
    adds,         \* entries added
    toSignal      \* workers a producer has still to signal after its add

vars == <<workerVars, ctlCalls, adds, toSignal>>

MCInit ==
    /\ Init
    /\ ctlCalls = 0
    /\ adds = 0
    /\ toSignal = [p \in Producers |-> {}]

(* A control call, with the order QueueProcessor keeps: join only after   *)
(* stop, and the drain signal(true) only of a worker not paused.          *)
Control ==
    /\ ctlCalls < MaxCalls
    /\ ctlCalls' = ctlCalls + 1
    /\ \E w \in Workers :
         \/ CallStart(ctl, w)
         \/ \E b \in BOOLEAN : CallPause(ctl, w, b)
         \/ CallResume(ctl, w)
         \/ CallStop(ctl, w)
         \/ isTerminatedFlag[w] /\ CallJoin(ctl, w)
         \/ ~isPausedFlag[w] /\ CallSignal(ctl, w, TRUE)
    /\ UNCHANGED <<adds, toSignal>>

(* A producer's add succeeds (the queue has room). *)
Add(p) ==
    /\ toSignal[p] = {}
    /\ adds < MaxAdds
    /\ queued < MaxQueued
    /\ adds' = adds + 1
    /\ AddEntry
    /\ toSignal' = [toSignal EXCEPT ![p] = Workers]
    /\ UNCHANGED <<wpc, flagVars, condVars, cpc, cw, isDone, pauseHeld,
                   drained, ctlCalls>>

(* broadcast(): signal() one worker after the add. *)
Broadcast(p, w) ==
    /\ w \in toSignal[p]
    /\ CallSignal(p, w, FALSE)
    /\ toSignal' = [toSignal EXCEPT ![p] = @ \ {w}]
    /\ UNCHANGED <<ctlCalls, adds>>

(* Every thread idle and nothing left to do: the program may stop here. *)
Finished ==
    /\ ctlCalls = MaxCalls
    /\ adds = MaxAdds
    /\ \A c \in Callers : cpc[c] = "idle"
    /\ \A p \in Producers : toSignal[p] = {}
    /\ UNCHANGED vars

Worker(w) == WorkerStep(w) /\ UNCHANGED <<ctlCalls, adds, toSignal>>
Caller(c) == CallerStep(c) /\ UNCHANGED <<ctlCalls, adds, toSignal>>

MCNext ==
    \/ \E w \in Workers : Worker(w)
    \/ \E c \in Callers : Caller(c)
    \/ Control
    \/ \E p \in Producers : Add(p)
    \/ \E p \in Producers, w \in Workers : Broadcast(p, w)
    \/ Finished

(* Threads are scheduled fairly: a runnable worker thread runs, a woken   *)
(* caller continues, and a producer signals after its add.  Making a new  *)
(* call or adding an entry is never forced.                               *)
MCSpec ==
    /\ MCInit /\ [][MCNext]_vars
    /\ \A w \in Workers : WF_vars(Worker(w))
    /\ \A c \in Callers : WF_vars(Caller(c))
    /\ \A p \in Producers, w \in Workers : WF_vars(Broadcast(p, w))

(* The same, with condition waits that may also return without a signal, *)
(* as pthread_cond_wait may (Spurious).                                   *)
MCSpuriousNext ==
    \/ MCNext
    \/ SpuriousWakeup /\ UNCHANGED <<ctlCalls, adds, toSignal>>

MCSpuriousSpec ==
    /\ MCInit /\ [][MCSpuriousNext]_vars
    /\ \A w \in Workers : WF_vars(Worker(w))
    /\ \A c \in Callers : WF_vars(Caller(c))
    /\ \A p \in Producers, w \in Workers : WF_vars(Broadcast(p, w))

WorkerSymmetry == Permutations(Workers)

=============================================================================
