------------------------------- MODULE Worker -------------------------------
(***************************************************************************)
(* The consumer thread of consumer/Worker.cpp, with the hooks of          *)
(* consumer/QueueConsumerWorker.cpp, and the methods other threads call   *)
(* on it (start, stop, pause, resume, signal, join).                      *)
(*                                                                         *)
(* Every Worker mutex section that contains no wait is one step: the      *)
(* Worker locks are never held from one step to the next, except across   *)
(* the wait of a condition variable, which releases the lock.  A          *)
(* condition variable is the set of threads blocked in its wait; signal   *)
(* removes one waiter, any one (pthread_cond_signal), broadcast removes   *)
(* all, and a woken thread continues in a later step of its own.          *)
(*                                                                         *)
(* The shared SyncQueue the workers read is abstracted to the number of   *)
(* entries waiting, queued, and for each worker's reader its isDone flag  *)
(* (the entry it returned and has not yet moved past) and slotFull, whether *)
(* the slot its cursor is on holds an entry it has not taken.  The other  *)
(* queued entries lie beyond the front reader, where the next reader to   *)
(* move to the front finds them; SyncQueue.tla models the slots.          *)
(***************************************************************************)
EXTENDS Naturals, FiniteSets

CONSTANTS
    Workers,        \* worker objects (and their threads)
    Callers,        \* threads that call Worker methods
    MaxQueued,      \* bound on queued
    Spurious,       \* whether a condition wait may return without a signal
    HandlerMayThrow \* whether consumer->handle may throw

ASSUME Spurious \in BOOLEAN /\ HandlerMayThrow \in BOOLEAN
ASSUME Workers \cap Callers = {}

VARIABLES
    wpc,              \* position of each worker thread in Worker::run
    isStartedFlag, isPausedFlag, isIdleFlag, isTerminatedFlag,
    isDeadFlag, isWaitingFlag, haveWorkJoiners,
    workWaiters,      \* threads in isWorkWaiting.wait
    idleWaiters,      \* callers in isIdle.wait
    pausedWaiters,    \* worker threads in hasPaused.wait
    diedWaiters,      \* callers in hasDied.wait
    cpc,              \* position of each caller inside a Worker method
    cw,               \* the worker a caller is calling
    queued,           \* entries waiting in the shared queue
    isDone,           \* the reader's ReaderIndex::isDone
    slotFull,         \* the reader's slot holds an entry not yet taken
    pauseHeld,        \* history: a blocking pause returned and holds
    drained           \* history: the worker finished doWork during signal(true)

flagVars == <<isStartedFlag, isPausedFlag, isIdleFlag, isTerminatedFlag,
              isDeadFlag, isWaitingFlag, haveWorkJoiners>>
condVars == <<workWaiters, idleWaiters, pausedWaiters, diedWaiters>>
workerVars == <<wpc, flagVars, condVars, cpc, cw, queued, isDone,
                slotFull, pauseHeld, drained>>

Threads == Workers \cup Callers

WorkerPcs == {"unstarted", "init", "loop", "pause", "parked", "doWork",
              "idleCheck", "waiting", "check", "catch", "catch2",
              "finalize", "signalDead", "deadSignal", "dead"}
CallerPcs == {"idle", "sigwait", "pausewait", "joinwait", "stopResume",
              "stopSignal", "stopIdle", "stopUnstarted", "stopDead"}

(* The sets of waiters one signal can leave: one waiter is removed. *)
SignalOne(S) == IF S = {} THEN {S} ELSE {S \ {t} : t \in S}

(* The waiters a broadcast leaves: none. *)
BroadcastAll(S) == {}

(* Thread::start: pthread_create runs threadEntry, which calls the        *)
(* worker's run(); the new thread is at the top of Worker::run.           *)
LaunchThread(w) == wpc' = [wpc EXCEPT ![w] = "init"]

(* Worker constructor: every flag false, no thread waiting; with started, *)
(* followed by start().                                                   *)
FreshWorkers(started) ==
    /\ wpc = [w \in Workers |-> IF started THEN "init" ELSE "unstarted"]
    /\ isStartedFlag = [w \in Workers |-> started]
    /\ isPausedFlag = [w \in Workers |-> FALSE]
    /\ isIdleFlag = [w \in Workers |-> FALSE]
    /\ isTerminatedFlag = [w \in Workers |-> FALSE]
    /\ isDeadFlag = [w \in Workers |-> FALSE]
    /\ isWaitingFlag = [w \in Workers |-> FALSE]
    /\ haveWorkJoiners = [w \in Workers |-> FALSE]
    /\ workWaiters = [w \in Workers |-> {}]
    /\ idleWaiters = [w \in Workers |-> {}]
    /\ pausedWaiters = [w \in Workers |-> {}]
    /\ diedWaiters = [w \in Workers |-> {}]

InitWith(started) ==
    /\ FreshWorkers(started)
    /\ cpc = [c \in Callers |-> "idle"]
    /\ cw = [c \in Callers |-> CHOOSE w \in Workers : TRUE]
    /\ queued = 0
    /\ isDone = [w \in Workers |-> FALSE]
    /\ slotFull = [w \in Workers |-> FALSE]
    /\ pauseHeld = [w \in Workers |-> FALSE]
    /\ drained = [c \in Callers |-> FALSE]

Init == InitWith(FALSE)

(* new QueueConsumerWorker(...) followed by start(): a fresh Worker       *)
(* object in place of w, its thread launched.                             *)
CreateStarted(w) ==
    /\ LaunchThread(w)
    /\ isStartedFlag' = [isStartedFlag EXCEPT ![w] = TRUE]
    /\ isPausedFlag' = [isPausedFlag EXCEPT ![w] = FALSE]
    /\ isIdleFlag' = [isIdleFlag EXCEPT ![w] = FALSE]
    /\ isTerminatedFlag' = [isTerminatedFlag EXCEPT ![w] = FALSE]
    /\ isDeadFlag' = [isDeadFlag EXCEPT ![w] = FALSE]
    /\ isWaitingFlag' = [isWaitingFlag EXCEPT ![w] = FALSE]
    /\ haveWorkJoiners' = [haveWorkJoiners EXCEPT ![w] = FALSE]
    /\ workWaiters' = [workWaiters EXCEPT ![w] = {}]
    /\ idleWaiters' = [idleWaiters EXCEPT ![w] = {}]
    /\ pausedWaiters' = [pausedWaiters EXCEPT ![w] = {}]
    /\ diedWaiters' = [diedWaiters EXCEPT ![w] = {}]
    /\ isDone' = [isDone EXCEPT ![w] = FALSE]
    /\ slotFull' = [slotFull EXCEPT ![w] = FALSE]
    /\ pauseHeld' = [pauseHeld EXCEPT ![w] = FALSE]

-----------------------------------------------------------------------------
(* The shared queue as the readers see it.                                 *)

(* Queued entries on no reader's slot: those beyond the front reader.    *)
Pool == queued - Cardinality({w \in Workers : slotFull[w]})

(* Readers registered with startAccess and not yet removed by endAccess. *)
Registered(w) ==
    wpc[w] \notin {"unstarted", "init", "signalDead", "deadSignal", "dead"}

(* Readers on a slot they have not consumed that is still empty. *)
Waiting == {w \in Workers : Registered(w) /\ ~isDone[w] /\ ~slotFull[w]}

(* ReaderWriterQueue::add writes the slot at writeIndex.  Slots are      *)
(* written in order, and every slot from the back reader to the front is *)
(* consumed or held, so the slot written is a waiting reader's, if there  *)
(* is one (which one depends on the slots' order, abstracted away), and   *)
(* otherwise the first slot beyond the front.                             *)
AddEntry ==
    /\ queued' = queued + 1
    /\ IF Waiting = {} THEN UNCHANGED slotFull
       ELSE \E w \in Waiting : slotFull' = [slotFull EXCEPT ![w] = TRUE]

(* The slot remove() reads: a done reader first moves to the front, onto *)
(* the first slot beyond it (SyncReaderList::moveToFront).                *)
HasEntry(w) == IF isDone[w] THEN Pool > 0 ELSE slotFull[w]

-----------------------------------------------------------------------------
(* The worker thread, Worker::run.                                         *)

(* init(): QueueConsumerWorker::init, startAccess on the shared queue. *)
(* SyncReaderList::add puts the reader at the readIndex of an empty list, *)
(* or on the first slot beyond the front, not yet done: either is the     *)
(* first slot no reader holds, populated when the pool is not empty.      *)
WInit(w) ==
    /\ wpc[w] = "init"
    /\ wpc' = [wpc EXCEPT ![w] = "loop"]
    /\ isDone' = [isDone EXCEPT ![w] = FALSE]
    /\ slotFull' = [slotFull EXCEPT ![w] = Pool > 0]
    /\ UNCHANGED <<flagVars, condVars, cpc, cw, queued, pauseHeld, drained>>

(* Line 33: the unlocked test of isPausedFlag. *)
WLoop(w) ==
    /\ wpc[w] = "loop"
    /\ wpc' = [wpc EXCEPT ![w] = IF isPausedFlag[w] THEN "pause" ELSE "doWork"]
    /\ UNCHANGED <<flagVars, condVars, cpc, cw, queued, isDone, slotFull, pauseHeld, drained>>

(* Lines 34-38 under hasPausedLock: report idle and park on hasPaused. *)
WPause(w) ==
    /\ wpc[w] = "pause"
    /\ IF isPausedFlag[w] /\ ~isTerminatedFlag[w]
         THEN /\ isIdleFlag' = [isIdleFlag EXCEPT ![w] = TRUE]
              /\ \E rest \in SignalOne(idleWaiters[w]) :
                    idleWaiters' = [idleWaiters EXCEPT ![w] = rest]
              /\ pausedWaiters' = [pausedWaiters EXCEPT ![w] = @ \cup {w}]
              /\ wpc' = [wpc EXCEPT ![w] = "parked"]
         ELSE /\ wpc' = [wpc EXCEPT ![w] = "check"]
              /\ UNCHANGED <<isIdleFlag, idleWaiters, pausedWaiters>>
    /\ UNCHANGED <<isStartedFlag, isPausedFlag, isTerminatedFlag, isDeadFlag,
                   isWaitingFlag, haveWorkJoiners, workWaiters, diedWaiters,
                   cpc, cw, queued, isDone, slotFull, pauseHeld, drained>>

(* Lines 39-41: woken from hasPaused, clear isIdleFlag, back to the loop test. *)
WUnpark(w) ==
    /\ wpc[w] = "parked"
    /\ w \notin pausedWaiters[w]
    /\ isIdleFlag' = [isIdleFlag EXCEPT ![w] = FALSE]
    /\ wpc' = [wpc EXCEPT ![w] = "check"]
    /\ UNCHANGED <<isStartedFlag, isPausedFlag, isTerminatedFlag, isDeadFlag,
                   isWaitingFlag, haveWorkJoiners, condVars, cpc, cw, queued,
                   isDone, slotFull, pauseHeld, drained>>

(* Callers blocked in signal(true) on w see the worker drain. *)
MarkDrained(w) ==
    drained' = [c \in Callers |->
                  drained[c] \/ (cpc[c] = "sigwait" /\ cw[c] = w)]

(* Fault variant of WDoWorkEntry: remove() skips the isEmpty test. *)
WDoWorkEntryUnguarded(w) ==
    /\ wpc[w] = "doWork"
    /\ queued' = queued - 1
    /\ isDone' = [isDone EXCEPT ![w] = TRUE]
    /\ slotFull' = [slotFull EXCEPT ![w] = FALSE]
    /\ wpc' = [wpc EXCEPT ![w] = "check"]
    /\ MarkDrained(w)
    /\ UNCHANGED <<flagVars, condVars, cpc, cw, pauseHeld>>

(* Line 43, doWork: remove() moves a done reader on, then takes an entry  *)
(* if there is one and handles it; returns true.                          *)
WDoWorkEntry(w) ==
    /\ wpc[w] = "doWork"
    /\ HasEntry(w)
    /\ queued' = queued - 1
    /\ isDone' = [isDone EXCEPT ![w] = TRUE]
    /\ slotFull' = [slotFull EXCEPT ![w] = FALSE]
    /\ wpc' = [wpc EXCEPT ![w] = "check"]
    /\ MarkDrained(w)
    /\ UNCHANGED <<flagVars, condVars, cpc, cw, pauseHeld>>

(* doWork with an entry whose handler throws: the catch block follows. *)
WDoWorkThrow(w) ==
    /\ HandlerMayThrow
    /\ wpc[w] = "doWork"
    /\ HasEntry(w)
    /\ queued' = queued - 1
    /\ isDone' = [isDone EXCEPT ![w] = TRUE]
    /\ slotFull' = [slotFull EXCEPT ![w] = FALSE]
    /\ wpc' = [wpc EXCEPT ![w] = "catch"]
    /\ MarkDrained(w)
    /\ UNCHANGED <<flagVars, condVars, cpc, cw, pauseHeld>>

(* doWork with the reader's slot empty: remove() returns the null entry, *)
(* the reader left on an empty slot it has not consumed.                   *)
WDoWorkEmpty(w) ==
    /\ wpc[w] = "doWork"
    /\ ~HasEntry(w)
    /\ isDone' = [isDone EXCEPT ![w] = FALSE]
    /\ wpc' = [wpc EXCEPT ![w] = "idleCheck"]
    /\ MarkDrained(w)
    /\ UNCHANGED <<flagVars, condVars, cpc, cw, queued, slotFull, pauseHeld>>

(* QueueConsumerWorker::isWork: !isEmpty on the reader's own slot, the   *)
(* slot remove() left it on.                                              *)
IsWork(w) == slotFull[w]

(* Fault variant of WIdleCheck: the wait does not re-test isWork(). *)
WIdleCheckNoRecheck(w) ==
    /\ wpc[w] = "idleCheck"
    /\ IF ~isTerminatedFlag[w] /\ ~isPausedFlag[w]
         THEN /\ isWaitingFlag' = [isWaitingFlag EXCEPT ![w] = TRUE]
              /\ workWaiters' = [workWaiters EXCEPT ![w] =
                                   (IF haveWorkJoiners[w] THEN BroadcastAll(@) ELSE @) \cup {w}]
              /\ wpc' = [wpc EXCEPT ![w] = "waiting"]
              /\ MarkDrained(w)
         ELSE /\ wpc' = [wpc EXCEPT ![w] = "check"]
              /\ UNCHANGED <<isWaitingFlag, workWaiters, drained>>
    /\ UNCHANGED <<isStartedFlag, isPausedFlag, isIdleFlag, isTerminatedFlag,
                   isDeadFlag, haveWorkJoiners, idleWaiters, pausedWaiters,
                   diedWaiters, cpc, cw, queued, isDone, slotFull, pauseHeld>>

(* Fault variant of WIdleCheck: waiting for work also marks the worker  *)
(* idle.                                                                   *)
WIdleCheckMarksIdle(w) ==
    /\ wpc[w] = "idleCheck"
    /\ IF ~IsWork(w) /\ ~isTerminatedFlag[w] /\ ~isPausedFlag[w]
         THEN /\ isWaitingFlag' = [isWaitingFlag EXCEPT ![w] = TRUE]
              /\ isIdleFlag' = [isIdleFlag EXCEPT ![w] = TRUE]
              /\ workWaiters' = [workWaiters EXCEPT ![w] =
                                   (IF haveWorkJoiners[w] THEN BroadcastAll(@) ELSE @) \cup {w}]
              /\ wpc' = [wpc EXCEPT ![w] = "waiting"]
              /\ MarkDrained(w)
         ELSE /\ wpc' = [wpc EXCEPT ![w] = "check"]
              /\ UNCHANGED <<isWaitingFlag, isIdleFlag, workWaiters, drained>>
    /\ UNCHANGED <<isStartedFlag, isPausedFlag, isTerminatedFlag,
                   isDeadFlag, haveWorkJoiners, idleWaiters, pausedWaiters,
                   diedWaiters, cpc, cw, queued, isDone, slotFull, pauseHeld>>

(* Lines 44-53 under isWorkLock: with no work and neither paused nor      *)
(* terminated, release the drain joiners and wait on isWorkWaiting.       *)
WIdleCheck(w) ==
    /\ wpc[w] = "idleCheck"
    /\ IF ~IsWork(w) /\ ~isTerminatedFlag[w] /\ ~isPausedFlag[w]
         THEN /\ isWaitingFlag' = [isWaitingFlag EXCEPT ![w] = TRUE]
              /\ workWaiters' = [workWaiters EXCEPT ![w] =
                                   (IF haveWorkJoiners[w] THEN BroadcastAll(@) ELSE @) \cup {w}]
              /\ wpc' = [wpc EXCEPT ![w] = "waiting"]
              /\ MarkDrained(w)
         ELSE /\ wpc' = [wpc EXCEPT ![w] = "check"]
              /\ UNCHANGED <<isWaitingFlag, workWaiters, drained>>
    /\ UNCHANGED <<isStartedFlag, isPausedFlag, isIdleFlag, isTerminatedFlag,
                   isDeadFlag, haveWorkJoiners, idleWaiters, pausedWaiters,
                   diedWaiters, cpc, cw, queued, isDone, slotFull, pauseHeld>>

(* Lines 55-57: woken from isWorkWaiting. *)
WWake(w) ==
    /\ wpc[w] = "waiting"
    /\ w \notin workWaiters[w]
    /\ isWaitingFlag' = [isWaitingFlag EXCEPT ![w] = FALSE]
    /\ wpc' = [wpc EXCEPT ![w] = "check"]
    /\ UNCHANGED <<isStartedFlag, isPausedFlag, isIdleFlag, isTerminatedFlag,
                   isDeadFlag, haveWorkJoiners, condVars, cpc, cw, queued,
                   isDone, slotFull, pauseHeld, drained>>

(* Line 60: the loop condition. *)
WCheck(w) ==
    /\ wpc[w] = "check"
    /\ wpc' = [wpc EXCEPT ![w] = IF isTerminatedFlag[w] THEN "finalize" ELSE "loop"]
    /\ UNCHANGED <<flagVars, condVars, cpc, cw, queued, isDone, slotFull, pauseHeld, drained>>

(* Lines 64-73: terminate, and release a pauser if paused. *)
WCatch(w) ==
    /\ wpc[w] = "catch"
    /\ isTerminatedFlag' = [isTerminatedFlag EXCEPT ![w] = TRUE]
    /\ IF isPausedFlag[w]
         THEN /\ \E rest \in SignalOne(idleWaiters[w]) :
                    idleWaiters' = [idleWaiters EXCEPT ![w] = rest]
              /\ isIdleFlag' = [isIdleFlag EXCEPT ![w] = FALSE]
         ELSE UNCHANGED <<idleWaiters, isIdleFlag>>
    /\ wpc' = [wpc EXCEPT ![w] = "catch2"]
    /\ UNCHANGED <<isStartedFlag, isPausedFlag, isDeadFlag, isWaitingFlag,
                   haveWorkJoiners, workWaiters, pausedWaiters, diedWaiters,
                   cpc, cw, queued, isDone, slotFull, pauseHeld, drained>>

(* Lines 75-80: release the drain joiners. *)
WCatch2(w) ==
    /\ wpc[w] = "catch2"
    /\ workWaiters' = [workWaiters EXCEPT ![w] =
                         IF haveWorkJoiners[w] THEN BroadcastAll(@) ELSE @]
    /\ isWaitingFlag' = [isWaitingFlag EXCEPT ![w] = FALSE]
    /\ wpc' = [wpc EXCEPT ![w] = "finalize"]
    /\ UNCHANGED <<isStartedFlag, isPausedFlag, isIdleFlag, isTerminatedFlag,
                   isDeadFlag, haveWorkJoiners, idleWaiters, pausedWaiters,
                   diedWaiters, cpc, cw, queued, isDone, slotFull, pauseHeld, drained>>

(* Line 82: finalize(), endAccess on the shared queue: an entry left on  *)
(* the reader's slot stays queued for the other readers (SyncReaderList:: *)
(* remove moves a reader onto it; SyncQueue.tla models how).              *)
WFinalize(w) ==
    /\ wpc[w] = "finalize"
    /\ wpc' = [wpc EXCEPT ![w] = "signalDead"]
    /\ slotFull' = [slotFull EXCEPT ![w] = FALSE]
    /\ UNCHANGED <<flagVars, condVars, cpc, cw, queued, isDone, pauseHeld, drained>>

(* signalDead(), lines 87-88: under hasDiedLock, set isDeadFlag. *)
SetDead(w) == isDeadFlag' = [isDeadFlag EXCEPT ![w] = TRUE]

(* signalDead(), line 89: hasDied.signal(). *)
WakeJoiner(w) ==
    \E rest \in SignalOne(diedWaiters[w]) :
       diedWaiters' = [diedWaiters EXCEPT ![w] = rest]

(* signalDead() run by stop() for a worker never started (line 186): the *)
(* caller itself joins and deletes later, so one step.                     *)
SignalDead(w) == SetDead(w) /\ WakeJoiner(w)

(* Lines 83, 87-88 on the worker thread: hasDiedLock is taken and         *)
(* isDeadFlag set; the thread still holds the lock in "deadSignal".       *)
WSignalDead(w) ==
    /\ wpc[w] = "signalDead"
    /\ SetDead(w)
    /\ wpc' = [wpc EXCEPT ![w] = "deadSignal"]
    /\ UNCHANGED <<isStartedFlag, isPausedFlag, isIdleFlag, isTerminatedFlag,
                   isWaitingFlag, haveWorkJoiners, condVars, cpc, cw, queued,
                   isDone, slotFull, pauseHeld, drained>>

(* Lines 89-90: hasDied.signal() and hasDiedLock.release(); run() returns. *)
WDeadSignal(w) ==
    /\ wpc[w] = "deadSignal"
    /\ WakeJoiner(w)
    /\ wpc' = [wpc EXCEPT ![w] = "dead"]
    /\ UNCHANGED <<flagVars, workWaiters, idleWaiters, pausedWaiters, cpc, cw,
                   queued, isDone, slotFull, pauseHeld, drained>>

WorkerStep(w) ==
    \/ WInit(w) \/ WLoop(w) \/ WPause(w) \/ WUnpark(w) \/ WDoWorkEntry(w)
    \/ WDoWorkThrow(w) \/ WDoWorkEmpty(w) \/ WIdleCheck(w) \/ WWake(w)
    \/ WCheck(w) \/ WCatch(w) \/ WCatch2(w) \/ WFinalize(w) \/ WSignalDead(w)
    \/ WDeadSignal(w)

(* A condition wait returning with no signal, which POSIX permits. *)
SpuriousWakeup ==
    /\ Spurious
    /\ \E w \in Workers :
         \/ \E t \in workWaiters[w] :
               workWaiters' = [workWaiters EXCEPT ![w] = @ \ {t}]
               /\ UNCHANGED <<idleWaiters, pausedWaiters, diedWaiters>>
         \/ \E t \in idleWaiters[w] :
               idleWaiters' = [idleWaiters EXCEPT ![w] = @ \ {t}]
               /\ UNCHANGED <<workWaiters, pausedWaiters, diedWaiters>>
         \/ \E t \in pausedWaiters[w] :
               pausedWaiters' = [pausedWaiters EXCEPT ![w] = @ \ {t}]
               /\ UNCHANGED <<workWaiters, idleWaiters, diedWaiters>>
         \/ \E t \in diedWaiters[w] :
               diedWaiters' = [diedWaiters EXCEPT ![w] = @ \ {t}]
               /\ UNCHANGED <<workWaiters, idleWaiters, pausedWaiters>>
    /\ UNCHANGED <<wpc, flagVars, cpc, cw, queued, isDone, slotFull, pauseHeld, drained>>

-----------------------------------------------------------------------------
(* Worker methods called by other threads.  A call starts when the caller *)
(* is idle in the Worker (cpc = "idle") and ends when it is idle again.   *)

(* start(), lines 17-26: the first start before stop launches the thread. *)
CallStart(c, w) ==
    /\ cpc[c] = "idle"
    /\ IF ~isStartedFlag[w] /\ ~isTerminatedFlag[w]
         THEN /\ isStartedFlag' = [isStartedFlag EXCEPT ![w] = TRUE]
              /\ LaunchThread(w)
         ELSE UNCHANGED <<isStartedFlag, wpc>>
    /\ UNCHANGED <<isPausedFlag, isIdleFlag, isTerminatedFlag, isDeadFlag,
                   isWaitingFlag, haveWorkJoiners, condVars, cpc, cw, queued,
                   isDone, slotFull, pauseHeld, drained>>

(* signal(block), lines 103-111: wake the worker if it waits for work;     *)
(* with block, wait on the same condition until the worker drains.        *)
CallSignal(c, w, block) ==
    /\ cpc[c] = "idle"
    /\ LET joins == block /\ ~isTerminatedFlag[w] /\ isStartedFlag[w]
       IN /\ \E rest \in (IF isWaitingFlag[w] THEN SignalOne(workWaiters[w])
                                              ELSE {workWaiters[w]}) :
                workWaiters' = [workWaiters EXCEPT ![w] =
                                  rest \cup (IF joins THEN {c} ELSE {})]
          /\ haveWorkJoiners' = [haveWorkJoiners EXCEPT ![w] = @ \/ joins]
          /\ cpc' = [cpc EXCEPT ![c] = IF joins THEN "sigwait" ELSE "idle"]
          /\ drained' = [drained EXCEPT ![c] = FALSE]
    /\ cw' = [cw EXCEPT ![c] = w]
    /\ UNCHANGED <<wpc, isStartedFlag, isPausedFlag, isIdleFlag,
                   isTerminatedFlag, isDeadFlag, isWaitingFlag, idleWaiters,
                   pausedWaiters, diedWaiters, queued, isDone, slotFull, pauseHeld>>

(* Line 110 returns: the caller was woken from isWorkWaiting. *)
SignalReturn(c) ==
    /\ cpc[c] = "sigwait"
    /\ c \notin workWaiters[cw[c]]
    /\ cpc' = [cpc EXCEPT ![c] = "idle"]
    /\ UNCHANGED <<wpc, flagVars, condVars, cw, queued, isDone, slotFull, pauseHeld, drained>>

(* Fault variant of CallPause: the worker waiting for work is not woken. *)
CallPauseNoSignal(c, w, block) ==
    /\ cpc[c] = "idle"
    /\ IF ~isTerminatedFlag[w]
         THEN LET blocks == block /\ ~isIdleFlag[w] /\ isStartedFlag[w]
              IN /\ isPausedFlag' = [isPausedFlag EXCEPT ![w] = TRUE]
                 /\ idleWaiters' = [idleWaiters EXCEPT ![w] =
                                      @ \cup (IF blocks THEN {c} ELSE {})]
                 /\ cpc' = [cpc EXCEPT ![c] = IF blocks THEN "pausewait" ELSE "idle"]
                 /\ pauseHeld' = [pauseHeld EXCEPT ![w] =
                                    @ \/ (block /\ isStartedFlag[w] /\ ~blocks)]
         ELSE UNCHANGED <<isPausedFlag, idleWaiters, cpc, pauseHeld>>
    /\ cw' = [cw EXCEPT ![c] = w]
    /\ UNCHANGED <<wpc, isStartedFlag, isIdleFlag, isTerminatedFlag, isDeadFlag,
                   isWaitingFlag, haveWorkJoiners, workWaiters, pausedWaiters,
                   diedWaiters, queued, isDone, slotFull, drained>>

(* pause(block), lines 115-135: set isPausedFlag, wake the worker from a  *)
(* wait for work, and with block wait on isIdle unless already idle.      *)
CallPause(c, w, block) ==
    /\ cpc[c] = "idle"
    /\ IF ~isTerminatedFlag[w]
         THEN LET blocks == block /\ ~isIdleFlag[w] /\ isStartedFlag[w]
              IN /\ isPausedFlag' = [isPausedFlag EXCEPT ![w] = TRUE]
                 /\ \E rest \in (IF ~isPausedFlag[w] /\ isWaitingFlag[w]
                                   THEN SignalOne(workWaiters[w])
                                   ELSE {workWaiters[w]}) :
                       workWaiters' = [workWaiters EXCEPT ![w] = rest]
                 /\ idleWaiters' = [idleWaiters EXCEPT ![w] =
                                      @ \cup (IF blocks THEN {c} ELSE {})]
                 /\ cpc' = [cpc EXCEPT ![c] = IF blocks THEN "pausewait" ELSE "idle"]
                 /\ pauseHeld' = [pauseHeld EXCEPT ![w] =
                                    @ \/ (block /\ isStartedFlag[w] /\ ~blocks)]
         ELSE UNCHANGED <<isPausedFlag, workWaiters, idleWaiters, cpc, pauseHeld>>
    /\ cw' = [cw EXCEPT ![c] = w]
    /\ UNCHANGED <<wpc, isStartedFlag, isIdleFlag, isTerminatedFlag, isDeadFlag,
                   isWaitingFlag, haveWorkJoiners, pausedWaiters, diedWaiters,
                   queued, isDone, slotFull, drained>>

(* Line 131 returns: the caller was woken from isIdle. *)
PauseReturn(c) ==
    /\ cpc[c] = "pausewait"
    /\ c \notin idleWaiters[cw[c]]
    /\ cpc' = [cpc EXCEPT ![c] = "idle"]
    /\ pauseHeld' = [pauseHeld EXCEPT ![cw[c]] = ~isTerminatedFlag[cw[c]]]
    /\ UNCHANGED <<wpc, flagVars, condVars, cw, queued, isDone, slotFull, drained>>

(* The body of resume(), lines 139-146. *)
ResumeBody(w) ==
    /\ isPausedFlag' = [isPausedFlag EXCEPT ![w] = FALSE]
    /\ IF isPausedFlag[w]
         THEN \E rest \in SignalOne(pausedWaiters[w]) :
                 pausedWaiters' = [pausedWaiters EXCEPT ![w] = rest]
         ELSE UNCHANGED pausedWaiters
    /\ pauseHeld' = [pauseHeld EXCEPT ![w] = FALSE]

(* resume(), lines 138-147. *)
CallResume(c, w) ==
    /\ cpc[c] = "idle"
    /\ ResumeBody(w)
    /\ cw' = [cw EXCEPT ![c] = w]
    /\ UNCHANGED <<wpc, isStartedFlag, isIdleFlag, isTerminatedFlag, isDeadFlag,
                   isWaitingFlag, haveWorkJoiners, workWaiters, idleWaiters,
                   diedWaiters, cpc, queued, isDone, slotFull, drained>>

(* stop(), lines 151-157: set isTerminatedFlag, then read isStartedFlag   *)
(* (again under startLock if it was false).                               *)
CallStop(c, w) ==
    /\ cpc[c] = "idle"
    /\ isTerminatedFlag' = [isTerminatedFlag EXCEPT ![w] = TRUE]
    /\ cpc' = [cpc EXCEPT ![c] = IF isStartedFlag[w] THEN "stopResume"
                                                     ELSE "stopUnstarted"]
    /\ cw' = [cw EXCEPT ![c] = w]
    /\ pauseHeld' = [pauseHeld EXCEPT ![w] = FALSE]
    /\ UNCHANGED <<wpc, isStartedFlag, isPausedFlag, isIdleFlag, isDeadFlag,
                   isWaitingFlag, haveWorkJoiners, condVars, queued, isDone, slotFull, drained>>

(* stop(), line 163: resume(). *)
StopResume(c) ==
    /\ cpc[c] = "stopResume"
    /\ ResumeBody(cw[c])
    /\ cpc' = [cpc EXCEPT ![c] = "stopSignal"]
    /\ UNCHANGED <<wpc, isStartedFlag, isIdleFlag, isTerminatedFlag, isDeadFlag,
                   isWaitingFlag, haveWorkJoiners, workWaiters, idleWaiters,
                   diedWaiters, cw, queued, isDone, slotFull, drained>>

(* stop(), line 165: signal() without blocking. *)
StopSignal(c) ==
    /\ cpc[c] = "stopSignal"
    /\ LET w == cw[c] IN
         \E rest \in (IF isWaitingFlag[w] THEN SignalOne(workWaiters[w])
                                          ELSE {workWaiters[w]}) :
            workWaiters' = [workWaiters EXCEPT ![w] = rest]
    /\ cpc' = [cpc EXCEPT ![c] = "stopIdle"]
    /\ UNCHANGED <<wpc, flagVars, idleWaiters, pausedWaiters, diedWaiters, cw,
                   queued, isDone, slotFull, pauseHeld, drained>>

(* stop(), lines 170-173: release a thread waiting for a pause. *)
StopIdle(c) ==
    /\ cpc[c] = "stopIdle"
    /\ LET w == cw[c] IN
         /\ \E rest \in SignalOne(idleWaiters[w]) :
               idleWaiters' = [idleWaiters EXCEPT ![w] = rest]
         /\ isIdleFlag' = [isIdleFlag EXCEPT ![w] = FALSE]
    /\ cpc' = [cpc EXCEPT ![c] = "idle"]
    /\ UNCHANGED <<wpc, isStartedFlag, isPausedFlag, isTerminatedFlag,
                   isDeadFlag, isWaitingFlag, haveWorkJoiners, workWaiters,
                   pausedWaiters, diedWaiters, cw, queued, isDone, slotFull, pauseHeld, drained>>

(* stop(), lines 179-183: never started, clear isPausedFlag and release a *)
(* thread waiting for a pause.                                            *)
StopUnstarted(c) ==
    /\ cpc[c] = "stopUnstarted"
    /\ LET w == cw[c] IN
         /\ isPausedFlag' = [isPausedFlag EXCEPT ![w] = FALSE]
         /\ \E rest \in SignalOne(idleWaiters[w]) :
               idleWaiters' = [idleWaiters EXCEPT ![w] = rest]
         /\ isIdleFlag' = [isIdleFlag EXCEPT ![w] = FALSE]
    /\ cpc' = [cpc EXCEPT ![c] = "stopDead"]
    /\ UNCHANGED <<wpc, isStartedFlag, isTerminatedFlag, isDeadFlag,
                   isWaitingFlag, haveWorkJoiners, workWaiters, pausedWaiters,
                   diedWaiters, cw, queued, isDone, slotFull, pauseHeld, drained>>

(* stop(), line 186: signalDead() on behalf of the thread never started. *)
StopDead(c) ==
    /\ cpc[c] = "stopDead"
    /\ SignalDead(cw[c])
    /\ cpc' = [cpc EXCEPT ![c] = "idle"]
    /\ UNCHANGED <<wpc, isStartedFlag, isPausedFlag, isIdleFlag,
                   isTerminatedFlag, isWaitingFlag, haveWorkJoiners, workWaiters,
                   idleWaiters, pausedWaiters, cw, queued, isDone, slotFull, pauseHeld, drained>>

(* join(), lines 93-100: wait on hasDied until isDeadFlag. *)
CallJoin(c, w) ==
    /\ cpc[c] = "idle"
    /\ IF isDeadFlag[w]
         THEN UNCHANGED <<cpc, diedWaiters>>
         ELSE /\ diedWaiters' = [diedWaiters EXCEPT ![w] = @ \cup {c}]
              /\ cpc' = [cpc EXCEPT ![c] = "joinwait"]
    /\ cw' = [cw EXCEPT ![c] = w]
    /\ UNCHANGED <<wpc, flagVars, workWaiters, idleWaiters, pausedWaiters,
                   queued, isDone, slotFull, pauseHeld, drained>>

(* Line 96 again after hasDied.wait returns, holding hasDiedLock again. *)
JoinRecheck(c) ==
    /\ cpc[c] = "joinwait"
    /\ c \notin diedWaiters[cw[c]]
    /\ wpc[cw[c]] # "deadSignal"
    /\ IF isDeadFlag[cw[c]]
         THEN /\ cpc' = [cpc EXCEPT ![c] = "idle"]
              /\ UNCHANGED diedWaiters
         ELSE /\ diedWaiters' = [diedWaiters EXCEPT ![cw[c]] = @ \cup {c}]
              /\ UNCHANGED cpc
    /\ UNCHANGED <<wpc, flagVars, workWaiters, idleWaiters, pausedWaiters, cw,
                   queued, isDone, slotFull, pauseHeld, drained>>

(* The steps that finish a call already under way. *)
CallerStep(c) ==
    \/ SignalReturn(c) \/ PauseReturn(c) \/ StopResume(c) \/ StopSignal(c)
    \/ StopIdle(c) \/ StopUnstarted(c) \/ StopDead(c) \/ JoinRecheck(c)

-----------------------------------------------------------------------------
(* Properties.                                                             *)

TypeOK ==
    /\ wpc \in [Workers -> WorkerPcs]
    /\ \A f \in {isStartedFlag, isPausedFlag, isIdleFlag, isTerminatedFlag,
                 isDeadFlag, isWaitingFlag, haveWorkJoiners, isDone, slotFull, pauseHeld} :
          f \in [Workers -> BOOLEAN]
    /\ \A f \in {workWaiters, idleWaiters, pausedWaiters, diedWaiters} :
          f \in [Workers -> SUBSET Threads]
    /\ cpc \in [Callers -> CallerPcs]
    /\ cw \in [Callers -> Workers]
    /\ queued \in 0..MaxQueued
    /\ drained \in [Callers -> BOOLEAN]

(* The positions of Worker::run that read or change the shared queue.    *)
(* init before a pause is documented (Worker.h, pause) and left out.      *)
TouchesQueue == {"doWork", "idleCheck", "finalize"}

(* pause(true) "will block until the pause has commenced" (Worker.h):     *)
(* from the return of a blocking pause of a started worker until the next *)
(* resume or stop, the worker thread does not touch the queue.  This is   *)
(* what lets the resizer of QueueProducerInterface resize the queue.      *)
PauseBlockParks ==
    \A w \in Workers : pauseHeld[w] => wpc[w] \notin TouchesQueue

(* signal(true) "will block until the worker has completed a call to      *)
(* doWork()" (Worker.h), which QueueProcessor::stop uses to drain: a      *)
(* caller leaves the wait of signal(true) only after the worker, since    *)
(* the call began, finished a doWork or found no work under isWorkLock.   *)
DrainWaitsForDoWork ==
    [][\A c \in Callers :
         (cpc[c] = "sigwait" /\ cpc'[c] = "idle") => drained[c]]_workerVars

(* Every call into a Worker returns: no caller blocks for ever in         *)
(* pause(true), signal(true) or join().                                   *)
CallsReturn ==
    \A c \in Callers : (cpc[c] # "idle") ~> (cpc[c] = "idle")

(* No lost wake-up: a worker waiting for work while an entry sits on its *)
(* own slot eventually stops waiting.  The isWork test and the wait are   *)
(* both under isWorkLock, and every add is followed by a signal of every  *)
(* worker; other queued entries may be left to other readers.            *)
WaitingWorkerWakes ==
    \A w \in Workers : (wpc[w] = "waiting" /\ slotFull[w]) ~> (wpc[w] # "waiting")

=============================================================================
