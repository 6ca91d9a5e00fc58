--------------------------- MODULE QueueProcessor ---------------------------
(***************************************************************************)
(* The worker pool of consumer/QueueProcessor.cpp and the adding path of  *)
(* consumer/QueueProducerInterface.cpp, composed with Worker (the         *)
(* threads of the pool) and ResizeControls (the coordination of adders    *)
(* and the resizer).                                                      *)
(*                                                                         *)
(* Users call start, stop, terminate, pause and resume; producers call    *)
(* add, which on a full queue may resize it, pausing the pool around the  *)
(* resize.  startLock and workerLock are held across the waits of the     *)
(* Worker methods the pool calls, so they are variables (their holder).   *)
(* A loop over the workers vector advances one worker per step (pit).     *)
(* The queue is abstracted to its size and the number of queued entries  *)
(* (Worker's queued); SyncQueue.tla models its slots and readers.         *)
(***************************************************************************)
EXTENDS Worker, ResizeControls, ProcessingQueue, Sequences

CONSTANTS
    WorkerSeq,   \* the workers vector, in order
    Users,       \* threads calling start/stop/terminate/pause/resume
    Producers,   \* threads calling add
    InitSize,    \* queueSize given to the constructor
    MaxSize,     \* MAX_QUEUE_SIZE
    UserOps,     \* the operations the users call
    MaxOps,      \* bound on user calls
    MaxAdds,     \* bound on add calls
    AddWhileStopped, \* whether producers may add while the pool is not running
    StartedAtInit   \* whether the behaviour starts just after start() returned

ASSUME /\ Workers = {WorkerSeq[i] : i \in DOMAIN WorkerSeq}
       /\ Callers = Users \cup Producers
       /\ Adders = Producers
       /\ UserOps \subseteq {"start", "stop", "terminate", "pauseBlock",
                             "pauseNoBlock", "resume"}
       /\ MaxQueued = MaxSize - 1

N == Len(WorkerSeq)

VARIABLES
    isRunningFlag, procPaused, procTerminated, nestedPauseCounter,
    startLock, workerLock,  \* holders, or NoThread
    present,     \* workers[i].processingWorker != NULL
    ppc,         \* position of each user or producer in a pool operation
    pit,         \* index of the worker a loop is at
    pret,        \* where a pool operation returns to
    pblock,      \* the block argument of a pause in progress
    addOk,       \* the last add of a producer succeeded (not IS_FULL)
    size,        \* currentSize of the queue
    ops, adds,   \* calls made so far
    held         \* pauses of each user not yet resumed (callers resume only their own)

poolVars == <<isRunningFlag, procPaused, procTerminated, nestedPauseCounter,
              startLock, workerLock, present, ppc, pit, pret, pblock, addOk,
              size, ops, adds, held>>
vars == <<workerVars, resizeVars, poolVars>>

(* An add succeeds while a slot other than the reserved one is free. *)
Capacity(s) == s - 1

(* ProcessingQueue::getNewQueueSize with MaxSize as MAX_QUEUE_SIZE. *)
GrownSize(s) == GetNewQueueSize(s, MaxSize)

(* The QueueProducerInterface constructor: not running, no workers. *)
PoolInit ==
    /\ InitWith(StartedAtInit)
    /\ RCInit
    /\ isRunningFlag = StartedAtInit
    /\ procPaused = FALSE
    /\ procTerminated = FALSE
    /\ nestedPauseCounter = 0
    /\ startLock = NoThread
    /\ workerLock = NoThread
    /\ present = [w \in Workers |-> StartedAtInit]
    /\ ppc = [t \in Callers |-> "idle"]
    /\ pit = [t \in Callers |-> 1]
    /\ pret = [t \in Callers |-> "idle"]
    /\ pblock = [t \in Callers |-> FALSE]
    /\ addOk = [t \in Callers |-> TRUE]
    /\ size = InitSize
    /\ ops = 0
    /\ adds = 0
    /\ held = [t \in Users |-> 0]

(* Go to a position; a loop restarts at the first worker. *)
Goto(t, l) == ppc' = [ppc EXCEPT ![t] = l]
Loop(t, l) == Goto(t, l) /\ pit' = [pit EXCEPT ![t] = 1]
Advance(t) == pit' = [pit EXCEPT ![t] = @ + 1]
Return(t) == ppc' = [ppc EXCEPT ![t] = pret[t]]
Current(t) == WorkerSeq[pit[t]]

workerState == <<wpc, flagVars, condVars, queued, isDone, slotFull, pauseHeld, drained>>

lockVars == <<startLock, workerLock>>
procVars == <<isRunningFlag, procPaused, procTerminated, nestedPauseCounter>>

(* A user call, within the bound on calls. *)
UserCall(t, op) ==
    /\ t \in Users
    /\ ppc[t] = "idle"
    /\ op \in UserOps
    /\ ~procTerminated
    /\ ops < MaxOps
    /\ ops' = ops + 1

-----------------------------------------------------------------------------
(* start(), lines 24-60. *)

(* Lines 25-28: unless terminated, wait for startLock. *)
StartCall(t) ==
    /\ UserCall(t, "start")
    /\ Goto(t, "startLock")
    /\ UNCHANGED <<workerVars, resizeVars, procVars, lockVars, present, pit,
                   pret, pblock, addOk, size, adds, held>>

(* Line 30: holding startLock, go on unless terminated meanwhile. *)
StartLocked(t) ==
    /\ ppc[t] = "startLock"
    /\ startLock = NoThread
    /\ IF procTerminated
         THEN Return(t) /\ UNCHANGED startLock
         ELSE startLock' = t /\ Goto(t, "startWorkerLock")
    /\ UNCHANGED <<workerVars, resizeVars, procVars, workerLock, present, pit,
                   pret, pblock, addOk, size, ops, adds, held>>

(* Lines 31-33 and 39-41: take workerLock; a first start marks running. *)
StartWorkerLock(t) ==
    /\ ppc[t] = "startWorkerLock"
    /\ workerLock = NoThread
    /\ workerLock' = t
    /\ isRunningFlag' = TRUE
    /\ Loop(t, IF isRunningFlag THEN "restartLoop" ELSE "createLoop")
    /\ UNCHANGED <<workerVars, resizeVars, procPaused, procTerminated,
                   nestedPauseCounter, startLock, present, pret, pblock,
                   addOk, size, ops, adds, held>>

(* Lines 44-54: create each worker and start it. *)
CreateWorker(t) ==
    /\ ppc[t] = "createLoop"
    /\ pit[t] <= N
    /\ CreateStarted(Current(t))
    /\ present' = [present EXCEPT ![Current(t)] = TRUE]
    /\ Advance(t)
    /\ UNCHANGED <<cpc, cw, queued, drained, resizeVars, procVars, lockVars,
                   ppc, pret, pblock, addOk, size, ops, adds, held>>

(* Lines 34-37: start any worker that could not start before. *)
RestartWorker(t) ==
    /\ ppc[t] = "restartLoop"
    /\ pit[t] <= N
    /\ CallStart(t, Current(t))
    /\ Advance(t)
    /\ UNCHANGED <<resizeVars, procVars, lockVars, present, ppc, pret, pblock,
                   addOk, size, ops, adds, held>>

(* Lines 38, 55 and 58: release workerLock and startLock. *)
StartDone(t) ==
    /\ ppc[t] \in {"createLoop", "restartLoop"}
    /\ pit[t] > N
    /\ cpc[t] = "idle"
    /\ workerLock' = NoThread
    /\ startLock' = NoThread
    /\ Return(t)
    /\ UNCHANGED <<workerVars, resizeVars, procVars, present, pit, pret,
                   pblock, addOk, size, ops, adds, held>>

-----------------------------------------------------------------------------
(* stop(), lines 62-110, and terminate(), lines 131-144. *)

(* Line 63: return unless running; line 67 waits for startLock. *)
StopCall(t) ==
    /\ UserCall(t, "stop")
    /\ isRunningFlag
    /\ Goto(t, "stopLock")
    /\ UNCHANGED <<workerVars, resizeVars, procVars, lockVars, present, pit,
                   pret, pblock, addOk, size, adds, held>>

(* Lines 137-139: mark terminated, then stop(); line 142 clears workers. *)
TerminateCall(t) ==
    /\ UserCall(t, "terminate")
    /\ procTerminated' = TRUE
    /\ pret' = [pret EXCEPT ![t] = "termClear"]
    /\ Goto(t, IF isRunningFlag THEN "stopLock" ELSE "termClear")
    /\ UNCHANGED <<workerVars, resizeVars, isRunningFlag, procPaused,
                   nestedPauseCounter, lockVars, present, pit, pblock, addOk,
                   size, adds, held>>

(* Lines 67-69: holding startLock, test isRunningFlag again. *)
StopLocked(t) ==
    /\ ppc[t] = "stopLock"
    /\ startLock = NoThread
    /\ startLock' = t
    /\ Goto(t, IF isRunningFlag THEN "stopWorkerLock" ELSE "stopEnd")
    /\ UNCHANGED <<workerVars, resizeVars, procVars, workerLock, present, pit,
                   pret, pblock, addOk, size, ops, adds, held>>

(* Line 70. *)
StopWorkerLock(t) ==
    /\ ppc[t] = "stopWorkerLock"
    /\ workerLock = NoThread
    /\ workerLock' = t
    /\ Loop(t, "drain")
    /\ UNCHANGED <<workerVars, resizeVars, procVars, startLock, present, pret,
                   pblock, addOk, size, ops, adds, held>>

(* Lines 82-86: signal(true) to each worker, waiting for it to drain. *)
Drain(t) ==
    /\ ppc[t] = "drain"
    /\ pit[t] <= N
    /\ CallSignal(t, Current(t), TRUE)
    /\ Advance(t)
    /\ UNCHANGED <<resizeVars, procVars, lockVars, present, ppc, pret, pblock,
                   addOk, size, ops, adds, held>>

(* Lines 89-93: stop() each worker. *)
StopWorker(t) ==
    /\ ppc[t] = "stopWorkers"
    /\ pit[t] <= N
    /\ CallStop(t, Current(t))
    /\ Advance(t)
    /\ UNCHANGED <<resizeVars, procVars, lockVars, present, ppc, pret, pblock,
                   addOk, size, ops, adds, held>>

(* Lines 96-102: forget each worker and join it. *)
JoinWorker(t) ==
    /\ ppc[t] = "join"
    /\ pit[t] <= N
    /\ present' = [present EXCEPT ![Current(t)] = FALSE]
    /\ CallJoin(t, Current(t))
    /\ Advance(t)
    /\ UNCHANGED <<resizeVars, procVars, lockVars, ppc, pret, pblock, addOk,
                   size, ops, adds, held>>

(* The end of each loop of stop(); line 104 releases workerLock. *)
StopLoopDone(t) ==
    /\ ppc[t] \in {"drain", "stopWorkers", "join"}
    /\ pit[t] > N
    /\ cpc[t] = "idle"
    /\ CASE ppc[t] = "drain" -> Loop(t, "stopWorkers") /\ UNCHANGED workerLock
         [] ppc[t] = "stopWorkers" -> Loop(t, "join") /\ UNCHANGED workerLock
         [] ppc[t] = "join" -> Goto(t, "stopEnd") /\ workerLock' = NoThread
                                /\ UNCHANGED pit
    /\ UNCHANGED <<workerVars, resizeVars, procVars, startLock, present, pret,
                   pblock, addOk, size, ops, adds, held>>

(* Fault variant of StopEnd: startLock is not released. *)
StopEndKeepLock(t) ==
    /\ ppc[t] = "stopEnd"
    /\ isRunningFlag' = FALSE
    /\ procPaused' = FALSE
    /\ Return(t)
    /\ UNCHANGED <<workerVars, resizeVars, procTerminated, nestedPauseCounter,
                   lockVars, present, pit, pret, pblock, addOk, size, ops, adds,
                   held>>

(* Lines 108-109. *)
StopEnd(t) ==
    /\ ppc[t] = "stopEnd"
    /\ isRunningFlag' = FALSE
    /\ procPaused' = FALSE
    /\ startLock' = NoThread
    /\ Return(t)
    /\ UNCHANGED <<workerVars, resizeVars, procTerminated, nestedPauseCounter,
                   workerLock, present, pit, pret, pblock, addOk, size, ops, adds, held>>

(* terminate(), lines 141-143: workers.clear(). *)
TermClear(t) ==
    /\ ppc[t] = "termClear"
    /\ workerLock = NoThread
    /\ present' = [w \in Workers |-> FALSE]
    /\ Goto(t, "idle")
    /\ pret' = [pret EXCEPT ![t] = "idle"]
    /\ UNCHANGED <<workerVars, resizeVars, procVars, lockVars, pit, pblock,
                   addOk, size, ops, adds, held>>

-----------------------------------------------------------------------------
(* pause(block), lines 146-171, called by users and by a resizing         *)
(* producer (pauseThreadsForResize); pret says where it returns to.       *)

PauseCall(t, block) ==
    /\ UserCall(t, IF block THEN "pauseBlock" ELSE "pauseNoBlock")
    /\ pblock' = [pblock EXCEPT ![t] = block]
    /\ Goto(t, "pauseLock")
    /\ held' = [held EXCEPT ![t] = @ + 1]
    /\ UNCHANGED <<workerVars, resizeVars, procVars, lockVars, present, pit,
                   pret, addOk, size, adds>>

(* Lines 150-152 and 167-170: with startLock, only the first pause of a   *)
(* running pool goes to the workers; any other just counts.               *)
PauseLocked(t) ==
    /\ ppc[t] = "pauseLock"
    /\ startLock = NoThread
    /\ IF ~procPaused /\ isRunningFlag
         THEN /\ startLock' = t
              /\ Goto(t, "pauseWorkerLock")
              /\ UNCHANGED <<procPaused, nestedPauseCounter>>
         ELSE /\ procPaused' = TRUE
              /\ nestedPauseCounter' = nestedPauseCounter + 1
              /\ Return(t)
              /\ UNCHANGED startLock
    /\ UNCHANGED <<workerVars, resizeVars, isRunningFlag, procTerminated,
                   workerLock, present, pit, pret, pblock, addOk, size, ops, adds, held>>

(* Line 153. *)
PauseWorkerLock(t) ==
    /\ ppc[t] = "pauseWorkerLock"
    /\ workerLock = NoThread
    /\ workerLock' = t
    /\ Loop(t, "pauseAll")
    /\ UNCHANGED <<workerVars, resizeVars, procVars, startLock, present, pret,
                   pblock, addOk, size, ops, adds, held>>

(* Lines 155-158: pause(false) each worker. *)
PauseAll(t) ==
    /\ ppc[t] = "pauseAll"
    /\ pit[t] <= N
    /\ CallPause(t, Current(t), FALSE)
    /\ Advance(t)
    /\ UNCHANGED <<resizeVars, procVars, lockVars, present, ppc, pret, pblock,
                   addOk, size, ops, adds, held>>

(* Lines 159-164: with block, pause(true) each worker, waiting for it. *)
PauseWait(t) ==
    /\ ppc[t] = "pauseWait"
    /\ pit[t] <= N
    /\ CallPause(t, Current(t), TRUE)
    /\ Advance(t)
    /\ UNCHANGED <<resizeVars, procVars, lockVars, present, ppc, pret, pblock,
                   addOk, size, ops, adds, held>>

(* Fault variant of PauseLoopDone: the blocking pass is skipped. *)
PauseLoopDoneNoWait(t) ==
    /\ ppc[t] \in {"pauseAll", "pauseWait"}
    /\ pit[t] > N
    /\ cpc[t] = "idle"
    /\ workerLock' = NoThread
    /\ procPaused' = TRUE
    /\ nestedPauseCounter' = nestedPauseCounter + 1
    /\ startLock' = NoThread
    /\ Return(t)
    /\ UNCHANGED <<workerVars, resizeVars, isRunningFlag, procTerminated, pit,
                   present, pret, pblock, addOk, size, ops, adds, held>>

(* The end of each loop of pause(); lines 165-170 finish the call. *)
PauseLoopDone(t) ==
    /\ ppc[t] \in {"pauseAll", "pauseWait"}
    /\ pit[t] > N
    /\ cpc[t] = "idle"
    /\ IF ppc[t] = "pauseAll" /\ pblock[t]
         THEN /\ Loop(t, "pauseWait")
              /\ UNCHANGED <<procPaused, nestedPauseCounter, lockVars>>
         ELSE /\ workerLock' = NoThread
              /\ procPaused' = TRUE
              /\ nestedPauseCounter' = nestedPauseCounter + 1
              /\ startLock' = NoThread
              /\ Return(t)
              /\ UNCHANGED pit
    /\ UNCHANGED <<workerVars, resizeVars, isRunningFlag, procTerminated,
                   present, pret, pblock, addOk, size, ops, adds, held>>

-----------------------------------------------------------------------------
(* resume(), lines 173-194. *)

(* A user resumes only a pause of its own. *)
ResumeCall(t) ==
    /\ UserCall(t, "resume")
    /\ held[t] > 0
    /\ held' = [held EXCEPT ![t] = @ - 1]
    /\ Goto(t, "resumeLock")
    /\ UNCHANGED <<workerVars, resizeVars, procVars, lockVars, present, pit,
                   pret, pblock, addOk, size, adds>>

(* Fault variant of ResumeLocked: the last resume is tested before the   *)
(* decrement takes effect.                                                *)
ResumeLockedBeforeDecrement(t) ==
    /\ ppc[t] = "resumeLock"
    /\ startLock = NoThread
    /\ nestedPauseCounter' = IF procPaused THEN nestedPauseCounter - 1
                                           ELSE nestedPauseCounter
    /\ IF procPaused /\ nestedPauseCounter = 0
         THEN startLock' = t /\ Goto(t, "resumeWorkerLock")
         ELSE Return(t) /\ UNCHANGED startLock
    /\ UNCHANGED <<workerVars, resizeVars, isRunningFlag, procPaused,
                   procTerminated, workerLock, present, pit, pret, pblock,
                   addOk, size, ops, adds, held>>

(* Lines 177-180: with startLock, only the last resume goes on. *)
ResumeLocked(t) ==
    /\ ppc[t] = "resumeLock"
    /\ startLock = NoThread
    /\ nestedPauseCounter' = IF procPaused THEN nestedPauseCounter - 1
                                           ELSE nestedPauseCounter
    /\ IF procPaused /\ nestedPauseCounter = 1
         THEN startLock' = t /\ Goto(t, "resumeWorkerLock")
         ELSE Return(t) /\ UNCHANGED startLock
    /\ UNCHANGED <<workerVars, resizeVars, isRunningFlag, procPaused,
                   procTerminated, workerLock, present, pit, pret, pblock,
                   addOk, size, ops, adds, held>>

(* Lines 181-182. *)
ResumeWorkerLock(t) ==
    /\ ppc[t] = "resumeWorkerLock"
    /\ workerLock = NoThread
    /\ workerLock' = t
    /\ Loop(t, IF isRunningFlag THEN "resumeAll" ELSE "resumeFinish")
    /\ UNCHANGED <<workerVars, resizeVars, procVars, startLock, present, pret,
                   pblock, addOk, size, ops, adds, held>>

(* Lines 183-187: resume() each worker. *)
ResumeAll(t) ==
    /\ ppc[t] = "resumeAll"
    /\ pit[t] <= N
    /\ CallResume(t, Current(t))
    /\ Advance(t)
    /\ UNCHANGED <<resizeVars, procVars, lockVars, present, ppc, pret, pblock,
                   addOk, size, ops, adds, held>>

(* Lines 189-193. *)
ResumeFinish(t) ==
    /\ \/ ppc[t] = "resumeFinish"
       \/ ppc[t] = "resumeAll" /\ pit[t] > N
    /\ workerLock' = NoThread
    /\ procPaused' = FALSE
    /\ startLock' = NoThread
    /\ Return(t)
    /\ UNCHANGED <<workerVars, resizeVars, isRunningFlag, procTerminated,
                   nestedPauseCounter, present, pit, pret, pblock, addOk, size,
                   ops, adds, held>>

-----------------------------------------------------------------------------
(* QueueProducerInterface::add and addToQueue, lines 50-87, with the      *)
(* ResizeControls calls; the queue add is one atomic step on queued.      *)

(* SyncWriterQueue::add: IS_FULL unless a slot is free. *)
TryAdd(t) ==
    /\ addOk' = [addOk EXCEPT ![t] = queued < Capacity(size)]
    /\ IF queued < Capacity(size) THEN AddEntry ELSE UNCHANGED <<queued, slotFull>>

(* add(), lines 50-52; addToQueue lines 59-62: unless terminated, go to   *)
(* waitForResize.                                                         *)
AddCall(t) ==
    /\ t \in Producers
    /\ ppc[t] = "idle"
    /\ ~procTerminated
    /\ AddWhileStopped \/ isRunningFlag
    /\ adds < MaxAdds
    /\ adds' = adds + 1
    /\ Goto(t, "waitForResize")
    /\ UNCHANGED <<workerVars, resizeVars, procVars, lockVars, present, pit,
                   pret, pblock, addOk, size, ops, held>>

(* Fault variant of WaitForResizeStep: a resize in progress is ignored. *)
WaitForResizeStepIgnoring(t) ==
    /\ ppc[t] = "waitForResize"
    /\ resizeLock = NoThread
    /\ addingCount' = addingCount + 1
    /\ Goto(t, "add")
    /\ UNCHANGED <<workerVars, resizing, resizeLock, resizeWaiters, procVars,
                   lockVars, present, pit, pret, pblock, addOk, size, ops, adds,
                   held>>

(* Line 62, waitForResize(): one pass of its loop. *)
WaitForResizeStep(t) ==
    /\ ppc[t] = "waitForResize"
    /\ WaitForResize(t)
    /\ IF resizing THEN UNCHANGED ppc ELSE Goto(t, "add")
    /\ UNCHANGED <<workerVars, procVars, lockVars, present, pit, pret, pblock,
                   addOk, size, ops, adds, held>>

(* Lines 63 and 71: index = adder.add(). *)
AddStep(t) ==
    /\ ppc[t] = "add"
    /\ TryAdd(t)
    /\ Goto(t, "checkResizable")
    /\ UNCHANGED <<wpc, flagVars, condVars, cpc, cw, isDone, pauseHeld, drained,
                   resizeVars, procVars, lockVars, present, pit, pret, pblock,
                   size, ops, adds, held>>

(* checkResizable, lines 79-80: a full queue at MAX_QUEUE_SIZE is retried. *)
CheckResizable(t) ==
    /\ ppc[t] = "checkResizable"
    /\ Goto(t, IF ~addOk[t] /\ size >= MaxSize THEN "spin" ELSE "checkFull")
    /\ UNCHANGED <<workerVars, resizeVars, procVars, lockVars, present, pit,
                   pret, pblock, addOk, size, ops, adds, held>>

(* Lines 81-84: sleep and add again until the add succeeds. *)
Spin(t) ==
    /\ ppc[t] = "spin"
    /\ queued < Capacity(size)
    /\ TryAdd(t)
    /\ Goto(t, "checkFull")
    /\ UNCHANGED <<wpc, flagVars, condVars, cpc, cw, isDone, pauseHeld, drained,
                   resizeVars, procVars, lockVars, present, pit, pret, pblock,
                   size, ops, adds, held>>

(* Line 65, checkFull(index): a success leaves the loop and broadcasts;  *)
(* a full queue keeps resizeQueuesLock, after waiting out a resize.       *)
CheckFullStep(t) ==
    /\ ppc[t] = "checkFull"
    /\ CheckFull(t, ~addOk[t])
    /\ Goto(t, CASE addOk[t] -> "broadcast"
                 [] resizing -> "checkFullWait"
                 [] OTHER -> "addLocked")
    /\ UNCHANGED <<workerVars, procVars, lockVars, present, pit, pret, pblock,
                   addOk, size, ops, adds, held>>

(* checkFull, lines 94-96: woken, test resizing again. *)
CheckFullWaitStep(t) ==
    /\ ppc[t] = "checkFullWait"
    /\ CheckFullRecheck(t)
    /\ IF resizing THEN UNCHANGED ppc ELSE Goto(t, "addLocked")
    /\ UNCHANGED <<workerVars, procVars, lockVars, present, pit, pret, pblock,
                   addOk, size, ops, adds, held>>

(* Line 66 with resizeQueuesLock held: add again, and checkFullForResize *)
(* sets resizing if still full.                                           *)
AddLocked(t) ==
    /\ ppc[t] = "addLocked"
    /\ TryAdd(t)
    /\ CheckFullForResize(t, queued >= Capacity(size))
    /\ Goto(t, IF queued < Capacity(size) THEN "broadcast" ELSE "pauseAdders")
    /\ UNCHANGED <<wpc, flagVars, condVars, cpc, cw, isDone, pauseHeld, drained,
                   procVars, lockVars, present, pit, pret, pblock, size, ops, adds, held>>

(* pauseThreadsForResize, lines 46-47: wait for adders to leave, then     *)
(* pause(true), which returns at once on a terminated pool.               *)
PauseAddersStep(t) ==
    /\ ppc[t] = "pauseAdders"
    /\ PauseAdders
    /\ pblock' = [pblock EXCEPT ![t] = TRUE]
    /\ pret' = [pret EXCEPT ![t] = "resize"]
    /\ Goto(t, IF procTerminated THEN "resize" ELSE "pauseLock")
    /\ UNCHANGED <<workerVars, procVars, lockVars, present, pit, addOk, size,
                   ops, adds, held>>

(* Line 69, adder.resize(), then resumeThreadsForResize line 34:          *)
(* resume(), which returns at once on a terminated pool.                  *)
ResizeStep(t) ==
    /\ ppc[t] = "resize"
    /\ size' = GrownSize(size)
    /\ pret' = [pret EXCEPT ![t] = "resumeAdders"]
    /\ Goto(t, IF procTerminated THEN "resumeAdders" ELSE "resumeLock")
    /\ UNCHANGED <<workerVars, resizeVars, procVars, lockVars, present, pit,
                   pblock, addOk, ops, adds, held>>

(* Line 35, resumeAdders(); the loop then adds again (line 71). *)
ResumeAddersStep(t) ==
    /\ ppc[t] = "resumeAdders"
    /\ ResumeAdders
    /\ pret' = [pret EXCEPT ![t] = "idle"]
    /\ Goto(t, "add")
    /\ UNCHANGED <<workerVars, procVars, lockVars, present, pit, pblock, addOk,
                   size, ops, adds, held>>

(* broadcast(), QueueProcessor.cpp lines 112-113. *)
BroadcastLock(t) ==
    /\ ppc[t] = "broadcast"
    /\ workerLock = NoThread
    /\ workerLock' = t
    /\ Loop(t, "signalAll")
    /\ UNCHANGED <<workerVars, resizeVars, procVars, startLock, present, pret,
                   pblock, addOk, size, ops, adds, held>>

(* Lines 114-119: signal() each worker still present. *)
SignalWorker(t) ==
    /\ ppc[t] = "signalAll"
    /\ pit[t] <= N
    /\ IF present[Current(t)]
         THEN CallSignal(t, Current(t), FALSE)
         ELSE UNCHANGED workerVars
    /\ Advance(t)
    /\ UNCHANGED <<resizeVars, procVars, lockVars, present, ppc, pret, pblock,
                   addOk, size, ops, adds, held>>

(* Fault variant of SignalAllDone: workerLock is not released. *)
SignalAllDoneKeepLock(t) ==
    /\ ppc[t] = "signalAll"
    /\ pit[t] > N
    /\ Goto(t, "idle")
    /\ UNCHANGED <<workerVars, resizeVars, procVars, lockVars, present, pit,
                   pret, pblock, addOk, size, ops, adds, held>>

(* Line 128. *)
SignalAllDone(t) ==
    /\ ppc[t] = "signalAll"
    /\ pit[t] > N
    /\ workerLock' = NoThread
    /\ Goto(t, "idle")
    /\ UNCHANGED <<workerVars, resizeVars, procVars, startLock, present, pit,
                   pret, pblock, addOk, size, ops, adds, held>>

-----------------------------------------------------------------------------
(* The specification.                                                      *)

(* A new call by a user or a producer. *)
NewCall(t) ==
    \/ StartCall(t) \/ StopCall(t) \/ TerminateCall(t) \/ ResumeCall(t)
    \/ \E b \in BOOLEAN : PauseCall(t, b)
    \/ AddCall(t)

(* A step of a call already under way, in the pool or in a Worker method. *)
PoolStep(t) ==
    \/ StartLocked(t) \/ StartWorkerLock(t) \/ CreateWorker(t)
    \/ RestartWorker(t) \/ StartDone(t)
    \/ StopLocked(t) \/ StopWorkerLock(t) \/ Drain(t) \/ StopWorker(t)
    \/ JoinWorker(t) \/ StopLoopDone(t) \/ StopEnd(t) \/ TermClear(t)
    \/ PauseLocked(t) \/ PauseWorkerLock(t) \/ PauseAll(t) \/ PauseWait(t)
    \/ PauseLoopDone(t)
    \/ ResumeLocked(t) \/ ResumeWorkerLock(t) \/ ResumeAll(t) \/ ResumeFinish(t)
    \/ WaitForResizeStep(t) \/ AddStep(t) \/ CheckResizable(t) \/ Spin(t)
    \/ CheckFullStep(t) \/ CheckFullWaitStep(t) \/ AddLocked(t)
    \/ PauseAddersStep(t) \/ ResizeStep(t) \/ ResumeAddersStep(t)
    \/ BroadcastLock(t) \/ SignalWorker(t) \/ SignalAllDone(t)
    \/ CallerStep(t) /\ UNCHANGED <<resizeVars, poolVars>>

WorkerThread(w) == WorkerStep(w) /\ UNCHANGED <<resizeVars, poolVars>>

(* Every call has returned and no new one can be made. *)
Finished ==
    /\ \A t \in Callers : ppc[t] = "idle" /\ cpc[t] = "idle"
    /\ ops = MaxOps \/ procTerminated
    /\ adds = MaxAdds \/ procTerminated \/ ~(AddWhileStopped \/ isRunningFlag)
    /\ UNCHANGED vars

PoolNext ==
    \/ \E t \in Callers : NewCall(t) \/ PoolStep(t)
    \/ \E w \in Workers : WorkerThread(w)
    \/ SpuriousWakeup /\ UNCHANGED <<resizeVars, poolVars>>
    \/ Finished

(* Each thread is scheduled fairly: a worker thread, and a user or        *)
(* producer inside a call, runs when it can.  Making a call is never      *)
(* forced.                                                                 *)
PoolSpec ==
    /\ PoolInit /\ [][PoolNext]_vars
    /\ \A w \in Workers : WF_vars(WorkerThread(w))
    /\ \A t \in Callers : WF_vars(PoolStep(t))

-----------------------------------------------------------------------------
(* Properties.                                                             *)

PoolPcs == {"idle", "startLock", "startWorkerLock", "createLoop",
            "restartLoop", "stopLock", "stopWorkerLock", "drain",
            "stopWorkers", "join", "stopEnd", "termClear", "pauseLock",
            "pauseWorkerLock", "pauseAll", "pauseWait", "resumeLock",
            "resumeWorkerLock", "resumeAll", "resumeFinish", "waitForResize",
            "add", "checkResizable", "spin", "checkFull", "checkFullWait",
            "addLocked", "pauseAdders", "resize", "resumeAdders", "broadcast",
            "signalAll"}

PoolTypeOK ==
    /\ TypeOK
    /\ RCTypeOK
    /\ isRunningFlag \in BOOLEAN /\ procPaused \in BOOLEAN
    /\ procTerminated \in BOOLEAN
    /\ nestedPauseCounter \in 0..MaxOps + MaxAdds
    /\ startLock \in Callers \cup {NoThread}
    /\ workerLock \in Callers \cup {NoThread}
    /\ present \in [Workers -> BOOLEAN]
    /\ ppc \in [Callers -> PoolPcs]
    /\ pit \in [Callers -> 1..N + 1]
    /\ pret \in [Callers -> {"idle", "termClear", "resize", "resumeAdders"}]
    /\ pblock \in [Callers -> BOOLEAN]
    /\ addOk \in [Callers -> BOOLEAN]
    /\ size \in InitSize..MaxSize
    /\ ops \in 0..MaxOps /\ adds \in 0..MaxAdds
    /\ held \in [Users -> 0..MaxOps]

(* Worker positions at which the thread reads or writes the shared queue *)
(* (init registers the reader, finalize removes it).                      *)
QueueAccess == TouchesQueue \cup {"init"}

(* pauseThreadsForResize and the comment of pauseAdders promise that the *)
(* queue is resized with no worker touching it: while a producer is in    *)
(* adder.resize(), every worker thread is away from the queue.            *)
ResizeIsolated ==
    \A t \in Producers :
        ppc[t] = "resize" => \A w \in Workers : wpc[w] \notin QueueAccess

(* No adding thread touches the queue during a resize either: while a     *)
(* producer resizes, no other producer is between waitForResize and       *)
(* checkFull.                                                              *)
AddersExcluded ==
    \A t \in Producers :
        ppc[t] = "resize" =>
            \A u \in Producers \ {t} :
                ppc[u] \notin {"add", "checkResizable", "spin", "addLocked"}

(* Positions from which a resume() is under way. *)
ResumePcs == {"resumeLock", "resumeWorkerLock", "resumeAll", "resumeFinish"}

(* The nested pause count of pause() and resume() keeps the pool paused   *)
(* exactly while someone holds a pause: isPausedFlag is set only while a  *)
(* user has a pause it has not resumed, a resizing producer is between    *)
(* its pause and its resume, or a resume is still under way.              *)
PausedOnlyWhenHeld ==
    procPaused =>
        \/ \E u \in Users : held[u] > 0
        \/ \E t \in Callers : ppc[t] \in ResumePcs
        \/ \E t \in Producers : ppc[t] = "resize"

(* A worker object has been deleted: stop() has taken it out of workers  *)
(* (line 99) and its join() has returned, after which line 101 deletes   *)
(* it.                                                                     *)
Deleted(w) ==
    /\ ~present[w]
    /\ ~\E c \in Callers : cpc[c] = "joinwait" /\ cw[c] = w

(* stop() deletes each worker once join() has returned (lines 100-101),  *)
(* join() promising that the worker "is dead" (Worker.h): a deleted      *)
(* Worker's thread never started or has left run() for good, so it no    *)
(* longer uses the Worker's mutexes and conditions.                       *)
WorkerOutlivesThread ==
    \A w \in Workers : Deleted(w) => wpc[w] \in {"unstarted", "dead"}

(* Every user call (start, stop, terminate, pause, resume) returns. *)
UserCallsReturn == \A t \in Users : ppc[t] # "idle" ~> ppc[t] = "idle"

(* Every add returns. *)
AddsReturn == \A t \in Producers : ppc[t] # "idle" ~> ppc[t] = "idle"

=============================================================================
