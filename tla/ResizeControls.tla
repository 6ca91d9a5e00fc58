--------------------------- MODULE ResizeControls ---------------------------
(***************************************************************************)
(* queue/ResizeControls.h: the coordination of adding threads and the one *)
(* thread that resizes the queue.  resizeQueuesLock is held from one step *)
(* to the next between checkFull and checkFullForResize, so it is a       *)
(* variable (its holder); isResizingCond is the set of its waiters.       *)
(* Each operator is one mutex section of one thread t; the module that    *)
(* composes it decides where the thread goes next.                        *)
(***************************************************************************)
EXTENDS Naturals, FiniteSets

CONSTANTS Adders, NoThread

VARIABLES
    resizing,        \* the resizing flag
    addingCount,     \* threads between waitForResize and checkFull
    resizeLock,      \* holder of resizeQueuesLock, or NoThread
    resizeWaiters    \* threads in isResizingCond.wait

resizeVars == <<resizing, addingCount, resizeLock, resizeWaiters>>

RCInit ==
    /\ resizing = FALSE
    /\ addingCount = 0
    /\ resizeLock = NoThread
    /\ resizeWaiters = {}

RCTypeOK ==
    /\ resizing \in BOOLEAN
    /\ addingCount \in 0..Cardinality(Adders)
    /\ resizeLock \in Adders \cup {NoThread}
    /\ resizeWaiters \subseteq Adders

(* waitForResize(), lines 70-77, one pass of the loop: with the lock,     *)
(* wait while resizing, else count the caller as adding.                  *)
WaitForResize(t) ==
    /\ resizeLock = NoThread
    /\ t \notin resizeWaiters
    /\ IF resizing
         THEN /\ resizeWaiters' = resizeWaiters \cup {t}
              /\ UNCHANGED addingCount
         ELSE /\ addingCount' = addingCount + 1
              /\ UNCHANGED resizeWaiters
    /\ UNCHANGED <<resizing, resizeLock>>

(* checkFull(index), lines 89-96: uncount the caller; if the add failed,  *)
(* wait while resizing and keep the lock.                                 *)
CheckFull(t, isFull) ==
    /\ resizeLock = NoThread
    /\ addingCount' = addingCount - 1
    /\ IF isFull /\ resizing
         THEN resizeWaiters' = resizeWaiters \cup {t}
         ELSE UNCHANGED resizeWaiters
    /\ resizeLock' = IF isFull /\ ~resizing THEN t ELSE NoThread
    /\ UNCHANGED resizing

(* checkFull(index), lines 94-97 again after isResizingCond.wait. *)
CheckFullRecheck(t) ==
    /\ resizeLock = NoThread
    /\ t \notin resizeWaiters
    /\ IF resizing
         THEN /\ resizeWaiters' = resizeWaiters \cup {t}
              /\ UNCHANGED resizeLock
         ELSE /\ resizeLock' = t
              /\ UNCHANGED resizeWaiters
    /\ UNCHANGED <<resizing, addingCount>>

(* checkFullForResize(index), lines 111-116, with the lock held. *)
CheckFullForResize(t, isFull) ==
    /\ resizeLock = t
    /\ resizing' = isFull
    /\ resizeLock' = NoThread
    /\ UNCHANGED <<addingCount, resizeWaiters>>

(* pauseAdders(), lines 125-129: the resizer spins until no one is adding. *)
PauseAdders ==
    /\ addingCount = 0
    /\ UNCHANGED resizeVars

(* Fault variant of ResumeAdders: the waiting adders are not woken. *)
ResumeAddersNoBroadcast ==
    /\ resizeLock = NoThread
    /\ addingCount' = addingCount + 1
    /\ resizing' = FALSE
    /\ UNCHANGED <<resizeLock, resizeWaiters>>

(* Fault variant of ResumeAdders: the resizer is not counted as adding. *)
ResumeAddersUncounted ==
    /\ resizeLock = NoThread
    /\ resizing' = FALSE
    /\ resizeWaiters' = {}
    /\ UNCHANGED <<resizeLock, addingCount>>

(* resumeAdders(), lines 136-142. *)
ResumeAdders ==
    /\ resizeLock = NoThread
    /\ addingCount' = addingCount + 1
    /\ resizing' = FALSE
    /\ resizeWaiters' = {}
    /\ UNCHANGED resizeLock

=============================================================================
