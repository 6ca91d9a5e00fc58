--------------------------- MODULE ResultReceiver ---------------------------
(***************************************************************************)
(* A producer blocking for the result of its queue entry:                  *)
(* queue/ResultReceiver.h (isPopulatedLock, isPopulatedCond,               *)
(* isPopulatedFlag and the value inherited from base/DataHolder.h) and     *)
(* queue/ResultReceiverHolder.h (the pointer to the receiver carried by    *)
(* the queue entry, cleared by the consumer once it has delivered).        *)
(*                                                                         *)
(* As in sample/testQueues.cpp:86-102, every producer p owns one receiver  *)
(* on its stack: it constructs the receiver and an entry linked to it,     *)
(* adds the entry, blocks in getValue() and leaves the scope, destroying   *)
(* the receiver.  The consumer that handles the entry runs                 *)
(* ResultReceiverHolder::setValue on it (SampleQueueEntryConsumer::handle  *)
(* -> QueueEntryData1::setStatus).  All state is indexed by the producer:  *)
(* the receiver is p's stack object, spc[p] the consumer's progress in     *)
(* delivering p's result.                                                  *)
(*                                                                         *)
(* isPopulatedFlag is read without the lock at ResultReceiver.h:37: the    *)
(* read is one step and sees whatever value the flag has then.             *)
(***************************************************************************)
EXTENDS Naturals

CONSTANTS
  Producers,  \* threads blocking on a ResultReceiver of their own
  Spurious    \* whether pthread_cond_wait may return without a signal

VARIABLES
  alive,      \* the receiver object exists (constructed, not yet destroyed)
  flag,       \* isPopulatedFlag
  value,      \* DataHolder::value: the Status held
  popLock,    \* isPopulatedLock: "getter", "setter" or "free"
  waiting,    \* the getter is blocked on isPopulatedCond
  linked,     \* the entry's ResultReceiverHolder::resultReceiver is not NULL
  gpc,        \* producer (getter) program counter
  spc,        \* consumer (setter) program counter for p's entry
  got         \* the Status getValue returned to p ("none" before it returns)

rrVars == <<alive, flag, value, popLock, waiting, linked, gpc, spc, got>>

Status == {"UNKNOWN", "SUCCESS"}

(* the consumer steps that touch the receiver object itself *)
ReceiverSteps == {"store", "pacq", "pflag", "psignal", "prel"}

RRInit ==
  /\ alive = [p \in Producers |-> FALSE]
  /\ flag = [p \in Producers |-> FALSE]
  /\ value = [p \in Producers |-> "UNKNOWN"]
  /\ popLock = [p \in Producers |-> "free"]
  /\ waiting = [p \in Producers |-> FALSE]
  /\ linked = [p \in Producers |-> FALSE]
  /\ gpc = [p \in Producers |-> "idle"]
  /\ spc = [p \in Producers |-> "idle"]
  /\ got = [p \in Producers |-> "none"]

-----------------------------------------------------------------------------
(* Producer side.                                                          *)

(* ResultReceiver(), line 48: isPopulatedFlag(false), and Status() is   *)
(* STATUS_UNKNOWN (SampleStatus.h:26); the entry is constructed linked  *)
(* to it                                                                  *)
Construct(p) ==
  /\ gpc[p] = "idle"
  /\ alive' = [alive EXCEPT ![p] = TRUE]
  /\ flag' = [flag EXCEPT ![p] = FALSE]
  /\ value' = [value EXCEPT ![p] = "UNKNOWN"]
  /\ linked' = [linked EXCEPT ![p] = TRUE]
  /\ gpc' = [gpc EXCEPT ![p] = "add"]
  /\ UNCHANGED <<popLock, waiting, spc, got>>

(* getValue(true), line 37: the unlocked test of isPopulatedFlag *)
GetFast(p) ==
  /\ gpc[p] = "fast"
  /\ gpc' = [gpc EXCEPT ![p] = IF flag[p] THEN "ret" ELSE "lock"]
  /\ UNCHANGED <<alive, flag, value, popLock, waiting, linked, spc, got>>

(* line 38: isPopulatedLock.acquire() *)
GetLock(p) ==
  /\ gpc[p] = "lock"
  /\ popLock[p] = "free"
  /\ popLock' = [popLock EXCEPT ![p] = "getter"]
  /\ gpc' = [gpc EXCEPT ![p] = "recheck"]
  /\ UNCHANGED <<alive, flag, value, waiting, linked, spc, got>>

(* Fault variant of GetRecheck: the flag is not tested again under the *)
(* lock, the getter never waits                                         *)
GetRecheckSkipped(p) ==
  /\ gpc[p] = "recheck"
  /\ gpc' = [gpc EXCEPT ![p] = "release"]
  /\ UNCHANGED <<alive, flag, value, popLock, waiting, linked, spc, got>>

(* lines 39-40: if(!isPopulatedFlag) isPopulatedCond.wait(): the lock is *)
(* released and the getter blocks, once, with no loop around the wait    *)
GetRecheck(p) ==
  /\ gpc[p] = "recheck"
  /\ IF flag[p]
     THEN /\ gpc' = [gpc EXCEPT ![p] = "release"]
          /\ UNCHANGED <<popLock, waiting>>
     ELSE /\ popLock' = [popLock EXCEPT ![p] = "free"]
          /\ waiting' = [waiting EXCEPT ![p] = TRUE]
          /\ gpc' = [gpc EXCEPT ![p] = "wait"]
  /\ UNCHANGED <<alive, flag, value, linked, spc, got>>

(* the wait returns: woken, it re-acquires isPopulatedLock *)
GetReacquire(p) ==
  /\ gpc[p] = "wait"
  /\ ~waiting[p]
  /\ popLock[p] = "free"
  /\ popLock' = [popLock EXCEPT ![p] = "getter"]
  /\ gpc' = [gpc EXCEPT ![p] = "release"]
  /\ UNCHANGED <<alive, flag, value, waiting, linked, spc, got>>

(* line 42: isPopulatedLock.release() *)
GetRelease(p) ==
  /\ gpc[p] = "release"
  /\ popLock' = [popLock EXCEPT ![p] = "free"]
  /\ gpc' = [gpc EXCEPT ![p] = "ret"]
  /\ UNCHANGED <<alive, flag, value, waiting, linked, spc, got>>

(* line 44: return getCurrentValue(), copied into the caller's status *)
GetReturn(p) ==
  /\ gpc[p] = "ret"
  /\ got' = [got EXCEPT ![p] = value[p]]
  /\ gpc' = [gpc EXCEPT ![p] = "scope"]
  /\ UNCHANGED <<alive, flag, value, popLock, waiting, linked, spc>>

(* testQueues.cpp:102: the loop body ends and ~ResultReceiver runs *)
Destroy(p) ==
  /\ gpc[p] = "scope"
  /\ alive' = [alive EXCEPT ![p] = FALSE]
  /\ gpc' = [gpc EXCEPT ![p] = "done"]
  /\ UNCHANGED <<flag, value, popLock, waiting, linked, spc, got>>

(* pthread_cond_wait returns with no signal *)
SpuriousWake(p) ==
  /\ Spurious
  /\ waiting[p]
  /\ waiting' = [waiting EXCEPT ![p] = FALSE]
  /\ UNCHANGED <<alive, flag, value, popLock, linked, gpc, spc, got>>

-----------------------------------------------------------------------------
(* Consumer side: ResultReceiverHolder::setValue on the entry of p, from  *)
(* the moment a consumer starts handling it (spc[p] = "check").           *)

(* ResultReceiverHolder.h:52: the unlocked test resultReceiver != NULL *)
HolderCheck(p) ==
  /\ spc[p] = "check"
  /\ spc' = [spc EXCEPT ![p] = IF linked[p] THEN "lockH" ELSE "done"]
  /\ UNCHANGED <<alive, flag, value, popLock, waiting, linked, gpc, got>>

(* lines 53-54: identifierLock.acquire() and the test again; the lock    *)
(* belongs to the entry copy in the queue slot, which only the consumer  *)
(* handling the entry touches, so it is always free                      *)
HolderRecheck(p) ==
  /\ spc[p] = "lockH"
  /\ spc' = [spc EXCEPT ![p] = IF linked[p] THEN "store" ELSE "unlockH"]
  /\ UNCHANGED <<alive, flag, value, popLock, waiting, linked, gpc, got>>

(* line 55: resultReceiver->setValue(value), DataHolder.h:57-59 *)
HolderStore(p) ==
  /\ spc[p] = "store"
  /\ value' = [value EXCEPT ![p] = "SUCCESS"]
  /\ spc' = [spc EXCEPT ![p] = "pacq"]
  /\ UNCHANGED <<alive, flag, popLock, waiting, linked, gpc, got>>

(* line 56 -> setPopulated, ResultReceiver.h:27: isPopulatedLock.acquire() *)
PopAcquire(p) ==
  /\ spc[p] = "pacq"
  /\ popLock[p] = "free"
  /\ popLock' = [popLock EXCEPT ![p] = "setter"]
  /\ spc' = [spc EXCEPT ![p] = "pflag"]
  /\ UNCHANGED <<alive, flag, value, waiting, linked, gpc, got>>

(* line 28: isPopulatedFlag = true *)
PopFlag(p) ==
  /\ spc[p] = "pflag"
  /\ flag' = [flag EXCEPT ![p] = TRUE]
  /\ spc' = [spc EXCEPT ![p] = "psignal"]
  /\ UNCHANGED <<alive, value, popLock, waiting, linked, gpc, got>>

(* Fault variant of PopSignal: the signal is lost *)
PopSignalLost(p) ==
  /\ spc[p] = "psignal"
  /\ spc' = [spc EXCEPT ![p] = "prel"]
  /\ UNCHANGED <<alive, flag, value, popLock, waiting, linked, gpc, got>>

(* line 29: isPopulatedCond.signal() wakes the getter if it waits *)
PopSignal(p) ==
  /\ spc[p] = "psignal"
  /\ waiting' = [waiting EXCEPT ![p] = FALSE]
  /\ spc' = [spc EXCEPT ![p] = "prel"]
  /\ UNCHANGED <<alive, flag, value, popLock, linked, gpc, got>>

(* line 30: isPopulatedLock.release() *)
PopRelease(p) ==
  /\ spc[p] = "prel"
  /\ popLock' = [popLock EXCEPT ![p] = "free"]
  /\ spc' = [spc EXCEPT ![p] = "unlink"]
  /\ UNCHANGED <<alive, flag, value, waiting, linked, gpc, got>>

(* ResultReceiverHolder.h:57: resultReceiver = NULL *)
HolderUnlink(p) ==
  /\ spc[p] = "unlink"
  /\ linked' = [linked EXCEPT ![p] = FALSE]
  /\ spc' = [spc EXCEPT ![p] = "unlockH"]
  /\ UNCHANGED <<alive, flag, value, popLock, waiting, gpc, got>>

(* line 59: identifierLock.release(); handle() returns *)
HolderUnlock(p) ==
  /\ spc[p] = "unlockH"
  /\ spc' = [spc EXCEPT ![p] = "done"]
  /\ UNCHANGED <<alive, flag, value, popLock, waiting, linked, gpc, got>>

(* one step of the getter of p, and of the consumer delivering to p *)
Getter(p) ==
  \/ GetFast(p) \/ GetLock(p) \/ GetRecheck(p) \/ GetReacquire(p)
  \/ GetRelease(p) \/ GetReturn(p) \/ Destroy(p)

Setter(p) ==
  \/ HolderCheck(p) \/ HolderRecheck(p) \/ HolderStore(p) \/ PopAcquire(p)
  \/ PopFlag(p) \/ PopSignal(p) \/ PopRelease(p) \/ HolderUnlink(p)
  \/ HolderUnlock(p)

-----------------------------------------------------------------------------
(* The receiver on its own: the add of the linked entry is one step, after *)
(* which a consumer takes the entry up at once.                            *)

(* operationsProcessor.add(data), testQueues.cpp:99, and a consumer's    *)
(* remove of the entry                                                     *)
AddLinked(p) ==
  /\ gpc[p] = "add"
  /\ gpc' = [gpc EXCEPT ![p] = "fast"]
  /\ spc' = [spc EXCEPT ![p] = "check"]
  /\ UNCHANGED <<alive, flag, value, popLock, waiting, linked, got>>

(* every producer has left its scope and every delivery has ended *)
RRFinished ==
  /\ \A p \in Producers : gpc[p] = "done" /\ spc[p] = "done"
  /\ UNCHANGED rrVars

RRNext ==
  \/ \E p \in Producers :
       Construct(p) \/ AddLinked(p) \/ Getter(p) \/ Setter(p) \/ SpuriousWake(p)
  \/ RRFinished

RRSpec ==
  /\ RRInit /\ [][RRNext]_rrVars
  /\ \A p \in Producers : WF_rrVars(Getter(p)) /\ WF_rrVars(Setter(p))
  /\ \A p \in Producers : WF_rrVars(Construct(p) \/ AddLinked(p))

-----------------------------------------------------------------------------
(* Properties.                                                             *)

RRTypeOK ==
  /\ alive \in [Producers -> BOOLEAN]
  /\ flag \in [Producers -> BOOLEAN]
  /\ value \in [Producers -> Status]
  /\ popLock \in [Producers -> {"getter", "setter", "free"}]
  /\ waiting \in [Producers -> BOOLEAN]
  /\ linked \in [Producers -> BOOLEAN]
  /\ got \in [Producers -> Status \cup {"none"}]

(* getValue() "will wait for the returned value to be populated by        *)
(* consumers before returning" (ResultReceiver.h:33-35): what it returns  *)
(* is the Status the consumer stored                                       *)
ValueDelivered == \A p \in Producers : got[p] # "UNKNOWN"

(* the receiver outlives the consumer's use of it: setPopulated never     *)
(* signals or unlocks a receiver whose producer has left getValue's scope *)
ReceiverOutlivesSetter ==
  \A p \in Producers : spc[p] \in ReceiverSteps => alive[p]

(* a producer blocked in getValue() for a linked entry that a consumer    *)
(* handles eventually returns                                              *)
GetValueReturns ==
  \A p \in Producers : gpc[p] = "fast" ~> got[p] # "none"

=============================================================================
