----------------------------- MODULE SyncQueue -----------------------------
(***************************************************************************)
(* The multi-reader, multi-writer circular queue of queue/SyncQueue.cpp:   *)
(* the ReaderWriterQueue core (readIndex, writeIndex, the slot table and   *)
(* currentSize), the writer side of SyncWriterQueue::add (serialised by    *)
(* addMutex), the reader cursors (ReaderIndex) linked into the             *)
(* SyncReaderList, and the online resize (ReaderWriterQueue::resize        *)
(* followed by SyncReaderList::adjust).                                    *)
(*                                                                         *)
(* Every SyncReaderList operation runs under indexMutex and is one atomic  *)
(* step.  The reader's removeSlot runs outside that mutex: isEmpty loads   *)
(* each operand's argument and, inside adjustIndexForComparison, the      *)
(* volatile readIndex, one load per step in the order the build fixes,    *)
(* and the slot pointer is fetched in a further step, so other readers    *)
(* may move readIndex or this reader's own index between any two loads.  *)
(*                                                                         *)
(* Entries are abstracted to their insertion number: the k-th successful   *)
(* add stores k.  A slot never written since the table was allocated       *)
(* holds 0.                                                                *)
(***************************************************************************)
EXTENDS ProcessingQueue, Integers, FiniteSets, Sequences

CONSTANTS
  Readers,     \* reader threads, each owning one ReaderIndex
  Writers,     \* writer threads calling SyncQueue::add
  InitSize,    \* queueSize given to the constructor
  MaxSize,     \* MAX_QUEUE_SIZE(getEntrySize()): the cap on growth
  MaxEntries,  \* bound on the number of successful adds
  LoadOrder,   \* the order in which the build performs isEmpty's four loads
  NULL         \* the null ReaderIndex pointer

(* isEmpty compares adjustIndexForComparison(writeIndex), operand "w",   *)
(* with adjustIndexForComparison(readerIndex.index), operand "m".  Each   *)
(* operand loads its argument, then, in the call's body, readIndex as    *)
(* the base.  A build performs the four loads in one fixed order in      *)
(* which every argument precedes its own base.                           *)
Operands == {"w", "m"}
Loads == {[op |-> o, kind |-> k] : o \in Operands, k \in {"arg", "base"}}
ValidLoadOrders ==
  {s \in [1 .. 4 -> Loads] :
     /\ \A i, j \in 1 .. 4 : i # j => s[i] # s[j]
     /\ \A i, j \in 1 .. 4 :
          s[i].op = s[j].op /\ s[i].kind = "arg" /\ s[j].kind = "base" => i < j}

ASSUME /\ InitSize \in Nat /\ InitSize >= 2
       /\ MaxSize \in Nat /\ MaxSize >= InitSize /\ MaxSize < UINT_MAX \div 2
       /\ MaxEntries \in Nat
       /\ LoadOrder \in ValidLoadOrders
       /\ NULL \notin Readers

VARIABLES
  slots,       \* queueData: slot -> entry number stored there (0 = never written)
  size,        \* currentSize
  readIndex,   \* ReaderWriterQueue::readIndex
  writeIndex,  \* ReaderWriterQueue::writeIndex
  added,       \* stats.addedCount, also the number of the last entry stored
  addMutex,    \* SyncWriterQueue::addMutex: the writer holding it, or NULL
  wpc,         \* writer program counter
  wnext,       \* the next index computed by isFull, per writer
  front,       \* SyncReaderList::front
  back,        \* SyncReaderList::back
  next,        \* ReaderIndex::next
  prev,        \* ReaderIndex::previous
  idx,         \* ReaderIndex::index
  isDone,      \* ReaderIndex::isDone
  inQueue,     \* ReaderIndex::inQueue
  rpc,         \* reader program counter
  opArg,       \* isEmpty: the argument loaded for each operand (None before)
  opVal,       \* isEmpty: each operand adjusted against its readIndex load
  hslot,       \* the slot whose entry reference the reader is handling
  consumed,    \* history: entry number -> times handled (2 = twice or more)
  lastHandled, \* history: last entry handled by each reader since it joined
  tornRead     \* history: some isEmpty found a slot populated that was not

queueVars  == <<slots, size, readIndex, writeIndex, added>>
writerVars == <<addMutex, wpc, wnext>>
listVars   == <<front, back, next, prev, idx, isDone, inQueue>>
readerVars == <<rpc, opArg, opVal, hslot>>
histVars   == <<consumed, lastHandled, tornRead>>
vars == <<queueVars, writerVars, listVars, readerVars, histVars>>

Slot == 0 .. MaxSize - 1
Ptr  == Readers \cup {NULL}
None == -1
Unloaded == [op \in Operands |-> None]

-----------------------------------------------------------------------------
(* SyncQueue::isEmpty for a given slot, all operands read at once *)
SlotIsEmpty(i) ==
  AdjustIndex(writeIndex, readIndex, size) <= AdjustIndex(i, readIndex, size)

(* ProcessingQueue::getNewQueueSize with MaxSize as MAX_QUEUE_SIZE *)
NewQueueSize(sz) == GetNewQueueSize(sz, MaxSize)

(* Slots from readIndex up to writeIndex: written and not yet released *)
LiveSlots ==
  {i \in 0 .. size - 1 :
     AdjustIndex(i, readIndex, size) < AdjustIndex(writeIndex, readIndex, size)}

-----------------------------------------------------------------------------
Init ==
  /\ slots = [i \in Slot |-> 0]
  /\ size = InitSize
  /\ readIndex = 0
  /\ writeIndex = 0
  /\ added = 0
  /\ addMutex = NULL
  /\ wpc = [w \in Writers |-> "idle"]
  /\ wnext = [w \in Writers |-> 0]
  /\ front = NULL
  /\ back = NULL
  /\ next = [r \in Readers |-> NULL]
  /\ prev = [r \in Readers |-> NULL]
  /\ idx = [r \in Readers |-> 0]
  /\ isDone = [r \in Readers |-> FALSE]
  /\ inQueue = [r \in Readers |-> FALSE]
  /\ rpc = [r \in Readers |-> "out"]
  /\ opArg = [r \in Readers |-> Unloaded]
  /\ opVal = [r \in Readers |-> Unloaded]
  /\ hslot = [r \in Readers |-> 0]
  /\ consumed = [e \in 0 .. MaxEntries |-> 0]
  /\ lastHandled = [r \in Readers |-> 0]
  /\ tornRead = FALSE

-----------------------------------------------------------------------------
(***************************************************************************)
(* Writer side: SyncWriterQueue::add -> ReaderWriterQueue::add ->          *)
(* tryInsert -> isFull, insert, then the writeIndex update.                *)
(***************************************************************************)

(* Fault variant of AddCheck: isFull is never consulted *)
AddCheckNoFull(w) ==
  /\ wpc[w] \in {"idle", "full"}
  /\ addMutex = NULL
  /\ added < MaxEntries
  /\ addMutex' = w
  /\ wnext' = [wnext EXCEPT ![w] = NextIndex(writeIndex, size)]
  /\ wpc' = [wpc EXCEPT ![w] = "insert"]
  /\ UNCHANGED <<queueVars, listVars, readerVars, histVars>>

(* addMutex acquired, isFull compares the next index with readIndex *)
AddCheck(w) ==
  /\ wpc[w] \in {"idle", "full"}
  /\ addMutex = NULL
  /\ added < MaxEntries
  /\ LET n == NextIndex(writeIndex, size) IN
     IF n = readIndex
     THEN /\ wpc' = [wpc EXCEPT ![w] = "full"]
          /\ UNCHANGED <<addMutex, wnext>>
     ELSE /\ addMutex' = w
          /\ wnext' = [wnext EXCEPT ![w] = n]
          /\ wpc' = [wpc EXCEPT ![w] = "insert"]
  /\ UNCHANGED <<queueVars, listVars, readerVars, histVars>>

(* Fault variant of AddInsert: the entry goes to the slot after writeIndex *)
AddInsertAhead(w) ==
  /\ wpc[w] = "insert"
  /\ slots' = [slots EXCEPT ![wnext[w]] = added + 1]
  /\ wpc' = [wpc EXCEPT ![w] = "publish"]
  /\ UNCHANGED <<size, readIndex, writeIndex, added, addMutex, wnext,
                 listVars, readerVars, histVars>>

(* insert: the entry is copied into the slot at writeIndex *)
AddInsert(w) ==
  /\ wpc[w] = "insert"
  /\ slots' = [slots EXCEPT ![writeIndex] = added + 1]
  /\ wpc' = [wpc EXCEPT ![w] = "publish"]
  /\ UNCHANGED <<size, readIndex, writeIndex, added, addMutex, wnext,
                 listVars, readerVars, histVars>>

(* writeIndex = nextIndex; stats.incrementAddedCount; addMutex released *)
AddPublish(w) ==
  /\ wpc[w] = "publish"
  /\ writeIndex' = wnext[w]
  /\ added' = added + 1
  /\ addMutex' = NULL
  /\ wpc' = [wpc EXCEPT ![w] = "idle"]
  /\ UNCHANGED <<slots, size, readIndex, wnext, listVars, readerVars, histVars>>


-----------------------------------------------------------------------------
(* When a reader thread may call endAccess is up to the queue's user; a   *)
(* model-checking instance may narrow it to the discipline of its caller. *)
LeavePermitted(r) == TRUE

-----------------------------------------------------------------------------
(***************************************************************************)
(* SyncReaderList, each operation under indexMutex.                        *)
(***************************************************************************)

(* Fault variant of ListAdd: a joining reader is always appended after  *)
(* the front, even onto the back's slot                                   *)
ListAddAppend(r) ==
  /\ IF front = NULL
     THEN /\ idx' = [idx EXCEPT ![r] = readIndex]
          /\ back' = r
          /\ next' = [next EXCEPT ![r] = r]
          /\ prev' = [prev EXCEPT ![r] = r]
     ELSE /\ next' = [next EXCEPT ![r] = NULL, ![front] = r]
          /\ prev' = [prev EXCEPT ![r] = front]
          /\ idx' = [idx EXCEPT ![r] = NextIndex(idx[front], size)]
          /\ UNCHANGED back
  /\ front' = r
  /\ isDone' = [isDone EXCEPT ![r] = FALSE]
  /\ inQueue' = [inQueue EXCEPT ![r] = TRUE]

(* SyncReaderList::add, under indexMutex: the reader joins at the front *)
ListAdd(r) ==
  /\ IF front = NULL
     THEN /\ idx' = [idx EXCEPT ![r] = readIndex]
          /\ front' = r
          /\ back' = r
          /\ next' = [next EXCEPT ![r] = r]
          /\ prev' = [prev EXCEPT ![r] = r]
          /\ isDone' = [isDone EXCEPT ![r] = FALSE]
     ELSE LET n == NextIndex(idx[front], size)
              p == prev[front]
          IN IF n # idx[back]
             THEN /\ next' = [next EXCEPT ![r] = NULL, ![front] = r]
                  /\ prev' = [prev EXCEPT ![r] = front]
                  /\ idx' = [idx EXCEPT ![r] = n]
                  /\ front' = r
                  /\ isDone' = [isDone EXCEPT ![r] = FALSE]
                  /\ UNCHANGED back
             ELSE \* the list spans the queue: join just behind the front
                  /\ next' = [next EXCEPT ![r] = front, ![p] = r]
                  /\ prev' = [prev EXCEPT ![r] = p, ![front] = r]
                  /\ idx' = [idx EXCEPT ![r] = idx[p]]
                  /\ isDone' = [isDone EXCEPT ![r] = TRUE]
                  /\ UNCHANGED <<front, back>>
  /\ inQueue' = [inQueue EXCEPT ![r] = TRUE]

(* SyncQueue::startAccess: the worker's ReaderIndex joins the read list *)
StartAccess(r) ==
  /\ rpc[r] = "out"
  /\ ListAdd(r)
  /\ rpc' = [rpc EXCEPT ![r] = "idle"]
  /\ lastHandled' = [lastHandled EXCEPT ![r] = 0]
  /\ UNCHANGED <<queueVars, writerVars, opArg, opVal, hslot, consumed, tornRead>>

(* Fault variant of MoveOutToFront: the successor's previous is not      *)
(* relinked                                                               *)
MoveOutKeepPrev(r, n) ==
  /\ back' = IF r = back THEN next[r] ELSE back
  /\ readIndex' = IF r = back THEN idx[next[r]] ELSE readIndex
  /\ next' = [IF r = back THEN next ELSE [next EXCEPT ![prev[r]] = next[r]]
              EXCEPT ![r] = NULL, ![front] = r]
  /\ prev' = [prev EXCEPT ![r] = front]
  /\ front' = r

(* moveToFront succeeded for r, which is not the front: moveOut, then r   *)
(* is linked after the old front and becomes the front.                   *)
MoveOutToFront(r, n) ==
  LET nx    == next[r]
      next1 == IF r = back THEN next ELSE [next EXCEPT ![prev[r]] = nx]
      prev1 == [prev EXCEPT ![nx] = prev[r]]
  IN /\ back' = IF r = back THEN nx ELSE back
     /\ readIndex' = IF r = back THEN idx[nx] ELSE readIndex
     /\ next' = [next1 EXCEPT ![r] = NULL, ![front] = r]
     /\ prev' = [prev1 EXCEPT ![r] = front]
     /\ front' = r

(* Fault variant of Squeeze: readIndex is not moved to the new back *)
SqueezeNoRelease(r) ==
  IF next[r] # front
  THEN LET b     == next[r]
           prev1 == [[prev EXCEPT ![b] = NULL] EXCEPT ![next[b]] = b]
           p     == prev1[front]
       IN /\ back' = b
          /\ next' = [next EXCEPT ![r] = front, ![p] = r]
          /\ prev' = [prev1 EXCEPT ![r] = p, ![front] = r]
          /\ idx' = [idx EXCEPT ![r] = idx[p]]
          /\ UNCHANGED readIndex
  ELSE UNCHANGED <<readIndex, back, next, prev, idx>>

(* moveToFront failed and r is the back: the squeeze moves r just behind  *)
(* the front, onto the slot of its new predecessor, and readIndex follows  *)
(* the new back.                                                          *)
Squeeze(r) ==
  IF next[r] # front
  THEN LET b     == next[r]
           prev1 == [[prev EXCEPT ![b] = NULL] EXCEPT ![next[b]] = b]
           p     == prev1[front]
       IN /\ back' = b
          /\ next' = [next EXCEPT ![r] = front, ![p] = r]
          /\ prev' = [prev1 EXCEPT ![r] = p, ![front] = r]
          /\ idx' = [idx EXCEPT ![r] = idx[p]]
          /\ readIndex' = idx[b]
  ELSE \* only two entries in the list
       /\ readIndex' = idx[back]
       /\ UNCHANGED <<back, next, prev, idx>>

MoveToFront(r) ==
  /\ rpc[r] = "idle"
  /\ isDone[r]
  /\ LET n == NextIndex(idx[front], size) IN
     IF n # idx[back]
     THEN /\ IF r # front
             THEN /\ MoveOutToFront(r, n)
                  /\ idx' = [idx EXCEPT ![r] = n]
             ELSE /\ idx' = [idx EXCEPT ![r] = n]
                  /\ readIndex' = IF r = back THEN n ELSE readIndex
                  /\ UNCHANGED <<front, back, next, prev>>
          /\ rpc' = [rpc EXCEPT ![r] = "check"]
     ELSE /\ IF r = back THEN Squeeze(r)
                         ELSE UNCHANGED <<readIndex, back, next, prev, idx>>
          /\ UNCHANGED <<front, rpc>>
  /\ UNCHANGED <<slots, size, writeIndex, added, writerVars, isDone, inQueue,
                 opArg, opVal, hslot, histVars>>

(***************************************************************************)
(* SyncQueue::removeSlot, outside indexMutex.  It is entered from remove   *)
(* either directly (isDone clear: the same slot is checked again) or after *)
(* a successful moveToFront.                                               *)
(***************************************************************************)

(* the argument a reader loads for an isEmpty operand: writeIndex for    *)
(* "w", its own readerIndex.index for "m"                                 *)
OperandArg(r, op) == IF op = "w" THEN writeIndex ELSE idx[r]

(* the number of isEmpty's loads a reader has performed so far *)
LoadsDone(r) ==
  Cardinality({op \in Operands : opArg[r][op] # None})
    + Cardinality({op \in Operands : opVal[r][op] # None})

(* one load: an argument, or readIndex as the base of an operand whose    *)
(* argument is loaded, adjusting that argument                            *)
PerformLoad(r, l) ==
  IF l.kind = "arg"
  THEN /\ opArg' = [opArg EXCEPT ![r][l.op] = OperandArg(r, l.op)]
       /\ UNCHANGED opVal
  ELSE /\ opVal' = [opVal EXCEPT ![r][l.op] = AdjustIndex(opArg[r][l.op], readIndex, size)]
       /\ UNCHANGED opArg

(* removeSlot, entered from remove with isDone clear (the same slot is    *)
(* checked again) or after a successful moveToFront, starts isEmpty with  *)
(* the build's first load.                                                *)
IsEmptyFirst(r) ==
  /\ \/ rpc[r] = "check"
     \/ rpc[r] = "idle" /\ inQueue[r] /\ ~isDone[r]
  /\ PerformLoad(r, LoadOrder[1])
  /\ rpc' = [rpc EXCEPT ![r] = "empty"]
  /\ UNCHANGED <<queueVars, writerVars, listVars, hslot, histVars>>

(* the second and third loads, each a step of its own *)
IsEmptyLoad(r) ==
  /\ rpc[r] = "empty"
  /\ LoadsDone(r) \in {1, 2}
  /\ PerformLoad(r, LoadOrder[LoadsDone(r) + 1])
  /\ UNCHANGED <<queueVars, writerVars, listVars, rpc, hslot, histVars>>

(* Fault variant of IsEmptyDone: a slot counts as populated only when     *)
(* writeIndex is past it by two, an off-by-one in isEmpty                   *)
IsEmptyDoneLate(r) ==
  /\ rpc[r] = "empty"
  /\ LoadsDone(r) = 3
  /\ LET op   == LoadOrder[4].op
         v    == [opVal[r] EXCEPT ![op] = AdjustIndex(opArg[r][op], readIndex, size)]
         done == ~(v["w"] <= v["m"] + 1)
     IN /\ isDone' = [isDone EXCEPT ![r] = done]
        /\ rpc' = [rpc EXCEPT ![r] = IF done THEN "fetch" ELSE "idle"]
        /\ tornRead' = (tornRead \/ (done /\ SlotIsEmpty(idx[r])))
  /\ opArg' = [opArg EXCEPT ![r] = Unloaded]
  /\ opVal' = [opVal EXCEPT ![r] = Unloaded]
  /\ UNCHANGED <<queueVars, writerVars, front, back, next, prev, idx, inQueue,
                 hslot, consumed, lastHandled>>

(* the last operand's body loads readIndex; the comparison gives isEmpty, *)
(* isDone = !isEmpty, and an empty slot makes removeSlot return null      *)
IsEmptyDone(r) ==
  /\ rpc[r] = "empty"
  /\ LoadsDone(r) = 3
  /\ LET op   == LoadOrder[4].op
         v    == [opVal[r] EXCEPT ![op] = AdjustIndex(opArg[r][op], readIndex, size)]
         done == ~(v["w"] <= v["m"])
     IN /\ isDone' = [isDone EXCEPT ![r] = done]
        /\ rpc' = [rpc EXCEPT ![r] = IF done THEN "fetch" ELSE "idle"]
        /\ tornRead' = (tornRead \/ (done /\ SlotIsEmpty(idx[r])))
  /\ opArg' = [opArg EXCEPT ![r] = Unloaded]
  /\ opVal' = [opVal EXCEPT ![r] = Unloaded]
  /\ UNCHANGED <<queueVars, writerVars, front, back, next, prev, idx, inQueue,
                 hslot, consumed, lastHandled>>

(* result = *queueData[readerIndex.index]: the index is read again *)
FetchSlot(r) ==
  /\ rpc[r] = "fetch"
  /\ hslot' = [hslot EXCEPT ![r] = idx[r]]
  /\ rpc' = [rpc EXCEPT ![r] = "handle"]
  /\ UNCHANGED <<queueVars, writerVars, listVars, opArg, opVal, histVars>>

(* the consumer handles the entry through the reference it was given *)
Handle(r) ==
  /\ rpc[r] = "handle"
  /\ LET e == slots[hslot[r]] IN
     /\ consumed' = [consumed EXCEPT ![e] = IF @ < 2 THEN @ + 1 ELSE 2]
     /\ lastHandled' = [lastHandled EXCEPT ![r] = e]
  /\ rpc' = [rpc EXCEPT ![r] = "idle"]
  /\ hslot' = [hslot EXCEPT ![r] = 0]
  /\ UNCHANGED <<queueVars, writerVars, listVars, opArg, opVal, tornRead>>

(***************************************************************************)
(* SyncQueue::endAccess -> SyncReaderList::remove.                         *)
(***************************************************************************)

(* the last reader leaving releases its slot if it handled an entry there *)
ReleasedReadIndex(r) ==
  IF isDone[r] /\ ~SlotIsEmpty(idx[r]) THEN NextIndex(idx[r], size) ELSE readIndex

(* Fault variant of FrontTakesSlot: when the front replaces r further     *)
(* back, r's successor keeps r as its previous                            *)
FrontTakesSlotNoRelink(r) ==
  IF next[r] = front
  THEN /\ next' = [IF r # back THEN [next EXCEPT ![prev[r]] = front] ELSE next
                   EXCEPT ![r] = NULL]
       /\ back' = IF r # back THEN back ELSE front
       /\ prev' = [prev EXCEPT ![front] = prev[r], ![r] = NULL]
       /\ idx' = [idx EXCEPT ![front] = idx[r]]
       /\ UNCHANGED front
  ELSE LET nf    == prev[front]
           next1 == [next EXCEPT ![nf] = NULL]
           next2 == IF r # back THEN [next1 EXCEPT ![prev[r]] = front] ELSE next1
       IN /\ next' = [next2 EXCEPT ![front] = next[r], ![r] = NULL]
          /\ prev' = [prev EXCEPT ![front] = prev[r], ![r] = NULL]
          /\ back' = IF r # back THEN back ELSE front
          /\ idx' = [idx EXCEPT ![front] = idx[r]]
          /\ front' = nf

(* r is not the front and was waiting on its slot: the front takes r's    *)
(* slot and place; when r was not next to the front, the reader before    *)
(* the front becomes the new front.                                       *)
FrontTakesSlot(r) ==
  IF next[r] = front
  THEN LET prev1 == [prev EXCEPT ![front] = prev[r]] IN
       /\ next' = [IF r # back THEN [next EXCEPT ![prev[r]] = front] ELSE next
                   EXCEPT ![r] = NULL]
       /\ back' = IF r # back THEN back ELSE front
       /\ prev' = [prev1 EXCEPT ![r] = NULL]
       /\ idx' = [idx EXCEPT ![front] = idx[r]]
       /\ UNCHANGED front
  ELSE LET nf    == prev[front]
           next1 == [next EXCEPT ![nf] = NULL]
           next2 == IF r # back THEN [next1 EXCEPT ![prev[r]] = front] ELSE next1
           prev1 == [[prev EXCEPT ![front] = prev[r]] EXCEPT ![next[r]] = front]
       IN /\ next' = [next2 EXCEPT ![front] = next[r], ![r] = NULL]
          /\ prev' = [prev1 EXCEPT ![r] = NULL]
          /\ back' = IF r # back THEN back ELSE front
          /\ idx' = [idx EXCEPT ![front] = idx[r]]
          /\ front' = nf

(* r is not the front and its slot was processed: r is unlinked *)
Unlink(r) ==
  LET next1 == IF r = back THEN next ELSE [next EXCEPT ![prev[r]] = next[r]]
      prev1 == [prev EXCEPT ![next[r]] = prev[r]]
  IN /\ back' = IF r = back THEN next[r] ELSE back
     /\ next' = [next1 EXCEPT ![r] = NULL]
     /\ prev' = [prev1 EXCEPT ![r] = NULL]
     /\ UNCHANGED <<front, idx>>

(* SyncReaderList::remove, under indexMutex *)
ListRemove(r) ==
  /\ IF r # front
     THEN /\ IF ~isDone[r] THEN FrontTakesSlot(r) ELSE Unlink(r)
          /\ UNCHANGED readIndex
     ELSE IF r = back
     THEN \* the only reader: a processed, populated slot is released
          /\ readIndex' = ReleasedReadIndex(r)
          /\ front' = NULL
          /\ back' = NULL
          /\ next' = [next EXCEPT ![r] = NULL]
          /\ prev' = [prev EXCEPT ![r] = NULL]
          /\ UNCHANGED idx
     ELSE \* the front but not the back: its predecessor becomes the front
          /\ front' = prev[r]
          /\ next' = [next EXCEPT ![prev[r]] = NULL, ![r] = NULL]
          /\ prev' = [prev EXCEPT ![r] = NULL]
          /\ UNCHANGED <<back, idx, readIndex>>
  /\ inQueue' = [inQueue EXCEPT ![r] = FALSE]
  /\ isDone' = [isDone EXCEPT ![r] = FALSE]

(* SyncQueue::endAccess: the worker's ReaderIndex leaves the read list *)
EndAccess(r) ==
  /\ rpc[r] = "idle"
  /\ inQueue[r]
  /\ LeavePermitted(r)
  /\ ListRemove(r)
  /\ rpc' = [rpc EXCEPT ![r] = "out"]
  /\ UNCHANGED <<slots, size, writeIndex, added, writerVars, opArg, opVal, hslot,
                 histVars>>

(***************************************************************************)
(* Resize, by a writer whose add found the queue full, while every reader  *)
(* is paused between calls and no add is in progress: SyncQueue::resize    *)
(* = ReaderWriterQueue::resize (relocate the live slots, move readIndex)   *)
(* followed by SyncReaderList::adjust (relocate the cursors).              *)
(***************************************************************************)

(* Fault variant of AdjustedCursor: cursors are not relocated *)
AdjustedCursorKept(i, ri, wi, sz, adj) == i

(* Fault variant of AdjustedCursor: whether the slot is populated is not  *)
(* asked, only cursors above writeIndex move                              *)
AdjustedCursorAbove(i, ri, wi, sz, adj) == IF i > wi THEN i + adj ELSE i


(* SyncReaderList::adjust for one cursor: shifted by the adjustment when   *)
(* it points to a populated slot above writeIndex or an empty slot below   *)
(* it                                                                     *)
AdjustedCursor(i, ri, wi, sz, adj) ==
  IF IF Populated(i, ri, wi, sz) THEN i > wi ELSE i < wi THEN i + adj ELSE i

(* the readers SyncReaderList::adjust visits: from back along next, up to *)
(* NULL or back again                                                      *)
RECURSIVE Walk(_, _)
Walk(x, k) ==
  IF x = NULL \/ k = 0 THEN {}
  ELSE {x} \cup (IF next[x] = back THEN {} ELSE Walk(next[x], k - 1))

Resize(w) ==
  /\ wpc[w] = "full"
  /\ size < MaxSize
  /\ addMutex = NULL
  /\ \A r \in Readers : rpc[r] \in {"out", "idle"}
  /\ LET ns   == NewQueueSize(size)
         adj  == ns - size
         visited == Walk(back, Cardinality(Readers))
     IN /\ slots' = ResizedSlots(slots, readIndex, writeIndex, size, ns, Slot)
        /\ readIndex' = ResizedReadIndex(readIndex, writeIndex, adj)
        /\ size' = ns
        /\ idx' = [r \in Readers |->
                     IF r \in visited
                     THEN AdjustedCursor(idx[r], readIndex, writeIndex, ns, adj)
                     ELSE idx[r]]
  /\ wpc' = [wpc EXCEPT ![w] = "idle"]
  /\ UNCHANGED <<writeIndex, added, addMutex, wnext, front, back, next, prev,
                 isDone, inQueue, readerVars, histVars>>

-----------------------------------------------------------------------------
Next ==
  \/ \E w \in Writers :
       AddCheck(w) \/ AddInsert(w) \/ AddPublish(w) \/ Resize(w)
  \/ \E r \in Readers :
       \/ StartAccess(r) \/ MoveToFront(r) \/ IsEmptyFirst(r)
       \/ IsEmptyLoad(r) \/ IsEmptyDone(r) \/ FetchSlot(r) \/ Handle(r) \/ EndAccess(r)

Spec == Init /\ [][Next]_vars

(* One step of a reader thread and of a writer thread. *)
ReaderStep(r) ==
  \/ StartAccess(r) \/ MoveToFront(r) \/ IsEmptyFirst(r)
  \/ IsEmptyLoad(r) \/ IsEmptyDone(r) \/ FetchSlot(r) \/ Handle(r) \/ EndAccess(r)
WriterStep(w) == AddCheck(w) \/ AddInsert(w) \/ AddPublish(w) \/ Resize(w)

(* Every thread that can take a step eventually does: the consumer         *)
(* workers and the adding threads are plain pthreads, scheduled by the OS; *)
(* none of them waits on a lock the model leaves out.                      *)
FairSpec ==
  /\ Spec
  /\ \A r \in Readers : WF_vars(ReaderStep(r))
  /\ \A w \in Writers : WF_vars(WriterStep(w))

-----------------------------------------------------------------------------
(***************************************************************************)
(* Properties.                                                             *)
(***************************************************************************)

TypeOK ==
  /\ slots \in [Slot -> 0 .. MaxEntries]
  /\ size \in InitSize .. MaxSize
  /\ readIndex \in 0 .. size - 1
  /\ writeIndex \in 0 .. size - 1
  /\ added \in 0 .. MaxEntries
  /\ addMutex \in Writers \cup {NULL}
  /\ wpc \in [Writers -> {"idle", "full", "insert", "publish"}]
  /\ front \in Ptr /\ back \in Ptr
  /\ next \in [Readers -> Ptr] /\ prev \in [Readers -> Ptr]
  /\ idx \in [Readers -> Slot]
  /\ isDone \in [Readers -> BOOLEAN] /\ inQueue \in [Readers -> BOOLEAN]
  /\ rpc \in [Readers -> {"out", "idle", "check", "empty", "fetch", "handle"}]
  /\ opArg \in [Readers -> [Operands -> {None} \cup Slot]]
  /\ opVal \in [Readers -> [Operands -> {None} \cup 0 .. 2 * MaxSize]]
  /\ hslot \in [Readers -> Slot]
  /\ consumed \in [0 .. MaxEntries -> 0 .. 2]

InList == {r \in Readers : inQueue[r]}

(* the readers met walking from back along next, at most |InList| of them *)
RECURSIVE ChainFrom(_, _)
ChainFrom(x, k) ==
  IF k = 0 \/ x = NULL THEN <<>> ELSE <<x>> \o ChainFrom(next[x], k - 1)

(* After every add, moveToFront, squeeze and remove the list is intact:   *)
(* walking next from back meets every registered ReaderIndex exactly once *)
(* and ends at front, previous is the inverse of next along the way, and  *)
(* front and back are NULL exactly when no reader is registered.          *)
ListWellFormed ==
  LET c == ChainFrom(back, Cardinality(InList)) IN
  /\ (InList = {}) <=> (front = NULL)
  /\ (InList = {}) <=> (back = NULL)
  /\ Len(c) = Cardinality(InList)
  /\ {c[i] : i \in 1 .. Len(c)} = InList
  /\ InList # {} => c[Len(c)] = front /\ next[front] \in {NULL, front}
  /\ \A i \in 2 .. Len(c) : prev[c[i]] = c[i - 1]

(* a reader claims a slot from the time moveToFront or add assigns it     *)
(* until it has handled the entry there                                   *)
Claims(r) ==
  /\ inQueue[r]
  /\ \/ ~isDone[r]
     \/ rpc[r] \in {"check", "empty", "fetch", "handle"}
ClaimedSlot(r) == IF rpc[r] = "handle" THEN hslot[r] ELSE idx[r]

(* No two readers are ever entitled to the same slot (the cursor list's   *)
(* exclusivity promise, kept through squeeze, remove and resize).         *)
SlotExclusive ==
  \A r1, r2 \in Readers :
    r1 # r2 /\ Claims(r1) /\ Claims(r2) => ClaimedSlot(r1) # ClaimedSlot(r2)

(* The data properties below hold up to the first torn isEmpty (finding 1, *)
(* SyncQueue.cpp:29): once a reader has been told that a slot not between *)
(* readIndex and writeIndex is populated, it handles what the slot holds  *)
(* and moveToFront may carry readIndex past writeIndex, and every one of  *)
(* them fails.  They judge the rest of the protocol: removeSlot's re-read *)
(* of the index, squeeze at full span, the unlocked isFull and resize.    *)

ReadIndexAtBack == back # NULL => readIndex = idx[back]

EveryEntryHandled ==
  \A e \in 1 .. MaxEntries : (added >= e) ~> (consumed[e] > 0)

=============================================================================
