------------------------- MODULE ReaderWriterQueue -------------------------
(***************************************************************************)
(* queue/ReaderWriterQueue.cpp used as QueueConsumerWorker.h:22-27         *)
(* documents it: one writer thread calling add and one reader thread       *)
(* calling remove and handling the entry, with no lock between them.       *)
(* readIndex and writeIndex are volatile ints, each written by one thread  *)
(* and read by the other.  The writer is the adder of                      *)
(* sample/testQueues.cpp:38-105: PlainAdds entries with no receiver        *)
(* (count1, count2), then one entry linked to a ResultReceiver on its      *)
(* stack, for which it blocks in getValue() (count3).  The reader's handle *)
(* is SampleQueueEntryConsumer::handle, which delivers the Status through  *)
(* ResultReceiverHolder::setValue (module ResultReceiver).                 *)
(*                                                                         *)
(* remove returns a reference to the entry in its slot: the reader handles *)
(* the entry in place, in the slot it took (readerIndex.index), after      *)
(* readIndex has already moved past it.                                    *)
(*                                                                         *)
(* Entries are their insertion number.  The storage is the sample's       *)
(* SampleDataArray: each slot owns a cell with one SampleQueueEntry1 and  *)
(* one SampleQueueEntry2 (data1, data2), and queueData[i] points to the   *)
(* one the entry in slot i was copied into.  A cell never written holds   *)
(* default-constructed entries, 0.                                        *)
(* Nothing calls resize in this configuration (only ProcessorQueueAdder,   *)
(* on a SyncWriterQueue, does), so currentSize stays QueueSize.            *)
(***************************************************************************)
EXTENDS ProcessingQueue, ResultReceiver, Sequences, FiniteSets

CONSTANTS
  QueueSize,  \* the queueSize given to the constructor
  PlainAdds,  \* entries the writer adds before the one linked to its receiver
  EntryTypes  \* the dynamic types of the plain entries: subset of {"E1", "E2"}

ASSUME /\ QueueSize \in Nat /\ QueueSize >= 2 /\ QueueSize <= UINT_MAX
       /\ PlainAdds \in Nat
       /\ Cardinality(Producers) = 1
       /\ EntryTypes \subseteq {"E1", "E2"} /\ EntryTypes # {}

VARIABLES
  queueData,   \* queueData: slot -> the field of its cell it points to
  cells,       \* dataEntries: slot -> [data1, data2] entry numbers held there
  readIndex,   \* ReaderWriterQueue::readIndex
  writeIndex,  \* ReaderWriterQueue::writeIndex
  added,       \* stats.addedCount: the number of the last entry published
  wpc,         \* writer program counter inside add
  wnext,       \* the index isFull returned to tryInsert
  etype,       \* the dynamic type of the entry being added
  rpc,         \* reader program counter
  rslot,       \* readerIndex.index: the slot of the entry being handled
  handled      \* history: the entries handled, in order

queueVars  == <<queueData, cells, readIndex, writeIndex, added>>
writerVars == <<wpc, wnext, etype>>
readerVars == <<rpc, rslot, handled>>
vars == <<queueVars, writerVars, readerVars, rrVars>>

(* the writer thread, the one producer owning a ResultReceiver *)
Writer == CHOOSE p \in Producers : TRUE

(* the entry constructed with statusHolderPtr (testQueues.cpp:93-98) *)
LinkedEntry == PlainAdds + 1

Slot == 0 .. QueueSize - 1

(* the number of the entry queueData[i] points to *)
Entry(i) == cells[i][queueData[i]]

(* SampleQueueData: a cell of default-constructed entries (id1(0)) *)
SampleQueueData == [data1 |-> 0, data2 |-> 0]

(* the entry type each field of a cell holds *)
FieldType == [data1 |-> "E1", data2 |-> "E2"]

(* Fault variant of CellEntry: every entry is given the data1 field *)
CellEntryFirst(t) == "data1"

(* SampleQueueData::getQueueEntry: the field whose type the entry has  *)
(* (dynamic_cast); no other entry type is ever added by the sample     *)
CellEntry(t) == IF t = "E1" THEN "data1" ELSE "data2"

(* ProcessingQueueDataArray::getQueueEntry: within currentSize the cell *)
(* at the index chooses the field                                       *)
GetQueueEntry(i, t) == CellEntry(t)

(* SampleQueueEntry1/2::operator=(const QueueEntryBase &): an entry of  *)
(* the field's own type is copied; any other assigns only the Data base *)
(* and the field keeps the entry it held                                *)
AssignFrom(f, t, n, old) == IF FieldType[f] = t THEN n ELSE old

(* QueueEntryBase::copyTo: *destination = *this, dispatched on the      *)
(* destination field's type                                              *)
CopyTo(cell, f, t, n) == [cell EXCEPT ![f] = AssignFrom(f, t, n, @)]

(* ProcessingQueue's constructor: new QueueEntryBase *[queueSize] leaves *)
(* the pointers uninitialised (any value; none is read before add sets   *)
(* it) and dataEntries->resize(queueSize) allocates the cells            *)
InitStorage ==
  /\ queueData \in [Slot -> DOMAIN FieldType]
  /\ cells = [i \in Slot |-> SampleQueueData]

RWInit ==
  /\ InitStorage
  /\ readIndex = 0
  /\ writeIndex = 0
  /\ added = 0
  /\ wpc = "idle"
  /\ wnext = 0
  /\ etype = "E1"
  /\ rpc = "idle"
  /\ rslot = 0
  /\ handled = <<>>
  /\ RRInit

-----------------------------------------------------------------------------
(* Writer.                                                                 *)

(* Fault variant of QueueFull: the wrap-around of nextIndex is forgotten *)
QueueFullNoWrap(wi, ri, sz) == wi + 1 = ri

(* ReaderWriterQueue::isFull: the slot before readIndex is still the      *)
(* reader's, so the queue is full when the next write index reaches it    *)
QueueFull(wi, ri, sz) == NextIndex(wi, sz) = ri

(* testQueues.cpp:90-98: the receiver and the entry linked to it *)
WriterConstruct ==
  /\ wpc = "idle"
  /\ added = PlainAdds
  /\ Construct(Writer)
  /\ UNCHANGED <<queueVars, writerVars, readerVars>>

(* add -> tryInsert -> isFull (lines 14-22, 41-45): readIndex is read    *)
(* once; when the queue is full add returns IS_FULL and the caller calls *)
(* add again, which leaves no trace in the state.  The entry added is a  *)
(* SampleQueueEntry1 or 2 (testQueues.cpp:48, 67, 74); the linked one is *)
(* a SampleQueueEntry1 (line 93)                                         *)
AddCheck ==
  /\ wpc = "idle"
  /\ \/ added < PlainAdds /\ etype' \in EntryTypes
     \/ added = PlainAdds /\ gpc[Writer] = "add" /\ etype' = "E1"
  /\ ~QueueFull(writeIndex, readIndex, QueueSize)
  /\ wnext' = NextIndex(writeIndex, QueueSize)
  /\ wpc' = "insert"
  /\ UNCHANGED <<queueVars, readerVars, rrVars>>

(* tryInsert -> insert (lines 25-39): SampleDataArray::isCompatibleEntry *)
(* is always true and getQueueEntry finds the field for the entry's type *)
(* in the cell at writeIndex; queueData[writeIndex] is pointed at it and *)
(* the entry copied into it                                               *)
AddInsert ==
  /\ wpc = "insert"
  /\ LET f == GetQueueEntry(writeIndex, etype) IN
     /\ queueData' = [queueData EXCEPT ![writeIndex] = f]
     /\ cells' = [cells EXCEPT ![writeIndex] = CopyTo(@, f, etype, added + 1)]
  /\ wpc' = "publish"
  /\ UNCHANGED <<readIndex, writeIndex, added, wnext, etype, readerVars,
                 rrVars>>

(* add, lines 57-59: writeIndex = nextIndex publishes the entry and     *)
(* addedCount is incremented; after the linked entry the writer calls   *)
(* statusHolder1.getValue() (testQueues.cpp:100)                        *)
AddPublish ==
  /\ wpc = "publish"
  /\ writeIndex' = wnext
  /\ added' = added + 1
  /\ wpc' = "idle"
  /\ gpc' = IF added + 1 = LinkedEntry
            THEN [gpc EXCEPT ![Writer] = "fast"] ELSE gpc
  /\ UNCHANGED <<queueData, cells, readIndex, wnext, etype, readerVars,
                 alive, flag, value, popLock, waiting, linked, spc, got>>

-----------------------------------------------------------------------------
(* Reader.                                                                 *)

(* remove (lines 63-76): isEmpty compares readIndex with writeIndex; if  *)
(* not empty the reader notes the slot in readerIndex.index, takes the   *)
(* reference to its entry and moves readIndex on                         *)
Remove ==
  /\ rpc = "idle"
  /\ readIndex # writeIndex
  /\ rslot' = readIndex
  /\ readIndex' = NextIndex(readIndex, QueueSize)
  /\ rpc' = "handle"
  /\ UNCHANGED <<queueData, cells, writeIndex, added, writerVars, handled,
                 rrVars>>

(* SampleQueueEntryConsumer::handle on the entry in slot rslot: an entry *)
(* constructed without a receiver has a NULL holder, so setStatus finds   *)
(* resultReceiver NULL at ResultReceiverHolder.h:52 and returns; the      *)
(* linked entry starts the delivery of module ResultReceiver              *)
Handle ==
  /\ rpc = "handle"
  /\ IF Entry(rslot) = LinkedEntry
     THEN /\ spc' = [spc EXCEPT ![Writer] = "check"]
          /\ rpc' = "deliver"
          /\ UNCHANGED handled
     ELSE /\ handled' = Append(handled, Entry(rslot))
          /\ rpc' = "idle"
          /\ UNCHANGED spc
  /\ UNCHANGED <<queueVars, writerVars, rslot, alive, flag, value, popLock,
                 waiting, linked, gpc, got>>

(* ResultReceiverHolder::setValue has returned: handle() returns *)
HandleDone ==
  /\ rpc = "deliver"
  /\ spc[Writer] = "done"
  /\ handled' = Append(handled, Entry(rslot))
  /\ rpc' = "idle"
  /\ UNCHANGED <<queueVars, writerVars, rslot, rrVars>>

-----------------------------------------------------------------------------
WriterStep ==
  \/ WriterConstruct \/ AddCheck \/ AddInsert \/ AddPublish
  \/ Getter(Writer) /\ UNCHANGED <<queueVars, writerVars, readerVars>>

ReaderStep ==
  \/ Remove \/ Handle \/ HandleDone
  \/ Setter(Writer) /\ UNCHANGED <<queueVars, writerVars, readerVars>>

(* the writer has left its last scope and the reader has emptied the queue *)
Finished ==
  /\ gpc[Writer] = "done"
  /\ rpc = "idle"
  /\ readIndex = writeIndex
  /\ UNCHANGED vars

RWNext == WriterStep \/ ReaderStep \/ Finished

(* both threads run whenever they can: the scheduler gives every runnable *)
(* thread time                                                            *)
RWSpec == RWInit /\ [][RWNext]_vars /\ WF_vars(WriterStep) /\ WF_vars(ReaderStep)

-----------------------------------------------------------------------------
(* Properties.                                                             *)

RWTypeOK ==
  /\ queueData \in [Slot -> DOMAIN FieldType]
  /\ cells \in [Slot -> [DOMAIN FieldType -> 0 .. LinkedEntry]]
  /\ etype \in {"E1", "E2"}
  /\ readIndex \in Slot /\ writeIndex \in Slot /\ rslot \in Slot
  /\ added \in 0 .. LinkedEntry
  /\ wpc \in {"idle", "insert", "publish"}
  /\ wnext \in Slot
  /\ rpc \in {"idle", "handle", "deliver"}
  /\ RRTypeOK

(* The refinement mapping: the entries waiting are those queueData points *)
(* to in the slots from readIndex up to writeIndex; the entry held is the *)
(* one the reader's reference points to, read while it is handled         *)
Pending ==
  [i \in 1 .. (writeIndex - readIndex + QueueSize) % QueueSize |->
     Entry((readIndex + i - 1) % QueueSize)]

HeldEntry == IF rpc \in {"handle", "deliver"} THEN Entry(rslot) ELSE 0

Fifo == INSTANCE FifoQueue
          WITH waiting <- Pending, held <- HeldEntry, done <- handled,
               count <- added

(* ReaderWriterQueue with one writer and one reader is a FIFO queue: no   *)
(* entry is lost, duplicated or reordered, the writer never overwrites    *)
(* the entry the reader still handles in place (isFull, lines 15-20), and *)
(* every entry added is eventually handled                                *)
FifoRefined == Fifo!FairSpec

=============================================================================
