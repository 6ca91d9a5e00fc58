\* One writer thread (testPopulate with count1 + count2 = 7 plain adds of
\* SampleQueueEntry1 or 2 and one add linked to a ResultReceiver) and one
\* reader on a ReaderWriterQueue of 3 slots, so the queue fills and wraps.
CONSTANTS
  UIntBits = 8
  Producers = {w}
  Spurious = FALSE
  QueueSize = 3
  PlainAdds = 7
  EntryTypes = {"E1", "E2"}
SPECIFICATION RWSpec
INVARIANT RWTypeOK ValueDelivered
PROPERTY FifoRefined GetValueReturns
