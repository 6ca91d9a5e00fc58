-------------------------- MODULE ProcessingQueue --------------------------
(***************************************************************************)
(* The ring arithmetic shared by every queue of queue/: the index step of  *)
(* ProcessingQueue::nextIndex, the comparison base of                      *)
(* ReaderWriterQueue::adjustIndexForComparison, the growth rule of         *)
(* ProcessingQueue::getNewQueueSize in 32-bit unsigned arithmetic, and the *)
(* slot relocation of ReaderWriterQueue::resize.  Constant operators only: *)
(* SyncQueue and ReaderWriterQueue extend this module.                     *)
(***************************************************************************)
EXTENDS Naturals

CONSTANT UIntBits  \* width of unsigned int: 32 in the build, fewer for TLC

ASSUME UIntBits \in Nat /\ UIntBits >= 4

(* Fault variant of NextIndex: the wrap-around is forgotten *)
NextIndexNoWrap(i, sz) == i + 1

(* ProcessingQueue::nextIndex *)
NextIndex(i, sz) == (i + 1) % sz

AdjustIndex(i, ri, sz) == IF i < ri THEN i + sz ELSE i

(* slot i lies between readIndex ri and writeIndex wi, compared in a table *)
(* of sz slots                                                              *)
Populated(i, ri, wi, sz) == AdjustIndex(i, ri, sz) < AdjustIndex(wi, ri, sz)

-----------------------------------------------------------------------------
(* the largest unsigned int *)
UINT_MAX == 2^UIntBits - 1

(* unsigned multiplication wraps modulo 2^32 *)
UMul(a, b) == (a * b) % (UINT_MAX + 1)

(* Fault variant of GetNewQueueSize: the size is doubled without the     *)
(* UINT_MAX / 2 test, so the product wraps                                *)
GetNewQueueSizeUnchecked(cur, maxSize) ==
  LET newSize == UMul(cur, 2)
  IN  IF newSize > maxSize THEN maxSize ELSE newSize

(* ProcessingQueue::getNewQueueSize: double the current size, saturating *)
(* at UINT_MAX, and cap it at MAX_QUEUE_SIZE(getEntrySize())            *)
GetNewQueueSize(cur, maxSize) ==
  LET newSize == IF cur >= UINT_MAX \div 2 THEN UINT_MAX ELSE UMul(cur, 2)
  IN  IF newSize > maxSize THEN maxSize ELSE newSize

(* MAX_QUEUE_SIZE(entrySize): 500 MiB of entries *)
MAX_QUEUE_SIZE(entrySize) == (500 * 1024 * 1024) \div entrySize

-----------------------------------------------------------------------------
RelocatedSlot(i, wi, adj) == IF i > wi THEN i + adj ELSE i

ResizedReadIndex(ri, wi, adj) == IF ri >= wi + 1 THEN ri + adj ELSE ri

(* ReaderWriterQueue::resize for the whole table: the live slots of the   *)
(* old table (compared with the new currentSize, already updated when the *)
(* loop asks) carried to their relocated positions; the rest hold 0       *)
ResizedSlots(slots, ri, wi, sz, ns, Slot) ==
  LET adj  == ns - sz
      live == {i \in 0 .. sz - 1 : Populated(i, ri, wi, ns)}
  IN  [j \in Slot |->
         IF \E i \in live : RelocatedSlot(i, wi, adj) = j
         THEN slots[CHOOSE i \in live : RelocatedSlot(i, wi, adj) = j]
         ELSE 0]

=============================================================================
