CONSTANTS
  UIntBits = 8
  r1 = r1
  r2 = r2
  r3 = r3
  w1 = w1
  w2 = w2
  NULL = NULL
  Readers <- MCReaders3
  Writers <- MCWriters1
  InitSize = 2
  MaxSize = 4
  MaxEntries = 3
  LoadOrder <- RightFirst
  LeavePermitted <- NeverLeave
SPECIFICATION Spec
SYMMETRY ReaderSymmetry
VIEW LiveView
INVARIANTS
  TypeOK
  ListWellFormed
  SlotExclusive
  
  ReadIndexAtBack
  
  
  

  
