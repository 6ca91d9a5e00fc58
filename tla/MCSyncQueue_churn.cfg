CONSTANTS
  UIntBits = 8
  r1 = r1
  r2 = r2
  r3 = r3
  w1 = w1
  w2 = w2
  NULL = NULL
  Readers <- MCReaders3
  Writers <- MCWriters1
  InitSize = 3
  MaxSize = 3
  MaxEntries = 1
  LoadOrder <- LeftFirst
SPECIFICATION Spec
SYMMETRY ReaderSymmetry
VIEW LiveView
INVARIANTS
  ListWellFormed
