\* Every queue size of a 10-bit unsigned word and every cap up to 1/32 of
\* the word, as MAX_QUEUE_SIZE is below 2^27 of 2^32 with 32-bit words.
CONSTANTS
  UIntBits = 10
SPECIFICATION Spec
INVARIANT GrowthMatchesReference
PROPERTY ReachesMaxSize
