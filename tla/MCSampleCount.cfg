\* main of sample/testQueues.cpp scaled down: 3 workers share 2 consumers
\* (8 and 5 in main), so the last two workers increment one count.
CONSTANTS
  NumWorkers = 3
  NumConsumers = 2
  Entries = 3
  Rounds = 3
  UIntBits = 8
SPECIFICATION Spec
INVARIANT CountAccounted
