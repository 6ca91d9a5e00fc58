\* Two producers contend for a queue that is resized once and then reaches
\* MAX_QUEUE_SIZE, with one worker draining it and condition waits that may
\* return spuriously; every add returns.
CONSTANTS
    UIntBits = 8
    w1 = w1  w2 = w2  u1 = u1  p1 = p1  p2 = p2  NoThread = NoThread
    WorkerSeq <- MCWorkerSeqOne
    Workers = {w1}
    Users = {u1}
    Producers = {p1, p2}
    Callers = {u1, p1, p2}
    Adders = {p1, p2}
    InitSize = 2
    MaxSize = 3
    MaxQueued = 2
    UserOps = {}
    MaxOps = 0
    MaxAdds = 3
    AddWhileStopped = FALSE
    StartedAtInit = TRUE
    Spurious = TRUE
    HandlerMayThrow = FALSE
SPECIFICATION PoolSpec
INVARIANTS AddersExcluded
PROPERTIES AddsReturn
