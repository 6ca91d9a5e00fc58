\* The life of the pool: a user starts, stops, restarts and terminates it
\* while a producer adds to a queue that never fills; every call returns.
CONSTANTS
    UIntBits = 8
    w1 = w1  w2 = w2  u1 = u1  p1 = p1  p2 = p2  NoThread = NoThread
    WorkerSeq <- MCWorkerSeq
    Workers = {w1, w2}
    Users = {u1}
    Producers = {p1}
    Callers = {u1, p1}
    Adders = {p1}
    InitSize = 3
    MaxSize = 3
    MaxQueued = 2
    UserOps = {"start", "stop", "terminate"}
    MaxOps = 3
    MaxAdds = 2
    AddWhileStopped = FALSE
    StartedAtInit = FALSE
    Spurious = FALSE
    HandlerMayThrow = FALSE
SPECIFICATION PoolSpec

PROPERTIES UserCallsReturn AddsReturn
