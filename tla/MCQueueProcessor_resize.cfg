\* Producers fill a small queue so that it is resized while a user pauses
\* and resumes the running pool.
CONSTANTS
    UIntBits = 8
    w1 = w1  w2 = w2  u1 = u1  p1 = p1  p2 = p2  NoThread = NoThread
    WorkerSeq <- MCWorkerSeq
    Workers = {w1, w2}
    Users = {u1}
    Producers = {p1, p2}
    Callers = {u1, p1, p2}
    Adders = {p1, p2}
    InitSize = 2
    MaxSize = 4
    MaxQueued = 3
    UserOps = {"pauseBlock", "resume"}
    MaxOps = 2
    MaxAdds = 2
    AddWhileStopped = FALSE
    StartedAtInit = TRUE
    Spurious = FALSE
    HandlerMayThrow = FALSE
SPECIFICATION PoolSpec
INVARIANTS PoolTypeOK ResizeIsolated PausedOnlyWhenHeld
