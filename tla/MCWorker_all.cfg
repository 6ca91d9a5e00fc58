CONSTANTS
    w1 = w1
    w2 = w2
    ctl = ctl
    p1 = p1
    Workers = {w1, w2}
    Producers = {p1}
    Callers = {ctl, p1}
    MaxQueued = 2
    MaxCalls = 3
    MaxAdds = 2
    Spurious = FALSE
    HandlerMayThrow = TRUE
SPECIFICATION MCSpec
INVARIANTS TypeOK PauseBlockParks
PROPERTIES CallsReturn WaitingWorkerWakes
