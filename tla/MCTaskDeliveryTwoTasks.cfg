\* Two tasks enqueued twice each, a sweep retried before its dead letter; retries are left to
\* the other configurations.
SPECIFICATION Spec
CONSTANTS
    t1 = t1
    t2 = t2
    h1 = h1
    h2 = h2
    Tasks = {t1, t2}
    Handlers = {h1}
    NoMsg = NoMsg
    NoUpdate = NoUpdate
    MaxBlockingRetries = 0
    MaxTaskRetries = 0
    MaxAttempts = 2
    MaxDeliveries = 2
    SlowHandlers = FALSE
    DirectSchedule = FALSE
    FaultKinds = {}
    Copies = 1
    MaxBuffer = 1
    MaxEnqueues = 2
    MaxFaults = 0
SYMMETRY MCSymmetry
INVARIANTS NoStall
PROPERTIES TableKept
\* Every task settled and every copy used up: the services really idle.
CHECK_DEADLOCK FALSE
