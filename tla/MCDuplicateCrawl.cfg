\* Two tasks, no faults, no slow handlers, no direct scheduling.
SPECIFICATION Spec
CONSTANTS
    t1 = t1
    t2 = t2
    h1 = h1
    h2 = h2
    Tasks = {t1, t2}
    Handlers = {h1, h2}
    NoMsg = NoMsg
    NoUpdate = NoUpdate
    MaxBlockingRetries = 0
    MaxTaskRetries = 0
    MaxAttempts = 1
    MaxDeliveries = 3
    SlowHandlers = FALSE
    DirectSchedule = FALSE
    FaultKinds = {}
    Copies = 2
    MaxBuffer = 2
    MaxEnqueues = 1
    MaxFaults = 0
INVARIANTS NoDuplicateCrawl
\* Every task settled and every copy used up: the services really idle.
CHECK_DEADLOCK FALSE
