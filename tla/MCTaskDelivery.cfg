\* One task, two handlers, no faults: safety and liveness.
SPECIFICATION FairSpec
CONSTANTS
    t1 = t1
    t2 = t2
    h1 = h1
    h2 = h2
    Tasks = {t1}
    Handlers = {h1, h2}
    NoMsg = NoMsg
    NoUpdate = NoUpdate
    MaxBlockingRetries = 0
    MaxTaskRetries = 1
    MaxAttempts = 1
    MaxDeliveries = 3
    SlowHandlers = FALSE
    DirectSchedule = TRUE
    FaultKinds = {}
    Copies = 1
    MaxBuffer = 2
    MaxEnqueues = 1
    MaxFaults = 0
INVARIANTS TypeOK
PROPERTIES PromiseKept
\* Every task settled and every copy used up: the services really idle.
CHECK_DEADLOCK FALSE
