\* One task, two handlers that may outlive the reclaim interval, one fault of any kind.
SPECIFICATION Spec
CONSTANTS
    t1 = t1
    t2 = t2
    h1 = h1
    h2 = h2
    Tasks = {t1}
    Handlers = {h1, h2}
    NoMsg = NoMsg
    NoUpdate = NoUpdate
    MaxBlockingRetries = 0
    MaxTaskRetries = 1
    MaxAttempts = 1
    MaxDeliveries = 2
    SlowHandlers = TRUE
    DirectSchedule = FALSE
    FaultKinds = {"crash", "redis", "ackreply", "commit"}
    Copies = 1
    MaxBuffer = 2
    MaxEnqueues = 1
    MaxFaults = 1
SYMMETRY MCSymmetry
INVARIANTS NoOrphan
PROPERTIES PromiseSafe
\* Every task settled and every copy used up: the services really idle.
CHECK_DEADLOCK FALSE
