\* Small instances of the smaller parts; README.md says why they are enough.
SPECIFICATION ServicesFairSpec
CONSTANTS
    Concurrency = 1
    MaxTasks = 2
    MaxFaults = 2
    BmTasks = {t1, t2}
    MaxBatchSize = 2
    BatchChannelSize = 1
    MaxConsecutiveFailures = 2
    MaxShutdownRetries = 2
    BmMaxUpdates = 3
    BmRefused = {2}
    BmMaxOutages = 1
    PcTasks = {t1, t2, t3}
    SuccessThreshold = 2
    DelayStep = 2
    DelayStepDown = 1
    MaxDelay = 3
    MinPushback = 1
    PcMaxLimited = 2
    PcMaxFlushes = 1
    LnCallers = {b1, b2}
    BulkSlots = 2
    ControlSlots = 1
    PressureInitial = 2
    PressureMin = 1
    PressureStepDown = 1
    PressureStepUp = 1
    MaxTxRetries = 2
    MaxBootAttempts = 2
    LnMaxSpikes = 1
    AuPages = {p1}
    AuHandlers = {h1, h2}
    AuMaxSends = 3
    AuMaxFaults = 2
    NtOrgs = {g1, g2}
    NtUsers = {n1}
    NtSweepers = {v1}
    NtLimit = 1
    NtMaxNotes = 2
    NtMaxChanges = 2
    NtMaxFaults = 1
INVARIANTS
    LimitUnlessUndercounted ServicesTypeOK
    
    LaneSlotsExact LaneHonest
    
PROPERTIES
    DueDispatched
    BatchNoStepBack  BatchIsRegister
    PacerSpaced PacerServes
    LaneRestores
    VerdictFinal AuditSettles
    
\* Load and faults end, and with them the steps of some parts.
CHECK_DEADLOCK FALSE
