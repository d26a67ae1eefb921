\* Job records: two of three pages admitted, two calls of CancelJob, one of BlockJob.
\* README.md says why the other instances are enough.
SPECIFICATION RecordsSpec
CONSTANTS
    p1 = p1
    p2 = p2
    p3 = p3
    cancel = cancel
    cancel2 = cancel2
    block = block
    Pages = {p1, p2, p3}
    Cancellers = {cancel, cancel2}
    Blockers = {block}
    Sources = {"sitemap", "manual"}
    MaxPages = 2
    HpPages = {h1, h2}
    HpWorkers = {w1, w2}
    HpQueueSize = 1
    HpBatchSize = 1
    HpRetained = 1
    HpMaxFaults = 2
    WbThreshold = 2
    WbCalls = {c1, c2, c3}
    WbMaxOutcomes = 7
    WbMaxFaults = 2
    OrUsers = {u1, u2}
    OrOrgs = {o1, o2}
    OrInvites = {i1}
    OrCalls = {r1, r2}
    OrMaxCalls = 2
    ScMaxJobs = 2
    ScSchedulers = {s1, s2}
    ScHooks = {k1, k2}
    ScCalls = {q1, q2}
    ScMaxCalls = 2
    ScMaxDue = 1
    ScMaxFaults = 1
    AsPages = {1, 2, 3}
    AsReplicas = {r1, r2}
    AsMaxRestarts = 1
    DsPages = {d0, d1, d2}
    DsRoot = d0
    DsExcluded = {d2}
    DsMaxLines = 4
    DsMaxFaults = 1
    PvMaxTaskRetries = 2
    PvMaxBlockingRetries = 1
    PvMaxDropped = 1
    NtOrgs = {g1, g2}
    NtUsers = {n1, n2}
    NtSweepers = {v1, v2}
    NtLimit = 1
    NtMaxNotes = 2
    NtMaxChanges = 2
    NtMaxFaults = 1
SYMMETRY MCSymmetry
INVARIANTS
    RecordsTypeOK
       
    NoSendOnClosed UploadsDrained BreakerAlive
     InviteOneFate
    SingleActiveJob PublishHeard
     RobotsKept MarkedMeansSent
PROPERTIES TableKept LifeKept 
\* Jobs end, and requests and faults are bounded.
CHECK_DEADLOCK FALSE
