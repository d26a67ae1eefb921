\* One audit, no fault; the job may complete or be stopped at any time.
SPECIFICATION AuditsFairSpec
CONSTANTS
    AuPages = {p1}
    AuHandlers = {h1}
    AuMaxSends = 1
    AuMaxFaults = 0
PROPERTIES AuditsCarriedOut
CHECK_DEADLOCK FALSE
