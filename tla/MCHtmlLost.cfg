\* One page and one upload worker, no fault.
SPECIFICATION HtmlSpec
CONSTANTS
    HpPages = {p1}
    HpWorkers = {w1}
    HpQueueSize = 1
    HpBatchSize = 1
    HpRetained = 1
    HpMaxFaults = 0
INVARIANT MetadataStamped
CHECK_DEADLOCK FALSE
