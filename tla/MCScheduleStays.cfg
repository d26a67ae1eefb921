\* A request sets the schedule of a site, the loop creates a job, a second request removes
\* the schedule; no call fails.
SPECIFICATION SchedulesSpec
CONSTANTS
    ScMaxJobs = 2
    ScSchedulers = {s1}
    ScHooks = {k1}
    ScCalls = {q1}
    ScMaxCalls = 2
    ScMaxDue = 1
    ScMaxFaults = 0
INVARIANTS RemovedScheduleStops
\* Requests and due times are bounded.
CHECK_DEADLOCK FALSE
