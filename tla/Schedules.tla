----------------------------- MODULE Schedules -----------------------------
(***************************************************************************)
(* How jobs of one domain of one organisation come to be: requests, the    *)
(* scheduler loop of the API server, and the Webflow site of the domain    *)
(* with its schedule and its webhook.  All of them end in CreateJob, whose *)
(* statements interleave with those of the others.                         *)
(***************************************************************************)
EXTENDS Integers, FiniteSets

CONSTANTS
    ScMaxJobs,       \* bound: jobs, numbered in the order of their creation
    ScSchedulers,    \* the rows schedulers may have
    ScHooks,         \* the webhooks Webflow may register
    ScCalls,         \* requests that are served at a time
    ScMaxCalls, ScMaxDue, ScMaxFaults   \* bounds: requests, due times, failed calls

ASSUME ScAssumption == ScMaxJobs \in Nat /\ "loop" \notin ScCalls

VARIABLES
    scJob,      \* jobs: status, and the scheduler that created it
    scSched,    \* schedulers: "none", "enabled", "disabled" or "deleted"
    scDue,      \* the schedulers whose next_run_at has passed
    scRecent,   \* the schedulers with a job started less than half an interval ago
    scSetting,  \* the webflow_site_settings row
    scHook,     \* the webhooks registered at Webflow
    scCall,     \* the loop and the requests: where each is and what it has read
    scRaced,    \* history: two CreateJobs overlapped, or one could not cancel
    scTorn,     \* history: two site handlers overlapped, or one failed half-way
    scRemoved,  \* history: the schedulers removed with the site's schedule
    scLeft      \* what is left of the bounds

schedVars == <<scJob, scSched, scDue, scRecent, scSetting, scHook, scCall, scRaced,
               scTorn, scRemoved, scLeft>>

-----------------------------------------------------------------------------

ScNone == "none"
ScProcs == ScCalls \cup {"loop"}

ScNoSetting == [row |-> FALSE, sched |-> ScNone, auto |-> FALSE, hook |-> ScNone]

\* seen: the setting as read; on: what a request asks for, or the loop's schedulers.
ScIdle == [at |-> "idle", sched |-> ScNone, job |-> 0, seen |-> ScNoSetting,
           status |-> ScNone, due |-> FALSE, todo |-> {}]

SchedulesInit ==
    /\ scJob = [j \in 1..ScMaxJobs |-> [status |-> ScNone, by |-> ScNone]]
    /\ scSched = [s \in ScSchedulers |-> ScNone] /\ scDue = {} /\ scRecent = {}
    /\ scSetting = ScNoSetting /\ scHook = {}
    /\ scCall = [p \in ScProcs |-> ScIdle]
    /\ scRaced = FALSE /\ scTorn = FALSE /\ scRemoved = {}
    /\ scLeft = [calls |-> ScMaxCalls, due |-> ScMaxDue, faults |-> ScMaxFaults]

ScLive == {s \in ScSchedulers : scSched[s] \in {"enabled", "disabled"}}

ScSpends(what) == scLeft[what] > 0 /\ scLeft' = [scLeft EXCEPT ![what] = @ - 1]

ScAt(p, at) == scCall[p].at = at
ScGoes(p, call) == scCall' = [scCall EXCEPT ![p] = call]
ScGoesTo(p, at) == ScGoes(p, [scCall[p] EXCEPT !.at = at])

\* Where CreateJob leaves its caller.
ScReturns(p, created) ==
    ScGoes(p, IF p # "loop" THEN ScIdle
              ELSE IF created THEN [scCall[p] EXCEPT !.at = "advances", !.job = 0]
              ELSE [ScIdle EXCEPT !.at = "works", !.todo = scCall[p].todo])

\* The rows and the webhooks a step of CreateJob leaves alone, and those of a handler.
ScJobsOnly == UNCHANGED <<scSched, scDue, scRecent, scSetting, scHook, scTorn, scRemoved>>
ScNoJobs   == UNCHANGED <<scJob, scRecent, scRaced>>

-----------------------------------------------------------------------------
(* CreateJob, and the life of a job *)

\* Mutant: only running jobs count as active.
ScActiveRunning == {j \in 1..ScMaxJobs : scJob[j].status = "running"}

\* The active jobs of the domain, as handleExistingJobs asks for them.
ScActive == {j \in 1..ScMaxJobs : scJob[j].status \in {"pending", "running"}}

ScCreating(p) == scCall[p].at \in {"cancels", "inserts"}

\* handleExistingJobs: only the latest active job is looked at.
ScFindExisting(p) ==
    LET active == ScActive
    IN  /\ ScAt(p, "creates")
        /\ IF active = {} THEN ScGoesTo(p, "inserts")
           ELSE \E j \in active :
                   /\ \A k \in active : k <= j
                   /\ ScGoes(p, [scCall[p] EXCEPT !.at = "cancels", !.job = j])
        /\ scRaced' = (scRaced \/ \E q \in ScProcs \ {p} : ScCreating(q))
        /\ UNCHANGED <<scJob, scLeft>> /\ ScJobsOnly

\* The query or CancelJob fails, which is logged: the new job is created all the same.
ScExistingStays(p) ==
    /\ scCall[p].at \in {"creates", "cancels"} /\ ScSpends("faults")
    /\ ScGoesTo(p, "inserts") /\ scRaced' = TRUE
    /\ UNCHANGED scJob /\ ScJobsOnly

ScCancelExisting(p) ==
    /\ ScAt(p, "cancels")
    /\ scJob' = IF scJob[scCall[p].job].status \in {"pending", "running"}
                THEN [scJob EXCEPT ![scCall[p].job].status = "over"] ELSE scJob
    /\ ScGoesTo(p, "inserts")
    /\ UNCHANGED <<scRaced, scLeft>> /\ ScJobsOnly

\* setupJobDatabase: pending, or blocked at once if the domain is known to block.
ScInsertJob(p) ==
    \E n \in 1..ScMaxJobs, status \in {"pending", "over"} :
       /\ ScAt(p, "inserts")
       /\ scCall[p].sched # ScNone => scCall[p].sched \in ScLive
       /\ scJob[n].status = ScNone /\ \A k \in 1..(n - 1) : scJob[k].status # ScNone
       /\ scJob' = [scJob EXCEPT ![n] =
             [status |-> status, by |-> IF p = "loop" THEN scCall[p].sched ELSE ScNone]]
       /\ ScReturns(p, TRUE)
       /\ UNCHANGED <<scRaced, scLeft>> /\ ScJobsOnly

\* The transaction fails, or refers to a scheduler that has been deleted.
ScInsertFails(p) ==
    /\ ScAt(p, "inserts")
    /\ \/ p = "loop" /\ scCall[p].sched \notin ScLive /\ UNCHANGED scLeft
       \/ ScSpends("faults")
    /\ ScReturns(p, FALSE)
    /\ UNCHANGED <<scJob, scRaced>> /\ ScJobsOnly

\* MarkJobRunning with the first task that is dispatched.
ScMarkRunning(j) ==
    /\ scJob[j].status = "pending"
    /\ scJob' = [scJob EXCEPT ![j].status = "running"]
    /\ scRecent' = scRecent \cup ({scJob[j].by} \ {ScNone})
    /\ UNCHANGED <<scSched, scDue, scSetting, scHook, scCall, scRaced, scTorn, scRemoved, scLeft>>

\* The job completes, fails or is blocked, or a request cancels it.
ScEndJob(j) ==
    /\ j \in ScActive
    /\ scJob' = [scJob EXCEPT ![j].status = "over"]
    /\ UNCHANGED <<scCall, scRaced, scLeft>> /\ ScJobsOnly

-----------------------------------------------------------------------------
(* startJobScheduler *)

\* A tick: the enabled schedulers whose time has come.
ScTick ==
    LET ready == {s \in scDue : scSched[s] = "enabled"}
    IN  /\ ScAt("loop", "idle") /\ ready # {}
        /\ ScGoes("loop", [ScIdle EXCEPT !.at = "works", !.todo = ready])
        /\ UNCHANGED <<scDue, scSched, scSetting, scHook, scTorn, scRemoved, scLeft>> /\ ScNoJobs

\* The next of them: a job of its own that started a short while ago spares it the run.
ScTake(s) ==
    /\ ScAt("loop", "works") /\ s \in scCall["loop"].todo
    /\ ScGoes("loop", [scCall["loop"] EXCEPT !.todo = @ \ {s}, !.sched = s,
                          !.at = IF s \in scRecent THEN "advances" ELSE "creates"])
    /\ UNCHANGED <<scDue, scSched, scSetting, scHook, scTorn, scRemoved, scLeft>> /\ ScNoJobs

\* UpdateSchedulerNextRun; if it fails, the scheduler stays due.
ScAdvance(ok) ==
    /\ ScAt("loop", "advances")
    /\ ScGoes("loop", [ScIdle EXCEPT !.at = "works", !.todo = scCall["loop"].todo])
    /\ IF ok THEN UNCHANGED scLeft ELSE ScSpends("faults")
    /\ scDue' = IF ok THEN scDue \ {scCall["loop"].sched} ELSE scDue
    /\ UNCHANGED <<scSched, scSetting, scHook, scTorn, scRemoved>> /\ ScNoJobs

ScTickDone ==
    /\ ScAt("loop", "works") /\ scCall["loop"].todo = {} /\ ScGoes("loop", ScIdle)
    /\ UNCHANGED <<scDue, scSched, scSetting, scHook, scTorn, scRemoved, scLeft>> /\ ScNoJobs

\* Time: next_run_at passes, and with it the copies of it that handlers hold.
ScBecomeDue(s) ==
    /\ s \in ScLive \ scDue /\ ScSpends("due")
    /\ scDue' = scDue \cup {s}
    /\ scCall' = [p \in ScProcs |-> IF ScAt(p, "updates") /\ scCall[p].sched = s
                                    THEN [scCall[p] EXCEPT !.due = TRUE] ELSE scCall[p]]
    /\ UNCHANGED <<scSched, scSetting, scHook, scTorn, scRemoved>> /\ ScNoJobs

\* Time: half an interval has passed since the last job of s started.
ScAge(s) ==
    /\ s \in scRecent /\ scRecent' = scRecent \ {s}
    /\ UNCHANGED <<scJob, scSched, scDue, scSetting, scHook, scCall, scRaced, scTorn,
                   scRemoved, scLeft>>

-----------------------------------------------------------------------------
(* The requests: jobs and schedulers *)

\* A request comes in; requests are alike.
ScBegins(c, call) ==
    /\ scCall[c] = ScIdle /\ c = CHOOSE d \in ScCalls : scCall[d] = ScIdle
    /\ ScSpends("calls") /\ ScGoes(c, call)

\* createJob
ScRequestJob(c) ==
    /\ ScBegins(c, [ScIdle EXCEPT !.at = "creates"])
    /\ UNCHANGED <<scDue, scSched, scSetting, scHook, scTorn, scRemoved>> /\ ScNoJobs

\* WebflowWebhook: a publish is crawled if the site is set to.
ScPublish(c) ==
    /\ scHook # {} /\ scSetting.row /\ scSetting.auto
    /\ ScBegins(c, [ScIdle EXCEPT !.at = "creates"])
    /\ UNCHANGED <<scDue, scSched, scSetting, scHook, scTorn, scRemoved>> /\ ScNoJobs

\* createScheduler: there is none for the domain yet.
ScCreateScheduler(c) ==
    /\ ScLive = {} /\ ScBegins(c, [ScIdle EXCEPT !.at = "adds"])
    /\ UNCHANGED <<scDue, scSched, scSetting, scHook, scTorn, scRemoved>> /\ ScNoJobs

\* updateScheduler reads the row and leaves it as it is or turns it on or off.
ScReadScheduler(c, s, status) ==
    /\ s \in ScLive /\ status \in {"enabled", "disabled"}
    /\ ScBegins(c, [ScIdle EXCEPT !.at = "updates", !.sched = s, !.status = status,
                       !.due = s \in scDue])
    /\ UNCHANGED <<scDue, scSched, scSetting, scHook, scTorn, scRemoved>> /\ ScNoJobs

\* UpdateScheduler writes every column, next_run_at as it was read among them.
ScUpdateScheduler(c) ==
    LET s == scCall[c].sched
    IN  /\ ScAt(c, "updates") /\ ScGoes(c, ScIdle)
        /\ IF s \in ScLive
           THEN /\ scSched' = [scSched EXCEPT ![s] = scCall[c].status]
                /\ scDue' = IF scCall[c].due THEN scDue \cup {s} ELSE scDue \ {s}
                /\ scRemoved' = scRemoved \ {s}
           ELSE UNCHANGED <<scSched, scDue, scRemoved>>
        /\ UNCHANGED <<scSetting, scHook, scTorn, scLeft>> /\ ScNoJobs

\* The state is no longer what the request expects: a conflict.
ScConflict(c) ==
    /\ ScAt(c, "updates") /\ scSched[scCall[c].sched] # scCall[c].status /\ ScGoes(c, ScIdle)
    /\ UNCHANGED <<scDue, scSched, scSetting, scHook, scTorn, scRemoved, scLeft>> /\ ScNoJobs

\* The key of jobs.scheduler_id has no ON DELETE: a scheduler that created a job stays.
ScDeletable(s) == s \in ScLive /\ \A j \in 1..ScMaxJobs : scJob[j].by # s

\* DeleteScheduler; the setting's reference becomes NULL.
ScDeleted(s) ==
    /\ scSched' = [scSched EXCEPT ![s] = "deleted"] /\ scDue' = scDue \ {s}
    /\ scSetting' = [scSetting EXCEPT !.sched = IF @ = s THEN ScNone ELSE @]

ScDeleteScheduler(s) ==
    /\ ScDeletable(s) /\ ScDeleted(s)
    /\ UNCHANGED <<scHook, scCall, scTorn, scRemoved, scLeft>> /\ ScNoJobs

-----------------------------------------------------------------------------
(* The requests: the Webflow site *)

ScAtSite(p) == scCall[p].at \in {"schedules", "adds-site", "reschedules", "unschedules",
                                 "hooks", "unhooks", "saves", "saves-job"}

\* updateSiteSchedule and toggleSiteAutoPublish read the setting first.
ScSite(c, at) ==
    /\ at \in {"schedules", "unschedules", "hooks", "unhooks"}
    /\ ScBegins(c, [ScIdle EXCEPT !.at = at, !.seen = scSetting, !.sched = scSetting.sched])
    /\ scTorn' = (scTorn \/ \E q \in ScCalls : ScAtSite(q))
    /\ UNCHANGED <<scDue, scSched, scSetting, scHook, scRemoved>> /\ ScNoJobs

\* The schedule of the domain is looked for among the organisation's ...
ScListSchedulers(c) ==
    /\ ScAt(c, "schedules")
    /\ \/ ScLive = {} /\ ScGoesTo(c, "adds-site")
       \/ \E s \in ScLive : ScGoes(c, [scCall[c] EXCEPT !.at = "reschedules", !.sched = s,
                                                        !.status = scSched[s]])
    /\ UNCHANGED <<scDue, scSched, scSetting, scHook, scTorn, scRemoved, scLeft>> /\ ScNoJobs

\* ... rewritten, enabled or not as it was read ...
ScReschedule(c) ==
    LET s == scCall[c].sched
    IN  /\ ScAt(c, "reschedules")
        /\ IF s \in ScLive
           THEN /\ scSched' = [scSched EXCEPT ![s] = scCall[c].status] /\ scDue' = scDue \ {s}
                /\ scRemoved' = scRemoved \ {s} /\ ScGoesTo(c, "saves-job")
           ELSE ScGoes(c, ScIdle) /\ UNCHANGED <<scSched, scDue, scRemoved>>
        /\ UNCHANGED <<scSetting, scHook, scTorn, scLeft>> /\ ScNoJobs

\* ... or added, which createScheduler does as well.  No key keeps a second one out.
ScAdd(c) ==
    \E s \in ScSchedulers, status \in {"enabled", "disabled"} :
       /\ scSched[s] = ScNone /\ scSched' = [scSched EXCEPT ![s] = status]
       /\ \/ ScAt(c, "adds") /\ ScGoes(c, ScIdle)
          \/ /\ ScAt(c, "adds-site") /\ status = "enabled"
             /\ ScGoes(c, [scCall[c] EXCEPT !.at = "saves-job", !.sched = s])
       /\ UNCHANGED <<scDue, scSetting, scHook, scTorn, scRemoved, scLeft>> /\ ScNoJobs

\* The schedule is removed: DeleteScheduler, and a warning if that fails.
ScUnschedule(c) ==
    LET s == scCall[c].sched
    IN  /\ ScAt(c, "unschedules")
        /\ IF ScDeletable(s) THEN ScDeleted(s) ELSE UNCHANGED <<scSched, scDue, scSetting>>
        /\ scRemoved' = scRemoved \cup ({s} \ {ScNone})
        /\ ScGoes(c, [scCall[c] EXCEPT !.at = "saves", !.sched = ScNone])
        /\ UNCHANGED <<scHook, scTorn, scLeft>> /\ ScNoJobs

\* registerWebflowWebhook; Webflow has one webhook per URL, which findExistingWebhook
\* looks up.
ScRegisterHook(c) ==
    \E k \in ScHooks :
       /\ ScAt(c, "hooks") /\ (scHook # {} => k \in scHook)
       /\ scHook' = {k}
       /\ ScGoes(c, [scCall[c] EXCEPT !.at = "saves-job", !.seen.auto = TRUE, !.seen.hook = k])
       /\ UNCHANGED <<scDue, scSched, scSetting, scTorn, scRemoved, scLeft>> /\ ScNoJobs

\* Mutant: the flag of the row is left as it was.
ScSwitchedOffHookOnly(seen) == [seen EXCEPT !.hook = ScNone]

ScSwitchedOff(seen) == [seen EXCEPT !.auto = FALSE, !.hook = ScNone]

\* deleteWebflowWebhook; if it fails, the webhook stays and the record of it goes.
ScDeleteHook(c, ok) ==
    /\ ScAt(c, "unhooks")
    /\ IF ok THEN UNCHANGED scLeft ELSE ScSpends("faults")
    /\ scHook' = IF ok THEN scHook \ {scCall[c].seen.hook} ELSE scHook
    /\ ScGoes(c, [scCall[c] EXCEPT !.at = "saves", !.seen = ScSwitchedOff(@)])
    /\ UNCHANGED <<scDue, scSched, scSetting, scTorn, scRemoved>> /\ ScNoJobs

\* CreateOrUpdateSiteSetting writes every column, most of them as they were read; what
\* was switched on is crawled at once.
ScSave(c) ==
    /\ scCall[c].at \in {"saves", "saves-job"}
    /\ scCall[c].sched # ScNone => scCall[c].sched \in ScLive
    /\ scSetting' = [scCall[c].seen EXCEPT !.row = TRUE, !.sched = scCall[c].sched]
    /\ ScGoes(c, IF ScAt(c, "saves") THEN ScIdle ELSE [ScIdle EXCEPT !.at = "creates"])
    /\ UNCHANGED <<scDue, scSched, scHook, scTorn, scRemoved, scLeft>> /\ ScNoJobs

\* A call of a handler fails, or the setting refers to a scheduler deleted meanwhile:
\* what was done before it stays.
ScGiveUp(c) ==
    /\ ScAtSite(c)
    /\ \/ ScSpends("faults")
       \/ /\ scCall[c].at \in {"saves", "saves-job"} /\ UNCHANGED scLeft
          /\ scCall[c].sched # ScNone /\ scCall[c].sched \notin ScLive
    /\ ScGoes(c, ScIdle) /\ scTorn' = TRUE
    /\ UNCHANGED <<scDue, scSched, scSetting, scHook, scRemoved>> /\ ScNoJobs

\* deleteWebflowConnection: the settings go with the connection; the schedulers, and
\* the webhooks at Webflow, stay.
ScDisconnect ==
    /\ scSetting.row /\ (\A c \in ScCalls : ~ScAtSite(c)) /\ ScSpends("calls")
    /\ scSetting' = ScNoSetting
    /\ UNCHANGED <<scDue, scSched, scHook, scCall, scTorn, scRemoved>> /\ ScNoJobs

-----------------------------------------------------------------------------

ScCreateStep(p) ==
    \/ ScFindExisting(p) \/ ScExistingStays(p) \/ ScCancelExisting(p)
    \/ ScInsertJob(p) \/ ScInsertFails(p)

ScLoopStep ==
    \/ ScTick \/ (\E s \in ScSchedulers : ScTake(s)) \/ (\E ok \in BOOLEAN : ScAdvance(ok))
    \/ ScTickDone

ScRequestStep(c) ==
    \/ ScRequestJob(c) \/ ScPublish(c)
    \/ ScCreateScheduler(c) \/ ScUpdateScheduler(c) \/ ScConflict(c)
    \/ \E s \in ScSchedulers, status \in {"enabled", "disabled"} : ScReadScheduler(c, s, status)

ScSiteStep(c) ==
    \/ \E at \in {"schedules", "unschedules", "hooks", "unhooks"} : ScSite(c, at)
    \/ ScListSchedulers(c) \/ ScReschedule(c) \/ ScAdd(c) \/ ScUnschedule(c)
    \/ ScRegisterHook(c) \/ (\E ok \in BOOLEAN : ScDeleteHook(c, ok))
    \/ ScSave(c) \/ ScGiveUp(c)

SchedulesNext ==
    \/ \E p \in ScProcs : ScCreateStep(p)
    \/ ScLoopStep \/ ScDisconnect
    \/ \E c \in ScCalls : ScRequestStep(c) \/ ScSiteStep(c)
    \/ \E j \in 1..ScMaxJobs : ScMarkRunning(j) \/ ScEndJob(j)
    \/ \E s \in ScSchedulers : ScBecomeDue(s) \/ ScAge(s) \/ ScDeleteScheduler(s)

SchedulesSpec == SchedulesInit /\ [][SchedulesNext]_schedVars

-----------------------------------------------------------------------------
(* Properties *)

SchedulesTypeOK ==
    /\ scJob \in [1..ScMaxJobs -> [status : {ScNone, "pending", "running", "over"},
                                   by : ScSchedulers \cup {ScNone}]]
    /\ scSched \in [ScSchedulers -> {ScNone, "enabled", "disabled", "deleted"}]
    /\ scDue \subseteq ScLive /\ scRecent \subseteq ScSchedulers
    /\ scSetting \in [row : BOOLEAN, sched : ScSchedulers \cup {ScNone}, auto : BOOLEAN,
                      hook : ScHooks \cup {ScNone}]
    /\ scHook \subseteq ScHooks /\ scRemoved \subseteq ScSchedulers
    /\ \A p \in ScProcs : scCall[p].todo \subseteq ScSchedulers /\ scCall[p].job \in 0..ScMaxJobs

\* The domain has one active job at most, whoever creates them (requests, the loop,
\* webhooks, the site's handlers), unless two calls of CreateJob overlapped or one could
\* not cancel: handleExistingJobs reads, cancels and leaves the insert to a later
\* transaction (manager.go:194-262, 668-674).
SingleActiveJob == ~scRaced => Cardinality(ScActive) <= 1

\* A site that is set to crawl on publish has its webhook at Webflow, so that publishes
\* are heard of, unless two handlers of the site overlapped or one failed half-way: each
\* writes the whole row from what it read before it called Webflow.
PublishHeard ==
    scSetting.auto /\ ~scTorn /\ (\A c \in ScCalls : ~ScAtSite(c)) => scSetting.hook \in scHook

\* A schedule the user has removed from the site no longer runs: "nil to remove
\* schedule" (api/webflow_sites.go:67).
RemovedScheduleStops ==
    \A s \in scRemoved : (\A c \in ScCalls : ~ScAtSite(c)) => scSched[s] # "enabled"
=============================================================================
