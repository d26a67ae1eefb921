------------------------------ MODULE Records ------------------------------
(***************************************************************************)
(* The parts whose promises are about rows and memory and say nothing of   *)
(* what must happen in the end, explored side by side: the job records,    *)
(* the request handlers of the API, and what the worker keeps in memory.   *)
(* As in Services, they share no state, and a behaviour picks one part and *)
(* takes steps of that part.                                               *)
(***************************************************************************)
EXTENDS JobRecords, HtmlPersister, WafBreaker, Organisations, Schedules, AuditSampling,
        Discovery, PageVisit, Notifications

VARIABLE part   \* the part that moves

recordsVars ==
    <<part, vars, htmlVars, breakerVars, orgVars, schedVars, samplingVars, discoveryVars,
      visitVars, notifyVars>>

-----------------------------------------------------------------------------

Parts ==
    {"jobs", "html", "breaker", "organisations", "schedules", "sampling", "discovery", "visit",
     "notify"}

RecordsInit ==
    /\ part \in Parts
    /\ Init /\ (part # "jobs" => discovery = CHOOSE s \in Sources : TRUE)
    /\ HtmlInit /\ BreakerInit /\ OrganisationsInit /\ SchedulesInit /\ SamplingInit
    /\ DiscoveryInit /\ (part # "discovery" => dsSite = DsReadSite(<<>>))
    /\ VisitInit /\ NotificationsInit

\* A step of the part p by its action A.
Of(p, A) ==
    /\ part = p /\ A /\ UNCHANGED part
    /\ p # "jobs"          => UNCHANGED vars
    /\ p # "html"          => UNCHANGED htmlVars
    /\ p # "breaker"       => UNCHANGED breakerVars
    /\ p # "organisations" => UNCHANGED orgVars
    /\ p # "schedules"     => UNCHANGED schedVars
    /\ p # "sampling"      => UNCHANGED samplingVars
    /\ p # "discovery"     => UNCHANGED discoveryVars
    /\ p # "visit"         => UNCHANGED visitVars
    /\ p # "notify"        => UNCHANGED notifyVars

RecordsNext ==
    \/ Of("jobs", Next) \/ Of("html", HtmlNext) \/ Of("breaker", BreakerNext)
    \/ Of("organisations", OrganisationsNext) \/ Of("schedules", SchedulesNext)
    \/ Of("sampling", SamplingNext) \/ Of("discovery", DiscoveryNext)
    \/ Of("visit", VisitNext) \/ Of("notify", NotificationsNext)

RecordsSpec == RecordsInit /\ [][RecordsNext]_recordsVars

-----------------------------------------------------------------------------
(* Properties *)

\* Every variable of every part stays within its type.
RecordsTypeOK ==
    /\ part \in Parts
    /\ part = "jobs"          => TypeOK
    /\ part = "html"          => HtmlTypeOK
    /\ part = "breaker"       => BreakerTypeOK
    /\ part = "organisations" => OrganisationsTypeOK
    /\ part = "schedules"     => SchedulesTypeOK
    /\ part = "sampling"      => SamplingTypeOK
    /\ part = "discovery"     => DiscoveryTypeOK
    /\ part = "visit"         => VisitTypeOK
    /\ part = "notify"        => NotificationsTypeOK
=============================================================================
