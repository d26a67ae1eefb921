------------------------------ MODULE Services ------------------------------
(***************************************************************************)
(* The smaller loops of the services, explored side by side.  They share   *)
(* no state (each module says what it abstracts its neighbours to), so an  *)
(* interleaving of two of them shows nothing that neither shows alone: a   *)
(* behaviour picks one part at its start and takes steps of that part.     *)
(***************************************************************************)
EXTENDS RunningCounters, BatchManager, DomainPacer, DbLanes, AuditRuns, Notifications

VARIABLE service   \* the part that moves

servicesVars == <<service, countersVars, bmVars, pacerVars, laneVars, auditVars, notifyVars>>

-----------------------------------------------------------------------------

ServiceParts == {"counters", "batch", "pacer", "lanes", "audits", "notify"}

ServicesInit ==
    /\ service \in ServiceParts
    /\ CountersInit /\ BatchInit /\ PacerInit /\ LanesInit /\ AuditsInit /\ NotificationsInit

\* A step of the part p by its action A.
OfService(p, A) ==
    /\ service = p /\ A /\ UNCHANGED service
    /\ p # "counters" => UNCHANGED countersVars
    /\ p # "batch"    => UNCHANGED bmVars
    /\ p # "pacer"    => UNCHANGED pacerVars
    /\ p # "lanes"    => UNCHANGED laneVars
    /\ p # "audits"   => UNCHANGED auditVars
    /\ p # "notify"   => UNCHANGED notifyVars

ServicesNext ==
    \/ OfService("counters", CountersNext) \/ OfService("batch", BatchNext)
    \/ OfService("pacer", PacerNext) \/ OfService("lanes", LanesNext)
    \/ OfService("audits", AuditsNext) \/ OfService("notify", NotificationsNext)

ServicesSpec == ServicesInit /\ [][ServicesNext]_servicesVars

\* The dispatcher's ticker and the reconcile ticker run for ever, and so do the
\* readers; a handler ends.
CountersFairness ==
    /\ WF_servicesVars(OfService("counters", Dispatcher))
    /\ WF_servicesVars(OfService("counters", Reconcile))
    /\ WF_servicesVars(OfService("counters", ReadNonBlocking))
    /\ WF_servicesVars(OfService("counters", Ack))
    /\ WF_servicesVars(OfService("counters", Decrement \/ DecrementFails))
    /\ WF_servicesVars(OfService("counters", DeleteZero \/ DeleteZeroFails))

\* The goroutine runs and its ticker fires again and again.  A full batch resets
\* the ticker, so under a load that never ends it need not: here the load ends.
BatchFairness ==
    /\ WF_servicesVars(OfService("batch", BmReceive))
    /\ WF_servicesVars(OfService("batch", BmTick))
    /\ WF_servicesVars(OfService("batch", BmShutdown))

\* The dispatcher's ticker goes on to look at what is due, and time goes on.
PacerFairness ==
    /\ \A t \in PcTasks : WF_servicesVars(OfService("pacer", PcDispatch(t)))
    /\ WF_servicesVars(OfService("pacer", PcTick))

\* A call under way goes on, the load falls once nothing raises it, the goroutines
\* make bulk calls again and again, and low samples outlast the cooldown.
LanesFairness ==
    /\ \A c \in LnCallers : WF_servicesVars(OfService("lanes", LnStep(c)))
    /\ WF_servicesVars(OfService("lanes", lnLoad # "low" /\ LnLoadChanges))
    /\ SF_servicesVars(OfService("lanes", LnSomeBulkCall))
    /\ SF_servicesVars(OfService("lanes", LnSomeAcquire))
    /\ SF_servicesVars(OfService("lanes", LnSomeRaise))

\* The poll and reclaim tickers of the analysis service run for ever, and an audit
\* ends or is cut off by its timeout.
AuditsFairness ==
    /\ WF_servicesVars(OfService("audits", AuSomeConsume))
    /\ WF_servicesVars(OfService("audits", AuSomeReclaim))
    /\ \A h \in AuHandlers : WF_servicesVars(OfService("audits", AuHandlerStep(h)))

\* A process in polling mode sweeps every ten seconds, and a sweep ends.
NotifyFairness == \A s \in NtSweepers : WF_servicesVars(OfService("notify", NtSweepStep(s)))

ServicesFairSpec ==
    /\ ServicesSpec
    /\ CountersFairness /\ BatchFairness /\ PacerFairness /\ LanesFairness /\ AuditsFairness
    /\ NotifyFairness

-----------------------------------------------------------------------------
(* Properties *)

\* Every variable of every part stays within its type.
ServicesTypeOK ==
    /\ service \in ServiceParts
    /\ CountersTypeOK /\ BatchTypeOK /\ PacerTypeOK /\ LanesTypeOK /\ AuditsTypeOK
    /\ NotificationsTypeOK
=============================================================================
