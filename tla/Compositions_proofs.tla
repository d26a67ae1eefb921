------------------------ MODULE Compositions_proofs ------------------------
(***************************************************************************)
(* Proofs about Records and Services: a behaviour of either is, part by    *)
(* part, a behaviour of the part's own specification, so that what was     *)
(* proved of the parts holds of them side by side.                         *)
(*                                                                         *)
(* What it takes is that no part writes what another one declares: a step  *)
(* of one leaves the variables of the others as they are, and an initial   *)
(* state is initial for all.                                               *)
(***************************************************************************)
EXTENDS Records, Services, JobRecords_proofs, BatchManager_proofs, Limits_proofs, Pages_proofs,
        Audits_proofs, Api_proofs, TLAPS

-----------------------------------------------------------------------------
(* Records *)

\* A step of Records is a step of each part, or leaves it alone.
LEMMA RecordsStep ==
    [RecordsNext]_recordsVars =>
        /\ [Next]_vars /\ [HtmlNext]_htmlVars /\ [BreakerNext]_breakerVars
        /\ [OrganisationsNext]_orgVars /\ [SchedulesNext]_schedVars
        /\ [SamplingNext]_samplingVars /\ [DiscoveryNext]_discoveryVars
        /\ [VisitNext]_visitVars /\ [NotificationsNext]_notifyVars
        /\ UNCHANGED part
<1>1. CASE UNCHANGED recordsVars
  BY <1>1 DEF recordsVars
<1>2. CASE Of("jobs", Next)
  BY <1>2 DEF Of
<1>3. CASE Of("html", HtmlNext)
  BY <1>3 DEF Of
<1>4. CASE Of("breaker", BreakerNext)
  BY <1>4 DEF Of
<1>5. CASE Of("organisations", OrganisationsNext)
  BY <1>5 DEF Of
<1>6. CASE Of("schedules", SchedulesNext)
  BY <1>6 DEF Of
<1>7. CASE Of("sampling", SamplingNext)
  BY <1>7 DEF Of
<1>8. CASE Of("discovery", DiscoveryNext)
  BY <1>8 DEF Of
<1>9. CASE Of("visit", VisitNext)
  BY <1>9 DEF Of
<1>10. CASE Of("notify", NotificationsNext)
  BY <1>10 DEF Of
<1> QED BY <1>1, <1>2, <1>3, <1>4, <1>5, <1>6, <1>7, <1>8, <1>9, <1>10 DEF RecordsNext

\* A behaviour of Records is a behaviour of every part of it: the job records, the
\* request handlers and the worker's memory share nothing (each has rows, maps or
\* channels of its own).
THEOREM RecordsAreItsParts ==
    RecordsSpec =>
        /\ Spec /\ HtmlSpec /\ BreakerSpec /\ OrganisationsSpec /\ SchedulesSpec
        /\ SamplingSpec /\ DiscoverySpec /\ VisitSpec /\ NotificationsSpec
<1>1. RecordsInit =>
          /\ Init /\ HtmlInit /\ BreakerInit /\ OrganisationsInit /\ SchedulesInit
          /\ SamplingInit /\ DiscoveryInit /\ VisitInit /\ NotificationsInit
  BY DEF RecordsInit
<1> QED BY <1>1, RecordsStep, PTL DEF RecordsSpec, Spec, HtmlSpec, BreakerSpec,
           OrganisationsSpec, SchedulesSpec, SamplingSpec, DiscoverySpec, VisitSpec,
           NotificationsSpec

\* The part that moves is one of the parts, and every variable of it stays within its
\* type.
THEOREM RecordsTypeCorrect == RecordsSpec => []RecordsTypeOK
<1>1. RecordsInit => part \in Parts
  BY DEF RecordsInit
<1>2. part \in Parts /\ [RecordsNext]_recordsVars => (part \in Parts)'
  BY RecordsStep
<1>3. RecordsSpec => [](part \in Parts)
  BY <1>1, <1>2, PTL DEF RecordsSpec
<1>4. RecordsSpec =>
          [](/\ TypeOK /\ HtmlTypeOK /\ BreakerTypeOK /\ OrganisationsTypeOK /\ SchedulesTypeOK
             /\ SamplingTypeOK /\ DiscoveryTypeOK /\ VisitTypeOK /\ NotificationsTypeOK)
  BY RecordsAreItsParts, JobsTypeCorrect, HtmlTypeCorrect, BreakerTypeCorrect, OrganisationsTypeCorrect,
     SchedulesTypeCorrect, SamplingTypeCorrect, DiscoveryTypeCorrect, VisitTypeCorrect,
     NotificationsTypeCorrect, PTL
<1>5. ASSUME part \in Parts, TypeOK, HtmlTypeOK, BreakerTypeOK, OrganisationsTypeOK,
             SchedulesTypeOK, SamplingTypeOK, DiscoveryTypeOK, VisitTypeOK, NotificationsTypeOK
      PROVE  RecordsTypeOK
  BY <1>5 DEF RecordsTypeOK
<1> QED BY <1>3, <1>4, <1>5, PTL

\* What each part promises holds while the others run beside it.
THEOREM RecordsKeepTheirPromises ==
    RecordsSpec =>
        /\ [](CountersExact /\ NoStuckJob /\ NoOpenRowWhenCompleted /\ MaxPagesKept
              /\ NoSkippedInOutbox)
        /\ [](NoSendOnClosed /\ UploadsDrained /\ BreakerAlive)
        /\ [](AdminRemains /\ InviteOneFate /\ SingleActiveJob /\ PublishHeard)
        /\ [](BandQuotaKept /\ RobotsKept /\ MarkedMeansSent)
        /\ []RemovedUnlessItMadeJobs
        /\ LifeKept /\ StoppedForGood /\ OverForGood /\ BlockEnds
        /\ TableKept /\ []Table!OutboxIsLive /\ RowTellsVisit
BY RecordsAreItsParts, CountersAreExact, NoJobIsStuck, CompletedMeansDone, MaxPagesHolds,
   NoSkippedTaskInOutbox, SendsBeforeClose, DrainedOnStop, BreakerIsAlive, AnAdminRemains,
   InvitesHaveOneFate, OneActiveJob, PublishIsHeard, QuotasAreKept, RobotsAreKept,
   MarkedIsSent, StatusKeepsLife, StoppedJobsStayStopped, EndedJobsStayEnded,
   BlockJobsFate, RemovedStaysOnlyForItsJobs, RecordsKeepTable, OutboxStaysLive,
   RowsTellVisits, PTL

-----------------------------------------------------------------------------
(* Services *)

\* A step of Services is a step of each part, or leaves it alone.
LEMMA ServicesStep ==
    [ServicesNext]_servicesVars =>
        /\ [CountersNext]_countersVars /\ [BatchNext]_bmVars /\ [PacerNext]_pacerVars
        /\ [LanesNext]_laneVars /\ [AuditsNext]_auditVars /\ [NotificationsNext]_notifyVars
        /\ UNCHANGED service
<1>1. CASE UNCHANGED servicesVars
  BY <1>1 DEF servicesVars
<1>2. CASE OfService("counters", CountersNext)
  BY <1>2 DEF OfService
<1>3. CASE OfService("batch", BatchNext)
  BY <1>3 DEF OfService
<1>4. CASE OfService("pacer", PacerNext)
  BY <1>4 DEF OfService
<1>5. CASE OfService("lanes", LanesNext)
  BY <1>5 DEF OfService
<1>6. CASE OfService("audits", AuditsNext)
  BY <1>6 DEF OfService
<1>7. CASE OfService("notify", NotificationsNext)
  BY <1>7 DEF OfService
<1> QED BY <1>1, <1>2, <1>3, <1>4, <1>5, <1>6, <1>7 DEF ServicesNext

\* A behaviour of Services is a behaviour of every loop in it: what one of them needs
\* of another is an input of its own module.
THEOREM ServicesAreItsParts ==
    ServicesSpec =>
        CountersSpec /\ BatchSpec /\ PacerSpec /\ LanesSpec /\ AuditsSpec /\ NotificationsSpec
<1>1. ServicesInit =>
          /\ CountersInit /\ BatchInit /\ PacerInit /\ LanesInit /\ AuditsInit
          /\ NotificationsInit
  BY DEF ServicesInit
<1> QED BY <1>1, ServicesStep, PTL DEF ServicesSpec, CountersSpec, BatchSpec, PacerSpec,
           LanesSpec, AuditsSpec, NotificationsSpec

\* Every variable of every loop stays within its type.
THEOREM ServicesTypeCorrect == ServicesSpec => []ServicesTypeOK
<1>1. ServicesInit => service \in ServiceParts
  BY DEF ServicesInit
<1>2. service \in ServiceParts /\ [ServicesNext]_servicesVars => (service \in ServiceParts)'
  BY ServicesStep
<1>3. ServicesSpec => [](service \in ServiceParts)
  BY <1>1, <1>2, PTL DEF ServicesSpec
<1>4. ASSUME service \in ServiceParts, CountersTypeOK, BatchTypeOK, PacerTypeOK, LanesTypeOK,
             AuditsTypeOK, NotificationsTypeOK
      PROVE  ServicesTypeOK
  BY <1>4 DEF ServicesTypeOK
<1> QED BY <1>3, <1>4, ServicesAreItsParts, CountersTypeCorrect, BatchTypeCorrect,
           PacerTypeCorrect, LanesTypeCorrect, AuditsTypeCorrect, NotificationsTypeCorrect, PTL

\* What each loop promises holds while the others run beside it, the batch manager's
\* register among it.
THEOREM ServicesKeepTheirPromises ==
    ServicesSpec =>
        /\ [](LimitUnlessUndercounted /\ BatchLosesRefusedOnly /\ LaneSlotsExact /\ LaneHonest
              /\ AuditNotLost /\ StrandedOnlyUnlisted /\ MarkedMeansSent)
        /\ BatchNoStepBack /\ BatchIsRegister /\ PacerSpaced /\ VerdictFinal
        /\ CountersFlow!Spec /\ AuditsFlow!Spec
BY ServicesAreItsParts, LimitHolds, OnlyRefusedAreLost, SlotsAreExact, CallsAreHonest,
   NoAuditLost, StrandedByTheListAlone, MarkedIsSent, NoStepBack, ImplementsRegister,
   GrantsAreSpaced, FirstVerdictStays, CountersFlowOn, AuditsFlowOn, PTL
=============================================================================
