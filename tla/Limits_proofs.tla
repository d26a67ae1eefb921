--------------------------- MODULE Limits_proofs ---------------------------
(***************************************************************************)
(* Proofs about the limits on what is asked of others: the concurrency of  *)
(* a job, the pacing of a domain, the lanes of the database, and the       *)
(* breaker that gives up on a site behind a firewall.  They hold for every *)
(* limit, delay, threshold, lane, connection and retry.                    *)
(*                                                                         *)
(* PacerSpaced needs to know that the gate key outlasts the delay of the   *)
(* last grant: what is left of the key and what has passed since the grant *)
(* add up to that delay.  A grant without a delay leaves a gate alone that *)
(* FlushAdaptiveDelays left behind, which only lengthens the pause.        *)
(***************************************************************************)
EXTENDS RunningCounters, DomainPacer, DbLanes, WafBreaker, FiniteSetTheorems, TLAPS

-----------------------------------------------------------------------------
(* Counters: the gate and the field *)

\* The field never says less than what is under way, so an open gate leaves room
\* for one more message, and the one who passed it keeps that room until it
\* publishes: what the handlers do in between only makes more.
Room ==
    ~undercounted =>
        /\ Expected =< ctr
        /\ dpc = "allowed" => InFlight < Concurrency
        /\ InFlight =< Concurrency

CountersInv == CountersTypeOK /\ Room

\* The counters start in a state that satisfies the invariant.
LEMMA InitCounters == CountersInit => CountersInv
<1> SUFFICES ASSUME CountersInit PROVE CountersTypeOK /\ Room
    BY DEF CountersInv
<1>1. CountersTypeOK
  <2>1. scheduled \in 0 .. MaxTasks /\ due \in 0 .. scheduled /\ faults \in 0 .. MaxFaults
    BY BoundsAssumption DEF CountersInit
  <2>2. undercounted \in BOOLEAN
    BY Zenon DEF CountersInit
  <2> QED
    BY <2>1, <2>2 DEF CountersInit, CountersTypeOK
<1>2. stream = 0 /\ pel = 0 /\ acked = 0 /\ ctr = 0 /\ dpc = "idle"
    BY DEF CountersInit
<1>3. InFlight =< Concurrency
    BY <1>2, ConcurrencyAssumption DEF InFlight
<1>4. Expected =< ctr
    BY <1>2 DEF Expected, InFlight
<1> QED
    BY <1>1, <1>2, <1>3, <1>4 DEF Room

\* While the record stays clear, the step left the field at what is under way or more.
LEMMA RecordClear ==
    ASSUME CountersTypeOK', Record, ~undercounted'
    PROVE  ~undercounted /\ Expected' =< ctr'
<1>1. ~undercounted /\ ~(ctr' < Expected')
    BY Zenon DEF Record
<1>2. ctr' \in Int /\ Expected' \in Int
    BY DEF CountersTypeOK, Expected, InFlight
<1> QED
    BY <1>1, <1>2

\* One step per action.  The field moves with what is under way in Increment and
\* Decrement; where it does not, Record compares the two.
LEMMA CountersTypeStep == CountersTypeOK /\ [CountersNext]_countersVars => CountersTypeOK'
<1> SUFFICES ASSUME CountersTypeOK, [CountersNext]_countersVars PROVE CountersTypeOK'
    OBVIOUS
<1> USE ConcurrencyAssumption, BoundsAssumption DEF CountersTypeOK, taskVars, recVars
<1>1. CASE Schedule
    BY <1>1 DEF Schedule
<1>2. CASE Dispatcher
  <2>1. CASE CanDispatch \/ Publish \/ Increment
    BY <2>1 DEF CanDispatch, Publish, Increment
  <2>2. CASE PublishFails
    BY <2>2 DEF PublishFails, Faulty
  <2>3. CASE IncrementFails
    BY <2>3 DEF IncrementFails, Faulty, Record
  <2> QED
    BY <1>2, <2>1, <2>2, <2>3 DEF Dispatcher
<1>3. CASE Workers
  <2>1. CASE ReadNonBlocking
    BY <2>1 DEF ReadNonBlocking
  <2>2. CASE Decrement
    BY <2>2 DEF Decrement
  <2>3. CASE DecrementFails
    BY <2>3 DEF DecrementFails, Faulty
  <2>4. CASE DeleteZero
    BY <2>4 DEF DeleteZero, Record
  <2>5. CASE DeleteZeroFails
    BY <2>5 DEF DeleteZeroFails, Faulty
  <2>6. CASE Ack
    BY <2>6 DEF Ack, Retried, Faulty, Record
  <2>7. CASE AckAgain
    BY <2>7 DEF AckAgain, Retried, Record
  <2> QED
    BY <1>3, <2>1, <2>2, <2>3, <2>4, <2>5, <2>6, <2>7 DEF Workers
<1>4. CASE Reconcile
  <2>1. CASE ReconcileBegin
    BY <2>1 DEF ReconcileBegin, Faulty
  <2>2. CASE ReconcileProbe
    BY <2>2 DEF ReconcileProbe, Faulty
  <2>3. CASE ReconcileWrite
    BY <2>3 DEF ReconcileWrite, Reconciled, Record
  <2>4. CASE ReconcileWriteFails
    BY <2>4 DEF ReconcileWriteFails, Faulty
  <2> QED
    BY <1>4, <2>1, <2>2, <2>3, <2>4 DEF Reconcile
<1>5. CASE WorkerCrash
    BY <1>5 DEF WorkerCrash, Faulty, Record
<1>6. CASE UNCHANGED countersVars
    BY <1>6 DEF countersVars
<1> QED
    BY <1>1, <1>2, <1>3, <1>4, <1>5, <1>6 DEF CountersNext

\* Every step keeps the room the gate relies on: unless something was undercounted,
\* the counter covers what is in flight and the limit is not exceeded.
LEMMA StepRoom == CountersTypeOK /\ Room /\ [CountersNext]_countersVars => Room'
<1> SUFFICES ASSUME CountersTypeOK, CountersTypeOK', Room, [CountersNext]_countersVars, ~undercounted'
             PROVE  /\ (Expected =< ctr)'
                    /\ (dpc = "allowed" => InFlight < Concurrency)'
                    /\ (InFlight =< Concurrency)'
    BY CountersTypeStep DEF Room
<1> USE ConcurrencyAssumption DEF CountersTypeOK, Room, Expected, InFlight, taskVars, recVars
<1>1. CASE Schedule
    BY <1>1 DEF Schedule
<1>2. CASE Dispatcher
  <2>1. CASE CanDispatch
    BY <2>1 DEF CanDispatch, Below
  <2>2. CASE Publish
    BY <2>2 DEF Publish
  <2>3. CASE PublishFails
    BY <2>3 DEF PublishFails
  <2>4. CASE Increment
    BY <2>4 DEF Increment
  <2>5. CASE IncrementFails
    BY <2>5, RecordClear DEF IncrementFails
  <2> QED
    BY <1>2, <2>1, <2>2, <2>3, <2>4, <2>5 DEF Dispatcher
<1>3. CASE Workers
  <2>1. CASE ReadNonBlocking
    BY <2>1 DEF ReadNonBlocking
  <2>2. CASE Ack
    BY <2>2, RecordClear DEF Ack
  <2>3. CASE Decrement
    BY <2>3 DEF Decrement
  <2>4. CASE DecrementFails
    BY <2>4 DEF DecrementFails
  <2>5. CASE DeleteZero
    BY <2>5, RecordClear DEF DeleteZero
  <2>6. CASE DeleteZeroFails
    BY <2>6 DEF DeleteZeroFails
  <2>7. CASE AckAgain
    BY <2>7, RecordClear DEF AckAgain
  <2> QED
    BY <1>3, <2>1, <2>2, <2>3, <2>4, <2>5, <2>6, <2>7 DEF Workers
<1>4. CASE Reconcile
  <2>1. CASE ReconcileBegin \/ ReconcileProbe \/ ReconcileWriteFails
    BY <2>1 DEF ReconcileBegin, ReconcileProbe, ReconcileWriteFails
  <2>2. CASE ReconcileWrite
    BY <2>2, RecordClear DEF ReconcileWrite
  <2> QED
    BY <1>4, <2>1, <2>2 DEF Reconcile
<1>5. CASE WorkerCrash
    BY <1>5, RecordClear DEF WorkerCrash
<1>6. CASE UNCHANGED countersVars
    BY <1>6 DEF countersVars
<1> QED
    BY <1>1, <1>2, <1>3, <1>4, <1>5, <1>6 DEF CountersNext

\* The invariant of dispatcher, handlers and reconcile in every reachable state.
THEOREM CountersKeepInv == CountersSpec => []CountersInv
<1>1. CountersInv /\ [CountersNext]_countersVars => CountersInv'
    BY CountersTypeStep, StepRoom DEF CountersInv
<1> QED
    BY InitCounters, <1>1, PTL DEF CountersSpec

\* Every reachable state is well-typed: no handler decrements or deletes a field
\* more often than it acknowledged.
THEOREM CountersTypeCorrect == CountersSpec => []CountersTypeOK
BY CountersKeepInv, PTL DEF CountersInv

\* The gate of CanDispatch keeps the limit, asked before the publish and counted
\* after it, until a step undercounts.
THEOREM LimitHolds == CountersSpec => []LimitUnlessUndercounted
<1>1. CountersInv => LimitUnlessUndercounted
    BY ConcurrencyAssumption DEF CountersInv, CountersTypeOK, Room, LimitUnlessUndercounted, InFlight
<1> QED
    BY CountersKeepInv, <1>1, PTL

\* The broker as the gate takes it.
CountersFlow == INSTANCE BrokerFlow WITH unread <- stream, pending <- pel

\* A step of the counters' broker is a counted step of the broker.
LEMMA CountersFlowStep ==
    CountersTypeOK /\ CountersTypeOK' /\ [CountersNext]_countersVars =>
        [CountersFlow!Next]_<<due, stream, pel>>
<1> SUFFICES ASSUME CountersTypeOK, CountersTypeOK', CountersNext,
                    ~UNCHANGED <<due, stream, pel>>
             PROVE  CountersFlow!Next
    BY DEF countersVars, taskVars
<1>1. due \in Nat /\ stream \in Nat /\ pel \in Nat /\ due' \in Nat /\ stream' \in Nat /\ pel' \in Nat
    BY DEF CountersTypeOK
<1>2. CASE Schedule
    BY <1>1, <1>2 DEF Schedule, CountersFlow!Next, CountersFlow!Schedule
<1>3. CASE Publish
    BY <1>1, <1>3 DEF Publish, CountersTypeOK, CountersFlow!Next, CountersFlow!Publish
<1>4. CASE ReadNonBlocking
    BY <1>1, <1>4 DEF ReadNonBlocking, CountersFlow!Next, CountersFlow!Read
<1>5. CASE Ack \/ AckAgain
    BY <1>1, <1>5 DEF Ack, AckAgain, Retried, CountersFlow!Next, CountersFlow!Ack
<1> QED
    BY <1>2, <1>3, <1>4, <1>5 DEF CountersNext, Dispatcher, Workers, Reconcile, CanDispatch,
       PublishFails, Increment, IncrementFails, Decrement, DecrementFails, DeleteZero,
       DeleteZeroFails, ReconcileBegin, ReconcileProbe, ReconcileWrite, ReconcileWriteFails,
       WorkerCrash, taskVars

\* What stands in for the path of the tasks, where the gate is looked at alone, counts
\* as that path does: see DeliveryFlows.
THEOREM CountersFlowOn == CountersSpec => CountersFlow!Spec
<1>1. CountersInit => CountersFlow!Init
    BY DEF CountersInit, CountersFlow!Init
<1> QED
    BY <1>1, CountersFlowStep, CountersTypeCorrect, PTL DEF CountersSpec, CountersFlow!Spec

-----------------------------------------------------------------------------
(* Pacer: the invariant *)

\* The gate expires no sooner than the delay of the last grant is over.
GateCovers == pcGate + pcGap >= pcOwed

PacerInv == PacerTypeOK /\ GateCovers

\* No delay is longer than the longest pause.
LEMMA Longest == PcLongest \in Nat /\ MaxDelay =< PcLongest /\ MinPushback =< PcLongest
BY PcAssumption DEF PcLongest, PcLarger

\* The initial states satisfy the invariant.
LEMMA InitPacer == PacerInit => PacerInv
BY PcAssumption, Longest DEF PacerInit, PacerInv, PacerTypeOK, GateCovers

-----------------------------------------------------------------------------
(* Pacer: types *)

\* Every step keeps the types.
LEMMA PacerTypeStep == PacerTypeOK /\ [PacerNext]_pacerVars => PacerTypeOK'
<1> SUFFICES ASSUME PacerTypeOK, [PacerNext]_pacerVars PROVE PacerTypeOK'
  OBVIOUS
<1> USE PcAssumption, Longest DEF PacerTypeOK
<1>1. ASSUME NEW t \in PcTasks, PcSchedule(t) PROVE PacerTypeOK'
  BY <1>1 DEF PcSchedule
<1>2. ASSUME NEW t \in PcTasks, PcGrant(t) PROVE PacerTypeOK'
  BY <1>2 DEF PcGrant
<1>3. ASSUME NEW t \in PcTasks, PcPushback(t) PROVE PacerTypeOK'
  <2>1. pcGate' = pcGate
    BY <1>3 DEF PcPushback, PcGateRefused
  <2>2. PcLarger(pcGate, MinPushback) \in 0 .. PcLongest
    BY DEF PcLarger
  <2> QED BY <1>3, <2>1, <2>2 DEF PcPushback
<1>4. ASSUME NEW t \in PcTasks, PcReleaseSuccess(t) PROVE PacerTypeOK'
  <2>1. pcAdaptive' \in 0 .. MaxDelay /\ pcStreak' \in 0 .. SuccessThreshold
    BY <1>4 DEF PcReleaseSuccess, PcOnSuccess, PcLarger, PcSmaller
  <2> QED BY <1>4, <2>1 DEF PcReleaseSuccess
<1>5. ASSUME NEW t \in PcTasks, PcReleaseLimited(t) PROVE PacerTypeOK'
  <2>1. pcAdaptive' \in 0 .. MaxDelay /\ pcLimited' \in 0 .. PcMaxLimited
    BY <1>5 DEF PcReleaseLimited, PcSmaller
  <2> QED BY <1>5, <2>1 DEF PcReleaseLimited
<1>6. ASSUME NEW t \in PcTasks, PcReleaseOther(t) PROVE PacerTypeOK'
  BY <1>6 DEF PcReleaseOther
<1>7. CASE PcFlush
  BY <1>7 DEF PcFlush
<1>8. CASE PcTick
  <2>1. pcWait' \in [PcTasks -> 0 .. PcLongest]
    BY <1>8 DEF PcTick, PcLarger
  <2>2. pcGate' \in 0 .. MaxDelay /\ pcGap' \in 0 .. PcLongest
    BY <1>8 DEF PcTick, PcLarger, PcSmaller
  <2> QED BY <1>8, <2>1, <2>2 DEF PcTick
<1>9. CASE UNCHANGED pacerVars
  BY <1>9 DEF pacerVars
<1> QED BY <1>1, <1>2, <1>3, <1>4, <1>5, <1>6, <1>7, <1>8, <1>9
        DEF PacerNext, PcDispatch, PcRelease

-----------------------------------------------------------------------------
(* Pacer: the gate *)

\* Every step lets the gate cover the delay of the last grant.
LEMMA GateStep == PacerInv /\ [PacerNext]_pacerVars => GateCovers'
<1> SUFFICES ASSUME PacerTypeOK, GateCovers, [PacerNext]_pacerVars PROVE GateCovers'
  BY DEF PacerInv
<1> USE PcAssumption, Longest DEF PacerTypeOK, GateCovers
<1>1. ASSUME NEW t \in PcTasks, PcGrant(t) PROVE GateCovers'
  BY <1>1 DEF PcGrant
<1>2. ASSUME NEW t \in PcTasks, PcPushback(t) PROVE GateCovers'
  BY <1>2 DEF PcPushback, PcGateRefused
<1>3. ASSUME NEW t \in PcTasks, PcSchedule(t) \/ PcRelease(t) PROVE GateCovers'
  BY <1>3 DEF PcSchedule, PcRelease, PcReleaseSuccess, PcReleaseLimited, PcReleaseOther
<1>4. CASE PcFlush
  BY <1>4 DEF PcFlush
<1>5. CASE PcTick
  \* Either the gap grows as the gate shrinks, or it has reached the longest delay.
  BY <1>5 DEF PcTick, PcLarger, PcSmaller
<1>6. CASE UNCHANGED pacerVars
  BY <1>6 DEF pacerVars
<1> QED BY <1>1, <1>2, <1>3, <1>4, <1>5, <1>6 DEF PacerNext, PcDispatch

\* Every step keeps the invariant.
LEMMA PacerStep == PacerInv /\ [PacerNext]_pacerVars => PacerInv'
BY PacerTypeStep, GateStep DEF PacerInv

\* The invariant holds of the pacer.
LEMMA PacerKeepsInv == PacerSpec => []PacerInv
BY InitPacer, PacerStep, PTL DEF PacerSpec

\* Gate, delay, streak and waits stay within their bounds: the delay never exceeds
\* its maximum however many answers limit the rate, and is never negative.
THEOREM PacerTypeCorrect == PacerSpec => []PacerTypeOK
<1>1. PacerInv => PacerTypeOK
  BY DEF PacerInv
<1> QED BY <1>1, PacerKeepsInv, PTL

-----------------------------------------------------------------------------
(* Pacer: grants *)

\* A grant under a delay finds the gate gone, and with it the last delay over.
LEMMA GrantSpaced == PacerInv /\ PacerNext /\ PcGrants => pcGap >= pcOwed \/ pcAdaptive = 0
<1> SUFFICES ASSUME PacerInv, PacerNext, NEW t \in PcTasks,
                    pcAt[t] = "zset", pcAt'[t] = "stream"
             PROVE  pcGap >= pcOwed \/ pcAdaptive = 0
  BY DEF PcGrants
<1> USE DEF PacerInv, PacerTypeOK
<1>1. ASSUME NEW u \in PcTasks, PcGrant(u) PROVE pcGap >= pcOwed \/ pcAdaptive = 0
  BY <1>1 DEF PcGrant, PcOpen, GateCovers
<1>2. ASSUME NEW u \in PcTasks, PcSchedule(u) \/ PcPushback(u) \/ PcRelease(u) PROVE FALSE
  BY <1>2 DEF PcSchedule, PcPushback, PcRelease, PcReleaseSuccess, PcReleaseLimited,
              PcReleaseOther
<1>3. CASE PcFlush \/ PcTick
  BY <1>3 DEF PcFlush, PcTick
<1> QED BY <1>1, <1>2, <1>3 DEF PacerNext, PcDispatch

\* TryAcquire keeps the delay of the grant before, while other workers' Release
\* raises and lowers it and FlushAdaptiveDelays resets it, unless it is back at 0.
THEOREM GrantsAreSpaced == PacerSpec => PacerSpaced
<1>1. PacerInv /\ [PacerNext]_pacerVars
        => [PcGrants => pcGap >= pcOwed \/ pcAdaptive = 0]_pacerVars
  BY GrantSpaced
<1> QED BY <1>1, PacerKeepsInv, PTL DEF PacerSpec, PacerSpaced

-----------------------------------------------------------------------------
(* Lanes: the invariant *)

\* The calls that hold a slot of the bulk lane, and of the control lane.
InBulk    == {c \in LnCallers : LnBulk(c) /\ lnAt[c] = "executes"}
InControl == {c \in LnCallers : ~LnBulk(c) /\ lnAt[c] = "executes"}

\* Finitely many calls hold slots, however many callers there are.
SlotsFinite == IsFiniteSet(InBulk) /\ IsFiniteSet(InControl)

\* A process that still connects has attempts left.
BootGoesOn == lnBoot = "connecting" => lnBootTries < MaxBootAttempts

\* A call that goes on has had its effect at most once per failed attempt.
AppliedPerAttempt ==
    \A c \in LnCallers :
        lnAt[c] \in {"asks", "checked", "executes", "waits"} => lnApplied[c] =< lnAttempt[c]

LaneInv ==
    /\ LanesTypeOK /\ BootGoesOn /\ AppliedPerAttempt
    /\ SlotsFinite /\ LaneSlotsExact
    /\ LaneHonest

\* The initial states satisfy the invariant.
LEMMA InitLanes == LanesInit => LaneInv
<1> SUFFICES ASSUME LanesInit PROVE LaneInv
  OBVIOUS
<1> USE LnAssumption DEF LanesInit
<1>1. InBulk = {} /\ InControl = {}
  BY DEF InBulk, InControl
<1>2. SlotsFinite /\ LaneSlotsExact
  BY <1>1, FS_EmptySet DEF SlotsFinite, LaneSlotsExact, InBulk, InControl
<1>3. LanesTypeOK
  BY DEF LanesTypeOK
<1> QED BY <1>2, <1>3 DEF LaneInv, BootGoesOn, AppliedPerAttempt, LaneHonest

-----------------------------------------------------------------------------
(* Lanes: slots *)

\* A call that executes holds a slot of its lane, so there is one to give back.
LEMMA HoldsSlot ==
    ASSUME LaneInv, NEW c \in LnCallers, lnAt[c] = "executes"
    PROVE  IF LnBulk(c) THEN lnBulk >= 1 ELSE lnControl >= 1
<1> USE DEF LaneInv, LanesTypeOK
<1>1. CASE LnBulk(c)
  <2>1. c \in InBulk
    BY <1>1 DEF InBulk
  <2>2. Cardinality(InBulk) # 0
    BY <2>1, FS_EmptySet DEF SlotsFinite
  <2> QED BY <1>1, <2>2 DEF LaneSlotsExact, InBulk
<1>2. CASE ~LnBulk(c)
  <2>1. c \in InControl
    BY <1>2 DEF InControl
  <2>2. Cardinality(InControl) # 0
    BY <2>1, FS_EmptySet DEF SlotsFinite
  <2> QED BY <1>2, <2>2 DEF LaneSlotsExact, InControl
<1> QED BY <1>1, <1>2

\* A call that neither takes nor gives a slot leaves the semaphores exact.
LEMMA SlotsKept ==
    ASSUME LaneInv, UNCHANGED <<lnBulk, lnControl>>,
           \A c \in LnCallers : lnAt[c] = "executes" <=> lnAt'[c] = "executes",
           \A c \in LnCallers : lnAt[c] = "executes" => lnLane'[c] = lnLane[c]
    PROVE  SlotsFinite' /\ LaneSlotsExact'
<1>1. InBulk' = InBulk /\ InControl' = InControl
  BY DEF InBulk, InControl, LnBulk
<1> QED BY <1>1 DEF LaneInv, SlotsFinite, LaneSlotsExact, InBulk, InControl

\* A call that takes a slot of its lane joins those that hold one.
LEMMA SlotTaken ==
    ASSUME LaneInv, NEW c \in LnCallers, LnAcquire(c)
    PROVE  SlotsFinite' /\ LaneSlotsExact'
<1> USE DEF LaneInv, LanesTypeOK
<1>1. lnAt[c] # "executes" /\ lnAt' = [lnAt EXCEPT ![c] = "executes"] /\ lnLane' = lnLane
  BY DEF LnAcquire, LnMove
<1>2. CASE LnBulk(c)
  <2>1. InBulk' = InBulk \cup {c} /\ c \notin InBulk /\ InControl' = InControl
    BY <1>1, <1>2 DEF InBulk, InControl, LnBulk
  <2>2. lnBulk' = lnBulk + 1 /\ lnControl' = lnControl
    BY <1>2 DEF LnAcquire, LnTake
  <2>3. IsFiniteSet(InBulk') /\ Cardinality(InBulk') = Cardinality(InBulk) + 1
    BY <2>1, FS_AddElement DEF SlotsFinite
  <2> QED BY <2>1, <2>2, <2>3 DEF SlotsFinite, LaneSlotsExact, InBulk, InControl
<1>3. CASE ~LnBulk(c)
  <2>1. InControl' = InControl \cup {c} /\ c \notin InControl /\ InBulk' = InBulk
    BY <1>1, <1>3 DEF InBulk, InControl, LnBulk
  <2>2. lnControl' = lnControl + 1 /\ lnBulk' = lnBulk
    BY <1>3 DEF LnAcquire, LnTake
  <2>3. IsFiniteSet(InControl') /\ Cardinality(InControl') = Cardinality(InControl) + 1
    BY <2>1, FS_AddElement DEF SlotsFinite
  <2> QED BY <2>1, <2>2, <2>3 DEF SlotsFinite, LaneSlotsExact, InBulk, InControl
<1> QED BY <1>2, <1>3

\* A call that ends its execution, however, gives back the slot of its lane.
LEMMA SlotGiven ==
    ASSUME LaneInv, NEW c \in LnCallers, lnAt[c] = "executes", LnGive(c),
           NEW to, to # "executes", LnMove(c, to), UNCHANGED lnLane
    PROVE  SlotsFinite' /\ LaneSlotsExact'
<1> USE DEF LaneInv, LanesTypeOK
<1>1. lnAt' = [lnAt EXCEPT ![c] = to]
  BY DEF LnMove
<1>2. CASE LnBulk(c)
  <2>1. InBulk' = InBulk \ {c} /\ c \in InBulk /\ InControl' = InControl
    BY <1>1, <1>2 DEF InBulk, InControl, LnBulk
  <2>2. lnBulk' = lnBulk - 1 /\ lnControl' = lnControl
    BY <1>2 DEF LnGive
  <2>3. IsFiniteSet(InBulk') /\ Cardinality(InBulk') = Cardinality(InBulk) - 1
    BY <2>1, FS_RemoveElement DEF SlotsFinite
  <2> QED BY <2>1, <2>2, <2>3 DEF SlotsFinite, LaneSlotsExact, InBulk, InControl
<1>3. CASE ~LnBulk(c)
  <2>1. InControl' = InControl \ {c} /\ c \in InControl /\ InBulk' = InBulk
    BY <1>1, <1>3 DEF InBulk, InControl, LnBulk
  <2>2. lnControl' = lnControl - 1 /\ lnBulk' = lnBulk
    BY <1>3 DEF LnGive
  <2>3. IsFiniteSet(InControl') /\ Cardinality(InControl') = Cardinality(InControl) - 1
    BY <2>1, FS_RemoveElement DEF SlotsFinite
  <2> QED BY <2>1, <2>2, <2>3 DEF SlotsFinite, LaneSlotsExact, InBulk, InControl
<1> QED BY <1>2, <1>3

-----------------------------------------------------------------------------
(* Lanes: the steps *)

\* A failed attempt is followed by another or ends the call, and is counted.
LEMMA FailedGoesOn ==
    ASSUME LaneInv, NEW c \in LnCallers, LnFailed(c)
    PROVE  /\ \E to \in {"waits", "error"} : LnMove(c, to)
           /\ lnAttempt' \in [LnCallers -> 0 .. MaxTxRetries - 1]
           /\ \A d \in LnCallers : lnAttempt'[d] >= lnAttempt[d]
           /\ lnAt'[c] = "waits" => lnAttempt'[c] = lnAttempt[c] + 1
<1> USE LnAssumption DEF LaneInv, LanesTypeOK
<1>1. CASE LnLast(c)
  BY <1>1 DEF LnFailed, LnMove
<1>2. CASE ~LnLast(c)
  <2>1. lnAttempt[c] + 1 \in 0 .. MaxTxRetries - 1
    BY <1>2 DEF LnLast
  <2> QED BY <1>2, <2>1 DEF LnFailed, LnMove
<1> QED BY <1>1, <1>2

\* A sample keeps the limit between floor and ceiling.
LEMMA RecordKeeps ==
    ASSUME LanesTypeOK, NEW c \in LnCallers, LnRecord(c) \/ UNCHANGED lnLimit
    PROVE  lnLimit' \in PressureMin .. BulkSlots
BY LnAssumption DEF LanesTypeOK, LnRecord, Raised, Lowered

\* A slot given back leaves the semaphores within their capacities.
LEMMA GiveType ==
    ASSUME LaneInv, NEW c \in LnCallers, lnAt[c] = "executes", LnGive(c)
    PROVE  lnBulk' \in 0 .. BulkSlots /\ lnControl' \in 0 .. ControlSlots
BY HoldsSlot, LnAssumption DEF LaneInv, LanesTypeOK, LnGive

\* What the end of an execution does to the call c: to is where it leaves it, n how often
\* its effect reached the database.
Ends(c, to, n) ==
    /\ lnAt[c] = "executes" /\ LnGive(c) /\ LnMove(c, to) /\ UNCHANGED lnLane
    /\ lnApplied' = [lnApplied EXCEPT ![c] = @ + n]
    /\ UNCHANGED <<lnBootVars, lnLoad, lnSpikes>>

\* An execution that ends keeps the invariant: a commit reports that it was applied
\* once, a failure that it was not, or that nobody can tell.
LEMMA EndStep ==
    ASSUME LaneInv, NEW c \in LnCallers, NEW to \in {"ok", "waits", "error"}, NEW n \in {0, 1},
           Ends(c, to, n),
           lnAttempt' \in [LnCallers -> 0 .. MaxTxRetries - 1],
           \A d \in LnCallers : lnAttempt'[d] >= lnAttempt[d],
           to = "waits" => lnAttempt'[c] = lnAttempt[c] + 1,
           lnDoubt' \in [LnCallers -> BOOLEAN],
           \A d \in LnCallers \ {c} : lnDoubt'[d] = lnDoubt[d],
           lnDoubt'[c] \/ (lnDoubt'[c] = lnDoubt[c] /\ n = IF to = "ok" THEN 1 ELSE 0),
           lnLimit' \in PressureMin .. BulkSlots
    PROVE  LaneInv'
<1> USE LnAssumption DEF LaneInv, LanesTypeOK
<1>1. /\ lnAt' = [lnAt EXCEPT ![c] = to] /\ lnApplied[c] =< lnAttempt[c]
      /\ lnApplied' = [lnApplied EXCEPT ![c] = @ + n]
  BY DEF Ends, LnMove, AppliedPerAttempt
<1>2. lnBulk' \in 0 .. BulkSlots /\ lnControl' \in 0 .. ControlSlots
  BY GiveType DEF Ends
<1>3. lnApplied' \in [LnCallers -> 0 .. MaxTxRetries]
  BY <1>1
<1>4. LanesTypeOK'
  BY <1>1, <1>2, <1>3 DEF Ends, lnBootVars
<1>5. AppliedPerAttempt'
  BY <1>1 DEF AppliedPerAttempt
<1>6. BootGoesOn'
  BY DEF BootGoesOn, Ends, lnBootVars
<1>7. SlotsFinite' /\ LaneSlotsExact'
  BY SlotGiven DEF Ends
<1>8. LaneHonest'
  <2> SUFFICES ASSUME NEW d \in LnCallers, ~lnDoubt'[d]
               PROVE  lnApplied'[d] = IF lnAt'[d] = "ok" THEN 1 ELSE 0
    BY DEF LaneHonest
  <2>1. CASE d = c
    <3>1. lnApplied[c] = 0
      BY <2>1 DEF Ends, LaneHonest
    <3>2. n = IF to = "ok" THEN 1 ELSE 0
      BY <2>1
    <3>3. lnApplied'[c] = n /\ lnAt'[c] = to
      BY <1>1, <3>1
    <3> QED BY <2>1, <3>2, <3>3
  <2>2. CASE d # c
    BY <1>1, <2>2 DEF LaneHonest
  <2> QED BY <2>1, <2>2
<1> QED BY <1>4, <1>5, <1>6, <1>7, <1>8

\* Every step of a call keeps the invariant.
LEMMA CallStep ==
    ASSUME LaneInv, NEW c \in LnCallers, LnStep(c) \/ \E lane \in {"bulk", "control"} : LnCall(c, lane)
    PROVE  LaneInv'
<1> USE LnAssumption DEF LaneInv, LanesTypeOK
<1>1. ASSUME NEW lane \in {"bulk", "control"}, LnCall(c, lane) PROVE LaneInv'
  <2>1. SlotsFinite' /\ LaneSlotsExact'
    BY <1>1, SlotsKept DEF LnCall, LnMove, lnSlotVars
  <2>2. LanesTypeOK'
    BY <1>1 DEF LnCall, LnMove, lnBootVars, lnSlotVars, lnPressVars
  <2>3. BootGoesOn' /\ AppliedPerAttempt' /\ LaneHonest'
    BY <1>1 DEF LnCall, LnMove, lnBootVars, BootGoesOn, AppliedPerAttempt, LaneHonest
  <2> QED BY <2>1, <2>2, <2>3
<1>2. CASE LnAsk(c) \/ LnFdPressure(c) \/ LnDeadline(c) \/ LnBackoff(c)
  <2>1. /\ lnAt[c] \notin {"executes", "ok"}
        /\ \E to \in {"checked", "waits", "error", "asks"} :
              /\ LnMove(c, to)
              /\ to # "error" => lnAt[c] \in {"asks", "checked", "waits"}
        /\ lnAttempt' \in [LnCallers -> 0 .. MaxTxRetries - 1]
        /\ \A d \in LnCallers : lnAttempt'[d] >= lnAttempt[d]
    BY <1>2, FailedGoesOn DEF LnAsk, LnFdPressure, LnDeadline, LnBackoff
  <2>2. UNCHANGED <<lnBootVars, lnSlotVars, lnLane, lnApplied, lnDoubt, lnPressVars>>
    BY <1>2 DEF LnAsk, LnFdPressure, LnDeadline, LnBackoff
  <2>3. SlotsFinite' /\ LaneSlotsExact'
    BY <2>1, <2>2, SlotsKept DEF LnMove, lnSlotVars
  <2>4. LanesTypeOK'
    BY <2>1, <2>2 DEF LnMove, lnBootVars, lnSlotVars, lnPressVars
  <2>5. BootGoesOn' /\ LaneHonest'
    BY <2>1, <2>2 DEF LnMove, lnBootVars, BootGoesOn, LaneHonest
  <2>6. AppliedPerAttempt'
    <3> SUFFICES ASSUME NEW d \in LnCallers,
                        lnAt'[d] \in {"asks", "checked", "executes", "waits"}
                 PROVE  lnApplied'[d] =< lnAttempt'[d]
      BY DEF AppliedPerAttempt
    <3>1. lnAt[d] \in {"asks", "checked", "executes", "waits"}
      BY <2>1 DEF LnMove
    <3>2. lnApplied[d] =< lnAttempt[d] /\ lnApplied'[d] = lnApplied[d]
      BY <2>2, <3>1 DEF AppliedPerAttempt
    <3>3. lnAttempt'[d] >= lnAttempt[d] /\ lnAttempt'[d] \in Int
      BY <2>1
    <3> QED BY <3>2, <3>3
  <2> QED BY <2>3, <2>4, <2>5, <2>6
<1>3. CASE LnAcquire(c)
  <2>1. lnAt[c] = "checked" /\ lnAt' = [lnAt EXCEPT ![c] = "executes"]
    BY <1>3 DEF LnAcquire, LnMove
  <2>2. UNCHANGED <<lnBootVars, lnLane, lnAttempt, lnApplied, lnDoubt, lnPressVars>>
    BY <1>3 DEF LnAcquire
  <2>3. lnBulk' \in 0 .. BulkSlots /\ lnControl' \in 0 .. ControlSlots
    BY <1>3 DEF LnAcquire, LnTake
  <2>4. LanesTypeOK'
    BY <2>1, <2>2, <2>3 DEF lnBootVars, lnPressVars
  <2>5. BootGoesOn' /\ AppliedPerAttempt' /\ LaneHonest'
    BY <2>1, <2>2 DEF lnBootVars, BootGoesOn, AppliedPerAttempt, LaneHonest
  <2> QED BY <1>3, <2>4, <2>5, SlotTaken
<1>4. CASE LnCommit(c)
  <2>1. Ends(c, "ok", 1)
    BY <1>4 DEF LnCommit, Ends
  <2>2. lnLimit' \in PressureMin .. BulkSlots
    BY <1>4, RecordKeeps DEF LnCommit
  <2> QED BY <1>4, <2>1, <2>2, EndStep DEF LnCommit
<1>5. CASE LnCommitFails(c)
  <2>1. PICK n \in {0, 1} : lnApplied' = [lnApplied EXCEPT ![c] = @ + n]
    BY <1>5 DEF LnCommitFails
  <2>2. PICK to \in {"waits", "error"} : LnMove(c, to)
    BY <1>5, FailedGoesOn DEF LnCommitFails
  <2>3. Ends(c, to, n)
    BY <1>5, <2>1, <2>2 DEF LnCommitFails, Ends
  <2>4. lnLimit' \in PressureMin .. BulkSlots
    BY <1>5, RecordKeeps DEF LnCommitFails
  <2>5. lnDoubt' = [lnDoubt EXCEPT ![c] = TRUE] /\ lnAt'[c] = to
    BY <1>5, <2>2 DEF LnCommitFails, LnMove
  <2>6. /\ lnAttempt' \in [LnCallers -> 0 .. MaxTxRetries - 1]
        /\ \A d \in LnCallers : lnAttempt'[d] >= lnAttempt[d]
        /\ to = "waits" => lnAttempt'[c] = lnAttempt[c] + 1
    BY <1>5, <2>5, FailedGoesOn DEF LnCommitFails
  <2>7. /\ lnDoubt' \in [LnCallers -> BOOLEAN] /\ lnDoubt'[c]
        /\ \A d \in LnCallers \ {c} : lnDoubt'[d] = lnDoubt[d]
    BY <2>5
  <2> QED BY <2>3, <2>4, <2>6, <2>7, EndStep
<1>6. CASE LnExecFails(c)
  <2>1. lnApplied' = [lnApplied EXCEPT ![c] = @ + 0]
    <3>1. lnApplied[c] + 0 = lnApplied[c]
      OBVIOUS
    <3> QED BY <1>6, <3>1 DEF LnExecFails, LnRolledBack
  <2>2. lnLimit' \in PressureMin .. BulkSlots
    BY <1>6, RecordKeeps DEF LnExecFails
  <2>3. PICK to \in {"waits", "error"} :
          /\ LnMove(c, to)
          /\ lnAttempt' \in [LnCallers -> 0 .. MaxTxRetries - 1]
          /\ \A d \in LnCallers : lnAttempt'[d] >= lnAttempt[d]
          /\ to = "waits" => lnAttempt'[c] = lnAttempt[c] + 1
    <3>1. CASE LnFailed(c)
      <4>1. PICK to \in {"waits", "error"} : LnMove(c, to)
        BY <3>1, FailedGoesOn
      <4>2. lnAt'[c] = to
        BY <4>1 DEF LnMove
      <4> QED BY <3>1, <4>1, <4>2, FailedGoesOn
    <3>2. CASE LnMove(c, "error") /\ UNCHANGED lnAttempt
      BY <3>2
    <3> QED BY <1>6, <3>1, <3>2 DEF LnExecFails
  <2>4. Ends(c, to, 0)
    BY <1>6, <2>1, <2>3 DEF LnExecFails, Ends
  <2> QED BY <1>6, <2>2, <2>3, <2>4, EndStep DEF LnExecFails
<1> QED BY <1>1, <1>2, <1>3, <1>4, <1>5, <1>6 DEF LnStep

\* Every step keeps the invariant.
LEMMA LaneStep == LaneInv /\ [LanesNext]_laneVars => LaneInv'
<1> SUFFICES ASSUME LaneInv, [LanesNext]_laneVars PROVE LaneInv'
  OBVIOUS
<1> USE LnAssumption DEF LaneInv, LanesTypeOK
<1>1. CASE LnConnect \/ LnConnectFails \/ LnLoadChanges \/ UNCHANGED laneVars
  <2>1. UNCHANGED <<lnSlotVars, lnCallVars>>
    BY <1>1 DEF LnConnect, LnConnectFails, LnLoadChanges, laneVars
  <2>2. UNCHANGED <<lnBulk, lnControl, lnLane, lnAt, lnAttempt, lnApplied, lnDoubt>>
    BY <2>1 DEF lnSlotVars, lnCallVars
  <2>3. SlotsFinite' /\ LaneSlotsExact'
    BY <2>2, SlotsKept
  <2>4. AppliedPerAttempt' /\ LaneHonest'
    BY <2>2 DEF AppliedPerAttempt, LaneHonest
  <2>5. /\ lnBoot' \in {"connecting", "up", "exited"} /\ lnBootTries' \in 0 .. MaxBootAttempts
        /\ BootGoesOn'
    BY <1>1 DEF LnConnect, LnConnectFails, LnLoadChanges, laneVars, lnBootVars, BootGoesOn
  <2>6. /\ lnLimit' \in PressureMin .. BulkSlots
        /\ lnLoad' \in {"low", "fair", "high"} /\ lnSpikes' \in 0 .. LnMaxSpikes
    BY <1>1 DEF LnConnect, LnConnectFails, LnLoadChanges, laneVars, lnPressVars
  <2> QED BY <2>2, <2>3, <2>4, <2>5, <2>6
<1>2. CASE \E c \in LnCallers, lane \in {"bulk", "control"} : LnCall(c, lane)
  BY <1>2, CallStep
<1>3. CASE \E c \in LnCallers : LnStep(c)
  BY <1>3, CallStep
<1> QED BY <1>1, <1>2, <1>3 DEF LanesNext

\* The invariant holds of the lanes.
LEMMA LanesKeepInv == LanesSpec => []LaneInv
BY InitLanes, LaneStep, PTL DEF LanesSpec

-----------------------------------------------------------------------------
(* Lanes: theorems *)

\* Slots, limit and attempts stay within their bounds: neither semaphore is overdrawn
\* or given back below zero, and the pressure controller's limit keeps to its range.
THEOREM LanesTypeCorrect == LanesSpec => []LanesTypeOK
<1>1. LaneInv => LanesTypeOK
  BY DEF LaneInv
<1> QED BY <1>1, LanesKeepInv, PTL

\* However calls are shed, refused, cut off by their deadline or fail, Execute and
\* ExecuteControl give back exactly the slots they took.
THEOREM SlotsAreExact == LanesSpec => []LaneSlotsExact
<1>1. LaneInv => LaneSlotsExact
  BY DEF LaneInv
<1> QED BY <1>1, LanesKeepInv, PTL

\* A call that returns nil had its effect once and one that returns an error had none,
\* whatever was retried before, unless the reply to a COMMIT was lost.
THEOREM CallsAreHonest == LanesSpec => []LaneHonest
<1>1. LaneInv => LaneHonest
  BY DEF LaneInv
<1> QED BY <1>1, LanesKeepInv, PTL

-----------------------------------------------------------------------------
(* Breaker *)

\* The calls of BlockJob under way.
Blocking == {c \in WbCalls : wbAt[c] # "idle"}

\* A call that is about to forget the breaker has blocked the job.
ForgetsBlocked == \A c \in WbCalls : wbAt[c] = "forgets" => wbJob # "running"

BreakerInv == BreakerTypeOK /\ IsFiniteSet(Blocking) /\ ForgetsBlocked /\ BreakerAlive

\* The breaker begins empty.
LEMMA InitBreaker == BreakerInit => BreakerInv
<1> SUFFICES ASSUME BreakerInit PROVE BreakerInv
  OBVIOUS
<1>1. /\ wbJob = "running" /\ wbCount = 0 /\ wbAt = [c \in WbCalls |-> "idle"]
      /\ wbOutcomes = 0 /\ wbFaults = 0
  BY DEF BreakerInit
<1>2. ~wbTripped /\ wbTripped \in BOOLEAN /\ wbLost \in BOOLEAN
  BY Zenon DEF BreakerInit
<1>3. Blocking = {}
  BY <1>1 DEF Blocking
<1>4. IsFiniteSet(Blocking) /\ BreakerAlive
  BY <1>2, <1>3, FS_EmptySet DEF BreakerAlive, Blocking
<1> QED BY <1>1, <1>2, <1>4, WbAssumption DEF BreakerInv, BreakerTypeOK, ForgetsBlocked

\* Every step keeps the types.
LEMMA BreakerTypes == BreakerTypeOK /\ [BreakerNext]_breakerVars => BreakerTypeOK'
<1> SUFFICES ASSUME BreakerTypeOK, [BreakerNext]_breakerVars PROVE BreakerTypeOK'
  OBVIOUS
<1> USE WbAssumption DEF BreakerTypeOK
<1>1. ASSUME NEW blocked \in BOOLEAN, WbObserve(blocked) PROVE BreakerTypeOK'
  BY <1>1 DEF WbObserve, WbObserved
<1>2. ASSUME NEW c \in WbCalls, WbTrip(c) PROVE BreakerTypeOK'
  BY <1>2 DEF WbTrip, WbObserved, WbMove
<1>3. ASSUME NEW c \in WbCalls, WbRead(c) PROVE BreakerTypeOK'
  BY <1>3 DEF WbRead, WbMove, WbFault, wbMemory
<1>4. ASSUME NEW c \in WbCalls, WbWrite(c) \/ WbWriteLost(c) PROVE BreakerTypeOK'
  BY <1>4 DEF WbWrite, WbWriteLost, WbMove, wbMemory
<1>5. ASSUME NEW c \in WbCalls, WbWriteFails(c) \/ WbWriteInDoubt(c) PROVE BreakerTypeOK'
  BY <1>5 DEF WbWriteFails, WbWriteInDoubt, WbMove, WbFault, wbMemory
<1>6. ASSUME NEW c \in WbCalls, WbForget(c) \/ WbRearm(c) PROVE BreakerTypeOK'
  <2>1. wbTripped' \in BOOLEAN
    BY <1>6, Zenon DEF WbForget, WbRearm, Rearmed
  <2>2. /\ wbCount' \in 0 .. WbThreshold /\ WbMove(c, "idle")
        /\ UNCHANGED <<wbJob, wbLost, wbOutcomes, wbFaults>>
    BY <1>6 DEF WbForget, WbRearm
  <2> QED BY <2>1, <2>2 DEF WbMove
<1>7. CASE WbJobEnds \/ UNCHANGED breakerVars
  BY <1>7 DEF WbJobEnds, breakerVars, wbMemory
<1>8. CASE WbRestart
  <2>1. wbTripped' \in BOOLEAN /\ wbLost' \in BOOLEAN
    BY <1>8, Zenon DEF WbRestart
  <2>2. /\ wbCount' = 0 /\ wbAt' = [c \in WbCalls |-> "idle"]
        /\ WbFault /\ UNCHANGED <<wbJob, wbOutcomes>>
    BY <1>8 DEF WbRestart
  <2> QED BY <2>1, <2>2 DEF WbFault
<1> QED BY <1>1, <1>2, <1>3, <1>4, <1>5, <1>6, <1>7, <1>8 DEF BreakerNext, WbCallStep

\* A call that moves on or ends changes the calls under way by itself only.
LEMMA BlockingMoves ==
    ASSUME BreakerTypeOK, IsFiniteSet(Blocking), NEW c \in WbCalls, NEW to, WbMove(c, to)
    PROVE  /\ IsFiniteSet(Blocking')
           /\ to # "idle" /\ wbAt[c] # "idle" => Blocking' = Blocking
           /\ to # "idle" /\ wbAt[c] = "idle" => Cardinality(Blocking') = Cardinality(Blocking) + 1
           /\ to = "idle" /\ wbAt[c] # "idle" => Cardinality(Blocking') = Cardinality(Blocking) - 1
<1> USE DEF BreakerTypeOK, WbMove, Blocking
<1>1. CASE to # "idle"
  <2>1. Blocking' = Blocking \cup {c}
    BY <1>1
  <2>2. c \in Blocking <=> wbAt[c] # "idle"
    OBVIOUS
  <2> HIDE DEF Blocking
  <2> QED BY <1>1, <2>1, <2>2, FS_AddElement
<1>2. CASE to = "idle"
  <2>1. Blocking' = Blocking \ {c}
    BY <1>2
  <2>2. c \in Blocking <=> wbAt[c] # "idle"
    OBVIOUS
  <2> HIDE DEF Blocking
  <2> QED BY <1>2, <2>1, <2>2, FS_RemoveElement
<1> QED BY <1>1, <1>2

\* Every step keeps the invariant.  A call that ends without blocking the job clears
\* the flag, or has lost.
LEMMA BreakerStep == BreakerInv /\ [BreakerNext]_breakerVars => BreakerInv'
<1> SUFFICES ASSUME BreakerInv, [BreakerNext]_breakerVars PROVE BreakerInv'
  OBVIOUS
<1> DEFINE Calls == Cardinality(Blocking)
<1> USE DEF BreakerInv
<1>1. BreakerTypeOK'
  BY BreakerTypes
<1>2. wbJob = "running" /\ ~wbLost => Calls = IF wbTripped THEN 1 ELSE 0
  BY DEF BreakerAlive, Blocking
<1>3. SUFFICES /\ IsFiniteSet(Blocking') /\ ForgetsBlocked'
               /\ wbJob' = "running" /\ ~wbLost' => Calls' = IF wbTripped' THEN 1 ELSE 0
  BY <1>1 DEF BreakerAlive, Blocking
<1>4. Calls \in Nat
  BY FS_CardinalityType
<1> HIDE DEF Calls
<1>5. ASSUME UNCHANGED wbAt PROVE IsFiniteSet(Blocking') /\ Calls' = Calls
  BY <1>5 DEF Blocking, Calls
<1>6. ASSUME NEW c \in WbCalls, NEW to, WbMove(c, to)
      PROVE  /\ IsFiniteSet(Blocking')
             /\ to # "idle" /\ wbAt[c] # "idle" => Calls' = Calls
             /\ to # "idle" /\ wbAt[c] = "idle" => Calls' = Calls + 1
             /\ to = "idle" /\ wbAt[c] # "idle" => Calls' = Calls - 1
  BY <1>6, BlockingMoves DEF Calls
<1>7. ASSUME NEW blocked \in BOOLEAN, WbObserve(blocked)
      PROVE  /\ IsFiniteSet(Blocking') /\ ForgetsBlocked'
             /\ wbJob' = "running" /\ ~wbLost' => Calls' = IF wbTripped' THEN 1 ELSE 0
  BY <1>2, <1>5, <1>7 DEF WbObserve, ForgetsBlocked
<1>8. ASSUME NEW c \in WbCalls, WbTrip(c) \/ WbCallStep(c)
      PROVE  /\ IsFiniteSet(Blocking') /\ ForgetsBlocked'
             /\ wbJob' = "running" /\ ~wbLost' => Calls' = IF wbTripped' THEN 1 ELSE 0
  <2> USE DEF BreakerTypeOK
  <2>1. CASE WbTrip(c)
    <3>1. wbTripped' /\ ~wbTripped
      BY <2>1, Zenon DEF WbTrip
    <3>2. WbMove(c, "reads") /\ wbAt[c] = "idle" /\ UNCHANGED <<wbJob, wbLost>>
      BY <2>1 DEF WbTrip
    <3>3. IsFiniteSet(Blocking') /\ Calls' = Calls + 1
      BY <1>6, <3>2
    <3>4. ForgetsBlocked'
      BY <3>2 DEF WbMove, ForgetsBlocked
    <3> QED BY <1>2, <3>1, <3>2, <3>3, <3>4
  <2>2. CASE WbRead(c)
    <3>1. PICK to \in {"writes", "idle", "rearms"} :
              WbMove(c, to) /\ (wbJob = "running" => to # "idle")
      BY <2>2 DEF WbRead
    <3> QED BY <1>2, <1>6, <2>2, <3>1 DEF WbRead, WbMove, wbMemory, ForgetsBlocked
  <2>3. CASE WbWrite(c) \/ WbWriteInDoubt(c)
    BY <1>6, <2>3 DEF WbWrite, WbWriteInDoubt, WbMove, ForgetsBlocked
  <2>4. CASE WbWriteLost(c)
    BY <1>6, <2>4 DEF WbWriteLost, WbMove, ForgetsBlocked
  <2>5. CASE WbWriteFails(c)
    BY <1>2, <1>6, <2>5 DEF WbWriteFails, WbMove, wbMemory, ForgetsBlocked
  <2>6. CASE WbForget(c)
    BY <1>6, <2>6 DEF WbForget, WbMove, ForgetsBlocked
  <2>7. CASE WbRearm(c)
    <3>1. Calls # 0
      <4>1. c \in Blocking
        BY <2>7 DEF WbRearm, Blocking
      <4> QED BY <4>1, FS_EmptySet DEF Calls
    <3>2. ~wbTripped'
      BY <2>7, Zenon DEF WbRearm, Rearmed
    <3>3. WbMove(c, "idle") /\ wbAt[c] # "idle" /\ UNCHANGED <<wbJob, wbLost>>
      BY <2>7 DEF WbRearm
    <3>4. IsFiniteSet(Blocking') /\ Calls' = Calls - 1
      BY <1>6, <3>3
    <3>5. ForgetsBlocked'
      BY <3>3 DEF WbMove, ForgetsBlocked
    <3> QED BY <1>2, <3>1, <3>2, <3>3, <3>4, <3>5
  <2> QED BY <1>8, <2>1, <2>2, <2>3, <2>4, <2>5, <2>6, <2>7 DEF WbCallStep
<1>9. CASE WbRestart
  <2>1. Blocking' = {}
    BY <1>9 DEF WbRestart, Blocking
  <2>2. ~wbTripped'
    BY <1>9, Zenon DEF WbRestart
  <2>3. wbAt' = [c \in WbCalls |-> "idle"]
    BY <1>9 DEF WbRestart
  <2>4. ForgetsBlocked'
    BY <2>3 DEF ForgetsBlocked
  <2> QED BY <2>1, <2>2, <2>4, FS_EmptySet DEF Calls
<1>10. CASE WbJobEnds \/ UNCHANGED breakerVars
  BY <1>2, <1>5, <1>10 DEF WbJobEnds, breakerVars, wbMemory, ForgetsBlocked
<1> QED BY <1>7, <1>8, <1>9, <1>10 DEF BreakerNext

\* The types of the breaker hold for every threshold and any number of calls.
THEOREM BreakerTypeCorrect == BreakerSpec => []BreakerTypeOK
<1>1. BreakerInv => BreakerTypeOK
  BY DEF BreakerInv
<1> QED BY <1>1, InitBreaker, BreakerStep, PTL DEF BreakerSpec

\* While its job runs, the breaker of waf_circuit_breaker.go is tripped exactly while one
\* call of BlockJob is under way, whatever fails and however often the process restarts.
THEOREM BreakerIsAlive == BreakerSpec => []BreakerAlive
<1>1. BreakerInv => BreakerAlive
  BY DEF BreakerInv
<1> QED BY <1>1, InitBreaker, BreakerStep, PTL DEF BreakerSpec

=============================================================================
