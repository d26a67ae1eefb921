----------------------------- MODULE DomainPacer -----------------------------
(***************************************************************************)
(* Pacing of one domain: the dispatchers' TryAcquire on its gate key, the  *)
(* rescheduling of entries that are pushed back, and the adaptive delay    *)
(* that the workers' Release raises and lowers.                            *)
(*                                                                         *)
(* Time is counted down: the gate and an entry's due time are what is left *)
(* of them.  base_delay_ms and floor_ms are missing from the domain's      *)
(* hash, and read as 0, as only Seed writes them and nothing calls Seed:   *)
(* a Crawl-delay of robots.txt delays nothing.                             *)
(* error_streak and the inflight hash steer nothing and are left out.      *)
(***************************************************************************)
EXTENDS Integers

CONSTANTS
    PcTasks,           \* entries of any job that go to the domain
    SuccessThreshold, DelayStep, DelayStepDown, MaxDelay, MinPushback,
    PcMaxLimited,      \* bound: answers that limit the rate
    PcMaxFlushes       \* bound: workers that start

ASSUME PcAssumption ==
    /\ SuccessThreshold \in Nat \ {0} /\ DelayStep \in Nat \ {0} /\ DelayStepDown \in Nat \ {0}
    /\ MaxDelay \in Nat \ {0} /\ MinPushback \in Nat
    /\ PcMaxLimited \in Nat /\ PcMaxFlushes \in Nat

VARIABLES
    pcAt,        \* per entry: "new", "zset", "stream" or "done"
    pcWait,      \* per entry in the ZSET: how long until it is due
    pcGate,      \* what is left of the gate key, 0 if there is none
    pcAdaptive,  \* adaptive_delay_ms
    pcStreak,    \* success_streak
    pcGap,       \* history: time since the last grant, up to the longest delay
    pcOwed,      \* history: the delay in force at the last grant
    pcLimited,   \* answers that limited the rate so far (bound)
    pcFlushes    \* flushes so far (bound)

pacerVars == <<pcAt, pcWait, pcGate, pcAdaptive, pcStreak, pcGap, pcOwed, pcLimited, pcFlushes>>

-----------------------------------------------------------------------------

PcLarger(a, b)  == IF a > b THEN a ELSE b
PcSmaller(a, b) == IF a < b THEN a ELSE b

\* No delay or pause is longer.
PcLongest == PcLarger(MaxDelay, MinPushback)

PacerInit ==
    /\ pcAt = [t \in PcTasks |-> "new"] /\ pcWait = [t \in PcTasks |-> 0]
    /\ pcGate = 0 /\ pcAdaptive = 0 /\ pcStreak = 0
    /\ pcGap = PcLongest /\ pcOwed = 0
    /\ pcLimited = 0 /\ pcFlushes = 0

\* An entry comes into its job's ZSET, due at once.
PcSchedule(t) ==
    /\ pcAt[t] = "new"
    /\ pcAt' = [pcAt EXCEPT ![t] = "zset"]
    /\ UNCHANGED <<pcWait, pcGate, pcAdaptive, pcStreak, pcGap, pcOwed, pcLimited, pcFlushes>>

PcDue(t) == pcAt[t] = "zset" /\ pcWait[t] = 0

\* Mutant: the gate key is not looked at.
PcOpenAlways(delay) == TRUE

\* The script grants at once if there is no delay, and else if SET NX succeeds.
PcOpen(delay) == delay = 0 \/ pcGate = 0

\* TryAcquire grants, and the entry is published.
PcGrant(t) ==
    /\ PcDue(t)
    /\ PcOpen(pcAdaptive)
    /\ pcAt' = [pcAt EXCEPT ![t] = "stream"]
    /\ pcGate' = IF pcAdaptive = 0 THEN pcGate ELSE pcAdaptive
    /\ pcGap' = 0 /\ pcOwed' = pcAdaptive
    /\ UNCHANGED <<pcWait, pcAdaptive, pcStreak, pcLimited, pcFlushes>>

\* Mutant: a refusal arms the gate anew.
PcGateRefusedAnew == pcAdaptive

\* A refusal leaves the gate as it is.
PcGateRefused == pcGate

\* TryAcquire refuses: RescheduleZSet puts the entry off until the gate expires.
PcPushback(t) ==
    /\ PcDue(t)
    /\ ~PcOpen(pcAdaptive)
    /\ pcGate' = PcGateRefused
    /\ pcWait' = [pcWait EXCEPT ![t] = PcLarger(pcGate', MinPushback)]
    /\ UNCHANGED <<pcAt, pcAdaptive, pcStreak, pcGap, pcOwed, pcLimited, pcFlushes>>

\* The success script.  What the streak counts beyond the threshold changes nothing.
PcOnSuccess ==
    IF pcStreak + 1 >= SuccessThreshold /\ pcAdaptive > 0
    THEN pcAdaptive' = PcLarger(0, pcAdaptive - DelayStepDown) /\ pcStreak' = 0
    ELSE pcStreak' = PcSmaller(pcStreak + 1, SuccessThreshold) /\ UNCHANGED pcAdaptive

\* Release of a task that succeeded.
PcReleaseSuccess(t) ==
    /\ pcAt[t] = "stream"
    /\ pcAt' = [pcAt EXCEPT ![t] = "done"]
    /\ PcOnSuccess
    /\ UNCHANGED <<pcWait, pcGate, pcGap, pcOwed, pcLimited, pcFlushes>>

\* Release of a task whose answer limited the rate: the error script.  The task is
\* scheduled again or, out of retries, fails.
PcReleaseLimited(t) ==
    /\ pcAt[t] = "stream" /\ pcLimited < PcMaxLimited
    /\ pcLimited' = pcLimited + 1
    /\ pcAdaptive' = PcSmaller(MaxDelay, pcAdaptive + DelayStep)
    /\ pcStreak' = 0
    /\ \E next \in {"zset", "done"} : pcAt' = [pcAt EXCEPT ![t] = next]
    /\ UNCHANGED <<pcWait, pcGate, pcGap, pcOwed, pcFlushes>>

\* Release after any other failure changes no delay.
PcReleaseOther(t) ==
    /\ pcAt[t] = "stream"
    /\ pcAt' = [pcAt EXCEPT ![t] = "done"]
    /\ UNCHANGED <<pcWait, pcGate, pcAdaptive, pcStreak, pcGap, pcOwed, pcLimited, pcFlushes>>

\* FlushAdaptiveDelays, when some worker starts: the hash goes, the gate stays.
PcFlush ==
    /\ pcFlushes < PcMaxFlushes
    /\ pcFlushes' = pcFlushes + 1
    /\ pcAdaptive' = 0 /\ pcStreak' = 0
    /\ UNCHANGED <<pcAt, pcWait, pcGate, pcGap, pcOwed, pcLimited>>

\* Time passes.
PcTick ==
    /\ pcGate > 0 \/ pcGap < PcLongest \/ \E t \in PcTasks : pcWait[t] > 0
    /\ pcGate' = PcLarger(0, pcGate - 1)
    /\ pcWait' = [t \in PcTasks |-> PcLarger(0, pcWait[t] - 1)]
    /\ pcGap' = PcSmaller(PcLongest, pcGap + 1)
    /\ UNCHANGED <<pcAt, pcAdaptive, pcStreak, pcOwed, pcLimited, pcFlushes>>

-----------------------------------------------------------------------------

PcDispatch(t) == PcGrant(t) \/ PcPushback(t)
PcRelease(t)  == PcReleaseSuccess(t) \/ PcReleaseLimited(t) \/ PcReleaseOther(t)

PacerNext == \/ \E t \in PcTasks : PcSchedule(t)
             \/ \E t \in PcTasks : PcDispatch(t)
             \/ \E t \in PcTasks : PcRelease(t)
             \/ PcFlush \/ PcTick

PacerSpec == PacerInit /\ [][PacerNext]_pacerVars

-----------------------------------------------------------------------------
(* Properties *)

\* Every variable of the pacer stays within its type.
PacerTypeOK ==
    /\ pcAt \in [PcTasks -> {"new", "zset", "stream", "done"}]
    /\ pcWait \in [PcTasks -> 0 .. PcLongest]
    /\ pcGate \in 0 .. MaxDelay /\ pcAdaptive \in 0 .. MaxDelay
    /\ pcStreak \in 0 .. SuccessThreshold
    /\ pcGap \in 0 .. PcLongest /\ pcOwed \in 0 .. MaxDelay
    /\ pcLimited \in 0 .. PcMaxLimited /\ pcFlushes \in 0 .. PcMaxFlushes

\* A step that sends a request of the domain on its way.
PcGrants == \E t \in PcTasks : pcAt[t] = "zset" /\ pcAt'[t] = "stream"

\* Through releases of other workers, that raise and lower the delay, and flushes:
\* a grant keeps the delay the last one was given, unless the delay is back at 0.
PacerSpaced == [][PcGrants => pcGap >= pcOwed \/ pcAdaptive = 0]_pacerVars

\* However many entries of however many jobs are pushed back by one gate, and
\* however the delay moves, all of them get their turn.
PacerServes == (\E t \in PcTasks : pcAt[t] = "zset") ~> (\A t \in PcTasks : pcAt[t] # "zset")
=============================================================================
