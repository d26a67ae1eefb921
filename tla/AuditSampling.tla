---------------------------- MODULE AuditSampling ----------------------------
(***************************************************************************)
(* Progress milestones of one job and the pages sampled at them for a      *)
(* Lighthouse audit.  Each worker process remembers the last milestone it  *)
(* fired; after a flush it reads the job's progress and, past a further    *)
(* milestone, samples the fastest and the slowest of the completed pages.  *)
(*                                                                         *)
(* A page is its rank by response time.  What becomes of an audit is in    *)
(* AuditRuns.                                                              *)
(***************************************************************************)
EXTENDS Integers, FiniteSets

CONSTANTS
    AsPages,        \* pages of the job, the smaller the faster
    AsReplicas,     \* worker processes
    AsMaxRestarts   \* bound: times a worker forgets the milestones

ASSUME AsAssumption ==
    AsPages \subseteq Nat /\ AsPages # {} /\ IsFiniteSet(AsPages) /\ AsMaxRestarts \in Nat

VARIABLES
    asPage,      \* per page: "open", "completed", or "other" (failed or skipped)
    asBand,      \* per page: the band of its row in lighthouse_runs, or "none"
    lastMilestoneFired,   \* per replica: -1 if it knows of none
    asAt,        \* per replica: "idle", "flushed", "fires", "sampled"
    asMilestone, \* per replica: the milestone it fires
    asSamples,   \* per replica: the samples it has chosen and not inserted yet
    asRaced,     \* history: rows were inserted between a replica's choice and its insert
    asRestarts   \* times one forgot them (bound)

samplingVars ==
    <<asPage, asBand, lastMilestoneFired, asAt, asMilestone, asSamples, asRaced, asRestarts>>

-----------------------------------------------------------------------------

AsNoSamples == [fastest |-> {}, slowest |-> {}]

SamplingInit ==
    /\ asPage = [p \in AsPages |-> "open"] /\ asBand = [p \in AsPages |-> "none"]
    /\ lastMilestoneFired = [r \in AsReplicas |-> -1]
    /\ asAt = [r \in AsReplicas |-> "idle"] /\ asMilestone = [r \in AsReplicas |-> 0]
    /\ asSamples = [r \in AsReplicas |-> AsNoSamples]
    /\ asRaced = FALSE /\ asRestarts = 0

AsMove(r, to) == asAt' = [asAt EXCEPT ![r] = to]

\* The callback is over.
AsEnd(r) ==
    /\ AsMove(r, "idle")
    /\ asMilestone' = [asMilestone EXCEPT ![r] = 0]
    /\ asSamples' = [asSamples EXCEPT ![r] = AsNoSamples]

\* A flush of the replica's batch manager closes some pages, and calls back.
AsFlush(r) ==
    /\ asAt[r] = "idle"
    /\ \E S \in SUBSET {p \in AsPages : asPage[p] = "open"} :
          /\ S # {}
          /\ \E f \in [S -> {"completed", "other"}] :
                asPage' = [p \in AsPages |-> IF p \in S THEN f[p] ELSE asPage[p]]
    /\ AsMove(r, "flushed")
    /\ UNCHANGED <<asBand, lastMilestoneFired, asMilestone, asSamples, asRaced, asRestarts>>

\* The progress in per cent, down to the last multiple of ten.
AsProgress ==
    LET finished == Cardinality({p \in AsPages : asPage[p] # "open"})
    IN  (((finished * 100) \div Cardinality(AsPages)) \div 10) * 10

\* MaybeFireMilestones, by the batch manager's goroutine.
MaybeFireMilestones(r) ==
    /\ asAt[r] = "flushed"
    /\ IF AsProgress =< lastMilestoneFired[r]
       THEN AsEnd(r) /\ UNCHANGED lastMilestoneFired
       ELSE /\ lastMilestoneFired' = [lastMilestoneFired EXCEPT ![r] = AsProgress]
            /\ asMilestone' = [asMilestone EXCEPT ![r] = AsProgress]
            /\ AsMove(r, IF AsProgress = 0 THEN "idle" ELSE "fires")
            /\ UNCHANGED asSamples
    /\ UNCHANGED <<asPage, asBand, asRaced, asRestarts>>

\* The progress cannot be read; the milestone waits for the next flush.
AsReadFails(r) ==
    /\ asAt[r] = "flushed"
    /\ AsEnd(r)
    /\ UNCHANGED <<asPage, asBand, lastMilestoneFired, asRaced, asRestarts>>

-----------------------------------------------------------------------------
(* SelectSamples *)

AsCompleted == {p \in AsPages : asPage[p] = "completed"}
AsOf(band)  == {p \in AsPages : asBand[p] = band}

\* floor(0.15 * sqrt(n)), at least 1 and at most 15.
PerBand(n) ==
    IF n = 0 THEN 0
    ELSE Cardinality({k \in 1 .. 15 : k = 1 \/ 400 * k * k =< 9 * n})

\* The m least (or greatest) members of S, or all of S.
AsLeast(m, S)    == {p \in S : Cardinality({q \in S : q < p}) < m}
AsGreatest(m, S) == {p \in S : Cardinality({q \in S : q > p}) < m}

\* Mutant: the quota is spent again at every milestone.
AsNeededAnew(band) == PerBand(Cardinality(AsCompleted))

\* What is missing of a band's quota.  Rows tagged reconcile count for none.
AsNeeded(band) == PerBand(Cardinality(AsCompleted)) - Cardinality(AsOf(band))

SelectSamples ==
    LET candidates == AsCompleted \cap AsOf("none")
        fastest    == AsLeast(AsNeeded("fastest"), candidates)
    IN  [fastest |-> fastest,
         slowest |-> AsGreatest(AsNeeded("slowest"), candidates \ fastest)]

\* OnMilestone reads the completed tasks and the rows so far, and chooses.
AsSelect(r) ==
    /\ asAt[r] = "fires"
    /\ IF SelectSamples = AsNoSamples THEN AsEnd(r)
       ELSE /\ asSamples' = [asSamples EXCEPT ![r] = SelectSamples]
            /\ AsMove(r, "sampled")
            /\ UNCHANGED asMilestone
    /\ UNCHANGED <<asPage, asBand, lastMilestoneFired, asRaced, asRestarts>>

\* The rows of the samples: those that exist already are left alone.
AsInserted(r) ==
    [p \in AsPages |->
        IF asBand[p] # "none" \/ p \notin asSamples[r].fastest \cup asSamples[r].slowest
        THEN asBand[p]
        ELSE IF asMilestone[r] = 100 THEN "reconcile"
        ELSE IF p \in asSamples[r].fastest THEN "fastest" ELSE "slowest"]

\* OnMilestone inserts the rows and their outbox rows in one transaction.
AsInsert(r) ==
    /\ asAt[r] = "sampled"
    /\ asBand' = AsInserted(r)
    /\ asRaced' = (asRaced \/ \E q \in AsReplicas \ {r} : asAt[q] = "sampled")
    /\ AsEnd(r)
    /\ UNCHANGED <<asPage, lastMilestoneFired, asRestarts>>

\* A read or the transaction fails; the milestone counts as fired all the same.
AsSelectFails(r) ==
    /\ asAt[r] \in {"fires", "sampled"}
    /\ AsEnd(r)
    /\ UNCHANGED <<asPage, asBand, lastMilestoneFired, asRaced, asRestarts>>

\* The process restarts and remembers nothing.
AsRestart(r) ==
    /\ asRestarts < AsMaxRestarts
    /\ asRestarts' = asRestarts + 1
    /\ lastMilestoneFired' = [lastMilestoneFired EXCEPT ![r] = -1]
    /\ AsEnd(r)
    /\ UNCHANGED <<asPage, asBand, asRaced>>

\* clearMilestoneState, when a call in this process cancels or blocks the job: the
\* flush under way goes on.
AsForget(r) ==
    /\ asRestarts < AsMaxRestarts
    /\ asRestarts' = asRestarts + 1
    /\ lastMilestoneFired' = [lastMilestoneFired EXCEPT ![r] = -1]
    /\ UNCHANGED <<asPage, asBand, asAt, asMilestone, asSamples, asRaced>>

-----------------------------------------------------------------------------

SamplingNext ==
    \E r \in AsReplicas :
        \/ AsFlush(r) \/ MaybeFireMilestones(r) \/ AsReadFails(r)
        \/ AsSelect(r) \/ AsInsert(r) \/ AsSelectFails(r) \/ AsRestart(r) \/ AsForget(r)

SamplingSpec == SamplingInit /\ [][SamplingNext]_samplingVars

-----------------------------------------------------------------------------
(* Properties *)

\* Every variable of the sampling stays within its type.
SamplingTypeOK ==
    /\ asPage \in [AsPages -> {"open", "completed", "other"}]
    /\ asBand \in [AsPages -> {"none", "fastest", "slowest", "reconcile"}]
    /\ lastMilestoneFired \in [AsReplicas -> -1 .. 100]
    /\ asAt \in [AsReplicas -> {"idle", "flushed", "fires", "sampled"}]
    /\ asMilestone \in [AsReplicas -> 0 .. 100]
    /\ asSamples \in [AsReplicas -> [fastest : SUBSET AsPages, slowest : SUBSET AsPages]]
    /\ asRaced \in BOOLEAN /\ asRestarts \in 0 .. AsMaxRestarts

\* However often milestones fire, in several processes and again after a restart,
\* a band never has more rows than the completed pages call for, unless two
\* processes chose their samples at the same time.
BandQuotaKept ==
    ~asRaced => \A band \in {"fastest", "slowest"} :
                   Cardinality(AsOf(band)) =< PerBand(Cardinality(AsCompleted))
=============================================================================
