----------------------------- MODULE WafBreaker -----------------------------
(***************************************************************************)
(* The WAF circuit breaker of one job in the memory of a worker process:   *)
(* it counts responses in a row that carry the marks of a web application  *)
(* firewall, and at the threshold starts a goroutine that calls BlockJob.  *)
(*                                                                         *)
(* BlockJob is three steps here, the read of the job, the transaction, and *)
(* OnJobTerminated; JobRecords has its statements.                         *)
(***************************************************************************)
EXTENDS Integers, FiniteSets

CONSTANTS
    WbThreshold,
    WbCalls,         \* goroutines that call BlockJob
    WbMaxOutcomes,   \* bound: observed outcomes
    WbMaxFaults      \* bound: failed transactions, restarts

ASSUME WbAssumption ==
    WbThreshold \in Nat \ {0} /\ WbMaxOutcomes \in Nat /\ WbMaxFaults \in Nat

VARIABLES
    wbJob,       \* "running" (or any status that can be blocked), "blocked", "ended"
    wbCount, wbTripped,   \* the breaker's entries of the job
    wbAt,        \* per call: "idle", "reads", "writes", "forgets", "rearms"
    wbLost,      \* history: BlockJob lost against its own transaction (JobRecords)
    wbOutcomes, wbFaults  \* so far (bounds)

wbMemory == <<wbCount, wbTripped>>
breakerVars == <<wbJob, wbMemory, wbAt, wbLost, wbOutcomes, wbFaults>>

-----------------------------------------------------------------------------

BreakerInit ==
    /\ wbJob = "running"
    /\ wbCount = 0 /\ wbTripped = FALSE
    /\ wbAt = [c \in WbCalls |-> "idle"]
    /\ wbLost = FALSE /\ wbOutcomes = 0 /\ wbFaults = 0

WbFault == wbFaults < WbMaxFaults /\ wbFaults' = wbFaults + 1

WbMove(c, to) == wbAt' = [wbAt EXCEPT ![c] = to]

-----------------------------------------------------------------------------
(* Observe, called with the outcome of every task *)

WbObserved == wbOutcomes < WbMaxOutcomes /\ wbOutcomes' = wbOutcomes + 1

\* Tripped already: nothing counts.  A response that is not blocked starts over.
WbObserve(blocked) ==
    /\ WbObserved
    /\ wbTripped \/ ~blocked \/ wbCount + 1 < WbThreshold
    /\ wbCount' = IF wbTripped THEN wbCount ELSE IF blocked THEN wbCount + 1 ELSE 0
    /\ UNCHANGED <<wbJob, wbTripped, wbAt, wbLost, wbFaults>>

\* The threshold is reached: a goroutine calls BlockJob.
WbTrip(c) ==
    /\ WbObserved
    /\ ~wbTripped /\ wbCount + 1 >= WbThreshold /\ wbAt[c] = "idle"
    /\ wbTripped' = TRUE /\ wbCount' = 0
    /\ WbMove(c, "reads")
    /\ UNCHANGED <<wbJob, wbLost, wbFaults>>

-----------------------------------------------------------------------------
(* BlockJob *)

\* A job blocked already is no error, one that ended otherwise is; so is a read
\* that fails.
WbRead(c) ==
    /\ wbAt[c] = "reads"
    /\ \/ WbMove(c, CASE wbJob = "running" -> "writes"
                      [] wbJob = "blocked" -> "idle"
                      [] wbJob = "ended"   -> "rearms") /\ UNCHANGED wbFaults
       \/ WbMove(c, "rearms") /\ WbFault
    /\ UNCHANGED <<wbJob, wbMemory, wbLost, wbOutcomes>>

WbWrite(c) ==
    /\ wbAt[c] = "writes" /\ wbJob = "running"
    /\ wbJob' = "blocked"
    /\ WbMove(c, "forgets")
    /\ UNCHANGED <<wbMemory, wbLost, wbOutcomes, wbFaults>>

\* The guarded UPDATE matches no row, which counts as done: the job is terminal by
\* now, or the transaction's own first statement completed it and is rolled back.
WbWriteLost(c) ==
    /\ wbAt[c] = "writes"
    /\ WbMove(c, "idle")
    /\ wbLost' = (wbLost \/ wbJob = "running")
    /\ UNCHANGED <<wbJob, wbMemory, wbOutcomes, wbFaults>>

WbWriteFails(c) ==
    /\ wbAt[c] = "writes" /\ WbFault
    /\ WbMove(c, "rearms")
    /\ UNCHANGED <<wbJob, wbMemory, wbLost, wbOutcomes>>

\* The COMMIT is carried out and its reply lost: tried again, the UPDATE matches
\* no row, and OnJobTerminated is never called.
WbWriteInDoubt(c) ==
    /\ wbAt[c] = "writes" /\ wbJob = "running" /\ WbFault
    /\ wbJob' = "blocked"
    /\ WbMove(c, "idle")
    /\ UNCHANGED <<wbMemory, wbLost, wbOutcomes>>

\* OnJobTerminated: Forget.
WbForget(c) ==
    /\ wbAt[c] = "forgets"
    /\ wbCount' = 0 /\ wbTripped' = FALSE
    /\ WbMove(c, "idle")
    /\ UNCHANGED <<wbJob, wbLost, wbOutcomes, wbFaults>>

\* Mutant: the streak is restored and the flag is not.
RearmedCountOnly == wbTripped

\* Rearm clears the flag ...
Rearmed == FALSE

\* ... and one blocked response trips it again.
WbRearm(c) ==
    /\ wbAt[c] = "rearms"
    /\ wbCount' = WbThreshold - 1 /\ wbTripped' = Rearmed
    /\ WbMove(c, "idle")
    /\ UNCHANGED <<wbJob, wbLost, wbOutcomes, wbFaults>>

-----------------------------------------------------------------------------

\* The job completes, or is cancelled by the API server, whose Forget is not ours.
WbJobEnds ==
    /\ wbJob = "running" /\ wbJob' = "ended"
    /\ UNCHANGED <<wbMemory, wbAt, wbLost, wbOutcomes, wbFaults>>

\* The process restarts with an empty breaker.
WbRestart ==
    /\ WbFault
    /\ wbCount' = 0 /\ wbTripped' = FALSE
    /\ wbAt' = [c \in WbCalls |-> "idle"]
    /\ wbLost' = FALSE
    /\ UNCHANGED <<wbJob, wbOutcomes>>

WbCallStep(c) == \/ WbRead(c) \/ WbWrite(c) \/ WbWriteLost(c) \/ WbWriteFails(c)
                 \/ WbWriteInDoubt(c) \/ WbForget(c) \/ WbRearm(c)

BreakerNext ==
    \/ \E blocked \in BOOLEAN : WbObserve(blocked)
    \/ \E c \in WbCalls : WbTrip(c) \/ WbCallStep(c)
    \/ WbJobEnds \/ WbRestart

BreakerSpec == BreakerInit /\ [][BreakerNext]_breakerVars

-----------------------------------------------------------------------------
(* Properties *)

\* Every variable of the breaker stays within its type.
BreakerTypeOK ==
    /\ wbJob \in {"running", "blocked", "ended"}
    /\ wbCount \in 0 .. WbThreshold /\ wbTripped \in BOOLEAN
    /\ wbAt \in [WbCalls -> {"idle", "reads", "writes", "forgets", "rearms"}]
    /\ wbLost \in BOOLEAN
    /\ wbOutcomes \in 0 .. WbMaxOutcomes /\ wbFaults \in 0 .. WbMaxFaults

\* The breaker of a job that runs is tripped exactly while one call of BlockJob is
\* under way: it neither fires twice nor stays dead when a call failed.  A call that
\* lost against its own transaction does leave it dead.
BreakerAlive ==
    wbJob = "running" /\ ~wbLost =>
        Cardinality({c \in WbCalls : wbAt[c] # "idle"}) = (IF wbTripped THEN 1 ELSE 0)
=============================================================================
