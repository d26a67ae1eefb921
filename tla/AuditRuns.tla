----------------------------- MODULE AuditRuns -----------------------------
(***************************************************************************)
(* The Lighthouse audits of one job: from the row in lighthouse_runs with  *)
(* its outbox row, through the worker's sweeper and dispatcher and the     *)
(* stream stream:{job}:lh, to the handlers of the analysis service that    *)
(* carry them out, in the presence of lost replies, crashes, memory that   *)
(* is short, and the end of the job.                                       *)
(*                                                                         *)
(* Which pages are sampled is in AuditSampling; here any page may be, at   *)
(* any time.  A stale delivery may be claimed at any time, whether its     *)
(* handler is gone or slow.                                                *)
(***************************************************************************)
EXTENDS Integers

CONSTANTS
    AuPages,      \* pages that are sampled
    AuHandlers,   \* goroutines of the analysis services
    AuMaxSends,   \* bound: messages of one audit
    AuMaxFaults   \* bound: failed or lost commands, crashes, audits put off

ASSUME AuAssumption == AuMaxSends \in Nat /\ AuMaxFaults \in Nat

VARIABLES
    auJob,      \* "running", "completed", "stopping" (cancelled or blocked), "stopped"
    auActive,   \* the job is in the list the worker's dispatcher goes through
    auRow,      \* per page: status in lighthouse_runs, "none" if there is no row
    auOutbox, auZset,    \* pages with an outbox row, with an entry in the job's ZSET
    auSent,     \* per page: messages published so far
    auStream, auPending, \* messages not read yet, delivered and not acknowledged
    auAt,       \* per handler: "idle", "marks", "audits"
    auMsg,      \* per handler: its message
    auFaults    \* faults so far (bound)

auBrokerVars  == <<auOutbox, auZset, auSent, auStream, auPending>>
auHandlerVars == <<auAt, auMsg>>
auditVars == <<auJob, auActive, auRow, auBrokerVars, auHandlerVars, auFaults>>

-----------------------------------------------------------------------------

AuMessages == [page : AuPages, n : 1 .. AuMaxSends]
AuNone == [page |-> "none", n |-> 0]

AuVerdicts == {"succeeded", "failed"}

AuOpen == {p \in AuPages : auRow[p] \in {"pending", "running"}}

AuPagesOf(M) == {m.page : m \in M}

AuditsInit ==
    /\ auJob = "running" /\ auActive = TRUE
    /\ auRow = [p \in AuPages |-> "none"]
    /\ auOutbox = {} /\ auZset = {} /\ auSent = [p \in AuPages |-> 0]
    /\ auStream = {} /\ auPending = {}
    /\ auAt = [h \in AuHandlers |-> "idle"] /\ auMsg = [h \in AuHandlers |-> AuNone]
    /\ auFaults = 0

AuFault == auFaults < AuMaxFaults /\ auFaults' = auFaults + 1

-----------------------------------------------------------------------------
(* The job *)

\* The trigger completes the job with its last task.
AuComplete ==
    /\ auJob = "running"
    /\ auJob' = "completed"
    /\ UNCHANGED <<auActive, auRow, auBrokerVars, auHandlerVars, auFaults>>

\* CancelJob or BlockJob commits: the job's outbox rows go, of audits as well.  A
\* CancelJob that read a running job may find it completed by then.
AuStop ==
    /\ auJob \in {"running", "completed"}
    /\ auJob' = "stopping"
    /\ auOutbox' = {}
    /\ UNCHANGED <<auActive, auRow, auZset, auSent, auStream, auPending, auHandlerVars, auFaults>>

\* OnJobTerminated: RemoveJobKeys deletes the ZSET, the streams and their groups.
AuRemoveJobKeys ==
    /\ auJob = "stopping"
    /\ auJob' = "stopped"
    /\ auZset' = {} /\ auStream' = {} /\ auPending' = {}
    /\ UNCHANGED <<auActive, auRow, auOutbox, auSent, auHandlerVars, auFaults>>

\* refreshActiveJobs: jobs that run, and for a while those whose running counter is
\* not 0 yet.
AuRefresh ==
    /\ auActive /\ auJob # "running"
    /\ auActive' = FALSE
    /\ UNCHANGED <<auJob, auRow, auBrokerVars, auHandlerVars, auFaults>>

-----------------------------------------------------------------------------
(* Scheduler.OnMilestone, sweeper and dispatcher *)

\* Rows and outbox rows in one transaction; a milestone may come after the end.
AuSchedule ==
    /\ \E S \in SUBSET {p \in AuPages : auRow[p] = "none"} :
          /\ S # {}
          /\ auRow' = [p \in AuPages |-> IF p \in S THEN "pending" ELSE auRow[p]]
          /\ auOutbox' = auOutbox \cup S
    /\ UNCHANGED <<auJob, auActive, auZset, auSent, auStream, auPending, auHandlerVars, auFaults>>

\* OutboxSweeper.Tick; when its commit fails the outbox row comes back.
AuSweep(p) ==
    /\ p \in auOutbox
    /\ auZset' = auZset \cup {p}
    /\ \/ auOutbox' = auOutbox \ {p} /\ UNCHANGED auFaults
       \/ AuFault /\ UNCHANGED auOutbox
    /\ UNCHANGED <<auJob, auActive, auRow, auSent, auStream, auPending, auHandlerVars>>

\* publishAndRemove, for jobs on the list only.
AuDispatch(p) ==
    /\ auActive /\ p \in auZset /\ auSent[p] < AuMaxSends
    /\ auSent' = [auSent EXCEPT ![p] = @ + 1]
    /\ auStream' = auStream \cup {[page |-> p, n |-> auSent'[p]]}
    /\ auZset' = auZset \ {p}
    /\ UNCHANGED <<auJob, auActive, auRow, auOutbox, auPending, auHandlerVars, auFaults>>

-----------------------------------------------------------------------------
(* The analysis service *)

AuHandle(h, at, m) ==
    auAt' = [auAt EXCEPT ![h] = at] /\ auMsg' = [auMsg EXCEPT ![h] = m]

\* Mutant: only audits that have not begun are looked for.
AuListedPending == \E p \in AuPages : auRow[p] = "pending"

\* activeJobIDs
AuListed == AuOpen # {}

\* consumeOne
AuConsume(h) ==
    /\ AuListed /\ auAt[h] = "idle"
    /\ \E m \in auStream :
          /\ auStream' = auStream \ {m}
          /\ auPending' = auPending \cup {m}
          /\ AuHandle(h, "marks", m)
    /\ UNCHANGED <<auJob, auActive, auRow, auOutbox, auZset, auSent, auFaults>>

\* reclaimStale
AuReclaim(h) ==
    /\ AuListed /\ auAt[h] = "idle"
    /\ \E m \in auPending : AuHandle(h, "marks", m)
    /\ UNCHANGED <<auJob, auActive, auRow, auBrokerVars, auFaults>>

\* Mutant: a run that was begun is not begun again.
AuMarkablePending(p) == auRow[p] = "pending"

\* The guard of MarkLighthouseRunRunning.
AuMarkable(p) == p \in AuOpen

AuAck(h) == auPending' = auPending \ {auMsg[h]}

\* processOne: the row is marked running; the delivery of a finished one is dropped.
AuMark(h) ==
    /\ auAt[h] = "marks"
    /\ IF AuMarkable(auMsg[h].page)
       THEN /\ auRow' = [auRow EXCEPT ![auMsg[h].page] = "running"]
            /\ AuHandle(h, "audits", auMsg[h])
            /\ UNCHANGED auPending
       ELSE AuAck(h) /\ AuHandle(h, "idle", AuNone) /\ UNCHANGED auRow
    /\ UNCHANGED <<auJob, auActive, auOutbox, auZset, auSent, auStream, auFaults>>

\* A handler ends without a verdict: the mark failed, memory is short, or the
\* process shuts down.  The message stays.
AuPutOff(h) ==
    /\ auAt[h] # "idle" /\ AuFault
    /\ AuHandle(h, "idle", AuNone)
    /\ UNCHANGED <<auJob, auActive, auRow, auBrokerVars>>

\* Mutant: a verdict is written whatever the row says.
AuWrittenAlways(p, verdict) == [auRow EXCEPT ![p] = verdict]

\* CompleteLighthouseRun and FailLighthouseRun: only over a running row.
AuWritten(p, verdict) ==
    IF auRow[p] = "running" THEN [auRow EXCEPT ![p] = verdict] ELSE auRow

\* The audit ends, well or badly: the verdict is written and the message
\* acknowledged, unless another handler was first.
AuFinish(h) ==
    /\ auAt[h] = "audits"
    /\ \E verdict \in AuVerdicts : auRow' = AuWritten(auMsg[h].page, verdict)
    /\ IF auRow[auMsg[h].page] = "running" THEN AuAck(h) ELSE UNCHANGED auPending
    /\ AuHandle(h, "idle", AuNone)
    /\ UNCHANGED <<auJob, auActive, auOutbox, auZset, auSent, auStream, auFaults>>

\* The write fails, or it or the XACK is carried out and its reply is lost, or the
\* process dies before the XACK.
AuFinishFails(h) ==
    /\ auAt[h] = "audits" /\ AuFault
    /\ \/ UNCHANGED auRow
       \/ \E verdict \in AuVerdicts : auRow' = AuWritten(auMsg[h].page, verdict)
    /\ AuHandle(h, "idle", AuNone)
    /\ UNCHANGED <<auJob, auActive, auBrokerVars>>

\* All handlers die with their process.
AuCrash ==
    /\ AuFault /\ \E h \in AuHandlers : auAt[h] # "idle"
    /\ auAt' = [h \in AuHandlers |-> "idle"] /\ auMsg' = [h \in AuHandlers |-> AuNone]
    /\ UNCHANGED <<auJob, auActive, auRow, auBrokerVars>>

-----------------------------------------------------------------------------

AuHandlerStep(h) == AuMark(h) \/ AuFinish(h)

AuSomeConsume == \E h \in AuHandlers : AuConsume(h)
AuSomeReclaim == \E h \in AuHandlers : AuReclaim(h)

AuditsNext ==
    \/ AuComplete \/ AuStop \/ AuRemoveJobKeys \/ AuRefresh \/ AuSchedule
    \/ \E p \in AuPages : AuSweep(p) \/ AuDispatch(p)
    \/ \E h \in AuHandlers : \/ AuConsume(h) \/ AuReclaim(h) \/ AuHandlerStep(h)
                             \/ AuPutOff(h) \/ AuFinishFails(h)
    \/ AuCrash

AuditsSpec == AuditsInit /\ [][AuditsNext]_auditVars

\* The sweeper, the dispatcher and the poll and reclaim tickers run for ever, and
\* an audit ends or is cut off by its timeout.
AuditsFairSpec ==
    /\ AuditsSpec
    /\ \A p \in AuPages : WF_auditVars(AuSweep(p)) /\ WF_auditVars(AuDispatch(p))
    /\ WF_auditVars(AuRefresh) /\ WF_auditVars(AuSomeConsume) /\ WF_auditVars(AuSomeReclaim)
    /\ \A h \in AuHandlers : WF_auditVars(AuHandlerStep(h))

-----------------------------------------------------------------------------
(* Properties *)

\* Every variable of the audits stays within its type.
AuditsTypeOK ==
    /\ auJob \in {"running", "completed", "stopping", "stopped"} /\ auActive \in BOOLEAN
    /\ auRow \in [AuPages -> {"none", "pending", "running"} \cup AuVerdicts]
    /\ auOutbox \subseteq AuPages /\ auZset \subseteq AuPages
    /\ auSent \in [AuPages -> 0 .. AuMaxSends]
    /\ auStream \subseteq AuMessages /\ auPending \subseteq AuMessages
    /\ auAt \in [AuHandlers -> {"idle", "marks", "audits"}]
    /\ auMsg \in [AuHandlers -> AuMessages \cup {AuNone}]
    /\ auFaults \in 0 .. AuMaxFaults

\* Through sheds, shutdowns, lost replies and reclaims while a first handler still
\* works: an audit without a verdict is somewhere it can be taken up again, unless
\* its job was stopped and its keys removed.
AuditNotLost ==
    auJob \in {"running", "completed"} =>
        AuOpen \subseteq auOutbox \cup auZset \cup AuPagesOf(auStream \cup auPending)

\* Two handlers may audit the same page: the first verdict stays.
VerdictFinal == [][\A p \in AuPages : auRow[p] \in AuVerdicts => auRow'[p] = auRow[p]]_auditVars

\* Audits without a verdict that have come as far as the stream.
AuUnderWay == AuOpen \cap AuPagesOf(auStream \cup auPending)

\* An audit that has come as far as the stream gets its verdict, whoever has to
\* take it up again, or its job is stopped and takes it along.
AuditSettles == AuUnderWay # {} ~> AuUnderWay = {}

\* scheduler.go:33-35: the pass at job completion catches up on what was missed.
\* Every audit of a job that was not stopped gets its verdict.
AuditsCarriedOut ==
    \A p \in AuPages : p \in AuOpen ~> p \notin AuOpen \/ auJob \in {"stopping", "stopped"}
=============================================================================
