---------------------------- MODULE TaskDelivery ----------------------------
(***************************************************************************)
(* The path of a crawl task from its Postgres row to its final status, for *)
(* one job that stays active:                                              *)
(*                                                                         *)
(*   EnqueueURLs -> task_outbox -> Sweeper -> Redis ZSET -> Dispatcher     *)
(*     -> Redis Stream -> StreamWorkerPool -> BatchManager -> tasks row    *)
(*                                                                         *)
(* Three stores with different durability take part.  Postgres (row,       *)
(* rowRetry, outbox, attempts, outRetry, dead) survives every fault; Redis *)
(* (zset, stream, pel, deliveries, group) survives a worker crash; the     *)
(* worker's memory (handler state, batch, unscheduled, groupKnown) does    *)
(* not.                                                                    *)
(*                                                                         *)
(* Left out here: the job's own status and counters (JobRecords), the      *)
(* overflow map and the failing flushes of the batch manager, pacing and   *)
(* the concurrency gate, which only delay a dispatch.                      *)
(***************************************************************************)
EXTENDS Integers, Sequences, FiniteSets

CONSTANTS
    Tasks,              \* the (job_id, page_id) pairs of the job
    Handlers,           \* goroutines running processMessage or the reclaim loop
    NoMsg, NoUpdate,    \* the message of an idle handler, its pending update
    MaxBlockingRetries, \* ExecutorConfig.MaxBlockingRetries (3)
    MaxTaskRetries,     \* ExecutorConfig.MaxTaskRetries (5)
    MaxAttempts,        \* SweeperOptions.MaxAttempts (10)
    MaxDeliveries,      \* ConsumerOpts.MaxDeliveries (3)
    DirectSchedule,     \* is JobManager.OnTasksEnqueued set (REDIS_URL given)?
    SlowHandlers,       \* may a handler outlive ConsumerOpts.MinIdleTime?
    FaultKinds,         \* the faults that may happen: see Fault
    Copies,             \* bound: simultaneous stream copies of one entry
    MaxBuffer,          \* bound: updates waiting in the batch manager
    MaxEnqueues,        \* bound: EnqueueURLs calls that name a task
    MaxFaults           \* bound: faults in a behaviour

ASSUME LimitsAssumption ==
    /\ MaxBlockingRetries \in Nat /\ MaxTaskRetries \in Nat
    /\ MaxBlockingRetries =< MaxTaskRetries
    /\ MaxAttempts \in Nat \ {0} /\ MaxDeliveries \in Nat \ {0}
    /\ SlowHandlers \in BOOLEAN /\ DirectSchedule \in BOOLEAN

ASSUME BoundsAssumption ==
    /\ Copies \in Nat \ {0} /\ MaxBuffer \in Nat \ {0}
    /\ MaxEnqueues \in Nat \ {0} /\ MaxFaults \in Nat

Retries  == 0 .. MaxTaskRetries
Entries  == Tasks \X Retries                 \* a ZSET member: task and retry_count
Messages == Tasks \X Retries \X (1 .. Copies)

Terminal  == {"completed", "failed"}
OpenState == {"pending", "waiting"}
Updates   == [task : Tasks, status : Terminal \cup {"waiting"}, retry : Retries]

ASSUME NoneAssumption == NoMsg \notin Messages /\ NoUpdate \notin Updates
ASSUME HandlersAssumption == Handlers # {}
ASSUME TasksAssumption == IsFiniteSet(Tasks)

VARIABLES
    row,         \* tasks.status; "absent" before the row is inserted
    rowRetry,    \* tasks.retry_count
    outbox,      \* the tasks with a task_outbox row
    attempts,    \* task_outbox.attempts
    outRetry,    \* task_outbox.retry_count
    dead,        \* the tasks with a task_outbox_dead row
    zset,        \* the schedule ZSET of the job
    stream,      \* stream messages not yet delivered to the group
    pel,         \* the group's pending entries list
    deliveries,  \* delivery count of the messages in the PEL
    group,       \* does the consumer group exist in Redis?
    groupKnown,  \* Dispatcher.groupEnsured
    unscheduled, \* tasks a caller of EnqueueJobURLs still has to ZADD
    hpc,         \* a handler: "idle", "run", "acked", "promoted"
    hmsg,        \* the message it handles
    hout,        \* the update it will queue once its message is acknowledged
    batch,       \* BatchManager.updates and the slice it accumulates
    enqueues,    \* EnqueueURLs calls per task (bound)
    faults,      \* faults so far (bound)
    lost,        \* history: tasks that a fault took a copy of
    overtaken    \* history: tasks a retry update of which overtook the result

pgVars     == <<row, rowRetry, outbox, attempts, outRetry, dead>>
redisVars  == <<zset, stream, pel, deliveries, group>>
memVars    == <<hpc, hmsg, hout, batch, unscheduled, groupKnown>>
ghostVars  == <<lost, overtaken>>
vars == <<pgVars, redisVars, memVars, enqueues, faults, ghostVars>>

-----------------------------------------------------------------------------
(* Helpers *)

TaskOf(m)  == m[1]
RetryOf(m) == m[2]

\* Mutant: one attempt too many.
CanRetryInclusive(r) == r =< MaxBlockingRetries \/ r =< MaxTaskRetries

\* Only the error's class and the attempt count decide: both are below the
\* larger limit, and a non-retryable error fails at once.
CanRetry(r) == r < MaxBlockingRetries \/ r < MaxTaskRetries

\* The updates TaskExecutor may produce for a message.
Outcomes(m) ==
    {[task |-> TaskOf(m), status |-> s, retry |-> RetryOf(m)] : s \in Terminal}
    \cup {[task |-> TaskOf(m), status |-> "waiting", retry |-> RetryOf(m) + 1] :
            x \in IF CanRetry(RetryOf(m)) THEN {1} ELSE {}}

Idle(h)     == hpc[h] = "idle"
InUse(m)    == m \in stream \cup pel \/ \E h \in Handlers : hmsg[h] = m
Running(m)  == \E h \in Handlers : hpc[h] = "run" /\ hmsg[h] = m

Init ==
    /\ row = [t \in Tasks |-> "absent"]
    /\ rowRetry = [t \in Tasks |-> 0]
    /\ outbox = {} /\ dead = {}
    /\ attempts = [t \in Tasks |-> 0]
    /\ outRetry = [t \in Tasks |-> 0]
    /\ zset = {} /\ stream = {} /\ pel = {}
    /\ deliveries = [m \in Messages |-> 0]
    /\ group = FALSE /\ groupKnown = FALSE
    /\ unscheduled = {}
    /\ hpc = [h \in Handlers |-> "idle"]
    /\ hmsg = [h \in Handlers |-> NoMsg]
    /\ hout = [h \in Handlers |-> NoUpdate]
    /\ batch = <<>>
    /\ enqueues = [t \in Tasks |-> 0]
    /\ faults = 0
    /\ lost = {} /\ overtaken = {}

-----------------------------------------------------------------------------
(* Enqueueing: internal/jobs/manager.go, internal/db/queue.go *)

\* Mutant: rows that start as waiting are not.
MirroredPending(s) == s = "pending"

\* The rows the INSERT mirrors into task_outbox.
Mirrored(s) == s \in OpenState

(***************************************************************************)
(* EnqueueURLs, one transaction: rows that do not exist are inserted, rows *)
(* still pending or waiting are reset, others are left alone (ON CONFLICT  *)
(* ... WHERE status IN ...).  Every row written gets an outbox row unless  *)
(* it has one.  Which rows are pending and which waiting depends on the    *)
(* job's free slots, see JobRecords.                                       *)
(***************************************************************************)
EnqueueURLs(S) ==
    LET written == {t \in S : row[t] \in {"absent"} \cup OpenState}
    IN  /\ S # {}
        /\ \A t \in S : enqueues[t] < MaxEnqueues
        /\ enqueues' = [t \in Tasks |-> IF t \in S THEN enqueues[t] + 1 ELSE enqueues[t]]
        /\ \E status \in [written -> OpenState] :
              LET added == {t \in written \ outbox : Mirrored(status[t])}
              IN  /\ row' = [t \in Tasks |-> IF t \in written THEN status[t] ELSE row[t]]
                  /\ outbox' = outbox \cup added
                  /\ outRetry' = [t \in Tasks |-> IF t \in added THEN 0 ELSE outRetry[t]]
        /\ rowRetry' = [t \in Tasks |-> IF t \in written THEN 0 ELSE rowRetry[t]]
        /\ unscheduled' = IF DirectSchedule THEN unscheduled \cup S ELSE unscheduled
        /\ UNCHANGED <<attempts, dead, redisVars, hpc, hmsg, hout, batch,
                       groupKnown, faults, ghostVars>>

(***************************************************************************)
(* scheduleEnqueuedTasks: after the commit the caller reads the rows back  *)
(* and ZADDs the open ones, with the outbox rows still in place.           *)
(***************************************************************************)
ScheduleEnqueuedTasks(t) ==
    /\ t \in unscheduled
    /\ unscheduled' = unscheduled \ {t}
    /\ zset' = IF row[t] \in OpenState THEN zset \cup {<<t, rowRetry[t]>>} ELSE zset
    /\ UNCHANGED <<pgVars, stream, pel, deliveries, group, hpc, hmsg, hout,
                   batch, groupKnown, enqueues, faults, ghostVars>>

\* The ZADD or the read fails; the outbox row is what remains.
ScheduleEnqueuedFails(t) ==
    /\ t \in unscheduled
    /\ unscheduled' = unscheduled \ {t}
    /\ UNCHANGED <<pgVars, redisVars, hpc, hmsg, hout, batch, groupKnown,
                   enqueues, faults, ghostVars>>

-----------------------------------------------------------------------------
(* The outbox sweeper: internal/broker/outbox.go *)

OutboxEntries(S) == {<<t, outRetry[t]>> : t \in S}

(***************************************************************************)
(* One Tick that commits.  S is claimed; the ZADDs of `applied` reach the  *)
(* ZSET; the rows of `acked` are reported as scheduled and deleted.  With  *)
(* no error all three are equal, a *BatchError reports exactly the failed  *)
(* ones (acked = applied), a failed pipeline reports none.  The others get *)
(* one more attempt or, at MaxAttempts, a dead-letter row.                 *)
(***************************************************************************)
SweeperTick(S, applied, acked) ==
    LET failed == S \ acked
        toDead == {t \in failed : attempts[t] + 1 >= MaxAttempts}
        kept   == failed \ toDead
    IN  /\ S # {} /\ S \subseteq outbox
        /\ applied \subseteq S /\ acked \in {applied, {}}
        /\ zset' = zset \cup OutboxEntries(applied)
        /\ outbox' = outbox \ (acked \cup toDead)
        /\ dead' = dead \cup toDead
        /\ attempts' = [t \in Tasks |-> IF t \in kept THEN attempts[t] + 1
                                        ELSE IF t \in S THEN 0 ELSE attempts[t]]
        /\ outRetry' = [t \in Tasks |-> IF t \in acked \cup toDead THEN 0 ELSE outRetry[t]]
        /\ UNCHANGED <<row, rowRetry, stream, pel, deliveries, group, memVars,
                       enqueues, faults, ghostVars>>

\* The ZADDs are applied and the transaction does not commit: every claimed row
\* stays, and will be scheduled again.
SweeperCommitFails(S) ==
    /\ S # {} /\ S \subseteq outbox
    /\ "commit" \in FaultKinds /\ faults < MaxFaults
    /\ faults' = faults + 1
    /\ zset' = zset \cup OutboxEntries(S)
    /\ UNCHANGED <<pgVars, stream, pel, deliveries, group, memVars, enqueues, ghostVars>>

-----------------------------------------------------------------------------
(* The dispatcher: internal/broker/dispatcher.go *)

\* Mutant: the group is taken to exist.
GroupAssumed == group

\* Does the group exist once ensureConsumerGroup returned?
GroupEnsured == group \/ ~groupKnown

\* ensureConsumerGroup creates the group at the start of the stream and never
\* looks again; publishAndRemove is one MULTI of XADD and ZREM.
DispatchJob(e) ==
    /\ e \in zset
    /\ \E c \in 1 .. Copies :
          /\ ~InUse(<<e[1], e[2], c>>)
          /\ \A d \in 1 .. (c - 1) : InUse(<<e[1], e[2], d>>)
          /\ stream' = stream \cup {<<e[1], e[2], c>>}
    /\ zset' = zset \ {e}
    /\ group' = GroupEnsured
    /\ groupKnown' = TRUE
    /\ UNCHANGED <<pgVars, pel, deliveries, hpc, hmsg, hout, batch, unscheduled,
                   enqueues, faults, ghostVars>>

-----------------------------------------------------------------------------
(* The stream workers: internal/jobs/stream_worker.go, internal/broker/consumer.go *)

\* XREADGROUP ">" by a worker, and the goroutine it starts for the message.
ReadNonBlocking(m, h) ==
    /\ m \in stream /\ group /\ Idle(h)
    /\ stream' = stream \ {m}
    /\ pel' = pel \cup {m}
    /\ deliveries' = [deliveries EXCEPT ![m] = 1]
    /\ hpc' = [hpc EXCEPT ![h] = "run"]
    /\ hmsg' = [hmsg EXCEPT ![h] = m]
    /\ UNCHANGED <<pgVars, zset, group, hout, batch, unscheduled, groupKnown,
                   enqueues, faults, ghostVars>>

\* processMessage returns before the acknowledgement: buildTask failed, or the
\* XACK or the MULTI of ScheduleAndAck did.  The message stays in the PEL.
ProcessFails(h) ==
    /\ hpc[h] = "run"
    /\ hpc' = [hpc EXCEPT ![h] = "idle"]
    /\ hmsg' = [hmsg EXCEPT ![h] = NoMsg]
    /\ UNCHANGED <<pgVars, redisVars, hout, batch, unscheduled, groupKnown,
                   enqueues, faults, ghostVars>>

\* What XACK of m leaves of the PEL; it succeeds on a message already gone.
XAck(m) ==
    /\ pel' = pel \ {m}
    /\ deliveries' = [deliveries EXCEPT ![m] = 0]

\* Mutant: a retry is acknowledged, and left to its row alone.
RescheduledNever(u) == {}

\* What ScheduleAndAck puts in the ZSET for an outcome.
Rescheduled(u) == IF u.status = "waiting" THEN {<<u.task, u.retry>>} ELSE {}

\* handleOutcome up to the acknowledgement: a retry is put in the ZSET by the
\* same MULTI (ScheduleAndAck), a final outcome is only acknowledged.
HandleOutcome(h, u) ==
    /\ hpc[h] = "run" /\ u \in Outcomes(hmsg[h])
    /\ XAck(hmsg[h])
    /\ zset' = zset \cup Rescheduled(u)
    /\ hpc' = [hpc EXCEPT ![h] = "acked"]
    /\ hmsg' = [hmsg EXCEPT ![h] = NoMsg]
    /\ hout' = [hout EXCEPT ![h] = u]
    /\ UNCHANGED <<pgVars, stream, group, batch, unscheduled, groupKnown,
                   enqueues, faults, ghostVars>>

\* The acknowledgement is applied but its reply is lost: handleOutcome returns
\* as if it had failed, and the outcome is dropped.
AckReplyLost(h, u) ==
    /\ hpc[h] = "run" /\ u \in Outcomes(hmsg[h])
    /\ "ackreply" \in FaultKinds /\ faults < MaxFaults
    /\ faults' = faults + 1
    /\ XAck(hmsg[h])
    /\ zset' = zset \cup Rescheduled(u)
    /\ lost' = IF u.status = "waiting" THEN lost ELSE lost \cup {u.task}
    /\ hpc' = [hpc EXCEPT ![h] = "idle"]
    /\ hmsg' = [hmsg EXCEPT ![h] = NoMsg]
    /\ UNCHANGED <<pgVars, stream, group, hout, batch, unscheduled, groupKnown,
                   enqueues, overtaken>>

\* Mutant: without the filter on the status.
PromotableAny(t) == row[t] # "absent"

\* The rows promote_waiting_with_outbox picks from.
Promotable(t) == row[t] = "waiting"

(***************************************************************************)
(* After a successful Decrement, PromoteWaitingToPending(job, 1) turns one *)
(* waiting row of the job, any row, into a pending one with an outbox row. *)
(* Which row comes first is a matter of priorities.                        *)
(***************************************************************************)
PromoteWaitingToPending(h, t) ==
    /\ hpc[h] = "acked" /\ Promotable(t)
    /\ row' = [row EXCEPT ![t] = "pending"]
    /\ outbox' = outbox \cup {t}
    /\ outRetry' = [outRetry EXCEPT ![t] = IF t \in outbox THEN @ ELSE rowRetry[t]]
    /\ hpc' = [hpc EXCEPT ![h] = "promoted"]
    /\ UNCHANGED <<rowRetry, attempts, dead, redisVars, hmsg, hout, batch,
                   unscheduled, groupKnown, enqueues, faults, ghostVars>>

\* No row is waiting, or Decrement or the promotion failed.
PromoteNothing(h) ==
    /\ hpc[h] = "acked"
    /\ hpc' = [hpc EXCEPT ![h] = "promoted"]
    /\ UNCHANGED <<pgVars, redisVars, hmsg, hout, batch, unscheduled, groupKnown,
                   enqueues, faults, ghostVars>>

\* The end of handleOutcome: the row update joins the batch manager's channel.
QueueTaskUpdate(h) ==
    /\ hpc[h] = "promoted" /\ Len(batch) < MaxBuffer
    /\ batch' = Append(batch, hout[h])
    /\ hpc' = [hpc EXCEPT ![h] = "idle"]
    /\ hout' = [hout EXCEPT ![h] = NoUpdate]
    /\ UNCHANGED <<pgVars, redisVars, hmsg, unscheduled, groupKnown, enqueues,
                   faults, ghostVars>>

(***************************************************************************)
(* ReclaimStale: XAUTOCLAIM counts one more delivery of an idle message,   *)
(* and the message is processed again or, at MaxDeliveries, dead-lettered. *)
(***************************************************************************)
Stale(m) == m \in pel /\ (SlowHandlers \/ ~Running(m))

\* classifyBatch: is the claim that is being made its last delivery?
LastDelivery(m) == deliveries[m] + 1 >= MaxDeliveries

Reclaim(m, h) ==
    /\ Stale(m) /\ Idle(h) /\ ~LastDelivery(m)
    /\ deliveries' = [deliveries EXCEPT ![m] = @ + 1]
    /\ hpc' = [hpc EXCEPT ![h] = "run"]
    /\ hmsg' = [hmsg EXCEPT ![h] = m]
    /\ UNCHANGED <<pgVars, zset, stream, pel, group, hout, batch, unscheduled,
                   groupKnown, enqueues, faults, ghostVars>>

\* classifyBatch could not read the delivery counts: the claim counted, and
\* ReclaimStale hands the message to nobody.  (Past MaxDeliveries a count says no
\* more than at it, so there the step would change nothing.)
ReclaimUnclassified(m) ==
    /\ Stale(m) /\ ~LastDelivery(m)
    /\ deliveries' = [deliveries EXCEPT ![m] = @ + 1]
    /\ UNCHANGED <<pgVars, zset, stream, pel, group, memVars, enqueues, faults, ghostVars>>

\* reclaimStaleMessages on a message of its last delivery: acknowledged, then
\* queued as failed.  No row is promoted.
DeadLetter(m, h) ==
    /\ Stale(m) /\ Idle(h) /\ LastDelivery(m)
    /\ XAck(m)
    /\ hpc' = [hpc EXCEPT ![h] = "promoted"]
    /\ hout' = [hout EXCEPT ![h] = [task |-> TaskOf(m), status |-> "failed",
                                    retry |-> RetryOf(m)]]
    /\ UNCHANGED <<pgVars, zset, stream, group, hmsg, batch, unscheduled,
                   groupKnown, enqueues, faults, ghostVars>>

-----------------------------------------------------------------------------
(* The batch manager: internal/db/batch.go *)

Flushed(n)         == {batch[i] : i \in 1 .. n}
FlushedAs(n, t, s) == \E u \in Flushed(n) : u.task = t /\ u.status = s

\* The status t has once the groups were applied in their order in the code:
\* completed, failed, waiting.  No UPDATE looks at the status it replaces.
FlushStatus(n, t) ==
    IF FlushedAs(n, t, "waiting") THEN "waiting"
    ELSE IF FlushedAs(n, t, "failed") THEN "failed"
    ELSE IF FlushedAs(n, t, "completed") THEN "completed"
    ELSE row[t]

\* A flush of the n updates accumulated so far, in one transaction.  Among
\* several updates of a task in one group UPDATE ... FROM unnest takes any.
FlushTaskUpdates(n) ==
    /\ n \in 1 .. Len(batch)
    /\ row' = [t \in Tasks |-> FlushStatus(n, t)]
    /\ \E rc \in [Tasks -> Retries] :
          /\ \A t \in Tasks :
                IF \E u \in Flushed(n) : u.task = t
                THEN \E u \in Flushed(n) :
                        u.task = t /\ u.status = FlushStatus(n, t) /\ rc[t] = u.retry
                ELSE rc[t] = rowRetry[t]
          /\ rowRetry' = rc
    /\ overtaken' = overtaken \cup
          {t \in Tasks : /\ FlushedAs(n, t, "waiting")
                         /\ \/ row[t] \in Terminal
                            \/ \E s \in Terminal : FlushedAs(n, t, s)}
    /\ batch' = SubSeq(batch, n + 1, Len(batch))
    /\ UNCHANGED <<outbox, attempts, outRetry, dead, redisVars, hpc, hmsg, hout,
                   unscheduled, groupKnown, enqueues, faults, lost>>

-----------------------------------------------------------------------------
(* Faults *)

\* The tasks whose result is only in the memory of the worker.
InMemory == {batch[i].task : i \in DOMAIN batch}
            \cup {hout[h].task : h \in {g \in Handlers : hpc[g] \in {"acked", "promoted"}}}

\* The worker process dies and starts again.
WorkerCrash ==
    /\ "crash" \in FaultKinds /\ faults < MaxFaults
    /\ faults' = faults + 1
    /\ hpc' = [h \in Handlers |-> "idle"]
    /\ hmsg' = [h \in Handlers |-> NoMsg]
    /\ hout' = [h \in Handlers |-> NoUpdate]
    /\ batch' = <<>>
    /\ unscheduled' = {}
    /\ groupKnown' = FALSE
    /\ lost' = lost \cup InMemory
    /\ UNCHANGED <<pgVars, redisVars, enqueues, overtaken>>

InRedis == {e[1] : e \in zset} \cup {m[1] : m \in stream \cup pel}

\* Redis comes back empty while the worker runs on.
RedisLoss ==
    /\ "redis" \in FaultKinds /\ faults < MaxFaults
    /\ faults' = faults + 1
    /\ zset' = {} /\ stream' = {} /\ pel' = {}
    /\ deliveries' = [m \in Messages |-> 0]
    /\ group' = FALSE
    /\ lost' = lost \cup InRedis
    /\ UNCHANGED <<pgVars, memVars, enqueues, overtaken>>

-----------------------------------------------------------------------------

Enqueue    == \/ \E S \in SUBSET Tasks : EnqueueURLs(S)
              \/ \E t \in Tasks : ScheduleEnqueuedTasks(t) \/ ScheduleEnqueuedFails(t)

Sweep      == \E S \in SUBSET outbox : \E applied \in SUBSET S :
                 \E acked \in {applied, {}} : SweeperTick(S, applied, acked)

Dispatch   == \E e \in zset : DispatchJob(e)

Read       == \E m \in stream, h \in Handlers : ReadNonBlocking(m, h)

ReclaimAny == \E m \in pel, h \in Handlers : Reclaim(m, h) \/ DeadLetter(m, h)

Flush      == \E n \in 1 .. Len(batch) : FlushTaskUpdates(n)

\* One goroutine's next step in processMessage and handleOutcome.
Handle(h)  == \/ ProcessFails(h)
              \/ hpc[h] = "run" /\ \E u \in Outcomes(hmsg[h]) : HandleOutcome(h, u)
              \/ \E t \in Tasks : PromoteWaitingToPending(h, t)
              \/ PromoteNothing(h)
              \/ QueueTaskUpdate(h)

Fault      == \/ WorkerCrash
              \/ RedisLoss
              \/ \E S \in SUBSET outbox : SweeperCommitFails(S)
              \/ \E h \in Handlers : /\ hpc[h] = "run"
                                     /\ \E u \in Outcomes(hmsg[h]) : AckReplyLost(h, u)

Next == \/ Enqueue \/ Sweep \/ Dispatch \/ Read \/ ReclaimAny \/ Flush
        \/ \E m \in pel : ReclaimUnclassified(m)
        \/ \E h \in Handlers : Handle(h)
        \/ Fault

Spec == Init /\ [][Next]_vars

\* Each loop of the services keeps running: the sweeper's ticker, the dispatcher's,
\* the readers, the reclaim loop, the batch goroutine, and every handler, whose
\* crawl has a deadline.  Nobody has to enqueue, and no fault has to happen.
Fairness == /\ WF_vars(Sweep) /\ WF_vars(Dispatch) /\ WF_vars(Read)
            /\ WF_vars(ReclaimAny) /\ WF_vars(Flush)
            /\ \A h \in Handlers : WF_vars(Handle(h))

FairSpec == Spec /\ Fairness

-----------------------------------------------------------------------------
(* Properties *)

\* What a handler holds at each point of processMessage.
HandlerOK(h) ==
    \/ hpc[h] = "idle" /\ hmsg[h] = NoMsg /\ hout[h] = NoUpdate
    \/ hpc[h] = "run"  /\ hmsg[h] \in Messages /\ hout[h] = NoUpdate
    \/ hpc[h] \in {"acked", "promoted"} /\ hmsg[h] = NoMsg /\ hout[h] \in Updates

\* Every variable stays within its type; in particular no retry_count passes the
\* executor's limit and no attempt count reaches the sweeper's.
TypeOK ==
    /\ row \in [Tasks -> {"absent"} \cup OpenState \cup Terminal]
    /\ rowRetry \in [Tasks -> Retries]
    /\ outbox \subseteq Tasks /\ dead \subseteq Tasks
    /\ attempts \in [Tasks -> 0 .. (MaxAttempts - 1)]
    /\ outRetry \in [Tasks -> Retries]
    /\ zset \subseteq Entries
    /\ stream \subseteq Messages /\ pel \subseteq Messages
    /\ deliveries \in [Messages -> 0 .. MaxDeliveries]
    /\ group \in BOOLEAN /\ groupKnown \in BOOLEAN
    /\ unscheduled \subseteq Tasks
    /\ hpc \in [Handlers -> {"idle", "run", "acked", "promoted"}]
    /\ hmsg \in [Handlers -> Messages \cup {NoMsg}]
    /\ hout \in [Handlers -> Updates \cup {NoUpdate}]
    /\ \A h \in Handlers : HandlerOK(h)
    /\ batch \in Seq(Updates)
    /\ enqueues \in [Tasks -> 0 .. MaxEnqueues]
    /\ faults \in 0 .. MaxFaults
    /\ lost \subseteq Tasks /\ overtaken \subseteq Tasks

\* A copy of t from which it will be executed again, or a result of t on its
\* way to its row.  A queued retry update is neither.
HasWork(t)   == \/ t \in outbox \cup dead
                \/ \E e \in zset : e[1] = t
                \/ \E m \in stream \cup pel : TaskOf(m) = t
HasResult(t) == \/ \E i \in DOMAIN batch : batch[i].task = t /\ batch[i].status \in Terminal
                \/ \E h \in Handlers : /\ hpc[h] \in {"acked", "promoted"}
                                       /\ hout[h].task = t /\ hout[h].status \in Terminal

Adrift(t)    == t \in lost \cup overtaken

\* No task is orphaned: a row that is not final has work or a result under way
\* somewhere between task_outbox and the batch manager, unless a fault took a copy
\* of it or an older retry update overtook its result.  This is the orphan-task
\* risk the outbox, ScheduleAndAck and XAUTOCLAIM are there to close.
NoOrphan ==
    \A t \in Tasks : row[t] \in OpenState =>
        HasWork(t) \/ HasResult(t) \/ Adrift(t)

\* The same without the exceptions.
NeverOrphaned ==
    \A t \in Tasks : row[t] \in OpenState => HasWork(t) \/ HasResult(t)

\* What the loops of the services wait for: the guards of the actions in Fairness.
SweepWaits    == outbox = {}
DispatchWaits == \A e \in zset, c \in 1 .. Copies : InUse(<<e[1], e[2], c>>)
ReadWaits     == stream = {} \/ ~group \/ \A h \in Handlers : ~Idle(h)
ReclaimWaits  == \A m \in pel : ~Stale(m) \/ \A h \in Handlers : ~Idle(h)
FlushWaits    == batch = <<>>
HandlersWait  == \A h \in Handlers :
                    Idle(h) \/ (hpc[h] = "promoted" /\ Len(batch) >= MaxBuffer)

AllWait == SweepWaits /\ DispatchWaits /\ ReadWaits /\ ReclaimWaits /\ FlushWaits /\ HandlersWait

\* The services do not come to rest over an open task: readers without the consumer
\* group the dispatcher believes to have created, handlers and a full batch, a reclaim
\* loop without an idle goroutine never all wait for each other.  A Redis that comes
\* back empty is the exception, since the dispatcher does not look again.
NoStall ==
    "redis" \notin FaultKinds =>
        (AllWait => \A t \in Tasks : row[t] \in OpenState => t \in dead \/ Adrift(t))

\* A final status is final: no later flush turns a completed or failed row back
\* into an open one.
TerminalRowsStay ==
    [][\A t \in Tasks : row[t] \in Terminal => row'[t] \in Terminal]_row

\* Without faults and slow handlers one task is in the stream, or being crawled,
\* at most once: neither the promotion of a waiting row nor the direct ZADD next
\* to the outbox row makes a second crawl of it.
NoDuplicateCrawl ==
    \A m1, m2 \in stream \cup pel : TaskOf(m1) = TaskOf(m2) => m1 = m2

\* The promise of TaskPromise, read off the stores.
phase == [t \in Tasks |-> IF Adrift(t) \/ t \in dead THEN "adrift"
                          ELSE IF row[t] = "absent" THEN "absent"
                          ELSE IF row[t] \in Terminal THEN "settled" ELSE "open"]

Promise == INSTANCE TaskPromise

\* The stores implement the promise: a settled task is never open again, and no
\* open one stays open for ever.
PromiseKept == Promise!Spec

\* The safety half of it, which faults leave standing too.
PromiseSafe == Promise!Safe

Table == INSTANCE TaskTable

\* The transactions on tasks and task_outbox are those JobRecords takes them for: a
\* row opens only together with its outbox row, and once reported on or skipped only
\* a report moves it.
TableKept == Table!Spec
=============================================================================
