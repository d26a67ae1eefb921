------------------------ MODULE TaskDelivery_proofs ------------------------
(***************************************************************************)
(* Proofs about TaskDelivery, for every set of tasks and handlers, every   *)
(* limit and every set of faults: type correctness, NoOrphan, the safety   *)
(* half of the refinement of TaskPromise, the refinements of TaskTable and *)
(* of BrokerFlow, and NoStall, that the services never wait for each other *)
(* over an open task.  The promises that the faults break are proved in    *)
(* the form that names the fault: which one a loss, an orphan or a row     *)
(* that leaves a final status needs.                                       *)
(***************************************************************************)
EXTENDS TaskDelivery, FiniteSetTheorems, TLAPS

USE DEF pgVars, redisVars, memVars, ghostVars, vars

-----------------------------------------------------------------------------
(* Lemmas about the helpers *)

\* The updates the executor produces for a message are well-typed: a retry carries
\* the next count only while CanRetry leaves room below the limit.
LEMMA OutcomesType ==
    ASSUME NEW m \in Messages
    PROVE  Outcomes(m) \subseteq Updates
BY LimitsAssumption DEF Outcomes, Messages, Updates, Terminal, Retries, CanRetry, TaskOf, RetryOf

\* They are updates of the message's own task.
LEMMA OutcomesTask ==
    ASSUME NEW m, NEW u \in Outcomes(m)
    PROVE  u.task = m[1] /\ u.status \in Terminal \cup {"waiting"}
BY DEF Outcomes, TaskOf

\* A message reads back as its task and retry count.
LEMMA MessageParts ==
    ASSUME NEW m \in Messages
    PROVE  TaskOf(m) \in Tasks /\ RetryOf(m) \in Retries
BY DEF Messages, TaskOf, RetryOf

-----------------------------------------------------------------------------
(* Type correctness *)

\* The initial state is well-typed.
LEMMA InitType == Init => TypeOK
<1> SUFFICES ASSUME Init PROVE TypeOK
    OBVIOUS
<1>1. batch \in Seq(Updates)
    BY DEF Init
<1>2. 0 \in Retries /\ 0 \in 0 .. (MaxAttempts - 1) /\ 0 \in 0 .. MaxDeliveries
      /\ 0 \in 0 .. MaxEnqueues /\ 0 \in 0 .. MaxFaults
    BY LimitsAssumption, BoundsAssumption DEF Retries
<1>3. \A h \in Handlers : HandlerOK(h)
    BY DEF Init, HandlerOK
<1> QED
    BY <1>1, <1>2, <1>3 DEF Init, TypeOK

\* Every action keeps the types.
LEMMA StepType == TypeOK /\ [Next]_vars => TypeOK'
<1> SUFFICES ASSUME TypeOK, [Next]_vars PROVE TypeOK'
    OBVIOUS
<1> USE LimitsAssumption, BoundsAssumption
<1>0. \A h \in Handlers : HandlerOK(h)
    BY DEF TypeOK
<1>1. ASSUME NEW S \in SUBSET Tasks, EnqueueURLs(S) PROVE TypeOK'
  <2>1. row' \in [Tasks -> {"absent"} \cup OpenState \cup Terminal]
    BY <1>1 DEF TypeOK, EnqueueURLs
  <2>2. outbox' \subseteq Tasks /\ outRetry' \in [Tasks -> Retries]
    BY <1>1 DEF TypeOK, EnqueueURLs, Retries
  <2>3. rowRetry' \in [Tasks -> Retries] /\ unscheduled' \subseteq Tasks
    BY <1>1 DEF TypeOK, EnqueueURLs, Retries
  <2>4. enqueues' \in [Tasks -> 0 .. MaxEnqueues]
    BY <1>1 DEF TypeOK, EnqueueURLs
  <2> QED
    BY <1>1, <2>1, <2>2, <2>3, <2>4 DEF TypeOK, HandlerOK, EnqueueURLs
<1>2. ASSUME NEW t \in Tasks, ScheduleEnqueuedTasks(t) PROVE TypeOK'
    BY <1>2 DEF TypeOK, HandlerOK, ScheduleEnqueuedTasks, Entries
<1>3. ASSUME NEW t \in Tasks, ScheduleEnqueuedFails(t) PROVE TypeOK'
    BY <1>3 DEF TypeOK, HandlerOK, ScheduleEnqueuedFails
<1>4. ASSUME NEW S \in SUBSET outbox, NEW applied \in SUBSET S,
             NEW acked \in {applied, {}}, SweeperTick(S, applied, acked)
      PROVE TypeOK'
  <2>1. zset' \subseteq Entries
    BY <1>4 DEF TypeOK, SweeperTick, OutboxEntries, Entries
  <2>2. outRetry' \in [Tasks -> Retries]
    BY <1>4 DEF TypeOK, SweeperTick, Retries
  <2>3. attempts' \in [Tasks -> 0 .. (MaxAttempts - 1)]
    BY <1>4 DEF TypeOK, SweeperTick
  <2>4. outbox' \subseteq Tasks /\ dead' \subseteq Tasks
    BY <1>4 DEF TypeOK, SweeperTick
  <2> QED
    BY <1>4, <2>1, <2>2, <2>3, <2>4 DEF TypeOK, HandlerOK, SweeperTick
<1>5. ASSUME NEW S \in SUBSET outbox, SweeperCommitFails(S) PROVE TypeOK'
    BY <1>5 DEF TypeOK, HandlerOK, SweeperCommitFails, OutboxEntries, Entries
<1>6. ASSUME NEW e \in zset, DispatchJob(e) PROVE TypeOK'
    BY <1>6 DEF TypeOK, HandlerOK, DispatchJob, Entries, Messages, GroupEnsured
<1>7. ASSUME NEW m \in stream, NEW h \in Handlers, ReadNonBlocking(m, h) PROVE TypeOK'
    BY <1>7 DEF TypeOK, HandlerOK, ReadNonBlocking, Idle
<1>8. ASSUME NEW h \in Handlers, ProcessFails(h) PROVE TypeOK'
    BY <1>8 DEF TypeOK, HandlerOK, ProcessFails
<1>9. ASSUME NEW h \in Handlers, NEW u, HandleOutcome(h, u) PROVE TypeOK'
  <2>0. hmsg[h] \in Messages
    BY <1>9, <1>0 DEF HandlerOK, HandleOutcome, Rescheduled
  <2>1. u \in Updates
    BY <1>9, <2>0, OutcomesType DEF HandleOutcome, Rescheduled
  <2>2. zset' \subseteq Entries
    BY <1>9, <2>1 DEF TypeOK, HandleOutcome, Updates, Entries, Rescheduled
  <2>3. deliveries' \in [Messages -> 0 .. MaxDeliveries] /\ pel' \subseteq Messages
    BY <1>9, <2>0 DEF TypeOK, HandleOutcome, XAck, Rescheduled
  <2> QED
    BY <1>9, <2>1, <2>2, <2>3 DEF TypeOK, HandlerOK, HandleOutcome, Rescheduled
<1>10. ASSUME NEW h \in Handlers, NEW u, AckReplyLost(h, u) PROVE TypeOK'
  <2>0. hmsg[h] \in Messages
    BY <1>10, <1>0 DEF HandlerOK, AckReplyLost, Rescheduled
  <2>1. u \in Updates
    BY <1>10, <2>0, OutcomesType DEF AckReplyLost, Rescheduled
  <2>2. zset' \subseteq Entries
    BY <1>10, <2>1 DEF TypeOK, AckReplyLost, Updates, Entries, Rescheduled
  <2>3. deliveries' \in [Messages -> 0 .. MaxDeliveries] /\ pel' \subseteq Messages
    BY <1>10, <2>0 DEF TypeOK, AckReplyLost, XAck, Rescheduled
  <2>4. lost' \subseteq Tasks
    BY <1>10, <2>1 DEF TypeOK, AckReplyLost, Updates, Rescheduled
  <2> QED
    BY <1>10, <2>1, <2>2, <2>3, <2>4 DEF TypeOK, HandlerOK, AckReplyLost, Rescheduled
<1>11. ASSUME NEW h \in Handlers, NEW t \in Tasks, PromoteWaitingToPending(h, t) PROVE TypeOK'
    BY <1>11 DEF TypeOK, HandlerOK, PromoteWaitingToPending, OpenState, Promotable
<1>12. ASSUME NEW h \in Handlers, PromoteNothing(h) PROVE TypeOK'
    BY <1>12 DEF TypeOK, HandlerOK, PromoteNothing
<1>13. ASSUME NEW h \in Handlers, QueueTaskUpdate(h) PROVE TypeOK'
  <2>1. hout[h] \in Updates
    BY <1>13, <1>0 DEF HandlerOK, QueueTaskUpdate
  <2>2. batch' \in Seq(Updates)
    BY <1>13, <2>1 DEF TypeOK, QueueTaskUpdate
  <2> QED
    BY <1>13, <2>2 DEF TypeOK, HandlerOK, QueueTaskUpdate
<1>14. ASSUME NEW m \in pel, NEW h \in Handlers, Reclaim(m, h) PROVE TypeOK'
    BY <1>14 DEF TypeOK, HandlerOK, Reclaim, Idle, LastDelivery
<1>15. ASSUME NEW m \in pel, ReclaimUnclassified(m) PROVE TypeOK'
    BY <1>15 DEF TypeOK, HandlerOK, ReclaimUnclassified, LastDelivery
<1>16. ASSUME NEW m \in pel, NEW h \in Handlers, DeadLetter(m, h) PROVE TypeOK'
  <2>1. [task |-> TaskOf(m), status |-> "failed", retry |-> RetryOf(m)] \in Updates
    BY MessageParts DEF TypeOK, Updates, Terminal
  <2>2. deliveries' \in [Messages -> 0 .. MaxDeliveries] /\ pel' \subseteq Messages
    BY <1>16 DEF TypeOK, DeadLetter, XAck
  <2> QED
    BY <1>16, <2>1, <2>2 DEF TypeOK, HandlerOK, DeadLetter, Idle
<1>17. ASSUME NEW n \in 1 .. Len(batch), FlushTaskUpdates(n) PROVE TypeOK'
    BY <1>17 DEF TypeOK, HandlerOK, FlushTaskUpdates, FlushStatus, OpenState, Terminal
<1>18. ASSUME WorkerCrash PROVE TypeOK'
  <2>1. InMemory \subseteq Tasks
    <3>1. \A i \in DOMAIN batch : batch[i] \in Updates
      BY DEF TypeOK
    <3> QED
      BY <3>1, <1>0 DEF HandlerOK, InMemory, Updates
  <2>2. batch' \in Seq(Updates)
    BY <1>18 DEF WorkerCrash
  <2>3. /\ hpc' \in [Handlers -> {"idle", "run", "acked", "promoted"}]
        /\ hmsg' \in [Handlers -> Messages \cup {NoMsg}]
        /\ hout' \in [Handlers -> Updates \cup {NoUpdate}]
        /\ \A h \in Handlers : HandlerOK(h)'
    BY <1>18 DEF WorkerCrash, HandlerOK
  <2>4. lost' \subseteq Tasks /\ faults' \in 0 .. MaxFaults
    BY <1>18, <2>1 DEF TypeOK, WorkerCrash
  <2> QED
    BY <1>18, <2>2, <2>3, <2>4 DEF TypeOK, WorkerCrash
<1>19. ASSUME RedisLoss PROVE TypeOK'
  <2>1. InRedis \subseteq Tasks
    BY DEF TypeOK, InRedis, Entries, Messages
  <2>2. lost' \subseteq Tasks /\ faults' \in 0 .. MaxFaults
    BY <1>19, <2>1 DEF TypeOK, RedisLoss
  <2>3. deliveries' \in [Messages -> 0 .. MaxDeliveries]
    BY <1>19 DEF RedisLoss
  <2> QED
    BY <1>19, <2>2, <2>3 DEF TypeOK, HandlerOK, RedisLoss
<1>20. ASSUME UNCHANGED vars PROVE TypeOK'
    BY <1>20 DEF TypeOK, HandlerOK
<1> QED
    BY <1>1, <1>2, <1>3, <1>4, <1>5, <1>6, <1>7, <1>8, <1>9, <1>10, <1>11, <1>12, <1>13,
       <1>14, <1>15, <1>16, <1>17, <1>18, <1>19, <1>20
    DEF Next, Enqueue, Sweep, Dispatch, Read, ReclaimAny, Flush, Handle, Fault

\* Every reachable state is well-typed; so no retry_count passes the executor's
\* limit and no message is delivered more often than the reclaim loop allows.
THEOREM TypeCorrect == Spec => []TypeOK
BY InitType, StepType, PTL DEF Spec

-----------------------------------------------------------------------------
(* No copy before the row *)

\* The task is named by nothing but its row: not by an outbox or dead-letter row,
\* nor by Redis, nor by the memory of the worker.
Unnamed(t) ==
    /\ t \notin outbox \cup dead \cup lost \cup overtaken
    /\ \A e \in zset : e[1] # t
    /\ \A m \in stream \cup pel : m[1] # t
    /\ \A h \in Handlers : /\ hpc[h] = "run" => hmsg[h][1] # t
                           /\ hpc[h] \in {"acked", "promoted"} => hout[h].task # t
    /\ \A i \in DOMAIN batch : batch[i].task # t

\* EnqueueURLs commits the row with its outbox row, and every other copy of a task
\* stems from one of these.
NoCopyBeforeRow == \A t \in Tasks : row[t] = "absent" => Unnamed(t)

\* Before the first call no task is named anywhere.
LEMMA InitNoCopy == Init => NoCopyBeforeRow
BY DEF Init, NoCopyBeforeRow, Unnamed

\* A step that leaves a row absent makes no copy of the task.
LEMMA StepNoCopy == TypeOK /\ NoCopyBeforeRow /\ [Next]_vars => NoCopyBeforeRow'
<1> SUFFICES ASSUME TypeOK, NoCopyBeforeRow, [Next]_vars,
                    NEW t \in Tasks, row'[t] = "absent"
             PROVE  Unnamed(t)'
    BY DEF NoCopyBeforeRow
<1>0. \A h \in Handlers : HandlerOK(h)
    BY DEF TypeOK
<1>a. ASSUME row[t] = "absent" PROVE Unnamed(t)
    BY <1>a DEF NoCopyBeforeRow
<1> USE DEF Unnamed
<1>1. ASSUME NEW S \in SUBSET Tasks, EnqueueURLs(S) PROVE Unnamed(t)'
    BY <1>1, <1>a DEF TypeOK, EnqueueURLs, OpenState, Mirrored
<1>2. ASSUME NEW u \in Tasks, ScheduleEnqueuedTasks(u) PROVE Unnamed(t)'
    BY <1>2, <1>a DEF ScheduleEnqueuedTasks, OpenState
<1>3. ASSUME NEW u \in Tasks, ScheduleEnqueuedFails(u) PROVE Unnamed(t)'
    BY <1>3, <1>a DEF ScheduleEnqueuedFails
<1>4. ASSUME NEW S \in SUBSET outbox, NEW applied \in SUBSET S,
             NEW acked \in {applied, {}}, SweeperTick(S, applied, acked)
      PROVE Unnamed(t)'
    BY <1>4, <1>a DEF SweeperTick, OutboxEntries
<1>5. ASSUME NEW S \in SUBSET outbox, SweeperCommitFails(S) PROVE Unnamed(t)'
    BY <1>5, <1>a DEF SweeperCommitFails, OutboxEntries
<1>6. ASSUME NEW e \in zset, DispatchJob(e) PROVE Unnamed(t)'
    BY <1>6, <1>a DEF DispatchJob, GroupEnsured
<1>7. ASSUME NEW m \in stream, NEW h \in Handlers, ReadNonBlocking(m, h) PROVE Unnamed(t)'
    BY <1>7, <1>a DEF TypeOK, ReadNonBlocking
<1>8. ASSUME NEW h \in Handlers, ProcessFails(h) PROVE Unnamed(t)'
    BY <1>8, <1>a DEF TypeOK, ProcessFails
<1>9. ASSUME NEW h \in Handlers, NEW u, HandleOutcome(h, u) PROVE Unnamed(t)'
  <2>1. u.task = hmsg[h][1]
    BY <1>9, OutcomesTask DEF HandleOutcome, Rescheduled
  <2>2. row[t] = "absent" /\ u.task # t
    BY <1>9, <1>a, <2>1 DEF HandleOutcome, Rescheduled
  <2>3. \A e \in zset' : e[1] # t
    BY <1>9, <1>a, <2>2 DEF HandleOutcome, Rescheduled
  <2>4. \A g \in Handlers : /\ hpc'[g] = "run" => hmsg'[g][1] # t
                            /\ hpc'[g] \in {"acked", "promoted"} => hout'[g].task # t
    BY <1>9, <1>a, <2>2 DEF TypeOK, HandleOutcome, Rescheduled
  <2> QED
    BY <1>9, <1>a, <2>1, <2>2, <2>3, <2>4 DEF HandleOutcome, XAck, Rescheduled
<1>10. ASSUME NEW h \in Handlers, NEW u, AckReplyLost(h, u) PROVE Unnamed(t)'
  <2>1. u.task = hmsg[h][1]
    BY <1>10, OutcomesTask DEF AckReplyLost, Rescheduled
  <2>2. row[t] = "absent" /\ u.task # t
    BY <1>10, <1>a, <2>1 DEF AckReplyLost, Rescheduled
  <2>3. \A e \in zset' : e[1] # t
    BY <1>10, <1>a, <2>2 DEF AckReplyLost, Rescheduled
  <2>4. \A g \in Handlers : /\ hpc'[g] = "run" => hmsg'[g][1] # t
                            /\ hpc'[g] \in {"acked", "promoted"} => hout'[g].task # t
    BY <1>10, <1>a, <2>2 DEF TypeOK, AckReplyLost, Rescheduled
  <2> QED
    BY <1>10, <1>a, <2>1, <2>2, <2>3, <2>4 DEF AckReplyLost, XAck, Rescheduled
<1>11. ASSUME NEW h \in Handlers, NEW u \in Tasks, PromoteWaitingToPending(h, u) PROVE Unnamed(t)'
    BY <1>11, <1>a DEF TypeOK, PromoteWaitingToPending, Promotable
<1>12. ASSUME NEW h \in Handlers, PromoteNothing(h) PROVE Unnamed(t)'
    BY <1>12, <1>a DEF TypeOK, PromoteNothing
<1>13. ASSUME NEW h \in Handlers, QueueTaskUpdate(h) PROVE Unnamed(t)'
    BY <1>13, <1>a DEF TypeOK, QueueTaskUpdate
<1>14. ASSUME NEW m \in pel, NEW h \in Handlers, Reclaim(m, h) PROVE Unnamed(t)'
    BY <1>14, <1>a DEF TypeOK, Reclaim, LastDelivery
<1>15. ASSUME NEW m \in pel, ReclaimUnclassified(m) PROVE Unnamed(t)'
    BY <1>15, <1>a DEF ReclaimUnclassified, LastDelivery
<1>16. ASSUME NEW m \in pel, NEW h \in Handlers, DeadLetter(m, h) PROVE Unnamed(t)'
    BY <1>16, <1>a DEF TypeOK, DeadLetter, XAck, TaskOf
<1>17. ASSUME NEW n \in 1 .. Len(batch), FlushTaskUpdates(n) PROVE Unnamed(t)'
    BY <1>17, <1>a DEF TypeOK, FlushTaskUpdates, FlushStatus, FlushedAs, Flushed
<1>18. ASSUME WorkerCrash PROVE Unnamed(t)'
    BY <1>18, <1>a DEF WorkerCrash, InMemory
<1>19. ASSUME RedisLoss PROVE Unnamed(t)'
    BY <1>19, <1>a DEF RedisLoss, InRedis
<1>20. ASSUME UNCHANGED vars PROVE Unnamed(t)'
    BY <1>20, <1>a
<1> QED
    BY <1>1, <1>2, <1>3, <1>4, <1>5, <1>6, <1>7, <1>8, <1>9, <1>10, <1>11, <1>12, <1>13,
       <1>14, <1>15, <1>16, <1>17, <1>18, <1>19, <1>20
    DEF Next, Enqueue, Sweep, Dispatch, Read, ReclaimAny, Flush, Handle, Fault

-----------------------------------------------------------------------------
(* No orphan *)

\* What NoOrphan asks of an open task.
Carried(t) == HasWork(t) \/ HasResult(t) \/ Adrift(t)

\* Before the first call no row is open.
LEMMA InitNoOrphan == Init => NoOrphan
BY DEF Init, NoOrphan, OpenState

\* No step of a service drops the last copy of an open task: it moves it on, turns
\* it into a result, or is a fault.
LEMMA StepNoOrphan == TypeOK /\ NoCopyBeforeRow /\ NoOrphan /\ [Next]_vars => NoOrphan'
<1> SUFFICES ASSUME TypeOK, NoCopyBeforeRow, NoOrphan, [Next]_vars,
                    NEW t \in Tasks, row'[t] \in OpenState
             PROVE  Carried(t)'
    BY DEF NoOrphan, Carried
<1>0. \A h \in Handlers : HandlerOK(h)
    BY DEF TypeOK
<1>a. ASSUME row[t] \in OpenState PROVE Carried(t)
    BY <1>a DEF NoOrphan, Carried
<1> USE DEF Carried, HasWork, HasResult, Adrift, TaskOf
<1>1. ASSUME NEW S \in SUBSET Tasks, EnqueueURLs(S) PROVE Carried(t)'
    BY <1>1, <1>a DEF EnqueueURLs, Mirrored
<1>2. ASSUME NEW u \in Tasks, ScheduleEnqueuedTasks(u) PROVE Carried(t)'
    BY <1>2, <1>a DEF ScheduleEnqueuedTasks
<1>3. ASSUME NEW u \in Tasks, ScheduleEnqueuedFails(u) PROVE Carried(t)'
    BY <1>3, <1>a DEF ScheduleEnqueuedFails
<1>4. ASSUME NEW S \in SUBSET outbox, NEW applied \in SUBSET S,
             NEW acked \in {applied, {}}, SweeperTick(S, applied, acked)
      PROVE Carried(t)'
  <2>1. CASE t \in S
    <3>1. CASE t \in acked
      <4>1. <<t, outRetry[t]>> \in zset'
        BY <1>4, <3>1 DEF SweeperTick, OutboxEntries
      <4> QED
        BY <4>1
    <3>2. CASE t \notin acked
      BY <1>4, <2>1, <3>2 DEF SweeperTick
    <3> QED
      BY <3>1, <3>2
  <2>2. CASE t \notin S
    BY <1>4, <1>a, <2>2 DEF SweeperTick
  <2> QED
    BY <2>1, <2>2
<1>5. ASSUME NEW S \in SUBSET outbox, SweeperCommitFails(S) PROVE Carried(t)'
    BY <1>5, <1>a DEF SweeperCommitFails
<1>6. ASSUME NEW e \in zset, DispatchJob(e) PROVE Carried(t)'
    BY <1>6, <1>a DEF DispatchJob, GroupEnsured
<1>7. ASSUME NEW m \in stream, NEW h \in Handlers, ReadNonBlocking(m, h) PROVE Carried(t)'
    BY <1>7, <1>a DEF TypeOK, ReadNonBlocking, Idle
<1>8. ASSUME NEW h \in Handlers, ProcessFails(h) PROVE Carried(t)'
    BY <1>8, <1>a DEF TypeOK, ProcessFails
<1>9. ASSUME NEW h \in Handlers, NEW u, HandleOutcome(h, u) PROVE Carried(t)'
  <2>1. u.task = hmsg[h][1] /\ u.status \in Terminal \cup {"waiting"}
    BY <1>9, OutcomesTask DEF HandleOutcome, Rescheduled
  <2>2. CASE hmsg[h][1] = t
    <3>1. CASE u.status = "waiting"
      <4>1. <<u.task, u.retry>> \in zset'
        BY <1>9, <3>1 DEF HandleOutcome, Rescheduled
      <4> QED
        BY <2>1, <2>2, <4>1
    <3>2. CASE u.status \in Terminal
      <4>1. hpc'[h] = "acked" /\ hout'[h] = u
        BY <1>9 DEF TypeOK, HandleOutcome, Rescheduled
      <4> QED
        BY <2>1, <2>2, <3>2, <4>1
    <3> QED
      BY <2>1, <3>1, <3>2
  <2>3. CASE hmsg[h][1] # t
    <3>1. HasWork(t) => HasWork(t)'
      BY <1>9, <2>3 DEF HandleOutcome, XAck, Rescheduled
    <3>2. HasResult(t) => HasResult(t)'
      BY <1>9 DEF TypeOK, HandleOutcome, Rescheduled
    <3> QED
      BY <1>9, <1>a, <3>1, <3>2 DEF HandleOutcome, Rescheduled
  <2> QED
    BY <2>2, <2>3
<1>10. ASSUME NEW h \in Handlers, NEW u, AckReplyLost(h, u) PROVE Carried(t)'
  <2>1. u.task = hmsg[h][1]
    BY <1>10, OutcomesTask DEF AckReplyLost, Rescheduled
  <2>2. CASE hmsg[h][1] = t
    <3>1. CASE u.status = "waiting"
      <4>1. <<u.task, u.retry>> \in zset'
        BY <1>10, <3>1 DEF AckReplyLost, Rescheduled
      <4> QED
        BY <2>1, <2>2, <4>1
    <3>2. CASE u.status # "waiting"
      BY <1>10, <2>1, <2>2, <3>2 DEF AckReplyLost, Rescheduled
    <3> QED
      BY <3>1, <3>2
  <2>3. CASE hmsg[h][1] # t
    <3>1. HasWork(t) => HasWork(t)'
      BY <1>10, <2>3 DEF AckReplyLost, XAck, Rescheduled
    <3>2. HasResult(t) => HasResult(t)'
      BY <1>10 DEF TypeOK, AckReplyLost, Rescheduled
    <3> QED
      BY <1>10, <1>a, <3>1, <3>2 DEF AckReplyLost, Rescheduled
  <2> QED
    BY <2>2, <2>3
<1>11. ASSUME NEW h \in Handlers, NEW u \in Tasks, PromoteWaitingToPending(h, u) PROVE Carried(t)'
    BY <1>11, <1>a DEF TypeOK, PromoteWaitingToPending, Promotable
<1>12. ASSUME NEW h \in Handlers, PromoteNothing(h) PROVE Carried(t)'
    BY <1>12, <1>a DEF TypeOK, PromoteNothing
<1>13. ASSUME NEW h \in Handlers, QueueTaskUpdate(h) PROVE Carried(t)'
  <2>1. HasWork(t) => HasWork(t)'
    BY <1>13 DEF QueueTaskUpdate
  <2>2. hout[h] \in Updates /\ hpc[h] = "promoted"
    BY <1>13, <1>0 DEF QueueTaskUpdate, HandlerOK
  <2>3. /\ Len(batch') = Len(batch) + 1 /\ Len(batch) \in Nat
        /\ \A i \in 1 .. Len(batch) : batch'[i] = batch[i]
        /\ batch'[Len(batch) + 1] = hout[h]
        /\ DOMAIN batch = 1 .. Len(batch) /\ DOMAIN batch' = 1 .. (Len(batch) + 1)
    BY <1>13, <2>2 DEF TypeOK, QueueTaskUpdate
  <2>4. ASSUME NEW g \in Handlers, g # h
        PROVE  hpc'[g] = hpc[g] /\ hout'[g] = hout[g]
    BY <1>13, <2>4 DEF TypeOK, QueueTaskUpdate
  <2>5. HasResult(t) => HasResult(t)'
    BY <2>2, <2>3, <2>4
  <2> QED
    BY <1>13, <1>a, <2>1, <2>5 DEF QueueTaskUpdate
<1>14. ASSUME NEW m \in pel, NEW h \in Handlers, Reclaim(m, h) PROVE Carried(t)'
    BY <1>14, <1>a DEF TypeOK, Reclaim, Idle, LastDelivery
<1>15. ASSUME NEW m \in pel, ReclaimUnclassified(m) PROVE Carried(t)'
    BY <1>15, <1>a DEF ReclaimUnclassified, LastDelivery
<1>16. ASSUME NEW m \in pel, NEW h \in Handlers, DeadLetter(m, h) PROVE Carried(t)'
    BY <1>16, <1>a DEF TypeOK, DeadLetter, XAck, Idle, Terminal
<1>17. ASSUME NEW n \in 1 .. Len(batch), FlushTaskUpdates(n) PROVE Carried(t)'
  <2>1. row[t] # "absent"
    BY <1>17, <1>0 DEF TypeOK, NoCopyBeforeRow, Unnamed, FlushTaskUpdates, FlushStatus,
       FlushedAs, Flushed, OpenState
  <2>2. row[t] \in Terminal => t \in overtaken'
    BY <1>17 DEF TypeOK, FlushTaskUpdates, FlushStatus, FlushedAs, OpenState, Terminal
  <2>3. ASSUME NEW s \in Terminal, FlushedAs(n, t, s) PROVE t \in overtaken'
    BY <1>17, <2>3 DEF FlushTaskUpdates, FlushStatus, OpenState, Terminal
  <2>4. ASSUME NEW i \in DOMAIN batch, batch[i].task = t, batch[i].status \in Terminal
        PROVE  Carried(t)'
    <3>1. CASE i =< n
      <4>1. FlushedAs(n, t, batch[i].status)
        BY <2>4, <3>1 DEF TypeOK, FlushedAs, Flushed
      <4> QED
        BY <2>3, <2>4, <4>1
    <3>2. CASE i > n
      <4>1. i - n \in DOMAIN batch' /\ batch'[i - n] = batch[i]
        BY <1>17, <3>2 DEF TypeOK, FlushTaskUpdates
      <4> QED
        BY <2>4, <4>1
    <3> QED
      BY <2>4, <3>1, <3>2 DEF TypeOK
  <2>5. CASE row[t] \in OpenState
    BY <1>17, <1>a, <2>4, <2>5 DEF FlushTaskUpdates
  <2> QED
    BY <2>1, <2>2, <2>5 DEF TypeOK
<1>18. ASSUME WorkerCrash PROVE Carried(t)'
    BY <1>18, <1>a DEF WorkerCrash, InMemory
<1>19. ASSUME RedisLoss PROVE Carried(t)'
    BY <1>19, <1>a DEF RedisLoss, InRedis
<1>20. ASSUME UNCHANGED vars PROVE Carried(t)'
    BY <1>20, <1>a
<1> QED
    BY <1>1, <1>2, <1>3, <1>4, <1>5, <1>6, <1>7, <1>8, <1>9, <1>10, <1>11, <1>12, <1>13,
       <1>14, <1>15, <1>16, <1>17, <1>18, <1>19, <1>20
    DEF Next, Enqueue, Sweep, Dispatch, Read, ReclaimAny, Flush, Handle, Fault

\* The inductive invariant: NoOrphan survives a flush only because an update never
\* names an absent row.
IInv == TypeOK /\ NoCopyBeforeRow /\ NoOrphan

\* In every reachable state an open row has work or a result under way, whatever
\* the interleaving of sweeper, dispatcher, handlers, reclaim loop and flushes,
\* unless a fault or an overtaking retry update is on record for the task.
THEOREM InvariantHolds == Spec => []IInv
<1>1. Init => IInv
  BY InitType, InitNoCopy, InitNoOrphan DEF IInv
<1>2. IInv /\ [Next]_vars => IInv'
  BY StepType, StepNoCopy, StepNoOrphan DEF IInv
<1> QED
  BY <1>1, <1>2, PTL DEF Spec

\* The orphan-task claim of the outbox, ScheduleAndAck and XAUTOCLAIM together.
THEOREM NothingOrphaned == Spec => []NoOrphan
BY InvariantHolds, PTL DEF IInv

-----------------------------------------------------------------------------
(* What the exceptions of NoOrphan are for *)

\* Only a crash, an emptied Redis or a lost reply takes a copy away: no step of the
\* services puts a task on that record, and no failed commit either.
LossNeedsAFault ==
    FaultKinds \cap {"crash", "redis", "ackreply"} = {} => lost = {}

\* An update back to waiting comes from a retry alone: where the executor may not
\* retry, every result on its way to a row is final, and no flush finds an update
\* that goes against one.
RetriesOvertake ==
    MaxTaskRetries = 0 =>
        /\ overtaken = {}
        /\ \A h \in Handlers : hout[h] # NoUpdate => hout[h].status \in Terminal
        /\ \A i \in DOMAIN batch : batch[i].status \in Terminal

\* No step but a fault of the three kinds writes the record of losses.
LEMMA StepLoss == LossNeedsAFault /\ [Next]_vars => LossNeedsAFault'
<1> SUFFICES ASSUME LossNeedsAFault, [Next]_vars,
                    FaultKinds \cap {"crash", "redis", "ackreply"} = {}
             PROVE  lost' = {}
    BY DEF LossNeedsAFault
<1>1. ~WorkerCrash /\ ~RedisLoss /\ \A h \in Handlers : \A u : ~AckReplyLost(h, u)
    BY DEF WorkerCrash, RedisLoss, AckReplyLost
<1>2. lost' = lost
    BY <1>1 DEF Next, Enqueue, Sweep, Dispatch, Read, ReclaimAny, Flush, Handle, Fault,
       EnqueueURLs, ScheduleEnqueuedTasks, ScheduleEnqueuedFails, SweeperTick,
       SweeperCommitFails, DispatchJob, ReadNonBlocking, ProcessFails, HandleOutcome,
       PromoteWaitingToPending, PromoteNothing, QueueTaskUpdate, Reclaim,
       ReclaimUnclassified, DeadLetter, FlushTaskUpdates
<1> QED
    BY <1>2 DEF LossNeedsAFault

\* Without retries a step adds final results only, to the batch as to the handlers.
LEMMA StepOvertake == TypeOK /\ RetriesOvertake /\ [Next]_vars => RetriesOvertake'
<1> SUFFICES ASSUME TypeOK, RetriesOvertake, [Next]_vars, MaxTaskRetries = 0
             PROVE  /\ overtaken' = {}
                    /\ \A h \in Handlers : hout'[h] # NoUpdate => hout'[h].status \in Terminal
                    /\ \A i \in DOMAIN batch' : batch'[i].status \in Terminal
    BY DEF RetriesOvertake
<1>0. /\ overtaken = {}
      /\ \A h \in Handlers : hout[h] # NoUpdate => hout[h].status \in Terminal
      /\ \A i \in DOMAIN batch : batch[i].status \in Terminal
      /\ batch \in Seq(Updates) /\ hout \in [Handlers -> Updates \cup {NoUpdate}]
    BY DEF RetriesOvertake, TypeOK
<1>1. ASSUME NEW h \in Handlers, NEW u, HandleOutcome(h, u)
      PROVE  RetriesOvertake'
  <2>0. PICK m \in Messages : m = hmsg[h]
      BY <1>1 DEF HandleOutcome, TypeOK, HandlerOK
  <2>1. RetryOf(hmsg[h]) \in Nat
      BY <2>0, MessageParts, LimitsAssumption DEF Retries
  <2>2. ~CanRetry(RetryOf(hmsg[h]))
      BY <2>1, LimitsAssumption DEF CanRetry
  <2>3. u.status \in Terminal
      BY <1>1, <2>2 DEF HandleOutcome, Outcomes
  <2>4. hout' = [hout EXCEPT ![h] = u] /\ UNCHANGED <<batch, overtaken>>
      BY <1>1 DEF HandleOutcome
  <2> QED
      BY <1>0, <2>3, <2>4 DEF RetriesOvertake
<1>2. ASSUME NEW h \in Handlers, QueueTaskUpdate(h) PROVE RetriesOvertake'
  <2>1. hout[h] \in Updates /\ hout[h].status \in Terminal
      BY <1>0, <1>2, NoneAssumption DEF QueueTaskUpdate, TypeOK, HandlerOK
  <2>2. \A i \in DOMAIN batch' : batch'[i] = hout[h] \/ (i \in DOMAIN batch /\ batch'[i] = batch[i])
      BY <1>0, <1>2, <2>1 DEF QueueTaskUpdate
  <2> QED
      BY <1>0, <1>2, <2>1, <2>2 DEF QueueTaskUpdate, RetriesOvertake
<1>3. ASSUME NEW m, NEW h \in Handlers, DeadLetter(m, h) PROVE RetriesOvertake'
    BY <1>0, <1>3 DEF DeadLetter, RetriesOvertake, Terminal
<1>4. ASSUME NEW n \in 1 .. Len(batch), FlushTaskUpdates(n) PROVE RetriesOvertake'
  <2>1. \A t \in Tasks : ~FlushedAs(n, t, "waiting")
      BY <1>0, SMT DEF FlushedAs, Flushed, Terminal
  <2>2. overtaken' = {}
      BY <1>0, <1>4, <2>1 DEF FlushTaskUpdates
  <2>3. \A i \in DOMAIN batch' : i + n \in DOMAIN batch /\ batch'[i] = batch[i + n]
      BY <1>0, <1>4 DEF FlushTaskUpdates
  <2> QED
      BY <1>0, <1>4, <2>2, <2>3 DEF FlushTaskUpdates, RetriesOvertake
<1>5. ASSUME WorkerCrash PROVE RetriesOvertake'
    BY <1>0, <1>5 DEF WorkerCrash, RetriesOvertake
<1>6. ASSUME hout' = hout, batch' = batch, overtaken' = overtaken PROVE RetriesOvertake'
    BY <1>0, <1>6 DEF RetriesOvertake
<1>7. \/ hout' = hout /\ batch' = batch /\ overtaken' = overtaken
      \/ WorkerCrash
      \/ \E h \in Handlers : QueueTaskUpdate(h)
      \/ \E h \in Handlers : \E u : HandleOutcome(h, u)
      \/ \E h \in Handlers : \E m : DeadLetter(m, h)
      \/ \E n \in 1 .. Len(batch) : FlushTaskUpdates(n)
    BY DEF Next, Enqueue, Sweep, Dispatch, Read, ReclaimAny, Flush, Handle, Fault,
       EnqueueURLs, ScheduleEnqueuedTasks, ScheduleEnqueuedFails, SweeperTick,
       SweeperCommitFails, DispatchJob, ReadNonBlocking, ProcessFails, AckReplyLost,
       PromoteWaitingToPending, PromoteNothing, Reclaim, ReclaimUnclassified, RedisLoss
<1>8. RetriesOvertake'
  <2>1. CASE \E h \in Handlers : QueueTaskUpdate(h)
      BY <1>2, <2>1
  <2>2. CASE \E h \in Handlers : \E u : HandleOutcome(h, u)
      BY <1>1, <2>2
  <2>3. CASE \E h \in Handlers : \E m : DeadLetter(m, h)
      BY <1>3, <2>3
  <2>4. CASE \E n \in 1 .. Len(batch) : FlushTaskUpdates(n)
      BY <1>4, <2>4
  <2> QED
      BY <1>5, <1>6, <1>7, <2>1, <2>2, <2>3, <2>4
<1> QED
    BY <1>8 DEF RetriesOvertake

\* The faults that take a copy of a task away.
LossyFaults == FaultKinds \cap {"crash", "redis", "ackreply"}

\* NoOrphan, with its exceptions narrowed to where they can come from.
OrphanCaused ==
    \A t \in Tasks : row[t] \in OpenState =>
        \/ HasWork(t) \/ HasResult(t)
        \/ LossyFaults # {} /\ t \in lost
        \/ MaxTaskRetries # 0 /\ t \in overtaken

\* The exceptions of NoOrphan are what they are named for, and no more: nothing is
\* lost without a crash, an emptied Redis or a lost reply, and nothing is overtaken
\* without retries.  A slow handler, a message delivered twice, a second enqueue or a
\* commit of the sweeper that fails never orphans a task by itself.
THEOREM OrphansHaveACause == Spec => []OrphanCaused
<1>1. Init => LossNeedsAFault /\ RetriesOvertake
    BY DEF Init, LossNeedsAFault, RetriesOvertake
<1>2. IInv /\ LossNeedsAFault /\ RetriesOvertake => OrphanCaused
    BY DEF IInv, NoOrphan, OrphanCaused, LossyFaults, Adrift, LossNeedsAFault, RetriesOvertake
<1>3. IInv /\ [Next]_vars /\ RetriesOvertake => RetriesOvertake'
    BY StepOvertake DEF IInv
<1> QED
    BY <1>1, <1>2, <1>3, StepLoss, InvariantHolds, PTL DEF Spec

\* So a deployment that retries nothing and whose processes and Redis stay up never
\* orphans a task at all.
THEOREM NothingOrphanedAtAll ==
    LossyFaults = {} /\ MaxTaskRetries = 0 => (Spec => []NeverOrphaned)
<1> SUFFICES ASSUME LossyFaults = {}, MaxTaskRetries = 0 PROVE Spec => []NeverOrphaned
    OBVIOUS
<1>1. OrphanCaused => NeverOrphaned
    BY DEF OrphanCaused, NeverOrphaned
<1> QED
    BY <1>1, OrphansHaveACause, PTL

-----------------------------------------------------------------------------
(* The safety half of the promise *)

\* What a step can make of a row: EnqueueURLs opens an absent one, a promotion
\* keeps it open, and only a flush touches a final one, leaving its mark.
LEMMA RowStep ==
    ASSUME IInv, [Next]_vars, NEW t \in Tasks
    PROVE  \/ row'[t] = row[t]
           \/ /\ row[t] = "absent" /\ row'[t] \in OpenState
              /\ UNCHANGED <<dead, lost, overtaken>>
           \/ row[t] \in OpenState /\ row'[t] \in OpenState
           \/ row[t] \in OpenState \cup Terminal /\ row'[t] \in Terminal
           \/ row[t] \in Terminal /\ t \in overtaken'
<1> DEFINE Moves == \/ row'[t] = row[t]
                    \/ /\ row[t] = "absent" /\ row'[t] \in OpenState
                       /\ UNCHANGED <<dead, lost, overtaken>>
                    \/ row[t] \in OpenState /\ row'[t] \in OpenState
                    \/ row[t] \in OpenState \cup Terminal /\ row'[t] \in Terminal
                    \/ row[t] \in Terminal /\ t \in overtaken'
<1>1. ASSUME NEW S \in SUBSET Tasks, EnqueueURLs(S) PROVE Moves
    BY <1>1 DEF IInv, TypeOK, EnqueueURLs, Mirrored
<1>2. ASSUME NEW h \in Handlers, NEW u \in Tasks, PromoteWaitingToPending(h, u) PROVE Moves
    BY <1>2 DEF IInv, TypeOK, PromoteWaitingToPending, OpenState, Promotable
<1>3. ASSUME NEW n \in 1 .. Len(batch), FlushTaskUpdates(n) PROVE Moves
  <2>1. CASE row[t] = "absent"
    BY <1>3, <2>1 DEF IInv, TypeOK, NoCopyBeforeRow, Unnamed, FlushTaskUpdates, FlushStatus,
       FlushedAs, Flushed
  <2>2. CASE row[t] \in Terminal
    BY <1>3, <2>2 DEF IInv, TypeOK, FlushTaskUpdates, FlushStatus, Terminal
  <2>3. CASE row[t] \in OpenState
    BY <1>3, <2>3 DEF IInv, TypeOK, FlushTaskUpdates, FlushStatus, OpenState, Terminal
  <2> QED
    BY <2>1, <2>2, <2>3 DEF IInv, TypeOK
<1> QED
  <2>1. \/ row' = row
        \/ \E S \in SUBSET Tasks : EnqueueURLs(S)
        \/ \E h \in Handlers, u \in Tasks : PromoteWaitingToPending(h, u)
        \/ \E n \in 1 .. Len(batch) : FlushTaskUpdates(n)
    BY DEF Next, Enqueue, Sweep, Dispatch, Read, ReclaimAny, Flush, Handle, Fault,
       ScheduleEnqueuedTasks, ScheduleEnqueuedFails, SweeperTick, SweeperCommitFails,
       DispatchJob, ReadNonBlocking, ProcessFails, HandleOutcome, AckReplyLost,
       PromoteNothing, QueueTaskUpdate, Reclaim, ReclaimUnclassified, DeadLetter,
       WorkerCrash, RedisLoss
  <2> QED
    BY <1>1, <1>2, <1>3, <2>1

\* A final row that opens again was overtaken by a retry update, which is recorded in
\* the same step: neither EnqueueURLs nor a promotion ever takes a row back.
ReopenedIsOvertaken ==
    [][\A t \in Tasks : row[t] \in Terminal /\ row'[t] \notin Terminal => t \in overtaken']_vars

\* The batch manager's waiting update is the only writer that takes a final row back,
\* whatever else races with it.
THEOREM OnlyRetriesReopen == Spec => ReopenedIsOvertaken
<1>1. IInv /\ [Next]_vars
        => [\A t \in Tasks :
              row[t] \in Terminal /\ row'[t] \notin Terminal => t \in overtaken']_vars
  <2> SUFFICES ASSUME IInv, Next, NEW t \in Tasks, row[t] \in Terminal, row'[t] \notin Terminal
               PROVE  t \in overtaken'
    OBVIOUS
  <2> QED
    BY RowStep DEF OpenState, Terminal
<1> QED
    BY <1>1, InvariantHolds, PTL DEF Spec, ReopenedIsOvertaken

\* Where the executor retries nothing, a final status is final, as ARCHITECTURE.md has
\* it without that condition.
THEOREM FinalWithoutRetries == MaxTaskRetries = 0 => (Spec => TerminalRowsStay)
<1> SUFFICES ASSUME MaxTaskRetries = 0 PROVE Spec => TerminalRowsStay
    OBVIOUS
<1>1. Init => RetriesOvertake
    BY DEF Init, RetriesOvertake
<1>2. RetriesOvertake' /\ [\A t \in Tasks : row[t] \in Terminal /\ row'[t] \notin Terminal
                                               => t \in overtaken']_vars
        => [\A t \in Tasks : row[t] \in Terminal => row'[t] \in Terminal]_row
    BY DEF RetriesOvertake
<1> QED
    BY <1>1, <1>2, StepOvertake, TypeCorrect, OnlyRetriesReopen, PTL
    DEF Spec, ReopenedIsOvertaken, TerminalRowsStay

\* What is on record against a task stays on record.
LEMMA RecordsGrow ==
    ASSUME [Next]_vars
    PROVE  lost \subseteq lost' /\ overtaken \subseteq overtaken' /\ dead \subseteq dead'
BY DEF Next, Enqueue, Sweep, Dispatch, Read, ReclaimAny, Flush, Handle, Fault, EnqueueURLs,
   ScheduleEnqueuedTasks, ScheduleEnqueuedFails, SweeperTick, SweeperCommitFails,
   DispatchJob, ReadNonBlocking, ProcessFails, HandleOutcome, AckReplyLost,
   PromoteWaitingToPending, PromoteNothing, QueueTaskUpdate, Reclaim, ReclaimUnclassified,
   DeadLetter, FlushTaskUpdates, WorkerCrash, RedisLoss

\* The initial stores are an initial state of the promise.
LEMMA InitPromise == Init => Promise!Init
BY DEF Init, Promise!Init, phase, Adrift

\* Every step of the stores is a step of the promise.
LEMMA StepPromise == IInv /\ IInv' /\ [Next]_vars => [Promise!Next]_phase
<1> SUFFICES ASSUME IInv, IInv', [Next]_vars PROVE Promise!Next
    OBVIOUS
<1>1. phase' \in [Tasks -> {"absent", "open", "settled", "adrift"}]
    BY DEF phase
<1>2. ASSUME NEW t \in Tasks PROVE Promise!Step(t)
  <2> DEFINE off == t \in dead \cup lost \cup overtaken
             On(p, r) == p = IF r = "absent" THEN "absent"
                             ELSE IF r \in Terminal THEN "settled" ELSE "open"
  <2>1. /\ off => phase[t] = "adrift"
        /\ ~off => On(phase[t], row[t])
    BY DEF phase, Adrift
  <2>2. /\ off' => phase'[t] = "adrift"
        /\ ~off' => On(phase'[t], row'[t])
    BY DEF phase, Adrift
  <2>3. off => off'
    BY RecordsGrow
  <2>4. row[t] = "absent" => ~off
    BY DEF IInv, NoCopyBeforeRow, Unnamed
  <2>5. row'[t] = "absent" => ~off'
    BY DEF IInv, NoCopyBeforeRow, Unnamed
  <2>6. CASE off
    BY <2>1, <2>2, <2>3, <2>6 DEF Promise!Step
  <2>7. CASE ~off /\ off'
    <3>1. row[t] \in {"absent"} \cup OpenState \cup Terminal /\ row[t] # "absent"
      BY <2>5, <2>7, RowStep DEF IInv, TypeOK, OpenState, Terminal
    <3> QED
      BY <2>1, <2>2, <2>7, <3>1 DEF Promise!Step, Promise!Move, OpenState, Terminal
  <2>8. CASE ~off /\ ~off'
    <3>1. \/ row'[t] = row[t]
          \/ row[t] = "absent" /\ row'[t] \in OpenState
          \/ row[t] \in OpenState /\ row'[t] \in OpenState
          \/ row[t] \in OpenState \cup Terminal /\ row'[t] \in Terminal
      BY <2>8, RowStep
    <3> QED
      BY <2>1, <2>2, <2>8, <3>1 DEF Promise!Step, Promise!Move, OpenState, Terminal
  <2> QED
    BY <2>6, <2>7, <2>8
<1> QED
    BY <1>1, <1>2 DEF Promise!Next

\* The stores keep the promise's safety half: what was settled stays settled, and
\* only a fault, a dead letter or an overtaken result sets a task adrift.
THEOREM PromiseIsKept == Spec => PromiseSafe
<1>1. Init /\ [][Next]_vars /\ []IInv => Promise!Init /\ [][Promise!Next]_phase
  BY InitPromise, StepPromise, PTL
<1> QED
  BY <1>1, InvariantHolds, PTL DEF Spec, PromiseSafe, Promise!Safe

-----------------------------------------------------------------------------
(* The tables this module shares with JobRecords *)

\* EnqueueURLs offers the rows it writes.
LEMMA EnqueueOffers ==
    ASSUME IInv, IInv', NEW S \in SUBSET Tasks, EnqueueURLs(S)
    PROVE  \E W \in SUBSET Tasks : Table!Offer(W)
<1> DEFINE W == {t \in S : row[t] \in {"absent"} \cup OpenState}
<1>1. PICK status \in [W -> OpenState] :
          /\ row' = [t \in Tasks |-> IF t \in W THEN status[t] ELSE row[t]]
          /\ outbox' = outbox \cup {t \in W \ outbox : Mirrored(status[t])}
    BY DEF EnqueueURLs
<1>2. outbox' = outbox \cup W
    BY <1>1 DEF Mirrored
<1>3. Table!Write(W, OpenState)
    BY <1>1 DEF Table!Write, Table!Open, Table!Done, IInv, TypeOK, OpenState, Terminal
<1> QED
    BY <1>2, <1>3 DEF Table!Offer, Table!Open, OpenState

\* A promotion offers the one row it picks.
LEMMA PromotionOffers ==
    ASSUME IInv, IInv', NEW h \in Handlers, NEW u \in Tasks, PromoteWaitingToPending(h, u)
    PROVE  Table!Offer({u})
BY DEF PromoteWaitingToPending, Promotable, Table!Offer, Table!Write, Table!Open, Table!Done,
   IInv, TypeOK, OpenState, Terminal

\* A flush reports on the tasks of its updates, all of which have rows.
LEMMA FlushReports ==
    ASSUME IInv, IInv', NEW n \in 1 .. Len(batch), FlushTaskUpdates(n)
    PROVE  \E W \in SUBSET Tasks : Table!Report(W)
<1> DEFINE W == {t \in Tasks : \E u \in Flushed(n) : u.task = t}
<1>1. ASSUME NEW u \in Flushed(n) PROVE u \in Updates /\ row[u.task] # "absent"
  <2>1. PICK i \in 1 .. n : u = batch[i]
    BY DEF Flushed
  <2>2. i \in DOMAIN batch /\ batch[i] \in Updates
    BY DEF IInv, TypeOK
  <2>3. u.task \in Tasks
    BY <2>1, <2>2 DEF Updates
  <2> QED
    BY <2>1, <2>2, <2>3 DEF IInv, NoCopyBeforeRow, Unnamed
<1>2. ASSUME NEW t \in W PROVE FlushStatus(n, t) \in Terminal \cup {"waiting"}
    BY <1>1 DEF FlushStatus, FlushedAs, Updates, Terminal
<1>3. ASSUME NEW t \in Tasks \ W PROVE FlushStatus(n, t) = row[t]
    BY DEF FlushStatus, FlushedAs
<1>4. \A t \in Tasks : row'[t] = FlushStatus(n, t)
    BY DEF FlushTaskUpdates
<1>5. Table!Write(W, Terminal \cup {"waiting"})
    BY <1>2, <1>3, <1>4 DEF Table!Write, Table!Open, Table!Done, IInv, TypeOK, OpenState, Terminal
<1>6. UNCHANGED outbox
    BY DEF FlushTaskUpdates
<1> QED
    BY <1>1, <1>5, <1>6 DEF Table!Report, Table!Done, Terminal

\* Every step of the delivery is one of the shared tables, or leaves them alone.
LEMMA StepTable == IInv /\ IInv' /\ [Next]_vars => [Table!Next]_<<row, outbox>>
<1> SUFFICES ASSUME IInv, IInv', [Next]_vars PROVE [Table!Next]_<<row, outbox>>
    OBVIOUS
<1>1. ASSUME NEW S \in SUBSET outbox, NEW applied \in SUBSET S, NEW acked \in {applied, {}},
             SweeperTick(S, applied, acked)
      PROVE  \E W \in SUBSET Tasks : Table!Sweep(W)
  <2>1. PICK W \in SUBSET S : outbox' = outbox \ W
    <3> DEFINE toDead == {t \in S \ acked : attempts[t] + 1 >= MaxAttempts}
    <3> QED
      BY <1>1, acked \cup toDead \in SUBSET S DEF SweeperTick
  <2> QED
    BY <1>1, <2>1 DEF SweeperTick, Table!Sweep, IInv, TypeOK
<1>2. \/ UNCHANGED <<row, outbox>>
      \/ \E S \in SUBSET Tasks : EnqueueURLs(S)
      \/ \E S \in SUBSET outbox : \E applied \in SUBSET S : \E acked \in {applied, {}} :
            SweeperTick(S, applied, acked)
      \/ \E h \in Handlers, u \in Tasks : PromoteWaitingToPending(h, u)
      \/ \E n \in 1 .. Len(batch) : FlushTaskUpdates(n)
    BY DEF Next, Enqueue, Sweep, Dispatch, Read, ReclaimAny, Flush, Handle, Fault,
       ScheduleEnqueuedTasks, ScheduleEnqueuedFails, SweeperCommitFails,
       DispatchJob, ReadNonBlocking, ProcessFails, HandleOutcome, AckReplyLost,
       PromoteNothing, QueueTaskUpdate, Reclaim, ReclaimUnclassified, DeadLetter,
       WorkerCrash, RedisLoss, vars, pgVars
<1> QED
    BY <1>1, <1>2, EnqueueOffers, PromotionOffers, FlushReports DEF Table!Next

\* The path of a task stays within what JobRecords takes for granted of it: a row
\* opens only together with its outbox row, the sweeper and the flushes touch one
\* table each, and no flush brings a row into being.
THEOREM DeliveryKeepsTable == Spec => TableKept
<1>1. Init => Table!Init
    BY DEF Init, Table!Init
<1> QED
    BY <1>1, StepTable, InvariantHolds, PTL DEF Spec, TableKept, Table!Spec

-----------------------------------------------------------------------------
(* The services come to rest only when they are done *)

\* groupEnsured says the truth, and nothing is published before the group is there.
GroupThere ==
    "redis" \notin FaultKinds => /\ groupKnown => group
                                 /\ stream # {} => group

\* Only an empty Redis takes the group away.
LEMMA GroupStep == GroupThere /\ [Next]_vars => GroupThere'
<1> SUFFICES ASSUME GroupThere, [Next]_vars, "redis" \notin FaultKinds
             PROVE  (groupKnown => group)' /\ (stream # {} => group)'
    BY DEF GroupThere
<1>1. ASSUME NEW e, DispatchJob(e) PROVE group'
    BY <1>1 DEF DispatchJob, GroupEnsured, GroupThere
<1>2. ASSUME NEW m, NEW h, ReadNonBlocking(m, h)
      PROVE  (groupKnown => group)' /\ (stream # {} => group)'
    BY <1>2 DEF ReadNonBlocking, GroupThere
<1>3. CASE WorkerCrash
    BY <1>3 DEF WorkerCrash, redisVars, GroupThere
<1>4. ~RedisLoss
    BY DEF RedisLoss
<1>5. CASE UNCHANGED <<group, groupKnown, stream>>
    BY <1>5 DEF GroupThere
<1> QED
  <2>1. \/ UNCHANGED <<group, groupKnown, stream>>
        \/ \E e \in zset : DispatchJob(e)
        \/ \E m \in stream, h \in Handlers : ReadNonBlocking(m, h)
        \/ WorkerCrash
    BY <1>4 DEF Next, Enqueue, Sweep, Dispatch, Read, ReclaimAny, Flush, Handle, Fault, EnqueueURLs,
       ScheduleEnqueuedTasks, ScheduleEnqueuedFails, SweeperTick, SweeperCommitFails,
       ProcessFails, HandleOutcome, AckReplyLost, PromoteWaitingToPending, PromoteNothing,
       QueueTaskUpdate, Reclaim, ReclaimUnclassified, DeadLetter, FlushTaskUpdates,
       vars, redisVars, memVars
  <2> QED
    BY <1>1, <1>2, <1>3, <1>5, <2>1

\* When every loop waits, nothing is left that a task could go on from: a busy handler
\* waits only for a full batch, which the batch manager does not let be, so all are
\* idle, and what the streams hold could be read or reclaimed.
LEMMA RestIsEmpty ==
    ASSUME IInv, GroupThere, "redis" \notin FaultKinds, AllWait
    PROVE  /\ outbox = {} /\ batch = <<>> /\ stream = {} /\ pel = {} /\ zset = {}
           /\ \A h \in Handlers : Idle(h)
<1>1. outbox = {} /\ batch = <<>>
    BY DEF AllWait, SweepWaits, FlushWaits
<1>2. \A h \in Handlers : Idle(h) /\ hmsg[h] = NoMsg
    BY <1>1, BoundsAssumption DEF AllWait, HandlersWait, Idle, IInv, TypeOK, HandlerOK
<1>3. stream = {}
    BY <1>2, HandlersAssumption DEF AllWait, ReadWaits, GroupThere
<1>4. pel = {}
    BY <1>2, HandlersAssumption DEF AllWait, ReclaimWaits, Stale, Running, Idle
<1>5. ASSUME NEW e \in zset PROVE FALSE
  <2>1. 1 \in 1 .. Copies
    BY BoundsAssumption
  <2>2. <<e[1], e[2], 1>> \in Messages
    BY <2>1 DEF IInv, TypeOK, Entries, Messages
  <2> QED
    BY <1>2, <1>3, <1>4, <2>1, <2>2, NoneAssumption DEF AllWait, DispatchWaits, InUse
<1> QED
    BY <1>1, <1>2, <1>3, <1>4, <1>5

\* The services never come to rest over an open task, whatever crashes, lost replies
\* and failed commits came before, as long as Redis keeps what it was given.
THEOREM NeverAtRestOverWork == Spec => []NoStall
<1>1. Init => GroupThere
    BY DEF Init, GroupThere
<1>2. IInv /\ GroupThere => NoStall
  <2> SUFFICES ASSUME IInv, GroupThere, "redis" \notin FaultKinds, AllWait,
                      NEW t \in Tasks, row[t] \in OpenState
               PROVE  t \in dead \/ Adrift(t)
    BY DEF NoStall
  <2>1. ~HasResult(t)
    BY RestIsEmpty DEF HasResult, Idle
  <2>2. HasWork(t) => t \in dead
    BY RestIsEmpty DEF HasWork
  <2> QED
    BY <2>1, <2>2 DEF IInv, NoOrphan
<1> QED
    BY <1>1, <1>2, GroupStep, InvariantHolds, PTL DEF Spec
-----------------------------------------------------------------------------
(* The broker, counted *)

\* The ZSET, the stream and the pending entries list as their lengths.
Flow == INSTANCE BrokerFlow
    WITH due <- Cardinality(zset), unread <- Cardinality(stream), pending <- Cardinality(pel)

\* There is something to count, and a message is unread or delivered, not both.
Counted ==
    /\ IsFiniteSet(zset) /\ IsFiniteSet(stream) /\ IsFiniteSet(pel)
    /\ stream \cap pel = {}

\* Lengths are numbers.
LEMMA CountsType ==
    ASSUME Counted
    PROVE  Cardinality(zset) \in Nat /\ Cardinality(stream) \in Nat /\ Cardinality(pel) \in Nat
BY FS_CardinalityType DEF Counted

\* The ZADDs of a sweep are as many as its outbox rows.
LEMMA OutboxCounted ==
    ASSUME NEW S \in SUBSET Tasks
    PROVE  IsFiniteSet(OutboxEntries(S))
<1> DEFINE entry == [t \in S |-> <<t, outRetry[t]>>]
<1>1. IsFiniteSet(S)
    BY FS_Subset, TasksAssumption
<1>2. entry \in Surjection(S, OutboxEntries(S))
    BY DEF Surjection, OutboxEntries
<1> QED
    BY <1>1, <1>2, FS_Surjection

\* ZADDs alone schedule.
LEMMA ScheduleCounts ==
    ASSUME Counted, NEW Z, IsFiniteSet(Z), zset' = zset \cup Z, UNCHANGED <<stream, pel>>
    PROVE  Counted' /\ Flow!Next
<1>1. IsFiniteSet(zset') /\ zset \subseteq zset'
    BY FS_Union DEF Counted
<1>2. Cardinality(zset) =< Cardinality(zset')
    BY <1>1, FS_Subset
<1>3. Counted'
    BY <1>1 DEF Counted
<1>4. Cardinality(zset)' \in Nat /\ Cardinality(stream)' \in Nat /\ Cardinality(pel)' \in Nat
    BY <1>3, FS_CardinalityType DEF Counted
<1> QED
    BY <1>2, <1>3, <1>4, CountsType DEF Flow!Next, Flow!Schedule

\* An acknowledgement takes at most one message, and puts back at most one entry.
LEMMA AckCounts ==
    ASSUME Counted, NEW m, NEW e, zset' \in {zset, zset \cup {e}}, pel' = pel \ {m},
           UNCHANGED stream
    PROVE  Counted' /\ Flow!Next
<1>1. /\ IsFiniteSet(zset')
      /\ Cardinality(zset') \in {Cardinality(zset), Cardinality(zset) + 1}
    BY FS_AddElement DEF Counted
<1>2. /\ IsFiniteSet(pel')
      /\ \/ Cardinality(pel') = Cardinality(pel)
         \/ Cardinality(pel) > 0 /\ Cardinality(pel') = Cardinality(pel) - 1
  <2>1. CASE m \in pel
    <3>1. Cardinality(pel) # 0
        BY <2>1, FS_EmptySet DEF Counted
    <3> QED
        BY <2>1, <3>1, CountsType, FS_RemoveElement DEF Counted
  <2>2. CASE m \notin pel
    <3>1. pel' = pel
        BY <2>2
    <3> QED
        BY <3>1 DEF Counted
  <2> QED
    BY <2>1, <2>2
<1>3. Counted'
    BY <1>1, <1>2 DEF Counted
<1>4. Cardinality(zset)' \in Nat /\ Cardinality(stream)' \in Nat /\ Cardinality(pel)' \in Nat
    BY <1>3, FS_CardinalityType DEF Counted
<1> QED
    BY <1>1, <1>2, <1>3, <1>4, CountsType DEF Flow!Next, Flow!Ack

\* A dispatched copy is a message the streams do not hold yet.
LEMMA DispatchCounts ==
    ASSUME Counted, NEW e, DispatchJob(e)
    PROVE  Counted' /\ Flow!Next
<1> PICK c \in 1 .. Copies : /\ ~InUse(<<e[1], e[2], c>>)
                             /\ stream' = stream \cup {<<e[1], e[2], c>>}
    BY DEF DispatchJob
<1>1. <<e[1], e[2], c>> \notin stream \cup pel
    BY DEF InUse
<1>2. e \in zset /\ zset' = zset \ {e} /\ pel' = pel
    BY DEF DispatchJob
<1>3. IsFiniteSet(zset') /\ Cardinality(zset') = Cardinality(zset) - 1
    BY <1>2, FS_RemoveElement DEF Counted
<1>4. IsFiniteSet(stream') /\ Cardinality(stream') = Cardinality(stream) + 1
    BY <1>1, FS_AddElement DEF Counted
<1>5. Cardinality(zset) > 0
    BY <1>2, FS_EmptySet, CountsType DEF Counted
<1>6. Counted'
    BY <1>1, <1>2, <1>3, <1>4 DEF Counted
<1>7. Cardinality(zset)' \in Nat /\ Cardinality(stream)' \in Nat /\ Cardinality(pel)' \in Nat
    BY <1>6, FS_CardinalityType DEF Counted
<1> QED
    BY <1>2, <1>3, <1>4, <1>5, <1>6, <1>7 DEF Flow!Next, Flow!Publish

\* What is read moves to the pending entries list.
LEMMA ReadCounts ==
    ASSUME Counted, NEW m, NEW h, ReadNonBlocking(m, h)
    PROVE  Counted' /\ Flow!Next
<1>1. m \in stream /\ m \notin pel
    BY DEF ReadNonBlocking, Counted
<1>2. stream' = stream \ {m} /\ pel' = pel \cup {m} /\ zset' = zset
    BY DEF ReadNonBlocking
<1>3. IsFiniteSet(stream') /\ Cardinality(stream') = Cardinality(stream) - 1
    BY <1>1, <1>2, FS_RemoveElement DEF Counted
<1>4. IsFiniteSet(pel') /\ Cardinality(pel') = Cardinality(pel) + 1
    BY <1>1, <1>2, FS_AddElement DEF Counted
<1>5. Cardinality(stream) > 0
    BY <1>1, FS_EmptySet, CountsType DEF Counted
<1>6. Counted'
    BY <1>1, <1>2, <1>3, <1>4 DEF Counted
<1>7. Cardinality(zset)' \in Nat /\ Cardinality(stream)' \in Nat /\ Cardinality(pel)' \in Nat
    BY <1>6, FS_CardinalityType DEF Counted
<1> QED
    BY <1>2, <1>3, <1>4, <1>5, <1>6, <1>7 DEF Flow!Next, Flow!Read

\* Every other action leaves the broker alone, or the whole of it goes.
LEMMA StepFlow ==
    IInv /\ Counted /\ [Next]_vars =>
        Counted' /\ [Flow!Next]_<<Cardinality(zset), Cardinality(stream), Cardinality(pel)>>
<1> SUFFICES ASSUME IInv, Counted, [Next]_vars
             PROVE  Counted' /\ \/ Flow!Next
                                \/ UNCHANGED <<zset, stream, pel>>
    OBVIOUS
<1>1. CASE UNCHANGED <<zset, stream, pel>>
    BY <1>1 DEF Counted
<1>2. ASSUME NEW t \in Tasks, ScheduleEnqueuedTasks(t), zset' # zset PROVE Counted' /\ Flow!Next
  <2>1. zset' = zset \cup {<<t, rowRetry[t]>>} /\ UNCHANGED <<stream, pel>>
    BY <1>2 DEF ScheduleEnqueuedTasks
  <2> QED
    BY <2>1, FS_Singleton, ScheduleCounts
<1>3. ASSUME NEW S \in SUBSET outbox, zset' = zset \cup OutboxEntries(S), UNCHANGED <<stream, pel>>
      PROVE  Counted' /\ Flow!Next
  <2>1. IsFiniteSet(OutboxEntries(S))
    BY OutboxCounted DEF IInv, TypeOK
  <2> QED
    BY <1>3, <2>1, ScheduleCounts
<1>4. ASSUME NEW h \in Handlers, NEW u, zset' = zset \cup Rescheduled(u), XAck(hmsg[h]),
             UNCHANGED stream
      PROVE  Counted' /\ Flow!Next
  <2> PICK m, e : m = hmsg[h] /\ e = <<u.task, u.retry>>
    OBVIOUS
  <2>1. zset' \in {zset, zset \cup {e}} /\ pel' = pel \ {m} /\ stream' = stream
    BY <1>4 DEF Rescheduled, XAck
  <2> QED
    BY <2>1, AckCounts
<1>5. ASSUME NEW m, NEW h, DeadLetter(m, h) PROVE Counted' /\ Flow!Next
  <2>1. zset' \in {zset, zset \cup {m}} /\ pel' = pel \ {m} /\ stream' = stream
    BY <1>5 DEF DeadLetter, XAck
  <2> QED
    BY <2>1, AckCounts
<1>6. CASE RedisLoss
  <2>1. zset' = {} /\ stream' = {} /\ pel' = {}
    BY <1>6 DEF RedisLoss
  <2> QED
    BY <2>1, FS_EmptySet DEF Counted, Flow!Next, Flow!Vanish
<1>7. \/ UNCHANGED <<zset, stream, pel>>
      \/ \E t \in Tasks : ScheduleEnqueuedTasks(t) /\ zset' # zset
      \/ \E S \in SUBSET outbox : zset' = zset \cup OutboxEntries(S) /\ UNCHANGED <<stream, pel>>
      \/ \E e : DispatchJob(e)
      \/ \E m, h : ReadNonBlocking(m, h) \/ DeadLetter(m, h)
      \/ \E h \in Handlers : \E u : /\ zset' = zset \cup Rescheduled(u)
                                    /\ XAck(hmsg[h]) /\ UNCHANGED stream
      \/ RedisLoss
  <2>1. CASE Enqueue
    BY <2>1 DEF Enqueue, EnqueueURLs, ScheduleEnqueuedTasks, ScheduleEnqueuedFails
  <2>2. CASE Sweep
    BY <2>2 DEF Sweep, SweeperTick
  <2>3. CASE Dispatch \/ Read \/ ReclaimAny
    BY <2>3 DEF Dispatch, Read, ReclaimAny, Reclaim
  <2>4. CASE Flush \/ \E m \in pel : ReclaimUnclassified(m)
    BY <2>4 DEF Flush, FlushTaskUpdates, ReclaimUnclassified
  <2>5. ASSUME NEW h \in Handlers, Handle(h)
        PROVE  \/ UNCHANGED <<zset, stream, pel>>
               \/ \E u : zset' = zset \cup Rescheduled(u) /\ XAck(hmsg[h]) /\ UNCHANGED stream
    BY <2>5 DEF Handle, ProcessFails, HandleOutcome, PromoteWaitingToPending, PromoteNothing,
       QueueTaskUpdate
  <2>6. CASE Fault
    BY <2>6 DEF Fault, WorkerCrash, SweeperCommitFails, AckReplyLost
  <2>7. CASE UNCHANGED vars
    BY <2>7
  <2> QED
    BY <2>1, <2>2, <2>3, <2>4, <2>5, <2>6, <2>7 DEF Next
<1> QED
    BY <1>1, <1>2, <1>3, <1>4, <1>5, <1>6, <1>7, DispatchCounts, ReadCounts

\* A message comes out of one entry and leaves by its acknowledgement, however often it
\* is read, reclaimed or retried on the way: the detailed broker counts as the one of
\* RunningCounters does.
THEOREM DeliveryFlows == Spec => Flow!Spec
<1>1. Init => Counted /\ Flow!Init
    BY FS_EmptySet DEF Init, Counted, Flow!Init
<1> QED
    BY <1>1, StepFlow, InvariantHolds, PTL DEF Spec, Flow!Spec
=============================================================================
