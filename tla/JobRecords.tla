----------------------------- MODULE JobRecords -----------------------------
(***************************************************************************)
(* The jobs row of one crawl and its tasks rows in Postgres: the counters  *)
(* that the AFTER STATEMENT triggers keep on the jobs row, the status that *)
(* the same triggers, the job manager and the WAF breaker fight over, and  *)
(* CancelJob, BlockJob and EnqueueURLs running against each other at READ  *)
(* COMMITTED.                                                              *)
(*                                                                         *)
(* A transaction is one step where its locks make it one.  CancelJob and   *)
(* BlockJob are not: they read the job before the transaction, and their   *)
(* first statement takes the tasks from a snapshot and only then waits for *)
(* the jobs row.                                                           *)
(*                                                                         *)
(* How a task gets from the outbox to a flush is TaskDelivery; here any    *)
(* task with a row may be reported on at any time.                         *)
(***************************************************************************)
EXTENDS Integers, FiniteSets

CONSTANTS
    Pages,        \* pages of the domain; a task is a (job, page) row
    Cancellers,   \* calls of CancelJob
    Blockers,     \* calls of BlockJob from the circuit breaker
    Sources,      \* how jobs start: "sitemap" with UseSitemap, "manual" without
    MaxPages      \* jobs.max_pages; 0 is no limit

ASSUME PagesAssumption ==
    /\ IsFiniteSet(Pages)
    /\ MaxPages \in Nat
    /\ Sources \subseteq {"sitemap", "manual"}
    /\ Cancellers \cap Blockers = {}

Callers   == Cancellers \cup Blockers
Open      == {"pending", "waiting"}
Done      == {"completed", "failed"}
Counted   == Open \cup Done \cup {"skipped"}    \* statuses with a counter
Stoppable == {"pending", "initializing", "running"}
Stopped   == {"cancelled", "failed", "blocked"}  \* kept by the trigger
JobTerminal == Stopped \cup {"completed"}        \* terminalJobStatuses

VARIABLES
    task,       \* tasks.status per page, "absent" without a row
    job,        \* jobs: status, total_tasks, and a counter per status
    outbox,     \* the pages with a task_outbox row
    discovery,  \* setupJobURLDiscovery: a source until it starts, "busy" or "over"
    pc,         \* a caller: "idle", "read", "picked", "done", "lost", "refused"
    picked,     \* the rows its first statement locked
    reopened    \* history: rows a late retry update took out of completed or failed

vars == <<task, job, outbox, discovery, pc, picked, reopened>>

-----------------------------------------------------------------------------
(* The triggers *)

Rows(rows, s) == Cardinality({p \in Pages : rows[p] = s})
HasRow        == {p \in Pages : task[p] # "absent"}

AtLeast0(i) == IF i < 0 THEN 0 ELSE i

\* Mutant: failed tasks do not count towards completion.
ClosedWithoutFailed(n) == n["completed"] + n["skipped"]

\* The rows that need no more work.
Closed(n) == n["completed"] + n["failed"] + n["skipped"]

\* Mutant: no status is.
PreservedNone(s) == FALSE

\* The statuses the trigger leaves alone.
Preserved(s) == s \in Stopped

(***************************************************************************)
(* update_job_counters_status_batch, after an UPDATE statement turned the  *)
(* rows `old` into `new`: every counter moves by its delta, and the job is *)
(* completed once completed, failed and skipped add up to its total.       *)
(***************************************************************************)
StatusTrigger(j, old, new) ==
    LET n        == [s \in Counted |-> AtLeast0(j.n[s] + Rows(new, s) - Rows(old, s))]
        complete == j.total > 0 /\ Closed(n) >= j.total
    IN  IF old = new THEN j
        ELSE [j EXCEPT !.n = n,
                       !.status = IF complete /\ ~Preserved(@) THEN "completed" ELSE @]

\* Mutant: the two tables the other way round.
InsertTriggerSwapped(j, old, new) ==
    [j EXCEPT !.total = @ + Rows(new, "absent") - Rows(old, "absent")]

\* Mutant: rows inserted as waiting are not counted.
InsertTriggerIgnoresWaiting(j, old, new) ==
    [j EXCEPT !.total = @ + Rows(old, "absent") - Rows(new, "absent"),
              !.n = [s \in Counted |-> IF s = "pending"
                                       THEN @[s] + Rows(new, s) - Rows(old, s) ELSE @[s]]]

\* update_job_counters_insert_batch, after rows were added.
InsertTrigger(j, old, new) ==
    [j EXCEPT !.total = @ + Rows(old, "absent") - Rows(new, "absent"),
              !.n = [s \in Counted |-> IF s \in Open
                                       THEN @[s] + Rows(new, s) - Rows(old, s) ELSE @[s]]]

\* Rows a caller's first statement updated and has not committed.
Locked == UNION {picked[c] : c \in {d \in Callers : pc[d] = "picked"}}

Init ==
    /\ task = [p \in Pages |-> "absent"]
    /\ job = [status |-> "pending", total |-> 0, n |-> [s \in Counted |-> 0]]
    /\ outbox = {}
    /\ discovery \in Sources
    /\ reopened = {}
    /\ pc = [c \in Callers |-> "idle"]
    /\ picked = [c \in Callers |-> {}]

-----------------------------------------------------------------------------
(* Discovery: setupJobURLDiscovery and processSitemap *)

\* The WAF probe says no: BlockJob, or failJobWithMessage when it fails.  There
\* is no row yet for BlockJob to skip.
RunWAFPreflight ==
    /\ discovery \in Sources
    /\ discovery' = "over"
    /\ \E s \in {"blocked", "failed"} :
          job' = [job EXCEPT !.status = IF @ \in Stoppable THEN s ELSE @]
    /\ UNCHANGED <<task, outbox, pc, picked, reopened>>

\* processSitemap enters 'initializing', or aborts if the job is not pending.
BeginSitemap ==
    /\ discovery = "sitemap"
    /\ discovery' = IF job.status = "pending" THEN "busy" ELSE "over"
    /\ job' = [job EXCEPT !.status = IF @ = "pending" THEN "initializing" ELSE @]
    /\ UNCHANGED <<task, outbox, pc, picked, reopened>>

\* No sitemap could be discovered.
SitemapFails ==
    /\ discovery = "busy" /\ HasRow = {}
    /\ discovery' = "over"
    /\ job' = [job EXCEPT !.status = IF @ \in {"pending", "initializing"} THEN "failed" ELSE @]
    /\ UNCHANGED <<task, outbox, pc, picked, reopened>>

\* transitionInitialisingToPending, and clearInitialisingAfterSitemapCancel.
OpenJob ==
    /\ discovery = "busy" /\ job.status = "initializing"
    /\ job' = [job EXCEPT !.status = "pending"]
    /\ UNCHANGED <<task, outbox, discovery, pc, picked, reopened>>

\* The loop over the batches ends, or aborts on a terminal job.
EndSitemap ==
    /\ discovery = "busy" /\ job.status # "initializing"
    /\ discovery' = "over"
    /\ UNCHANGED <<task, job, outbox, pc, picked, reopened>>

\* validateRootURLAccess: robots.txt forbids the root page or cannot be read.
\* The UPDATE looks at no status.
RefuseRoot ==
    /\ discovery = "manual"
    /\ discovery' = "over"
    /\ job' = [job EXCEPT !.status = "failed"]
    /\ UNCHANGED <<task, outbox, pc, picked, reopened>>

\* createManualRootTask, which does not look at the job either.
CreateManualRootTask(p) ==
    LET rows == [task EXCEPT ![p] = "pending"]
    IN  /\ discovery = "manual"
        /\ discovery' = "over"
        /\ task' = rows
        /\ job' = InsertTrigger(job, task, rows)
        /\ outbox' = outbox \cup {p}
        /\ UNCHANGED <<pc, picked, reopened>>

-----------------------------------------------------------------------------
(* EnqueueURLs, the batch manager, promotion: internal/db *)

\* Mutant: the limit is checked with > instead of >=.
AdmittedOneMore(S, C) ==
    LET room == IF MaxPages = 0 THEN Cardinality(S)
                ELSE AtLeast0(MaxPages + 1 - (job.total - job.n["skipped"]))
    IN  /\ C \subseteq S
        /\ Cardinality(C) = IF Cardinality(S) < room THEN Cardinality(S) ELSE room

\* The pages of a call that classifyEnqueuedTask keeps: below max_pages all of
\* them, then none.
Admitted(S, C) ==
    LET room == IF MaxPages = 0 THEN Cardinality(S)
                ELSE AtLeast0(MaxPages - (job.total - job.n["skipped"]))
    IN  /\ C \subseteq S
        /\ Cardinality(C) = IF Cardinality(S) < room THEN Cardinality(S) ELSE room

\* Mutant: without the terminal-status guard.
AcceptsAlways == TRUE

\* IsTerminalJobStatus, read under the lock of the jobs row.
Accepts == job.status \notin JobTerminal

(***************************************************************************)
(* EnqueueURLs for the pages S: a batch of the sitemap, or links a task    *)
(* found.  It holds the jobs row from the status check to the commit.  Of  *)
(* the admitted pages C the first ones, P, are pending while slots (of the *)
(* concurrency limit, of the daily quota) last, the others waiting.  A row *)
(* that exists is rewritten unless it is done; a locked one makes the call *)
(* wait, or die of a deadlock.                                             *)
(***************************************************************************)
EnqueueURLs(S, C, P) ==
    LET written  == {p \in C : task[p] \notin Done}
        status   == [p \in Pages |-> IF p \in P THEN "pending" ELSE "waiting"]
        updated  == [p \in Pages |-> IF p \in written \cap HasRow THEN status[p] ELSE task[p]]
        inserted == [p \in Pages |-> IF p \in written THEN status[p] ELSE task[p]]
    IN  /\ discovery = "busy" \/ HasRow # {}
        /\ Accepts
        /\ Admitted(S, C) /\ P \subseteq C
        /\ C \cap Locked = {}
        /\ task' = inserted
        /\ job' = InsertTrigger(StatusTrigger(job, task, updated), updated, inserted)
        /\ outbox' = outbox \cup written
        /\ UNCHANGED <<discovery, pc, picked, reopened>>

(***************************************************************************)
(* flushTaskUpdates with the updates U, in one transaction of a statement  *)
(* (and a trigger) per group.  No statement looks at the status it         *)
(* replaces, and a locked row makes it wait.                               *)
(***************************************************************************)
FlushTaskUpdates(U) ==
    LET Group(rows, g) == [p \in Pages |-> IF p \in DOMAIN U /\ U[p] = g THEN g ELSE rows[p]]
        rows1 == Group(task, "completed")
        rows2 == Group(rows1, "failed")
        rows3 == Group(rows2, "waiting")
        job1  == StatusTrigger(job, task, rows1)
        job2  == StatusTrigger(job1, rows1, rows2)
    IN  /\ DOMAIN U \cap Locked = {}
        /\ task' = rows3
        /\ job' = StatusTrigger(job2, rows2, rows3)
        /\ reopened' = reopened \cup {p \in DOMAIN U : task[p] \in Done /\ U[p] = "waiting"}
        /\ UNCHANGED <<outbox, discovery, pc, picked>>

\* promote_waiting_with_outbox, one row; locked rows are skipped.
PromoteWaitingToPending(p) ==
    LET rows == [task EXCEPT ![p] = "pending"]
    IN  /\ task[p] = "waiting" /\ p \notin Locked
        /\ task' = rows
        /\ job' = StatusTrigger(job, task, rows)
        /\ outbox' = outbox \cup {p}
        /\ UNCHANGED <<discovery, pc, picked, reopened>>

\* The sweeper is done with some outbox rows (TaskDelivery!SweeperTick).
SweeperTick(S) ==
    /\ outbox' = outbox \ S
    /\ UNCHANGED <<task, job, discovery, pc, picked, reopened>>

\* The dispatcher published the first task of the job.
MarkJobRunning ==
    /\ HasRow # {} /\ job.status \in {"pending", "initializing"}
    /\ job' = [job EXCEPT !.status = "running"]
    /\ UNCHANGED <<task, outbox, discovery, pc, picked, reopened>>

-----------------------------------------------------------------------------
(* CancelJob and BlockJob: internal/jobs/manager.go *)

\* GetJob, before the transaction.  The breaker only fires on a crawled page.
GetJob(c) ==
    /\ pc[c] = "idle"
    /\ c \in Blockers => HasRow # {}
    /\ pc' = [pc EXCEPT ![c] = IF job.status \in Stoppable THEN "read" ELSE "refused"]
    /\ UNCHANGED <<task, job, outbox, discovery, picked, reopened>>

\* The statement that skips the open rows it can see, up to the trigger's wait for
\* the jobs row.  A second caller waits for the first one's rows.
SkipOpenTasks(c) ==
    LET open == {p \in Pages : task[p] \in Open}
    IN  /\ pc[c] = "read" /\ open \cap Locked = {}
        /\ picked' = [picked EXCEPT ![c] = open]
        /\ pc' = [pc EXCEPT ![c] = "picked"]
        /\ UNCHANGED <<task, job, outbox, discovery, reopened>>

Skipped(c)    == [p \in Pages |-> IF p \in picked[c] THEN "skipped" ELSE task[p]]
AfterSkip(c)  == StatusTrigger(job, task, Skipped(c))

\* Mutant: the outbox rows stay.
CommitKeepsOutbox(c, s) ==
    /\ task' = Skipped(c)
    /\ job' = [AfterSkip(c) EXCEPT !.status = s]
    /\ pc' = [pc EXCEPT ![c] = "done"]
    /\ picked' = [picked EXCEPT ![c] = {}]
    /\ UNCHANGED <<outbox, discovery, reopened>>

\* The transaction of c commits with the job in status s; its outbox rows go.
Commit(c, s) ==
    /\ task' = Skipped(c)
    /\ job' = [AfterSkip(c) EXCEPT !.status = s]
    /\ outbox' = {}
    /\ pc' = [pc EXCEPT ![c] = "done"]
    /\ picked' = [picked EXCEPT ![c] = {}]
    /\ UNCHANGED <<discovery, reopened>>

\* CancelJob's UPDATE of the jobs row looks at no status.
CancelJob(c) ==
    /\ c \in Cancellers /\ pc[c] = "picked"
    /\ Commit(c, "cancelled")

\* BlockJob's does, after its own first statement ran the trigger.
BlockJob(c) ==
    /\ c \in Blockers /\ pc[c] = "picked"
    /\ AfterSkip(c).status \in Stoppable
    /\ Commit(c, "blocked")

\* errBlockJobRaceLost: everything rolls back and BlockJob returns nil.
BlockJobLost(c) ==
    /\ c \in Blockers /\ pc[c] = "picked"
    /\ AfterSkip(c).status \notin Stoppable
    /\ pc' = [pc EXCEPT ![c] = "lost"]
    /\ picked' = [picked EXCEPT ![c] = {}]
    /\ UNCHANGED <<task, job, outbox, discovery, reopened>>

\* A deadlock or a timeout: Execute tries again with the job as it was read, or
\* returns the error.
TransactionFails(c) ==
    /\ pc[c] = "picked"
    /\ \E next \in {"read", "refused"} : pc' = [pc EXCEPT ![c] = next]
    /\ picked' = [picked EXCEPT ![c] = {}]
    /\ UNCHANGED <<task, job, outbox, discovery, reopened>>

-----------------------------------------------------------------------------

Discovery == \/ RunWAFPreflight \/ BeginSitemap \/ SitemapFails \/ OpenJob
             \/ EndSitemap \/ RefuseRoot
             \/ \E p \in Pages : CreateManualRootTask(p)

Write == \/ \E S \in SUBSET Pages : \E C \in SUBSET S : \E P \in SUBSET C : EnqueueURLs(S, C, P)
         \/ \E D \in (SUBSET HasRow) \ {{}} : \E U \in [D -> Done \cup {"waiting"}] :
               FlushTaskUpdates(U)
         \/ \E p \in Pages : PromoteWaitingToPending(p)
         \/ \E S \in (SUBSET outbox) \ {{}} : SweeperTick(S)
         \/ MarkJobRunning

Stop(c) == \/ GetJob(c) \/ SkipOpenTasks(c) \/ CancelJob(c) \/ BlockJob(c)
           \/ BlockJobLost(c) \/ TransactionFails(c)

Next == Discovery \/ Write \/ \E c \in Callers : Stop(c)

Spec == Init /\ [][Next]_vars

-----------------------------------------------------------------------------
(* Properties *)

\* Every variable stays within its type.
TypeOK ==
    /\ task \in [Pages -> {"absent"} \cup Counted]
    /\ job \in [status : Stoppable \cup JobTerminal, total : Nat, n : [Counted -> Nat]]
    /\ outbox \subseteq Pages
    /\ discovery \in Sources \cup {"busy", "over"}
    /\ reopened \subseteq Pages
    /\ pc \in [Callers -> {"idle", "read", "picked", "done", "lost", "refused"}]
    /\ picked \in [Callers -> SUBSET Pages]

\* The counters of the jobs row are the counts of the tasks rows, whichever writers
\* interleave: the deltas of the triggers miss nothing and GREATEST(0, ...) never
\* has to hide an underflow.
CountersExact ==
    /\ job.total = Cardinality(HasRow)
    /\ \A s \in Counted : job.n[s] = Rows(task, s)

\* A job whose rows are all done or skipped is not left open: the last write that
\* closes a row also closes the job, so the periodic completion checks of cmd/app
\* and CleanupStuckJobs never find one.
NoStuckJob ==
    HasRow # {} /\ (\A p \in Pages : task[p] \notin Open) => job.status \in JobTerminal

\* A completed job has no open row, but for one that a late retry update took out of
\* its final status: the triggers of one flush, and of overlapping transactions, never
\* complete a job over rows that are still to be crawled.
NoOpenRowWhenCompleted ==
    job.status = "completed" => \A p \in Pages \ reopened : task[p] \notin Open

\* max_pages holds whatever calls of EnqueueURLs overlap: no more rows than that
\* are to be, or were, crawled.
MaxPagesKept ==
    MaxPages > 0 => Cardinality({p \in HasRow : task[p] # "skipped"}) =< MaxPages

\* No outbox row is left for a task CancelJob or BlockJob skipped.
NoSkippedInOutbox == \A p \in outbox : task[p] # "skipped"

\* A cancelled, failed or blocked job never runs or completes again, however late a
\* flush, a promotion or a discovery step comes.
StoppedForGood ==
    [][job.status \in Stopped => job'.status \in Stopped]_vars

\* What is over is over: schedules, audits and notifications take a job that has ended
\* for one that has ended.
OverForGood ==
    [][job.status \in JobTerminal => job'.status \in JobTerminal]_vars

Life == INSTANCE JobLife WITH status <- job.status

\* The status takes no other way than JobLife's, whichever of its writers come between
\* each other: in particular what stopped a job is not overwritten by its completion,
\* and discovery never fails a job that runs.
LifeKept == Life!Spec

\* BlockJob only gives up when another writer reached a terminal status first.
LostToTerminalOnly ==
    \A c \in Blockers : pc[c] = "lost" => job.status \in JobTerminal

\* When CancelJob commits, EnqueueURLs has left no row open behind it.
CancelLeavesNoOpenRow ==
    [][\A c \in Cancellers : pc[c] = "picked" /\ pc'[c] = "done"
          => \A p \in Pages : task'[p] \notin Open]_vars

Table == INSTANCE TaskTable WITH Tasks <- Pages, row <- task

\* The transactions on tasks and task_outbox are those TaskDelivery takes them for.
\* EnqueueURLs would write a skipped row, but never gets to see one; and the rows
\* that CancelJob or BlockJob skips at its commit are still as open as when it
\* picked them.
TableKept == Table!Spec
=============================================================================
