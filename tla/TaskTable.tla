------------------------------ MODULE TaskTable ------------------------------
(***************************************************************************)
(* What the tables tasks and task_outbox of one job are to their writers:  *)
(* a row is offered for a crawl by the transaction that gives it its       *)
(* outbox row, only a report takes it out of a final status, and the       *)
(* transaction that skips rows empties the outbox.  TaskDelivery and       *)
(* JobRecords look at these two tables from two sides, each with a         *)
(* simpler neighbour in the place of the other; both are shown to stay     *)
(* within this.                                                            *)
(***************************************************************************)
CONSTANT Tasks

VARIABLES
    row,       \* per task: tasks.status, "absent" without a row
    outbox     \* the tasks with an outbox row

Open == {"pending", "waiting"}
Done == {"completed", "failed"}

Init == row = [t \in Tasks |-> "absent"] /\ outbox = {}

\* The rows of S get a status of `states`, the others keep theirs.
Write(S, states) ==
    /\ row' \in [Tasks -> {"absent", "skipped"} \cup Open \cup Done]
    /\ \A t \in Tasks : IF t \in S THEN row'[t] \in states ELSE row'[t] = row[t]

\* EnqueueURLs and promotion: nobody offers a row that was reported on or skipped.
Offer(S) ==
    /\ \A t \in S : row[t] \in {"absent"} \cup Open
    /\ Write(S, Open)
    /\ outbox' = outbox \cup S

\* The sweeper is done with the outbox rows of S.
Sweep(S) ==
    /\ outbox' = outbox \ S
    /\ UNCHANGED row

\* A flush writes what handlers say of S, whatever the rows said before.
Report(S) ==
    /\ \A t \in S : row[t] # "absent"
    /\ Write(S, Done \cup {"waiting"})
    /\ UNCHANGED outbox

\* CancelJob and BlockJob: the rows of S, open to the last, and the whole outbox.
Skip(S) ==
    /\ \A t \in S : row[t] \in Open
    /\ Write(S, {"skipped"})
    /\ outbox' = {}

Next == \E S \in SUBSET Tasks : Offer(S) \/ Sweep(S) \/ Report(S) \/ Skip(S)

Spec == Init /\ [][Next]_<<row, outbox>>

\* The sweeper never finds an outbox row of a task that is not to be crawled.
OutboxIsLive == \A t \in outbox : row[t] \notin {"absent", "skipped"}
=============================================================================
