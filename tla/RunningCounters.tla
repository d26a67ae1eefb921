--------------------------- MODULE RunningCounters ---------------------------
(***************************************************************************)
(* The concurrency limit of one active job: the dispatcher's gate on the   *)
(* job's field of the hash hover:running, incremented after a publish,     *)
(* decremented in two commands after an acknowledgement, and rebuilt by a  *)
(* reconcile that reads the pending entries list and writes later.         *)
(*                                                                         *)
(* Tasks are counted, not named: TaskDelivery follows them.  Pacing and a  *)
(* failed publish are one failing Publish.                                 *)
(***************************************************************************)
EXTENDS Integers

CONSTANTS
    Concurrency,  \* jobs.concurrency, or the fallback
    MaxTasks,     \* bound: entries that ever come into the ZSET
    MaxFaults     \* bound: failed commands and crashes

ASSUME ConcurrencyAssumption == Concurrency \in Nat \ {0}
ASSUME BoundsAssumption == MaxTasks \in Nat /\ MaxFaults \in Nat

VARIABLES
    scheduled,  \* entries that came into the ZSET so far (bound)
    due,        \* entries in the ZSET
    stream,     \* published messages nobody read yet
    pel,        \* messages in the pending entries list
    ctr,        \* the job's field; 0 if there is none
    dpc,        \* dispatchJob: "idle", "allowed", "published"
    copies,     \* handlers at work on a message that another one acknowledged
    acked,      \* handlers between Ack and HINCRBY -1
    zeroed,     \* handlers between that and the HDEL of a field not above 0
    rec,        \* reconcileMu and the pass it guards: "free", "listed", "probed"
    prev,       \* the field the pass read with GetAll
    count,      \* the count it will write
    faults,     \* faults so far (bound)
    undercounted \* history: did a step leave the field below what is under way?

taskVars  == <<scheduled, due, stream, pel>>
recVars   == <<rec, prev, count>>
countersVars == <<taskVars, ctr, dpc, copies, acked, zeroed, recVars, faults, undercounted>>

-----------------------------------------------------------------------------

InFlight == stream + pel

\* What the field should say: the messages in flight and the acknowledged ones
\* still to be decremented, less the one whose increment is still to come.
Expected == InFlight + acked - (IF dpc = "published" THEN 1 ELSE 0)

Faulty == faults < MaxFaults /\ faults' = faults + 1

\* Keep the record of steps that undercount.
Record == undercounted' = (undercounted \/ ctr' < Expected')

CountersInit ==
    /\ scheduled = 0 /\ due = 0 /\ stream = 0 /\ pel = 0
    /\ ctr = 0
    /\ dpc = "idle" /\ copies = 0 /\ acked = 0 /\ zeroed = 0
    /\ rec = "free" /\ prev = 0 /\ count = 0
    /\ faults = 0 /\ undercounted = FALSE

\* The sweeper's ZADD.
Schedule ==
    /\ scheduled < MaxTasks
    /\ scheduled' = scheduled + 1
    /\ due' = due + 1
    /\ UNCHANGED <<stream, pel, ctr, dpc, copies, acked, zeroed, recVars, faults, undercounted>>

-----------------------------------------------------------------------------
(* The dispatcher: internal/broker/dispatcher.go *)

\* Mutant: one more than the limit.
BelowInclusive == ctr =< Concurrency

\* The comparison of CanDispatch.
Below == ctr < Concurrency

\* Mutant: without the early return on an empty list of due items.
CanDispatchAnyway ==
    /\ dpc = "idle" /\ Below
    /\ dpc' = "allowed"
    /\ UNCHANGED <<taskVars, ctr, copies, acked, zeroed, recVars, faults, undercounted>>

\* dispatchJob asks the gate for a due entry.
CanDispatch ==
    /\ dpc = "idle" /\ due > 0 /\ Below
    /\ dpc' = "allowed"
    /\ UNCHANGED <<taskVars, ctr, copies, acked, zeroed, recVars, faults, undercounted>>

\* publishAndRemove.
Publish ==
    /\ dpc = "allowed"
    /\ due' = due - 1
    /\ stream' = stream + 1
    /\ dpc' = "published"
    /\ UNCHANGED <<scheduled, pel, ctr, copies, acked, zeroed, recVars, faults, undercounted>>

\* The pacer pushes back, or a command fails: the entry stays.
PublishFails ==
    /\ dpc = "allowed" /\ Faulty
    /\ dpc' = "idle"
    /\ UNCHANGED <<taskVars, ctr, copies, acked, zeroed, recVars, undercounted>>

Increment ==
    /\ dpc = "published"
    /\ ctr' = ctr + 1
    /\ dpc' = "idle"
    /\ UNCHANGED <<taskVars, copies, acked, zeroed, recVars, faults, undercounted>>

\* A failed increment is logged, and the message is out.
IncrementFails ==
    /\ dpc = "published" /\ Faulty
    /\ dpc' = "idle"
    /\ UNCHANGED <<taskVars, ctr, copies, acked, zeroed, recVars>>
    /\ Record

-----------------------------------------------------------------------------
(* The workers: internal/jobs/stream_worker.go *)

ReadNonBlocking ==
    /\ stream > 0
    /\ stream' = stream - 1
    /\ pel' = pel + 1
    /\ UNCHANGED <<scheduled, due, ctr, dpc, copies, acked, zeroed, recVars, faults, undercounted>>

\* A retry is put back into the ZSET by the command that acknowledges.
Retried == \/ UNCHANGED <<scheduled, due>>
           \/ scheduled < MaxTasks /\ scheduled' = scheduled + 1 /\ due' = due + 1

\* handleOutcome or reclaimStaleMessages acknowledges.  A handler that took longer
\* than MinIdleTime may have had its message reclaimed: then another one has it.
Ack ==
    /\ pel > 0
    /\ pel' = pel - 1
    /\ acked' = acked + 1
    /\ Retried
    /\ \/ UNCHANGED <<copies, faults>>
       \/ copies' = copies + 1 /\ Faulty
    /\ UNCHANGED <<stream, ctr, dpc, zeroed, recVars>>
    /\ Record

\* XACK of a message no longer pending is no error: this handler decrements too.
AckAgain ==
    /\ copies > 0
    /\ copies' = copies - 1
    /\ acked' = acked + 1
    /\ Retried
    /\ UNCHANGED <<stream, pel, ctr, dpc, zeroed, recVars, faults>>
    /\ Record

\* Decrement, its HINCRBY: a result that is not above 0 calls for an HDEL.
Decrement ==
    /\ acked > 0
    /\ acked' = acked - 1
    /\ ctr' = ctr - 1
    /\ zeroed' = IF ctr' =< 0 THEN zeroed + 1 ELSE zeroed
    /\ UNCHANGED <<taskVars, dpc, copies, recVars, faults, undercounted>>

DecrementFails ==
    /\ acked > 0 /\ Faulty
    /\ acked' = acked - 1
    /\ UNCHANGED <<taskVars, ctr, dpc, copies, zeroed, recVars, undercounted>>

\* Its HDEL, whatever the field says by now.
DeleteZero ==
    /\ zeroed > 0
    /\ zeroed' = zeroed - 1
    /\ ctr' = 0
    /\ UNCHANGED <<taskVars, dpc, copies, acked, recVars, faults>>
    /\ Record

\* A failed HDEL is logged.
DeleteZeroFails ==
    /\ zeroed > 0 /\ Faulty
    /\ zeroed' = zeroed - 1
    /\ UNCHANGED <<taskVars, ctr, dpc, copies, acked, recVars, undercounted>>

-----------------------------------------------------------------------------
(* Reconciliation: reconcileCounters, from its ticker or from TriggerReconcile *)

\* runReconcileSerialised holds the lock for the pass; who finds it taken returns.
\* A failed GetAll leaves the pass without the present field.
ReconcileBegin ==
    /\ rec = "free"
    /\ rec' = "listed"
    /\ \/ prev' = ctr /\ UNCHANGED faults
       \/ prev' = 0 /\ Faulty
    /\ UNCHANGED <<taskVars, ctr, dpc, copies, acked, zeroed, count, undercounted>>

\* PendingCount; if it fails the present field is kept.
ReconcileProbe ==
    /\ rec = "listed"
    /\ rec' = "probed"
    /\ \/ count' = pel /\ UNCHANGED faults
       \/ count' = prev /\ Faulty
    /\ UNCHANGED <<taskVars, ctr, dpc, copies, acked, zeroed, prev, undercounted>>

\* Mutant: without the DEL a field is overwritten, and never removed.
ReconciledKeepingZeros(n) == IF n > 0 THEN n ELSE ctr

\* The field after the script: deleted, and set again if the count is above 0.
Reconciled(n) == IF n > 0 THEN n ELSE 0

ReconcileWrite ==
    /\ rec = "probed"
    /\ rec' = "free"
    /\ ctr' = Reconciled(count)
    /\ UNCHANGED <<taskVars, dpc, copies, acked, zeroed, prev, count, faults>>
    /\ Record

ReconcileWriteFails ==
    /\ rec = "probed" /\ Faulty
    /\ rec' = "free"
    /\ UNCHANGED <<taskVars, ctr, dpc, copies, acked, zeroed, prev, count, undercounted>>

\* The worker dies and starts again; its messages stay in the list.
WorkerCrash ==
    /\ Faulty
    /\ dpc' = "idle" /\ copies' = 0 /\ acked' = 0 /\ zeroed' = 0 /\ rec' = "free"
    /\ UNCHANGED <<taskVars, ctr, prev, count>>
    /\ Record

-----------------------------------------------------------------------------

Dispatcher == CanDispatch \/ Publish \/ PublishFails \/ Increment \/ IncrementFails

Workers    == \/ ReadNonBlocking \/ Ack \/ AckAgain
              \/ Decrement \/ DecrementFails \/ DeleteZero \/ DeleteZeroFails

Reconcile  == ReconcileBegin \/ ReconcileProbe \/ ReconcileWrite \/ ReconcileWriteFails

CountersNext == Schedule \/ Dispatcher \/ Workers \/ Reconcile \/ WorkerCrash

CountersSpec == CountersInit /\ [][CountersNext]_countersVars

-----------------------------------------------------------------------------
(* Properties *)

\* Every variable stays within its type; only the field itself may be negative.
CountersTypeOK ==
    /\ scheduled \in 0 .. MaxTasks /\ due \in 0 .. scheduled
    /\ stream \in Nat /\ pel \in Nat /\ copies \in Nat /\ acked \in Nat /\ zeroed \in Nat
    /\ ctr \in Int /\ prev \in Int /\ count \in Int
    /\ dpc \in {"idle", "allowed", "published"}
    /\ dpc = "allowed" => due > 0
    /\ rec \in {"free", "listed", "probed"}
    /\ faults \in 0 .. MaxFaults /\ undercounted \in BOOLEAN

\* The gate keeps the job's limit although it is asked before the publish and the
\* increment comes after it, and although handlers decrement in between: only a
\* step that undercounts (an HDEL over an increment, a reconcile that cannot see
\* unread messages, a second acknowledgement, a failed command) can let more through.
LimitUnlessUndercounted == ~undercounted => InFlight =< Concurrency

\* The gate heals: however the field drifted, every due entry is dispatched.
DueDispatched == due > 0 ~> due = 0
=============================================================================
