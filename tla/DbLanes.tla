------------------------------- MODULE DbLanes -------------------------------
(***************************************************************************)
(* Access of one process to Postgres: the retries of its start, the two    *)
(* lanes of transactions with their semaphores, the retries of a           *)
(* transaction, and the pressure controller that lowers and restores the   *)
(* limit of the bulk lane.                                                 *)
(*                                                                         *)
(* The moving average and the cooldowns decide when the controller acts;   *)
(* here it may act, or not, at any sample while the load calls for it.     *)
(***************************************************************************)
EXTENDS Integers, FiniteSets

CONSTANTS
    LnCallers,                       \* goroutines that call Execute or ExecuteControl
    BulkSlots, ControlSlots,         \* capacities of the two semaphores
    PressureInitial, PressureMin, PressureStepDown, PressureStepUp,
    MaxTxRetries, MaxBootAttempts,
    LnMaxSpikes                      \* bound: times the load rises

ASSUME LnAssumption ==
    /\ BulkSlots \in Nat \ {0} /\ ControlSlots \in Nat \ {0}
    /\ PressureMin \in 1 .. BulkSlots /\ PressureInitial \in PressureMin .. BulkSlots
    /\ PressureStepDown \in Nat \ {0} /\ PressureStepUp \in Nat \ {0}
    /\ MaxTxRetries \in Nat \ {0} /\ MaxBootAttempts \in Nat \ {0} /\ LnMaxSpikes \in Nat

VARIABLES
    lnBoot,      \* "connecting", "up", "exited"
    lnBootTries, \* failed attempts to connect
    lnLane,      \* per caller: the lane of its call, "bulk" or "control"
    lnAt,        \* per caller: "idle", "asks", "checked", "executes", "waits", "ok", "error"
    lnAttempt,   \* per caller: attempts that failed
    lnApplied,   \* per caller: times the effect of its call is in the database
    lnDoubt,     \* per caller: a reply to a COMMIT of its call was lost
    lnBulk, lnControl,   \* slots taken: the lengths of the two semaphores
    lnLimit,     \* the pressure controller's limit
    lnLoad,      \* what the moving average says: "low", "high" or neither ("fair")
    lnSpikes     \* rises of the load so far (bound)

lnBootVars  == <<lnBoot, lnBootTries>>
lnSlotVars  == <<lnBulk, lnControl>>
lnCallVars  == <<lnLane, lnAt, lnAttempt, lnApplied, lnDoubt>>
lnPressVars == <<lnLimit, lnLoad, lnSpikes>>
laneVars == <<lnBootVars, lnSlotVars, lnCallVars, lnPressVars>>

-----------------------------------------------------------------------------

LnBulk(c) == lnLane[c] = "bulk"

LanesInit ==
    /\ lnBoot = "connecting" /\ lnBootTries = 0
    /\ lnLane = [c \in LnCallers |-> "bulk"]
    /\ lnAt = [c \in LnCallers |-> "idle"]
    /\ lnAttempt = [c \in LnCallers |-> 0]
    /\ lnApplied = [c \in LnCallers |-> 0]
    /\ lnDoubt = [c \in LnCallers |-> FALSE]
    /\ lnBulk = 0 /\ lnControl = 0
    /\ lnLimit = PressureInitial /\ lnLoad = "low" /\ lnSpikes = 0

-----------------------------------------------------------------------------
(* InitFromEnvWithRetry *)

LnConnect ==
    /\ lnBoot = "connecting"
    /\ lnBoot' = "up" /\ lnBootTries' = 0
    /\ UNCHANGED <<lnSlotVars, lnCallVars, lnPressVars>>

\* A failed attempt is repeated; one that is not retryable, or the last, ends the process.
LnConnectFails ==
    /\ lnBoot = "connecting"
    /\ lnBootTries' = lnBootTries + 1
    /\ lnBoot' \in IF lnBootTries' < MaxBootAttempts THEN {"connecting", "exited"} ELSE {"exited"}
    /\ UNCHANGED <<lnSlotVars, lnCallVars, lnPressVars>>

-----------------------------------------------------------------------------
(* PressureController.Record *)

\* Mutant: the limit is never raised again.
RaisedNever == lnLimit

Raised == IF lnLimit + PressureStepUp > BulkSlots THEN BulkSlots ELSE lnLimit + PressureStepUp

Lowered == IF lnLimit - PressureStepDown < PressureMin THEN PressureMin
           ELSE lnLimit - PressureStepDown

\* The sample of a bulk call may move the limit.
LnRecord(c) ==
    \/ UNCHANGED lnLimit
    \/ LnBulk(c) /\ lnLoad = "high" /\ lnLimit' = Lowered
    \/ LnBulk(c) /\ lnLoad = "low"  /\ lnLimit' = Raised

LnLoadChanges ==
    /\ \/ lnLoad # "high" /\ lnSpikes < LnMaxSpikes
          /\ lnLoad' = "high" /\ lnSpikes' = lnSpikes + 1
       \/ lnLoad = "high" /\ lnLoad' = "fair" /\ UNCHANGED lnSpikes
       \/ lnLoad = "fair" /\ lnLoad' = "low"  /\ UNCHANGED lnSpikes
    /\ UNCHANGED <<lnBootVars, lnSlotVars, lnCallVars, lnLimit>>

-----------------------------------------------------------------------------
(* executeWithContextLane *)

LnMove(c, to) == lnAt' = [lnAt EXCEPT ![c] = to]

LnLast(c) == lnAttempt[c] + 1 = MaxTxRetries

\* A retryable error: wait for the next attempt, or give up after the last one.
LnFailed(c) ==
    IF LnLast(c) THEN LnMove(c, "error") /\ UNCHANGED lnAttempt
    ELSE LnMove(c, "waits") /\ lnAttempt' = [lnAttempt EXCEPT ![c] = @ + 1]

LnCall(c, lane) ==
    /\ lnBoot = "up" /\ lnAt[c] \in {"idle", "ok", "error"}
    /\ lnLane' = [lnLane EXCEPT ![c] = lane]
    /\ LnMove(c, "asks")
    /\ lnAttempt' = [lnAttempt EXCEPT ![c] = 0]
    /\ lnApplied' = [lnApplied EXCEPT ![c] = 0]
    /\ lnDoubt' = [lnDoubt EXCEPT ![c] = FALSE]
    /\ UNCHANGED <<lnBootVars, lnSlotVars, lnPressVars>>

\* ensurePoolCapacity: the bulk lane sheds at the soft limit, without taking a slot.
LnAsk(c) ==
    /\ lnAt[c] = "asks"
    /\ IF LnBulk(c) /\ lnBulk >= lnLimit THEN LnFailed(c)
       ELSE LnMove(c, "checked") /\ UNCHANGED lnAttempt
    /\ UNCHANGED <<lnBootVars, lnSlotVars, lnLane, lnApplied, lnDoubt, lnPressVars>>

LnTake(c) == IF LnBulk(c)
             THEN lnBulk < BulkSlots /\ lnBulk' = lnBulk + 1 /\ UNCHANGED lnControl
             ELSE lnControl < ControlSlots /\ lnControl' = lnControl + 1 /\ UNCHANGED lnBulk

\* Mutant: a bulk call gives a slot of the control lane back.
LnGiveOther(c) == lnControl' = lnControl - 1 /\ UNCHANGED lnBulk

LnGive(c) == IF LnBulk(c) THEN lnBulk' = lnBulk - 1 /\ UNCHANGED lnControl
             ELSE lnControl' = lnControl - 1 /\ UNCHANGED lnBulk

\* It takes a slot of its lane's semaphore.
LnAcquire(c) ==
    /\ lnAt[c] = "checked"
    /\ LnTake(c)
    /\ LnMove(c, "executes")
    /\ UNCHANGED <<lnBootVars, lnLane, lnAttempt, lnApplied, lnDoubt, lnPressVars>>

\* File descriptors are short: the slot is given back at once.
LnFdPressure(c) ==
    /\ lnAt[c] = "checked"
    /\ IF LnBulk(c) THEN lnBulk < BulkSlots ELSE lnControl < ControlSlots
    /\ LnFailed(c)
    /\ UNCHANGED <<lnBootVars, lnSlotVars, lnLane, lnApplied, lnDoubt, lnPressVars>>

\* The caller's deadline ends the wait for a slot, and with it the call.
LnDeadline(c) ==
    /\ lnAt[c] \in {"checked", "waits"}
    /\ LnMove(c, "error")
    /\ UNCHANGED <<lnBootVars, lnSlotVars, lnLane, lnAttempt, lnApplied, lnDoubt, lnPressVars>>

LnBackoff(c) ==
    /\ lnAt[c] = "waits"
    /\ LnMove(c, "asks")
    /\ UNCHANGED <<lnBootVars, lnSlotVars, lnLane, lnAttempt, lnApplied, lnDoubt, lnPressVars>>

\* executeOnceWithContext commits.
LnCommit(c) ==
    /\ lnAt[c] = "executes"
    /\ LnGive(c)
    /\ LnMove(c, "ok")
    /\ lnApplied' = [lnApplied EXCEPT ![c] = @ + 1]
    /\ LnRecord(c)
    /\ UNCHANGED <<lnBootVars, lnLane, lnAttempt, lnDoubt, lnLoad, lnSpikes>>

\* "failed to commit transaction" is retryable, although the COMMIT may have been
\* carried out and only its reply lost.
LnCommitFails(c) ==
    /\ lnAt[c] = "executes"
    /\ LnGive(c)
    /\ LnFailed(c)
    /\ \E n \in {0, 1} : lnApplied' = [lnApplied EXCEPT ![c] = @ + n]
    /\ lnDoubt' = [lnDoubt EXCEPT ![c] = TRUE]
    /\ IF LnLast(c) THEN LnRecord(c) ELSE UNCHANGED lnLimit
    /\ UNCHANGED <<lnBootVars, lnLane, lnLoad, lnSpikes>>

\* Mutant: a transaction whose callback failed is committed.
LnRolledBackNot(c) == lnApplied[c] + 1

LnRolledBack(c) == lnApplied[c]

\* The callback fails, or BEGIN does, and everything is rolled back: a connection
\* error, a timeout or a deadlock is tried again, no rows, a concurrency block or a
\* data error is returned.
LnExecFails(c) ==
    /\ lnAt[c] = "executes"
    /\ LnGive(c)
    /\ lnApplied' = [lnApplied EXCEPT ![c] = LnRolledBack(c)]
    /\ \/ /\ LnFailed(c)
          /\ IF LnLast(c) THEN LnRecord(c) ELSE UNCHANGED lnLimit
       \/ /\ LnMove(c, "error") /\ UNCHANGED lnAttempt
          /\ LnRecord(c)
    /\ UNCHANGED <<lnBootVars, lnLane, lnDoubt, lnLoad, lnSpikes>>

-----------------------------------------------------------------------------

LnStep(c) == \/ LnAsk(c) \/ LnAcquire(c) \/ LnFdPressure(c) \/ LnDeadline(c) \/ LnBackoff(c)
             \/ LnCommit(c) \/ LnCommitFails(c) \/ LnExecFails(c)

LanesNext == \/ LnConnect \/ LnConnectFails \/ LnLoadChanges
             \/ \E c \in LnCallers, lane \in {"bulk", "control"} : LnCall(c, lane)
             \/ \E c \in LnCallers : LnStep(c)

LanesSpec == LanesInit /\ [][LanesNext]_laneVars

LnSomeBulkCall == \E c \in LnCallers : LnCall(c, "bulk")
LnSomeAcquire  == \E c \in LnCallers : LnBulk(c) /\ LnAcquire(c)
LnSomeRaise    == \E c \in LnCallers : LnCommit(c) /\ lnLimit' > lnLimit

-----------------------------------------------------------------------------
(* Properties *)

\* Every variable of the lanes stays within its type.
LanesTypeOK ==
    /\ lnBoot \in {"connecting", "up", "exited"} /\ lnBootTries \in 0 .. MaxBootAttempts
    /\ lnLane \in [LnCallers -> {"bulk", "control"}]
    /\ lnAt \in [LnCallers -> {"idle", "asks", "checked", "executes", "waits", "ok", "error"}]
    /\ lnAttempt \in [LnCallers -> 0 .. MaxTxRetries - 1]
    /\ lnApplied \in [LnCallers -> 0 .. MaxTxRetries]
    /\ lnDoubt \in [LnCallers -> BOOLEAN]
    /\ lnBulk \in 0 .. BulkSlots /\ lnControl \in 0 .. ControlSlots
    /\ lnLimit \in PressureMin .. BulkSlots
    /\ lnLoad \in {"low", "fair", "high"} /\ lnSpikes \in 0 .. LnMaxSpikes

\* No path through sheds, refusals, deadlines and failures keeps a slot or gives
\* back one it does not have: the semaphores hold what the executing calls took.
LaneSlotsExact ==
    /\ lnBulk = Cardinality({c \in LnCallers : LnBulk(c) /\ lnAt[c] = "executes"})
    /\ lnControl = Cardinality({c \in LnCallers : ~LnBulk(c) /\ lnAt[c] = "executes"})

\* Unless the reply to a COMMIT was lost, the effect of a call that returned nil is
\* in the database once, and nothing of a call that returned an error.
LaneHonest ==
    \A c \in LnCallers : ~lnDoubt[c] =>
        lnApplied[c] = IF lnAt[c] = "ok" THEN 1 ELSE 0

\* Shed load comes back: the limit returns to the ceiling when the load that
\* lowered it is over, also from the floor.
LaneRestores == lnBoot = "up" ~> lnLimit = BulkSlots
=============================================================================
