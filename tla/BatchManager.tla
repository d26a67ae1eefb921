---------------------------- MODULE BatchManager ----------------------------
(***************************************************************************)
(* The batch manager of a worker: a channel of task updates with an        *)
(* overflow map behind it, and the one goroutine that collects them into a *)
(* batch and writes the batch in one transaction, in the presence of       *)
(* outages, of updates the database will always refuse, and of Stop.       *)
(*                                                                         *)
(* An update is its number, its task and whether it is final (completed,   *)
(* failed, blocked; otherwise skipped, pending or waiting).  Of a row only *)
(* the update it shows is kept; how the statuses overwrite each other is   *)
(* in TaskDelivery.                                                        *)
(***************************************************************************)
EXTENDS Integers, Sequences, FiniteSets

CONSTANTS
    BmTasks,        \* tasks updates are about
    MaxBatchSize, BatchChannelSize, MaxConsecutiveFailures, MaxShutdownRetries,
    BmMaxUpdates,   \* bound: calls of QueueTaskUpdate
    BmRefused,      \* numbers of the updates the database always refuses
    BmMaxOutages    \* bound: transactions that fail although their rows are good

ASSUME BmLimitsAssumption ==
    /\ MaxBatchSize \in Nat \ {0} /\ BatchChannelSize \in Nat
    /\ MaxConsecutiveFailures \in Nat \ {0} /\ MaxShutdownRetries \in Nat \ {0}
ASSUME BmBoundsAssumption ==
    BmMaxUpdates \in Nat /\ BmMaxOutages \in Nat /\ BmRefused \subseteq Nat

VARIABLES
    bmFate,      \* per number: "new" or, queued, "open" until "written", "overtaken", "lost"
    updates,     \* the channel
    overflow,    \* the overflow map: at most one update of a task
    bmBatch,     \* the goroutine's batch
    consecutiveFails,
    bmPhase,     \* "run", "stopping" (stopCh closed), "final" (drained), "done"
    bmAttempt,   \* flushes tried after the drain
    bmRow,       \* per task: the update its row shows, 0 if none
    bmCounted,   \* updates counted in the daily usage and told to onBatchFlushed
    bmSpilled,   \* history: updates that were in the overflow map
    bmOutages    \* outages so far (bound)

bmQueueVars == <<updates, overflow, bmSpilled>>
bmLoopVars  == <<bmPhase, bmAttempt>>
bmDbVars    == <<bmRow, bmCounted>>
bmVars == <<bmFate, bmQueueVars, bmBatch, consecutiveFails, bmLoopVars, bmDbVars, bmOutages>>

-----------------------------------------------------------------------------

BmNumbers == 1 .. BmMaxUpdates
BmUpdates == [id : BmNumbers, task : BmTasks, final : BOOLEAN]

BmElems(s) == {s[i] : i \in DOMAIN s}
BmIds(S)   == {u.id : u \in S}

\* Everything accepted and not settled yet.
BmOpen == BmElems(updates) \cup overflow \cup BmElems(bmBatch)

Settle(S, fate) == [i \in BmNumbers |-> IF i \in BmIds(S) THEN fate ELSE bmFate[i]]

Refused(S) == {u \in S : u.id \in BmRefused}

BatchInit ==
    /\ bmFate = [i \in BmNumbers |-> "new"]
    /\ updates = <<>> /\ overflow = {} /\ bmBatch = <<>>
    /\ consecutiveFails = 0 /\ bmPhase = "run" /\ bmAttempt = 0
    /\ bmRow = [t \in BmTasks |-> 0] /\ bmCounted = {}
    /\ bmSpilled = {} /\ bmOutages = 0

-----------------------------------------------------------------------------
(* QueueTaskUpdate, by any handler *)

\* The map after an update is put into it: the last one of a task stays.
Coalesced(u) == {v \in overflow : v.task # u.task} \cup {u}

\* A full channel sends the update to the overflow map.  Nothing stops a handler
\* that outlives the shutdown of its pool from queueing after Stop.
BmQueueTaskUpdate(u) ==
    /\ \A i \in BmNumbers : bmFate[i] = "new" <=> i >= u.id
    /\ IF Len(updates) < BatchChannelSize
       THEN /\ updates' = Append(updates, u)
            /\ bmFate' = [bmFate EXCEPT ![u.id] = "open"]
            /\ UNCHANGED <<overflow, bmSpilled>>
       ELSE /\ overflow' = Coalesced(u)
            /\ bmSpilled' = bmSpilled \cup {u.id}
            /\ bmFate' = [Settle({v \in overflow : v.task = u.task}, "overtaken")
                             EXCEPT ![u.id] = "open"]
            /\ UNCHANGED updates
    /\ UNCHANGED <<bmBatch, consecutiveFails, bmLoopVars, bmDbVars, bmOutages>>

-----------------------------------------------------------------------------
(* Transactions *)

\* Mutant: every error is taken for an outage.
isRetryableErrorAlways(err) == TRUE

\* Infrastructure errors, and whatever is not a data error.
isRetryableError(err) == err # "data"

\* What a transaction over S can end with: a refused row makes it fail, and an
\* outage may come first.
Outcome(S, err) ==
    \/ err = "none"   /\ Refused(S) = {} /\ UNCHANGED bmOutages
    \/ err = "data"   /\ Refused(S) # {} /\ UNCHANGED bmOutages
    \/ err = "outage" /\ bmOutages < BmMaxOutages /\ bmOutages' = bmOutages + 1

\* The rows after S was written at once: of several updates of a task any may be
\* the last, as they are grouped by status and a group is one UPDATE.
Shows(S) ==
    /\ bmRow' \in [BmTasks -> 0 .. BmMaxUpdates]
    /\ \A t \in BmTasks : LET ids == BmIds({u \in S : u.task = t})
                          IN  IF ids = {} THEN bmRow'[t] = bmRow[t] ELSE bmRow'[t] \in ids

\* Mutant: a retry is counted as usage as well.
UsageOfAll(S) == BmIds(S)

\* The updates incrementDailyUsageForTasks counts.
Usage(S) == BmIds({u \in S : u.final})

\* Mutant: the batch is not reset after it was written.
ClearedNot(b) == b

\* batch[:0]
Cleared(b) == <<>>

\* flushTaskUpdates succeeded: rows and daily usage are one transaction, and the
\* milestones are told of the final updates.
Flushed(b) ==
    /\ Shows(BmElems(b))
    /\ bmCounted' = bmCounted \cup Usage(BmElems(b))
    /\ bmFate' = Settle(BmElems(b), "written")
    /\ bmBatch' = Cleared(b)

\* Mutant: the split ends at the first update that fails.
SparedBefore(S) ==
    SUBSET {u \in S \ Refused(S) : \A v \in Refused(S) : u.id < v.id}

\* What a split may write: all but the refused updates, less those an outage hits.
Spared(S) == SUBSET (S \ Refused(S))

\* The rows after the updates of S were written one by one in the order of s.
ShowsLast(s, S) ==
    /\ bmRow' \in [BmTasks -> 0 .. BmMaxUpdates]
    /\ \A t \in BmTasks :
          LET mine == {i \in DOMAIN s : s[i] \in S /\ s[i].task = t}
          IN  IF mine = {} THEN bmRow'[t] = bmRow[t]
              ELSE \E i \in mine : (\A j \in mine : j =< i) /\ bmRow'[t] = s[i].id

\* The batch split after a data error: an outage skips an update like a refusal.
\* Nothing is counted and nobody is told.
flushIndividualUpdates(s) ==
    \E spared \in Spared(BmElems(s)) :
        LET lost == BmElems(s) \ spared
        IN  /\ IF spared = UNION Spared(BmElems(s)) THEN UNCHANGED bmOutages
               ELSE bmOutages < BmMaxOutages /\ bmOutages' = bmOutages + 1
            /\ ShowsLast(s, spared)
            /\ bmFate' = [i \in BmNumbers |->
                  IF i \in BmIds(spared) THEN "written"
                  ELSE IF i \in BmIds(lost) THEN "lost" ELSE bmFate[i]]
            /\ bmBatch' = Cleared(s)
            /\ UNCHANGED bmCounted

-----------------------------------------------------------------------------
(* processUpdateBatches *)

\* Infrastructure errors do not count towards the split.
Failures(err) == IF isRetryableError(err) THEN consecutiveFails ELSE consecutiveFails + 1

\* flush, of the batch b: done, kept for the next time, or split.
flush(b) ==
    IF b = <<>> THEN bmBatch' = b /\ UNCHANGED <<consecutiveFails, bmFate, bmDbVars, bmOutages>>
    ELSE \/ /\ Outcome(BmElems(b), "none")
            /\ Flushed(b)
            /\ consecutiveFails' = 0
         \/ \E err \in {"data", "outage"} :
               /\ Failures(err) < MaxConsecutiveFailures \/ isRetryableError(err)
               /\ Outcome(BmElems(b), err)
               /\ bmBatch' = b
               /\ consecutiveFails' = Failures(err)
               /\ UNCHANGED <<bmFate, bmDbVars>>
         \/ /\ Refused(BmElems(b)) # {}
            /\ Failures("data") >= MaxConsecutiveFailures
            /\ flushIndividualUpdates(b)
            /\ consecutiveFails' = 0

\* The loop's select keeps choosing among what is ready after stopCh is closed.
Selecting == bmPhase \in {"run", "stopping"}

\* An update joins the batch; a full batch is flushed, again for each further
\* update as long as it fails.
BmReceive ==
    /\ Selecting /\ updates # <<>>
    /\ updates' = Tail(updates)
    /\ LET b == Append(bmBatch, Head(updates))
       IN  IF Len(b) >= MaxBatchSize THEN flush(b)
           ELSE bmBatch' = b /\ UNCHANGED <<consecutiveFails, bmFate, bmDbVars, bmOutages>>
    /\ UNCHANGED <<overflow, bmSpilled, bmLoopVars>>

\* All sequences of the members of S, each once: the order a map is read in.
Orders(S) == {s \in [1 .. Cardinality(S) -> S] : BmElems(s) = S}

\* popOverflowBatch(limit): what it may take out of the map.
Poppable(limit) ==
    IF limit =< 0 THEN {{}}
    ELSE {S \in SUBSET overflow :
             Cardinality(S) = IF Cardinality(overflow) < limit THEN Cardinality(overflow) ELSE limit}

\* The ticker: the batch is filled up from the overflow map and flushed.
BmTick ==
    /\ Selecting
    /\ \E S \in Poppable(MaxBatchSize - Len(bmBatch)) : \E s \in Orders(S) :
          /\ overflow' = overflow \ S
          /\ flush(bmBatch \o s)
    /\ UNCHANGED <<updates, bmSpilled, bmLoopVars>>

\* Stop closes stopCh.
BmStop ==
    /\ bmPhase = "run"
    /\ bmPhase' = "stopping"
    /\ UNCHANGED <<bmFate, bmQueueVars, bmBatch, consecutiveFails, bmAttempt, bmDbVars, bmOutages>>

\* The loop sees stopCh: it empties the channel and the overflow map.
BmDrain ==
    /\ bmPhase = "stopping"
    /\ bmPhase' = "final"
    /\ \E s \in Orders(overflow) : bmBatch' = bmBatch \o updates \o s
    /\ updates' = <<>> /\ overflow' = {}
    /\ UNCHANGED <<bmFate, bmSpilled, consecutiveFails, bmAttempt, bmDbVars, bmOutages>>

\* One attempt at the final flush, while there are attempts left.
BmFinalFlush ==
    /\ bmPhase = "final" /\ bmBatch # <<>>
    /\ \/ /\ bmAttempt < MaxShutdownRetries
          /\ Outcome(BmElems(bmBatch), "none")
          /\ Flushed(bmBatch)
          /\ bmPhase' = "done"
       \/ \E err \in {"data", "outage"} :
             /\ bmAttempt < MaxShutdownRetries - 1
             /\ Outcome(BmElems(bmBatch), err)
             /\ UNCHANGED <<bmFate, bmBatch, bmDbVars, bmPhase>>
    /\ bmAttempt' = bmAttempt + 1
    /\ UNCHANGED <<bmQueueVars, consecutiveFails>>

\* The last attempt failed: an infrastructure error gives the batch up, a data
\* error splits it.
BmGiveUp ==
    /\ bmPhase = "final" /\ bmBatch # <<>>
    /\ bmAttempt = MaxShutdownRetries - 1
    /\ bmPhase' = "done" /\ bmAttempt' = bmAttempt + 1
    /\ \/ /\ Outcome(BmElems(bmBatch), "outage")
          /\ bmFate' = Settle(BmElems(bmBatch), "lost")
          /\ bmBatch' = <<>>
          /\ UNCHANGED bmDbVars
       \/ /\ Refused(BmElems(bmBatch)) # {}
          /\ flushIndividualUpdates(bmBatch)
    /\ UNCHANGED <<bmQueueVars, consecutiveFails>>

\* Nothing was left to write.
BmDone ==
    /\ bmPhase = "final" /\ bmBatch = <<>>
    /\ bmPhase' = "done"
    /\ UNCHANGED <<bmFate, bmQueueVars, bmBatch, consecutiveFails, bmAttempt, bmDbVars, bmOutages>>

-----------------------------------------------------------------------------

BmQueue == \E u \in BmUpdates : BmQueueTaskUpdate(u)

BmShutdown == BmDrain \/ BmFinalFlush \/ BmGiveUp \/ BmDone

BatchNext == BmQueue \/ BmReceive \/ BmTick \/ BmStop \/ BmShutdown

BatchSpec == BatchInit /\ [][BatchNext]_bmVars

-----------------------------------------------------------------------------
(* Properties *)

\* Every variable of the batch manager stays within its type.
BatchTypeOK ==
    /\ bmFate \in [BmNumbers -> {"new", "open", "written", "overtaken", "lost"}]
    /\ updates \in Seq(BmUpdates) /\ Len(updates) =< BatchChannelSize
    /\ overflow \subseteq BmUpdates /\ bmBatch \in Seq(BmUpdates)
    /\ consecutiveFails \in 0 .. MaxConsecutiveFailures - 1
    /\ bmPhase \in {"run", "stopping", "final", "done"}
    /\ bmAttempt \in 0 .. MaxShutdownRetries
    /\ bmRow \in [BmTasks -> 0 .. BmMaxUpdates]
    /\ bmCounted \subseteq BmNumbers /\ bmSpilled \subseteq BmNumbers
    /\ bmOutages \in 0 .. BmMaxOutages

\* Without an outage no update is lost but those the database refuses: the good
\* ones that share their batch come through the split and through shutdown.
BatchLosesRefusedOnly == bmOutages = 0 => \A i \in BmNumbers : bmFate[i] = "lost" => i \in BmRefused

\* A row goes back to an older update only if one of the two was in the overflow
\* map while the other went through the channel.
BatchNoStepBack ==
    [][\A t \in BmTasks : bmRow'[t] < bmRow[t] => {bmRow[t], bmRow'[t]} \cap bmSpilled # {}]_bmVars

\* Once the load ends, no update stays in memory, poisoned batch or overflow map
\* notwithstanding, unless it was queued behind the drain of Stop.
BatchSettles == BmOpen # {} ~> BmOpen = {} \/ bmPhase = "done"

Register == INSTANCE BatchRegister
    WITH Tasks <- BmTasks, Updates <- BmUpdates,
         open <- BmOpen, row <- bmRow, counted <- bmCounted

\* The channel, the map, the batch and the transactions implement the register:
\* rows and usage change together, and no update is written or counted twice.
BatchIsRegister == Register!Spec
=============================================================================
