---------------------------- MODULE HtmlPersister ----------------------------
(***************************************************************************)
(* The HTML of crawled pages on its way to cold storage: a bounded queue   *)
(* that drops what does not fit, workers that upload and write the         *)
(* metadata of a batch of uploads to the tasks rows, and the shutdown of   *)
(* the worker service, which closes the queue.                             *)
(*                                                                         *)
(* The batch manager is abstracted to the moment at which it writes a      *)
(* page's result; BatchManager has the rest.                               *)
(***************************************************************************)
EXTENDS Integers, Sequences, SequencesExt

CONSTANTS
    HpPages,        \* pages whose HTML is captured, each crawled once
    HpWorkers,      \* upload workers
    HpQueueSize, HpBatchSize,
    HpRetained,     \* batches of rows a worker retains when writes fail (8 in the code)
    HpMaxFaults     \* bound: failed uploads and failed writes

ASSUME HpAssumption ==
    /\ HpWorkers # {} /\ HpQueueSize \in Nat \ {0} /\ HpBatchSize \in Nat \ {0}
    /\ HpRetained \in Nat \ {0} /\ HpMaxFaults \in Nat

VARIABLES
    hpPage,    \* per page: where its payload is
    hpRow,     \* per page: its tasks row, "open", "queued" (update queued), "completed"
    hpQueue,   \* the channel
    hpAt,      \* per worker: "waits", "uploads", "ended"
    hpUpload,  \* per worker: the page it uploads
    hpBatch,   \* per worker: uploaded pages whose metadata it has not written
    hpStop,    \* the shutdown: "no", "signal", "flagged", "closed", "done"
    hpFaults   \* faults so far (bound)

hpWorkVars == <<hpQueue, hpAt, hpUpload, hpBatch>>
htmlVars == <<hpPage, hpRow, hpWorkVars, hpStop, hpFaults>>

-----------------------------------------------------------------------------

HpNoPage == "none"

HtmlInit ==
    /\ hpPage = [p \in HpPages |-> "crawled"] /\ hpRow = [p \in HpPages |-> "open"]
    /\ hpQueue = <<>>
    /\ hpAt = [w \in HpWorkers |-> "waits"]
    /\ hpUpload = [w \in HpWorkers |-> HpNoPage] /\ hpBatch = [w \in HpWorkers |-> <<>>]
    /\ hpStop = "no" /\ hpFaults = 0

HpFault == hpFaults < HpMaxFaults /\ hpFaults' = hpFaults + 1

HpTo(p, to) == hpPage' = [hpPage EXCEPT ![p] = to]

HpClosed == hpStop \in {"closed", "done"}

-----------------------------------------------------------------------------
(* handleOutcome and the batch manager *)

\* Enqueue looks at stopped ...
HpOffer(p) ==
    /\ hpPage[p] = "crawled"
    /\ HpTo(p, IF hpStop \in {"no", "signal"} THEN "offered" ELSE "dropped")
    /\ UNCHANGED <<hpRow, hpWorkVars, hpStop, hpFaults>>

\* ... and sends, if there is room.  To send on a closed channel is a panic.
HpSend(p) ==
    /\ hpPage[p] = "offered"
    /\ IF HpClosed THEN HpTo(p, "panic") /\ UNCHANGED hpQueue
       ELSE IF Len(hpQueue) < HpQueueSize
       THEN HpTo(p, "queued") /\ hpQueue' = Append(hpQueue, p)
       ELSE HpTo(p, "dropped") /\ UNCHANGED hpQueue
    /\ UNCHANGED <<hpRow, hpAt, hpUpload, hpBatch, hpStop, hpFaults>>

\* QueueTaskUpdate, after Enqueue has returned.
HpQueueUpdate(p) ==
    /\ hpPage[p] \notin {"crawled", "offered", "panic", "lost"} /\ hpRow[p] = "open"
    /\ hpRow' = [hpRow EXCEPT ![p] = "queued"]
    /\ UNCHANGED <<hpPage, hpWorkVars, hpStop, hpFaults>>

\* A flush of the batch manager.
HpFlushUpdate(p) ==
    /\ hpRow[p] = "queued"
    /\ hpRow' = [hpRow EXCEPT ![p] = "completed"]
    /\ UNCHANGED <<hpPage, hpWorkVars, hpStop, hpFaults>>

\* The signal to stop cancels the handlers; one that has not acknowledged its
\* message yet ends early.
HpAbort(p) ==
    /\ hpStop = "signal" /\ hpPage[p] = "crawled"
    /\ HpTo(p, "lost")
    /\ UNCHANGED <<hpRow, hpWorkVars, hpStop, hpFaults>>

-----------------------------------------------------------------------------
(* workerLoop *)

HpReceive(w) ==
    /\ hpAt[w] = "waits" /\ hpQueue # <<>>
    /\ hpUpload' = [hpUpload EXCEPT ![w] = Head(hpQueue)]
    /\ hpQueue' = Tail(hpQueue)
    /\ hpAt' = [hpAt EXCEPT ![w] = "uploads"]
    /\ HpTo(Head(hpQueue), "uploading")
    /\ UNCHANGED <<hpRow, hpBatch, hpStop, hpFaults>>

\* The condition of BatchUpsertTaskHTMLMetadata: no row is ever 'running'.
HpMatches(p) == hpRow[p] = "completed"

\* A write of the batch s of worker w by BatchUpsertTaskHTMLMetadata: rows that do
\* not match are no error, and the batch is dropped with them.
HpWritten(w, s) ==
    /\ hpBatch' = [hpBatch EXCEPT ![w] = <<>>]
    /\ hpPage' = [p \in HpPages |-> IF p \notin Range(s) THEN hpPage[p]
                                    ELSE IF HpMatches(p) THEN "stamped" ELSE "missed"]
    /\ UNCHANGED hpFaults

\* A failed write retains the batch, but for the oldest rows beyond the cap.
HpWriteFails(w, s) ==
    LET excess == IF Len(s) > HpRetained * HpBatchSize THEN Len(s) - HpRetained * HpBatchSize ELSE 0
    IN  /\ HpFault
        /\ hpBatch' = [hpBatch EXCEPT ![w] = SubSeq(s, excess + 1, Len(s))]
        /\ hpPage' = [p \in HpPages |->
              IF p \in Range(SubSeq(s, 1, excess)) THEN "forgotten"
              ELSE IF p \in Range(s) THEN "batched" ELSE hpPage[p]]

HpFlush(w, s) == HpWritten(w, s) \/ HpWriteFails(w, s)

\* The ticker fires.
HpTick(w) ==
    /\ hpAt[w] = "waits" /\ hpBatch[w] # <<>>
    /\ HpFlush(w, hpBatch[w])
    /\ UNCHANGED <<hpRow, hpQueue, hpAt, hpUpload, hpStop>>

\* uploadOne succeeds: the row joins the batch, and a full batch is flushed.
HpUploaded(w) ==
    /\ hpAt[w] = "uploads"
    /\ LET s == Append(hpBatch[w], hpUpload[w])
       IN  IF Len(s) >= HpBatchSize THEN HpFlush(w, s)
           ELSE /\ hpBatch' = [hpBatch EXCEPT ![w] = s] /\ HpTo(hpUpload[w], "batched")
                /\ UNCHANGED hpFaults
    /\ hpAt' = [hpAt EXCEPT ![w] = "waits"]
    /\ hpUpload' = [hpUpload EXCEPT ![w] = HpNoPage]
    /\ UNCHANGED <<hpRow, hpQueue, hpStop>>

\* uploadOne fails, or runs into its timeout: the payload is dropped.
HpUploadFails(w) ==
    /\ hpAt[w] = "uploads" /\ HpFault
    /\ HpTo(hpUpload[w], "failed")
    /\ hpAt' = [hpAt EXCEPT ![w] = "waits"]
    /\ hpUpload' = [hpUpload EXCEPT ![w] = HpNoPage]
    /\ UNCHANGED <<hpRow, hpQueue, hpBatch, hpStop>>

\* Mutant: a worker ends as soon as the channel is closed.
HpDrainedNot == HpClosed

\* A closed channel still yields what is in it.
HpDrained == HpClosed /\ hpQueue = <<>>

\* The worker flushes a last time and ends; what that flush cannot write is gone.
HpEnd(w) ==
    /\ hpAt[w] = "waits" /\ HpDrained
    /\ IF hpBatch[w] = <<>> THEN UNCHANGED <<hpPage, hpBatch, hpFaults>>
       ELSE HpFlush(w, hpBatch[w])
    /\ hpAt' = [hpAt EXCEPT ![w] = "ended"]
    /\ UNCHANGED <<hpRow, hpQueue, hpUpload, hpStop>>

-----------------------------------------------------------------------------
(* The shutdown of the worker service *)

HpSignal ==
    /\ hpStop = "no" /\ hpStop' = "signal"
    /\ UNCHANGED <<hpPage, hpRow, hpWorkVars, hpFaults>>

\* Mutant: the persister is stopped without waiting for the pool.
HpPoolStoppedNot == TRUE

\* Stop of the worker pool returns when every handler has.
HpPoolStopped == \A p \in HpPages : /\ hpPage[p] \notin {"crawled", "offered"}
                                    /\ hpPage[p] = "lost" \/ hpRow[p] # "open"

\* Stop of the persister, called after that of the pool, sets stopped ...
HpFlag ==
    /\ hpStop = "signal" /\ HpPoolStopped
    /\ hpStop' = "flagged"
    /\ UNCHANGED <<hpPage, hpRow, hpWorkVars, hpFaults>>

\* ... closes the channel ...
HpClose ==
    /\ hpStop = "flagged" /\ hpStop' = "closed"
    /\ UNCHANGED <<hpPage, hpRow, hpWorkVars, hpFaults>>

\* ... and waits for the workers.
HpDone ==
    /\ hpStop = "closed" /\ \A w \in HpWorkers : hpAt[w] = "ended"
    /\ hpStop' = "done"
    /\ UNCHANGED <<hpPage, hpRow, hpWorkVars, hpFaults>>

-----------------------------------------------------------------------------

HtmlNext ==
    \/ \E p \in HpPages : \/ HpOffer(p) \/ HpSend(p) \/ HpQueueUpdate(p) \/ HpFlushUpdate(p)
                          \/ HpAbort(p)
    \/ \E w \in HpWorkers : \/ HpReceive(w) \/ HpTick(w) \/ HpUploaded(w) \/ HpUploadFails(w)
                            \/ HpEnd(w)
    \/ HpSignal \/ HpFlag \/ HpClose \/ HpDone

HtmlSpec == HtmlInit /\ [][HtmlNext]_htmlVars

-----------------------------------------------------------------------------
(* Properties *)

\* Every variable of the persister stays within its type.
HtmlTypeOK ==
    /\ hpPage \in [HpPages -> {"crawled", "offered", "queued", "dropped", "uploading", "batched",
                               "stamped", "missed", "failed", "forgotten", "lost", "panic"}]
    /\ hpRow \in [HpPages -> {"open", "queued", "completed"}]
    /\ hpQueue \in Seq(HpPages) /\ Len(hpQueue) =< HpQueueSize
    /\ hpAt \in [HpWorkers -> {"waits", "uploads", "ended"}]
    /\ hpUpload \in [HpWorkers -> HpPages \cup {HpNoPage}]
    /\ hpBatch \in [HpWorkers -> Seq(HpPages)]
    /\ hpStop \in {"no", "signal", "flagged", "closed", "done"} /\ hpFaults \in 0 .. HpMaxFaults

\* Enqueue looks at stopped and sends afterwards: in between, Stop may close the
\* channel.  The order of the shutdown keeps every handler clear of it.
NoSendOnClosed == \A p \in HpPages : hpPage[p] # "panic"

\* When Stop has returned, every payload that was accepted has been uploaded and its
\* metadata written, unless an upload or a write failed.
UploadsDrained ==
    hpStop = "done" /\ hpFaults = 0 =>
        \A p \in HpPages : hpPage[p] \in {"stamped", "missed", "dropped", "lost"}

\* queue.go:1653-1654: the row's result has been persisted when its metadata are
\* written.  No payload is uploaded and its metadata then written to no row.
MetadataStamped == \A p \in HpPages : hpPage[p] # "missed"
=============================================================================
