----------------------------- MODULE PageVisit -----------------------------
(***************************************************************************)
(* The visits of one task: WarmURL of crawler/crawler.go, with its first   *)
(* request, the probes for a warm cache and the second request, and        *)
(* TaskExecutor.Execute of jobs/executor.go, which turns the result into   *)
(* the next state of the row.                                              *)
(*                                                                         *)
(* executeCollyRequest leaves its goroutine running when the context is    *)
(* done first, and that goroutine writes the same CrawlResult the executor *)
(* then reads field by field: a response may arrive before any of those    *)
(* reads.                                                                  *)
(*                                                                         *)
(* A response is its status and what DetectWAF looks for: a mark only the  *)
(* "vendor" sets, or one any "edge" may leave, a small body among them.    *)
(* Status 0 is a request without a response.                               *)
(***************************************************************************)
EXTENDS Naturals

CONSTANTS
    PvMaxTaskRetries,       \* retries of an error that may pass
    PvMaxBlockingRetries,   \* retries of a page that is refused
    PvMaxDropped            \* bound on outcomes that are not acknowledged

ASSUME PvAssumption ==
    /\ PvMaxTaskRetries \in Nat /\ PvMaxBlockingRetries \in Nat /\ PvMaxDropped \in Nat
    /\ PvMaxBlockingRetries <= PvMaxTaskRetries

VARIABLES
    pvPhase,    \* where the visit is
    pvResult,   \* the CrawlResult: response and second request
    pvCache,    \* cache status of the first response
    pvProbes,   \* probes sent
    pvWarm,     \* a probe found the page in the cache
    pvCut,      \* why the context is done, or "no"
    pvLate,     \* the first request is still running although the visit is over
    pvLimited,  \* Execute took the result for a refusal
    pvRow,      \* the tasks row
    pvRetries,  \* retry_count, in the message and in the row
    pvDropped   \* outcomes that were not acknowledged

visitVars ==
    <<pvPhase, pvResult, pvCache, pvProbes, pvWarm, pvCut, pvLate, pvLimited, pvRow,
      pvRetries, pvDropped>>

-----------------------------------------------------------------------------

PvStatuses == {200, 202, 403, 404, 429, 500, 503}
PvResponses == [status : PvStatuses, mark : {"none", "vendor", "edge"}]
PvNetworkError == [status |-> 0, mark |-> "network"]  \* timeout, reset, broken pipe
PvOtherError   == [status |-> 0, mark |-> "other"]    \* unknown host, bad certificate
PvNoAnswer     == [status |-> 0, mark |-> "none"]
PvAnswers == PvResponses \cup {PvNetworkError, PvOtherError}

PvSuccess(answer) == answer.status \in 200..299

\* DetectWAF: a mark of the vendor's own, or any mark on a blocking status.
PvFlagged(answer) ==
    \/ answer.mark = "vendor"
    \/ answer.mark = "edge" /\ answer.status \in {403, 202}

\* MISS and EXPIRED ask for a second request; HIT, STALE and REVALIDATED are
\* "HIT" here and everything the CDN will not cache is "NONE".
PvCacheStatuses == {"MISS", "HIT", "NONE"}
PvNeedsSecond(cache) == cache = "MISS"
PvMaxChecks == 3

VisitInit ==
    /\ pvPhase = "idle" /\ pvResult = [answer |-> PvNoAnswer, second |-> FALSE]
    /\ pvCache = "NONE" /\ pvProbes = 0 /\ pvWarm = FALSE
    /\ pvCut = "no" /\ pvLate = FALSE /\ pvLimited = FALSE
    /\ pvRow = [status |-> "pending", code |-> 0, flagged |-> FALSE, second |-> FALSE]
    /\ pvRetries = 0 /\ pvDropped = 0

PvOpen == pvRow.status \in {"pending", "waiting"}

\* A message of the task reaches a worker, which starts with a new result.
PvBegin ==
    /\ pvPhase = "idle" /\ PvOpen
    /\ pvPhase' = "first" /\ pvResult' = [answer |-> PvNoAnswer, second |-> FALSE]
    /\ pvCache' = "NONE" /\ pvProbes' = 0 /\ pvWarm' = FALSE
    /\ pvCut' = "no" /\ pvLate' = FALSE /\ pvLimited' = FALSE
    /\ UNCHANGED <<pvRow, pvRetries, pvDropped>>

\* OnResponse or OnError, then what warmURL does with the response.
PvFirst ==
    /\ pvPhase = "first"
    /\ \E answer \in PvAnswers, cache \in PvCacheStatuses :
        /\ pvResult' = [pvResult EXCEPT !.answer = answer]
        /\ pvCache' = IF answer.status = 0 THEN "NONE" ELSE cache
        /\ pvPhase' = IF PvSuccess(answer) /\ PvNeedsSecond(cache) THEN "probing" ELSE "classify"
    /\ UNCHANGED <<pvProbes, pvWarm, pvCut, pvLate, pvLimited, pvRow, pvRetries, pvDropped>>

\* The two minutes of a task are over, or the worker shuts down.
PvDone ==
    /\ pvPhase \in {"first", "probing"}
    /\ pvCut' \in {"deadline", "shutdown"}
    /\ pvLate' = (pvPhase = "first") /\ pvPhase' = "classify"
    /\ UNCHANGED <<pvResult, pvCache, pvProbes, pvWarm, pvLimited, pvRow, pvRetries, pvDropped>>

\* The request that was left running gets its response.
PvLateResponse ==
    /\ pvLate /\ pvLate' = FALSE
    /\ \E answer \in PvResponses, cache \in PvCacheStatuses :
        pvResult' = [pvResult EXCEPT !.answer = answer] /\ pvCache' = cache
    /\ UNCHANGED <<pvPhase, pvProbes, pvWarm, pvCut, pvLimited, pvRow, pvRetries, pvDropped>>

\* A probe after its delay: a hit ends the loop, and so does a status the CDN
\* will not cache; an error and a miss go on to the next probe, if there is one.
PvProbe ==
    /\ pvPhase = "probing" /\ pvProbes' = pvProbes + 1
    /\ \E probe \in PvCacheStatuses \cup {"error"} :
        /\ pvWarm' = (probe = "HIT")
        /\ pvPhase' = CASE probe = "HIT" -> "second"
                        [] probe \in {"MISS", "error"} /\ pvProbes' < PvMaxChecks -> "probing"
                        [] OTHER -> "classify"
    /\ UNCHANGED <<pvResult, pvCache, pvCut, pvLate, pvLimited, pvRow, pvRetries, pvDropped>>

\* The second request; one that fails, or that the context cuts off, is no
\* error of the visit.
PvSecond ==
    /\ pvPhase = "second" /\ pvPhase' = "classify"
    /\ \E ok \in BOOLEAN : pvResult' = [pvResult EXCEPT !.second = ok]
    /\ UNCHANGED <<pvCache, pvProbes, pvWarm, pvCut, pvLate, pvLimited, pvRow, pvRetries,
                   pvDropped>>

\* Mutant: a visit has failed if its status says so.
PvFailedByStatus == ~PvSuccess(pvResult.answer)

PvFailed == pvCut # "no" \/ ~PvSuccess(pvResult.answer)

PvRefused(answer) == answer.status \in {403, 429, 503}

\* Execute looks at the status of a failed visit ...
PvClassify ==
    /\ pvPhase = "classify" /\ pvPhase' = "build"
    /\ pvLimited' = (PvFailed /\ PvRefused(pvResult.answer))
    /\ UNCHANGED <<pvResult, pvCache, pvProbes, pvWarm, pvCut, pvLate, pvRow, pvRetries,
                   pvDropped>>

\* ... and buildErrorOutcome at the text of its error: "deadline exceeded" may
\* be retried and "context canceled" may not.
PvRetryable ==
    IF pvCut # "no" THEN pvCut = "deadline"
    ELSE pvResult.answer = PvNetworkError \/ pvResult.answer.status = 500

\* Mutant: one retry too many.
PvOutcomeOffByOne ==
    IF ~PvFailed THEN "completed"
    ELSE IF pvRetries <= (IF pvLimited THEN PvMaxBlockingRetries
                          ELSE IF PvRetryable THEN PvMaxTaskRetries ELSE 0)
         THEN "waiting" ELSE "failed"

PvOutcome ==
    IF ~PvFailed THEN "completed"
    ELSE IF pvRetries < (IF pvLimited THEN PvMaxBlockingRetries
                         ELSE IF PvRetryable THEN PvMaxTaskRetries ELSE 0)
         THEN "waiting" ELSE "failed"

\* The outcome with the fields of the result as they are now.  handleOutcome
\* acknowledges it first, which fails when the worker shuts down; then the
\* message is delivered again as it was.
PvHandle ==
    /\ pvPhase = "build" /\ pvCut # "shutdown"
    /\ pvPhase' = "idle" /\ pvLate' = FALSE
    /\ pvRow' = [status |-> PvOutcome, code |-> pvResult.answer.status,
                 flagged |-> PvFlagged(pvResult.answer), second |-> pvResult.second]
    /\ pvRetries' = IF PvOutcome = "waiting" THEN pvRetries + 1 ELSE pvRetries
    /\ UNCHANGED <<pvResult, pvCache, pvProbes, pvWarm, pvCut, pvLimited, pvDropped>>

PvDrop ==
    /\ pvPhase = "build" /\ pvDropped < PvMaxDropped
    /\ pvPhase' = "idle" /\ pvLate' = FALSE /\ pvDropped' = pvDropped + 1
    /\ UNCHANGED <<pvResult, pvCache, pvProbes, pvWarm, pvCut, pvLimited, pvRow, pvRetries>>

VisitNext ==
    \/ PvBegin \/ PvFirst \/ PvDone \/ PvLateResponse \/ PvProbe \/ PvSecond
    \/ PvClassify \/ PvHandle \/ PvDrop

VisitSpec == VisitInit /\ [][VisitNext]_visitVars

-----------------------------------------------------------------------------
(* Properties *)

VisitTypeOK ==
    /\ pvPhase \in {"idle", "first", "probing", "second", "classify", "build"}
    /\ pvResult \in [answer : PvAnswers \cup {PvNoAnswer}, second : BOOLEAN]
    /\ pvCache \in PvCacheStatuses /\ pvProbes \in 0..PvMaxChecks /\ pvWarm \in BOOLEAN
    /\ pvCut \in {"no", "deadline", "shutdown"} /\ pvLate \in BOOLEAN /\ pvLimited \in BOOLEAN
    /\ pvRow \in [status : {"pending", "waiting", "completed", "failed"}, code : PvStatuses \cup {0},
                  flagged : BOOLEAN, second : BOOLEAN]
    /\ pvRetries \in 0..PvMaxTaskRetries /\ pvDropped \in 0..PvMaxDropped

\* What a visit leaves in its row, in the step that writes it.  The row is
\* completed if and only if the site answered with success and nothing cut the
\* visit off, so neither a late response nor a page that was warmed half turns
\* into a completed row; data of a second request are there only if a probe had
\* found the page cached; and a row fails for good only with an answer that is
\* final or with its retries used up, never because a worker shut down.
RowTellsVisit ==
    [][pvRow' # pvRow =>
        /\ pvRow'.status = "completed" <=> pvCut = "no" /\ PvSuccess(pvResult.answer)
        /\ pvRow'.second => pvWarm /\ pvRow'.status = "completed"
        /\ pvRow'.status = "failed" =>
            \/ pvRetries >= PvMaxBlockingRetries
            \/ pvCut = "no" /\ pvRow'.code \in {0, 404} /\ pvResult.answer # PvNetworkError
        /\ pvRow'.status = "waiting" => pvRetries' = pvRetries + 1]_visitVars
=============================================================================
