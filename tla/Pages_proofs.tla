--------------------------- MODULE Pages_proofs ----------------------------
(***************************************************************************)
(* Proofs about the pages of a job: the visit of a page, for every number  *)
(* of retries and of dropped outcomes; the queue its HTML leaves by, for   *)
(* every number of workers and size of the queue; and which pages of a site *)
(* become tasks, for every site and every robots.txt.                      *)
(*                                                                         *)
(* ParsedAsStated is an induction over the lines of a file, made as an     *)
(* argument about the first line that is read wrongly: the rules collected *)
(* so far are those of the sections that count, and a file that is in order *)
(* never has them mixed.                                                   *)
(***************************************************************************)
EXTENDS PageVisit, HtmlPersister, Discovery, SequenceTheorems,
        WellFoundedInduction, TLAPS

-----------------------------------------------------------------------------
(* Visit: the invariant *)

\* A result with a second request belongs to a visit that ran to its end, the
\* request left running to one that was cut off; what Execute took for a
\* refusal still is one when the outcome is built, unless the visit was cut off.
VisitKept ==
    /\ pvPhase \in {"probing", "second"} => PvSuccess(pvResult.answer) /\ ~pvResult.second
    /\ pvPhase \in {"first", "probing", "second"} => pvCut = "no"
    /\ pvPhase = "first" => ~pvResult.second /\ pvProbes = 0
    /\ pvPhase = "probing" => pvProbes < PvMaxChecks
    /\ pvPhase = "second" => pvWarm
    /\ pvLate => pvCut # "no" /\ pvPhase \in {"classify", "build"}
    /\ pvResult.second => pvWarm /\ pvCut = "no" /\ PvSuccess(pvResult.answer)
    /\ pvPhase = "build" /\ pvCut = "no" =>
           (pvLimited <=> PvFailed /\ PvRefused(pvResult.answer))

VisitInv == VisitTypeOK /\ VisitKept

-----------------------------------------------------------------------------

\* A visit begins in a state that satisfies the invariant.
LEMMA InitVisit == VisitInit => VisitInv
<1> SUFFICES ASSUME VisitInit PROVE VisitTypeOK /\ VisitKept
    BY DEF VisitInv
<1>1. VisitTypeOK
  <2>1. pvResult \in [answer : PvAnswers \cup {PvNoAnswer}, second : BOOLEAN]
    BY DEF VisitInit
  <2>2. pvRow \in [status : {"pending", "waiting", "completed", "failed"},
                   code : PvStatuses \cup {0}, flagged : BOOLEAN, second : BOOLEAN]
    BY DEF VisitInit
  <2>3. pvWarm \in BOOLEAN /\ pvLate \in BOOLEAN /\ pvLimited \in BOOLEAN
    BY Zenon DEF VisitInit
  <2>4. /\ pvPhase = "idle" /\ pvCache = "NONE" /\ pvCut = "no"
        /\ pvProbes \in 0..PvMaxChecks
        /\ pvRetries \in 0..PvMaxTaskRetries /\ pvDropped \in 0..PvMaxDropped
    BY PvAssumption DEF VisitInit, PvMaxChecks
  <2> QED
    BY <2>1, <2>2, <2>3, <2>4 DEF VisitTypeOK, PvCacheStatuses
<1>2. VisitKept
    BY DEF VisitInit, VisitKept
<1> QED
    BY <1>1, <1>2

-----------------------------------------------------------------------------

\* Types, one step per action.
LEMMA VisitTypeStep == VisitInv /\ [VisitNext]_visitVars => VisitTypeOK'
<1> SUFFICES ASSUME VisitTypeOK, VisitKept, [VisitNext]_visitVars PROVE VisitTypeOK'
    BY DEF VisitInv
<1> USE PvAssumption DEF VisitTypeOK, PvCacheStatuses, PvMaxChecks
<1>1. CASE PvBegin
  <2>1. pvWarm' \in BOOLEAN /\ pvLate' \in BOOLEAN /\ pvLimited' \in BOOLEAN
    BY <1>1, Zenon DEF PvBegin
  <2>2. pvResult' \in [answer : PvAnswers \cup {PvNoAnswer}, second : BOOLEAN]
    BY <1>1 DEF PvBegin
  <2> QED
    BY <1>1, <2>1, <2>2 DEF PvBegin
<1>2. CASE PvFirst
  <2> PICK answer \in PvAnswers, cache \in PvCacheStatuses :
        /\ pvResult' = [pvResult EXCEPT !.answer = answer]
        /\ pvCache' = IF answer.status = 0 THEN "NONE" ELSE cache
        /\ pvPhase' = IF PvSuccess(answer) /\ PvNeedsSecond(cache) THEN "probing" ELSE "classify"
    BY <1>2 DEF PvFirst
  <2>1. pvPhase' \in {"probing", "classify"} /\ pvCache' \in PvCacheStatuses
    OBVIOUS
  <2> QED
    BY <1>2, <2>1 DEF PvFirst
<1>3. CASE PvDone
  <2>1. pvLate' \in BOOLEAN
    BY <1>3, Zenon DEF PvDone
  <2> QED
    BY <1>3, <2>1 DEF PvDone
<1>4. CASE PvLateResponse
  <2>1. pvLate' \in BOOLEAN
    BY <1>4, Zenon DEF PvLateResponse
  <2>2. /\ pvResult' \in [answer : PvAnswers \cup {PvNoAnswer}, second : BOOLEAN]
        /\ pvCache' \in PvCacheStatuses
    BY <1>4 DEF PvLateResponse, PvAnswers
  <2> QED
    BY <1>4, <2>1, <2>2 DEF PvLateResponse
<1>5. CASE PvProbe
  <2> PICK probe \in PvCacheStatuses \cup {"error"} :
        /\ pvWarm' = (probe = "HIT")
        /\ pvPhase' = CASE probe = "HIT" -> "second"
                        [] probe \in {"MISS", "error"} /\ pvProbes' < PvMaxChecks -> "probing"
                        [] OTHER -> "classify"
    BY <1>5 DEF PvProbe
  <2>1. pvWarm' \in BOOLEAN
    BY Zenon
  <2>2. pvPhase' \in {"second", "probing", "classify"}
    OBVIOUS
  <2>3. pvProbes' \in 0..PvMaxChecks
    BY <1>5 DEF PvProbe, VisitKept
  <2> QED
    BY <1>5, <2>1, <2>2, <2>3 DEF PvProbe
<1>6. CASE PvSecond
    BY <1>6 DEF PvSecond
<1>7. CASE PvClassify
  <2>1. pvLimited' \in BOOLEAN
    BY <1>7, Zenon DEF PvClassify
  <2> QED
    BY <1>7, <2>1 DEF PvClassify
<1>8. CASE PvHandle
  <2>1. PvOutcome \in {"completed", "waiting", "failed"}
    BY DEF PvOutcome
  <2>2. PvFlagged(pvResult.answer) \in BOOLEAN
    BY Zenon DEF PvFlagged
  <2>3. pvResult.answer.status \in PvStatuses \cup {0}
    BY DEF PvAnswers, PvResponses, PvNetworkError, PvOtherError, PvNoAnswer
  <2>4. PvOutcome = "waiting" => pvRetries < PvMaxTaskRetries
    BY DEF PvOutcome
  <2>5. pvRow' \in [status : {"pending", "waiting", "completed", "failed"},
                   code : PvStatuses \cup {0}, flagged : BOOLEAN, second : BOOLEAN]
    BY <1>8, <2>1, <2>2, <2>3 DEF PvHandle
  <2>6. pvLate' \in BOOLEAN
    BY <1>8, Zenon DEF PvHandle
  <2> QED
    BY <1>8, <2>4, <2>5, <2>6 DEF PvHandle
<1>9. CASE PvDrop
  <2>1. pvLate' \in BOOLEAN
    BY <1>9, Zenon DEF PvDrop
  <2> QED
    BY <1>9, <2>1 DEF PvDrop
<1>10. CASE UNCHANGED visitVars
    BY <1>10 DEF visitVars
<1> QED
    BY <1>1, <1>2, <1>3, <1>4, <1>5, <1>6, <1>7, <1>8, <1>9, <1>10 DEF VisitNext

-----------------------------------------------------------------------------

\* The relations, one step per action.
LEMMA KeptStep == VisitInv /\ [VisitNext]_visitVars => VisitKept'
<1> SUFFICES ASSUME VisitTypeOK, VisitKept, [VisitNext]_visitVars PROVE VisitKept'
    BY DEF VisitInv
<1>0. pvResult \in [answer : PvAnswers \cup {PvNoAnswer}, second : BOOLEAN]
    BY DEF VisitTypeOK
<1>1. CASE PvBegin
  <2>1. ~pvLate' /\ pvPhase' = "first" /\ pvCut' = "no"
    BY <1>1, Zenon DEF PvBegin
  <2>2. ~pvResult'.second /\ pvProbes' = 0
    BY <1>1 DEF PvBegin
  <2> QED
    BY <2>1, <2>2 DEF VisitKept
<1>2. CASE PvFirst
  <2> PICK answer \in PvAnswers, cache \in PvCacheStatuses :
        /\ pvResult' = [pvResult EXCEPT !.answer = answer]
        /\ pvPhase' = IF PvSuccess(answer) /\ PvNeedsSecond(cache) THEN "probing" ELSE "classify"
    BY <1>2 DEF PvFirst
  <2>1. pvResult'.answer = answer /\ (pvResult'.second <=> pvResult.second)
    BY <1>0
  <2>2. ~pvResult.second /\ ~pvLate /\ pvCut = "no"
    BY <1>2 DEF PvFirst, VisitKept
  <2>3. ~pvLate' /\ pvCut' = "no" /\ ~pvResult'.second
    BY <1>2, <2>1, <2>2, Zenon DEF PvFirst
  <2>4. pvPhase' = "classify" \/ (pvPhase' = "probing" /\ PvSuccess(pvResult'.answer))
    BY <2>1
  <2>5. pvPhase' = "probing" => pvProbes' < PvMaxChecks
    BY <1>2 DEF PvFirst, VisitKept, PvMaxChecks
  <2> QED
    BY <2>3, <2>4, <2>5 DEF VisitKept
<1>3. CASE PvDone
  <2>1. /\ pvPhase' = "classify" /\ pvCut' # "no" /\ pvResult' = pvResult
    BY <1>3 DEF PvDone
  <2>2. ~pvResult.second
    BY <1>3 DEF PvDone, VisitKept
  <2> QED
    BY <2>1, <2>2 DEF VisitKept
<1>4. CASE PvLateResponse
  <2>1. pvLate /\ ~pvLate'
    BY <1>4, Zenon DEF PvLateResponse
  <2>2. /\ pvCut # "no" /\ ~pvResult.second /\ pvPhase \in {"classify", "build"}
    BY <2>1 DEF VisitKept
  <2>3. pvResult'.second <=> pvResult.second
    BY <1>0, <1>4 DEF PvLateResponse
  <2>4. pvCut' = pvCut /\ pvPhase' = pvPhase
    BY <1>4 DEF PvLateResponse
  <2> QED
    BY <2>1, <2>2, <2>3, <2>4 DEF VisitKept
<1>5. CASE PvProbe
  <2> PICK probe \in PvCacheStatuses \cup {"error"} :
        /\ pvWarm' = (probe = "HIT")
        /\ pvPhase' = CASE probe = "HIT" -> "second"
                        [] probe \in {"MISS", "error"} /\ pvProbes' < PvMaxChecks -> "probing"
                        [] OTHER -> "classify"
    BY <1>5 DEF PvProbe
  <2>1. pvPhase' = "second" => pvWarm'
    OBVIOUS
  <2>2. /\ pvPhase' = "probing" => pvProbes' < PvMaxChecks
        /\ pvPhase' \in {"second", "probing", "classify"}
    OBVIOUS
  <2>3. PvSuccess(pvResult.answer) /\ ~pvResult.second /\ pvCut = "no" /\ ~pvLate
    BY <1>5 DEF PvProbe, VisitKept
  <2>4. pvResult' = pvResult /\ pvCut' = pvCut /\ pvLate' = pvLate
    BY <1>5 DEF PvProbe
  <2>5. PvSuccess(pvResult'.answer) /\ ~pvResult'.second /\ pvCut' = "no" /\ ~pvLate'
    BY <2>3, <2>4, Zenon
  <2> QED
    BY <2>1, <2>2, <2>5 DEF VisitKept
<1>6. CASE PvSecond
  <2>1. pvWarm /\ pvCut = "no" /\ ~pvLate /\ PvSuccess(pvResult.answer)
    BY <1>6 DEF PvSecond, VisitKept
  <2>2. pvPhase' = "classify" /\ pvResult'.answer = pvResult.answer
    BY <1>0, <1>6 DEF PvSecond
  <2>3. pvWarm' /\ pvCut' = "no" /\ ~pvLate'
    BY <1>6, <2>1, Zenon DEF PvSecond
  <2>4. PvSuccess(pvResult'.answer)
    BY <2>1, <2>2
  <2> QED
    BY <2>2, <2>3, <2>4 DEF VisitKept
<1>7. CASE PvClassify
  <2>1. pvLimited' <=> PvFailed /\ PvRefused(pvResult.answer)
    BY <1>7, Zenon DEF PvClassify
  <2>2. /\ pvPhase = "classify" /\ pvPhase' = "build"
        /\ pvResult' = pvResult /\ pvCut' = pvCut /\ pvLate' = pvLate /\ pvWarm' = pvWarm
    BY <1>7 DEF PvClassify
  <2>3. PvFailed' <=> PvFailed
    BY <2>2 DEF PvFailed
  <2>4. pvResult.second => pvWarm /\ pvCut = "no" /\ PvSuccess(pvResult.answer)
    BY DEF VisitKept
  <2>5. pvResult'.second => pvWarm' /\ pvCut' = "no" /\ PvSuccess(pvResult'.answer)
    BY <2>2, <2>4, Zenon
  <2>6. pvLate' => pvCut' # "no"
    BY <2>2, Zenon DEF VisitKept
  <2>7. pvLimited' <=> PvFailed' /\ PvRefused(pvResult'.answer)
    BY <2>1, <2>2, <2>3, Zenon
  <2> QED
    BY <2>2, <2>5, <2>6, <2>7 DEF VisitKept
<1>8. CASE PvHandle \/ PvDrop
  <2>1. ~pvLate' /\ pvPhase' = "idle"
    BY <1>8, Zenon DEF PvHandle, PvDrop
  <2>2. pvResult' = pvResult /\ pvCut' = pvCut /\ pvWarm' = pvWarm
    BY <1>8, Zenon DEF PvHandle, PvDrop
  <2>3. pvResult.second => pvWarm /\ pvCut = "no" /\ PvSuccess(pvResult.answer)
    BY DEF VisitKept
  <2>4. pvResult'.second => pvWarm' /\ pvCut' = "no" /\ PvSuccess(pvResult'.answer)
    BY <2>2, <2>3, Zenon
  <2> QED
    BY <2>1, <2>4 DEF VisitKept
<1>9. CASE UNCHANGED visitVars
  <2>1. (PvFailed' <=> PvFailed) /\ (VisitKept' <=> VisitKept)
    BY <1>9 DEF visitVars, VisitKept, PvFailed
  <2> QED
    BY <2>1
<1> QED
    BY <1>1, <1>2, <1>3, <1>4, <1>5, <1>6, <1>7, <1>8, <1>9 DEF VisitNext

-----------------------------------------------------------------------------

\* The row is written by PvHandle only, from an outcome that says what the visit was.
LEMMA VisitRowStep ==
    ASSUME VisitInv, VisitNext, pvRow' # pvRow
    PROVE  /\ pvRow'.status = "completed" <=> pvCut = "no" /\ PvSuccess(pvResult.answer)
           /\ pvRow'.second => pvWarm /\ pvRow'.status = "completed"
           /\ pvRow'.status = "failed" =>
                \/ pvRetries >= PvMaxBlockingRetries
                \/ pvCut = "no" /\ pvRow'.code \in {0, 404} /\ pvResult.answer # PvNetworkError
           /\ pvRow'.status = "waiting" => pvRetries' = pvRetries + 1
<1>1. PvHandle
    BY DEF VisitNext, PvBegin, PvFirst, PvDone, PvLateResponse, PvProbe, PvSecond, PvClassify, PvDrop
<1>2. /\ pvPhase = "build" /\ pvCut # "shutdown"
      /\ pvRow'.status = PvOutcome /\ pvRow'.code = pvResult.answer.status
      /\ pvRow'.second <=> pvResult.second
      /\ PvOutcome = "waiting" => pvRetries' = pvRetries + 1
    BY <1>1 DEF PvHandle
<1>3. PvOutcome = "completed" <=> ~PvFailed
    BY DEF PvOutcome
<1>4. pvResult.second => pvWarm /\ ~PvFailed
    BY Zenon DEF VisitInv, VisitKept, PvFailed
<1>5. ASSUME PvOutcome = "failed"
      PROVE  \/ pvRetries >= PvMaxBlockingRetries
             \/ /\ pvCut = "no" /\ pvResult.answer.status \in {0, 404}
                /\ pvResult.answer # PvNetworkError
  <2>1. PvFailed /\ ~(pvRetries < (IF pvLimited THEN PvMaxBlockingRetries
                                  ELSE IF PvRetryable THEN PvMaxTaskRetries ELSE 0))
    BY <1>5 DEF PvOutcome
  <2>2. pvRetries \in Nat /\ pvCut \in {"no", "deadline", "shutdown"}
    BY PvAssumption DEF VisitInv, VisitTypeOK
  <2>3. CASE pvLimited \/ PvRetryable
    BY <2>1, <2>2, <2>3, PvAssumption
  <2>4. CASE ~pvLimited /\ ~PvRetryable
    <3>1. pvCut = "no"
      BY <1>2, <2>2, <2>4 DEF PvRetryable
    <3>2. pvResult.answer # PvNetworkError /\ pvResult.answer.status # 500
      BY <2>4, <3>1 DEF PvRetryable
    <3>3. ~PvRefused(pvResult.answer) /\ ~PvSuccess(pvResult.answer)
      BY <1>2, <2>1, <2>4, <3>1 DEF VisitInv, VisitKept, PvFailed
    <3>4. pvResult.answer.status \in PvStatuses \cup {0}
      BY DEF VisitInv, VisitTypeOK, PvAnswers, PvResponses, PvNetworkError, PvOtherError, PvNoAnswer
    <3>5. pvResult.answer.status \in {0, 404}
      BY <3>2, <3>3, <3>4 DEF PvRefused, PvSuccess, PvStatuses
    <3> QED
      BY <3>1, <3>2, <3>5
  <2> QED
    BY <2>3, <2>4
<1> QED
    BY <1>2, <1>3, <1>4, <1>5 DEF PvFailed

\* Every step of a visit keeps the invariant.
LEMMA InvStep == VisitInv /\ [VisitNext]_visitVars => VisitInv'
    BY VisitTypeStep, KeptStep DEF VisitInv

\* The visit's variables keep their types, whatever the limits.
THEOREM VisitTypeCorrect == VisitSpec => []VisitTypeOK
<1>1. VisitInv => VisitTypeOK
    BY DEF VisitInv
<1> QED
    BY <1>1, InitVisit, InvStep, PTL DEF VisitSpec

\* Every row written by executor.go and stream_worker.go tells what its visit
\* was, for every number of retries and of redeliveries.
THEOREM RowsTellVisits == VisitSpec => RowTellsVisit
<1>1. ASSUME VisitInv, [VisitNext]_visitVars
      PROVE  [pvRow' # pvRow =>
                /\ pvRow'.status = "completed" <=> pvCut = "no" /\ PvSuccess(pvResult.answer)
                /\ pvRow'.second => pvWarm /\ pvRow'.status = "completed"
                /\ pvRow'.status = "failed" =>
                    \/ pvRetries >= PvMaxBlockingRetries
                    \/ pvCut = "no" /\ pvRow'.code \in {0, 404} /\ pvResult.answer # PvNetworkError
                /\ pvRow'.status = "waiting" => pvRetries' = pvRetries + 1]_visitVars
    BY <1>1, VisitRowStep
<1> QED
    BY <1>1, InitVisit, InvStep, PTL DEF VisitSpec, RowTellsVisit

-----------------------------------------------------------------------------
(* Persister: sequences *)

\* What is behind the head of a sequence is in its tail.
LEMMA InTail ==
    ASSUME NEW S, NEW s \in Seq(S), s # <<>>, NEW e \in Range(s), e # Head(s)
    PROVE  e \in Range(Tail(s))
<1>1. PICK i \in 1 .. Len(s) : e = s[i]
  BY DEF Range
<1>2. i # 1
  BY <1>1
<1>3. i - 1 \in 1 .. Len(Tail(s)) /\ Tail(s)[i - 1] = s[i]
  BY <1>2
<1> QED BY <1>1, <1>3, HeadTailProperties, LenProperties DEF Range

\* Appending adds the element appended.
LEMMA InAppend ==
    ASSUME NEW S, NEW s \in Seq(S), NEW e \in S
    PROVE  Append(s, e) \in Seq(S) /\ Range(Append(s, e)) = Range(s) \cup {e}
<1>1. /\ Append(s, e) \in Seq(S) /\ Len(Append(s, e)) = Len(s) + 1
      /\ \A i \in 1 .. Len(s) : Append(s, e)[i] = s[i]
      /\ Append(s, e)[Len(s) + 1] = e
  OBVIOUS
<1>2. DOMAIN Append(s, e) = 1 .. Len(s) + 1 /\ DOMAIN s = 1 .. Len(s) /\ Len(s) \in Nat
  BY <1>1, LenProperties
<1>3. 1 .. Len(s) + 1 = (1 .. Len(s)) \cup {Len(s) + 1}
  BY <1>2
<1> QED BY <1>1, <1>2, <1>3 DEF Range

-----------------------------------------------------------------------------
(* Persister: the invariant *)

\* From stopped on no handler is about to enqueue.
HandlersGone == hpStop \in {"flagged", "closed", "done"} =>
                    \A p \in HpPages : hpPage[p] \notin {"crawled", "offered"}

\* A worker that uploads has a page.
HasUpload == \A w \in HpWorkers : hpAt[w] = "uploads" => hpUpload[w] \in HpPages

\* Without a fault, a payload that was accepted is where its page says.
PayloadsHeld ==
    hpFaults = 0 =>
        \A p \in HpPages :
            /\ hpPage[p] = "queued" => p \in Range(hpQueue)
            /\ hpPage[p] = "uploading" => \E w \in HpWorkers : hpAt[w] = "uploads" /\ hpUpload[w] = p
            /\ hpPage[p] = "batched" => \E w \in HpWorkers : p \in Range(hpBatch[w])
            /\ hpPage[p] \notin {"failed", "forgotten"}

\* A worker ends when nothing is left of the queue and, without a fault, of its batch.
WorkersDrained ==
    /\ \A w \in HpWorkers :
           hpAt[w] = "ended" => HpClosed /\ hpQueue = <<>> /\ (hpFaults = 0 => hpBatch[w] = <<>>)
    /\ hpStop = "done" => \A w \in HpWorkers : hpAt[w] = "ended"

HtmlInv == /\ HtmlTypeOK /\ HandlersGone /\ NoSendOnClosed
           /\ HasUpload /\ PayloadsHeld /\ WorkersDrained

\* The persister begins empty.
LEMMA InitHtml == HtmlInit => HtmlInv
<1> SUFFICES ASSUME HtmlInit PROVE HtmlInv
  OBVIOUS
<1> USE HpAssumption DEF HtmlInit
<1>1. HtmlTypeOK
  BY EmptySeq DEF HtmlTypeOK
<1>2. HandlersGone /\ NoSendOnClosed /\ HasUpload /\ PayloadsHeld /\ WorkersDrained
  BY DEF HandlersGone, NoSendOnClosed, HasUpload, PayloadsHeld, WorkersDrained
<1> QED BY <1>1, <1>2 DEF HtmlInv

\* A flush of the batch s writes all of it or, with a fault, keeps what it can; it
\* touches no page that is not in s.
LEMMA FlushEffect ==
    ASSUME HtmlTypeOK, NEW w \in HpWorkers, NEW s \in Seq(HpPages), HpFlush(w, s)
    PROVE  /\ hpPage' \in [HpPages -> {"crawled", "offered", "queued", "dropped", "uploading",
                                       "batched", "stamped", "missed", "failed", "forgotten",
                                       "lost", "panic"}]
           /\ hpBatch' \in [HpWorkers -> Seq(HpPages)]
           /\ \A v \in HpWorkers \ {w} : hpBatch'[v] = hpBatch[v]
           /\ hpFaults' \in 0 .. HpMaxFaults
           /\ \A p \in HpPages : \/ p \notin Range(s) /\ hpPage'[p] = hpPage[p]
                                 \/ hpPage'[p] \in {"stamped", "missed"}
                                 \/ hpPage'[p] \in {"batched", "forgotten"} /\ hpFaults' > 0
           /\ hpFaults' = 0 => hpFaults = 0 /\ hpBatch'[w] = <<>>
<1> USE DEF HtmlTypeOK
<1>1. CASE HpWritten(w, s)
  BY <1>1, EmptySeq DEF HpWritten
<1>2. CASE HpWriteFails(w, s)
  <2> DEFINE excess == IF Len(s) > HpRetained * HpBatchSize THEN Len(s) - HpRetained * HpBatchSize ELSE 0
             kept   == SubSeq(s, excess + 1, Len(s))
  <2>1. Len(s) \in Nat /\ HpRetained * HpBatchSize \in Nat
    BY HpAssumption, LenProperties
  <2>2. excess \in Nat
    BY <2>1
  <2>3. kept \in Seq(HpPages)
    <3> HIDE DEF excess
    <3>1. \A i \in excess + 1 .. Len(s) : s[i] \in HpPages
      BY <2>1, <2>2, ElementOfSeq
    <3> QED BY <2>1, <2>2, <3>1, SubSeqProperties
  <2>4. /\ HpFault /\ hpBatch' = [hpBatch EXCEPT ![w] = kept]
        /\ hpPage' = [p \in HpPages |->
              IF p \in Range(SubSeq(s, 1, excess)) THEN "forgotten"
              ELSE IF p \in Range(s) THEN "batched" ELSE hpPage[p]]
    BY <1>2 DEF HpWriteFails
  <2>5. hpFaults' \in 0 .. HpMaxFaults /\ hpFaults' > 0
    BY <2>4, HpAssumption DEF HpFault
  <2> HIDE DEF kept, excess
  <2> QED BY <2>3, <2>4, <2>5
<1> QED BY <1>1, <1>2 DEF HpFlush

-----------------------------------------------------------------------------
(* Persister: the steps *)

\* Steps of a handler, of the batch manager and of the shutdown.
HtmlOutside == \/ \E p \in HpPages : \/ HpOffer(p) \/ HpSend(p) \/ HpQueueUpdate(p)
                                     \/ HpFlushUpdate(p) \/ HpAbort(p)
               \/ HpSignal \/ HpFlag \/ HpClose \/ HpDone \/ UNCHANGED htmlVars

\* Steps of an upload worker.
HtmlWorks(w) == HpReceive(w) \/ HpTick(w) \/ HpUploaded(w) \/ HpUploadFails(w) \/ HpEnd(w)

\* A handler sends before the channel is closed, as the pool has stopped by then.
LEMMA OutsideStep == HtmlInv /\ HtmlOutside => HtmlInv'
<1> SUFFICES ASSUME HtmlInv, HtmlOutside PROVE HtmlInv'
  OBVIOUS
<1> USE DEF HtmlInv, HtmlTypeOK
<1>1. ASSUME NEW p \in HpPages, HpSend(p) PROVE HtmlInv'
  <2>1. ~HpClosed
    BY <1>1 DEF HpSend, HandlersGone, HpClosed
  <2>2. CASE Len(hpQueue) < HpQueueSize
    <3>1. /\ HpTo(p, "queued") /\ hpQueue' = Append(hpQueue, p)
          /\ UNCHANGED <<hpRow, hpAt, hpUpload, hpBatch, hpStop, hpFaults>>
      BY <1>1, <2>1, <2>2 DEF HpSend
    <3>2. Range(hpQueue') = Range(hpQueue) \cup {p} /\ hpQueue' \in Seq(HpPages)
      BY <3>1, InAppend
    <3>3. Len(hpQueue') =< HpQueueSize
      BY <2>2, <3>1, HpAssumption
    <3>4. HtmlTypeOK'
      BY <3>1, <3>2, <3>3 DEF HpTo
    <3>5. NoSendOnClosed' /\ HasUpload'
      BY <3>1 DEF HpTo, NoSendOnClosed, HasUpload
    <3>6. HandlersGone'
      BY <1>1, <3>1 DEF HpSend, HpTo, HandlersGone
    <3>7. PayloadsHeld'
      BY <3>1, <3>2 DEF HpTo, PayloadsHeld
    <3>8. WorkersDrained'
      BY <2>1, <3>1 DEF WorkersDrained, HpClosed
    <3> QED BY <3>4, <3>5, <3>6, <3>7, <3>8
  <2>3. CASE ~(Len(hpQueue) < HpQueueSize)
    <3>1. HpTo(p, "dropped") /\ UNCHANGED <<hpRow, hpWorkVars, hpStop, hpFaults>>
      BY <1>1, <2>1, <2>3 DEF HpSend, hpWorkVars
    <3> QED BY <3>1 DEF HpTo, hpWorkVars, HandlersGone, NoSendOnClosed, HasUpload, PayloadsHeld,
                        WorkersDrained, HpClosed
  <2> QED BY <2>2, <2>3
<1>2. ASSUME NEW p \in HpPages, HpOffer(p) \/ HpAbort(p) PROVE HtmlInv'
  <2>1. PICK to \in {"offered", "dropped", "lost"} :
            HpTo(p, to) /\ (to = "offered" => hpStop \in {"no", "signal"})
    BY <1>2 DEF HpOffer, HpAbort
  <2>2. UNCHANGED <<hpRow, hpWorkVars, hpStop, hpFaults>>
    BY <1>2 DEF HpOffer, HpAbort
  <2> QED BY <2>1, <2>2 DEF HpTo, hpWorkVars, HandlersGone, NoSendOnClosed, HasUpload, PayloadsHeld,
                            WorkersDrained, HpClosed
<1>3. ASSUME NEW p \in HpPages, HpQueueUpdate(p) \/ HpFlushUpdate(p) PROVE HtmlInv'
  BY <1>3 DEF HpQueueUpdate, HpFlushUpdate, hpWorkVars, HandlersGone, NoSendOnClosed, HasUpload,
              PayloadsHeld, WorkersDrained, HpClosed
<1>4. CASE HpSignal \/ HpFlag \/ HpClose \/ HpDone \/ UNCHANGED htmlVars
  <2>1. UNCHANGED <<hpPage, hpRow, hpQueue, hpAt, hpUpload, hpBatch, hpFaults>>
    BY <1>4 DEF HpSignal, HpFlag, HpClose, HpDone, htmlVars, hpWorkVars
  <2>2. hpStop' \in {"no", "signal", "flagged", "closed", "done"} /\ HandlersGone'
    BY <1>4, <2>1 DEF HpSignal, HpFlag, HpClose, HpDone, htmlVars, HpPoolStopped, HandlersGone
  <2>3. WorkersDrained'
    BY <1>4, <2>1 DEF HpSignal, HpFlag, HpClose, HpDone, htmlVars, HpClosed, WorkersDrained
  <2>4. NoSendOnClosed' /\ HasUpload' /\ PayloadsHeld'
    BY <2>1 DEF NoSendOnClosed, HasUpload, PayloadsHeld
  <2> QED BY <2>1, <2>2, <2>3, <2>4
<1> QED BY <1>1, <1>2, <1>3, <1>4 DEF HtmlOutside

\* A flush of a batch s that has what the worker w held, with the queue and the stop
\* left alone, keeps the payloads held.
LEMMA UploadsFlushed ==
    ASSUME HtmlInv, NEW w \in HpWorkers, NEW s \in Seq(HpPages), HpFlush(w, s),
           Range(hpBatch[w]) \subseteq Range(s),
           hpAt[w] = "uploads" => hpUpload[w] \in Range(s),
           \A v \in HpWorkers \ {w} : hpAt'[v] = hpAt[v] /\ hpUpload'[v] = hpUpload[v],
           UNCHANGED <<hpQueue, hpStop>>
    PROVE  /\ HandlersGone' /\ NoSendOnClosed' /\ PayloadsHeld'
           /\ hpFaults' = 0 => hpFaults = 0 /\ hpBatch'[w] = <<>>
<1> USE DEF HtmlInv
<1>1. /\ \A v \in HpWorkers \ {w} : hpBatch'[v] = hpBatch[v]
      /\ \A p \in HpPages : \/ p \notin Range(s) /\ hpPage'[p] = hpPage[p]
                            \/ hpPage'[p] \in {"stamped", "missed"}
                            \/ hpPage'[p] \in {"batched", "forgotten"} /\ hpFaults' > 0
      /\ hpFaults' = 0 => hpFaults = 0 /\ hpBatch'[w] = <<>>
  BY FlushEffect
<1>2. HandlersGone' /\ NoSendOnClosed'
  BY <1>1 DEF HandlersGone, NoSendOnClosed
<1>3. PayloadsHeld'
  <2> SUFFICES ASSUME hpFaults' = 0, NEW p \in HpPages
      PROVE  /\ hpPage'[p] = "queued" => p \in Range(hpQueue')
             /\ hpPage'[p] = "uploading" =>
                    \E v \in HpWorkers : hpAt'[v] = "uploads" /\ hpUpload'[v] = p
             /\ hpPage'[p] = "batched" => \E v \in HpWorkers : p \in Range(hpBatch'[v])
             /\ hpPage'[p] \notin {"failed", "forgotten"}
    BY DEF PayloadsHeld
  <2>1. (p \notin Range(s) /\ hpPage'[p] = hpPage[p]) \/ hpPage'[p] \in {"stamped", "missed"}
    BY <1>1
  <2>2. CASE p \notin Range(s) /\ hpPage'[p] = hpPage[p]
    BY <1>1, <2>2 DEF PayloadsHeld
  <2> QED BY <2>1, <2>2
<1> QED BY <1>1, <1>2, <1>3

\* Every step of a worker keeps the invariant.
LEMMA WorkStep == ASSUME HtmlInv, NEW w \in HpWorkers, HtmlWorks(w) PROVE HtmlInv'
<1> USE DEF HtmlInv
<1>1. CASE HpReceive(w)
  <2> DEFINE p == Head(hpQueue)
  <2>1. /\ hpAt[w] = "waits" /\ hpQueue # <<>> /\ hpQueue' = Tail(hpQueue)
        /\ hpUpload' = [hpUpload EXCEPT ![w] = p] /\ hpAt' = [hpAt EXCEPT ![w] = "uploads"]
        /\ hpPage' = [hpPage EXCEPT ![p] = "uploading"]
        /\ UNCHANGED <<hpRow, hpBatch, hpStop, hpFaults>>
    BY <1>1 DEF HpReceive, HpTo
  <2>2. p \in HpPages /\ hpQueue' \in Seq(HpPages) /\ Len(hpQueue') = Len(hpQueue) - 1
    BY <2>1, HeadTailProperties DEF HtmlTypeOK
  <2>3. \A e \in Range(hpQueue) \ {p} : e \in Range(hpQueue')
    BY <2>1, InTail DEF HtmlTypeOK
  <2> HIDE DEF p
  <2>4. HtmlTypeOK'
    <3>1. Len(hpQueue') =< HpQueueSize
      BY <2>2, LenProperties, HpAssumption DEF HtmlTypeOK
    <3> QED BY <2>1, <2>2, <3>1 DEF HtmlTypeOK
  <2>5. HandlersGone' /\ NoSendOnClosed' /\ HasUpload'
    BY <2>1, <2>2 DEF HtmlTypeOK, HandlersGone, NoSendOnClosed, HasUpload
  <2>6. PayloadsHeld'
    BY <2>1, <2>2, <2>3 DEF HtmlTypeOK, PayloadsHeld
  <2>7. WorkersDrained'
    BY <2>1 DEF HtmlTypeOK, WorkersDrained
  <2> QED BY <2>4, <2>5, <2>6, <2>7
<1>2. CASE HpTick(w)
  <2>1. /\ hpAt[w] = "waits" /\ HpFlush(w, hpBatch[w]) /\ hpBatch[w] \in Seq(HpPages)
        /\ UNCHANGED <<hpRow, hpQueue, hpAt, hpUpload, hpStop>>
    BY <1>2 DEF HpTick, HtmlTypeOK
  <2>2. HandlersGone' /\ NoSendOnClosed' /\ PayloadsHeld'
    BY <2>1, UploadsFlushed
  <2>3. HtmlTypeOK'
    BY <2>1, FlushEffect DEF HtmlTypeOK
  <2>4. HasUpload'
    BY <2>1 DEF HasUpload
  <2>5. WorkersDrained'
    BY <2>1, FlushEffect DEF WorkersDrained, HpClosed
  <2> QED BY <2>2, <2>3, <2>4, <2>5
<1>3. CASE HpUploaded(w)
  <2> DEFINE s == Append(hpBatch[w], hpUpload[w])
  <2>1. /\ hpAt[w] = "uploads" /\ hpUpload[w] \in HpPages
        /\ hpAt' = [hpAt EXCEPT ![w] = "waits"] /\ hpUpload' = [hpUpload EXCEPT ![w] = HpNoPage]
        /\ UNCHANGED <<hpRow, hpQueue, hpStop>>
    BY <1>3 DEF HpUploaded, HasUpload
  <2>2. s \in Seq(HpPages) /\ Range(s) = Range(hpBatch[w]) \cup {hpUpload[w]}
    BY <2>1, InAppend DEF HtmlTypeOK
  <2>3. \/ HpFlush(w, s)
        \/ /\ hpBatch' = [hpBatch EXCEPT ![w] = s] /\ HpTo(hpUpload[w], "batched")
           /\ UNCHANGED hpFaults
    BY <1>3 DEF HpUploaded
  <2> HIDE DEF s
  <2>4. HasUpload'
    BY <2>1 DEF HasUpload, HtmlTypeOK
  <2>5. CASE HpFlush(w, s)
    <3>1. HandlersGone' /\ NoSendOnClosed' /\ PayloadsHeld'
      BY <2>1, <2>2, <2>5, UploadsFlushed DEF HtmlTypeOK
    <3>2. HtmlTypeOK'
      BY <2>1, <2>2, <2>5, FlushEffect DEF HtmlTypeOK
    <3>3. WorkersDrained'
      BY <2>1, <2>2, <2>5, FlushEffect DEF WorkersDrained, HpClosed, HtmlTypeOK
    <3> QED BY <2>4, <3>1, <3>2, <3>3
  <2>6. CASE /\ hpBatch' = [hpBatch EXCEPT ![w] = s] /\ HpTo(hpUpload[w], "batched")
             /\ UNCHANGED hpFaults
    <3>1. HtmlTypeOK'
      BY <2>1, <2>2, <2>6 DEF HtmlTypeOK, HpTo
    <3>2. HandlersGone' /\ NoSendOnClosed'
      BY <2>1, <2>6 DEF HtmlTypeOK, HpTo, HandlersGone, NoSendOnClosed
    <3>3. PayloadsHeld'
      <4> SUFFICES ASSUME hpFaults' = 0, NEW p \in HpPages
          PROVE  /\ hpPage'[p] = "queued" => p \in Range(hpQueue')
                 /\ hpPage'[p] = "uploading" =>
                        \E v \in HpWorkers : hpAt'[v] = "uploads" /\ hpUpload'[v] = p
                 /\ hpPage'[p] = "batched" => \E v \in HpWorkers : p \in Range(hpBatch'[v])
                 /\ hpPage'[p] \notin {"failed", "forgotten"}
        BY DEF PayloadsHeld
      <4>1. hpFaults = 0 /\ hpPage' = [hpPage EXCEPT ![hpUpload[w]] = "batched"]
        BY <2>6 DEF HpTo
      <4>2. \A v \in HpWorkers : Range(hpBatch[v]) \subseteq Range(hpBatch'[v])
        BY <2>2, <2>6 DEF HtmlTypeOK
      <4>3. CASE p = hpUpload[w]
        <5>1. p \in Range(hpBatch'[w]) /\ hpPage'[p] = "batched"
          BY <2>1, <2>2, <2>6, <4>1, <4>3 DEF HtmlTypeOK
        <5> QED BY <5>1
      <4>4. CASE p # hpUpload[w]
        <5>1. hpPage'[p] = hpPage[p]
          BY <4>1, <4>4 DEF HtmlTypeOK
        <5> QED BY <2>1, <4>1, <4>2, <4>4, <5>1 DEF HtmlTypeOK, PayloadsHeld
      <4> QED BY <4>3, <4>4
    <3>4. WorkersDrained'
      BY <2>1, <2>6 DEF HtmlTypeOK, WorkersDrained, HpClosed
    <3> QED BY <2>4, <3>1, <3>2, <3>3, <3>4
  <2> QED BY <2>3, <2>5, <2>6
<1>4. CASE HpUploadFails(w)
  <2>1. hpFaults' \in 0 .. HpMaxFaults /\ hpFaults' # 0
    BY <1>4, HpAssumption DEF HpUploadFails, HpFault, HtmlTypeOK
  <2>2. /\ HpTo(hpUpload[w], "failed") /\ hpAt[w] = "uploads"
        /\ hpAt' = [hpAt EXCEPT ![w] = "waits"] /\ hpUpload' = [hpUpload EXCEPT ![w] = HpNoPage]
        /\ UNCHANGED <<hpRow, hpQueue, hpBatch, hpStop>>
    BY <1>4 DEF HpUploadFails
  <2>3. HtmlTypeOK'
    BY <2>1, <2>2 DEF HtmlTypeOK, HpTo
  <2>4. HandlersGone' /\ NoSendOnClosed' /\ HasUpload' /\ PayloadsHeld'
    BY <2>1, <2>2 DEF HtmlTypeOK, HpTo, HandlersGone, NoSendOnClosed, HasUpload, PayloadsHeld
  <2>5. WorkersDrained'
    BY <2>1, <2>2 DEF HtmlTypeOK, WorkersDrained, HpClosed
  <2> QED BY <2>3, <2>4, <2>5
<1>5. CASE HpEnd(w)
  <2>1. /\ hpAt[w] = "waits" /\ HpClosed /\ hpQueue = <<>> /\ hpBatch[w] \in Seq(HpPages)
        /\ hpAt' = [hpAt EXCEPT ![w] = "ended"]
        /\ UNCHANGED <<hpRow, hpQueue, hpUpload, hpStop>>
    BY <1>5 DEF HpEnd, HpDrained, HtmlTypeOK
  <2>2. HasUpload'
    BY <2>1 DEF HasUpload, HtmlTypeOK
  <2>3. CASE hpBatch[w] = <<>> /\ UNCHANGED <<hpPage, hpBatch, hpFaults>>
    <3>1. HtmlTypeOK'
      BY <2>1, <2>3 DEF HtmlTypeOK
    <3>2. HandlersGone' /\ NoSendOnClosed' /\ PayloadsHeld'
      BY <2>1, <2>3 DEF HtmlTypeOK, HandlersGone, NoSendOnClosed, PayloadsHeld
    <3>3. WorkersDrained'
      BY <2>1, <2>3 DEF HtmlTypeOK, WorkersDrained, HpClosed
    <3> QED BY <2>2, <3>1, <3>2, <3>3
  <2>4. CASE HpFlush(w, hpBatch[w])
    <3>1. HandlersGone' /\ NoSendOnClosed' /\ PayloadsHeld'
      BY <2>1, <2>4, UploadsFlushed DEF HtmlTypeOK
    <3>2. HtmlTypeOK'
      BY <2>1, <2>4, FlushEffect DEF HtmlTypeOK
    <3>3. WorkersDrained'
      BY <2>1, <2>4, FlushEffect DEF WorkersDrained, HpClosed, HtmlTypeOK
    <3> QED BY <2>2, <3>1, <3>2, <3>3
  <2> QED BY <1>5, <2>3, <2>4 DEF HpEnd
<1> QED BY <1>1, <1>2, <1>3, <1>4, <1>5 DEF HtmlWorks

\* Every step keeps the invariant.
LEMMA HtmlStep == HtmlInv /\ [HtmlNext]_htmlVars => HtmlInv'
<1>1. [HtmlNext]_htmlVars => HtmlOutside \/ \E w \in HpWorkers : HtmlWorks(w)
  BY DEF HtmlNext, HtmlOutside, HtmlWorks
<1> QED BY <1>1, OutsideStep, WorkStep

\* The persister's variables keep their types, for any queue, batches and workers.
THEOREM HtmlTypeCorrect == HtmlSpec => []HtmlTypeOK
<1>1. HtmlInv => HtmlTypeOK
  BY DEF HtmlInv
<1> QED BY <1>1, InitHtml, HtmlStep, PTL DEF HtmlSpec

\* The shutdown of cmd/worker closes the channel of html_persister.go when no handler is
\* between its look at stopped and its send, for any number of handlers.
THEOREM SendsBeforeClose == HtmlSpec => []NoSendOnClosed
<1>1. HtmlInv => NoSendOnClosed
  BY DEF HtmlInv
<1> QED BY <1>1, InitHtml, HtmlStep, PTL DEF HtmlSpec

\* When Stop of the persister has returned, no accepted payload is left behind in the
\* queue, with a worker or in a batch, unless an upload or a write failed.
THEOREM DrainedOnStop == HtmlSpec => []UploadsDrained
<1>1. HtmlInv => UploadsDrained
  <2> SUFFICES ASSUME HtmlInv, hpStop = "done", hpFaults = 0, NEW p \in HpPages
               PROVE  hpPage[p] \in {"stamped", "missed", "dropped", "lost"}
    BY DEF UploadsDrained
  <2> USE DEF HtmlInv
  <2>1. \A w \in HpWorkers : hpAt[w] = "ended" /\ hpBatch[w] = <<>> /\ hpQueue = <<>>
    BY DEF WorkersDrained
  <2>2. hpQueue = <<>> /\ \A w \in HpWorkers : Range(hpBatch[w]) = {}
    BY <2>1, HpAssumption DEF Range
  <2>3. hpPage[p] \notin {"queued", "uploading", "batched", "failed", "forgotten"}
    BY <2>1, <2>2 DEF PayloadsHeld, Range
  <2>4. hpPage[p] \notin {"crawled", "offered", "panic"}
    BY DEF HandlersGone, NoSendOnClosed
  <2> QED BY <2>3, <2>4 DEF HtmlTypeOK
<1> QED BY <1>1, InitHtml, HtmlStep, PTL DEF HtmlSpec

-----------------------------------------------------------------------------
(* Discovery: the least of a set of numbers *)

LEMMA SmallestIndex ==
    ASSUME NEW T, T \subseteq Nat, T # {}
    PROVE  \E n \in T : \A m \in T : n <= m
<1> DEFINE R == OpToRel(<, Nat)
<1>1. IsWellFoundedOn(R, Nat)
  BY NatLessThanWellFounded
<1>2. \A m, n \in Nat : <<m, n>> \in R <=> m < n
  BY DEF OpToRel
<1> HIDE DEF R
<1>3. PICK n \in T : \A m \in T : ~ (<<m, n>> \in R)
  BY <1>1, WFMin
<1>4. \A m \in T : ~ (m < n)
  BY <1>2, <1>3, Zenon
<1> QED BY <1>4

-----------------------------------------------------------------------------
(* Discovery: reading robots.txt *)

\* What is read after a line follows from the line before.
LEMMA ReadsStep ==
    ASSUME NEW file, Len(file) \in Nat
    PROVE  DsReads(file) =
               [n \in 0 .. Len(file) |->
                   IF n = 0 THEN DsNothingRead
                   ELSE DsReadLine(DsReads(file)[n - 1], file[n])]
<1> DEFINE Follows(g, k) ==
               g = [n \in 0 .. k |-> IF n = 0 THEN DsNothingRead ELSE DsReadLine(g[n - 1], file[n])]
           T == {k \in 0 .. Len(file) : ~ \E g : Follows(g, k)}
<1>1. T = {}
  <2> SUFFICES ASSUME T # {} PROVE FALSE
    OBVIOUS
  <2>1. PICK k \in T : \A m \in T : k =< m
    <3>1. T \subseteq Nat
      OBVIOUS
    <3> HIDE DEF T
    <3> QED BY <3>1, SmallestIndex
  <2>2. k \in 0 .. Len(file) /\ ~ \E g : Follows(g, k)
    OBVIOUS
  <2>3. CASE k = 0
    <3>1. Follows([n \in 0 .. 0 |-> DsNothingRead], 0)
      OBVIOUS
    <3> QED BY <2>2, <2>3, <3>1
  <2>4. CASE k # 0
    <3>1. k - 1 \in 0 .. Len(file) /\ k - 1 \notin T
      BY <2>1, <2>2, <2>4
    <3>2. PICK g : Follows(g, k - 1)
      BY <3>1
    <3> DEFINE h == [n \in 0 .. k |-> IF n = k THEN DsReadLine(g[k - 1], file[k]) ELSE g[n]]
    <3>3. \A n \in 0 .. k : h[n] = IF n = 0 THEN DsNothingRead ELSE DsReadLine(h[n - 1], file[n])
      <4> SUFFICES ASSUME NEW n \in 0 .. k
                   PROVE  h[n] = IF n = 0 THEN DsNothingRead ELSE DsReadLine(h[n - 1], file[n])
        OBVIOUS
      <4>1. CASE n = 0
        BY <2>2, <2>4, <3>2, <4>1
      <4>2. CASE n = k
        BY <2>2, <2>4, <4>2
      <4>3. CASE n # 0 /\ n # k
        BY <2>2, <2>4, <3>2, <4>3
      <4> QED BY <4>1, <4>2, <4>3
    <3>4. Follows(h, k)
      BY <3>3
    <3> QED BY <2>2, <3>4
  <2> QED BY <2>3, <2>4
<1>2. PICK g : Follows(g, Len(file))
  BY <1>1
<1>3. DsReads(file) = CHOOSE r : Follows(r, Len(file))
  BY DEF DsReads
<1> QED BY <1>2, <1>3

\* A robots.txt is a sequence of lines, the first of which names an agent.
LEMMA FileType ==
    ASSUME NEW file \in DsFiles
    PROVE  /\ Len(file) \in Nat /\ DOMAIN file = 1 .. Len(file)
           /\ \A i \in 1 .. Len(file) : file[i] \in DsLines
           /\ 1 =< Len(file) => file[1][1] = "agent"
<1>1. PICK n \in 0 .. DsMaxLines : file \in [1 .. n -> DsLines]
  BY DEF DsFiles
<1>2. n \in Nat
  BY <1>1, DsAssumption
<1>3. file \in Seq(DsLines)
  BY <1>1, <1>2, SeqDef
<1>4. Len(file) \in Nat /\ DOMAIN file = 1 .. Len(file) /\ Len(file) = n
  BY <1>1, <1>2, <1>3, LenProperties
<1>5. file # <<>> => file[1][1] = "agent"
  BY DEF DsFiles
<1>6. Len(<<>>) = 0
  BY EmptySeq
<1>7. 1 =< Len(file) => file # <<>>
  BY <1>6
<1> QED BY <1>1, <1>4, <1>5, <1>7

\* An agent line names who its section is for.
LEMMA LineType ==
    ASSUME NEW line \in DsLines, line[1] = "agent"
    PROVE  line = <<"agent", line[2]>> /\ line[2] \in {"our", "any", "other"}
BY DEF DsLines

\* What a line changes.
LEMMA LineRead ==
    ASSUME NEW read, NEW line
    PROVE  LET r == DsReadLine(read, line)
           IN  /\ line[1] = "agent" =>
                      /\ r.section = line[2] /\ (r.own <=> read.own \/ line[2] = "our")
                      /\ r.rules = (IF line[2] = "our" THEN {} ELSE read.rules)
                      /\ r.wildcard = read.wildcard
               /\ line[1] # "agent" =>
                      /\ r.section = read.section /\ (r.own <=> read.own)
                      /\ r.rules = (IF read.section = "our" \/ (read.section = "any" /\ read.own)
                                    THEN read.rules \cup {line} ELSE read.rules)
                      /\ r.wildcard = (IF read.section = "any" /\ ~read.own
                                       THEN read.wildcard \cup {line} ELSE read.wildcard)
BY Zenon DEF DsReadLine

\* A line stands in one section.
LEMMA OneSection ==
    ASSUME NEW file \in DsFiles, NEW i \in 1 .. Len(file), NEW v, NEW w,
           DsStandsIn(file, i, v), DsStandsIn(file, i, w)
    PROVE  v = w
<1>1. PICK j \in 1 .. i : file[j] = <<"agent", v>> /\ \A k \in j + 1 .. i : file[k][1] # "agent"
  BY DEF DsStandsIn
<1>2. PICK m \in 1 .. i : file[m] = <<"agent", w>> /\ \A k \in m + 1 .. i : file[k][1] # "agent"
  BY DEF DsStandsIn
<1>3. file[j][1] = "agent" /\ file[m][1] = "agent" /\ i \in Nat
  BY <1>1, <1>2, FileType
<1>4. j = m
  BY <1>1, <1>2, <1>3
<1> QED BY <1>1, <1>2, <1>4

\* Another line stands in the section of the line before unless it begins one.
LEMMA NextLine ==
    ASSUME NEW file \in DsFiles, NEW n \in Nat, n + 1 =< Len(file), NEW w
    PROVE  /\ file[n + 1][1] # "agent" => (DsStandsIn(file, n + 1, w) <=> DsStandsIn(file, n, w))
           /\ file[n + 1] = <<"agent", w>> => DsStandsIn(file, n + 1, w)
<1>1. ASSUME file[n + 1][1] # "agent", DsStandsIn(file, n + 1, w) PROVE DsStandsIn(file, n, w)
  <2>1. PICK j \in 1 .. n + 1 :
            file[j] = <<"agent", w>> /\ \A k \in j + 1 .. n + 1 : file[k][1] # "agent"
    BY <1>1 DEF DsStandsIn
  <2>2. j \in 1 .. n
    BY <1>1, <2>1
  <2>3. \A k \in j + 1 .. n : k \in j + 1 .. n + 1
    BY <2>2
  <2> QED BY <2>1, <2>2, <2>3 DEF DsStandsIn
<1>2. ASSUME file[n + 1][1] # "agent", DsStandsIn(file, n, w) PROVE DsStandsIn(file, n + 1, w)
  <2>1. PICK j \in 1 .. n : file[j] = <<"agent", w>> /\ \A k \in j + 1 .. n : file[k][1] # "agent"
    BY <1>2 DEF DsStandsIn
  <2>2. j \in 1 .. n + 1 /\ \A k \in j + 1 .. n + 1 : k \in j + 1 .. n \/ k = n + 1
    BY <2>1
  <2>3. \A k \in j + 1 .. n + 1 : file[k][1] # "agent"
    BY <1>2, <2>1, <2>2
  <2> QED BY <2>1, <2>2, <2>3 DEF DsStandsIn
<1>3. ASSUME file[n + 1] = <<"agent", w>> PROVE DsStandsIn(file, n + 1, w)
  <2>1. n + 1 \in 1 .. n + 1 /\ \A k \in n + 1 + 1 .. n + 1 : FALSE
    OBVIOUS
  <2> QED BY <1>3, <2>1, Zenon DEF DsStandsIn
<1> QED BY <1>1, <1>2, <1>3

\* What the lines up to the n-th come to: the section the n-th stands in, whether ours
\* has begun, and the rules of the sections that count so far.
ReadSoFar(file, n) ==
    LET r == DsReads(file)[n]
    IN  /\ n > 0 => r.section \in {"our", "any", "other"} /\ DsStandsIn(file, n, r.section)
        /\ r.own <=> \E i \in 1 .. n : file[i] = <<"agent", "our">>
        /\ ~r.own => r.wildcard = DsSection(file, n, "any")
        /\ r.own /\ DsOursLast(file) => r.rules = DsSection(file, n, "our")

\* A section grows by the lines that stand in it.
LEMMA SectionGrows ==
    ASSUME NEW file \in DsFiles, NEW n \in Nat, n + 1 =< Len(file), NEW w
    PROVE  DsSection(file, n + 1, w) =
               IF file[n + 1][1] # "agent" /\ DsStandsIn(file, n + 1, w)
               THEN DsSection(file, n, w) \cup {file[n + 1]} ELSE DsSection(file, n, w)
<1>1. 1 .. n + 1 = (1 .. n) \cup {n + 1}
  OBVIOUS
<1> DEFINE of(k) == file[k][1] # "agent" /\ DsStandsIn(file, k, w)
<1>2. \A m : DsSection(file, m, w) = {file[i] : i \in {k \in 1 .. m : of(k)}}
  BY DEF DsSection
<1> HIDE DEF of
<1>3. CASE of(n + 1)
  <2>1. {k \in 1 .. n + 1 : of(k)} = {k \in 1 .. n : of(k)} \cup {n + 1}
    BY <1>1, <1>3
  <2> QED BY <1>2, <1>3, <2>1 DEF of
<1>4. CASE ~of(n + 1)
  <2>1. {k \in 1 .. n + 1 : of(k)} = {k \in 1 .. n : of(k)}
    BY <1>1, <1>4
  <2> QED BY <1>2, <1>4, <2>1 DEF of
<1> QED BY <1>3, <1>4

\* The next line is read right when those before it were.
LEMMA LineReadRight ==
    ASSUME NEW file \in DsFiles, NEW n \in Nat, n + 1 =< Len(file), ReadSoFar(file, n)
    PROVE  ReadSoFar(file, n + 1)
<1> DEFINE read == DsReads(file)[n]
           line == file[n + 1]
           r == DsReads(file)[n + 1]
           our == <<"agent", "our">>
<1>1. /\ Len(file) \in Nat /\ line \in DsLines /\ DOMAIN file = 1 .. Len(file)
      /\ 1 =< Len(file) => file[1][1] = "agent"
  BY FileType
<1>2. r = DsReadLine(read, line)
  <2>1. n + 1 \in 0 .. Len(file) /\ n + 1 # 0 /\ n + 1 - 1 = n
    BY <1>1
  <2> QED BY <1>1, <2>1, ReadsStep
<1>3. /\ n > 0 => read.section \in {"our", "any", "other"} /\ DsStandsIn(file, n, read.section)
      /\ read.own <=> \E i \in 1 .. n : file[i] = our
      /\ ~read.own => read.wildcard = DsSection(file, n, "any")
      /\ read.own /\ DsOursLast(file) => read.rules = DsSection(file, n, "our")
  BY Zenon DEF ReadSoFar
<1>4. SUFFICES /\ r.section \in {"our", "any", "other"} /\ DsStandsIn(file, n + 1, r.section)
               /\ r.own <=> \E i \in 1 .. n + 1 : file[i] = our
               /\ ~r.own => r.wildcard = DsSection(file, n + 1, "any")
               /\ r.own /\ DsOursLast(file) => r.rules = DsSection(file, n + 1, "our")
  BY Zenon DEF ReadSoFar
<1>5. (\E i \in 1 .. n + 1 : file[i] = our) <=> (\E i \in 1 .. n : file[i] = our) \/ line = our
  <2>1. 1 .. n + 1 = (1 .. n) \cup {n + 1}
    OBVIOUS
  <2> QED BY <2>1
<1> HIDE DEF read, line, r, our
<1>6. CASE line[1] = "agent"
  <2>1. line = <<"agent", line[2]>> /\ line[2] \in {"our", "any", "other"}
    BY <1>1, <1>6, LineType
  <2>2. /\ r.section = line[2] /\ (r.own <=> read.own \/ line[2] = "our")
        /\ r.rules = (IF line[2] = "our" THEN {} ELSE read.rules)
        /\ r.wildcard = read.wildcard
    BY <1>2, <1>6, LineRead
  <2>3. DsStandsIn(file, n + 1, line[2])
    BY <2>1, NextLine DEF line
  <2>4. line = our <=> line[2] = "our"
    BY <2>1 DEF our
  <2>5. \A w : DsSection(file, n + 1, w) = DsSection(file, n, w)
    BY <1>6, SectionGrows DEF line
  <2>6. r.own <=> \E i \in 1 .. n + 1 : file[i] = our
    BY <1>3, <1>5, <2>2, <2>4, Zenon
  <2>7. ~r.own => r.wildcard = DsSection(file, n + 1, "any")
    BY <1>3, <2>2, <2>5, Zenon
  <2>8. ASSUME r.own, DsOursLast(file) PROVE r.rules = DsSection(file, n + 1, "our")
    <3>1. CASE line[2] # "our"
      BY <1>3, <2>2, <2>5, <2>8, <3>1, Zenon
    <3>2. CASE line[2] = "our"
      <4>1. DsSection(file, n, "our") = {}
        <5> SUFFICES ASSUME NEW k \in 1 .. n, DsStandsIn(file, k, "our") PROVE FALSE
          BY DEF DsSection
        <5>1. PICK j \in 1 .. k : file[j] = our
          BY DEF DsStandsIn, our
        <5>2. j \in DOMAIN file /\ n + 1 \in DOMAIN file /\ j < n + 1
          BY <1>1
        <5>3. file[n + 1] = our
          BY <2>4, <3>2 DEF line
        <5> QED BY <2>8, <5>1, <5>2, <5>3 DEF DsOursLast, our
      <4> QED BY <2>2, <2>5, <3>2, <4>1, Zenon
    <3> QED BY <3>1, <3>2
  <2> QED BY <2>1, <2>2, <2>3, <2>6, <2>7, <2>8
<1>7. CASE line[1] # "agent"
  <2>1. n > 0
    BY <1>1, <1>7 DEF line
  <2>2. /\ r.section = read.section /\ (r.own <=> read.own)
        /\ r.rules = (IF read.section = "our" \/ (read.section = "any" /\ read.own)
                      THEN read.rules \cup {line} ELSE read.rules)
        /\ r.wildcard = (IF read.section = "any" /\ ~read.own
                         THEN read.wildcard \cup {line} ELSE read.wildcard)
    <3>1. r.own <=> read.own
      BY <1>2, <1>7, Zenon DEF DsReadLine
    <3>2. r.rules = (IF read.section = "our" \/ (read.section = "any" /\ read.own)
                     THEN read.rules \cup {line} ELSE read.rules)
      BY <1>2, <1>7, LineRead, Zenon
    <3>3. r.wildcard = (IF read.section = "any" /\ ~read.own
                        THEN read.wildcard \cup {line} ELSE read.wildcard)
      BY <1>2, <1>7, LineRead, Zenon
    <3>4. r.section = read.section
      BY <1>2, <1>7 DEF DsReadLine
    <3> QED BY <3>1, <3>2, <3>3, <3>4
  <2>3. r.section \in {"our", "any", "other"} /\ DsStandsIn(file, n + 1, r.section)
    BY <1>3, <1>7, <2>1, <2>2, NextLine DEF line
  <2>4. \A w : DsStandsIn(file, n + 1, w) <=> w = read.section
    <3>1. n + 1 \in 1 .. Len(file)
      BY <1>1
    <3> QED BY <2>2, <2>3, <3>1, OneSection
  <2>5. \A w : DsSection(file, n + 1, w) =
                   IF w = read.section THEN DsSection(file, n, w) \cup {line}
                   ELSE DsSection(file, n, w)
    BY <1>7, <2>4, SectionGrows DEF line
  <2>6. line # our
    BY <1>7 DEF our
  <2>7. r.own <=> \E i \in 1 .. n + 1 : file[i] = our
    BY <1>3, <1>5, <2>2, <2>6, Zenon
  <2>8. ~r.own => r.wildcard = DsSection(file, n + 1, "any")
    BY <1>3, <2>2, <2>5, Zenon
  <2>9. ASSUME r.own, DsOursLast(file) PROVE r.rules = DsSection(file, n + 1, "our")
    <3>1. read.section # "any"
      <4> SUFFICES ASSUME read.section = "any" PROVE FALSE
        OBVIOUS
      <4>1. PICK j \in 1 .. n : file[j] = <<"agent", "any">>
                                /\ \A k \in j + 1 .. n : file[k][1] # "agent"
        BY <1>3, <2>1 DEF DsStandsIn
      <4>2. PICK i \in 1 .. n : file[i] = our
        BY <1>3, <2>2, <2>9, Zenon
      <4>3. i # j /\ i \notin j + 1 .. n
        BY <4>1, <4>2 DEF our
      <4>4. i \in DOMAIN file /\ j \in DOMAIN file /\ i < j
        BY <1>1, <4>3
      <4> QED BY <2>9, <4>1, <4>2, <4>4 DEF DsOursLast, our
    <3>2. read.own /\ read.rules = DsSection(file, n, "our")
      BY <1>3, <2>2, <2>9, Zenon
    <3> QED BY <2>2, <2>5, <3>1, <3>2, Zenon
  <2> QED BY <2>3, <2>7, <2>8, <2>9
<1> QED BY <1>6, <1>7

\* Of every file that says nothing for any crawler after the section for ours, the
\* rules that are read are those it states (crawler/robots.go parseRobotsTxtContent).
THEOREM ParsedAsStated ==
    ASSUME NEW file \in DsFiles, DsOursLast(file)
    PROVE  DsParse(file) = DsStated(file)
<1> DEFINE T == {n \in 0 .. Len(file) : ~ReadSoFar(file, n)}
<1>1. Len(file) \in Nat /\ DOMAIN file = 1 .. Len(file)
  BY FileType
<1>2. ReadSoFar(file, 0)
  <2>1. DsReads(file)[0] = DsNothingRead
    BY <1>1, ReadsStep
  <2>2. ~(DsReads(file)[0]).own /\ (DsReads(file)[0]).wildcard = {}
    <3>1. ~DsNothingRead.own /\ DsNothingRead.wildcard = {}
      BY DEF DsNothingRead
    <3> QED BY <2>1, <3>1, Zenon
  <2>3. 1 .. 0 = {} /\ ~(0 > 0)
    OBVIOUS
  <2>4. DsSection(file, 0, "any") = {}
    BY <2>3 DEF DsSection
  <2>5. (DsReads(file)[0]).own <=> \E i \in 1 .. 0 : file[i] = <<"agent", "our">>
    BY <2>2, <2>3, Zenon
  <2> QED BY <2>2, <2>3, <2>4, <2>5, Zenon DEF ReadSoFar
<1>3. T = {}
  <2> SUFFICES ASSUME T # {} PROVE FALSE
    OBVIOUS
  <2>1. T \subseteq Nat /\ \A n \in T : n \in 0 .. Len(file) /\ ~ReadSoFar(file, n)
    BY <1>1
  <2>2. \A n \in 0 .. Len(file) : n \notin T => ReadSoFar(file, n)
    OBVIOUS
  <2> HIDE DEF T
  <2>3. PICK n \in T : \A m \in T : n =< m
    BY <2>1, SmallestIndex
  <2>4. n # 0
    BY <1>2, <2>1
  <2>5. n - 1 \in Nat /\ n - 1 \in 0 .. Len(file) /\ n - 1 \notin T /\ (n - 1) + 1 = n
        /\ (n - 1) + 1 =< Len(file)
    BY <1>1, <2>1, <2>3, <2>4
  <2>6. ReadSoFar(file, n - 1)
    BY <2>2, <2>5
  <2>7. ReadSoFar(file, (n - 1) + 1)
    BY <2>5, <2>6, LineReadRight
  <2> QED BY <2>1, <2>5, <2>7
<1>4. ReadSoFar(file, Len(file))
  BY <1>1, <1>3
<1> DEFINE r == DsReads(file)[Len(file)]
<1>5. /\ r.own <=> \E i \in DOMAIN file : file[i] = <<"agent", "our">>
      /\ ~r.own => r.wildcard = DsSection(file, Len(file), "any")
      /\ r.own => r.rules = DsSection(file, Len(file), "our")
  BY <1>1, <1>4, Zenon DEF ReadSoFar
<1>6. DsParse(file) = IF r.own THEN r.rules ELSE r.wildcard
  BY Zenon DEF DsParse
<1> HIDE DEF r
<1>7. CASE r.own
  BY <1>5, <1>6, <1>7, Zenon DEF DsStated
<1>8. CASE ~r.own
  BY <1>5, <1>6, <1>8, Zenon DEF DsStated
<1> QED BY <1>7, <1>8

-----------------------------------------------------------------------------
(* Discovery: the tasks of a job *)

\* The pages that wait or have a task, without a root that was enqueued unasked.
Passed == dsFound \cup (dsTasks \ (IF dsFallback THEN {DsRoot} ELSE {}))

\* They passed the rules that were read, the cached rules are
\* those, and what was read is what the file states.
DiscoveryInv ==
    /\ DiscoveryTypeOK
    /\ dsSite.oursLast => dsSite.read = dsSite.stated
    /\ ~dsBlind =>
           /\ \A pg \in Passed : DsAllowed(dsSite.read, pg)
           /\ dsInfo # NotCached => dsInfo = dsSite.read

\* Of a fetch that does not fail the rules are those of the site, and it never undoes
\* an earlier failure.
LEMMA FetchedRules ==
    ASSUME DiscoveryTypeOK, NEW rules, DsFetch(rules)
    PROVE  /\ dsBlind' \in BOOLEAN /\ dsFaults' \in 0 .. DsMaxFaults
           /\ ~dsBlind' => ~dsBlind /\ rules = dsSite.read
<1>1. dsBlind \in BOOLEAN
  BY Zenon DEF DiscoveryTypeOK
<1>2. dsFaults \in 0 .. DsMaxFaults /\ DsMaxFaults \in Nat
  BY DsAssumption DEF DiscoveryTypeOK
<1>3. CASE rules = dsSite.read /\ UNCHANGED <<dsBlind, dsFaults>>
  <2>1. dsBlind' = dsBlind
    BY <1>3
  <2>2. dsFaults' \in 0 .. DsMaxFaults
    BY <1>2, <1>3
  <2>3. ~dsBlind' => ~dsBlind /\ rules = dsSite.read
    <3>1. rules = dsSite.read
      BY <1>3
    <3> QED BY ONLY <2>1, <3>1, Zenon
  <2>4. dsBlind' \in BOOLEAN
    BY <1>1, <2>1
  <2> QED BY <2>2, <2>3, <2>4, Zenon
<1>4. CASE dsFaults < DsMaxFaults /\ dsFaults' = dsFaults + 1 /\ rules = {} /\ dsBlind' = TRUE
  <2>1. dsFaults' \in 0 .. DsMaxFaults
    BY <1>2, <1>4
  <2>2. dsBlind' = TRUE
    BY <1>4, Zenon
  <2> QED BY <2>1, <2>2, Zenon
<1> QED BY <1>3, <1>4, Zenon DEF DsFetch

\* The site is read before discovery begins.
LEMMA InitDiscovery == DiscoveryInit => DiscoveryInv
<1> SUFFICES ASSUME DiscoveryInit PROVE DiscoveryInv
  OBVIOUS
<1>1. DiscoveryTypeOK
  <2>1. dsFallback \in BOOLEAN /\ dsBlind \in BOOLEAN
    BY Zenon DEF DiscoveryInit
  <2>2. dsFaults \in 0 .. DsMaxFaults
    BY DsAssumption DEF DiscoveryInit
  <2> QED BY <2>1, <2>2 DEF DiscoveryInit, DiscoveryTypeOK
<1>2. dsSite.oursLast => dsSite.read = dsSite.stated
  <2>1. PICK file \in DsFiles : dsSite = DsReadSite(file)
    BY DEF DiscoveryInit
  <2>2. /\ dsSite.read = DsParse(file) /\ dsSite.stated = DsStated(file)
        /\ dsSite.oursLast <=> DsOursLast(file)
    BY <2>1, Zenon DEF DsReadSite
  <2> QED BY <2>2, ParsedAsStated, Zenon
<1>3. Passed = {} /\ dsInfo = NotCached
  BY DEF DiscoveryInit, Passed
<1> QED BY <1>1, <1>2, <1>3 DEF DiscoveryInv

\* Steps that leave alone what the rules have passed, and may stop it.
LEMMA DiscoveryIdles ==
    ASSUME DiscoveryInv, DiscoveryTypeOK', UNCHANGED <<dsSite, dsTasks, dsFallback, dsBlind>>,
           dsFound' \subseteq dsFound, dsInfo' \in {dsInfo, NotCached}
    PROVE  DiscoveryInv'
<1>1. dsBlind' <=> dsBlind
  BY Zenon
<1>2. dsFallback' = dsFallback /\ dsSite' = dsSite /\ dsTasks' = dsTasks
  BY Zenon
<1>3. dsSite'.oursLast => dsSite'.read = dsSite'.stated
  BY <1>2, Zenon DEF DiscoveryInv
<1>4. Passed' \subseteq Passed
  <2>1. dsFound' \subseteq dsFound
    OBVIOUS
  <2> QED BY ONLY <1>2, <2>1, Zenon DEF Passed
<1>5. ASSUME ~dsBlind'
      PROVE  /\ \A pg \in Passed' : DsAllowed(dsSite'.read, pg)
             /\ dsInfo' # NotCached => dsInfo' = dsSite'.read
  <2>1. /\ \A pg \in Passed : DsAllowed(dsSite.read, pg)
        /\ dsInfo # NotCached => dsInfo = dsSite.read
    BY <1>1, <1>5, Zenon DEF DiscoveryInv
  <2>2. dsInfo' # NotCached => dsInfo' = dsSite.read
    BY <2>1
  <2>3. \A pg \in Passed' : DsAllowed(dsSite.read, pg)
    BY <1>4, <2>1
  <2> QED BY <1>2, <2>2, <2>3
<1> QED BY <1>3, <1>5, Zenon DEF DiscoveryInv

\* Discovery keeps the types.
LEMMA DiscoveryTypes == DiscoveryTypeOK /\ [DiscoveryNext]_discoveryVars => DiscoveryTypeOK'
<1> SUFFICES ASSUME DiscoveryTypeOK, [DiscoveryNext]_discoveryVars PROVE DiscoveryTypeOK'
  OBVIOUS
<1> DEFINE Jobs == {"pending", "initialising", "enqueueing", "open", "abandoned", "failed", "stopped"}
<1>1. /\ dsJob \in Jobs /\ dsFound \subseteq DsPages /\ dsTasks \subseteq DsPages
      /\ (dsFound # {} => dsJob = "enqueueing") /\ dsFaults \in 0 .. DsMaxFaults
      /\ DsRoot \in DsPages /\ DsMaxFaults \in Nat
  BY DsAssumption DEF DiscoveryTypeOK
<1>2. dsFallback \in BOOLEAN /\ dsBlind \in BOOLEAN
  BY Zenon DEF DiscoveryTypeOK
<1>3. SUFFICES /\ dsJob' \in Jobs /\ dsFound' \subseteq DsPages /\ dsTasks' \subseteq DsPages
               /\ (dsFound' # {} => dsJob' = "enqueueing") /\ dsFaults' \in 0 .. DsMaxFaults
               /\ dsFallback' \in BOOLEAN /\ dsBlind' \in BOOLEAN
  BY Zenon DEF DiscoveryTypeOK
<1>4. ASSUME DsFault PROVE dsFaults' \in 0 .. DsMaxFaults /\ dsBlind' \in BOOLEAN
  <2>1. dsFaults < DsMaxFaults /\ dsFaults' = dsFaults + 1 /\ dsBlind' = dsBlind
    BY <1>4, Zenon DEF DsFault
  <2>2. dsFaults' \in 0 .. DsMaxFaults
    BY <1>1, <2>1
  <2> QED BY <1>2, <2>1, <2>2
<1>5. CASE UNCHANGED discoveryVars
  BY <1>1, <1>2, <1>5 DEF discoveryVars
<1>6. CASE DsBegin \/ DsJobStops \/ DsInfoExpires
  <2>1. UNCHANGED <<dsTasks, dsFallback, dsBlind, dsFaults>>
    BY <1>6 DEF DsBegin, DsJobStops, DsInfoExpires
  <2>2. /\ dsJob' \in Jobs /\ dsFound' \subseteq DsPages
        /\ (dsFound' # {} => dsJob' = "enqueueing")
    BY <1>1, <1>6 DEF DsBegin, DsJobStops, DsInfoExpires
  <2> QED BY <1>1, <1>2, <2>1, <2>2
<1>7. CASE DsDiscover
  <2>1. PICK urls \in SUBSET DsPages, rules \in {dsSite.read, {}} :
        /\ DsFetch(rules)
        /\ dsFound' = DsFiltered(urls, rules)
        /\ IF dsFound' # {}
           THEN dsJob' = "enqueueing" /\ UNCHANGED <<dsTasks, dsFallback>>
           ELSE dsJob' = "open" /\ dsTasks' = {DsRoot} /\ dsFallback' = TRUE
    BY <1>7 DEF DsDiscover
  <2>2. dsFaults' \in 0 .. DsMaxFaults /\ dsBlind' \in BOOLEAN
    BY <2>1, FetchedRules
  <2>3. dsFound' \subseteq DsPages
    BY <2>1 DEF DsFiltered
  <2>4. dsFallback' \in BOOLEAN
    <3>1. dsFallback' = dsFallback \/ dsFallback' = TRUE
      BY <2>1, Zenon
    <3> QED BY <1>2, <3>1, Zenon
  <2>5. dsJob' \in Jobs /\ dsTasks' \subseteq DsPages /\ (dsFound' # {} => dsJob' = "enqueueing")
    BY <1>1, <2>1
  <2> QED BY <2>2, <2>3, <2>4, <2>5
<1>8. CASE DsFallbackFails
  <2>1. dsJob = "initialising" /\ dsJob' = "abandoned" /\ DsFault
        /\ UNCHANGED <<dsFound, dsTasks, dsFallback>>
    BY <1>8 DEF DsFallbackFails
  <2> QED BY <1>1, <1>2, <1>4, <2>1
<1>9. CASE DsEnqueueBatch
  <2>1. PICK batch \in SUBSET dsFound :
        /\ dsFound' = dsFound \ batch
        /\ \/ dsTasks' = dsTasks \cup batch /\ UNCHANGED <<dsBlind, dsFaults>>
           \/ DsFault /\ UNCHANGED dsTasks
    BY <1>9 DEF DsEnqueueBatch
  <2>2. /\ dsJob = "enqueueing" /\ dsJob' = (IF dsFound' = {} THEN "open" ELSE dsJob)
        /\ dsFallback' = dsFallback
    BY <1>9, Zenon DEF DsEnqueueBatch
  <2>3. dsFaults' \in 0 .. DsMaxFaults /\ dsBlind' \in BOOLEAN
    BY <1>1, <1>2, <1>4, <2>1
  <2>4. dsTasks' \subseteq DsPages /\ dsFound' \subseteq DsPages
    BY <1>1, <2>1
  <2>5. dsJob' \in Jobs /\ (dsFound' # {} => dsJob' = "enqueueing")
    BY <2>2
  <2> QED BY <1>2, <2>2, <2>3, <2>4, <2>5
<1>10. CASE DsManualRoot
  <2>1. PICK rules \in {dsSite.read, {}} :
        /\ DsFetch(rules)
        /\ IF DsAllowed(rules, DsRoot)
           THEN dsJob' = "open" /\ dsTasks' = {DsRoot}
           ELSE dsJob' = "failed" /\ UNCHANGED dsTasks
    BY <1>10 DEF DsManualRoot
  <2>2. dsJob = "pending" /\ UNCHANGED <<dsFound, dsFallback>>
    BY <1>10 DEF DsManualRoot
  <2>3. dsFaults' \in 0 .. DsMaxFaults /\ dsBlind' \in BOOLEAN
    BY <2>1, FetchedRules
  <2> QED BY <1>1, <1>2, <2>1, <2>2, <2>3
<1>11. CASE DsLoadJobInfo
  <2>1. PICK rules \in {dsSite.read, {}} : DsFetch(rules)
    BY <1>11 DEF DsLoadJobInfo
  <2>2. UNCHANGED <<dsJob, dsFound, dsTasks, dsFallback>>
    BY <1>11 DEF DsLoadJobInfo
  <2> QED BY <1>1, <1>2, <2>1, <2>2, FetchedRules
<1>12. CASE DsProcessLinks
  <2>1. PICK links \in SUBSET DsPages : dsTasks' = dsTasks \cup DsLinksKept(links)
    BY <1>12 DEF DsProcessLinks
  <2>2. UNCHANGED <<dsJob, dsFound, dsFallback, dsBlind, dsFaults>>
    BY <1>12 DEF DsProcessLinks
  <2>3. dsTasks' \subseteq DsPages
    BY <1>1, <2>1 DEF DsLinksKept
  <2> QED BY <1>1, <1>2, <2>2, <2>3
<1> QED BY <1>5, <1>6, <1>7, <1>8, <1>9, <1>10, <1>11, <1>12 DEF DiscoveryNext

\* Every way a page enters the job goes through the rules, but for the fallback.
LEMMA DiscoveryStep == DiscoveryInv /\ [DiscoveryNext]_discoveryVars => DiscoveryInv'
<1> SUFFICES ASSUME DiscoveryInv, [DiscoveryNext]_discoveryVars PROVE DiscoveryInv'
  OBVIOUS
<1>1. DiscoveryTypeOK /\ DiscoveryTypeOK'
  BY DiscoveryTypes DEF DiscoveryInv
<1>2. /\ dsSite.oursLast => dsSite.read = dsSite.stated
      /\ ~dsBlind => /\ \A pg \in Passed : DsAllowed(dsSite.read, pg)
                     /\ dsInfo # NotCached => dsInfo = dsSite.read
  BY Zenon DEF DiscoveryInv
<1>3. CASE UNCHANGED discoveryVars \/ DsBegin \/ DsJobStops \/ DsInfoExpires
  <2>1. UNCHANGED <<dsSite, dsTasks, dsFallback, dsBlind>>
    BY <1>3 DEF discoveryVars, DsBegin, DsJobStops, DsInfoExpires
  <2>2. dsFound' \subseteq dsFound /\ dsInfo' \in {dsInfo, NotCached}
    BY <1>3 DEF discoveryVars, DsBegin, DsJobStops, DsInfoExpires
  <2> QED BY <1>1, <2>1, <2>2, DiscoveryIdles
<1>4. CASE DsFallbackFails
  <2>1. UNCHANGED <<dsSite, dsTasks, dsFallback, dsBlind, dsFound, dsInfo>>
    BY <1>4 DEF DsFallbackFails, DsFault
  <2> QED BY <1>1, <2>1, DiscoveryIdles
<1> SUFFICES ASSUME DsDiscover \/ DsEnqueueBatch \/ DsManualRoot \/ DsLoadJobInfo \/ DsProcessLinks
             PROVE  /\ dsSite' = dsSite
                    /\ ~dsBlind' => /\ \A pg \in Passed' : DsAllowed(dsSite.read, pg)
                                    /\ dsInfo' # NotCached => dsInfo' = dsSite.read
  <2>1. ASSUME dsSite' = dsSite,
               ~dsBlind' => /\ \A pg \in Passed' : DsAllowed(dsSite.read, pg)
                            /\ dsInfo' # NotCached => dsInfo' = dsSite.read
        PROVE  DiscoveryInv'
    BY <1>1, <1>2, <2>1, Zenon DEF DiscoveryInv
  <2> QED BY <1>3, <1>4, <2>1 DEF DiscoveryNext
<1>5. CASE DsDiscover
  <2>1. PICK urls \in SUBSET DsPages, rules \in {dsSite.read, {}} :
        /\ DsFetch(rules)
        /\ dsFound' = DsFiltered(urls, rules)
        /\ IF dsFound' # {}
           THEN dsJob' = "enqueueing" /\ UNCHANGED <<dsTasks, dsFallback>>
           ELSE dsJob' = "open" /\ dsTasks' = {DsRoot} /\ dsFallback' = TRUE
    BY <1>5 DEF DsDiscover
  <2>2. dsJob = "initialising" /\ UNCHANGED <<dsSite, dsInfo>>
    BY <1>5 DEF DsDiscover
  <2>3. ~dsBlind' => ~dsBlind /\ rules = dsSite.read
    BY <1>1, <2>1, FetchedRules
  <2>4. \A pg \in dsFound' : DsAllowed(rules, pg)
    BY <2>1 DEF DsFiltered
  <2>5. Passed' \subseteq dsFound' \cup Passed
    <3>1. CASE dsFound' # {}
      <4>1. dsTasks' = dsTasks /\ dsFallback' = dsFallback
        BY <2>1, <3>1, Zenon
      <4> QED BY <4>1, Zenon DEF Passed
    <3>2. CASE dsFound' = {}
      <4>1. dsTasks' = {DsRoot} /\ dsFallback' = TRUE
        BY <2>1, <3>2, Zenon
      <4> QED BY <3>2, <4>1, Zenon DEF Passed
    <3> QED BY <3>1, <3>2
  <2>6. ASSUME ~dsBlind' PROVE \A pg \in Passed' : DsAllowed(dsSite.read, pg)
    BY <1>2, <2>3, <2>4, <2>5, <2>6, Zenon
  <2>7. ASSUME ~dsBlind', dsInfo' # NotCached PROVE dsInfo' = dsSite.read
    <3>1. dsInfo' = dsInfo
      BY <2>2
    <3> QED BY <1>2, <2>3, <2>7, <3>1, Zenon
  <2> QED BY <2>2, <2>6, <2>7
<1>6. CASE DsEnqueueBatch
  <2>1. PICK batch \in SUBSET dsFound :
        /\ dsFound' = dsFound \ batch
        /\ \/ dsTasks' = dsTasks \cup batch /\ UNCHANGED <<dsBlind, dsFaults>>
           \/ DsFault /\ UNCHANGED dsTasks
    BY <1>6 DEF DsEnqueueBatch
  <2>2. dsSite' = dsSite /\ dsInfo' = dsInfo /\ dsFallback' = dsFallback
    BY <1>6, Zenon DEF DsEnqueueBatch
  <2>3. dsBlind' = dsBlind
    BY <2>1, Zenon DEF DsFault
  <2>4. dsTasks' \subseteq dsTasks \cup dsFound /\ dsFound' \subseteq dsFound
    BY <2>1
  <2>5. Passed' \subseteq Passed
    BY <2>2, <2>4, Zenon DEF Passed
  <2> QED BY <1>2, <2>2, <2>3, <2>5, Zenon
<1>7. CASE DsManualRoot
  <2>1. PICK rules \in {dsSite.read, {}} :
        /\ DsFetch(rules)
        /\ IF DsAllowed(rules, DsRoot)
           THEN dsJob' = "open" /\ dsTasks' = {DsRoot}
           ELSE dsJob' = "failed" /\ UNCHANGED dsTasks
    BY <1>7 DEF DsManualRoot
  <2>2. dsSite' = dsSite /\ dsInfo' = dsInfo /\ dsFound' = dsFound /\ dsFallback' = dsFallback
    BY <1>7, Zenon DEF DsManualRoot
  <2>3. ~dsBlind' => ~dsBlind /\ rules = dsSite.read
    BY <1>1, <2>1, FetchedRules
  <2>4. \A pg \in Passed' : pg \in Passed \/ DsAllowed(rules, pg)
    <3>1. CASE DsAllowed(rules, DsRoot)
      <4>1. dsTasks' = {DsRoot}
        BY <2>1, <3>1
      <4> QED BY <2>2, <3>1, <4>1, Zenon DEF Passed
    <3>2. CASE ~DsAllowed(rules, DsRoot)
      <4>1. dsTasks' = dsTasks
        BY <2>1, <3>2, Zenon
      <4> QED BY <2>2, <4>1, Zenon DEF Passed
    <3> QED BY <3>1, <3>2
  <2> QED BY <1>2, <2>2, <2>3, <2>4, Zenon
<1>8. CASE DsLoadJobInfo
  <2>1. PICK rules \in {dsSite.read, {}} : DsFetch(rules) /\ dsInfo' = rules
    BY <1>8 DEF DsLoadJobInfo
  <2>2. dsSite' = dsSite /\ dsFound' = dsFound /\ dsTasks' = dsTasks /\ dsFallback' = dsFallback
    BY <1>8, Zenon DEF DsLoadJobInfo
  <2>3. ~dsBlind' => ~dsBlind /\ rules = dsSite.read
    BY <1>1, <2>1, FetchedRules
  <2>4. Passed' = Passed
    BY <2>2, Zenon DEF Passed
  <2> QED BY <1>2, <2>1, <2>2, <2>3, <2>4, Zenon
<1>9. CASE DsProcessLinks
  <2>1. PICK links \in SUBSET DsPages : dsTasks' = dsTasks \cup DsLinksKept(links)
    BY <1>9 DEF DsProcessLinks
  <2>2. /\ dsSite' = dsSite /\ dsFound' = dsFound /\ dsFallback' = dsFallback
        /\ dsInfo' = dsInfo /\ dsBlind' = dsBlind /\ dsInfo # NotCached
    BY <1>9, Zenon DEF DsProcessLinks
  <2>3. \A pg \in DsLinksKept(links) : DsAllowed(dsInfo, pg)
    BY DEF DsLinksKept
  <2>4. Passed' \subseteq Passed \cup DsLinksKept(links)
    BY <2>1, <2>2, Zenon DEF Passed
  <2> QED BY <1>2, <2>2, <2>3, <2>4, Zenon
<1> QED BY <1>5, <1>6, <1>7, <1>8, <1>9

-----------------------------------------------------------------------------
(* Discovery: theorems *)

\* The job, the pages that wait or have a task, and what is cached have their types.
THEOREM DiscoveryTypeCorrect == DiscoverySpec => []DiscoveryTypeOK
<1>1. DiscoveryInv => DiscoveryTypeOK
  BY DEF DiscoveryInv
<1> QED BY InitDiscovery, DiscoveryStep, <1>1, PTL DEF DiscoverySpec

\* A page that robots.txt disallows has no task, however long the file is and whatever
\* failed, but for the cases the code knows (jobs/manager.go filterURLsAgainstRobots,
\* jobs/link_discovery.go isLinkAllowedForTask).
THEOREM RobotsAreKept == DiscoverySpec => []RobotsKept
<1>1. DiscoveryInv => RobotsKept
  <2> SUFFICES ASSUME DiscoveryInv, dsSite.oursLast, ~dsBlind,
                      NEW pg \in dsTasks \ (IF dsFallback THEN {DsRoot} ELSE {})
               PROVE  DsAllowed(dsSite.stated, pg)
    BY Zenon DEF RobotsKept
  <2>1. dsSite.read = dsSite.stated /\ \A p \in Passed : DsAllowed(dsSite.read, p)
    BY Zenon DEF DiscoveryInv
  <2>2. pg \in Passed
    BY Zenon DEF Passed
  <2>3. DsAllowed(dsSite.read, pg)
    BY <2>1, <2>2, Zenon
  <2> QED BY <2>1, <2>3, Zenon
<1> QED BY InitDiscovery, DiscoveryStep, <1>1, PTL DEF DiscoverySpec

=============================================================================
