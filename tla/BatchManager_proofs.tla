------------------------ MODULE BatchManager_proofs ------------------------
(***************************************************************************)
(* Proofs about the batch manager, for every capacity, threshold and       *)
(* number of updates, refusals and outages: it implements BatchRegister,   *)
(* loses without an outage only what the database refuses, and takes a row *)
(* back only past the overflow map.                                        *)
(*                                                                         *)
(* A step takes an update in, or gathers a batch b and then keeps it,      *)
(* writes it or splits it (StepForms).  Everything else is proved from     *)
(* these four forms.                                                       *)
(***************************************************************************)
EXTENDS BatchManager, FiniteSetTheorems, TLAPS

\* The channel is in the order of acceptance and behind the batch, but for what
\* came through the overflow map; an update is in one of the three.
InOrder ==
    /\ \A i, j \in DOMAIN updates : i < j => updates[i].id < updates[j].id
    /\ \A w \in BmElems(updates) : w.id \notin bmSpilled
    /\ \A v \in overflow : v.id \in bmSpilled
    /\ \A v \in BmElems(bmBatch), w \in BmElems(updates) : v.id \notin bmSpilled => v.id < w.id
    /\ BmElems(bmBatch) \cap overflow = {}

\* What is open, spilled or shown has been accepted.
Known ==
    /\ \A u \in BmOpen : bmFate[u.id] # "new"
    /\ \A i \in bmSpilled : bmFate[i] # "new"
    /\ \A t \in BmTasks : bmRow[t] # 0 => bmFate[bmRow[t]] # "new"

\* An open update is newer than what its row shows, if neither was in the map.
RowBefore ==
    \A w \in BmElems(bmBatch) \cup BmElems(updates) :
        w.id \notin bmSpilled /\ bmRow[w.task] \notin bmSpilled => bmRow[w.task] < w.id

BatchInv ==
    /\ BatchTypeOK /\ IsFiniteSet(overflow)
    /\ InOrder /\ Known /\ RowBefore
    /\ BatchLosesRefusedOnly

-----------------------------------------------------------------------------
(* Sequences and their elements *)

\* No update is an element of an empty queue.
LEMMA ElemsEmpty == BmElems(<<>>) = {}
BY DEF BmElems

\* The elements of a queue of updates are updates.
LEMMA ElemsType == ASSUME NEW s \in Seq(BmUpdates) PROVE BmElems(s) \subseteq BmUpdates
BY DEF BmElems

\* Queueing an update adds it to the elements of the queue.
LEMMA ElemsAppend ==
    ASSUME NEW s \in Seq(BmUpdates), NEW u \in BmUpdates
    PROVE  Append(s, u) \in Seq(BmUpdates) /\ BmElems(Append(s, u)) = BmElems(s) \cup {u}
<1>1. Append(s, u) \in Seq(BmUpdates) /\ Len(Append(s, u)) = Len(s) + 1
  OBVIOUS
<1>2. \A i \in 1 .. Len(s) : Append(s, u)[i] = s[i]
  OBVIOUS
<1>3. Append(s, u)[Len(s) + 1] = u
  OBVIOUS
<1>4. DOMAIN Append(s, u) = DOMAIN s \cup {Len(s) + 1} /\ DOMAIN s = 1 .. Len(s)
  BY <1>1
<1> QED BY <1>1, <1>2, <1>3, <1>4 DEF BmElems

\* A batch followed by another holds the elements of both.
LEMMA ElemsConcat ==
    ASSUME NEW s \in Seq(BmUpdates), NEW r \in Seq(BmUpdates)
    PROVE  s \o r \in Seq(BmUpdates) /\ BmElems(s \o r) = BmElems(s) \cup BmElems(r)
<1>1. s \o r \in Seq(BmUpdates) /\ Len(s \o r) = Len(s) + Len(r)
  OBVIOUS
<1>2. \A i \in 1 .. Len(s) : (s \o r)[i] = s[i]
  OBVIOUS
<1>3. \A i \in 1 .. Len(r) : (s \o r)[Len(s) + i] = r[i] /\ Len(s) + i \in DOMAIN (s \o r)
  BY <1>1
<1>4. \A k \in DOMAIN (s \o r) : k \in 1 .. Len(s) \/ k - Len(s) \in 1 .. Len(r)
  BY <1>1
<1>5. BmElems(s \o r) \subseteq BmElems(s) \cup BmElems(r)
  <2> SUFFICES ASSUME NEW k \in DOMAIN (s \o r)
               PROVE  (s \o r)[k] \in BmElems(s) \cup BmElems(r)
    BY DEF BmElems
  <2>1. CASE k \in 1 .. Len(s)
    BY <1>2, <2>1 DEF BmElems
  <2>2. CASE k - Len(s) \in 1 .. Len(r)
    <3>1. (s \o r)[Len(s) + (k - Len(s))] = r[k - Len(s)]
      BY <1>3, <2>2
    <3>2. Len(s) + (k - Len(s)) = k
      BY <1>1
    <3> QED BY <2>2, <3>1, <3>2 DEF BmElems
  <2> QED BY <1>4, <2>1, <2>2
<1>6. BmElems(s) \subseteq BmElems(s \o r)
  BY <1>1, <1>2 DEF BmElems
<1>7. BmElems(r) \subseteq BmElems(s \o r)
  BY <1>3 DEF BmElems
<1> QED BY <1>1, <1>5, <1>6, <1>7

\* Receiving the head of the channel leaves elements that were there.
LEMMA ElemsTail ==
    ASSUME NEW s \in Seq(BmUpdates), s # <<>>
    PROVE  /\ Head(s) \in BmUpdates /\ Tail(s) \in Seq(BmUpdates)
           /\ BmElems(s) = {Head(s)} \cup BmElems(Tail(s))
           /\ Head(s) = s[1] /\ 1 \in DOMAIN s
           /\ \A i \in DOMAIN Tail(s) : Tail(s)[i] = s[i + 1] /\ i + 1 \in DOMAIN s /\ i + 1 > 1
<1>1. Len(s) >= 1 /\ DOMAIN s = 1 .. Len(s)
  OBVIOUS
<1>2. Head(s) = s[1] /\ Head(s) \in BmUpdates /\ Tail(s) \in Seq(BmUpdates)
  OBVIOUS
<1>3. Len(Tail(s)) = Len(s) - 1 /\ DOMAIN Tail(s) = 1 .. Len(s) - 1
  OBVIOUS
<1>4. \A i \in 1 .. Len(s) - 1 : Tail(s)[i] = s[i + 1]
  BY <1>1
<1>5. \A i \in 1 .. Len(s) : i = 1 \/ (i - 1 \in 1 .. Len(s) - 1 /\ Tail(s)[i - 1] = s[i])
  BY <1>1, <1>4
<1>6. BmElems(s) \subseteq {Head(s)} \cup BmElems(Tail(s))
  <2> SUFFICES ASSUME NEW i \in 1 .. Len(s) PROVE s[i] \in {Head(s)} \cup BmElems(Tail(s))
    BY <1>1 DEF BmElems
  <2>1. CASE i = 1
    BY <1>2, <2>1
  <2>2. CASE i - 1 \in DOMAIN Tail(s) /\ Tail(s)[i - 1] = s[i]
    BY <2>2 DEF BmElems
  <2> QED BY <1>3, <1>5, <2>1, <2>2
<1>7. BmElems(Tail(s)) \subseteq BmElems(s) /\ Head(s) \in BmElems(s)
  BY <1>1, <1>2, <1>3, <1>4 DEF BmElems
<1> QED BY <1>1, <1>2, <1>3, <1>4, <1>6, <1>7

\* The order in which a finite map is read is a sequence of its members.
LEMMA OrdersType ==
    ASSUME NEW S \in SUBSET BmUpdates, IsFiniteSet(S), NEW s \in Orders(S)
    PROVE  s \in Seq(BmUpdates) /\ BmElems(s) = S
<1>1. Cardinality(S) \in Nat
  BY FS_CardinalityType
<1>2. s \in [1 .. Cardinality(S) -> BmUpdates] /\ BmElems(s) = S
  BY DEF Orders
<1> QED BY <1>1, <1>2

-----------------------------------------------------------------------------
(* What a step does with the batch *)

\* The step takes b to the database; what it leaves in the channel stays in order.
Gather(b) ==
    /\ b \in Seq(BmUpdates)
    /\ updates' \in Seq(BmUpdates) /\ Len(updates') =< Len(updates)
    /\ BmOpen = BmElems(b) \cup BmElems(updates') \cup overflow'
    /\ BmElems(updates') \subseteq BmElems(updates) /\ overflow' \subseteq overflow
    /\ BmElems(b) \cap overflow' = {}
    /\ \A i, j \in DOMAIN updates' : i < j => updates'[i].id < updates'[j].id
    /\ \A v \in BmElems(b), w \in BmElems(updates') : v.id \notin bmSpilled => v.id < w.id
    /\ \A v \in BmElems(b) : v.id \notin bmSpilled => v \in BmElems(bmBatch) \cup BmElems(updates)
    /\ UNCHANGED bmSpilled

Keeps(b) ==
    /\ bmBatch' = b /\ UNCHANGED <<bmFate, bmRow, bmCounted>>
    /\ bmOutages' >= bmOutages

Writes(b) ==
    /\ bmBatch' = <<>> /\ Shows(BmElems(b))
    /\ bmCounted' = bmCounted \cup Usage(BmElems(b))
    /\ bmFate' = Settle(BmElems(b), "written")
    /\ bmOutages' >= bmOutages

\* Of b, T is written; without an outage only refused updates are left out.
SplitsTo(b, T) ==
    /\ bmBatch' = <<>> /\ Shows(T) /\ UNCHANGED bmCounted
    /\ bmFate' = [i \in BmNumbers |->
                     IF i \in BmIds(T) THEN "written"
                     ELSE IF i \in BmIds(BmElems(b) \ T) THEN "lost" ELSE bmFate[i]]
    /\ bmOutages' >= bmOutages
    /\ bmOutages' = 0 => BmElems(b) \ T \subseteq Refused(BmElems(b))

Splits(b) == \E T \in SUBSET BmElems(b) : SplitsTo(b, T)

\* A split batch leaves a row with one of the updates that were written.
LEMMA ShowsLastShows ==
    ASSUME NEW s \in Seq(BmUpdates), NEW S \in SUBSET BmElems(s), ShowsLast(s, S)
    PROVE  Shows(S)
<1> SUFFICES ASSUME NEW t \in BmTasks
             PROVE  LET ids == BmIds({u \in S : u.task = t})
                    IN  IF ids = {} THEN bmRow'[t] = bmRow[t] ELSE bmRow'[t] \in ids
  BY DEF Shows, ShowsLast
<1> DEFINE mine == {i \in DOMAIN s : s[i] \in S /\ s[i].task = t}
           ids  == BmIds({u \in S : u.task = t})
<1>1. \A i \in mine : s[i].id \in ids
  BY DEF BmIds
<1>2. ids # {} => mine # {}
  BY DEF BmIds, BmElems
<1>3. IF mine = {} THEN bmRow'[t] = bmRow[t] ELSE \E i \in mine : bmRow'[t] = s[i].id
  BY DEF ShowsLast
<1> QED BY <1>1, <1>2, <1>3

\* flushIndividualUpdates is a split.
LEMMA IndividualSplits ==
    ASSUME BatchTypeOK, NEW b \in Seq(BmUpdates), flushIndividualUpdates(b)
    PROVE  Splits(b)
<1>1. PICK T \in Spared(BmElems(b)) :
           /\ IF T = UNION Spared(BmElems(b)) THEN UNCHANGED bmOutages
              ELSE bmOutages < BmMaxOutages /\ bmOutages' = bmOutages + 1
           /\ ShowsLast(b, T)
           /\ bmFate' = [i \in BmNumbers |->
                 IF i \in BmIds(T) THEN "written"
                 ELSE IF i \in BmIds(BmElems(b) \ T) THEN "lost" ELSE bmFate[i]]
           /\ bmBatch' = Cleared(b)
           /\ UNCHANGED bmCounted
  BY DEF flushIndividualUpdates
<1>2. T \in SUBSET BmElems(b)
  BY DEF Spared
<1>3. UNION Spared(BmElems(b)) = BmElems(b) \ Refused(BmElems(b))
  BY DEF Spared
<1>4. bmOutages \in Nat
  BY BmBoundsAssumption DEF BatchTypeOK
<1>5. bmOutages' >= bmOutages
  BY <1>1, <1>4
<1>6. bmOutages' = 0 => BmElems(b) \ T \subseteq Refused(BmElems(b))
  BY <1>1, <1>3, <1>4
<1>7. Shows(T)
  BY <1>1, <1>2, ShowsLastShows
<1> QED BY <1>1, <1>2, <1>5, <1>6, <1>7 DEF Splits, SplitsTo, Cleared

\* A flush keeps, writes or splits its batch.
LEMMA FlushForms ==
    ASSUME BatchTypeOK, NEW b \in Seq(BmUpdates), flush(b)
    PROVE  Keeps(b) \/ Writes(b) \/ Splits(b)
<1>1. bmOutages \in Nat
  BY BmBoundsAssumption DEF BatchTypeOK
<1>2. \A err \in {"none", "data", "outage"} :
          Outcome(BmElems(b), err) => bmOutages' >= bmOutages
  BY <1>1 DEF Outcome
<1>3. CASE b = <<>>
  BY <1>1, <1>3 DEF flush, Keeps, bmDbVars
<1>4. CASE Outcome(BmElems(b), "none") /\ Flushed(b)
  BY <1>2, <1>4 DEF Flushed, Cleared, Writes
<1>5. ASSUME NEW err \in {"data", "outage"}, Outcome(BmElems(b), err),
             bmBatch' = b, UNCHANGED <<bmFate, bmDbVars>>
      PROVE  Keeps(b)
  BY <1>2, <1>5 DEF Keeps, bmDbVars
<1>6. CASE flushIndividualUpdates(b)
  BY <1>6, IndividualSplits
<1> QED BY <1>3, <1>4, <1>5, <1>6 DEF flush

-----------------------------------------------------------------------------
(* The steps in these forms *)

\* A step that leaves channel, map and batch alone gathers the batch.
LEMMA GatherNothing ==
    ASSUME BatchInv, UNCHANGED bmQueueVars
    PROVE  Gather(bmBatch)
BY DEF BatchInv, BatchTypeOK, InOrder, Gather, BmOpen, bmQueueVars

\* An update received joins the batch.
LEMMA GatherReceived ==
    ASSUME BatchInv, updates # <<>>, updates' = Tail(updates), UNCHANGED <<overflow, bmSpilled>>
    PROVE  Gather(Append(bmBatch, Head(updates)))
<1> DEFINE b == Append(bmBatch, Head(updates))
<1> USE DEF BatchInv, BatchTypeOK
<1>1. /\ Head(updates) \in BmUpdates /\ updates' \in Seq(BmUpdates)
      /\ BmElems(updates) = {Head(updates)} \cup BmElems(updates')
      /\ Head(updates) = updates[1] /\ 1 \in DOMAIN updates
      /\ \A i \in DOMAIN updates' : updates'[i] = updates[i + 1] /\ i + 1 \in DOMAIN updates /\ i + 1 > 1
  BY ElemsTail
<1>2. b \in Seq(BmUpdates) /\ BmElems(b) = BmElems(bmBatch) \cup {Head(updates)}
  BY <1>1, ElemsAppend
<1>3. \A w \in BmElems(updates') : updates[1].id < w.id
  <2> SUFFICES ASSUME NEW i \in DOMAIN updates' PROVE updates[1].id < updates'[i].id
    BY DEF BmElems
  <2> QED BY <1>1 DEF InOrder
<1>4. \A i, j \in DOMAIN updates' : i < j => updates'[i].id < updates'[j].id
  <2> SUFFICES ASSUME NEW i \in DOMAIN updates', NEW j \in DOMAIN updates', i < j
               PROVE  updates'[i].id < updates'[j].id
    OBVIOUS
  <2>1. i \in Nat /\ j \in Nat /\ i + 1 < j + 1
    BY <1>1
  <2> QED BY <1>1, <2>1 DEF InOrder
<1>5. BmElems(b) \cap overflow = {}
  BY <1>1, <1>2 DEF InOrder
<1>6. \A v \in BmElems(b), w \in BmElems(updates') : v.id \notin bmSpilled => v.id < w.id
  BY <1>1, <1>2, <1>3 DEF InOrder
<1>7. Len(updates') =< Len(updates)
  BY <1>1
<1> QED BY <1>1, <1>2, <1>4, <1>5, <1>6, <1>7 DEF Gather, BmOpen

\* The batch is filled up with some of the map, in the order s.
LEMMA GatherPopped ==
    ASSUME BatchInv, NEW S \in SUBSET overflow, NEW s \in Orders(S),
           overflow' = overflow \ S, UNCHANGED <<updates, bmSpilled>>
    PROVE  Gather(bmBatch \o s)
<1> USE DEF BatchInv, BatchTypeOK
<1>1. IsFiniteSet(S)
  BY FS_Subset
<1>2. s \in Seq(BmUpdates) /\ BmElems(s) = S
  BY <1>1, OrdersType
<1>3. bmBatch \o s \in Seq(BmUpdates) /\ BmElems(bmBatch \o s) = BmElems(bmBatch) \cup S
  BY <1>2, ElemsConcat
<1>4. \A v \in S : v.id \in bmSpilled
  BY DEF InOrder
<1> QED BY <1>3, <1>4 DEF Gather, BmOpen, InOrder

\* The drain gathers the channel and the whole map.
LEMMA GatherDrained ==
    ASSUME BatchInv, NEW s \in Orders(overflow), updates' = <<>>, overflow' = {},
           UNCHANGED bmSpilled
    PROVE  Gather(bmBatch \o updates \o s)
<1> USE DEF BatchInv, BatchTypeOK
<1>1. s \in Seq(BmUpdates) /\ BmElems(s) = overflow
  BY OrdersType
<1>2. bmBatch \o updates \in Seq(BmUpdates)
      /\ BmElems(bmBatch \o updates) = BmElems(bmBatch) \cup BmElems(updates)
  BY ElemsConcat
<1>3. bmBatch \o updates \o s \in Seq(BmUpdates)
      /\ BmElems(bmBatch \o updates \o s) = BmElems(bmBatch) \cup BmElems(updates) \cup overflow
  BY <1>1, <1>2, ElemsConcat
<1>4. BmElems(updates') = {} /\ updates' \in Seq(BmUpdates) /\ Len(updates') = 0
      /\ DOMAIN updates' = {}
  BY ElemsEmpty
<1> QED BY <1>3, <1>4 DEF Gather, BmOpen, InOrder

\* Every step takes an update in, or gathers a batch and keeps, writes or splits it.
LEMMA StepForms ==
    ASSUME BatchInv, [BatchNext]_bmVars
    PROVE  \/ \E u \in BmUpdates : BmQueueTaskUpdate(u)
           \/ \E b \in Seq(BmUpdates) : Gather(b) /\ (Keeps(b) \/ Writes(b) \/ Splits(b))
<1> DEFINE Form == \E b \in Seq(BmUpdates) : Gather(b) /\ (Keeps(b) \/ Writes(b) \/ Splits(b))
<1> USE DEF BatchInv
<1>t. bmBatch \in Seq(BmUpdates) /\ bmOutages \in Nat
  BY BmBoundsAssumption DEF BatchTypeOK
<1>1. CASE BmReceive
  <2> DEFINE b == Append(bmBatch, Head(updates))
  <2>1. Gather(b)
    BY <1>1, GatherReceived DEF BmReceive
  <2>2. b \in Seq(BmUpdates)
    BY <2>1 DEF Gather
  <2>3. Keeps(b) \/ flush(b)
    BY <1>1, <1>t DEF BmReceive, Keeps, bmDbVars
  <2> QED BY <2>1, <2>2, <2>3, FlushForms
<1>2. CASE BmTick
  <2>1. PICK S \in Poppable(MaxBatchSize - Len(bmBatch)) : \E s \in Orders(S) :
             overflow' = overflow \ S /\ flush(bmBatch \o s)
    BY <1>2 DEF BmTick
  <2>2. S \in SUBSET overflow
    BY DEF Poppable
  <2>3. PICK s \in Orders(S) : overflow' = overflow \ S /\ flush(bmBatch \o s)
    BY <2>1
  <2>4. Gather(bmBatch \o s)
    BY <1>2, <2>2, <2>3, GatherPopped DEF BmTick
  <2>5. bmBatch \o s \in Seq(BmUpdates)
    BY <2>4 DEF Gather
  <2> QED BY <2>3, <2>4, <2>5, FlushForms
<1>3. CASE BmStop \/ BmDone \/ UNCHANGED bmVars
  <2>1. UNCHANGED bmQueueVars
    BY <1>3 DEF BmStop, BmDone, bmVars
  <2>2. Keeps(bmBatch)
    BY <1>3, <1>t DEF BmStop, BmDone, bmVars, Keeps, bmDbVars
  <2> QED BY <1>t, <2>1, <2>2, GatherNothing
<1>4. CASE BmDrain
  <2>1. PICK s \in Orders(overflow) : bmBatch' = bmBatch \o updates \o s
    BY <1>4 DEF BmDrain
  <2>2. Gather(bmBatch \o updates \o s)
    BY <1>4, GatherDrained DEF BmDrain
  <2>3. Keeps(bmBatch \o updates \o s)
    BY <1>4, <1>t, <2>1 DEF BmDrain, Keeps, bmDbVars
  <2> QED BY <2>2, <2>3 DEF Gather
<1>5. CASE BmFinalFlush
  <2>1. Gather(bmBatch)
    BY <1>5, GatherNothing DEF BmFinalFlush
  <2>2. \A err \in {"none", "data", "outage"} :
            Outcome(BmElems(bmBatch), err) => bmOutages' >= bmOutages
    BY <1>t DEF Outcome
  <2>3. Keeps(bmBatch) \/ Writes(bmBatch)
    BY <1>5, <2>2 DEF BmFinalFlush, Keeps, Writes, Flushed, Cleared, bmDbVars
  <2> QED BY <1>t, <2>1, <2>3
<1>6. CASE BmGiveUp
  <2>1. Gather(bmBatch)
    BY <1>6, GatherNothing DEF BmGiveUp
  <2>2. CASE flushIndividualUpdates(bmBatch)
    BY <1>t, <2>1, <2>2, IndividualSplits
  <2>3. CASE /\ Outcome(BmElems(bmBatch), "outage")
             /\ bmFate' = Settle(BmElems(bmBatch), "lost")
             /\ bmBatch' = <<>> /\ UNCHANGED bmDbVars
    <3>1. bmOutages' = bmOutages + 1 /\ UNCHANGED <<bmRow, bmCounted>>
      BY <2>3 DEF Outcome, bmDbVars
    <3>2. Shows({})
      BY <3>1 DEF Shows, BmIds, BatchTypeOK
    <3>3. bmFate' = [i \in BmNumbers |->
                        IF i \in BmIds({}) THEN "written"
                        ELSE IF i \in BmIds(BmElems(bmBatch) \ {}) THEN "lost" ELSE bmFate[i]]
      <4>1. BmIds({}) = {} /\ BmElems(bmBatch) \ {} = BmElems(bmBatch)
        BY DEF BmIds
      <4> QED BY <2>3, <4>1 DEF Settle
    <3>4. SplitsTo(bmBatch, {})
      BY <1>t, <2>3, <3>1, <3>2, <3>3 DEF SplitsTo
    <3> QED BY <1>t, <2>1, <3>4 DEF Splits
  <2> QED BY <1>6, <2>2, <2>3 DEF BmGiveUp
<1>7. CASE BmQueue
  BY <1>7 DEF BmQueue
<1> QED BY <1>1, <1>2, <1>3, <1>4, <1>5, <1>6, <1>7 DEF BatchNext, BmShutdown

-----------------------------------------------------------------------------
(* Types *)

\* The initial states satisfy the invariant.
LEMMA InitBatch == BatchInit => BatchInv
<1> SUFFICES ASSUME BatchInit PROVE BatchInv
  OBVIOUS
<1> USE BmLimitsAssumption, BmBoundsAssumption DEF BatchInit
<1>1. BatchTypeOK /\ IsFiniteSet(overflow)
  BY FS_EmptySet DEF BatchTypeOK
<1>2. BmOpen = {} /\ BmElems(bmBatch) = {} /\ BmElems(updates) = {}
  BY ElemsEmpty DEF BmOpen
<1>3. InOrder
  BY <1>2 DEF InOrder
<1>4. Known /\ RowBefore /\ BatchLosesRefusedOnly
  BY <1>2 DEF Known, RowBefore, BatchLosesRefusedOnly
<1> QED BY <1>1, <1>3, <1>4 DEF BatchInv

\* What the forms do not say: the counters, the phase and the outages.
LoopTypeOK ==
    /\ consecutiveFails \in 0 .. MaxConsecutiveFailures - 1
    /\ bmPhase \in {"run", "stopping", "final", "done"}
    /\ bmAttempt \in 0 .. MaxShutdownRetries
    /\ bmOutages \in 0 .. BmMaxOutages

\* However a flush transaction ends, the outages stay within their bound.
LEMMA OutcomeType ==
    ASSUME bmOutages \in 0 .. BmMaxOutages, NEW S, NEW err, Outcome(S, err)
    PROVE  bmOutages' \in 0 .. BmMaxOutages
BY BmBoundsAssumption DEF Outcome

\* Splitting a batch keeps the outages within their bound.
LEMMA SplitType ==
    ASSUME bmOutages \in 0 .. BmMaxOutages, NEW s, flushIndividualUpdates(s)
    PROVE  bmOutages' \in 0 .. BmMaxOutages
BY BmBoundsAssumption DEF flushIndividualUpdates

\* A flush keeps the failures in a row and the outages within their bounds.
LEMMA FlushLoopType ==
    ASSUME LoopTypeOK, NEW b, flush(b)
    PROVE  /\ consecutiveFails' \in 0 .. MaxConsecutiveFailures - 1
           /\ bmOutages' \in 0 .. BmMaxOutages
<1> USE BmLimitsAssumption DEF LoopTypeOK
<1>1. CASE b = <<>>
  BY <1>1 DEF flush
<1>2. CASE Outcome(BmElems(b), "none") /\ consecutiveFails' = 0
  BY <1>2, OutcomeType
<1>3. ASSUME NEW err \in {"data", "outage"}, Outcome(BmElems(b), err),
             Failures(err) < MaxConsecutiveFailures \/ isRetryableError(err),
             consecutiveFails' = Failures(err)
      PROVE  /\ consecutiveFails' \in 0 .. MaxConsecutiveFailures - 1
             /\ bmOutages' \in 0 .. BmMaxOutages
  <2>1. consecutiveFails' \in 0 .. MaxConsecutiveFailures - 1
    BY <1>3 DEF Failures
  <2> QED BY <1>3, <2>1, OutcomeType
<1>4. CASE flushIndividualUpdates(b) /\ consecutiveFails' = 0
  BY <1>4, SplitType
<1> QED BY <1>1, <1>2, <1>3, <1>4 DEF flush

\* Every step of processUpdateBatches and of its callers keeps those bounds and types.
LEMMA LoopTypeStep == LoopTypeOK /\ [BatchNext]_bmVars => LoopTypeOK'
<1> SUFFICES ASSUME LoopTypeOK, [BatchNext]_bmVars PROVE LoopTypeOK'
  OBVIOUS
<1> USE BmLimitsAssumption DEF LoopTypeOK
<1>1. CASE BmQueue
  BY <1>1 DEF BmQueue, BmQueueTaskUpdate, bmLoopVars
<1>2. CASE BmReceive
  BY <1>2, FlushLoopType DEF BmReceive, bmLoopVars
<1>3. CASE BmTick
  BY <1>3, FlushLoopType DEF BmTick, bmLoopVars
<1>4. CASE BmStop \/ BmDrain \/ BmDone
  BY <1>4 DEF BmStop, BmDrain, BmDone
<1>5. CASE BmFinalFlush
  <2>1. bmOutages' \in 0 .. BmMaxOutages
    BY <1>5, OutcomeType DEF BmFinalFlush
  <2>2. bmAttempt < MaxShutdownRetries /\ bmAttempt' = bmAttempt + 1
    BY <1>5 DEF BmFinalFlush
  <2> QED BY <1>5, <2>1, <2>2 DEF BmFinalFlush
<1>6. CASE BmGiveUp
  <2>1. bmOutages' \in 0 .. BmMaxOutages
    BY <1>6, OutcomeType, SplitType DEF BmGiveUp
  <2> QED BY <1>6, <2>1 DEF BmGiveUp
<1>7. CASE UNCHANGED bmVars
  BY <1>7 DEF bmVars, bmLoopVars
<1> QED BY <1>1, <1>2, <1>3, <1>4, <1>5, <1>6, <1>7 DEF BatchNext, BmShutdown

\* Queueing keeps the types.
LEMMA QueueType ==
    ASSUME BatchInv, NEW u \in BmUpdates, BmQueueTaskUpdate(u)
    PROVE  /\ updates' \in Seq(BmUpdates) /\ Len(updates') =< BatchChannelSize
           /\ overflow' \subseteq BmUpdates /\ IsFiniteSet(overflow')
           /\ bmFate' \in [BmNumbers -> {"new", "open", "written", "overtaken", "lost"}]
           /\ bmSpilled' \subseteq BmNumbers
           /\ UNCHANGED <<bmBatch, bmRow, bmCounted, bmOutages>>
<1> USE DEF BatchInv, BatchTypeOK
<1>0. u.id \in BmNumbers /\ UNCHANGED <<bmBatch, bmRow, bmCounted, bmOutages>>
  BY DEF BmUpdates, BmQueueTaskUpdate, bmDbVars
<1>1. CASE Len(updates) < BatchChannelSize
  <2>1. /\ updates' = Append(updates, u) /\ bmFate' = [bmFate EXCEPT ![u.id] = "open"]
        /\ UNCHANGED <<overflow, bmSpilled>>
    BY <1>1 DEF BmQueueTaskUpdate
  <2>2. Len(updates') = Len(updates) + 1
    BY <2>1
  <2> QED BY <1>0, <1>1, <2>1, <2>2, BmLimitsAssumption
<1>2. CASE ~(Len(updates) < BatchChannelSize)
  <2>1. /\ overflow' = Coalesced(u) /\ bmSpilled' = bmSpilled \cup {u.id}
        /\ bmFate' = [Settle({v \in overflow : v.task = u.task}, "overtaken") EXCEPT ![u.id] = "open"]
        /\ UNCHANGED updates
    BY <1>2 DEF BmQueueTaskUpdate
  <2>2. IsFiniteSet({v \in overflow : v.task # u.task} \cup {u})
    BY FS_Subset, FS_AddElement
  <2>3. Settle({v \in overflow : v.task = u.task}, "overtaken")
            \in [BmNumbers -> {"new", "open", "written", "overtaken", "lost"}]
    BY DEF Settle
  <2> QED BY <1>0, <2>1, <2>2, <2>3 DEF Coalesced
<1> QED BY <1>1, <1>2

\* Every step keeps the types.
LEMMA BatchTypeStep ==
    ASSUME BatchInv, [BatchNext]_bmVars
    PROVE  BatchTypeOK' /\ IsFiniteSet(overflow')
<1> USE DEF BatchInv
<1>1. LoopTypeOK'
  BY LoopTypeStep DEF BatchTypeOK, LoopTypeOK
<1>2. CASE \E u \in BmUpdates : BmQueueTaskUpdate(u)
  BY <1>1, <1>2, QueueType DEF BatchTypeOK, LoopTypeOK
<1>3. ASSUME NEW b \in Seq(BmUpdates), Gather(b), Keeps(b) \/ Writes(b) \/ Splits(b)
      PROVE  BatchTypeOK' /\ IsFiniteSet(overflow')
  <2>1. /\ updates' \in Seq(BmUpdates) /\ Len(updates') =< BatchChannelSize
        /\ overflow' \subseteq BmUpdates /\ bmSpilled' \subseteq BmNumbers
        /\ IsFiniteSet(overflow')
    <3>1. Len(updates') =< Len(updates) /\ Len(updates) \in Nat /\ Len(updates') \in Nat
      BY <1>3 DEF Gather, BatchTypeOK
    <3> QED BY <1>3, <3>1, FS_Subset, BmLimitsAssumption DEF Gather, BatchTypeOK
  <2>2. bmBatch' \in Seq(BmUpdates)
    <3>1. bmBatch' = b \/ bmBatch' = <<>>
      BY <1>3 DEF Keeps, Writes, Splits, SplitsTo
    <3>2. <<>> \in Seq(BmUpdates)
      OBVIOUS
    <3> QED BY <3>1, <3>2
  <2>3. bmRow' \in [BmTasks -> 0 .. BmMaxUpdates]
    BY <1>3 DEF Keeps, Writes, Splits, SplitsTo, Shows, BatchTypeOK
  <2>4. bmCounted' \subseteq BmNumbers
    <3>1. Usage(BmElems(b)) \subseteq BmNumbers
      BY ElemsType DEF Usage, BmIds, BmUpdates
    <3> QED BY <1>3, <3>1 DEF Keeps, Writes, Splits, SplitsTo, BatchTypeOK
  <2>5. bmFate' \in [BmNumbers -> {"new", "open", "written", "overtaken", "lost"}]
    BY <1>3 DEF Keeps, Writes, Splits, SplitsTo, Settle, BatchTypeOK
  <2> QED BY <1>1, <2>1, <2>2, <2>3, <2>4, <2>5 DEF BatchTypeOK, LoopTypeOK
<1> QED BY <1>2, <1>3, StepForms

-----------------------------------------------------------------------------
(* The invariant, when an update is taken in *)

\* What is open, spilled or shown is older than a new update.
LEMMA QueueNew ==
    ASSUME BatchInv, NEW u \in BmUpdates, BmQueueTaskUpdate(u)
    PROVE  /\ u.id \in BmNumbers /\ bmFate[u.id] = "new"
           /\ \A v \in BmOpen : v.id < u.id
           /\ u \notin BmOpen /\ u.id \notin bmSpilled
           /\ \A t \in BmTasks : bmRow[t] < u.id
<1> USE DEF BatchInv
<1>1. u.id \in BmNumbers /\ \A v \in BmUpdates : v.id \in BmNumbers
  BY DEF BmUpdates
<1>2. \A i \in BmNumbers : bmFate[i] = "new" <=> i >= u.id
  BY DEF BmQueueTaskUpdate
<1>3. \A i \in BmNumbers : i \in Nat /\ i > 0
  BY BmBoundsAssumption DEF BmNumbers
<1>4. bmFate[u.id] = "new"
  BY <1>1, <1>2, <1>3
<1>5. BmOpen \subseteq BmUpdates
  BY ElemsType DEF BmOpen, BatchTypeOK
<1>6. \A v \in BmOpen : v.id < u.id
  <2> SUFFICES ASSUME NEW v \in BmOpen PROVE v.id < u.id
    OBVIOUS
  <2>1. v.id \in BmNumbers /\ bmFate[v.id] # "new"
    BY <1>1, <1>5 DEF Known
  <2> QED BY <1>1, <1>2, <1>3, <2>1
<1>7. u \notin BmOpen /\ u.id \notin bmSpilled
  BY <1>4 DEF Known
<1>8. \A t \in BmTasks : bmRow[t] < u.id
  <2> SUFFICES ASSUME NEW t \in BmTasks PROVE bmRow[t] < u.id
    OBVIOUS
  <2>1. CASE bmRow[t] = 0
    BY <1>1, <1>3, <2>1
  <2>2. CASE bmRow[t] # 0
    <3>1. bmRow[t] \in BmNumbers /\ bmFate[bmRow[t]] # "new"
      BY <2>2, BmBoundsAssumption DEF BatchTypeOK, Known, BmNumbers
    <3> QED BY <1>1, <1>2, <1>3, <3>1
  <2> QED BY <2>1, <2>2
<1> QED BY <1>1, <1>4, <1>6, <1>7, <1>8

\* What queueing does, in the channel or in the map.
LEMMA QueueForms ==
    ASSUME BatchInv, NEW u \in BmUpdates, BmQueueTaskUpdate(u)
    PROVE  \/ /\ updates' = Append(updates, u)
              /\ BmElems(updates') = BmElems(updates) \cup {u}
              /\ UNCHANGED <<overflow, bmSpilled>>
              /\ bmFate' = [bmFate EXCEPT ![u.id] = "open"]
           \/ /\ UNCHANGED updates
              /\ overflow' = {v \in overflow : v.task # u.task} \cup {u}
              /\ bmSpilled' = bmSpilled \cup {u.id}
              /\ bmFate' = [Settle({v \in overflow : v.task = u.task}, "overtaken")
                               EXCEPT ![u.id] = "open"]
BY ElemsAppend DEF BatchInv, BatchTypeOK, BmQueueTaskUpdate, Coalesced

\* No step makes an accepted update new again.
LEMMA QueueFate ==
    ASSUME BatchInv, NEW u \in BmUpdates, BmQueueTaskUpdate(u)
    PROVE  /\ \A i \in BmNumbers : bmFate[i] # "new" => bmFate'[i] # "new"
           /\ bmFate'[u.id] # "new"
           /\ \A i \in BmNumbers : bmFate'[i] = "lost" => bmFate[i] = "lost"
<1> USE DEF BatchInv, BatchTypeOK
<1>1. u.id \in BmNumbers
  BY DEF BmUpdates
<1>2. CASE bmFate' = [bmFate EXCEPT ![u.id] = "open"]
  BY <1>1, <1>2
<1>3. CASE bmFate' = [Settle({v \in overflow : v.task = u.task}, "overtaken")
                         EXCEPT ![u.id] = "open"]
  BY <1>1, <1>3 DEF Settle
<1> QED BY <1>2, <1>3, QueueForms

\* Taking an update in keeps the order of what is open.
LEMMA QueueInOrder ==
    ASSUME BatchInv, NEW u \in BmUpdates, BmQueueTaskUpdate(u)
    PROVE  InOrder'
<1> USE DEF BatchInv, BatchTypeOK
<1>1. UNCHANGED bmBatch
  BY DEF BmQueueTaskUpdate
<1>2. CASE /\ updates' = Append(updates, u)
           /\ BmElems(updates') = BmElems(updates) \cup {u}
           /\ UNCHANGED <<overflow, bmSpilled>>
  <2>1. \A i, j \in DOMAIN updates' : i < j => updates'[i].id < updates'[j].id
    <3> SUFFICES ASSUME NEW i \in DOMAIN updates', NEW j \in DOMAIN updates', i < j
                 PROVE  updates'[i].id < updates'[j].id
      OBVIOUS
    <3>1. /\ i \in 1 .. Len(updates) /\ updates'[i] = updates[i]
          /\ j \in 1 .. Len(updates) + 1
      BY <1>2
    <3>2. CASE j \in 1 .. Len(updates)
      BY <1>2, <3>1, <3>2 DEF InOrder
    <3>3. CASE j = Len(updates) + 1
      <4>1. updates'[j] = u
        BY <1>2, <3>3
      <4>2. updates[i] \in BmOpen
        BY <3>1 DEF BmOpen, BmElems
      <4> QED BY <3>1, <4>1, <4>2, QueueNew
    <3> QED BY <3>1, <3>2, <3>3
  <2>2. \A v \in BmElems(bmBatch) : v.id < u.id
    BY QueueNew DEF BmOpen
  <2>3. u.id \notin bmSpilled
    BY QueueNew
  <2> QED BY <1>1, <1>2, <2>1, <2>2, <2>3 DEF InOrder
<1>3. CASE /\ UNCHANGED updates
           /\ overflow' = {v \in overflow : v.task # u.task} \cup {u}
           /\ bmSpilled' = bmSpilled \cup {u.id}
  <2>1. \A v \in BmElems(updates) : v.id # u.id
    <3>1. \A v \in BmUpdates : v.id \in Nat
      BY BmBoundsAssumption DEF BmUpdates, BmNumbers
    <3>2. \A v \in BmElems(updates) : v.id < u.id /\ v \in BmUpdates
      BY ElemsType, QueueNew DEF BmOpen
    <3> QED BY <3>1, <3>2
  <2>2. u \notin BmElems(bmBatch)
    BY QueueNew DEF BmOpen
  <2> QED BY <1>1, <1>3, <2>1, <2>2 DEF InOrder
<1> QED BY <1>2, <1>3, QueueForms

\* Taking an update in keeps the rest of the invariant.
LEMMA QueueStep ==
    ASSUME BatchInv, NEW u \in BmUpdates, BmQueueTaskUpdate(u)
    PROVE  Known' /\ RowBefore' /\ BatchLosesRefusedOnly'
<1> USE DEF BatchInv
<1>1. UNCHANGED <<bmBatch, bmRow, bmOutages>> /\ bmSpilled \subseteq bmSpilled'
  BY QueueType, QueueForms
<1>2. BmOpen' \subseteq BmOpen \cup {u} /\ bmSpilled' \subseteq bmSpilled \cup {u.id}
  <2>1. CASE BmElems(updates') = BmElems(updates) \cup {u} /\ UNCHANGED <<overflow, bmSpilled>>
    BY <1>1, <2>1 DEF BmOpen
  <2>2. CASE /\ UNCHANGED updates /\ bmSpilled' = bmSpilled \cup {u.id}
             /\ overflow' = {v \in overflow : v.task # u.task} \cup {u}
    BY <1>1, <2>2 DEF BmOpen
  <2> QED BY <2>1, <2>2, QueueForms
<1>3. BmOpen \subseteq BmUpdates /\ \A v \in BmUpdates : v.id \in BmNumbers
  BY ElemsType DEF BmOpen, BatchTypeOK, BmUpdates
<1>4. Known'
  <2>1. \A t \in BmTasks : bmRow[t] # 0 => bmRow[t] \in BmNumbers
    BY BmBoundsAssumption DEF BatchTypeOK, BmNumbers
  <2>2. bmSpilled \subseteq BmNumbers
    BY DEF BatchTypeOK
  <2> QED BY <1>1, <1>2, <1>3, <2>1, <2>2, QueueFate DEF Known
<1>5. RowBefore'
  <2> SUFFICES ASSUME NEW w \in BmElems(bmBatch') \cup BmElems(updates'),
                      w.id \notin bmSpilled', bmRow'[w.task] \notin bmSpilled'
               PROVE  bmRow'[w.task] < w.id
    BY DEF RowBefore
  <2>1. CASE w = u
    BY <1>1, <2>1, QueueNew DEF BmUpdates
  <2>2. CASE w \in BmElems(bmBatch) \cup BmElems(updates)
    BY <1>1, <2>2 DEF RowBefore
  <2> QED BY <1>1, <2>1, <2>2, QueueForms
<1>6. BatchLosesRefusedOnly'
  BY <1>1, QueueFate DEF BatchLosesRefusedOnly
<1> QED BY <1>4, <1>5, <1>6

-----------------------------------------------------------------------------
(* The invariant, when a batch is gathered *)

Handles(b) == Gather(b) /\ (Keeps(b) \/ Writes(b) \/ Splits(b))

\* A row that changes shows an update of the batch, which is then empty.
LEMMA RowsOfBatch ==
    ASSUME BatchInv, NEW b \in Seq(BmUpdates), Handles(b), NEW t \in BmTasks
    PROVE  \/ bmRow'[t] = bmRow[t]
           \/ bmBatch' = <<>> /\ \E v \in BmElems(b) : v.task = t /\ v.id = bmRow'[t]
<1>1. CASE Keeps(b)
  BY <1>1 DEF Keeps
<1>2. ASSUME NEW S \in SUBSET BmElems(b), Shows(S), bmBatch' = <<>>
      PROVE  \/ bmRow'[t] = bmRow[t]
             \/ bmBatch' = <<>> /\ \E v \in BmElems(b) : v.task = t /\ v.id = bmRow'[t]
  BY <1>2 DEF Shows, BmIds
<1>3. CASE Writes(b)
  BY <1>2, <1>3 DEF Writes
<1>4. CASE Splits(b)
  BY <1>2, <1>4 DEF Splits, SplitsTo
<1> QED BY <1>1, <1>3, <1>4 DEF Handles

\* The batch and what is left are apart.
LEMMA BatchApart ==
    ASSUME BatchInv, NEW b \in Seq(BmUpdates), Handles(b)
    PROVE  BmElems(b) \cap (BmElems(updates') \cup overflow') = {}
<1>1. \A v \in BmElems(b) : v.id \in Nat
  <2>1. \A v \in BmUpdates : v.id \in Nat
    BY BmBoundsAssumption DEF BmUpdates, BmNumbers
  <2> QED BY <2>1, ElemsType
<1>2. \A v \in BmElems(b) \cap BmElems(updates') : v.id < v.id
  BY DEF Handles, Gather, BatchInv, InOrder
<1>3. BmElems(b) \cap BmElems(updates') = {}
  BY <1>1, <1>2
<1> QED BY <1>3 DEF Handles, Gather

\* What is open afterwards: what was, or all but the batch.
LEMMA OpenAfter ==
    ASSUME BatchInv, NEW b \in Seq(BmUpdates), Handles(b)
    PROVE  /\ Keeps(b) => BmOpen' = BmOpen
           /\ ~Keeps(b) => BmOpen' = BmOpen \ BmElems(b)
           /\ BmElems(b) \subseteq BmOpen
<1>1. BmOpen = BmElems(b) \cup BmElems(updates') \cup overflow'
  BY DEF Handles, Gather
<1>2. BmOpen' = BmElems(updates') \cup overflow' \cup BmElems(bmBatch')
  BY DEF BmOpen
<1>3. Keeps(b) => BmOpen' = BmOpen
  BY <1>1, <1>2 DEF Keeps
<1>4. ASSUME ~Keeps(b) PROVE BmOpen' = BmOpen \ BmElems(b)
  <2>1. bmBatch' = <<>>
    BY <1>4 DEF Handles, Writes, Splits, SplitsTo
  <2>2. BmElems(bmBatch') = {}
    BY <2>1, ElemsEmpty
  <2> QED BY <1>1, <1>2, <2>2, BatchApart
<1> QED BY <1>1, <1>3, <1>4

\* Gathering a batch keeps the invariant.
LEMMA HandleStep ==
    ASSUME BatchInv, NEW b \in Seq(BmUpdates), Handles(b)
    PROVE  InOrder' /\ Known' /\ RowBefore' /\ BatchLosesRefusedOnly'
<1> USE DEF BatchInv
<1>1. BmElems(bmBatch') \subseteq BmElems(b) /\ UNCHANGED bmSpilled
  <2>1. bmBatch' = b \/ bmBatch' = <<>>
    BY DEF Handles, Keeps, Writes, Splits, SplitsTo
  <2> QED BY <2>1, ElemsEmpty DEF Handles, Gather
<1>2. InOrder'
  BY <1>1 DEF Handles, Gather, InOrder
<1>3. Known'
  <2>1. \A i \in BmNumbers : bmFate[i] # "new" => bmFate'[i] # "new"
    BY DEF Handles, Keeps, Writes, Splits, SplitsTo, Settle
  <2>2. BmOpen' \subseteq BmOpen
    BY OpenAfter
  <2>3. BmOpen \subseteq BmUpdates /\ \A v \in BmUpdates : v.id \in BmNumbers
    BY ElemsType DEF BmOpen, BatchTypeOK, BmUpdates
  <2>4. bmSpilled \subseteq BmNumbers
    BY DEF BatchTypeOK
  <2>5. ASSUME NEW t \in BmTasks, bmRow'[t] # 0 PROVE bmFate'[bmRow'[t]] # "new"
    <3>1. CASE bmRow'[t] = bmRow[t]
      <4>1. bmRow[t] \in BmNumbers
        BY <2>5, <3>1, BmBoundsAssumption DEF BatchTypeOK, BmNumbers
      <4> QED BY <2>1, <2>5, <3>1, <4>1 DEF Known
    <3>2. CASE \E v \in BmElems(b) : v.id = bmRow'[t]
      <4>1. PICK v \in BmElems(b) : v.id = bmRow'[t]
        BY <3>2
      <4>2. v \in BmOpen
        BY OpenAfter
      <4> QED BY <2>1, <2>3, <4>1, <4>2 DEF Known
    <3> QED BY <3>1, <3>2, RowsOfBatch
  <2> QED BY <1>1, <2>1, <2>2, <2>3, <2>4, <2>5 DEF Known
<1>4. RowBefore'
  <2> SUFFICES ASSUME NEW w \in BmElems(bmBatch') \cup BmElems(updates'),
                      w.id \notin bmSpilled, bmRow'[w.task] \notin bmSpilled
               PROVE  bmRow'[w.task] < w.id
    BY <1>1 DEF RowBefore
  <2>1. w \in BmElems(b) \cup BmElems(updates') /\ w.task \in BmTasks
    <3>1. w \in BmElems(b) \cup BmElems(updates')
      BY <1>1
    <3>2. BmElems(b) \cup BmElems(updates') \subseteq BmUpdates
      BY ElemsType DEF Handles, Gather
    <3> QED BY <3>1, <3>2 DEF BmUpdates
  <2>2. w \in BmElems(bmBatch) \cup BmElems(updates)
    BY <2>1 DEF Handles, Gather
  <2>3. CASE bmRow'[w.task] = bmRow[w.task]
    BY <2>2, <2>3 DEF RowBefore
  <2>4. CASE bmBatch' = <<>> /\ \E v \in BmElems(b) : v.id = bmRow'[w.task]
    <3>1. w \in BmElems(updates')
      BY <2>4, ElemsEmpty
    <3> QED BY <2>4, <3>1 DEF Handles, Gather
  <2> QED BY <2>1, <2>3, <2>4, RowsOfBatch
<1>5. BatchLosesRefusedOnly'
  <2> SUFFICES ASSUME bmOutages' = 0, NEW i \in BmNumbers, bmFate'[i] = "lost"
               PROVE  i \in BmRefused
    BY DEF BatchLosesRefusedOnly
  <2>1. bmOutages = 0
    <3>1. bmOutages' >= bmOutages
      BY DEF Handles, Keeps, Writes, Splits, SplitsTo
    <3>2. bmOutages \in Nat
      BY BmBoundsAssumption DEF BatchTypeOK
    <3> QED BY <3>1, <3>2
  <2>2. bmFate[i] = "lost" => i \in BmRefused
    BY <2>1 DEF BatchLosesRefusedOnly
  <2>3. CASE Keeps(b) \/ Writes(b)
    BY <2>2, <2>3 DEF Keeps, Writes, Settle
  <2>4. CASE Splits(b)
    <3>1. PICK T \in SUBSET BmElems(b) : SplitsTo(b, T)
      BY <2>4 DEF Splits
    <3>2. bmFate[i] = "lost" \/ i \in BmIds(BmElems(b) \ T)
      BY <3>1 DEF SplitsTo
    <3>3. BmElems(b) \ T \subseteq Refused(BmElems(b))
      BY <3>1 DEF SplitsTo
    <3> QED BY <2>2, <3>2, <3>3 DEF BmIds, Refused
  <2> QED BY <2>3, <2>4 DEF Handles
<1> QED BY <1>2, <1>3, <1>4, <1>5

\* Every step keeps the invariant.
LEMMA BatchStep == BatchInv /\ [BatchNext]_bmVars => BatchInv'
<1> SUFFICES ASSUME BatchInv, [BatchNext]_bmVars PROVE BatchInv'
  OBVIOUS
<1>1. BatchTypeOK' /\ IsFiniteSet(overflow')
  BY BatchTypeStep
<1>2. CASE \E u \in BmUpdates : BmQueueTaskUpdate(u)
  BY <1>1, <1>2, QueueInOrder, QueueStep DEF BatchInv
<1>3. CASE \E b \in Seq(BmUpdates) : Handles(b)
  BY <1>1, <1>3, HandleStep DEF BatchInv
<1> QED BY <1>2, <1>3, StepForms DEF Handles

\* The invariant holds of the batch manager.
LEMMA BatchKeepsInv == BatchSpec => []BatchInv
BY InitBatch, BatchStep, PTL DEF BatchSpec

-----------------------------------------------------------------------------
(* The theorems *)

\* Channel, overflow map, batch and counters stay within their types: the channel
\* never exceeds its capacity, the failures never reach the threshold of the split.
THEOREM BatchTypeCorrect == BatchSpec => []BatchTypeOK
<1>1. BatchInv => BatchTypeOK
  BY DEF BatchInv
<1> QED BY <1>1, BatchKeepsInv, PTL

\* Poison-pill splits and the last flush of the shutdown lose, without an outage,
\* only updates the database refuses, whatever batches they were part of.
THEOREM OnlyRefusedAreLost == BatchSpec => []BatchLosesRefusedOnly
<1>1. BatchInv => BatchLosesRefusedOnly
  BY DEF BatchInv
<1> QED BY <1>1, BatchKeepsInv, PTL

\* A row is taken back to an older update only past the overflow map.
LEMMA ShownStep ==
    ASSUME BatchInv, BatchNext, NEW t \in BmTasks, bmRow'[t] < bmRow[t]
    PROVE  {bmRow[t], bmRow'[t]} \cap bmSpilled # {}
<1> USE DEF BatchInv
<1>1. BatchTypeOK'
  BY BatchTypeStep
<1>2. bmRow[t] \in Nat /\ bmRow'[t] \in Nat
  BY <1>1, BmBoundsAssumption DEF BatchTypeOK
<1>3. CASE \E u \in BmUpdates : BmQueueTaskUpdate(u)
  BY <1>2, <1>3, QueueType
<1>4. ASSUME NEW b \in Seq(BmUpdates), Handles(b)
      PROVE  {bmRow[t], bmRow'[t]} \cap bmSpilled # {}
  <2>1. PICK v \in BmElems(b) : v.task = t /\ v.id = bmRow'[t]
    BY <1>2, <1>4, RowsOfBatch
  <2>2. v.id \notin bmSpilled => v \in BmElems(bmBatch) \cup BmElems(updates)
    BY <1>4 DEF Handles, Gather
  <2>3. v.id \notin bmSpilled /\ bmRow[t] \notin bmSpilled => bmRow[t] < bmRow'[t]
    BY <2>1, <2>2 DEF RowBefore
  <2> QED BY <1>2, <2>1, <2>3
<1> QED BY <1>3, <1>4, StepForms DEF Handles

\* Whatever groups a flush writes in whatever order, and however often it is
\* repeated: a row goes back only past the overflow map.
THEOREM NoStepBack == BatchSpec => BatchNoStepBack
<1>1. BatchInv /\ [BatchNext]_bmVars
        => [\A t \in BmTasks : bmRow'[t] < bmRow[t]
                => {bmRow[t], bmRow'[t]} \cap bmSpilled # {}]_bmVars
  BY ShownStep
<1> QED BY <1>1, BatchKeepsInv, PTL DEF BatchSpec, BatchNoStepBack

-----------------------------------------------------------------------------
(* The refinement *)

\* Rows the batch manager writes are rows the register writes.
LEMMA ShowsRefines ==
    ASSUME NEW S, Shows(S)
    PROVE  Register!Shows(S)
BY BmBoundsAssumption DEF Shows, BmIds, Register!Shows, Register!IdsOf

\* An update taken in is accepted by the register, in the place of those of its
\* task the overflow map held.
LEMMA QueueRefines ==
    ASSUME BatchInv, NEW u \in BmUpdates, BmQueueTaskUpdate(u)
    PROVE  Register!Accept
<1> USE DEF BatchInv
<1>1. u \in BmUpdates \ BmOpen /\ UNCHANGED <<bmBatch, bmRow, bmCounted>>
  BY QueueNew, QueueType
<1>2. CASE BmElems(updates') = BmElems(updates) \cup {u} /\ UNCHANGED overflow
  <2>1. BmOpen' = BmOpen \cup {u}
    BY <1>1, <1>2 DEF BmOpen
  <2>2. {} \in SUBSET BmOpen /\ BmOpen' = (BmOpen \ {}) \cup {u}
    BY <2>1
  <2> QED BY <1>1, <2>2 DEF Register!Accept
<1>3. CASE UNCHANGED updates /\ overflow' = {v \in overflow : v.task # u.task} \cup {u}
  <2> DEFINE S == {v \in overflow : v.task = u.task}
  <2>1. S \subseteq BmOpen /\ \A v \in S : v.task = u.task /\ v.id < u.id
    BY QueueNew DEF BmOpen
  <2>2. S \cap (BmElems(updates) \cup BmElems(bmBatch)) = {}
    BY DEF InOrder
  <2>3. BmOpen' = (BmOpen \ S) \cup {u}
    BY <1>1, <1>3, <2>2 DEF BmOpen
  <2> QED BY <1>1, <2>1, <2>3 DEF Register!Accept
<1> QED BY <1>2, <1>3, QueueForms

\* A batch that is kept is a stutter, one that is written or split a transaction
\* or several.
LEMMA HandleRefines ==
    ASSUME BatchInv, NEW b \in Seq(BmUpdates), Handles(b)
    PROVE  Register!Write \/ Register!Split \/ UNCHANGED <<BmOpen, bmRow, bmCounted>>
<1>1. CASE Keeps(b)
  BY <1>1, OpenAfter DEF Keeps
<1>2. CASE ~Keeps(b) /\ Writes(b)
  <2>1. BmElems(b) \in SUBSET BmOpen /\ BmOpen' = BmOpen \ BmElems(b)
    BY <1>2, OpenAfter
  <2>2. Register!Shows(BmElems(b))
    BY <1>2, ShowsRefines DEF Writes
  <2>3. bmCounted' = bmCounted \cup {u.id : u \in {v \in BmElems(b) : v.final}}
    BY <1>2 DEF Writes, Usage, BmIds
  <2> QED BY <2>1, <2>2, <2>3 DEF Register!Write
<1>3. CASE ~Keeps(b) /\ Splits(b)
  <2>1. BmElems(b) \in SUBSET BmOpen /\ BmOpen' = BmOpen \ BmElems(b)
    BY <1>3, OpenAfter
  <2>2. PICK T \in SUBSET BmElems(b) : SplitsTo(b, T)
    BY <1>3 DEF Splits
  <2>3. Register!Shows(T) /\ UNCHANGED bmCounted
    BY <2>2, ShowsRefines DEF SplitsTo
  <2> QED BY <2>1, <2>3 DEF Register!Split
<1> QED BY <1>1, <1>2, <1>3 DEF Handles

\* The batch manager implements BatchRegister: rows and usage change together, no
\* update is written or counted twice, none but a final one is counted.
THEOREM ImplementsRegister == BatchSpec => BatchIsRegister
<1>1. BatchInit => Register!Init
  <2> SUFFICES ASSUME BatchInit PROVE Register!Init
    OBVIOUS
  <2>1. BmOpen = {}
    BY ElemsEmpty DEF BatchInit, BmOpen
  <2> QED BY <2>1 DEF BatchInit, Register!Init
<1>2. BatchInv /\ [BatchNext]_bmVars => [Register!Next]_<<BmOpen, bmRow, bmCounted>>
  <2> SUFFICES ASSUME BatchInv, [BatchNext]_bmVars
               PROVE  [Register!Next]_<<BmOpen, bmRow, bmCounted>>
    OBVIOUS
  <2>1. CASE \E u \in BmUpdates : BmQueueTaskUpdate(u)
    BY <2>1, QueueRefines DEF Register!Next
  <2>2. CASE \E b \in Seq(BmUpdates) : Handles(b)
    BY <2>2, HandleRefines DEF Register!Next
  <2> QED BY <2>1, <2>2, StepForms DEF Handles
<1> QED BY <1>1, <1>2, BatchKeepsInv, PTL DEF BatchSpec, BatchIsRegister, Register!Spec
=============================================================================
