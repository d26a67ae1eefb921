--------------------------- MODULE Audits_proofs ---------------------------
(***************************************************************************)
(* Proofs about the Lighthouse audits, for every set of pages and of       *)
(* handlers and any number of messages, milestones and faults: the samples *)
(* of a job keep to their quota, an audit without a verdict can always be  *)
(* taken up again, a verdict stays, and the messages of the audits follow  *)
(* BrokerFlow.                                                             *)
(*                                                                         *)
(* BandQuotaKept is inductive beside SamplesFit: what a process has chosen *)
(* still fits while no other process has chosen too.  AuditNotLost is      *)
(* inductive beside the types and the fact that a handler at work holds a  *)
(* message: what is acknowledged is then never the last message of an open *)
(* audit.  Once the loops rest, an audit is still open only if its job was *)
(* stopped, or is completed and no longer on the dispatcher's list.        *)
(***************************************************************************)
EXTENDS AuditRuns, AuditSampling, FiniteSetTheorems, TLAPS

-----------------------------------------------------------------------------
(* Sampling: quotas *)

\* Elements that are told apart by numbers below k are at most k.
LEMMA FewNumbers ==
    ASSUME NEW F, IsFiniteSet(F), NEW k \in Nat, NEW number \in [F -> 0 .. k - 1],
           \A x, y \in F : x # y => number[x] # number[y]
    PROVE  Cardinality(F) =< k
<1> SUFFICES ASSUME ~(Cardinality(F) =< k) PROVE FALSE
  OBVIOUS
<1>1. IsFiniteSet(0 .. k - 1) /\ Cardinality(0 .. k - 1) = k
  BY FS_Interval
<1>2. Cardinality(F) \in Nat
  BY FS_CardinalityType
<1>3. Cardinality(0 .. k - 1) < Cardinality(F)
  BY <1>1, <1>2
<1> QED BY <1>1, <1>3, FS_PigeonHole

\* The m least pages of a set are at most m of it.
LEMMA LeastAreFew ==
    ASSUME NEW S, IsFiniteSet(S), S \subseteq Nat, NEW m \in Nat
    PROVE  AsLeast(m, S) \subseteq S /\ Cardinality(AsLeast(m, S)) =< m
<1> DEFINE before(p) == {q \in S : q < p}
           F == AsLeast(m, S)
           number == [p \in F |-> Cardinality(before(p))]
<1>1. F \subseteq S /\ \A p \in F : Cardinality(before(p)) < m
  BY DEF AsLeast
<1>2. \A p \in S : IsFiniteSet(before(p)) /\ Cardinality(before(p)) \in Nat
  BY FS_Subset, FS_CardinalityType
<1>3. \A p, q \in S : p < q => Cardinality(before(p)) # Cardinality(before(q))
  <2> SUFFICES ASSUME NEW p \in S, NEW q \in S, p < q
               PROVE  Cardinality(before(p)) # Cardinality(before(q))
    OBVIOUS
  <2>1. \A r \in S : r < p => r < q
    OBVIOUS
  <2>2. ~(p < p)
    OBVIOUS
  <2>3. before(p) \subseteq before(q) /\ p \in before(q) /\ p \notin before(p)
    BY <2>1, <2>2, Zenon
  <2> HIDE DEF before
  <2> QED BY <1>2, <2>3, FS_Subset
<1>4. \A p, q \in S : p # q => p < q \/ q < p
  OBVIOUS
<1> HIDE DEF F, before
<1>5. number \in [F -> 0 .. m - 1]
  BY <1>1, <1>2
<1>6. \A p, q \in F : p # q => number[p] # number[q]
  BY <1>1, <1>3, <1>4
<1>7. IsFiniteSet(F)
  BY <1>1, FS_Subset
<1> HIDE DEF number
<1>8. Cardinality(F) =< m
  BY <1>5, <1>6, <1>7, FewNumbers
<1> QED BY <1>1, <1>8 DEF F

\* So are the m greatest.
LEMMA GreatestAreFew ==
    ASSUME NEW S, IsFiniteSet(S), S \subseteq Nat, NEW m \in Nat
    PROVE  AsGreatest(m, S) \subseteq S /\ Cardinality(AsGreatest(m, S)) =< m
<1> DEFINE after(p) == {q \in S : q > p}
           F == AsGreatest(m, S)
           number == [p \in F |-> Cardinality(after(p))]
<1>1. F \subseteq S /\ \A p \in F : Cardinality(after(p)) < m
  BY DEF AsGreatest
<1>2. \A p \in S : IsFiniteSet(after(p)) /\ Cardinality(after(p)) \in Nat
  BY FS_Subset, FS_CardinalityType
<1>3. \A p, q \in S : p < q => Cardinality(after(p)) # Cardinality(after(q))
  <2> SUFFICES ASSUME NEW p \in S, NEW q \in S, p < q
               PROVE  Cardinality(after(p)) # Cardinality(after(q))
    OBVIOUS
  <2>1. q > p /\ ~(q > q) /\ \A r \in S : r > q => r > p
    OBVIOUS
  <2>2. after(q) \subseteq after(p) /\ q \in after(p) /\ q \notin after(q)
    BY <2>1, Zenon
  <2> HIDE DEF after
  <2> QED BY <1>2, <2>2, FS_Subset
<1>4. \A p, q \in S : p # q => p < q \/ q < p
  OBVIOUS
<1> HIDE DEF F, after
<1>5. number \in [F -> 0 .. m - 1]
  BY <1>1, <1>2
<1>6. \A p, q \in F : p # q => number[p] # number[q]
  BY <1>1, <1>3, <1>4
<1>7. IsFiniteSet(F)
  BY <1>1, FS_Subset
<1> HIDE DEF number
<1>8. Cardinality(F) =< m
  BY <1>5, <1>6, <1>7, FewNumbers
<1> QED BY <1>1, <1>8 DEF F

\* More completed pages never call for fewer samples.
LEMMA QuotaGrows ==
    ASSUME NEW a \in Nat, NEW b \in Nat, a =< b
    PROVE  PerBand(a) \in Nat /\ PerBand(a) =< PerBand(b)
<1>0. IsFiniteSet(1 .. 15)
  <2>1. \A n \in Nat : IsFiniteSet(1 .. n)
    BY FS_Interval
  <2> QED BY <2>1
<1> DEFINE steps(n) == {k \in 1 .. 15 : k = 1 \/ 400 * k * k =< 9 * n}
<1>1. \A n \in Nat : IsFiniteSet(steps(n)) /\ Cardinality(steps(n)) \in Nat
  BY <1>0, FS_Subset, FS_CardinalityType
<1>2. \A n \in Nat : PerBand(n) = IF n = 0 THEN 0 ELSE Cardinality(steps(n))
  BY DEF PerBand
<1>3. steps(a) \subseteq steps(b)
  <2> SUFFICES ASSUME NEW k \in 1 .. 15, 400 * k * k =< 9 * a PROVE 400 * k * k =< 9 * b
    OBVIOUS
  <2>1. 400 * k * k \in Int /\ 9 * a =< 9 * b
    OBVIOUS
  <2> QED BY <2>1
<1> HIDE DEF steps
<1>4. Cardinality(steps(a)) =< Cardinality(steps(b))
  BY <1>1, <1>3, FS_Subset
<1> QED BY <1>1, <1>2, <1>4

-----------------------------------------------------------------------------
(* Sampling: types *)

\* The progress is a milestone of 0 to 100 per cent.
LEMMA ProgressType == AsProgress \in 0 .. 100
<1> DEFINE open == {p \in AsPages : asPage[p] # "open"}
           f == Cardinality(open)
           n == Cardinality(AsPages)
<1>1. f \in Nat /\ n \in Nat /\ n # 0 /\ f =< n
  BY AsAssumption, FS_Subset, FS_CardinalityType, FS_EmptySet
<1> HIDE DEF open, f, n
<1>2. f * 100 =< 100 * n /\ f * 100 \in Nat
  BY <1>1
<1>3. (f * 100) \div n \in 0 .. 100
  <2> DEFINE d == (f * 100) \div n
  <2>1. d \in Nat /\ n * d =< f * 100
    BY <1>1, <1>2
  <2> HIDE DEF d
  <2>2. d \in Nat /\ n * d \in Nat /\ n * d =< 100 * n
    BY <1>1, <1>2, <2>1
  <2>3. d =< 100
    <3> SUFFICES ASSUME d >= 101 PROVE FALSE
      BY <2>2
    <3> DEFINE e == d - 101
    <3>1. e \in Nat /\ d = e + 101
      BY <2>2
    <3> HIDE DEF e
    <3>2. n * e \in Nat /\ n * (e + 101) = n * e + 101 * n
      BY <1>1, <3>1
    <3> QED BY <1>1, <2>2, <3>1, <3>2
  <2> QED BY <2>2, <2>3 DEF d
<1> DEFINE d == (f * 100) \div n
<1>4. (d \div 10) * 10 \in 0 .. 100
  <2>1. d \in 0 .. 100
    BY <1>3
  <2> HIDE DEF d
  <2> QED BY <2>1
<1> QED BY <1>4 DEF AsProgress, f, n, open

\* What is chosen are pages.
LEMMA SamplesType == SelectSamples \in [fastest : SUBSET AsPages, slowest : SUBSET AsPages]
BY DEF SelectSamples, AsLeast, AsGreatest, AsCompleted

\* A replica whose callback is over has its types.
LEMMA EndType ==
    ASSUME SamplingTypeOK, NEW r \in AsReplicas, AsEnd(r)
    PROVE  /\ asAt' \in [AsReplicas -> {"idle", "flushed", "fires", "sampled"}]
           /\ asMilestone' \in [AsReplicas -> 0 .. 100]
           /\ asSamples' \in [AsReplicas -> [fastest : SUBSET AsPages, slowest : SUBSET AsPages]]
BY DEF SamplingTypeOK, AsEnd, AsMove, AsNoSamples

\* Every step keeps the types.
LEMMA SamplingTypes == SamplingTypeOK /\ [SamplingNext]_samplingVars => SamplingTypeOK'
<1> SUFFICES ASSUME SamplingTypeOK, [SamplingNext]_samplingVars PROVE SamplingTypeOK'
  OBVIOUS
<1>1. CASE UNCHANGED samplingVars
  <2>1. asRaced' \in BOOLEAN
    BY <1>1, Zenon DEF samplingVars, SamplingTypeOK
  <2> QED BY <1>1, <2>1 DEF samplingVars, SamplingTypeOK
<1> SUFFICES ASSUME NEW r \in AsReplicas,
                    \/ AsFlush(r) \/ MaybeFireMilestones(r) \/ AsReadFails(r)
                    \/ AsSelect(r) \/ AsInsert(r) \/ AsSelectFails(r) \/ AsRestart(r) \/ AsForget(r)
             PROVE  SamplingTypeOK'
  BY <1>1 DEF SamplingNext
<1>2. asRaced \in BOOLEAN
  BY Zenon DEF SamplingTypeOK
<1>3. CASE AsFlush(r)
  <2>1. PICK S \in SUBSET {p \in AsPages : asPage[p] = "open"} :
            \E f \in [S -> {"completed", "other"}] :
                asPage' = [p \in AsPages |-> IF p \in S THEN f[p] ELSE asPage[p]]
    BY <1>3 DEF AsFlush
  <2>2. asPage' \in [AsPages -> {"open", "completed", "other"}]
    BY <2>1 DEF SamplingTypeOK
  <2>3. asAt' \in [AsReplicas -> {"idle", "flushed", "fires", "sampled"}]
    BY <1>3 DEF AsFlush, AsMove, SamplingTypeOK
  <2>4. asRaced' \in BOOLEAN
    BY <1>2, <1>3, Zenon DEF AsFlush
  <2> QED BY <1>3, <2>2, <2>3, <2>4 DEF AsFlush, SamplingTypeOK
<1>4. CASE MaybeFireMilestones(r)
  <2>1. asRaced' \in BOOLEAN
    BY <1>2, <1>4, Zenon DEF MaybeFireMilestones
  <2>2. UNCHANGED <<asPage, asBand, asRestarts>>
    BY <1>4 DEF MaybeFireMilestones
  <2>3. CASE AsEnd(r) /\ UNCHANGED lastMilestoneFired
    BY <2>1, <2>2, <2>3, EndType DEF SamplingTypeOK
  <2>4. CASE /\ lastMilestoneFired' = [lastMilestoneFired EXCEPT ![r] = AsProgress]
             /\ asMilestone' = [asMilestone EXCEPT ![r] = AsProgress]
             /\ AsMove(r, IF AsProgress = 0 THEN "idle" ELSE "fires")
             /\ UNCHANGED asSamples
    <3>1. AsProgress \in 0 .. 100 /\ AsProgress \in -1 .. 100
      BY ProgressType
    <3>2. asMilestone' \in [AsReplicas -> 0 .. 100]
          /\ lastMilestoneFired' \in [AsReplicas -> -1 .. 100]
      BY <2>4, <3>1 DEF SamplingTypeOK
    <3>3. asAt' \in [AsReplicas -> {"idle", "flushed", "fires", "sampled"}]
      BY <2>4 DEF AsMove, SamplingTypeOK
    <3> QED BY <2>1, <2>2, <2>4, <3>2, <3>3 DEF SamplingTypeOK
  <2> QED BY <1>4, <2>3, <2>4 DEF MaybeFireMilestones
<1>5. CASE AsReadFails(r) \/ AsSelectFails(r)
  <2>1. asRaced' \in BOOLEAN
    BY <1>2, <1>5, Zenon DEF AsReadFails, AsSelectFails
  <2>2. AsEnd(r) /\ UNCHANGED <<asPage, asBand, lastMilestoneFired, asRestarts>>
    BY <1>5 DEF AsReadFails, AsSelectFails
  <2> QED BY <2>1, <2>2, EndType DEF SamplingTypeOK
<1>6. CASE AsSelect(r)
  <2>1. asRaced' \in BOOLEAN
    BY <1>2, <1>6, Zenon DEF AsSelect
  <2>2. UNCHANGED <<asPage, asBand, lastMilestoneFired, asRestarts>>
    BY <1>6 DEF AsSelect
  <2>3. CASE AsEnd(r)
    BY <2>1, <2>2, <2>3, EndType DEF SamplingTypeOK
  <2>4. CASE /\ asSamples' = [asSamples EXCEPT ![r] = SelectSamples]
             /\ AsMove(r, "sampled") /\ UNCHANGED asMilestone
    <3>1. asSamples' \in [AsReplicas -> [fastest : SUBSET AsPages, slowest : SUBSET AsPages]]
      BY <2>4, SamplesType DEF SamplingTypeOK
    <3>2. asAt' \in [AsReplicas -> {"idle", "flushed", "fires", "sampled"}]
      BY <2>4 DEF AsMove, SamplingTypeOK
    <3> QED BY <2>1, <2>2, <2>4, <3>1, <3>2 DEF SamplingTypeOK
  <2> QED BY <1>6, <2>3, <2>4 DEF AsSelect
<1>7. CASE AsInsert(r)
  <2>1. asRaced' \in BOOLEAN
    BY <1>2, <1>7, Zenon DEF AsInsert
  <2>2. AsInserted(r) \in [AsPages -> {"none", "fastest", "slowest", "reconcile"}]
    BY DEF AsInserted, SamplingTypeOK
  <2>3. asBand' = AsInserted(r) /\ AsEnd(r) /\ UNCHANGED <<asPage, lastMilestoneFired, asRestarts>>
    BY <1>7 DEF AsInsert
  <2> QED BY <2>1, <2>2, <2>3, EndType DEF SamplingTypeOK
<1>8. ASSUME AsRestart(r) \/ AsForget(r)
      PROVE  /\ asRaced' \in BOOLEAN /\ asRestarts' \in 0 .. AsMaxRestarts
             /\ lastMilestoneFired' \in [AsReplicas -> -1 .. 100] /\ UNCHANGED <<asPage, asBand>>
  <2>1. asRaced' \in BOOLEAN
    BY <1>2, <1>8, Zenon DEF AsRestart, AsForget
  <2>2. asRestarts < AsMaxRestarts /\ asRestarts' = asRestarts + 1
        /\ asRestarts \in 0 .. AsMaxRestarts /\ AsMaxRestarts \in Nat
    BY <1>8, AsAssumption DEF AsRestart, AsForget, SamplingTypeOK
  <2>3. asRestarts' \in 0 .. AsMaxRestarts
    BY <2>2
  <2>4. /\ lastMilestoneFired' = [lastMilestoneFired EXCEPT ![r] = -1]
        /\ UNCHANGED <<asPage, asBand>>
    BY <1>8 DEF AsRestart, AsForget
  <2>5. -1 \in -1 .. 100
    OBVIOUS
  <2> QED BY <2>1, <2>3, <2>4, <2>5 DEF SamplingTypeOK
<1>9. CASE AsRestart(r)
  BY <1>8, <1>9, EndType DEF AsRestart, SamplingTypeOK
<1>10. CASE AsForget(r)
  BY <1>8, <1>10 DEF AsForget, SamplingTypeOK
<1> QED BY <1>3, <1>4, <1>5, <1>6, <1>7, <1>9, <1>10

-----------------------------------------------------------------------------
(* Sampling: the quota of a band *)

AsBands == {"fastest", "slowest"}

\* What a replica has chosen still fits into the quota of each band, until two
\* replicas have chosen at the same time.
SamplesFit ==
    ~asRaced => \A r \in AsReplicas, band \in AsBands :
        asAt[r] = "sampled" =>
            Cardinality(AsOf(band)) + Cardinality(asSamples[r][band])
                =< PerBand(Cardinality(AsCompleted))

SamplingInv == SamplingTypeOK /\ BandQuotaKept /\ SamplesFit

\* The rows of a band, and the completed pages, are finitely many.
LEMMA FiniteSamples ==
    ASSUME NEW S \in SUBSET AsPages
    PROVE  IsFiniteSet(S) /\ Cardinality(S) \in Nat /\ S \subseteq Nat
BY AsAssumption, FS_Subset, FS_CardinalityType

\* There are neither rows nor samples in the beginning.
LEMMA InitSampling == SamplingInit => SamplingInv
<1> SUFFICES ASSUME SamplingInit PROVE SamplingInv
  OBVIOUS
<1>1. SamplingTypeOK
  <2>1. asRaced \in BOOLEAN
    BY Zenon DEF SamplingInit
  <2>2. asRestarts \in 0 .. AsMaxRestarts
    BY AsAssumption DEF SamplingInit
  <2>3. -1 \in -1 .. 100 /\ 0 \in 0 .. 100
    OBVIOUS
  <2> QED BY <2>1, <2>2, <2>3 DEF SamplingInit, SamplingTypeOK, AsNoSamples
<1>2. BandQuotaKept
  <2>1. \A band \in AsBands : AsOf(band) = {}
    BY DEF SamplingInit, AsOf, AsBands
  <2>2. AsCompleted = {}
    BY DEF SamplingInit, AsCompleted
  <2>3. PerBand(0) \in Nat
    BY QuotaGrows
  <2> QED BY <2>1, <2>2, <2>3, FS_EmptySet DEF BandQuotaKept, AsBands
<1>3. SamplesFit
  BY DEF SamplingInit, SamplesFit
<1> QED BY <1>1, <1>2, <1>3 DEF SamplingInv

\* A step that inserts and chooses nothing, and at which pages may complete.
LEMMA QuotaStays ==
    ASSUME SamplingInv, UNCHANGED <<asBand, asRaced>>, AsCompleted \subseteq AsCompleted',
           AsCompleted' \subseteq AsPages,
           \A q \in AsReplicas : asAt'[q] = "sampled" =>
               asAt[q] = "sampled" /\ asSamples'[q] = asSamples[q]
    PROVE  BandQuotaKept' /\ SamplesFit'
<1>1. Cardinality(AsCompleted) \in Nat /\ Cardinality(AsCompleted') \in Nat
      /\ Cardinality(AsCompleted) =< Cardinality(AsCompleted')
  BY FiniteSamples, FS_Subset
<1>2. /\ PerBand(Cardinality(AsCompleted)) \in Nat
      /\ PerBand(Cardinality(AsCompleted')) \in Nat
      /\ PerBand(Cardinality(AsCompleted)) =< PerBand(Cardinality(AsCompleted'))
  BY <1>1, QuotaGrows
<1>3. \A band \in AsBands : AsOf(band)' = AsOf(band) /\ Cardinality(AsOf(band)) \in Nat
  BY FiniteSamples DEF AsOf
<1>4. BandQuotaKept'
  BY <1>2, <1>3 DEF SamplingInv, BandQuotaKept, AsBands
<1>5. SamplesFit'
  <2> SUFFICES ASSUME ~asRaced, NEW q \in AsReplicas, NEW band \in AsBands, asAt'[q] = "sampled"
               PROVE  Cardinality(AsOf(band)) + Cardinality(asSamples[q][band])
                          =< PerBand(Cardinality(AsCompleted'))
    BY <1>3 DEF SamplesFit
  <2>1. Cardinality(AsOf(band)) + Cardinality(asSamples[q][band])
            =< PerBand(Cardinality(AsCompleted))
    BY DEF SamplingInv, SamplesFit
  <2>2. asSamples[q][band] \in SUBSET AsPages
    BY DEF SamplingInv, SamplingTypeOK, AsBands
  <2>3. Cardinality(asSamples[q][band]) \in Nat
    BY <2>2, FiniteSamples
  <2> QED BY <1>2, <1>3, <2>1, <2>3
<1> QED BY <1>4, <1>5

\* What is chosen fits into what is missing of the quota.
LEMMA ChosenFit ==
    ASSUME SamplingInv, ~asRaced, NEW band \in AsBands
    PROVE  Cardinality(AsOf(band)) + Cardinality(SelectSamples[band])
               =< PerBand(Cardinality(AsCompleted))
<1> DEFINE candidates == AsCompleted \cap AsOf("none")
           fast == AsLeast(AsNeeded("fastest"), candidates)
           slow == AsGreatest(AsNeeded("slowest"), candidates \ fast)
<1>1. SelectSamples = [fastest |-> fast, slowest |-> slow]
  BY DEF SelectSamples
<1>2. \A b \in AsBands : /\ Cardinality(AsOf(b)) \in Nat /\ AsNeeded(b) \in Nat
                         /\ Cardinality(AsOf(b)) + AsNeeded(b) = PerBand(Cardinality(AsCompleted))
  <2>1. PerBand(Cardinality(AsCompleted)) \in Nat
    <3>1. Cardinality(AsCompleted) \in Nat
      BY FiniteSamples DEF AsCompleted
    <3> QED BY <3>1, QuotaGrows
  <2>2. \A b \in AsBands : /\ Cardinality(AsOf(b)) \in Nat
                           /\ Cardinality(AsOf(b)) =< PerBand(Cardinality(AsCompleted))
    BY FiniteSamples DEF SamplingInv, BandQuotaKept, AsOf, AsBands
  <2> QED BY <2>1, <2>2 DEF AsNeeded
<1>3. candidates \in SUBSET AsPages /\ candidates \ fast \in SUBSET AsPages
  BY DEF AsCompleted
<1>4. Cardinality(fast) =< AsNeeded("fastest") /\ Cardinality(slow) =< AsNeeded("slowest")
  <2> HIDE DEF candidates
  <2>1. Cardinality(fast) =< AsNeeded("fastest")
    BY <1>2, <1>3, FiniteSamples, LeastAreFew DEF AsBands
  <2> HIDE DEF fast
  <2>2. Cardinality(slow) =< AsNeeded("slowest")
    BY <1>2, <1>3, FiniteSamples, GreatestAreFew DEF AsBands
  <2> QED BY <2>1, <2>2
<1>5. fast \in SUBSET AsPages /\ slow \in SUBSET AsPages
  BY <1>1, SamplesType
<1>6. Cardinality(fast) \in Nat /\ Cardinality(slow) \in Nat
  BY <1>5, FiniteSamples
<1> HIDE DEF fast, slow, candidates
<1>7. CASE band = "fastest"
  BY <1>1, <1>2, <1>4, <1>6, <1>7
<1>8. CASE band = "slowest"
  BY <1>1, <1>2, <1>4, <1>6, <1>8
<1> QED BY <1>7, <1>8 DEF AsBands

\* Every step keeps the quotas.
LEMMA SamplingStep == SamplingInv /\ [SamplingNext]_samplingVars => SamplingInv'
<1> SUFFICES ASSUME SamplingInv, [SamplingNext]_samplingVars PROVE SamplingInv'
  OBVIOUS
<1>1. SamplingTypeOK /\ SamplingTypeOK'
  BY SamplingTypes DEF SamplingInv
<1> SUFFICES BandQuotaKept' /\ SamplesFit'
  BY <1>1 DEF SamplingInv
<1>2. ASSUME asPage' = asPage PROVE AsCompleted' = AsCompleted
  BY <1>2 DEF AsCompleted
<1>3. AsCompleted \subseteq AsPages /\ AsCompleted' \subseteq AsPages
  BY DEF AsCompleted
<1>4. CASE UNCHANGED samplingVars
  BY <1>2, <1>3, <1>4, QuotaStays DEF samplingVars
<1> SUFFICES ASSUME NEW r \in AsReplicas,
                    \/ AsFlush(r) \/ MaybeFireMilestones(r) \/ AsReadFails(r)
                    \/ AsSelect(r) \/ AsInsert(r) \/ AsSelectFails(r) \/ AsRestart(r) \/ AsForget(r)
             PROVE  BandQuotaKept' /\ SamplesFit'
  BY <1>4 DEF SamplingNext
<1>5. ASSUME AsEnd(r)
      PROVE  /\ asAt' = [asAt EXCEPT ![r] = "idle"]
             /\ asAt'[r] = "idle"
             /\ \A q \in AsReplicas \ {r} : asAt'[q] = asAt[q] /\ asSamples'[q] = asSamples[q]
  BY <1>1, <1>5 DEF AsEnd, AsMove, SamplingTypeOK
<1>6. CASE AsFlush(r)
  <2>1. PICK S \in SUBSET {p \in AsPages : asPage[p] = "open"} :
            \E f \in [S -> {"completed", "other"}] :
                asPage' = [p \in AsPages |-> IF p \in S THEN f[p] ELSE asPage[p]]
    BY <1>6 DEF AsFlush
  <2>2. AsCompleted \subseteq AsCompleted'
    BY <2>1 DEF AsCompleted
  <2>3. asAt' = [asAt EXCEPT ![r] = "flushed"] /\ UNCHANGED <<asBand, asSamples, asRaced>>
    BY <1>6 DEF AsFlush, AsMove
  <2>4. \A q \in AsReplicas : asAt'[q] = "sampled" => asAt[q] = "sampled"
    BY <1>1, <2>3 DEF SamplingTypeOK
  <2> QED BY <1>3, <2>2, <2>3, <2>4, QuotaStays
<1>7. CASE MaybeFireMilestones(r)
  <2>1. \A q \in AsReplicas : asAt'[q] = "sampled" =>
            asAt[q] = "sampled" /\ asSamples'[q] = asSamples[q]
    <3>1. CASE AsEnd(r)
      BY <1>5, <3>1
    <3>2. CASE AsMove(r, IF AsProgress = 0 THEN "idle" ELSE "fires") /\ UNCHANGED asSamples
      BY <1>1, <3>2 DEF AsMove, SamplingTypeOK
    <3> QED BY <1>7, <3>1, <3>2 DEF MaybeFireMilestones
  <2>2. UNCHANGED <<asPage, asBand, asRaced>>
    BY <1>7 DEF MaybeFireMilestones
  <2> QED BY <1>2, <1>3, <2>1, <2>2, QuotaStays
<1>8. CASE AsReadFails(r) \/ AsSelectFails(r) \/ AsRestart(r) \/ (AsSelect(r) /\ AsEnd(r))
  <2>1. AsEnd(r) /\ UNCHANGED <<asPage, asBand, asRaced>>
    BY <1>8 DEF AsReadFails, AsSelectFails, AsRestart, AsSelect
  <2> QED BY <1>2, <1>3, <1>5, <2>1, QuotaStays
<1>9. CASE AsForget(r)
  <2>1. UNCHANGED <<asPage, asBand, asRaced, asAt, asSamples>>
    BY <1>9 DEF AsForget
  <2> QED BY <1>2, <1>3, <2>1, QuotaStays
<1>10. CASE AsSelect(r) /\ ~AsEnd(r)
  <2>1. /\ asSamples' = [asSamples EXCEPT ![r] = SelectSamples]
        /\ asAt' = [asAt EXCEPT ![r] = "sampled"]
        /\ UNCHANGED <<asPage, asBand, asRaced>>
    BY <1>10 DEF AsSelect, AsMove
  <2>2. asSamples'[r] = SelectSamples
        /\ \A q \in AsReplicas \ {r} : asAt'[q] = asAt[q] /\ asSamples'[q] = asSamples[q]
    BY <1>1, <2>1 DEF SamplingTypeOK
  <2>3. AsCompleted' = AsCompleted /\ \A band \in AsBands : AsOf(band)' = AsOf(band)
    BY <2>1 DEF AsCompleted, AsOf
  <2>4. BandQuotaKept'
    BY <2>1, <2>3 DEF SamplingInv, BandQuotaKept, AsBands
  <2>5. SamplesFit'
    <3> SUFFICES ASSUME ~asRaced, NEW q \in AsReplicas, NEW band \in AsBands,
                        asAt'[q] = "sampled"
                 PROVE  Cardinality(AsOf(band)) + Cardinality(asSamples'[q][band])
                            =< PerBand(Cardinality(AsCompleted))
      BY <2>1, <2>3 DEF SamplesFit
    <3>1. CASE q = r
      BY <2>2, <3>1, ChosenFit
    <3>2. CASE q # r
      BY <2>2, <3>2 DEF SamplingInv, SamplesFit
    <3> QED BY <3>1, <3>2
  <2> QED BY <2>4, <2>5
<1>11. CASE AsInsert(r)
  <2>1. /\ asAt[r] = "sampled" /\ asBand' = AsInserted(r) /\ AsEnd(r) /\ UNCHANGED asPage
        /\ asRaced' = (asRaced \/ \E q \in AsReplicas \ {r} : asAt[q] = "sampled")
    BY <1>11 DEF AsInsert
  <2>2. SUFFICES ASSUME ~asRaced' PROVE BandQuotaKept' /\ SamplesFit'
    BY DEF BandQuotaKept, SamplesFit
  <2>3. ~asRaced /\ \A q \in AsReplicas \ {r} : asAt[q] # "sampled"
    BY <2>1, <2>2, Zenon
  <2>4. SamplesFit'
    BY <1>5, <2>1, <2>3 DEF SamplesFit
  <2>5. BandQuotaKept'
    <3> SUFFICES ASSUME NEW band \in AsBands
                 PROVE  Cardinality(AsOf(band)') =< PerBand(Cardinality(AsCompleted'))
      BY DEF BandQuotaKept, AsBands
    <3> DEFINE chosen == asSamples[r][band]
    <3>1. chosen \in SUBSET AsPages /\ AsOf(band) \in SUBSET AsPages
      BY <1>1 DEF SamplingTypeOK, AsBands, AsOf
    <3>2. Cardinality(AsOf(band)) + Cardinality(chosen) =< PerBand(Cardinality(AsCompleted))
      BY <2>1, <2>3 DEF SamplingInv, SamplesFit
    <3>3. AsOf(band)' \subseteq AsOf(band) \cup chosen
      <4> SUFFICES ASSUME NEW p \in AsPages, asBand'[p] = band, asBand[p] # band
                   PROVE  p \in chosen
        BY DEF AsOf
      <4>1. CASE band = "fastest"
        BY <2>1, <4>1 DEF AsInserted
      <4>2. CASE band = "slowest"
        BY <2>1, <4>2 DEF AsInserted
      <4> QED BY <4>1, <4>2 DEF AsBands
    <3> HIDE DEF chosen
    <3>4. Cardinality(AsOf(band) \cup chosen) =< Cardinality(AsOf(band)) + Cardinality(chosen)
      <4>1. IsFiniteSet(AsOf(band)) /\ IsFiniteSet(chosen)
            /\ Cardinality(AsOf(band)) \in Nat /\ Cardinality(chosen) \in Nat
        BY <3>1, FiniteSamples
      <4>2. AsOf(band) \cap chosen \in SUBSET AsPages
        BY <3>1
      <4>3. Cardinality(AsOf(band) \cap chosen) \in Nat
        BY <4>2, FiniteSamples
      <4> QED BY <4>1, <4>3, FS_Union
    <3>5. Cardinality(AsOf(band)') =< Cardinality(AsOf(band) \cup chosen)
      <4>1. AsOf(band) \cup chosen \in SUBSET AsPages
        BY <3>1
      <4> QED BY <3>3, <4>1, FiniteSamples, FS_Subset
    <3>6. /\ Cardinality(AsOf(band)') \in Nat /\ Cardinality(AsOf(band) \cup chosen) \in Nat
          /\ Cardinality(AsOf(band)) \in Nat /\ Cardinality(chosen) \in Nat
      <4>1. AsOf(band)' \in SUBSET AsPages /\ AsOf(band) \cup chosen \in SUBSET AsPages
        BY <3>1 DEF AsOf
      <4> QED BY <3>1, <4>1, FiniteSamples
    <3>7. PerBand(Cardinality(AsCompleted)) \in Nat /\ AsCompleted' = AsCompleted
      BY <1>2, <1>3, <2>1, FiniteSamples, QuotaGrows
    <3> QED BY <3>2, <3>4, <3>5, <3>6, <3>7
  <2> QED BY <2>4, <2>5
<1> QED BY <1>6, <1>7, <1>8, <1>9, <1>10, <1>11

-----------------------------------------------------------------------------
(* Sampling: theorems *)

\* Pages, bands, milestones and samples have their types
\* (lighthouse/scheduler.go OnMilestone, jobs/manager.go MaybeFireMilestones).
THEOREM SamplingTypeCorrect == SamplingSpec => []SamplingTypeOK
<1>1. SamplingInv => SamplingTypeOK
  BY DEF SamplingInv
<1> QED BY InitSampling, SamplingStep, <1>1, PTL DEF SamplingSpec

\* A band never has more rows than the completed pages call for, however often the
\* milestones fire, unless two processes chose at the same time
\* (lighthouse/sampler.go SelectSamples).
THEOREM QuotasAreKept == SamplingSpec => []BandQuotaKept
<1>1. SamplingInv => BandQuotaKept
  BY DEF SamplingInv
<1> QED BY InitSampling, SamplingStep, <1>1, PTL DEF SamplingSpec

-----------------------------------------------------------------------------
(* Runs: the invariant *)

\* A handler at work holds a message.
HandlersHold == \A h \in AuHandlers : auAt[h] # "idle" => auMsg[h] \in AuMessages

AuditInv == AuditsTypeOK /\ HandlersHold /\ AuditNotLost

\* AuFault keeps the count of faults within its bound.
LEMMA FaultType == ASSUME auFaults \in 0 .. AuMaxFaults, AuFault
                   PROVE  auFaults' \in 0 .. AuMaxFaults
BY AuAssumption DEF AuFault

\* A message moved from the stream to the pending ones keeps the pages.
LEMMA PagesMoved == ASSUME NEW M, NEW P, NEW m \in M
                    PROVE  AuPagesOf((M \ {m}) \cup (P \cup {m})) = AuPagesOf(M \cup P)
<1>1. (M \ {m}) \cup (P \cup {m}) = M \cup P
  OBVIOUS
<1> QED BY <1>1

\* The initial states satisfy the invariant.
LEMMA InitAudits == AuditsInit => AuditInv
<1> SUFFICES ASSUME AuditsInit PROVE AuditInv
  OBVIOUS
<1>1. AuditsTypeOK
  BY AuAssumption DEF AuditsInit, AuditsTypeOK, AuNone
<1>2. HandlersHold
  BY DEF AuditsInit, HandlersHold
<1>3. AuditNotLost
  BY DEF AuditsInit, AuditNotLost, AuOpen
<1> QED BY <1>1, <1>2, <1>3 DEF AuditInv

-----------------------------------------------------------------------------
(* Runs: types *)

\* Every step keeps the types, and a handler at work its message.
LEMMA AuditTypeStep == AuditsTypeOK /\ HandlersHold /\ [AuditsNext]_auditVars
                    => AuditsTypeOK' /\ HandlersHold'
<1> SUFFICES ASSUME AuditsTypeOK, HandlersHold, [AuditsNext]_auditVars
             PROVE  AuditsTypeOK' /\ HandlersHold'
  OBVIOUS
<1> USE DEF AuditsTypeOK, HandlersHold
<1>1. CASE AuComplete
  BY <1>1 DEF AuComplete, auBrokerVars, auHandlerVars
<1>2. CASE AuStop
  BY <1>2 DEF AuStop, auHandlerVars
<1>3. CASE AuRemoveJobKeys
  BY <1>3 DEF AuRemoveJobKeys, auHandlerVars
<1>4. CASE AuRefresh
  BY <1>4 DEF AuRefresh, auBrokerVars, auHandlerVars
<1>5. CASE AuSchedule
  BY <1>5 DEF AuSchedule, auHandlerVars
<1>6. ASSUME NEW p \in AuPages, AuSweep(p)
      PROVE  AuditsTypeOK' /\ HandlersHold'
  BY <1>6, FaultType DEF AuSweep, auHandlerVars
<1>7. ASSUME NEW p \in AuPages, AuDispatch(p)
      PROVE  AuditsTypeOK' /\ HandlersHold'
  <2>1. auSent[p] + 1 \in 1 .. AuMaxSends
    BY <1>7, AuAssumption DEF AuDispatch
  <2>2. auSent' \in [AuPages -> 0 .. AuMaxSends] /\ auSent'[p] = auSent[p] + 1
    BY <1>7, <2>1 DEF AuDispatch
  <2>3. [page |-> p, n |-> auSent'[p]] \in AuMessages
    BY <2>1, <2>2 DEF AuMessages
  <2> QED BY <1>7, <2>2, <2>3 DEF AuDispatch, auHandlerVars
<1>8. ASSUME NEW h \in AuHandlers, AuConsume(h)
      PROVE  AuditsTypeOK' /\ HandlersHold'
  <2>1. PICK m \in auStream : /\ auStream' = auStream \ {m}
                              /\ auPending' = auPending \cup {m}
                              /\ AuHandle(h, "marks", m)
    BY <1>8 DEF AuConsume
  <2>2. m \in AuMessages
    OBVIOUS
  <2> QED BY <1>8, <2>1, <2>2 DEF AuConsume, AuHandle
<1>9. ASSUME NEW h \in AuHandlers, AuReclaim(h)
      PROVE  AuditsTypeOK' /\ HandlersHold'
  <2>1. PICK m \in auPending : AuHandle(h, "marks", m)
    BY <1>9 DEF AuReclaim
  <2>2. m \in AuMessages
    OBVIOUS
  <2> QED BY <1>9, <2>1, <2>2 DEF AuReclaim, AuHandle, auBrokerVars
<1>10. ASSUME NEW h \in AuHandlers, AuMark(h)
       PROVE  AuditsTypeOK' /\ HandlersHold'
  <2>1. auMsg[h] \in AuMessages /\ auMsg[h].page \in AuPages
    BY <1>10 DEF AuMark, AuMessages
  <2> QED BY <1>10, <2>1 DEF AuMark, AuHandle, AuAck, AuNone
<1>11. ASSUME NEW h \in AuHandlers, AuFinish(h)
       PROVE  AuditsTypeOK' /\ HandlersHold'
  <2>1. PICK verdict \in AuVerdicts : auRow' = AuWritten(auMsg[h].page, verdict)
    BY <1>11 DEF AuFinish
  <2>2. auRow' \in [AuPages -> {"none", "pending", "running"} \cup AuVerdicts]
    BY <2>1 DEF AuWritten
  <2> QED BY <1>11, <2>2 DEF AuFinish, AuHandle, AuAck
<1>12. ASSUME NEW h \in AuHandlers, AuPutOff(h)
       PROVE  AuditsTypeOK' /\ HandlersHold'
  BY <1>12, FaultType DEF AuPutOff, AuHandle, auBrokerVars
<1>13. ASSUME NEW h \in AuHandlers, AuFinishFails(h)
       PROVE  AuditsTypeOK' /\ HandlersHold'
  <2>1. auRow' \in [AuPages -> {"none", "pending", "running"} \cup AuVerdicts]
    BY <1>13 DEF AuFinishFails, AuWritten
  <2> QED BY <1>13, <2>1, FaultType DEF AuFinishFails, AuHandle, auBrokerVars
<1>14. CASE AuCrash
  BY <1>14, FaultType DEF AuCrash, auBrokerVars
<1>15. CASE UNCHANGED auditVars
  BY <1>15 DEF auditVars, auBrokerVars, auHandlerVars
<1> QED BY <1>1, <1>2, <1>3, <1>4, <1>5, <1>6, <1>7, <1>8, <1>9, <1>10, <1>11, <1>12, <1>13,
           <1>14, <1>15 DEF AuditsNext, AuHandlerStep

-----------------------------------------------------------------------------
(* Runs: nothing is lost *)

\* Every step leaves an open audit a place it can be taken up from.
LEMMA LostStep == AuditInv /\ [AuditsNext]_auditVars => AuditNotLost'
<1> SUFFICES ASSUME AuditInv, [AuditsNext]_auditVars, auJob' \in {"running", "completed"}
             PROVE  AuOpen' \subseteq auOutbox' \cup auZset' \cup AuPagesOf(auStream' \cup auPending')
  BY DEF AuditNotLost
<1> USE DEF AuditInv, AuditsTypeOK
<1> DEFINE Kept == auOutbox \cup auZset \cup AuPagesOf(auStream \cup auPending)
<1>a. AuOpen \subseteq Kept \/ auJob \in {"stopping", "stopped"}
  BY DEF AuditNotLost
<1>1. CASE AuComplete
  BY <1>a, <1>1 DEF AuComplete, auBrokerVars, AuOpen
<1>2. CASE AuStop
  BY <1>2 DEF AuStop
<1>3. CASE AuRemoveJobKeys
  BY <1>3 DEF AuRemoveJobKeys
<1>4. CASE AuRefresh
  BY <1>a, <1>4 DEF AuRefresh, auBrokerVars, AuOpen
<1>5. CASE AuSchedule
  <2>1. PICK S \in SUBSET {p \in AuPages : auRow[p] = "none"} :
             /\ auRow' = [p \in AuPages |-> IF p \in S THEN "pending" ELSE auRow[p]]
             /\ auOutbox' = auOutbox \cup S
    BY <1>5 DEF AuSchedule
  <2>2. AuOpen' \subseteq AuOpen \cup S
    BY <2>1 DEF AuOpen
  <2>3. UNCHANGED <<auJob, auZset, auStream, auPending>>
    BY <1>5 DEF AuSchedule
  <2> QED BY <1>a, <2>1, <2>2, <2>3
<1>6. ASSUME NEW p \in AuPages, AuSweep(p)
      PROVE  AuOpen' \subseteq auOutbox' \cup auZset' \cup AuPagesOf(auStream' \cup auPending')
  BY <1>a, <1>6 DEF AuSweep, AuOpen
<1>7. ASSUME NEW p \in AuPages, AuDispatch(p)
      PROVE  AuOpen' \subseteq auOutbox' \cup auZset' \cup AuPagesOf(auStream' \cup auPending')
  <2>1. AuOpen' = AuOpen /\ auOutbox' = auOutbox /\ auZset' = auZset \ {p} /\ auJob' = auJob
    BY <1>7 DEF AuDispatch, AuOpen
  <2>2. auStream' = auStream \cup {[page |-> p, n |-> auSent'[p]]} /\ auPending' = auPending
    BY <1>7 DEF AuDispatch
  <2>3. p \in AuPagesOf(auStream' \cup auPending')
    <3> DEFINE m == [page |-> p, n |-> auSent'[p]]
    <3>1. m \in auStream' \cup auPending' /\ m.page = p
      BY <2>2
    <3> QED BY <3>1 DEF AuPagesOf
  <2>4. AuPagesOf(auStream \cup auPending) \subseteq AuPagesOf(auStream' \cup auPending')
    BY <2>2 DEF AuPagesOf
  <2> QED BY <1>a, <2>1, <2>3, <2>4
<1>8. ASSUME NEW h \in AuHandlers, AuConsume(h)
      PROVE  AuOpen' \subseteq auOutbox' \cup auZset' \cup AuPagesOf(auStream' \cup auPending')
  <2>1. PICK m \in auStream : auStream' = auStream \ {m} /\ auPending' = auPending \cup {m}
    BY <1>8 DEF AuConsume
  <2>2. AuPagesOf(auStream' \cup auPending') = AuPagesOf(auStream \cup auPending)
    BY <2>1, PagesMoved
  <2> QED BY <1>a, <1>8, <2>2 DEF AuConsume, AuOpen
<1>9. ASSUME NEW h \in AuHandlers, AuReclaim(h)
      PROVE  AuOpen' \subseteq auOutbox' \cup auZset' \cup AuPagesOf(auStream' \cup auPending')
  BY <1>a, <1>9 DEF AuReclaim, auBrokerVars, AuOpen
<1>10. ASSUME NEW h \in AuHandlers, AuMark(h)
       PROVE  AuOpen' \subseteq auOutbox' \cup auZset' \cup AuPagesOf(auStream' \cup auPending')
  <2> DEFINE q == auMsg[h].page
  <2>1. q \in AuPages
    BY <1>10 DEF AuMark, HandlersHold, AuMessages
  <2>2. CASE AuMarkable(q)
    <3>1. auRow' = [auRow EXCEPT ![q] = "running"] /\ auPending' = auPending
      BY <1>10, <2>2 DEF AuMark
    <3>2. AuOpen' \subseteq AuOpen
      BY <2>1, <2>2, <3>1 DEF AuMarkable, AuOpen
    <3> QED BY <1>a, <1>10, <3>1, <3>2 DEF AuMark
  <2>3. CASE ~AuMarkable(q)
    <3>1. auRow' = auRow /\ auPending' = auPending \ {auMsg[h]}
      BY <1>10, <2>3 DEF AuMark, AuAck
    <3>2. AuOpen' = AuOpen /\ q \notin AuOpen
      BY <2>3, <3>1 DEF AuMarkable, AuOpen
    <3>3. AuPagesOf(auStream \cup auPending) \subseteq AuPagesOf(auStream \cup auPending') \cup {q}
      BY <3>1 DEF AuPagesOf
    <3> QED BY <1>a, <1>10, <3>1, <3>2, <3>3 DEF AuMark
  <2> QED BY <2>2, <2>3
<1>11. ASSUME NEW h \in AuHandlers, AuFinish(h)
       PROVE  AuOpen' \subseteq auOutbox' \cup auZset' \cup AuPagesOf(auStream' \cup auPending')
  <2> DEFINE q == auMsg[h].page
  <2>1. PICK verdict \in AuVerdicts : auRow' = AuWritten(q, verdict)
    BY <1>11 DEF AuFinish
  <2>2. CASE auRow[q] = "running"
    <3>1. auRow' = [auRow EXCEPT ![q] = verdict] /\ auPending' = auPending \ {auMsg[h]}
      BY <1>11, <2>1, <2>2 DEF AuFinish, AuWritten, AuAck
    <3>2. AuOpen' \subseteq AuOpen \ {q}
      BY <3>1 DEF AuOpen, AuVerdicts
    <3>3. AuPagesOf(auStream \cup auPending) \subseteq AuPagesOf(auStream \cup auPending') \cup {q}
      BY <3>1 DEF AuPagesOf
    <3> QED BY <1>a, <1>11, <3>2, <3>3 DEF AuFinish
  <2>3. CASE auRow[q] # "running"
    BY <1>a, <1>11, <2>1, <2>3 DEF AuFinish, AuWritten, AuOpen
  <2> QED BY <2>2, <2>3
<1>12. ASSUME NEW h \in AuHandlers, AuPutOff(h)
       PROVE  AuOpen' \subseteq auOutbox' \cup auZset' \cup AuPagesOf(auStream' \cup auPending')
  BY <1>a, <1>12 DEF AuPutOff, auBrokerVars, AuOpen
<1>13. ASSUME NEW h \in AuHandlers, AuFinishFails(h)
       PROVE  AuOpen' \subseteq auOutbox' \cup auZset' \cup AuPagesOf(auStream' \cup auPending')
  <2>1. AuOpen' \subseteq AuOpen
    BY <1>13 DEF AuFinishFails, AuWritten, AuOpen, AuVerdicts
  <2> QED BY <1>a, <1>13, <2>1 DEF AuFinishFails, auBrokerVars
<1>14. CASE AuCrash
  BY <1>a, <1>14 DEF AuCrash, auBrokerVars, AuOpen
<1>15. CASE UNCHANGED auditVars
  BY <1>a, <1>15 DEF auditVars, auBrokerVars, AuOpen
<1> QED BY <1>1, <1>2, <1>3, <1>4, <1>5, <1>6, <1>7, <1>8, <1>9, <1>10, <1>11, <1>12, <1>13,
           <1>14, <1>15 DEF AuditsNext, AuHandlerStep

\* Every step keeps the invariant.
LEMMA AuditStep == AuditInv /\ [AuditsNext]_auditVars => AuditInv'
BY AuditTypeStep, LostStep DEF AuditInv

\* The invariant holds of the audits.
LEMMA AuditsKeepInv == AuditsSpec => []AuditInv
BY InitAudits, AuditStep, PTL DEF AuditsSpec

\* Rows, messages and handlers stay within their types, for every set of pages and
\* handlers.
THEOREM AuditsTypeCorrect == AuditsSpec => []AuditsTypeOK
<1>1. AuditInv => AuditsTypeOK
  BY DEF AuditInv
<1> QED BY <1>1, AuditsKeepInv, PTL

\* Sheds, shutdowns, failed or lost writes, crashes and reclaims leave every audit
\* without a verdict in an outbox row, a ZSET entry or a message, until the job is
\* stopped and OnJobTerminated removes its keys.
THEOREM NoAuditLost == AuditsSpec => []AuditNotLost
<1>1. AuditInv => AuditNotLost
  BY DEF AuditInv
<1> QED BY <1>1, AuditsKeepInv, PTL

-----------------------------------------------------------------------------
(* Runs: what a rest leaves behind *)

\* The loops have nothing left to do: the sweeper's outbox is empty and so is the ZSET,
\* if the dispatcher goes through it; the tickers find no job with an open audit, no
\* message, or no idle handler; no handler is at work.
AuAtRest ==
    /\ auOutbox = {} /\ (auActive => auZset = {})
    /\ \/ ~AuListed
       \/ auStream = {} /\ auPending = {}
       \/ \A h \in AuHandlers : auAt[h] # "idle"
    /\ \A h \in AuHandlers : auAt[h] = "idle"

\* What is still open then, of a job nobody stopped, is in the ZSET of a completed job
\* that the dispatcher no longer lists.
StrandedOnlyUnlisted ==
    AuHandlers # {} /\ AuAtRest /\ auJob \in {"running", "completed"} /\ AuOpen # {} =>
        auJob = "completed" /\ ~auActive /\ AuOpen \subseteq auZset

\* A job leaves the list only once it has ended.
UnlistedEnded == ~auActive => auJob # "running"

\* No step ends the listing of a running job, or brings a job back to running.
LEMMA UnlistedStep == AuditInv /\ UnlistedEnded /\ [AuditsNext]_auditVars => UnlistedEnded'
<1> SUFFICES ASSUME UnlistedEnded, [AuditsNext]_auditVars PROVE UnlistedEnded'
  OBVIOUS
<1>1. CASE AuComplete \/ AuStop \/ AuRemoveJobKeys \/ AuRefresh
  BY <1>1 DEF UnlistedEnded, AuComplete, AuStop, AuRemoveJobKeys, AuRefresh
<1>2. CASE UNCHANGED <<auJob, auActive>>
  BY <1>2 DEF UnlistedEnded
<1> QED
  BY <1>1, <1>2 DEF AuditsNext, AuSchedule, AuSweep, AuDispatch, AuConsume, AuReclaim,
     AuHandlerStep, AuMark, AuFinish, AuPutOff, AuFinishFails, AuCrash, auditVars

\* refreshActiveJobs is all that strands an audit: sheds, crashes, reclaims, lost
\* replies and failed commits never bring the services to rest over an audit of a job
\* that runs, nor over one of a completed job that is still on the dispatcher's list.
THEOREM StrandedByTheListAlone == AuditsSpec => []StrandedOnlyUnlisted
<1>1. AuditsInit => UnlistedEnded
  BY DEF AuditsInit, UnlistedEnded
<1>2. AuditInv /\ UnlistedEnded => StrandedOnlyUnlisted
  <2> SUFFICES ASSUME AuditInv, UnlistedEnded, AuHandlers # {}, AuAtRest,
                      auJob \in {"running", "completed"}, AuOpen # {}
               PROVE  auJob = "completed" /\ ~auActive /\ AuOpen \subseteq auZset
    BY DEF StrandedOnlyUnlisted
  <2>1. auOutbox = {} /\ auStream = {} /\ auPending = {}
    BY DEF AuAtRest, AuListed
  <2>2. AuPagesOf(auStream \cup auPending) = {}
    BY <2>1 DEF AuPagesOf
  <2>3. AuOpen \subseteq auZset
    BY <2>1, <2>2 DEF AuditInv, AuditNotLost
  <2>4. ~auActive
    BY <2>3 DEF AuAtRest
  <2> QED BY <2>3, <2>4 DEF UnlistedEnded
<1> QED BY <1>1, <1>2, UnlistedStep, AuditsKeepInv, PTL DEF AuditsSpec

-----------------------------------------------------------------------------
(* Runs: verdicts *)

\* A row that has its verdict is not changed by any step.
LEMMA VerdictStep == AuditInv /\ AuditsNext
                       => \A p \in AuPages : auRow[p] \in AuVerdicts => auRow'[p] = auRow[p]
<1> SUFFICES ASSUME AuditInv, AuditsNext, NEW p \in AuPages, auRow[p] \in AuVerdicts
             PROVE  auRow'[p] = auRow[p]
  OBVIOUS
<1> USE DEF AuditInv, AuditsTypeOK, AuVerdicts
<1>1. CASE AuSchedule
  BY <1>1 DEF AuSchedule
<1>2. ASSUME NEW h \in AuHandlers, AuMark(h) PROVE auRow'[p] = auRow[p]
  BY <1>2 DEF AuMark, AuMarkable, AuOpen
<1>3. ASSUME NEW h \in AuHandlers, AuFinish(h) PROVE auRow'[p] = auRow[p]
  BY <1>3 DEF AuFinish, AuWritten
<1>4. ASSUME NEW h \in AuHandlers, AuFinishFails(h) PROVE auRow'[p] = auRow[p]
  BY <1>4 DEF AuFinishFails, AuWritten
<1>5. CASE AuComplete \/ AuStop \/ AuRemoveJobKeys \/ AuRefresh \/ AuCrash
  BY <1>5 DEF AuComplete, AuStop, AuRemoveJobKeys, AuRefresh, AuCrash
<1>6. ASSUME NEW q \in AuPages, AuSweep(q) \/ AuDispatch(q) PROVE auRow'[p] = auRow[p]
  BY <1>6 DEF AuSweep, AuDispatch
<1>7. ASSUME NEW h \in AuHandlers, AuConsume(h) \/ AuReclaim(h) \/ AuPutOff(h)
      PROVE  auRow'[p] = auRow[p]
  BY <1>7 DEF AuConsume, AuReclaim, AuPutOff
<1> QED BY <1>1, <1>2, <1>3, <1>4, <1>5, <1>6, <1>7 DEF AuditsNext, AuHandlerStep

\* Of two handlers that audit the same page the first writes the verdict; neither
\* the other one nor any later delivery changes it.
THEOREM FirstVerdictStays == AuditsSpec => VerdictFinal
<1>1. AuditInv /\ [AuditsNext]_auditVars
        => [\A p \in AuPages : auRow[p] \in AuVerdicts => auRow'[p] = auRow[p]]_auditVars
  BY VerdictStep
<1> QED BY <1>1, AuditsKeepInv, PTL DEF AuditsSpec, VerdictFinal

-----------------------------------------------------------------------------
(* Audits: the broker, counted *)

AuditsFlow == INSTANCE BrokerFlow
    WITH due <- Cardinality(auZset), unread <- Cardinality(auStream),
         pending <- Cardinality(auPending)

\* There is something to count; the streams hold what was published, and a message is
\* unread or delivered, not both.
AuditsCounted ==
    /\ IsFiniteSet(auZset) /\ IsFiniteSet(auStream) /\ IsFiniteSet(auPending)
    /\ auStream \cap auPending = {}
    /\ \A m \in auStream \cup auPending : m.n =< auSent[m.page]

\* Lengths are numbers.
LEMMA AuditsCountsType ==
    ASSUME AuditsCounted
    PROVE  /\ Cardinality(auZset) \in Nat /\ Cardinality(auStream) \in Nat
           /\ Cardinality(auPending) \in Nat
BY FS_CardinalityType DEF AuditsCounted

\* A dispatched message is newer than all there were of its page.
LEMMA AuditDispatchCounts ==
    ASSUME AuditsTypeOK, AuditsCounted, NEW p \in AuPages, AuDispatch(p)
    PROVE  AuditsCounted' /\ AuditsFlow!Next
<1> PICK new : new = [page |-> p, n |-> auSent[p] + 1]
    OBVIOUS
<1>1. /\ p \in auZset /\ auZset' = auZset \ {p} /\ auPending' = auPending
      /\ auStream' = auStream \cup {new}
      /\ auSent' = [auSent EXCEPT ![p] = auSent[p] + 1]
      /\ auSent[p] \in Nat
    BY DEF AuDispatch, AuditsTypeOK
<1>2. new \notin auStream \cup auPending
    BY <1>1 DEF AuditsCounted
<1>3. IsFiniteSet(auZset') /\ Cardinality(auZset') = Cardinality(auZset) - 1
    BY <1>1, FS_RemoveElement DEF AuditsCounted
<1>4. IsFiniteSet(auStream') /\ Cardinality(auStream') = Cardinality(auStream) + 1
    BY <1>1, <1>2, FS_AddElement DEF AuditsCounted
<1>5. Cardinality(auZset) > 0
    BY <1>1, FS_EmptySet, AuditsCountsType DEF AuditsCounted
<1>6. \A m \in (auStream \cup auPending)' : m.n =< auSent'[m.page]
  <2> SUFFICES ASSUME NEW m \in auStream \cup auPending \cup {new} PROVE m.n =< auSent'[m.page]
    BY <1>1
  <2>1. auSent \in [AuPages -> 0 .. AuMaxSends] /\ auStream \cup auPending \subseteq AuMessages
    BY DEF AuditsTypeOK
  <2>2. CASE m = new
    BY <1>1, <2>1, <2>2
  <2>3. CASE m \in auStream \cup auPending
    <3>1. m.page \in AuPages /\ m.n \in Nat /\ m.n =< auSent[m.page]
        BY <2>1, <2>3 DEF AuMessages, AuditsCounted
    <3>2. auSent[m.page] \in Nat /\ auSent'[m.page] \in {auSent[m.page], auSent[m.page] + 1}
        BY <1>1, <2>1, <3>1
    <3> QED
        BY <3>1, <3>2
  <2> QED
    BY <2>2, <2>3
<1>7. AuditsCounted'
    BY <1>1, <1>2, <1>3, <1>4, <1>6 DEF AuditsCounted
<1>8. /\ Cardinality(auZset)' \in Nat /\ Cardinality(auStream)' \in Nat
      /\ Cardinality(auPending)' \in Nat
    BY <1>7, FS_CardinalityType DEF AuditsCounted
<1> QED
    BY <1>1, <1>3, <1>4, <1>5, <1>7, <1>8 DEF AuditsFlow!Next, AuditsFlow!Publish

\* What is read moves to the pending entries list.
LEMMA AuditConsumeCounts ==
    ASSUME AuditsCounted, NEW h, AuConsume(h)
    PROVE  AuditsCounted' /\ AuditsFlow!Next
<1> PICK m \in auStream : /\ auStream' = auStream \ {m}
                          /\ auPending' = auPending \cup {m}
    BY DEF AuConsume
<1>1. m \notin auPending /\ auZset' = auZset /\ auSent' = auSent
    BY DEF AuditsCounted, AuConsume
<1>2. IsFiniteSet(auStream') /\ Cardinality(auStream') = Cardinality(auStream) - 1
    BY FS_RemoveElement DEF AuditsCounted
<1>3. IsFiniteSet(auPending') /\ Cardinality(auPending') = Cardinality(auPending) + 1
    BY <1>1, FS_AddElement DEF AuditsCounted
<1>4. Cardinality(auStream) > 0
    BY FS_EmptySet, AuditsCountsType DEF AuditsCounted
<1>5. AuditsCounted'
    BY <1>1, <1>2, <1>3 DEF AuditsCounted
<1>6. /\ Cardinality(auZset)' \in Nat /\ Cardinality(auStream)' \in Nat
      /\ Cardinality(auPending)' \in Nat
    BY <1>5, FS_CardinalityType DEF AuditsCounted
<1> QED
    BY <1>1, <1>2, <1>3, <1>4, <1>5, <1>6 DEF AuditsFlow!Next, AuditsFlow!Read

\* An acknowledgement takes at most one message.
LEMMA AuditAckCounts ==
    ASSUME AuditsCounted, NEW m, auPending' = auPending \ {m},
           UNCHANGED <<auZset, auStream, auSent>>
    PROVE  AuditsCounted' /\ AuditsFlow!Next
<1>1. /\ IsFiniteSet(auPending')
      /\ \/ Cardinality(auPending') = Cardinality(auPending)
         \/ /\ Cardinality(auPending) > 0
            /\ Cardinality(auPending') = Cardinality(auPending) - 1
  <2>1. CASE m \in auPending
    <3>1. Cardinality(auPending) # 0
        BY <2>1, FS_EmptySet DEF AuditsCounted
    <3> QED
        BY <2>1, <3>1, AuditsCountsType, FS_RemoveElement DEF AuditsCounted
  <2>2. CASE m \notin auPending
    <3>1. auPending' = auPending
        BY <2>2
    <3> QED
        BY <3>1 DEF AuditsCounted
  <2> QED
    BY <2>1, <2>2
<1>2. AuditsCounted'
    BY <1>1 DEF AuditsCounted
<1>3. /\ Cardinality(auZset)' \in Nat /\ Cardinality(auStream)' \in Nat
      /\ Cardinality(auPending)' \in Nat
    BY <1>2, FS_CardinalityType DEF AuditsCounted
<1> QED
    BY <1>1, <1>2, <1>3, AuditsCountsType DEF AuditsFlow!Next, AuditsFlow!Ack

\* The sweeper schedules, the end of the job empties, and nobody else touches the broker.
LEMMA AuditsFlowStep ==
    AuditsTypeOK /\ AuditsCounted /\ [AuditsNext]_auditVars =>
        /\ AuditsCounted'
        /\ [AuditsFlow!Next]_<<Cardinality(auZset), Cardinality(auStream), Cardinality(auPending)>>
<1> SUFFICES ASSUME AuditsTypeOK, AuditsCounted, [AuditsNext]_auditVars
             PROVE  /\ AuditsCounted'
                    /\ AuditsFlow!Next \/ UNCHANGED <<auZset, auStream, auPending>>
    OBVIOUS
<1> USE DEF auditVars, auBrokerVars
<1>1. CASE UNCHANGED <<auZset, auStream, auPending, auSent>>
    BY <1>1 DEF AuditsCounted
<1>2. ASSUME NEW p \in AuPages, AuSweep(p) PROVE AuditsCounted' /\ AuditsFlow!Next
  <2>1. auZset' = auZset \cup {p} /\ UNCHANGED <<auStream, auPending, auSent>>
    BY <1>2 DEF AuSweep
  <2>2. /\ IsFiniteSet(auZset')
        /\ Cardinality(auZset') \in {Cardinality(auZset), Cardinality(auZset) + 1}
    BY <2>1, FS_AddElement DEF AuditsCounted
  <2>3. AuditsCounted'
    BY <2>1, <2>2 DEF AuditsCounted
  <2>4. /\ Cardinality(auZset)' \in Nat /\ Cardinality(auStream)' \in Nat
        /\ Cardinality(auPending)' \in Nat
    BY <2>3, FS_CardinalityType DEF AuditsCounted
  <2> QED
    BY <2>1, <2>2, <2>3, <2>4, AuditsCountsType DEF AuditsFlow!Next, AuditsFlow!Schedule
<1>3. CASE AuRemoveJobKeys
  <2>1. auZset' = {} /\ auStream' = {} /\ auPending' = {}
    BY <1>3 DEF AuRemoveJobKeys
  <2> QED
    BY <2>1, FS_EmptySet DEF AuditsCounted, AuditsFlow!Next, AuditsFlow!Vanish
<1>4. ASSUME NEW h, AuAck(h), UNCHANGED <<auZset, auStream, auSent>>
      PROVE  AuditsCounted' /\ AuditsFlow!Next
  <2> PICK m : m = auMsg[h]
    OBVIOUS
  <2>1. auPending' = auPending \ {m} /\ UNCHANGED <<auZset, auStream, auSent>>
    BY <1>4 DEF AuAck
  <2> QED
    BY <2>1, AuditAckCounts
<1>5. \/ UNCHANGED <<auZset, auStream, auPending, auSent>>
      \/ \E p \in AuPages : AuSweep(p) \/ AuDispatch(p)
      \/ AuRemoveJobKeys
      \/ \E h : AuConsume(h) \/ (AuAck(h) /\ UNCHANGED <<auZset, auStream, auSent>>)
  <2>1. ASSUME NEW h \in AuHandlers, AuMark(h) \/ AuFinish(h)
        PROVE  UNCHANGED <<auZset, auStream, auSent>> /\ (AuAck(h) \/ UNCHANGED auPending)
    BY <2>1 DEF AuMark, AuFinish
  <2>2. ASSUME NEW h \in AuHandlers, AuReclaim(h) \/ AuPutOff(h) \/ AuFinishFails(h)
        PROVE  UNCHANGED <<auZset, auStream, auPending, auSent>>
    BY <2>2 DEF AuReclaim, AuPutOff, AuFinishFails
  <2>3. ASSUME AuComplete \/ AuStop \/ AuRefresh \/ AuSchedule \/ AuCrash
        PROVE  UNCHANGED <<auZset, auStream, auPending, auSent>>
    BY <2>3 DEF AuComplete, AuStop, AuRefresh, AuSchedule, AuCrash
  <2> QED
    BY <2>1, <2>2, <2>3 DEF AuditsNext, AuHandlerStep
<1> QED
    BY <1>1, <1>2, <1>3, <1>4, <1>5, AuditDispatchCounts, AuditConsumeCounts

\* Audits go through the broker as crawl tasks do: a message of each entry, and none
\* that leaves without its acknowledgement before the job is stopped.
THEOREM AuditsFlowOn == AuditsSpec => AuditsFlow!Spec
<1>1. AuditsInit => AuditsCounted /\ AuditsFlow!Init
    BY FS_EmptySet DEF AuditsInit, AuditsCounted, AuditsFlow!Init
<1> QED
    BY <1>1, AuditsFlowStep, AuditsTypeCorrect, PTL DEF AuditsSpec, AuditsFlow!Spec
=============================================================================
