-------------------------- MODULE JobRecords_proofs --------------------------
(***************************************************************************)
(* Proofs about JobRecords, for every finite set of pages, every set of    *)
(* callers and every max_pages: the types, the counters, the two halves of *)
(* "completed exactly when nothing is open", max_pages, and the            *)
(* refinements of TaskTable and JobLife, with what these two promise: an   *)
(* outbox row only of a task to be crawled, and no way back for a job that *)
(* is over.  Last comes what happens to BlockJob, which skips the open     *)
(* tasks of its job before it looks whether that completed the job.        *)
(***************************************************************************)
EXTENDS JobRecords, FiniteSetTheorems, TLAPS

RowType == [Pages -> {"absent"} \cup Counted]
JobType == [status : Stoppable \cup JobTerminal, total : Nat, n : [Counted -> Nat]]

\* The counters of j are the counts of rows.
Exact(j, rows) == /\ j.total = Cardinality(Pages) - Rows(rows, "absent")
                  /\ \A s \in Counted : j.n[s] = Rows(rows, s)

\* No row appeared or went away.
SameRows(old, new) == \A p \in Pages : old[p] = "absent" <=> new[p] = "absent"

AnyRow(rows)  == \E p \in Pages : rows[p] # "absent"
AnyOpen(rows) == \E p \in Pages : rows[p] \in Open

-----------------------------------------------------------------------------
(* Counting rows *)

\* A count of rows is a number no larger than the number of pages.
LEMMA RowsNat ==
    ASSUME NEW rows, NEW s
    PROVE  /\ Rows(rows, s) \in Nat
           /\ Rows(rows, s) =< Cardinality(Pages)
           /\ Cardinality(Pages) \in Nat
BY PagesAssumption, FS_Subset, FS_CardinalityType DEF Rows

\* It is 0 exactly when no page has that status.
LEMMA RowsZero ==
    ASSUME NEW rows, NEW s
    PROVE  Rows(rows, s) = 0 <=> \A p \in Pages : rows[p] # s
<1> DEFINE S == {p \in Pages : rows[p] = s}
<1>1. IsFiniteSet(S)
    BY PagesAssumption, FS_Subset
<1>2. Cardinality(S) = 0 <=> S = {}
    BY <1>1, FS_EmptySet
<1> QED
    BY <1>2 DEF Rows

\* It only depends on which pages have the status.
LEMMA RowsEqual ==
    ASSUME NEW r1, NEW r2, NEW s, \A p \in Pages : r1[p] = s <=> r2[p] = s
    PROVE  Rows(r1, s) = Rows(r2, s)
<1>1. {p \in Pages : r1[p] = s} = {p \in Pages : r2[p] = s}
    OBVIOUS
<1> QED
    BY <1>1 DEF Rows

\* The counts of all statuses add up to the number of pages.
LEMMA RowsSum ==
    ASSUME NEW rows \in RowType
    PROVE  Cardinality(Pages) = Rows(rows, "absent") + Rows(rows, "pending")
               + Rows(rows, "waiting") + Rows(rows, "completed")
               + Rows(rows, "failed") + Rows(rows, "skipped")
<1> DEFINE R(s) == {p \in Pages : rows[p] = s}
<1>1. ASSUME NEW s PROVE IsFiniteSet(R(s)) /\ Cardinality(R(s)) \in Nat
    BY PagesAssumption, FS_Subset, FS_CardinalityType
<1>2. ASSUME NEW S, NEW T, IsFiniteSet(S), IsFiniteSet(T), S \cap T = {}
      PROVE  IsFiniteSet(S \cup T) /\ Cardinality(S \cup T) = Cardinality(S) + Cardinality(T)
  <2>1. Cardinality(S) \in Nat /\ Cardinality(T) \in Nat /\ Cardinality(S \cap T) = 0
    BY <1>2, FS_CardinalityType, FS_EmptySet
  <2>2. IsFiniteSet(S \cup T)
    BY <1>2, FS_Union
  <2>3. Cardinality(S \cup T) = Cardinality(S) + Cardinality(T) - Cardinality(S \cap T)
    BY <1>2, FS_Union
  <2> QED
    BY <2>1, <2>2, <2>3
<1> DEFINE A == R("absent") \cup R("pending")
           B == R("waiting") \cup R("completed")
           C == R("failed") \cup R("skipped")
<1>3. /\ IsFiniteSet(A) /\ Cardinality(A) = Cardinality(R("absent")) + Cardinality(R("pending"))
      /\ IsFiniteSet(B) /\ Cardinality(B) = Cardinality(R("waiting")) + Cardinality(R("completed"))
      /\ IsFiniteSet(C) /\ Cardinality(C) = Cardinality(R("failed")) + Cardinality(R("skipped"))
  <2>1. R("absent") \cap R("pending") = {} /\ R("waiting") \cap R("completed") = {}
        /\ R("failed") \cap R("skipped") = {}
    OBVIOUS
  <2> HIDE DEF R
  <2>2. IsFiniteSet(A) /\ Cardinality(A) = Cardinality(R("absent")) + Cardinality(R("pending"))
    BY <1>1, <1>2, <2>1
  <2>3. IsFiniteSet(B) /\ Cardinality(B) = Cardinality(R("waiting")) + Cardinality(R("completed"))
    BY <1>1, <1>2, <2>1
  <2>4. IsFiniteSet(C) /\ Cardinality(C) = Cardinality(R("failed")) + Cardinality(R("skipped"))
    BY <1>1, <1>2, <2>1
  <2> QED
    BY <2>2, <2>3, <2>4
<1>4. A \cap B = {} /\ (A \cup B) \cap C = {}
    OBVIOUS
<1>5. IsFiniteSet(A \cup B) /\ Cardinality(A \cup B) = Cardinality(A) + Cardinality(B)
    BY <1>2, <1>3, <1>4
<1>6. Cardinality((A \cup B) \cup C) = Cardinality(A \cup B) + Cardinality(C)
    BY <1>2, <1>3, <1>4, <1>5
<1>7. (A \cup B) \cup C = Pages
    BY DEF RowType, Counted, Open, Done
<1>8. /\ Cardinality(R("absent")) = Rows(rows, "absent")
      /\ Cardinality(R("pending")) = Rows(rows, "pending")
      /\ Cardinality(R("waiting")) = Rows(rows, "waiting")
      /\ Cardinality(R("completed")) = Rows(rows, "completed")
      /\ Cardinality(R("failed")) = Rows(rows, "failed")
      /\ Cardinality(R("skipped")) = Rows(rows, "skipped")
    BY DEF Rows
<1> HIDE DEF A, B, C, R
<1>9. Cardinality(Pages) = (Cardinality(A) + Cardinality(B)) + Cardinality(C)
    BY <1>5, <1>6, <1>7
<1> QED
    BY <1>3, <1>8, <1>9, RowsNat

\* With exact counters the trigger's comparison says that no row is open.
LEMMA ClosedMeansNoOpen ==
    ASSUME NEW rows \in RowType, NEW n, \A s \in Counted : n[s] = Rows(rows, s)
    PROVE  Closed(n) >= Cardinality(Pages) - Rows(rows, "absent") <=> ~AnyOpen(rows)
<1>1. /\ n["completed"] = Rows(rows, "completed")
      /\ n["failed"] = Rows(rows, "failed")
      /\ n["skipped"] = Rows(rows, "skipped")
    BY DEF Counted, Done
<1>2. Rows(rows, "pending") = 0 /\ Rows(rows, "waiting") = 0 <=> ~AnyOpen(rows)
    BY RowsZero DEF AnyOpen, Open
<1> QED
    BY <1>1, <1>2, RowsSum, RowsNat DEF Closed

\* There are rows exactly when not every page is without one.
LEMMA AnyRowCount ==
    ASSUME NEW rows
    PROVE  Cardinality(Pages) - Rows(rows, "absent") > 0 <=> AnyRow(rows)
<1>1. CASE Rows(rows, "absent") = Cardinality(Pages)
  <2>1. {p \in Pages : rows[p] = "absent"} = Pages
    BY <1>1, PagesAssumption, FS_Subset DEF Rows
  <2> QED
    BY <1>1, <2>1, RowsNat DEF AnyRow
<1>2. CASE Rows(rows, "absent") # Cardinality(Pages)
  <2>1. {p \in Pages : rows[p] = "absent"} # Pages
    BY <1>2 DEF Rows
  <2> QED
    BY <1>2, <2>1, RowsNat DEF AnyRow
<1> QED
    BY <1>1, <1>2

\* The pages with a row are the others.
LEMMA PresentCount ==
    ASSUME NEW rows
    PROVE  Cardinality(Pages) - Rows(rows, "absent")
               = Cardinality({p \in Pages : rows[p] # "absent"})
<1> DEFINE A == {p \in Pages : rows[p] = "absent"}
<1>1. Cardinality(Pages \ A) = Cardinality(Pages) - Cardinality(Pages \cap A)
    BY PagesAssumption, FS_Difference
<1>2. Pages \cap A = A /\ Pages \ A = {p \in Pages : rows[p] # "absent"}
    OBVIOUS
<1> QED
    BY <1>1, <1>2 DEF Rows

-----------------------------------------------------------------------------
(* The triggers *)

\* The status trigger keeps exact counters exact, never touches a stopped job, and
\* completes a job exactly when the statement leaves no row open.
LEMMA StatusTriggerKeeps ==
    ASSUME NEW j \in JobType, NEW old \in RowType, NEW new \in RowType,
           Exact(j, old), SameRows(old, new)
    PROVE  LET k == StatusTrigger(j, old, new)
           IN  /\ k \in JobType /\ Exact(k, new) /\ k.total = j.total
               /\ \/ k.status = j.status
                  \/ k.status = "completed" /\ j.status \notin Stopped
                     /\ AnyRow(new) /\ ~AnyOpen(new)
               /\ old # new /\ AnyRow(new) /\ ~AnyOpen(new) => k.status \in JobTerminal
<1>1. CASE old = new
    BY <1>1 DEF StatusTrigger
<1>2. CASE old # new
  <2> DEFINE n == [s \in Counted |-> AtLeast0(j.n[s] + Rows(new, s) - Rows(old, s))]
             complete == j.total > 0 /\ Closed(n) >= j.total
             k == StatusTrigger(j, old, new)
  <2>1. \A s \in Counted : n[s] = Rows(new, s)
    BY RowsNat DEF Exact, AtLeast0
  <2>2. n \in [Counted -> Nat]
    BY <2>1, RowsNat
  <2>3. Rows(old, "absent") = Rows(new, "absent")
    BY RowsEqual DEF SameRows
  <2>4. complete <=> AnyRow(new) /\ ~AnyOpen(new)
    BY <2>1, <2>3, ClosedMeansNoOpen, AnyRowCount DEF Exact
  <2>5. k = [j EXCEPT !.n = n,
                      !.status = IF complete /\ ~Preserved(@) THEN "completed" ELSE @]
    BY <1>2 DEF StatusTrigger
  <2> HIDE DEF n, complete, k
  <2>6. /\ k.n = n /\ k.total = j.total
        /\ k.status = IF complete /\ ~Preserved(j.status) THEN "completed" ELSE j.status
        /\ k \in JobType
    BY <2>2, <2>5 DEF JobType, JobTerminal
  <2>7. Exact(k, new)
    BY <2>1, <2>3, <2>6 DEF Exact
  <2> QED
    BY <1>2, <2>4, <2>6, <2>7 DEF k, Preserved, JobTerminal
<1> QED
    BY <1>1, <1>2

\* Only open rows were added.
OnlyOpenAdded(old, new) ==
    \A p \in Pages : old[p] # new[p] => old[p] = "absent" /\ new[p] \in Open

\* The insert trigger keeps exact counters exact and the status as it is.
LEMMA InsertTriggerKeeps ==
    ASSUME NEW j \in JobType, NEW old \in RowType, NEW new \in RowType,
           Exact(j, old), OnlyOpenAdded(old, new)
    PROVE  LET k == InsertTrigger(j, old, new)
           IN  k \in JobType /\ Exact(k, new) /\ k.status = j.status
<1> DEFINE n == [s \in Counted |-> IF s \in Open
                                   THEN j.n[s] + Rows(new, s) - Rows(old, s) ELSE j.n[s]]
           total == j.total + Rows(old, "absent") - Rows(new, "absent")
           k == InsertTrigger(j, old, new)
<1>1. ASSUME NEW s \in Counted \ Open PROVE Rows(old, s) = Rows(new, s)
  <2>1. \A p \in Pages : old[p] = s <=> new[p] = s
    BY DEF OnlyOpenAdded, Counted, Open, Done
  <2> QED
    BY <2>1, RowsEqual
<1>2. \A s \in Counted : n[s] = Rows(new, s)
    BY <1>1, RowsNat DEF Exact
<1>3. n \in [Counted -> Nat]
    BY <1>2, RowsNat
<1>4. total = Cardinality(Pages) - Rows(new, "absent") /\ total \in Nat
    BY RowsNat DEF Exact
<1>5. k = [j EXCEPT !.total = total, !.n = n]
    BY DEF InsertTrigger, JobType
<1> HIDE DEF n, total, k
<1>6. k.n = n /\ k.total = total /\ k.status = j.status /\ k \in JobType
    BY <1>3, <1>4, <1>5 DEF JobType
<1> QED
    BY <1>2, <1>4, <1>6 DEF k, Exact

-----------------------------------------------------------------------------
(* What a statement does to a job and its rows *)

\* The job j, its rows, and the rows a late retry update re-opened, between two
\* statements of any transaction.
Consistent(j, rows, late) ==
    /\ j \in JobType /\ rows \in RowType /\ Exact(j, rows)
    /\ (\E p \in Pages : rows[p] = "skipped") => j.status \in Stopped
    /\ j.status = "completed" => AnyRow(rows)
    /\ AnyRow(rows) /\ ~AnyOpen(rows) => j.status \in JobTerminal
    /\ j.status = "completed" => \A p \in Pages \ late : rows[p] \notin Open
    /\ MaxPages > 0 => Cardinality(Pages) - Rows(rows, "absent") =< MaxPages

\* An UPDATE that skips nothing, and re-opens no row that was completed or failed
\* but the late ones.
Updates(old, new, late) ==
    /\ SameRows(old, new)
    /\ \A p \in Pages : new[p] = "skipped" => old[p] = "skipped"
    /\ \A p \in Pages \ late : new[p] \in Open => old[p] \notin Done

\* Such an UPDATE and its trigger keep the records consistent.
LEMMA UpdateKeeps ==
    ASSUME NEW j, NEW old, NEW new \in RowType, NEW late,
           Consistent(j, old, late), Updates(old, new, late)
    PROVE  Consistent(StatusTrigger(j, old, new), new, late)
<1> DEFINE k == StatusTrigger(j, old, new)
<1>1. j \in JobType /\ old \in RowType /\ Exact(j, old) /\ SameRows(old, new)
    BY DEF Consistent, Updates
<1>2. /\ k \in JobType /\ Exact(k, new) /\ k.total = j.total
      /\ \/ k.status = j.status
         \/ k.status = "completed" /\ j.status \notin Stopped
            /\ AnyRow(new) /\ ~AnyOpen(new)
      /\ old # new /\ AnyRow(new) /\ ~AnyOpen(new) => k.status \in JobTerminal
    BY <1>1, StatusTriggerKeeps
<1> HIDE DEF k
<1>3. (\E p \in Pages : new[p] = "skipped") => k.status \in Stopped
    BY <1>2 DEF Updates, Consistent, Stopped
<1>4. k.status = "completed" => AnyRow(new)
    BY <1>1, <1>2 DEF Consistent, AnyRow, SameRows
<1>5. AnyRow(new) /\ ~AnyOpen(new) => k.status \in JobTerminal
  <2>1. CASE old = new
    BY <1>2, <2>1 DEF Consistent, JobTerminal
  <2>2. CASE old # new
    BY <1>2, <2>2
  <2> QED
    BY <2>1, <2>2
<1>6. ASSUME k.status = "completed", NEW p \in Pages \ late PROVE new[p] \notin Open
  <2>1. CASE k.status = j.status
    <3>1. old[p] # "skipped" /\ old[p] \notin Open
      BY <1>6, <2>1 DEF Consistent, Stopped
    <3> QED
      BY <1>1, <3>1 DEF Updates, SameRows, RowType, Counted, Open
  <2>2. CASE k.status # j.status
    BY <1>2, <2>2 DEF AnyOpen
  <2> QED
    BY <2>1, <2>2
<1>7. Rows(old, "absent") = Rows(new, "absent")
    BY <1>1, RowsEqual DEF SameRows
<1> QED
    BY <1>2, <1>3, <1>4, <1>5, <1>6, <1>7 DEF Consistent, k

\* So do an INSERT of open rows into a job that is not completed, and its trigger.
LEMMA InsertKeeps ==
    ASSUME NEW j, NEW old, NEW new \in RowType, NEW late,
           Consistent(j, old, late), OnlyOpenAdded(old, new),
           old # new => j.status # "completed",
           MaxPages > 0 => Cardinality(Pages) - Rows(new, "absent") =< MaxPages
    PROVE  Consistent(InsertTrigger(j, old, new), new, late)
<1> DEFINE k == InsertTrigger(j, old, new)
<1>1. j \in JobType /\ old \in RowType /\ Exact(j, old)
    BY DEF Consistent
<1>2. k \in JobType /\ Exact(k, new) /\ k.status = j.status
    BY <1>1, InsertTriggerKeeps
<1> HIDE DEF k
<1>3. (\E p \in Pages : new[p] = "skipped") => k.status \in Stopped
    BY <1>2 DEF Consistent, OnlyOpenAdded, Open
<1>4. CASE old = new
    BY <1>2, <1>4 DEF Consistent, k
<1>5. CASE old # new
  <2>1. AnyOpen(new)
    <3>1. \E p \in Pages : old[p] # new[p]
      BY <1>1, <1>5 DEF RowType
    <3> QED
      BY <3>1 DEF AnyOpen, OnlyOpenAdded
  <2> QED
    BY <1>2, <1>3, <1>5, <2>1 DEF Consistent, k
<1> QED
    BY <1>4, <1>5

\* So does a write of the status alone that stops the job, or moves it among the
\* statuses that can still be stopped.
LEMMA StatusKeeps ==
    ASSUME NEW j, NEW rows, NEW late, Consistent(j, rows, late), NEW s,
           s \in Stopped \/ s = j.status \/ (s \in Stoppable /\ j.status \in Stoppable)
    PROVE  Consistent([j EXCEPT !.status = s], rows, late)
<1> DEFINE k == [j EXCEPT !.status = s]
<1>1. j \in JobType
    BY DEF Consistent
<1>2. k \in JobType /\ k.status = s /\ k.total = j.total /\ k.n = j.n
    BY <1>1 DEF JobType, JobTerminal
<1> HIDE DEF k
<1>3. Exact(k, rows)
    BY <1>2 DEF Consistent, Exact
<1>4. Stoppable \cap JobTerminal = {} /\ Stopped \subseteq JobTerminal /\ "completed" \notin Stopped
    BY DEF Stoppable, Stopped, JobTerminal
<1> QED
    BY <1>2, <1>3, <1>4 DEF Consistent, k, JobTerminal

-----------------------------------------------------------------------------
(* The inductive invariant *)

\* Before discovery nobody writes a row: a task's links need a task.
NoRowBeforeDiscovery == discovery \in Sources => ~AnyRow(task)

\* A row a caller locked does not go away.
PickedHaveRows == \A c \in Callers : picked[c] \subseteq HasRow

\* CountersExact, NoStuckJob, NoOpenRowWhenCompleted and MaxPagesKept depend on
\* each other: the trigger compares counters, so a job completes over an open row
\* unless they are exact, and EnqueueURLs' max_pages arithmetic leaves the skipped
\* rows out, which is sound only because none exists in a job it writes to.
JobsInv == /\ TypeOK
        /\ Consistent(job, task, reopened)
        /\ NoRowBeforeDiscovery /\ PickedHaveRows
        /\ NoSkippedInOutbox

\* It holds before the first row.
LEMMA InitJobs == Init => JobsInv
<1> SUFFICES ASSUME Init PROVE JobsInv
    OBVIOUS
<1>1. \A p \in Pages : task[p] = "absent"
    BY DEF Init
<1>2. ~AnyRow(task) /\ task \in RowType
    BY DEF Init, AnyRow, RowType
<1>3. \A s \in Counted : Rows(task, s) = 0
    BY <1>1, RowsZero DEF Counted, Open, Done
<1>4. Rows(task, "absent") = Cardinality(Pages)
  <2>1. {p \in Pages : task[p] = "absent"} = Pages
    BY <1>1
  <2> QED
    BY <2>1 DEF Rows
<1>5. job \in JobType
    BY DEF Init, JobType, Stoppable
<1>6. Exact(job, task)
    BY <1>3, <1>4, RowsNat DEF Init, Exact
<1>7. Consistent(job, task, reopened)
  <2>1. job.status = "pending"
    BY DEF Init
  <2>2. MaxPages > 0 => Cardinality(Pages) - Rows(task, "absent") =< MaxPages
    BY <1>4, RowsNat, PagesAssumption
  <2> QED
    BY <1>1, <1>2, <1>5, <1>6, <2>1, <2>2 DEF Consistent
<1>8. TypeOK
    BY <1>5 DEF TypeOK, Init, JobType
<1> QED
    BY <1>2, <1>7, <1>8
    DEF JobsInv, Init, NoRowBeforeDiscovery, PickedHaveRows, NoSkippedInOutbox

\* What Consistent says of the types.
LEMMA TypesAgree ==
    ASSUME TypeOK
    PROVE  job \in JobType /\ task \in RowType
BY DEF TypeOK, JobType, RowType

\* Discovery keeps the invariant.
LEMMA DiscoveryKeeps == JobsInv /\ Discovery => JobsInv'
<1> SUFFICES ASSUME JobsInv, Discovery PROVE JobsInv'
    OBVIOUS
<1> USE DEF JobsInv
<1>0. job \in JobType /\ task \in RowType
    BY TypesAgree
<1>1. ASSUME NEW s, job' = [job EXCEPT !.status = s], UNCHANGED <<task, outbox, pc, picked, reopened>>,
             s \in Stopped \/ s = job.status \/ (s \in Stoppable /\ job.status \in Stoppable),
             discovery' \in {"busy", "over"} \/ discovery' = discovery
      PROVE JobsInv'
  <2>1. Consistent(job', task', reopened')
    BY <1>1, StatusKeeps
  <2>2. TypeOK'
    BY <1>1, <2>1 DEF TypeOK, Consistent, JobType
  <2>3. NoRowBeforeDiscovery'
    BY <1>1, PagesAssumption DEF NoRowBeforeDiscovery
  <2> QED
    BY <1>1, <2>1, <2>2, <2>3 DEF PickedHaveRows, NoSkippedInOutbox, HasRow
<1>2. CASE RunWAFPreflight
  <2>1. PICK s \in {"blocked", "failed"} :
           job' = [job EXCEPT !.status = IF job.status \in Stoppable THEN s ELSE job.status]
    BY <1>0, <1>2 DEF RunWAFPreflight, JobType
  <2> QED
    BY <1>1, <1>2, <2>1 DEF RunWAFPreflight, Stopped
<1>3. CASE BeginSitemap
  <2>1. job' = [job EXCEPT !.status = IF job.status = "pending" THEN "initializing" ELSE job.status]
    BY <1>0, <1>3 DEF BeginSitemap, JobType
  <2> QED
    BY <1>1, <1>3, <2>1 DEF BeginSitemap, Stoppable
<1>4. CASE SitemapFails
  <2>1. job' = [job EXCEPT !.status = IF job.status \in {"pending", "initializing"}
                                      THEN "failed" ELSE job.status]
    BY <1>0, <1>4 DEF SitemapFails, JobType
  <2> QED
    BY <1>1, <1>4, <2>1 DEF SitemapFails, Stopped
<1>5. CASE OpenJob
    BY <1>1, <1>5 DEF OpenJob, Stoppable
<1>6. CASE EndSitemap
  <2>1. job' = [job EXCEPT !.status = job.status]
    BY <1>0, <1>6 DEF EndSitemap, JobType
  <2> QED
    BY <1>1, <1>6, <2>1 DEF EndSitemap
<1>7. CASE RefuseRoot
    BY <1>1, <1>7 DEF RefuseRoot, Stopped
<1>8. ASSUME NEW p \in Pages, CreateManualRootTask(p) PROVE JobsInv'
  <2> DEFINE rows == [task EXCEPT ![p] = "pending"]
  <2>1. ~AnyRow(task)
    BY <1>8 DEF CreateManualRootTask, NoRowBeforeDiscovery, TypeOK, AnyRow
  <2>2. \A q \in Pages : task[q] = "absent"
    BY <2>1 DEF AnyRow
  <2>3. rows \in RowType /\ OnlyOpenAdded(task, rows)
    BY <1>0, <2>2 DEF RowType, OnlyOpenAdded, Counted, Open
  <2>4. job.status # "completed"
    BY <2>1 DEF Consistent
  <2>5. MaxPages > 0 => Cardinality(Pages) - Rows(rows, "absent") =< MaxPages
    <3>1. {q \in Pages : rows[q] # "absent"} = {p}
      BY <1>0, <2>2 DEF RowType
    <3>2. Cardinality({q \in Pages : rows[q] # "absent"}) = 1
      BY <3>1, FS_Singleton
    <3> HIDE DEF rows
    <3> QED
      BY <3>2, PresentCount, PagesAssumption
  <2>6. task' = rows /\ job' = InsertTrigger(job, task, rows) /\ reopened' = reopened
        /\ outbox' = outbox \cup {p} /\ discovery' = "over" /\ UNCHANGED <<pc, picked>>
    BY <1>8 DEF CreateManualRootTask
  <2> HIDE DEF rows
  <2>7. Consistent(job', task', reopened')
    BY <2>3, <2>4, <2>5, <2>6, InsertKeeps
  <2>8. TypeOK'
    BY <2>6, <2>7 DEF TypeOK, Consistent, JobType, RowType
  <2>9. NoRowBeforeDiscovery' /\ PickedHaveRows' /\ NoSkippedInOutbox'
    BY <1>0, <2>2, <2>6, PagesAssumption
    DEF rows, NoRowBeforeDiscovery, PickedHaveRows, NoSkippedInOutbox, HasRow, RowType
  <2> QED
    BY <2>7, <2>8, <2>9
<1> QED
    BY <1>2, <1>3, <1>4, <1>5, <1>6, <1>7, <1>8 DEF Discovery

\* EnqueueURLs adds at most as many rows as max_pages has room for: none of the rows
\* of a job it writes to is skipped, so all of them count.
LEMMA RoomIsEnough ==
    ASSUME JobsInv, NEW S \in SUBSET Pages, NEW C, Accepts, Admitted(S, C), MaxPages > 0,
           NEW rows, \A p \in Pages : rows[p] # "absent" => p \in HasRow \cup C
    PROVE  Cardinality(Pages) - Rows(rows, "absent") =< MaxPages
<1> DEFINE N == {p \in Pages : rows[p] # "absent"}
<1>1. Rows(task, "skipped") = 0
  <2>1. \A p \in Pages : task[p] # "skipped"
    BY DEF JobsInv, Consistent, Accepts, JobTerminal
  <2> QED
    BY <2>1, RowsZero
<1>2. job.total = Cardinality(HasRow) /\ job.n["skipped"] = 0
    BY <1>1, PresentCount DEF JobsInv, Consistent, Exact, HasRow, Counted
<1>3. IsFiniteSet(HasRow) /\ IsFiniteSet(C) /\ IsFiniteSet(S)
    BY PagesAssumption, FS_Subset DEF HasRow, Admitted
<1>4. Cardinality(HasRow) \in Nat /\ Cardinality(C) \in Nat /\ Cardinality(S) \in Nat
    BY <1>3, FS_CardinalityType
<1>5. Cardinality(C) =< AtLeast0(MaxPages - Cardinality(HasRow))
    BY <1>2, <1>4, PagesAssumption DEF Admitted, AtLeast0
<1>6. Cardinality(HasRow) =< MaxPages
    BY PresentCount DEF JobsInv, Consistent, HasRow
<1>7. IsFiniteSet(HasRow \cup C) /\ Cardinality(HasRow \cup C) =< Cardinality(HasRow) + Cardinality(C)
  <2>1. Cardinality(HasRow \cap C) \in Nat
    BY <1>3, FS_Intersection, FS_CardinalityType
  <2>2. /\ IsFiniteSet(HasRow \cup C)
        /\ Cardinality(HasRow \cup C) = Cardinality(HasRow) + Cardinality(C) - Cardinality(HasRow \cap C)
    BY <1>3, FS_Union
  <2> QED
    BY <1>4, <2>1, <2>2
<1>8. Cardinality(N) =< Cardinality(HasRow \cup C) /\ Cardinality(N) \in Nat
  <2>1. N \in SUBSET (HasRow \cup C)
    OBVIOUS
  <2>2. IsFiniteSet(N) /\ Cardinality(N) =< Cardinality(HasRow \cup C)
    BY <1>7, <2>1, FS_Subset
  <2> QED
    BY <2>2, FS_CardinalityType
<1>9. Cardinality(HasRow \cup C) \in Nat
    BY <1>7, FS_CardinalityType
<1>10. Cardinality(N) =< MaxPages
    BY <1>4, <1>5, <1>6, <1>7, <1>8, <1>9, PagesAssumption DEF AtLeast0
<1> QED
    BY <1>10, PresentCount

\* The writers of tasks rows keep the invariant.
LEMMA EnqueueKeeps ==
    ASSUME JobsInv, NEW S \in SUBSET Pages, NEW C \in SUBSET S, NEW P \in SUBSET C,
           EnqueueURLs(S, C, P)
    PROVE  JobsInv'
<1> USE DEF JobsInv
<1> DEFINE written  == {p \in C : task[p] \notin Done}
           status   == [p \in Pages |-> IF p \in P THEN "pending" ELSE "waiting"]
           updated  == [p \in Pages |-> IF p \in written \cap HasRow THEN status[p] ELSE task[p]]
           inserted == [p \in Pages |-> IF p \in written THEN status[p] ELSE task[p]]
           j        == StatusTrigger(job, task, updated)
<1>1. /\ discovery = "busy" \/ HasRow # {}
      /\ Accepts /\ Admitted(S, C)
      /\ task' = inserted
      /\ job' = InsertTrigger(j, updated, inserted)
      /\ outbox' = outbox \cup written
      /\ UNCHANGED <<discovery, pc, picked, reopened>>
    BY DEF EnqueueURLs
<1>2. job \in JobType /\ task \in RowType
    BY TypesAgree
<1>3. updated \in RowType /\ inserted \in RowType
    BY <1>2 DEF RowType, Counted, Open
<1>4. Updates(task, updated, reopened)
  <2>1. \A p \in Pages : \/ updated[p] = task[p]
                         \/ task[p] \notin Done \cup {"absent"} /\ updated[p] \in Open
    BY DEF HasRow, Open
  <2> HIDE DEF updated
  <2> QED
    BY <2>1 DEF Updates, SameRows, Open, Done
<1>5. OnlyOpenAdded(updated, inserted)
    BY <1>2 DEF OnlyOpenAdded, HasRow, Open
<1>6. task # updated => AnyOpen(updated)
  <2>1. ASSUME task # updated PROVE \E p \in Pages : task[p] # updated[p]
    BY <1>2, <2>1 DEF RowType
  <2> QED
    BY <2>1 DEF AnyOpen, Open
<1>7. /\ \A p \in written : inserted[p] \in Open
      /\ \A p \in Pages \ written : inserted[p] = task[p]
    BY DEF Open
<1>8. task = updated => j = job
    BY DEF StatusTrigger
<1> HIDE DEF updated, inserted, j
<1>9. j.status # "completed"
  <2>1. \/ j.status = job.status
        \/ ~AnyOpen(updated)
    BY <1>2, <1>3, <1>4, StatusTriggerKeeps DEF Consistent, Updates, j
  <2>2. j.status = job.status \/ task = updated
    BY <1>6, <2>1
  <2> QED
    BY <1>1, <1>8, <2>2 DEF Accepts, JobTerminal
<1>10. Consistent(j, updated, reopened)
    BY <1>3, <1>4, UpdateKeeps DEF j
<1>11. MaxPages > 0 => Cardinality(Pages) - Rows(inserted, "absent") =< MaxPages
  <2>1. \A p \in Pages : inserted[p] # "absent" => p \in HasRow \cup C
    BY <1>7 DEF HasRow
  <2> QED
    BY <1>1, <2>1, RoomIsEnough
<1>12. Consistent(job', task', reopened')
    BY <1>1, <1>3, <1>5, <1>9, <1>10, <1>11, InsertKeeps
<1>13. TypeOK'
    BY <1>1, <1>12 DEF TypeOK, Consistent, JobType, RowType
<1>14. NoRowBeforeDiscovery'
    BY <1>1, PagesAssumption DEF NoRowBeforeDiscovery, AnyRow, HasRow
<1>15. PickedHaveRows' /\ NoSkippedInOutbox'
    BY <1>1, <1>7 DEF PickedHaveRows, NoSkippedInOutbox, HasRow, Open, TypeOK
<1> QED
    BY <1>12, <1>13, <1>14, <1>15

\* One flush: three statements, each followed by its trigger.
LEMMA FlushKeeps ==
    ASSUME JobsInv, NEW D \in SUBSET HasRow, NEW U \in [D -> Done \cup {"waiting"}],
           FlushTaskUpdates(U)
    PROVE  JobsInv'
<1> USE DEF JobsInv
<1> DEFINE Group(rows, g) == [p \in Pages |-> IF p \in DOMAIN U /\ U[p] = g THEN g ELSE rows[p]]
           rows1 == Group(task, "completed")
           rows2 == Group(rows1, "failed")
           rows3 == Group(rows2, "waiting")
           late  == reopened \cup {p \in DOMAIN U : task[p] \in Done /\ U[p] = "waiting"}
           job1  == StatusTrigger(job, task, rows1)
           job2  == StatusTrigger(job1, rows1, rows2)
<1>1. /\ task' = rows3 /\ job' = StatusTrigger(job2, rows2, rows3)
      /\ reopened' = late /\ UNCHANGED <<outbox, discovery, pc, picked>>
    BY DEF FlushTaskUpdates
<1>2. job \in JobType /\ task \in RowType
    BY TypesAgree
<1>3. rows1 \in RowType /\ rows2 \in RowType /\ rows3 \in RowType
    BY <1>2 DEF RowType, Counted, Open, Done
<1>4. \A p \in D : task[p] # "absent" /\ p \in Pages
    BY DEF HasRow
<1>5. DOMAIN U = D
    OBVIOUS
<1>6. /\ Updates(task, rows1, late)
      /\ Updates(rows1, rows2, late)
      /\ Updates(rows2, rows3, late)
    BY <1>4, <1>5 DEF Updates, SameRows, Open, Done
<1>7. \A p \in Pages : rows3[p] = task[p] \/ (p \in D /\ rows3[p] \in Done \cup {"waiting"})
    BY <1>5 DEF Done
<1>8. reopened \subseteq late /\ (TypeOK => late \subseteq Pages)
    BY <1>4, <1>5 DEF TypeOK
<1> HIDE DEF rows1, rows2, rows3, late
<1>9. Consistent(job, task, late)
    BY <1>8 DEF Consistent
<1>10. Consistent(job1, rows1, late)
    BY <1>3, <1>6, <1>9, UpdateKeeps
<1>11. Consistent(job2, rows2, late)
    BY <1>3, <1>6, <1>10, UpdateKeeps
<1>12. Consistent(job', task', reopened')
    BY <1>1, <1>3, <1>6, <1>11, UpdateKeeps
<1>13. TypeOK'
    BY <1>1, <1>8, <1>12 DEF TypeOK, Consistent, JobType, RowType
<1>14. NoRowBeforeDiscovery'
    BY <1>1, <1>4, <1>7 DEF NoRowBeforeDiscovery, AnyRow
<1>15. PickedHaveRows' /\ NoSkippedInOutbox'
    BY <1>1, <1>4, <1>7 DEF PickedHaveRows, NoSkippedInOutbox, HasRow, Done, TypeOK
<1> QED
    BY <1>12, <1>13, <1>14, <1>15

\* The other writers: promotion, the sweeper, the dispatcher's first publish.
LEMMA WriteKeeps == JobsInv /\ Write => JobsInv'
<1> SUFFICES ASSUME JobsInv, Write PROVE JobsInv'
    OBVIOUS
<1>1. ASSUME NEW p \in Pages, PromoteWaitingToPending(p) PROVE JobsInv'
  <2> USE DEF JobsInv
  <2> DEFINE rows == [task EXCEPT ![p] = "pending"]
  <2>1. job \in JobType /\ task \in RowType
    BY TypesAgree
  <2>2. /\ task[p] = "waiting" /\ task' = rows /\ job' = StatusTrigger(job, task, rows)
        /\ outbox' = outbox \cup {p} /\ UNCHANGED <<discovery, pc, picked, reopened>>
    BY <1>1 DEF PromoteWaitingToPending
  <2>3. rows \in RowType /\ \A q \in Pages : rows[q] = IF q = p THEN "pending" ELSE task[q]
    BY <2>1 DEF RowType, Counted, Open
  <2> HIDE DEF rows
  <2>4. Updates(task, rows, reopened)
    BY <2>2, <2>3 DEF Updates, SameRows, Open, Done
  <2>5. Consistent(job', task', reopened')
    BY <2>2, <2>3, <2>4, UpdateKeeps
  <2>6. TypeOK'
    BY <2>2, <2>5 DEF TypeOK, Consistent, JobType, RowType
  <2>7. NoRowBeforeDiscovery' /\ PickedHaveRows' /\ NoSkippedInOutbox'
    BY <2>2, <2>3 DEF NoRowBeforeDiscovery, PickedHaveRows, NoSkippedInOutbox, HasRow, AnyRow, TypeOK
  <2> QED
    BY <2>5, <2>6, <2>7
<1>2. ASSUME NEW S \in SUBSET outbox, SweeperTick(S) PROVE JobsInv'
    BY <1>2 DEF JobsInv, TypeOK, SweeperTick, NoRowBeforeDiscovery, PickedHaveRows,
       NoSkippedInOutbox, HasRow
<1>3. CASE MarkJobRunning
  <2>1. Consistent(job', task', reopened')
    BY <1>3, StatusKeeps DEF JobsInv, MarkJobRunning, Stoppable
  <2> QED
    BY <1>3, <2>1 DEF JobsInv, TypeOK, Consistent, JobType, MarkJobRunning, NoRowBeforeDiscovery,
       PickedHaveRows, NoSkippedInOutbox, HasRow
<1> QED
    BY <1>1, <1>2, <1>3, EnqueueKeeps, FlushKeeps DEF Write

\* The commit of CancelJob or BlockJob: the trigger runs first, and may complete the
\* job, and the status is written over it.
LEMMA CommitKeeps ==
    ASSUME JobsInv, NEW c \in Callers, NEW s \in Stopped, Commit(c, s)
    PROVE  JobsInv'
<1> USE DEF JobsInv
<1> DEFINE rows == Skipped(c)
           k    == AfterSkip(c)
<1>1. job \in JobType /\ task \in RowType
    BY TypesAgree
<1>2. /\ task' = rows /\ job' = [k EXCEPT !.status = s] /\ outbox' = {}
      /\ pc' = [pc EXCEPT ![c] = "done"] /\ picked' = [picked EXCEPT ![c] = {}]
      /\ UNCHANGED <<discovery, reopened>>
    BY DEF Commit
<1>3. /\ rows \in RowType
      /\ \A p \in Pages : rows[p] = IF p \in picked[c] THEN "skipped" ELSE task[p]
    BY <1>1 DEF Skipped, RowType, Counted
<1>4. \A p \in picked[c] : task[p] # "absent"
    BY DEF PickedHaveRows, HasRow
<1> HIDE DEF rows, k
<1>5. SameRows(task, rows)
    BY <1>3, <1>4 DEF SameRows
<1>6. k \in JobType /\ Exact(k, rows)
    BY <1>1, <1>3, <1>5, StatusTriggerKeeps DEF Consistent, AfterSkip, rows, k
<1>7. job' \in JobType /\ job'.status = s /\ Exact(job', rows)
    BY <1>2, <1>6 DEF JobType, JobTerminal, Exact
<1>8. Rows(task, "absent") = Rows(rows, "absent")
    BY <1>5, RowsEqual DEF SameRows
<1>9. Consistent(job', task', reopened')
    BY <1>2, <1>3, <1>7, <1>8 DEF Consistent, Stopped, JobTerminal
<1>10. TypeOK'
    BY <1>2, <1>9 DEF TypeOK, Consistent, JobType, RowType
<1>11. NoRowBeforeDiscovery' /\ NoSkippedInOutbox'
    BY <1>2, <1>5 DEF NoRowBeforeDiscovery, NoSkippedInOutbox, AnyRow, SameRows
<1>12. PickedHaveRows'
    BY <1>2, <1>5 DEF TypeOK, PickedHaveRows, HasRow, SameRows
<1> QED
    BY <1>9, <1>10, <1>11, <1>12

\* CancelJob and BlockJob keep the invariant.
LEMMA StopKeeps ==
    ASSUME JobsInv, NEW c \in Callers, Stop(c)
    PROVE  JobsInv'
<1>1. ASSUME UNCHANGED <<task, job, outbox, discovery, reopened>>,
             pc' \in [Callers -> {"idle", "read", "picked", "done", "lost", "refused"}],
             picked' \in [Callers -> SUBSET Pages],
             \A d \in Callers : picked'[d] \subseteq HasRow
      PROVE  JobsInv'
    BY <1>1 DEF JobsInv, TypeOK, NoRowBeforeDiscovery, PickedHaveRows, NoSkippedInOutbox, HasRow
<1>2. CASE GetJob(c)
    BY <1>1, <1>2 DEF GetJob, JobsInv, TypeOK, PickedHaveRows
<1>3. CASE SkipOpenTasks(c)
    BY <1>1, <1>3 DEF SkipOpenTasks, JobsInv, TypeOK, PickedHaveRows, HasRow, Open
<1>4. CASE CancelJob(c)
    BY <1>4, CommitKeeps DEF CancelJob, Stopped
<1>5. CASE BlockJob(c)
    BY <1>5, CommitKeeps DEF BlockJob, Stopped
<1>6. CASE BlockJobLost(c)
    BY <1>1, <1>6 DEF BlockJobLost, JobsInv, TypeOK, PickedHaveRows
<1>7. CASE TransactionFails(c)
    BY <1>1, <1>7 DEF TransactionFails, JobsInv, TypeOK, PickedHaveRows
<1> QED
    BY <1>2, <1>3, <1>4, <1>5, <1>6, <1>7 DEF Stop

-----------------------------------------------------------------------------
(* Theorems *)

\* Every step keeps the invariant.
LEMMA StepIInv == JobsInv /\ [Next]_vars => JobsInv'
<1>1. JobsInv /\ UNCHANGED vars => JobsInv'
  <2> SUFFICES ASSUME JobsInv, UNCHANGED vars PROVE JobsInv'
    OBVIOUS
  <2>1. TypeOK' /\ Consistent(job', task', reopened')
    BY DEF JobsInv, TypeOK, vars
  <2> QED
    BY <2>1 DEF JobsInv, vars, NoRowBeforeDiscovery, PickedHaveRows, NoSkippedInOutbox, HasRow
<1> QED
    BY <1>1, DiscoveryKeeps, WriteKeeps, StopKeeps DEF Next

\* Every statement of EnqueueURLs, of a flush, of CancelJob, BlockJob and discovery,
\* followed by its trigger, leaves the job and its rows consistent, in any order.
THEOREM JobsKeepInv == Spec => []JobsInv
BY InitJobs, StepIInv, PTL DEF Spec

\* Every reachable state is well-typed; so no counter underflows.
THEOREM JobsTypeCorrect == Spec => []TypeOK
BY JobsKeepInv, PTL DEF JobsInv

\* The counters that the triggers keep are the counts of the rows, for any number
\* of pages and callers.
THEOREM CountersAreExact == Spec => []CountersExact
<1>1. JobsInv => CountersExact
    BY PresentCount DEF JobsInv, Consistent, Exact, CountersExact, HasRow
<1> QED
    BY <1>1, JobsKeepInv, PTL

\* A job none of whose rows is open is terminal: nothing is left for a periodic
\* completion check.
THEOREM NoJobIsStuck == Spec => []NoStuckJob
<1>1. JobsInv => NoStuckJob
    BY DEF JobsInv, Consistent, NoStuckJob, AnyRow, AnyOpen, HasRow
<1> QED
    BY <1>1, JobsKeepInv, PTL

\* A completed job has no open row, but for a late retry update.
THEOREM CompletedMeansDone == Spec => []NoOpenRowWhenCompleted
<1>1. JobsInv => NoOpenRowWhenCompleted
    BY DEF JobsInv, Consistent, NoOpenRowWhenCompleted
<1> QED
    BY <1>1, JobsKeepInv, PTL

\* Concurrent EnqueueURLs calls do not pass max_pages.
THEOREM MaxPagesHolds == Spec => []MaxPagesKept
<1>1. JobsInv => MaxPagesKept
  <2> SUFFICES ASSUME JobsInv, MaxPages > 0
               PROVE  Cardinality({p \in HasRow : task[p] # "skipped"}) =< MaxPages
    BY DEF MaxPagesKept
  <2>1. IsFiniteSet(HasRow) /\ Cardinality(HasRow) =< MaxPages
    BY PagesAssumption, FS_Subset, PresentCount DEF JobsInv, Consistent, HasRow
  <2>2. Cardinality({p \in HasRow : task[p] # "skipped"}) =< Cardinality(HasRow)
    BY <2>1, FS_Subset
  <2>3. Cardinality({p \in HasRow : task[p] # "skipped"}) \in Nat /\ Cardinality(HasRow) \in Nat
    BY <2>1, FS_Subset, FS_CardinalityType
  <2> QED
    BY <2>1, <2>2, <2>3, PagesAssumption
<1> QED
    BY <1>1, JobsKeepInv, PTL

\* CancelJob and BlockJob leave no outbox row of a task they skipped.
THEOREM NoSkippedTaskInOutbox == Spec => []NoSkippedInOutbox
BY JobsKeepInv, PTL DEF JobsInv

-----------------------------------------------------------------------------
(* The tables this module shares with TaskDelivery *)

\* What the row locks give a caller between its two steps: the rows it picked are
\* still open, and nobody else picked one of them.
LocksHold ==
    /\ \A c \in Callers : /\ \A p \in picked[c] : task[p] \in Open
                          /\ pc[c] # "picked" => picked[c] = {}
    /\ \A c, d \in Callers : c # d => picked[c] \cap picked[d] = {}

\* A picked row is locked, and no other is.
LEMMA PickedIsLocked == LocksHold => Locked = UNION {picked[c] : c \in Callers}
BY DEF LocksHold, Locked

\* A writer that keeps off the locked rows leaves them open.
LEMMA OthersKeepLocks ==
    ASSUME LocksHold, UNCHANGED <<pc, picked>>,
           \A p \in Pages : task'[p] = task[p] \/ task'[p] \in Open \/ p \notin Locked,
           \A c \in Callers : picked[c] \subseteq Pages
    PROVE  LocksHold'
BY PickedIsLocked DEF LocksHold

\* No step takes a row from under the caller that picked it.
LEMMA LocksStep == JobsInv /\ LocksHold /\ [Next]_vars => LocksHold'
<1> SUFFICES ASSUME JobsInv, LocksHold, [Next]_vars PROVE LocksHold'
    OBVIOUS
<1>a. \A c \in Callers : picked[c] \subseteq Pages
    BY DEF JobsInv, TypeOK
<1>b. /\ task \in [Pages -> {"absent"} \cup Counted]
      /\ pc \in [Callers -> {"idle", "read", "picked", "done", "lost", "refused"}]
      /\ picked \in [Callers -> SUBSET Pages]
    BY DEF JobsInv, TypeOK
<1>1. CASE UNCHANGED <<task, pc, picked>>
    BY <1>1 DEF LocksHold
<1>2. ASSUME NEW p \in Pages, CreateManualRootTask(p) PROVE LocksHold'
    BY <1>2, <1>a, <1>b, OthersKeepLocks DEF CreateManualRootTask, Open
<1>3. ASSUME NEW S \in SUBSET Pages, NEW C \in SUBSET S, NEW P \in SUBSET C, EnqueueURLs(S, C, P)
      PROVE  LocksHold'
    BY <1>3, <1>a, <1>b, OthersKeepLocks DEF EnqueueURLs, Open
<1>4. ASSUME NEW D \in SUBSET HasRow, NEW U \in [D -> Done \cup {"waiting"}], FlushTaskUpdates(U)
      PROVE  LocksHold'
  <2>1. \A p \in Pages : p \notin D => task'[p] = task[p]
    BY <1>4, <1>b DEF FlushTaskUpdates
  <2>2. D \cap Locked = {} /\ UNCHANGED <<pc, picked>>
    BY <1>4 DEF FlushTaskUpdates
  <2> QED
    BY <2>1, <2>2, <1>a, OthersKeepLocks
<1>5. ASSUME NEW p \in Pages, PromoteWaitingToPending(p) PROVE LocksHold'
    BY <1>5, <1>a, <1>b, OthersKeepLocks DEF PromoteWaitingToPending, Open
<1>6. ASSUME NEW c \in Callers, GetJob(c) PROVE LocksHold'
    BY <1>6, <1>b DEF GetJob, LocksHold
<1>7. ASSUME NEW c \in Callers, SkipOpenTasks(c) PROVE LocksHold'
  <2> DEFINE open == {p \in Pages : task[p] \in Open}
  <2>1. /\ picked' = [picked EXCEPT ![c] = open] /\ pc' = [pc EXCEPT ![c] = "picked"]
        /\ UNCHANGED task /\ open \cap Locked = {}
    BY <1>7 DEF SkipOpenTasks
  <2>2. \A d \in Callers : open \cap picked[d] = {}
    BY <2>1, PickedIsLocked
  <2> QED
    BY <2>1, <2>2, <1>b DEF LocksHold
<1>8. ASSUME NEW c \in Callers, NEW s, pc[c] = "picked", Commit(c, s) PROVE LocksHold'
  <2>1. /\ picked' = [picked EXCEPT ![c] = {}] /\ pc' = [pc EXCEPT ![c] = "done"]
        /\ task' = [p \in Pages |-> IF p \in picked[c] THEN "skipped" ELSE task[p]]
    BY <1>8 DEF Commit, Skipped
  <2> QED
    BY <2>1, <1>a, <1>b DEF LocksHold
<1>9. ASSUME NEW c \in Callers, BlockJobLost(c) \/ TransactionFails(c) PROVE LocksHold'
  <2>1. /\ picked' = [picked EXCEPT ![c] = {}] /\ UNCHANGED task
        /\ \E to \in {"lost", "read", "refused"} : pc' = [pc EXCEPT ![c] = to]
    BY <1>9 DEF BlockJobLost, TransactionFails
  <2> QED
    BY <2>1, <1>b DEF LocksHold
<1>10. CASE Discovery
    BY <1>1, <1>2, <1>10 DEF Discovery, RunWAFPreflight, BeginSitemap, SitemapFails, OpenJob,
       EndSitemap, RefuseRoot
<1>11. CASE Write
    BY <1>1, <1>3, <1>4, <1>5, <1>11 DEF Write, SweeperTick, MarkJobRunning
<1>12. ASSUME NEW c \in Callers, Stop(c) PROVE LocksHold'
    BY <1>6, <1>7, <1>8, <1>9, <1>12 DEF Stop, CancelJob, BlockJob
<1> QED
    BY <1>1, <1>10, <1>11, <1>12 DEF Next, vars

\* EnqueueURLs offers the rows it writes: none of them was skipped, because a job
\* with a skipped row is one that was stopped.
LEMMA EnqueueOffers ==
    ASSUME JobsInv, JobsInv', NEW S \in SUBSET Pages, NEW C \in SUBSET S, NEW P \in SUBSET C,
           EnqueueURLs(S, C, P)
    PROVE  \E W \in SUBSET Pages : Table!Offer(W)
<1> DEFINE W == {p \in C : task[p] \notin Done}
<1>1. /\ task' = [p \in Pages |-> IF p \in W THEN IF p \in P THEN "pending" ELSE "waiting"
                                             ELSE task[p]]
      /\ outbox' = outbox \cup W
    BY DEF EnqueueURLs
<1>2. \A p \in Pages : task[p] # "skipped"
    BY DEF EnqueueURLs, Accepts, JobTerminal, JobsInv, Consistent
<1>3. \A p \in W : task[p] \in {"absent"} \cup Open
    BY <1>2 DEF JobsInv, TypeOK, Counted
<1>4. Table!Write(W, Open)
    BY <1>1 DEF Table!Write, Table!Open, Table!Done, Open, Done, Counted, JobsInv, TypeOK
<1> QED
    BY <1>1, <1>3, <1>4 DEF Table!Offer, Table!Open, Open

\* A flush reports on the rows of its updates.
LEMMA FlushReports ==
    ASSUME JobsInv, JobsInv', NEW D \in SUBSET HasRow, NEW U \in [D -> Done \cup {"waiting"}],
           FlushTaskUpdates(U)
    PROVE  D \in SUBSET Pages /\ Table!Report(D)
<1>1. D \in SUBSET Pages /\ \A p \in D : task[p] # "absent"
    BY DEF HasRow
<1>2. \A p \in Pages : task'[p] = IF p \in D THEN U[p] ELSE task[p]
    BY <1>1 DEF FlushTaskUpdates, JobsInv, TypeOK, Done
<1>3. task' \in [Pages -> {"absent"} \cup Counted] /\ UNCHANGED outbox
    BY DEF FlushTaskUpdates, JobsInv, TypeOK
<1> QED
    BY <1>1, <1>2, <1>3 DEF Table!Report, Table!Write, Table!Open, Table!Done, Open, Done, Counted

\* Every step on the records is one of the shared tables, or leaves them alone.
LEMMA StepTable ==
    JobsInv /\ JobsInv' /\ LocksHold /\ [Next]_vars => [Table!Next]_<<task, outbox>>
<1> SUFFICES ASSUME JobsInv, JobsInv', LocksHold, [Next]_vars
             PROVE  UNCHANGED <<task, outbox>> \/ Table!Next
    OBVIOUS
<1> USE DEF Table!Next
<1>a. task' \in [Pages -> {"absent"} \cup Counted] /\ task \in [Pages -> {"absent"} \cup Counted]
    BY DEF JobsInv, TypeOK
<1>1. ASSUME NEW p \in Pages, CreateManualRootTask(p) PROVE Table!Offer({p})
  <2>1. task[p] = "absent"
    BY <1>1 DEF CreateManualRootTask, JobsInv, TypeOK, NoRowBeforeDiscovery, AnyRow
  <2> QED
    BY <1>1, <1>a, <2>1 DEF CreateManualRootTask, Table!Offer, Table!Write, Table!Open,
       Table!Done, Counted, Open, Done
<1>2. ASSUME NEW p \in Pages, PromoteWaitingToPending(p) PROVE Table!Offer({p})
    BY <1>2, <1>a DEF PromoteWaitingToPending, Table!Offer, Table!Write, Table!Open,
       Table!Done, Counted, Open, Done
<1>3. ASSUME NEW S \in SUBSET outbox, SweeperTick(S) PROVE S \in SUBSET Pages /\ Table!Sweep(S)
    BY <1>3 DEF SweeperTick, Table!Sweep, JobsInv, TypeOK
<1>4. ASSUME NEW c \in Callers, NEW s, Commit(c, s)
      PROVE  picked[c] \in SUBSET Pages /\ Table!Skip(picked[c])
  <2>1. picked[c] \in SUBSET Pages /\ \A p \in picked[c] : task[p] \in Open
    BY DEF JobsInv, TypeOK, LocksHold
  <2> QED
    BY <1>4, <1>a, <2>1 DEF Commit, Skipped, Table!Skip, Table!Write, Table!Open, Table!Done,
       Counted, Open, Done
<1>5. CASE Discovery
    BY <1>1, <1>5 DEF Discovery, RunWAFPreflight, BeginSitemap, SitemapFails, OpenJob, EndSitemap,
       RefuseRoot
<1>6. CASE Write
  <2>1. ASSUME NEW S \in SUBSET Pages, NEW C \in SUBSET S, NEW P \in SUBSET C,
               EnqueueURLs(S, C, P)
        PROVE  Table!Next
    BY <2>1, EnqueueOffers
  <2>2. ASSUME NEW D \in SUBSET HasRow, NEW U \in [D -> Done \cup {"waiting"}],
               FlushTaskUpdates(U)
        PROVE  Table!Next
    BY <2>2, FlushReports
  <2>3. ASSUME NEW p \in Pages, PromoteWaitingToPending(p) PROVE Table!Next
    BY <1>2, <2>3
  <2>4. ASSUME NEW S \in SUBSET outbox, SweeperTick(S) PROVE Table!Next
    BY <1>3, <2>4
  <2> QED
    BY <1>6, <2>1, <2>2, <2>3, <2>4 DEF Write, MarkJobRunning
<1>7. ASSUME NEW c \in Callers, Stop(c) PROVE UNCHANGED <<task, outbox>> \/ Table!Next
    BY <1>4, <1>7 DEF Stop, GetJob, SkipOpenTasks, CancelJob, BlockJob, BlockJobLost,
       TransactionFails
<1> QED
    BY <1>5, <1>6, <1>7 DEF Next, vars

\* The records stay within what TaskDelivery takes for granted of them: nothing but a
\* report moves a row that was reported on or skipped, and a commit of CancelJob or
\* BlockJob skips rows that are open.
THEOREM RecordsKeepTable == Spec => TableKept
<1>1. Init => Table!Init /\ LocksHold
    BY DEF Init, Table!Init, LocksHold
<1> QED
    BY <1>1, StepTable, LocksStep, JobsKeepInv, PTL DEF Spec, TableKept, Table!Spec

\* The sweeper schedules no task without a row and none that was skipped: what the
\* tables promise is enough for that, whoever writes to them.
THEOREM OutboxStaysLive == Spec => []Table!OutboxIsLive
<1>1. Table!Init => Table!OutboxIsLive
    BY DEF Table!Init, Table!OutboxIsLive
<1>2. TypeOK /\ Table!OutboxIsLive /\ [Table!Next]_<<task, outbox>> => Table!OutboxIsLive'
  <2> SUFFICES ASSUME TypeOK, Table!OutboxIsLive, [Table!Next]_<<task, outbox>>
               PROVE  Table!OutboxIsLive'
    OBVIOUS
  <2> QED
    BY DEF TypeOK, Table!Next, Table!Offer, Table!Sweep, Table!Report, Table!Skip, Table!Write,
       Table!Open, Table!Done, Table!OutboxIsLive
<1> QED
    BY <1>1, <1>2, RecordsKeepTable, JobsTypeCorrect, PTL DEF TableKept, Table!Spec

-----------------------------------------------------------------------------
(* The life of a job *)

\* Before discovery the only writers of the status are calls of CancelJob: a blocker
\* needs a crawled page.
QuietStart ==
    discovery \in Sources => /\ job.status \in {"pending", "cancelled"}
                             /\ \A c \in Blockers : pc[c] = "idle"

\* The dispatcher found a task to publish.
RunningHasRows == job.status = "running" => AnyRow(task)

\* The trigger keeps a status or completes a job that nobody stopped.
LEMMA TriggerCompletes ==
    ASSUME NEW j \in JobType, NEW old, NEW new
    PROVE  LET k == StatusTrigger(j, old, new)
           IN  /\ k \in JobType
               /\ \/ k.status = j.status
                  \/ k.status = "completed" /\ j.status \notin Stopped
<1> DEFINE n == [s \in Counted |-> AtLeast0(j.n[s] + Rows(new, s) - Rows(old, s))]
           complete == j.total > 0 /\ Closed(n) >= j.total
<1>1. n \in [Counted -> Nat]
    BY RowsNat DEF JobType, AtLeast0
<1>2. StatusTrigger(j, old, new) = IF old = new THEN j
          ELSE [j EXCEPT !.n = n,
                         !.status = IF complete /\ ~Preserved(@) THEN "completed" ELSE @]
    BY DEF StatusTrigger
<1> HIDE DEF n, complete
<1> QED
    BY <1>1, <1>2 DEF JobType, Preserved, JobTerminal

\* A row that exists goes on to exist.
LEMMA RowsStay ==
    ASSUME TypeOK, [Table!Next]_<<task, outbox>>, AnyRow(task)
    PROVE  AnyRow(task')
BY DEF TypeOK, AnyRow, Table!Next, Table!Offer, Table!Sweep, Table!Report, Table!Skip,
   Table!Write, Table!Open, Table!Done

\* The status follows JobLife, and what that takes is kept.
LEMMA LifeStep ==
    JobsInv /\ LocksHold /\ QuietStart /\ RunningHasRows /\ [Table!Next]_<<task, outbox>>
        /\ [Next]_vars
    => QuietStart' /\ RunningHasRows' /\ [Life!Next]_(job.status)
<1> SUFFICES ASSUME JobsInv, LocksHold, QuietStart, RunningHasRows,
                    [Table!Next]_<<task, outbox>>, [Next]_vars
             PROVE  QuietStart' /\ RunningHasRows' /\ [Life!Next]_(job.status)
    OBVIOUS
<1> USE DEF Life!Next, Life!Discover, Life!Run, Life!Fail, Life!Complete, Life!Block, Life!Cancel,
            Life!Waits, Life!Ends
<1>a. job \in JobType /\ Sources \subseteq {"sitemap", "manual"}
    BY TypesAgree, PagesAssumption DEF JobsInv
<1>b. AnyRow(task) => AnyRow(task')
    BY RowsStay DEF JobsInv
<1>c. AnyRow(task) => discovery \notin Sources
    BY DEF JobsInv, NoRowBeforeDiscovery
<1>d. HasRow # {} <=> AnyRow(task)
    BY DEF HasRow, AnyRow
<1>e. pc \in [Callers -> {"idle", "read", "picked", "done", "lost", "refused"}]
    BY DEF JobsInv, TypeOK
<1>1. CASE UNCHANGED <<job, discovery, pc>>
    BY <1>1, <1>b DEF QuietStart, RunningHasRows
<1>2. CASE Discovery
  <2>1. discovery' \notin Sources
    BY <1>2, <1>a DEF Discovery, RunWAFPreflight, BeginSitemap, SitemapFails, OpenJob, EndSitemap,
       RefuseRoot, CreateManualRootTask
  <2>2. job'.status # "running" \/ job'.status = job.status
    BY <1>2, <1>a DEF Discovery, RunWAFPreflight, BeginSitemap, SitemapFails, OpenJob, EndSitemap,
       RefuseRoot, CreateManualRootTask, InsertTrigger, JobType
  <2>3. [Life!Next]_(job.status)
    <3>1. CASE RunWAFPreflight
      BY <3>1, <1>a DEF RunWAFPreflight, QuietStart, JobType, Stoppable
    <3>2. CASE RefuseRoot
      BY <3>2, <1>a DEF RefuseRoot, QuietStart, JobType, NoRowBeforeDiscovery, JobsInv, TypeOK
    <3> QED
      BY <1>2, <1>a, <3>1, <3>2 DEF Discovery, BeginSitemap, SitemapFails, OpenJob, EndSitemap,
         CreateManualRootTask, InsertTrigger, JobType
  <2> QED
    BY <2>1, <2>2, <2>3, <1>b DEF QuietStart, RunningHasRows
<1>3. ASSUME discovery \notin Sources, UNCHANGED <<discovery, pc>>,
             \/ job'.status = job.status
             \/ job'.status = "completed" /\ job.status \notin Stopped
      PROVE  QuietStart' /\ RunningHasRows' /\ [Life!Next]_(job.status)
    BY <1>3, <1>a, <1>b DEF QuietStart, RunningHasRows, JobType, Stopped, JobTerminal, Stoppable
<1>4. CASE Write
  <2>1. ASSUME NEW S \in SUBSET Pages, NEW C \in SUBSET S, NEW P \in SUBSET C, EnqueueURLs(S, C, P)
        PROVE  QuietStart' /\ RunningHasRows' /\ [Life!Next]_(job.status)
    <3>1. PICK old, mid, new : job' = InsertTrigger(StatusTrigger(job, old, mid), mid, new)
      BY <2>1 DEF EnqueueURLs
    <3>2. discovery \notin Sources /\ UNCHANGED <<discovery, pc>>
      BY <2>1, <1>a, <1>c, <1>d DEF EnqueueURLs
    <3>3. job'.status = StatusTrigger(job, old, mid).status
      BY <1>a, <3>1, TriggerCompletes DEF InsertTrigger, JobType
    <3> QED
      BY <1>3, <1>a, <3>2, <3>3, TriggerCompletes
  <2>2. ASSUME NEW D \in (SUBSET HasRow) \ {{}}, NEW U \in [D -> Done \cup {"waiting"}],
               FlushTaskUpdates(U)
        PROVE  QuietStart' /\ RunningHasRows' /\ [Life!Next]_(job.status)
    <3>1. PICK rows1, rows2, rows3 :
             job' = StatusTrigger(StatusTrigger(StatusTrigger(job, task, rows1), rows1, rows2),
                                  rows2, rows3)
      BY <2>2 DEF FlushTaskUpdates
    <3> DEFINE job1 == StatusTrigger(job, task, rows1)
               job2 == StatusTrigger(job1, rows1, rows2)
               Onward(s) == s = job.status \/ (s = "completed" /\ job.status \notin Stopped)
    <3>2. job1 \in JobType /\ Onward(job1.status)
      BY <1>a, TriggerCompletes
    <3>3. job2 \in JobType /\ Onward(job2.status)
      BY <3>2, TriggerCompletes
    <3>4. Onward(job'.status)
      BY <3>1, <3>3, TriggerCompletes
    <3>5. discovery \notin Sources /\ UNCHANGED <<discovery, pc>>
      BY <2>2, <1>c, <1>d DEF FlushTaskUpdates
    <3> QED
      BY <1>3, <3>4, <3>5
  <2>3. ASSUME NEW p \in Pages, PromoteWaitingToPending(p)
        PROVE  QuietStart' /\ RunningHasRows' /\ [Life!Next]_(job.status)
    <3>1. PICK new : job' = StatusTrigger(job, task, new)
      BY <2>3 DEF PromoteWaitingToPending
    <3>2. discovery \notin Sources /\ UNCHANGED <<discovery, pc>>
      BY <2>3, <1>c DEF PromoteWaitingToPending, AnyRow
    <3> QED
      BY <1>3, <1>a, <3>1, <3>2, TriggerCompletes
  <2>4. CASE MarkJobRunning
    BY <2>4, <1>a, <1>b, <1>c, <1>d DEF MarkJobRunning, QuietStart, RunningHasRows, JobType
  <2> QED
    BY <1>1, <1>4, <2>1, <2>2, <2>3, <2>4 DEF Write, SweeperTick
<1>5. ASSUME NEW c \in Callers, Stop(c)
      PROVE  QuietStart' /\ RunningHasRows' /\ [Life!Next]_(job.status)
  <2>1. CASE GetJob(c)
    <3>1. UNCHANGED <<job, discovery>> /\ \A d \in Blockers : c = d => AnyRow(task)
      BY <2>1, <1>d DEF GetJob
    <3>2. \A d \in Callers : d # c => pc'[d] = pc[d]
      BY <2>1, <1>e DEF GetJob
    <3> QED
      BY <1>b, <1>c, <3>1, <3>2 DEF QuietStart, RunningHasRows, Callers
  <2>2. CASE SkipOpenTasks(c) \/ BlockJobLost(c) \/ TransactionFails(c)
    <3>1. /\ UNCHANGED <<job, discovery>> /\ pc[c] # "idle"
          /\ \A d \in Callers : d # c => pc'[d] = pc[d]
      BY <2>2, <1>e DEF SkipOpenTasks, BlockJobLost, TransactionFails
    <3> QED
      BY <1>b, <3>1 DEF QuietStart, RunningHasRows, Callers
  <2>3. ASSUME NEW s, Commit(c, s), pc[c] = "picked"
        PROVE  /\ UNCHANGED discovery /\ \A d \in Callers : d # c => pc'[d] = pc[d]
               /\ job'.status = s
    <3>1. AfterSkip(c) \in JobType
      BY <1>a, TriggerCompletes DEF AfterSkip
    <3> QED
      BY <2>3, <1>e, <3>1 DEF Commit, JobType
  <2>4. CASE CancelJob(c)
    BY <2>3, <2>4 DEF CancelJob, QuietStart, RunningHasRows, Callers
  <2>5. CASE BlockJob(c)
    <3>1. job.status \notin JobTerminal
      BY <2>5, <1>a, TriggerCompletes DEF BlockJob, AfterSkip, JobType, Stoppable, JobTerminal,
         Stopped
    <3>2. job'.status = "blocked" /\ discovery \notin Sources /\ UNCHANGED discovery
      BY <2>3, <2>5 DEF BlockJob, QuietStart
    <3> QED
      BY <3>1, <3>2 DEF QuietStart, RunningHasRows, JobTerminal, Stopped
  <2> QED
    BY <1>5, <2>1, <2>2, <2>4, <2>5 DEF Stop
<1> QED
    BY <1>1, <1>2, <1>4, <1>5 DEF Next, vars

\* The jobs row implements the life of a job.  RunningHasRows is what keeps discovery
\* from failing a job that runs, QuietStart what keeps it from touching one that the
\* breaker blocked.
THEOREM StatusKeepsLife == Spec => LifeKept
<1>1. Init => Life!Init /\ LocksHold /\ QuietStart /\ RunningHasRows
    BY DEF Init, Life!Init, LocksHold, QuietStart, RunningHasRows, Callers
<1>2. Spec => [][Table!Next]_<<task, outbox>>
    BY RecordsKeepTable, PTL DEF TableKept, Table!Spec
<1> QED
    BY <1>1, <1>2, LocksStep, LifeStep, JobsKeepInv, PTL DEF Spec, LifeKept, Life!Spec

\* No writer takes a job out of cancelled, failed or blocked.
THEOREM StoppedJobsStayStopped == Spec => StoppedForGood
<1>1. [Life!Next]_(job.status) => (job.status \in Stopped => job'.status \in Stopped)
    BY DEF Life!Next, Life!Discover, Life!Run, Life!Fail, Life!Complete, Life!Block,
       Life!Cancel, Life!Waits, Life!Ends, Stopped
<1> QED
    BY <1>1, StatusKeepsLife, PTL DEF LifeKept, Life!Spec, StoppedForGood

\* No writer takes a job back to work that has ended, in whichever way.
THEOREM EndedJobsStayEnded == Spec => OverForGood
<1>1. [Life!Next]_(job.status) => (job.status \in JobTerminal => job'.status \in JobTerminal)
    BY DEF Life!Next, Life!Discover, Life!Run, Life!Fail, Life!Complete, Life!Block,
       Life!Cancel, Life!Waits, Life!Ends, Stopped, JobTerminal
<1> QED
    BY <1>1, StatusKeepsLife, PTL DEF LifeKept, Life!Spec, OverForGood

-----------------------------------------------------------------------------
(* What BlockJob's own first statement does to it *)

\* An open row that c has not picked: it was written after c's snapshot.
OpenBehind(c) == \E p \in Pages \ picked[c] : task[p] \in Open

\* How a call of BlockJob ends.
BlockEnds ==
    [][\A c \in Blockers : pc[c] = "picked" =>
          /\ pc'[c] = "done" => OpenBehind(c)
          /\ pc'[c] = "lost" => job.status \in JobTerminal \/ ~OpenBehind(c)]_vars

\* The breaker fires on a crawled page, so its job has a row.
BlockerSawRow == \A c \in Blockers : pc[c] # "idle" => AnyRow(task)

\* A caller that leaves "idle" is one that saw a row, and rows stay.
LEMMA SawRowStep ==
    TypeOK /\ BlockerSawRow /\ [Table!Next]_<<task, outbox>> /\ [Next]_vars => BlockerSawRow'
<1> SUFFICES ASSUME TypeOK, BlockerSawRow, [Table!Next]_<<task, outbox>>, [Next]_vars,
                    NEW c \in Blockers, pc'[c] # "idle"
             PROVE  AnyRow(task')
    BY DEF BlockerSawRow, AnyRow
<1>1. CASE pc[c] # "idle"
    BY <1>1, RowsStay DEF BlockerSawRow
<1>2. CASE pc[c] = "idle"
  <2>1. pc \in [Callers -> {"idle", "read", "picked", "done", "lost", "refused"}]
        /\ c \in Callers
    BY DEF TypeOK, Callers
  <2>2. GetJob(c)
    BY <1>2, <2>1 DEF Next, Discovery, RunWAFPreflight, BeginSitemap, SitemapFails, OpenJob,
       EndSitemap, RefuseRoot, CreateManualRootTask, Write, EnqueueURLs, FlushTaskUpdates,
       PromoteWaitingToPending, SweeperTick, MarkJobRunning, Stop, GetJob, SkipOpenTasks,
       CancelJob, BlockJob, Commit, BlockJobLost, TransactionFails, vars
  <2>3. AnyRow(task)
    BY <2>2 DEF GetJob, HasRow, AnyRow
  <2> QED
    BY <2>3, RowsStay
<1> QED
    BY <1>1, <1>2

\* What the trigger makes of the job when the rows c picked are skipped.
LEMMA SkipOutcome ==
    ASSUME JobsInv, LocksHold, BlockerSawRow, NEW c \in Blockers, pc[c] = "picked"
    PROVE  /\ AfterSkip(c).status \in Stoppable => OpenBehind(c)
           /\ AfterSkip(c).status \notin Stoppable =>
                 job.status \in JobTerminal \/ ~OpenBehind(c)
<1> DEFINE rows == Skipped(c)
           k    == AfterSkip(c)
<1>0. c \in Callers /\ AnyRow(task)
    BY DEF Callers, BlockerSawRow
<1>1. job \in JobType /\ task \in RowType
    BY TypesAgree DEF JobsInv
<1>2. /\ rows \in RowType
      /\ \A p \in Pages : rows[p] = IF p \in picked[c] THEN "skipped" ELSE task[p]
    BY <1>1 DEF Skipped, RowType, Counted
<1>3. picked[c] \subseteq Pages /\ \A p \in picked[c] : task[p] \in Open
    BY <1>0 DEF JobsInv, TypeOK, LocksHold
<1>4. k = StatusTrigger(job, task, rows)
    BY DEF AfterSkip
<1> HIDE DEF rows, k
<1>5. SameRows(task, rows) /\ AnyRow(rows)
    BY <1>0, <1>2, <1>3 DEF SameRows, AnyRow, Open
<1>6. AnyOpen(rows) <=> OpenBehind(c)
    BY <1>2 DEF AnyOpen, OpenBehind, Open
<1>7. /\ k.status = job.status \/ (k.status = "completed" /\ ~AnyOpen(rows))
      /\ task # rows /\ ~AnyOpen(rows) => k.status \in JobTerminal
    BY <1>1, <1>2, <1>4, <1>5, StatusTriggerKeeps DEF JobsInv, Consistent
<1>8. Stoppable \cap JobTerminal = {} /\ job.status \in Stoppable \cup JobTerminal
    BY <1>1 DEF JobType, Stoppable, JobTerminal, Stopped
<1>9. ASSUME k.status \in Stoppable PROVE OpenBehind(c)
  <2>1. CASE picked[c] = {}
    <3>1. OpenBehind(c) <=> AnyOpen(task)
      BY <2>1 DEF OpenBehind, AnyOpen
    <3>2. k.status = job.status
      BY <1>7, <1>8, <1>9 DEF JobTerminal
    <3> QED
      BY <1>0, <1>8, <1>9, <3>1, <3>2 DEF JobsInv, Consistent
  <2>2. CASE picked[c] # {}
    <3>1. task # rows
      BY <1>2, <1>3, <2>2 DEF Open
    <3> QED
      BY <1>6, <1>7, <1>8, <1>9, <3>1
  <2> QED
    BY <2>1, <2>2
<1>10. k.status \notin Stoppable => job.status \in JobTerminal \/ ~OpenBehind(c)
    BY <1>6, <1>7, <1>8
<1> QED
    BY <1>9, <1>10 DEF k

\* BlockJob never blocks a job cleanly.  On a job that nobody else ended it gives up
\* exactly when it has picked every open row, because skipping them completes the job
\* under it; and when it does commit, a row that came after its snapshot stays open
\* under the blocked job.
THEOREM BlockJobsFate == Spec => BlockEnds
<1>1. Init => LocksHold /\ BlockerSawRow
    BY DEF Init, LocksHold, BlockerSawRow, Callers
<1>2. Spec => [][Table!Next]_<<task, outbox>>
    BY RecordsKeepTable, PTL DEF TableKept, Table!Spec
<1>3. JobsInv /\ BlockerSawRow /\ [Table!Next]_<<task, outbox>> /\ [Next]_vars
        => BlockerSawRow'
    BY SawRowStep DEF JobsInv
<1>4. JobsInv /\ LocksHold /\ BlockerSawRow /\ [Next]_vars
        => [\A c \in Blockers : pc[c] = "picked" =>
              /\ pc'[c] = "done" => OpenBehind(c)
              /\ pc'[c] = "lost" => job.status \in JobTerminal \/ ~OpenBehind(c)]_vars
  <2> SUFFICES ASSUME JobsInv, LocksHold, BlockerSawRow, Next,
                      NEW c \in Blockers, pc[c] = "picked"
               PROVE  /\ pc'[c] = "done" => OpenBehind(c)
                      /\ pc'[c] = "lost" => job.status \in JobTerminal \/ ~OpenBehind(c)
    OBVIOUS
  <2>1. pc \in [Callers -> {"idle", "read", "picked", "done", "lost", "refused"}]
        /\ c \in Callers /\ c \notin Cancellers
    BY PagesAssumption DEF JobsInv, TypeOK, Callers
  <2>2. \/ pc'[c] \notin {"done", "lost"}
        \/ BlockJob(c) /\ pc'[c] = "done"
        \/ BlockJobLost(c) /\ pc'[c] = "lost"
    <3>1. CASE Discovery
      BY <3>1 DEF Discovery, RunWAFPreflight, BeginSitemap, SitemapFails, OpenJob,
         EndSitemap, RefuseRoot, CreateManualRootTask
    <3>2. CASE Write
      BY <3>2 DEF Write, EnqueueURLs, FlushTaskUpdates, PromoteWaitingToPending,
         SweeperTick, MarkJobRunning
    <3>3. ASSUME NEW d \in Callers, Stop(d), d # c PROVE pc'[c] = pc[c]
      BY <2>1, <3>3 DEF Stop, GetJob, SkipOpenTasks, CancelJob, BlockJob, Commit,
         BlockJobLost, TransactionFails
    <3>4. CASE Stop(c)
      BY <2>1, <3>4 DEF Stop, GetJob, SkipOpenTasks, CancelJob, BlockJob, Commit,
         BlockJobLost, TransactionFails
    <3> QED
      BY <3>1, <3>2, <3>3, <3>4 DEF Next
  <2>3. BlockJob(c) => AfterSkip(c).status \in Stoppable
    BY DEF BlockJob
  <2>4. BlockJobLost(c) => AfterSkip(c).status \notin Stoppable
    BY DEF BlockJobLost
  <2> QED
    BY <2>2, <2>3, <2>4, SkipOutcome
<1> QED
    BY <1>1, <1>2, <1>3, <1>4, LocksStep, JobsKeepInv, PTL DEF Spec, BlockEnds
=============================================================================
