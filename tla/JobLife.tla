------------------------------- MODULE JobLife -------------------------------
(***************************************************************************)
(* The life of a job as its status tells it, whoever writes the status:    *)
(* discovery, the triggers, the dispatcher, CancelJob or the circuit       *)
(* breaker.  A job that runs can only complete or be stopped; what is over *)
(* never runs, completes or is blocked again.  The last word is not always *)
(* the first one: a cancellation that read an open job replaces any other  *)
(* ending, and a root page that is refused fails a cancelled job.          *)
(***************************************************************************)
VARIABLE status

Waits == {"pending", "initializing"}
Ends  == {"completed", "cancelled", "failed", "blocked"}

Init == status = "pending"

\* Discovery goes through initializing and back.
Discover == status \in Waits /\ status' \in Waits

\* The first task of the job was published.
Run == status \in Waits /\ status' = "running"

\* Only a job that does not run yet can fail; a cancelled one may.
Fail == status \in Waits \cup {"cancelled"} /\ status' = "failed"

\* The last row is closed.
Complete == status \notin Ends /\ status' = "completed"

Block == status \notin Ends /\ status' = "blocked"

\* CancelJob, from wherever the others have taken the job meanwhile.
Cancel == status' = "cancelled"

Next == Discover \/ Run \/ Fail \/ Complete \/ Block \/ Cancel

Spec == Init /\ [][Next]_status
=============================================================================
