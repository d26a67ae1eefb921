------------------------------ MODULE BrokerFlow ------------------------------
(***************************************************************************)
(* The entries and messages of one job in the broker, counted: due entries *)
(* of the schedule ZSET, unread messages of the stream, and the pending    *)
(* entries list of its consumer group.  A message only comes out of a due  *)
(* entry and only leaves by an acknowledgement, so what is in flight grows *)
(* with publishing alone, until the keys are gone.                         *)
(*                                                                         *)
(* TaskDelivery and AuditRuns know every message, RunningCounters only how *)
(* many there are; all three are shown to stay within this.                *)
(***************************************************************************)
EXTENDS Naturals

VARIABLES due, unread, pending

Init == due = 0 /\ unread = 0 /\ pending = 0

\* The sweeper's ZADDs, or EnqueueURLs': any number of new entries.
Schedule == due' >= due /\ UNCHANGED <<unread, pending>>

\* publishAndRemove: one MULTI of XADD and ZREM.
Publish == due > 0 /\ due' = due - 1 /\ unread' = unread + 1 /\ UNCHANGED pending

\* XREADGROUP.
Read == unread > 0 /\ unread' = unread - 1 /\ pending' = pending + 1 /\ UNCHANGED due

\* XACK of a message that may have been acknowledged before, or ScheduleAndAck, which
\* puts one entry back.
Ack ==
    /\ pending' = pending \/ (pending > 0 /\ pending' = pending - 1)
    /\ due' \in {due, due + 1}
    /\ UNCHANGED unread

\* Redis comes back empty, or RemoveJobKeys deletes the keys of the job.
Vanish == due' = 0 /\ unread' = 0 /\ pending' = 0

Next ==
    /\ due' \in Nat /\ unread' \in Nat /\ pending' \in Nat
    /\ Schedule \/ Publish \/ Read \/ Ack \/ Vanish

Spec == Init /\ [][Next]_<<due, unread, pending>>
=============================================================================
