----------------------------- MODULE TaskPromise -----------------------------
(***************************************************************************)
(* What the services promise of a crawl task once it was enqueued: it is   *)
(* settled, and settled for good, unless something set it adrift.  A task  *)
(* is adrift from the moment a fault took a copy of it, its outbox row was *)
(* dead-lettered, or an older retry update overtook its result; nothing is *)
(* promised of it any more.                                                *)
(***************************************************************************)
CONSTANT Tasks

VARIABLE phase   \* per task: "absent", "open", "settled" or "adrift"

Init == phase = [t \in Tasks |-> "absent"]

Move(t, from, to) == phase[t] \in from /\ phase'[t] = to

\* One step of the services may move several tasks: a flush settles a batch, a
\* crash sets every task adrift whose result was in memory.
Step(t) == \/ phase'[t] = phase[t]
           \/ Move(t, {"absent"}, "open")
           \/ Move(t, {"open"}, "settled")
           \/ Move(t, {"open", "settled"}, "adrift")

Next == /\ phase' \in [Tasks -> {"absent", "open", "settled", "adrift"}]
        /\ \A t \in Tasks : Step(t)

Safe == Init /\ [][Next]_phase

\* No task stays open for ever.
Leaves(t) == phase[t] = "open" ~> phase[t] # "open"

Spec == Safe /\ \A t \in Tasks : Leaves(t)
=============================================================================
