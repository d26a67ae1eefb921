--------------------------- MODULE MCTaskDelivery ---------------------------
(* TaskDelivery on two tasks and two handlers. *)
EXTENDS TaskDelivery, TLC

CONSTANTS t1, t2, h1, h2

MCSymmetry == Permutations({t1, t2}) \cup Permutations({h1, h2})
=============================================================================
