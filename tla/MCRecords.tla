----------------------------- MODULE MCRecords -----------------------------
(* Records on small sets; only the pages and the callers of JobRecords are  *)
(* declared interchangeable: more permutations cost more than they save.    *)
EXTENDS Records, TLC

CONSTANTS p1, p2, p3, cancel, cancel2, block

MCSymmetry == Permutations(Pages) \cup Permutations(Cancellers)
=============================================================================
