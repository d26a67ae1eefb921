---------------------------- MODULE MCJobRecords ----------------------------
(* JobRecords on a few pages and calls. *)
EXTENDS JobRecords, TLC

CONSTANTS p1, p2, p3, cancel, cancel2, block

MCSymmetry == Permutations(Pages) \cup Permutations(Cancellers)
=============================================================================
