--------------------------- MODULE MCSealService ---------------------------
(* Instances of SealService for TLC.                                       *)
EXTENDS SealService, TLC

Symmetry == Permutations(Threads)
=============================================================================
