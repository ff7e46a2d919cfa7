--------------------------- MODULE MCOfflineQueue ---------------------------
(* Instances of OfflineQueue for TLC.                                       *)
EXTENDS OfflineQueue, TLC

Symmetry == Permutations(Pages) \cup Permutations(Loops) \cup Permutations(Forms)
=============================================================================
