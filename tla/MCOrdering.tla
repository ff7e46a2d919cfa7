----------------------------- MODULE MCOrdering -----------------------------
(* Instances of Ordering for TLC.                                          *)
EXTENDS Ordering, TLC

\* Orders and workers are interchangeable.
Symmetry == Permutations(Orders) \cup Permutations(Workers)
=============================================================================
