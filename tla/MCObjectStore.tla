--------------------------- MODULE MCObjectStore ---------------------------
(* ObjectStore for TLC.                                                     *)
EXTENDS ObjectStore, TLC

Symmetry == Permutations(Procs) \cup Permutations(Packages) \cup Permutations(Objects)

=============================================================================
