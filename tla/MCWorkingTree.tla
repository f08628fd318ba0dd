--------------------------- MODULE MCWorkingTree ---------------------------
(* WorkingTree for TLC.                                                     *)
EXTENDS TreeEntry, TLC

Symmetry == Permutations(Paths) \cup Permutations(Contents)

=============================================================================
