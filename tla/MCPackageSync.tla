--------------------------- MODULE MCPackageSync ---------------------------
(* PackageSync for TLC.  Neither copies nor revisions are ordered or chosen *)
(* among, so both sets may be permuted where only safety is checked.        *)
EXTENDS PackageSync, TLC

Symmetry == Permutations(Clients) \cup Permutations(Revisions)

=============================================================================
