--------------------------- MODULE MCLocalCommits ---------------------------
(* Two paths, two contents and what a stopped copy leaves. *)
EXTENDS LocalEntry, TLC

CONSTANTS a, b, c1, c2

Alike == Permutations({a, b}) \cup Permutations({c1, c2})
=============================================================================
