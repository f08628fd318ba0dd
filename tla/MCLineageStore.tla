--------------------------- MODULE MCLineageStore ---------------------------
(* LineageStore for TLC.                                                    *)
EXTENDS LineageStore, TLC

Symmetry == Permutations(Writers) \cup Permutations(Namespaces)

\* Homes are moved with set_home only, which refuses while anything is installed.
SetHomeOnly == Next /\ \A w \in Writers : op'[w].kind # "overwrite_home"

SetHomeSpec == Init /\ [][SetHomeOnly]_vars

=============================================================================
