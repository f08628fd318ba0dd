----------------------------- MODULE MCPathLock -----------------------------
(* PathLock for TLC: two tasks of one process and one of another.           *)
EXTENDS PathLock

CONSTANTS a1, a2, b1, A, B

InTwoProcesses == [t \in Tasks |-> IF t = b1 THEN B ELSE A]

=============================================================================
