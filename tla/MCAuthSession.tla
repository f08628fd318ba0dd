--------------------------- MODULE MCAuthSession ---------------------------
(* AuthSession for TLC: two tasks of one process and one of another.        *)
EXTENDS AuthSession

CONSTANTS a1, a2, b1, A, B

InTwoProcesses == [t \in Tasks |-> IF t = b1 THEN B ELSE A]

=============================================================================
