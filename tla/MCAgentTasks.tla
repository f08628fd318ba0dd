---------------------------- MODULE MCAgentTasks ----------------------------
(* AgentTasks for TLC.                                                      *)
EXTENDS AgentTasks, TLC

Symmetry == Permutations(Runs) \cup Permutations(Desktops)

=============================================================================
