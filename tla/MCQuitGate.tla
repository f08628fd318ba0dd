---------------------------- MODULE MCQuitGate -----------------------------
(* Two writes, three quits and two answers.                                *)
EXTENDS QuitGate
=============================================================================
